----------------------------- MODULE RetryQueue -----------------------------
(***************************************************************************)
(* The delayed-retry queue behind the attempt and coin event buses         *)
(* (RetryQueue) and the cron job that copies its dead letters to a table   *)
(* (RetryQueueDrainScheduler).  A handler that throws starts a chain of    *)
(* retries of its event.  The queued item of a chain lives in Redis under  *)
(* a key made of the number of the try and the due time: an item with the  *)
(* same key replaces it.  Every pod polls, under a lock with a TTL.        *)
(* Time is kept as what is left until an item is due.                      *)
(***************************************************************************)
EXTENDS Integers, Sequences, FiniteSets

CONSTANTS
  Events,
  Handlers,      \* 1 .. n, in the order of their subscription
  FailsOn,       \* per event: the handlers that may throw on it
  MaxRetries,    \* retryDelaysMs.length
  DelayOf,       \* retryDelaysMs
  Pods,
  DrainBatch,    \* DRAIN_BATCH
  ListLimit,     \* DEAD_LETTER_LIMIT
  PushKey,       \* deadLetterKey of the bus
  PopKeys,       \* the keys its drain may be configured with; the default is another key
  MaxFaults      \* bound: crashes, lost writes, locks that expire too soon

ASSUME RetryAssumption ==
  /\ Handlers \subseteq Nat /\ IsFiniteSet(Handlers) /\ IsFiniteSet(Events)
  /\ FailsOn \in [Events -> SUBSET Handlers]
  /\ MaxRetries \in Nat \ {0} /\ DelayOf \in [1 .. MaxRetries -> Nat \ {0}]
  /\ DrainBatch \in Nat \ {0} /\ ListLimit \in Nat \ {0} /\ MaxFaults \in Nat

VARIABLES
  fresh,    \* events not yet dispatched
  chain,    \* per event and handler: where the retries of its failure stand
  runs,     \* observation: per chain, the retries that were run
  poll,     \* per pod: the keys it has left to claim, and the one it holds
  lock,     \* the pod whose token is under pollLockKey
  dlq,      \* the list at PushKey
  drainKey, \* deadLetterKey of the drain
  popped,   \* what the drain has taken from the list and not yet written
  faults

rqVars == <<fresh, chain, runs, poll, lock, dlq, drainKey, popped, faults>>

Chains  == {x \in Events \X Handlers : x[2] \in FailsOn[x[1]]}
Nobody  == "nobody"
Nothing == <<>>
Resting == [at |-> "idle", keys |-> {}, hand |-> Nothing]
Unused  == [at |-> "none", attempt |-> 0, left |-> 0]

RQInit ==
  /\ fresh = Events
  /\ chain = [x \in Chains |-> Unused]
  /\ runs = [x \in Chains |-> 0]
  /\ poll = [p \in Pods |-> Resting]
  /\ drainKey \in PopKeys
  /\ lock = Nobody /\ dlq = <<>> /\ popped = Nothing /\ faults = 0

End(how) == [at |-> how, attempt |-> 0, left |-> 0]
Queued(attempt, left) == [at |-> "queued", attempt |-> attempt, left |-> left]

(* A queued item that another one replaces under the same key: its event is
   retried all the same if the two carry one event. *)
Replaced(y, news) ==
  \E x \in DOMAIN news : x # y /\ chain[y] = news[x]
Fate(y, news) ==
  IF \E x \in DOMAIN news : x[1] = y[1] /\ x # y /\ chain[y] = news[x]
    THEN End("merged") ELSE End("overwritten")

(* SET and ZADD of the items, which have different keys. *)
Write(news) ==
  chain' = [y \in Chains |-> CASE y \in DOMAIN news -> news[y]
                               [] y \notin DOMAIN news /\ Replaced(y, news) -> Fate(y, news)
                               [] OTHER -> chain[y]]

-----------------------------------------------------------------------------
(* dispatch: every handler runs; each one that throws schedules a first retry,
   in this millisecond or the next, and of those that share a key the last
   stays.  The write is not awaited and may fail. *)
dispatch(e) ==
  /\ e \in fresh /\ fresh' = fresh \ {e}
  /\ \E throwing \in SUBSET FailsOn[e] : \E late \in [throwing -> {0, 1}] :
       LET stays(h) == \A g \in throwing : g > h => late[g] # late[h]
           due(h)   == Queued(1, DelayOf[1] + late[h])
       IN  \/ /\ chain' = [y \in Chains |->
                   LET news == [x \in {<<e, h>> : h \in {g \in throwing : stays(g)}} |-> due(x[2])]
                   IN  CASE y \in DOMAIN news -> news[y]
                         [] y[1] = e /\ y[2] \in throwing /\ ~stays(y[2]) -> End("merged")
                         [] y[1] # e /\ Replaced(y, news) -> Fate(y, news)
                         [] OTHER -> chain[y]]
              /\ UNCHANGED faults
           \/ /\ throwing # {} /\ faults < MaxFaults /\ faults' = faults + 1
              /\ chain' = [y \in Chains |-> IF y[1] = e /\ y[2] \in throwing
                                              THEN End("lost") ELSE chain[y]]
  /\ UNCHANGED <<drainKey, runs, poll, lock, dlq, popped>>

TimePasses ==
  /\ \E x \in Chains : chain[x].left > 0
  /\ chain' = [x \in Chains |-> IF chain[x].left > 0 THEN [chain[x] EXCEPT !.left = @ - 1]
                                                     ELSE chain[x]]
  /\ UNCHANGED <<fresh, drainKey, runs, poll, lock, dlq, popped, faults>>

(* The payload's TTL ends five minutes after it was due: nobody polled. *)
ExpirePayload(x) ==
  /\ chain[x].at = "queued" /\ chain[x].left = 0 /\ faults < MaxFaults
  /\ chain' = [chain EXCEPT ![x] = End("lost")]
  /\ faults' = faults + 1
  /\ UNCHANGED <<fresh, drainKey, runs, poll, lock, dlq, popped>>

-----------------------------------------------------------------------------
(* processRetryQueue and drainOnce. *)

Due == {x \in Chains : chain[x].at = "queued" /\ chain[x].left = 0}

zrangeByScore(p) ==
  /\ poll[p].at = "idle" /\ lock = Nobody /\ Due # {}
  /\ lock' = p
  /\ \E S \in SUBSET Due :
       /\ Cardinality(S) = IF Cardinality(Due) < DrainBatch THEN Cardinality(Due) ELSE DrainBatch
       /\ poll' = [poll EXCEPT ![p] = [at |-> "draining", hand |-> Nothing,
                                       keys |-> {<<x, chain[x].attempt>> : x \in S}]]
  /\ UNCHANGED <<fresh, drainKey, chain, runs, dlq, popped, faults>>

(* ZREM tells which of two pollers has the item; the key names the try. *)
zrem(p) ==
  /\ poll[p].at = "draining" /\ poll[p].hand = Nothing
  /\ \E k \in poll[p].keys :
       LET x == k[1]
           removed == chain[x].at = "queued" /\ chain[x].attempt = k[2]
       IN  /\ poll' = [poll EXCEPT ![p].keys = @ \ {k}, ![p].hand = IF removed THEN k ELSE Nothing]
           /\ chain' = IF removed THEN [chain EXCEPT ![x].at = "claimed"] ELSE chain
  /\ UNCHANGED <<fresh, drainKey, runs, lock, dlq, popped, faults>>

(* pipelineDeadLetterPush: RPUSH, then LTRIM to the last ListLimit entries. *)
Pushed(x) == LET all == Append(dlq, x)
             IN  IF Len(all) > ListLimit THEN Tail(all) ELSE all
Trimmed(x) == IF Len(dlq) = ListLimit THEN {Head(dlq)} ELSE {}

moveToDeadLetter(x) ==
  /\ dlq' = Pushed(x)
  /\ chain' = [y \in Chains |-> CASE y = x -> End("dead")
                                  [] y # x /\ y \in Trimmed(x) -> End("lost")
                                  [] OTHER -> chain[y]]

(* Mutant: the number of the try is not raised. *)
ScheduleSameTry(x, attempt) ==
  LET a == attempt - 1
      news == [y \in {x} |-> Queued(a, DelayOf[a])]
  IN  Write(news) /\ UNCHANGED dlq

scheduleRetry(x, attempt) ==
  IF attempt > MaxRetries
    THEN moveToDeadLetter(x)
    ELSE LET news == [y \in {x} |-> Queued(attempt, DelayOf[attempt])]
         IN  Write(news) /\ UNCHANGED dlq


(* GETDEL, then the handlers in order: the first that throws ends the retry.
   The key holds the due time, so the item is never one that is not yet due. *)
Handle(p) ==
  /\ poll[p].hand # Nothing
  /\ LET x == poll[p].hand[1]
     IN  /\ runs' = [runs EXCEPT ![x] = @ + 1]
         /\ \/ chain' = [chain EXCEPT ![x] = End("ok")] /\ UNCHANGED <<dlq, faults>>
            \/ scheduleRetry(x, poll[p].hand[2] + 1) /\ UNCHANGED faults
            \/ /\ faults < MaxFaults /\ faults' = faults + 1
               /\ chain' = [chain EXCEPT ![x] = End("lost")] /\ UNCHANGED dlq
  /\ poll' = [poll EXCEPT ![p].hand = Nothing]
  /\ UNCHANGED <<fresh, drainKey, lock, popped>>

EndDrain(p) ==
  /\ poll[p].at = "draining" /\ poll[p].keys = {} /\ poll[p].hand = Nothing
  /\ poll' = [poll EXCEPT ![p] = Resting]
  /\ lock' = IF lock = p THEN Nobody ELSE lock
  /\ UNCHANGED <<fresh, drainKey, chain, runs, dlq, popped, faults>>

(* A pod dies with the item it has claimed; the others are still indexed. *)
Crash(p) ==
  /\ poll[p].at = "draining" /\ faults < MaxFaults
  /\ chain' = IF poll[p].hand = Nothing THEN chain
              ELSE [chain EXCEPT ![poll[p].hand[1]] = End("lost")]
  /\ poll' = [poll EXCEPT ![p] = Resting]
  /\ faults' = faults + 1
  /\ UNCHANGED <<fresh, drainKey, runs, lock, dlq, popped>>

(* The TTL of the lock; a fault while its pod is still draining. *)
ExpireLock ==
  /\ lock # Nobody
  /\ poll[lock].at = "draining" => faults < MaxFaults
  /\ faults' = faults + (IF poll[lock].at = "draining" THEN 1 ELSE 0)
  /\ lock' = Nobody
  /\ UNCHANGED <<fresh, drainKey, chain, runs, poll, dlq, popped>>

-----------------------------------------------------------------------------
(* drainTier of the cron job: LPOP at its own key, then an INSERT. *)

lpopJson ==
  /\ popped = Nothing /\ drainKey = PushKey /\ dlq # <<>>
  /\ popped' = Head(dlq) /\ dlq' = Tail(dlq)
  /\ UNCHANGED <<fresh, drainKey, chain, runs, poll, lock, faults>>

persistEnvelope ==
  /\ popped # Nothing /\ popped' = Nothing
  /\ \/ chain' = [chain EXCEPT ![popped] = End("persisted")] /\ UNCHANGED faults
     \/ /\ faults < MaxFaults /\ faults' = faults + 1
        /\ chain' = [chain EXCEPT ![popped] = End("lost")]
  /\ UNCHANGED <<fresh, drainKey, runs, poll, lock, dlq>>

-----------------------------------------------------------------------------
PodStep(p) == zrangeByScore(p) \/ zrem(p) \/ Handle(p) \/ EndDrain(p)

RQNext ==
  \/ \E e \in Events : dispatch(e)
  \/ TimePasses \/ ExpireLock \/ lpopJson \/ persistEnvelope
  \/ \E x \in Chains : ExpirePayload(x)
  \/ \E p \in Pods : PodStep(p) \/ Crash(p)

RQSpec == RQInit /\ [][RQNext]_rqVars

(* Time passes, the pods' timers and the cron job keep firing. *)
RQFairness ==
  /\ WF_rqVars(TimePasses) /\ WF_rqVars(ExpireLock)
  /\ WF_rqVars(lpopJson) /\ WF_rqVars(persistEnvelope)
  /\ \A p \in Pods : WF_rqVars(PodStep(p))

-----------------------------------------------------------------------------
(* A chain is run at most once for each entry of retryDelaysMs, and is dead only
   when it has been run that often, although the lock may expire and two pods
   then work through the same batch. *)
RetryBudget ==
  \A x \in Chains :
    /\ runs[x] <= MaxRetries
    /\ chain[x].at \in {"dead", "persisted"} => runs[x] = MaxRetries

=============================================================================
