-------------------------- MODULE ResilienceProofs --------------------------
(***************************************************************************)
(* The breaker's safety for any callers, threshold and cool-down, and the  *)
(* retry queue's for any events, handlers, delays, pods and faults.        *)
(***************************************************************************)
EXTENDS CircuitBreaker, RetryQueue, TLAPS

(* While the cool-down clock runs it measures the time since the latest
   failure of any call.                                                     *)
ClockIsQuiet == openedFor # Never => openedFor = quiet

BreakerInv == CoolDownArmed /\ ClockIsQuiet

(* Every field of the breaker keeps its domain. *)
THEOREM BreakerTypeCorrect == Spec => []TypeOK
<1>1. Init => TypeOK
  BY BreakerAssumption DEF Init, TypeOK, Never
<1>2. TypeOK /\ [Next]_vars => TypeOK'
  <2> SUFFICES ASSUME TypeOK, [Next]_vars PROVE TypeOK'
    OBVIOUS
  <2> USE BreakerAssumption DEF TypeOK, Never
  <2>1. ASSUME NEW c \in Calls, Exec(c) PROVE TypeOK'
    BY <2>1 DEF Exec
  <2>2. ASSUME NEW c \in Calls, OnSuccess(c) PROVE TypeOK'
    BY <2>2 DEF OnSuccess
  <2>3. ASSUME NEW c \in Calls, OnFailure(c) PROVE TypeOK'
    BY <2>3 DEF OnFailure, UpTo
  <2>4. CASE Tick
    BY <2>4 DEF Tick, UpTo
  <2>5. CASE Restart
    BY <2>5 DEF Restart
  <2>6. CASE UNCHANGED vars
    BY <2>6 DEF vars
  <2> QED BY <2>1, <2>2, <2>3, <2>4, <2>5, <2>6 DEF Next
<1> QED BY <1>1, <1>2, PTL DEF Spec

LEMMA BreakerInvStep == TypeOK /\ BreakerInv /\ [Next]_vars => BreakerInv'
<1> SUFFICES ASSUME TypeOK, BreakerInv, [Next]_vars PROVE BreakerInv'
  OBVIOUS
<1> USE BreakerAssumption DEF TypeOK, BreakerInv, CoolDownArmed, ClockIsQuiet, Never
<1>1. ASSUME NEW c \in Calls, Exec(c) PROVE BreakerInv'
  BY <1>1 DEF Exec, FailsFast, Elapsed
<1>2. ASSUME NEW c \in Calls, OnSuccess(c) PROVE BreakerInv'
  BY <1>2 DEF OnSuccess
<1>3. ASSUME NEW c \in Calls, OnFailure(c) PROVE BreakerInv'
  BY <1>3 DEF OnFailure, UpTo
<1>4. CASE Tick
  BY <1>4 DEF Tick, UpTo
<1>5. CASE Restart
  BY <1>5 DEF Restart
<1>6. CASE UNCHANGED vars
  BY <1>6 DEF vars
<1> QED BY <1>1, <1>2, <1>3, <1>4, <1>5, <1>6 DEF Next

LEMMA BreakerInvariant == Spec => []BreakerInv
<1>1. Init => BreakerInv
  BY BreakerAssumption DEF Init, BreakerInv, CoolDownArmed, ClockIsQuiet, Never
<1> QED BY <1>1, BreakerTypeCorrect, BreakerInvStep, PTL DEF Spec

(* The cool-down clock runs exactly while the streak is at the threshold. *)
THEOREM CoolDownIsArmed == Spec => []CoolDownArmed
<1>1. BreakerInv => CoolDownArmed
  BY DEF BreakerInv
<1> QED BY <1>1, BreakerInvariant, PTL

(* No call passes an open breaker within a cool-down of any failure. *)
THEOREM ProbesAreLate == Spec => ProbeAfterQuiet
<1> DEFINE Late == \A c \in Calls :
             state = "open" /\ call[c] # "running" /\ call'[c] = "running"
               => quiet >= ResetTimeout
<1>1. TypeOK /\ BreakerInv /\ [Next]_vars => [Late]_vars
  <2> SUFFICES ASSUME TypeOK, BreakerInv, Next, NEW c \in Calls,
                      state = "open", call[c] # "running", call'[c] = "running"
               PROVE  quiet >= ResetTimeout
    OBVIOUS
  <2>1. Exec(c)
    BY DEF Next, Exec, OnSuccess, OnFailure, Tick, Restart, TypeOK
  <2>2. ~FailsFast
    BY <2>1 DEF Exec, TypeOK
  <2> QED BY <2>2, BreakerAssumption
          DEF FailsFast, Elapsed, BreakerInv, ClockIsQuiet, TypeOK, Never
<1> QED BY <1>1, BreakerTypeCorrect, BreakerInvariant, PTL DEF Spec, ProbeAfterQuiet

-----------------------------------------------------------------------------
(***************************************************************************)
(* The retry queue.  An event and its handlers have one chain each; a try  *)
(* is counted by the number in its queued item, and between claim and      *)
(* verdict by the number in the pod's hand.                                *)
(***************************************************************************)

Fates == {"none", "queued", "claimed", "ok", "merged", "overwritten", "dead", "persisted", "lost"}

RetryTypeOK ==
  /\ chain \in [Chains -> [at : Fates, attempt : Nat, left : Nat]]
  /\ runs \in [Chains -> Nat]
  /\ poll \in [Pods -> [at : {"idle", "draining"}, keys : SUBSET (Chains \X Nat),
                        hand : (Chains \X Nat) \cup {Nothing}]]
  /\ dlq \in Seq(Chains) /\ popped \in Chains \cup {Nothing}

(* The try x is at has number n: it is in the budget, and those before it
   have been run. *)
IsTry(x, n) == n \in 1 .. MaxRetries /\ runs[x] = n - 1

QueuedTry == \A x \in Chains : chain[x].at = "queued" => IsTry(x, chain[x].attempt)

(* ZREM gives an item to one pod, whatever the keys they have read. *)
HeldTry ==
  /\ \A p \in Pods : poll[p].hand # Nothing =>
       /\ chain[poll[p].hand[1]].at = "claimed"
       /\ IsTry(poll[p].hand[1], poll[p].hand[2])
  /\ \A p, q \in Pods : p # q /\ poll[p].hand # Nothing /\ poll[q].hand # Nothing
                          => poll[p].hand[1] # poll[q].hand[1]

NotYetTried ==
  \A x \in Chains : /\ x[1] \in fresh => chain[x].at = "none"
                    /\ chain[x].at = "none" => runs[x] = 0

(* What is on its way to the table has used up its tries and is not retried. *)
Exhausted(x) == chain[x].at \notin {"none", "queued", "claimed"} /\ runs[x] = MaxRetries

DeadAreExhausted ==
  /\ \A i \in 1 .. Len(dlq) : Exhausted(dlq[i])
  /\ popped # Nothing => Exhausted(popped)

RetryInv == RetryTypeOK /\ QueuedTry /\ HeldTry /\ NotYetTried /\ DeadAreExhausted /\ RetryBudget

LEMMA RetryConstants ==
  /\ MaxRetries \in Nat /\ MaxRetries > 0 /\ ListLimit \in Nat /\ ListLimit > 0
  /\ \A n \in 1 .. MaxRetries : DelayOf[n] \in Nat
  /\ \A x \in Chains : x = <<x[1], x[2]>> /\ x[1] \in Events /\ x[2] \in FailsOn[x[1]]
  BY RetryAssumption DEF Chains

(* The shapes a chain may take. *)
ChainStates == [at : Fates, attempt : Nat, left : Nat]

LEMMA ShapeTypes ==
  /\ \A f \in Fates : End(f) \in ChainStates /\ End(f).at = f
  /\ \A n, l \in Nat : /\ Queued(n, l) \in ChainStates
                       /\ Queued(n, l).at = "queued" /\ Queued(n, l).attempt = n
  BY DEF End, Queued, ChainStates, Fates

(* What becomes of a chain whose queued item is replaced. *)
LEMMA ReplacedWasQueued ==
  ASSUME NEW y, NEW news, \A x \in DOMAIN news : news[x].at = "queued",
         Replaced(y, news)
  PROVE  /\ chain[y].at = "queued"
         /\ Fate(y, news) = End("merged") \/ Fate(y, news) = End("overwritten")
  BY DEF Replaced, Fate

(* The effects of the steps on one chain. *)
Stays(y)     == chain'[y] = chain[y]
IsQueued(y, n) == chain'[y].at = "queued" /\ chain'[y].attempt = n
Displaced(y) == chain[y].at = "queued" /\ chain'[y].at \in {"merged", "overwritten"}

LEMMA WriteEffect ==
  ASSUME RetryTypeOK, NEW x \in Chains, NEW n \in 1 .. MaxRetries,
         Write([y \in {x} |-> Queued(n, DelayOf[n])])
  PROVE  /\ chain' \in [Chains -> ChainStates] /\ IsQueued(x, n)
         /\ \A y \in Chains : y # x => Stays(y) \/ Displaced(y)
<1> DEFINE news == [y \in {x} |-> Queued(n, DelayOf[n])]
<1>1. DOMAIN news = {x} /\ news[x] = Queued(n, DelayOf[n])
  OBVIOUS
<1>2. DelayOf[n] \in Nat /\ n \in Nat
  BY RetryConstants
<1>3. news[x] \in ChainStates /\ news[x].at = "queued" /\ news[x].attempt = n
  BY <1>1, <1>2, ShapeTypes
<1>4. chain \in [Chains -> ChainStates]
  BY DEF RetryTypeOK, ChainStates
<1>5. {"merged", "overwritten"} \subseteq Fates
  BY DEF Fates
<1> HIDE DEF news
<1>6. \A y \in Chains : Replaced(y, news) =>
        /\ chain[y].at = "queued"
        /\ Fate(y, news) = End("merged") \/ Fate(y, news) = End("overwritten")
  BY <1>1, <1>3, ReplacedWasQueued
<1>7. Write(news)
  BY DEF news
<1>8. /\ chain' = [y \in Chains |-> chain'[y]]
      /\ chain'[x] = news[x]
      /\ \A y \in Chains : y # x => IF Replaced(y, news) THEN chain'[y] = Fate(y, news)
                                                         ELSE chain'[y] = chain[y]
  BY <1>1, <1>7 DEF Write
<1>9. \A y \in Chains : chain'[y] \in ChainStates
  BY <1>3, <1>4, <1>5, <1>6, <1>8, ShapeTypes
<1>10. \A y \in Chains : y # x => Stays(y) \/ Displaced(y)
  BY <1>5, <1>6, <1>8, ShapeTypes DEF Stays, Displaced
<1> QED
  BY <1>3, <1>8, <1>9, <1>10 DEF IsQueued

LEMMA DispatchEffect ==
  ASSUME RetryTypeOK, NEW e \in Events, dispatch(e)
  PROVE  /\ chain' \in [Chains -> ChainStates]
         /\ \A y \in Chains : \/ Stays(y) \/ Displaced(y)
                              \/ y[1] = e /\ (IsQueued(y, 1) \/ chain'[y].at \in {"merged", "lost"})
<1> DEFINE stays(T, l, h) == \A g \in T : g > h => l[g] # l[h]
           due(l, h) == Queued(1, DelayOf[1] + l[h])
           News(T, l) == [x \in {<<e, h>> : h \in {g \in T : stays(T, l, g)}} |-> due(l, x[2])]
<1> DEFINE Effect(T, l) ==
        \/ chain' = [y \in Chains |->
             CASE y \in DOMAIN News(T, l) -> News(T, l)[y]
               [] y[1] = e /\ y[2] \in T /\ ~stays(T, l, y[2]) -> End("merged")
               [] y[1] # e /\ Replaced(y, News(T, l)) -> Fate(y, News(T, l))
               [] OTHER -> chain[y]]
        \/ chain' = [y \in Chains |-> IF y[1] = e /\ y[2] \in T THEN End("lost") ELSE chain[y]]
<1>0. PICK T \in SUBSET FailsOn[e] : \E l \in [T -> {0, 1}] : Effect(T, l)
  BY DEF dispatch
<1>1. PICK l \in [T -> {0, 1}] : Effect(T, l)
  BY <1>0
<1>t. chain \in [Chains -> ChainStates] /\ {"merged", "overwritten", "lost"} \subseteq Fates
  BY DEF RetryTypeOK, ChainStates, Fates
<1> DEFINE news == News(T, l)
<1>2. \A x \in DOMAIN news :
        x[1] = e /\ news[x] \in ChainStates /\ news[x].at = "queued" /\ news[x].attempt = 1
  <2> SUFFICES ASSUME NEW h \in T
               PROVE  /\ <<e, h>>[1] = e /\ due(l, <<e, h>>[2]) \in ChainStates
                      /\ due(l, <<e, h>>[2]).at = "queued" /\ due(l, <<e, h>>[2]).attempt = 1
    OBVIOUS
  <2>1. DelayOf[1] + l[h] \in Nat
    BY RetryConstants
  <2> QED
    BY <2>1, ShapeTypes
<1>3. \A y \in Chains : Replaced(y, news) =>
        /\ chain[y].at = "queued"
        /\ Fate(y, news) = End("merged") \/ Fate(y, news) = End("overwritten")
  <2> HIDE DEF news
  <2> QED
    BY <1>2, ReplacedWasQueued
<1>4. chain' = [y \in Chains |-> chain'[y]]
  BY <1>1
<1>5. ASSUME NEW y \in Chains
      PROVE  \/ chain'[y] = chain[y]
             \/ y \in DOMAIN news /\ chain'[y] = news[y]
             \/ y[1] = e /\ (chain'[y] = End("merged") \/ chain'[y] = End("lost"))
             \/ Replaced(y, news) /\ chain'[y] = Fate(y, news)
  <2>1. CASE chain' = [z \in Chains |->
             CASE z \in DOMAIN news -> news[z]
               [] z[1] = e /\ z[2] \in T /\ ~stays(T, l, z[2]) -> End("merged")
               [] z[1] # e /\ Replaced(z, news) -> Fate(z, news)
               [] OTHER -> chain[z]]
    <3> DEFINE gone(z) == z[1] = e /\ z[2] \in T /\ ~stays(T, l, z[2])
    <3>1. chain'[y] = CASE y \in DOMAIN news -> news[y]
                        [] gone(y) -> End("merged")
                        [] y[1] # e /\ Replaced(y, news) -> Fate(y, news)
                        [] OTHER -> chain[y]
      BY <2>1
    <3>2. ~(y \in DOMAIN news /\ gone(y))
      OBVIOUS
    <3> HIDE DEF news, gone
    <3> QED
      BY <3>1, <3>2, <1>2 DEF gone
  <2>2. CASE chain' = [z \in Chains |-> IF z[1] = e /\ z[2] \in T THEN End("lost") ELSE chain[z]]
    BY <2>2
  <2> QED
    BY <1>1, <2>1, <2>2
<1> HIDE DEF news
<1>6. \A y \in Chains : chain'[y] \in ChainStates
  BY <1>2, <1>3, <1>5, <1>t, ShapeTypes
<1>7. \A y \in Chains : \/ Stays(y) \/ Displaced(y)
                        \/ y[1] = e /\ (IsQueued(y, 1) \/ chain'[y].at \in {"merged", "lost"})
  BY <1>2, <1>3, <1>5, <1>t, ShapeTypes DEF Stays, Displaced, IsQueued
<1> QED
  BY <1>4, <1>6, <1>7

(* What the list holds after a push. *)
LEMMA PushEffect ==
  ASSUME RetryTypeOK, NEW x \in Chains
  PROVE  /\ Pushed(x) \in Seq(Chains) /\ Trimmed(x) \subseteq Chains
         /\ \A i \in 1 .. Len(Pushed(x)) :
              Pushed(x)[i] = x \/ \E j \in 1 .. Len(dlq) : Pushed(x)[i] = dlq[j]
         /\ \A y \in Trimmed(x) : \E j \in 1 .. Len(dlq) : y = dlq[j]
<1> DEFINE all == Append(dlq, x)
<1>1. dlq \in Seq(Chains) /\ Len(dlq) \in Nat /\ \A j \in 1 .. Len(dlq) : dlq[j] \in Chains
  BY DEF RetryTypeOK
<1>2. /\ all \in Seq(Chains) /\ Len(all) = Len(dlq) + 1 /\ all[Len(dlq) + 1] = x
      /\ \A j \in 1 .. Len(dlq) : all[j] = dlq[j]
  BY <1>1
<1>3. /\ Tail(all) \in Seq(Chains) /\ Len(Tail(all)) = Len(dlq)
      /\ \A j \in 1 .. Len(dlq) : Tail(all)[j] = all[j + 1]
  BY <1>1, <1>2
<1>4. Pushed(x) = all \/ Pushed(x) = Tail(all)
  BY DEF Pushed
<1>5. \A y \in Trimmed(x) : Len(dlq) > 0 /\ y = dlq[1]
  BY <1>1, RetryConstants DEF Trimmed
<1> HIDE DEF all
<1>6. \A i \in 1 .. Len(Pushed(x)) :
        Pushed(x)[i] = x \/ \E j \in 1 .. Len(dlq) : Pushed(x)[i] = dlq[j]
  <2>1. CASE Pushed(x) = all
    BY <2>1, <1>1, <1>2
  <2>2. CASE Pushed(x) = Tail(all)
    <3> SUFFICES ASSUME NEW i \in 1 .. Len(dlq)
                 PROVE  all[i + 1] = x \/ \E j \in 1 .. Len(dlq) : all[i + 1] = dlq[j]
      BY <2>2, <1>3
    <3>1. i = Len(dlq) \/ i + 1 \in 1 .. Len(dlq)
      BY <1>1
    <3> QED
      BY <3>1, <1>2
  <2> QED
    BY <1>4, <2>1, <2>2
<1>7. \A y \in Trimmed(x) : y = dlq[1] /\ 1 \in 1 .. Len(dlq)
  BY <1>1, <1>5
<1> QED
  BY <1>1, <1>2, <1>3, <1>4, <1>6, <1>7

LEMMA DeadLetterEffect ==
  ASSUME RetryTypeOK, NEW x \in Chains, moveToDeadLetter(x)
  PROVE  /\ chain' \in [Chains -> ChainStates] /\ chain'[x].at = "dead"
         /\ \A y \in Chains : y # x =>
              Stays(y) \/ (chain'[y].at = "lost" /\ \E j \in 1 .. Len(dlq) : y = dlq[j])
<1>t. chain \in [Chains -> ChainStates] /\ {"dead", "lost"} \subseteq Fates
  BY DEF RetryTypeOK, ChainStates, Fates
<1>1. /\ chain' = [y \in Chains |-> chain'[y]] /\ chain'[x] = End("dead")
      /\ \A y \in Chains : y # x => IF y \in Trimmed(x) THEN chain'[y] = End("lost")
                                                        ELSE chain'[y] = chain[y]
  BY DEF moveToDeadLetter
<1>2. \A y \in Chains : chain'[y] \in ChainStates
  BY <1>t, <1>1, ShapeTypes
<1> QED
  BY <1>t, <1>1, <1>2, ShapeTypes, PushEffect DEF Stays

(* A step that runs nothing, claims nothing and queues nothing anew, and takes
   no chain back from the end of its retries. *)
Settles(y) == \/ /\ chain'[y].at = chain[y].at
                 /\ chain'[y].attempt = chain[y].attempt
              \/ /\ chain[y].at \notin {"none", "claimed"}
                 /\ chain'[y].at \in {"merged", "overwritten", "lost"}

(* What waits for the table keeps waiting. *)
LEMMA DeadStay ==
  ASSUME RetryTypeOK, DeadAreExhausted, UNCHANGED <<dlq, popped>>,
         \A y \in Chains : Exhausted(y) => Exhausted(y)'
  PROVE  DeadAreExhausted'
<1>1. \A i \in 1 .. Len(dlq) : dlq[i] \in Chains
  BY DEF RetryTypeOK
<1>2. popped # Nothing => popped \in Chains
  BY DEF RetryTypeOK
<1> QED
  BY <1>1, <1>2 DEF DeadAreExhausted, Exhausted

LEMMA SettlesKeeps ==
  ASSUME RetryInv, fresh' = fresh, UNCHANGED <<runs, dlq, popped>>,
         chain' \in [Chains -> ChainStates], \A y \in Chains : Settles(y),
         RetryTypeOK', \A p \in Pods : poll'[p].hand \in {poll[p].hand, Nothing}
  PROVE  RetryInv'
<1> USE DEF RetryInv, Settles
<1>1. QueuedTry'
  BY DEF QueuedTry, IsTry
<1>2. HeldTry'
  BY DEF HeldTry, IsTry, RetryTypeOK
<1>3. NotYetTried'
  BY DEF NotYetTried
<1>4. DeadAreExhausted'
  BY DeadStay DEF Exhausted
<1>5. RetryBudget'
  BY DEF RetryBudget
<1> QED
  BY <1>1, <1>2, <1>3, <1>4, <1>5

PollStates == [at : {"idle", "draining"}, keys : SUBSET (Chains \X Nat),
               hand : (Chains \X Nat) \cup {Nothing}]

LEMMA TimePassesKeeps == RetryInv /\ TimePasses => RetryInv'
<1> SUFFICES ASSUME RetryInv, TimePasses PROVE RetryInv'
  OBVIOUS
<1>t. chain \in [Chains -> ChainStates]
  BY DEF RetryInv, RetryTypeOK, ChainStates
<1>1. \A x \in Chains : chain'[x] = IF chain[x].left > 0 THEN [chain[x] EXCEPT !.left = @ - 1]
                                                         ELSE chain[x]
  BY DEF TimePasses
<1>2. ASSUME NEW x \in Chains PROVE chain'[x] \in ChainStates /\ Settles(x)
  <2>1. chain[x].left \in Nat /\ chain[x] \in ChainStates
    BY <1>t DEF ChainStates
  <2>2. CASE chain[x].left > 0
    <3>1. chain[x].left - 1 \in Nat
      BY <2>1, <2>2
    <3>2. chain'[x] = [chain[x] EXCEPT !.left = chain[x].left - 1]
      BY <1>1, <2>2
    <3>3. chain'[x] \in ChainStates
      BY <2>1, <3>1, <3>2 DEF ChainStates
    <3>4. chain'[x].at = chain[x].at /\ chain'[x].attempt = chain[x].attempt
      BY <2>1, <3>2 DEF ChainStates
    <3> QED
      BY <3>3, <3>4 DEF Settles
  <2>3. CASE ~(chain[x].left > 0)
    BY <1>1, <2>1, <2>3 DEF Settles
  <2> QED
    BY <2>2, <2>3
<1>3. chain' \in [Chains -> ChainStates]
  BY <1>2 DEF TimePasses
<1> QED
  BY <1>2, <1>3, SettlesKeeps DEF TimePasses, RetryInv, RetryTypeOK, ChainStates

LEMMA ExpirePayloadKeeps ==
  ASSUME RetryInv, NEW x \in Chains, ExpirePayload(x)
  PROVE  RetryInv'
<1>t. chain \in [Chains -> ChainStates] /\ "lost" \in Fates
  BY DEF RetryInv, RetryTypeOK, ChainStates, Fates
<1>1. chain[x].at = "queued" /\ chain' = [chain EXCEPT ![x] = End("lost")]
  BY DEF ExpirePayload
<1>2. chain'[x] = End("lost") /\ \A y \in Chains : y # x => chain'[y] = chain[y]
  BY <1>t, <1>1
<1>3. \A y \in Chains : Settles(y)
  BY <1>t, <1>1, <1>2, ShapeTypes DEF Settles
<1>4. chain' \in [Chains -> ChainStates]
  BY <1>t, <1>1, ShapeTypes
<1> QED
  BY <1>3, <1>4, SettlesKeeps DEF ExpirePayload, RetryInv, RetryTypeOK, ChainStates

(* The steps that change neither chains nor hands. *)
LEMMA PollKeeps ==
  ASSUME RetryInv, UNCHANGED <<fresh, chain, runs, dlq, popped>>,
         poll' \in [Pods -> PollStates], \A p \in Pods : poll'[p].hand \in {poll[p].hand, Nothing}
  PROVE  RetryInv'
<1>1. chain' \in [Chains -> ChainStates] /\ \A y \in Chains : Settles(y)
  BY DEF RetryInv, RetryTypeOK, ChainStates, Settles
<1> QED
  BY <1>1, SettlesKeeps DEF RetryInv, RetryTypeOK, PollStates

LEMMA PollStepKeeps ==
  ASSUME RetryInv, NEW p \in Pods, zrangeByScore(p) \/ EndDrain(p)
  PROVE  RetryInv'
<1>t. poll \in [Pods -> PollStates] /\ chain \in [Chains -> ChainStates]
  BY DEF RetryInv, RetryTypeOK, PollStates, ChainStates
<1>r. Resting \in PollStates /\ Resting.hand = Nothing
  BY DEF Resting, PollStates
<1>1. CASE zrangeByScore(p)
  <2>1. PICK S \in SUBSET Due :
          poll' = [poll EXCEPT ![p] = [at |-> "draining", hand |-> Nothing,
                                       keys |-> {<<x, chain[x].attempt>> : x \in S}]]
    BY <1>1 DEF zrangeByScore
  <2> DEFINE keys == {<<x, chain[x].attempt>> : x \in S}
             new  == [at |-> "draining", hand |-> Nothing, keys |-> keys]
  <2>2. keys \in SUBSET (Chains \X Nat)
    BY <1>t DEF Due, ChainStates
  <2> HIDE DEF keys
  <2>3. new \in PollStates /\ new.hand = Nothing
    BY <2>2 DEF PollStates
  <2>4. poll' = [poll EXCEPT ![p] = new]
    BY <2>1 DEF keys
  <2> QED
    BY <1>1, <1>t, <2>3, <2>4, PollKeeps DEF zrangeByScore
<1>2. CASE EndDrain(p)
  BY <1>2, <1>t, <1>r, PollKeeps DEF EndDrain
<1> QED
  BY <1>1, <1>2

LEMMA DispatchKeeps ==
  ASSUME RetryInv, NEW e \in Events, dispatch(e)
  PROVE  RetryInv'
<1>1. /\ chain' \in [Chains -> ChainStates]
      /\ \A y \in Chains : \/ Stays(y) \/ Displaced(y)
                           \/ y[1] = e /\ (IsQueued(y, 1) \/ chain'[y].at \in {"merged", "lost"})
  BY DispatchEffect DEF RetryInv
<1>2. UNCHANGED <<runs, poll, dlq, popped>> /\ e \in fresh /\ fresh' = fresh \ {e}
  BY DEF dispatch
<1>3. \A y \in Chains : y[1] = e => chain[y].at = "none" /\ runs[y] = 0
  BY <1>2 DEF RetryInv, NotYetTried
<1>4. \A y \in Chains : chain[y].at \notin {"none", "queued"} => Stays(y)
  BY <1>1, <1>3 DEF Displaced
<1>5. RetryTypeOK'
  BY <1>1, <1>2 DEF RetryInv, RetryTypeOK, ChainStates
<1>6. QueuedTry'
  <2> SUFFICES ASSUME NEW y \in Chains, chain'[y].at = "queued" PROVE IsTry(y, chain[y].attempt)'
    BY DEF QueuedTry
  <2>1. CASE Stays(y)
    BY <2>1, <1>2 DEF Stays, RetryInv, QueuedTry, IsTry
  <2>2. CASE y[1] = e /\ IsQueued(y, 1)
    BY <2>2, <1>2, <1>3, RetryConstants DEF IsQueued, IsTry
  <2> QED
    BY <2>1, <2>2, <1>1 DEF Displaced
<1>7. HeldTry'
  <2>1. \A p \in Pods : poll[p].hand # Nothing => poll[p].hand[1] \in Chains
    BY DEF RetryInv, RetryTypeOK
  <2> QED
    BY <2>1, <1>2, <1>4 DEF RetryInv, HeldTry, IsTry, Stays
<1>8. NotYetTried'
  <2> SUFFICES ASSUME NEW y \in Chains
               PROVE  /\ y[1] \in fresh' => chain'[y].at = "none"
                      /\ chain'[y].at = "none" => runs'[y] = 0
    BY DEF NotYetTried
  <2>1. CASE y[1] = e
    BY <2>1, <1>2, <1>3
  <2>2. CASE y[1] # e
    BY <2>2, <1>1, <1>2 DEF Stays, Displaced, RetryInv, NotYetTried
  <2> QED
    BY <2>1, <2>2
<1>9. DeadAreExhausted'
  <2>1. \A y \in Chains : Exhausted(y) => Exhausted(y)'
    BY <1>2, <1>4 DEF Exhausted, Stays
  <2> QED
    BY <2>1, <1>2, DeadStay DEF RetryInv
<1>10. RetryBudget'
  <2>1. \A y \in Chains : chain'[y].at \in {"dead", "persisted"} => chain[y].at = chain'[y].at
    BY <1>1 DEF Stays, Displaced, IsQueued
  <2> QED
    BY <2>1, <1>2 DEF RetryInv, RetryBudget
<1> QED
  BY <1>5, <1>6, <1>7, <1>8, <1>9, <1>10 DEF RetryInv

LEMMA ClaimKeeps ==
  ASSUME RetryInv, NEW p \in Pods, zrem(p)
  PROVE  RetryInv'
<1>t. /\ poll \in [Pods -> PollStates] /\ chain \in [Chains -> ChainStates] /\ "claimed" \in Fates
  BY DEF RetryInv, RetryTypeOK, PollStates, ChainStates, Fates
<1>1. PICK k \in poll[p].keys :
        LET removed == chain[k[1]].at = "queued" /\ chain[k[1]].attempt = k[2]
        IN  /\ poll' = [poll EXCEPT ![p].keys = @ \ {k}, ![p].hand = IF removed THEN k ELSE Nothing]
            /\ chain' = IF removed THEN [chain EXCEPT ![k[1]].at = "claimed"] ELSE chain
  BY DEF zrem
<1>2. poll[p].keys \subseteq Chains \X Nat /\ poll[p].hand = Nothing
  BY <1>t DEF zrem, PollStates
<1>3. k \in Chains \X Nat /\ k[1] \in Chains
  BY <1>2
<1>4. UNCHANGED <<fresh, runs, dlq, popped>>
  BY DEF zrem
<1> DEFINE x == k[1]
<1>5. CASE ~(chain[x].at = "queued" /\ chain[x].attempt = k[2])
  <2>1. poll' = [poll EXCEPT ![p].keys = @ \ {k}, ![p].hand = Nothing] /\ chain' = chain
    BY <1>1, <1>5
  <2>2. poll' \in [Pods -> PollStates] /\ \A q \in Pods : poll'[q].hand \in {poll[q].hand, Nothing}
    BY <1>t, <2>1 DEF PollStates
  <2> QED
    BY <1>4, <2>1, <2>2, PollKeeps
<1>6. CASE chain[x].at = "queued" /\ chain[x].attempt = k[2]
  <2>1. /\ poll' = [poll EXCEPT ![p].keys = @ \ {k}, ![p].hand = k]
        /\ chain' = [chain EXCEPT ![x].at = "claimed"]
    BY <1>1, <1>6
  <2>2. /\ poll' \in [Pods -> PollStates] /\ poll'[p].hand = k
        /\ \A q \in Pods : q # p => poll'[q].hand = poll[q].hand
    BY <1>t, <1>3, <2>1 DEF PollStates
  <2>3. /\ chain' \in [Chains -> ChainStates] /\ chain'[x].at = "claimed"
        /\ \A y \in Chains : y # x => chain'[y] = chain[y]
    BY <1>t, <1>3, <2>1 DEF ChainStates
  <2>4. RetryTypeOK'
    BY <1>4, <2>2, <2>3 DEF RetryInv, RetryTypeOK, PollStates, ChainStates
  <2>5. IsTry(x, k[2])
    BY <1>3, <1>6 DEF RetryInv, QueuedTry
  <2>6. \A q \in Pods : q # p /\ poll'[q].hand # Nothing =>
          poll'[q].hand[1] \in Chains /\ poll'[q].hand[1] # x
    <3> SUFFICES ASSUME NEW q \in Pods, q # p, poll'[q].hand # Nothing
                 PROVE  poll'[q].hand[1] \in Chains /\ poll'[q].hand[1] # x
      OBVIOUS
    <3>1. poll'[q].hand = poll[q].hand
      BY <2>2
    <3>2. poll[q].hand[1] \in Chains /\ chain[poll[q].hand[1]].at = "claimed"
      BY <3>1, <1>t DEF RetryInv, HeldTry, PollStates
    <3> QED
      BY <3>1, <3>2, <1>6
  <2>7. HeldTry'
    BY <1>4, <2>2, <2>3, <2>5, <2>6 DEF RetryInv, HeldTry, IsTry
  <2>8. QueuedTry' /\ NotYetTried'
    BY <1>4, <1>6, <2>3 DEF RetryInv, QueuedTry, IsTry, NotYetTried
  <2>9. DeadAreExhausted'
    <3>1. \A y \in Chains : Exhausted(y) => Exhausted(y)'
      BY <1>4, <1>6, <2>3 DEF Exhausted
    <3> QED
      BY <3>1, <1>4, DeadStay DEF RetryInv
  <2>10. RetryBudget'
    BY <1>4, <2>3 DEF RetryInv, RetryBudget
  <2> QED
    BY <2>4, <2>7, <2>8, <2>9, <2>10 DEF RetryInv
<1> QED
  BY <1>5, <1>6

(* How a pod may let go of the try n of x: run or not, it is over, queued again
   as the next try, or dead after the last one. *)
Verdict(x, n) ==
  /\ runs' \in [Chains -> Nat] /\ runs'[x] \in {n - 1, n} /\ \A y \in Chains : y # x => runs'[y] = runs[y]
  /\ \/ chain'[x].at \in {"ok", "lost"}
     \/ runs'[x] = n /\ n < MaxRetries /\ IsQueued(x, n + 1)
     \/ runs'[x] = n /\ n >= MaxRetries /\ chain'[x].at = "dead"

(* To the others it does no more than to displace or to trim them. *)
LetGo(p, x) ==
  /\ poll' \in [Pods -> PollStates] /\ poll'[p].hand = Nothing
  /\ \A q \in Pods : q # p => poll'[q].hand = poll[q].hand
  /\ chain' \in [Chains -> ChainStates]
  /\ \A y \in Chains : y # x => \/ Stays(y) \/ Displaced(y)
                                \/ chain'[y].at = "lost" /\ \E j \in 1 .. Len(dlq) : y = dlq[j]
  /\ dlq' \in Seq(Chains)
  /\ \A i \in 1 .. Len(dlq') : \/ \E j \in 1 .. Len(dlq) : dlq'[i] = dlq[j]
                               \/ dlq'[i] = x /\ chain'[x].at = "dead"
  /\ UNCHANGED <<fresh, popped>>

LEMMA LetGoKeeps ==
  ASSUME RetryInv, NEW p \in Pods, poll[p].hand # Nothing,
         LetGo(p, poll[p].hand[1]), Verdict(poll[p].hand[1], poll[p].hand[2])
  PROVE  RetryInv'
<1>0. PICK x, n : x = poll[p].hand[1] /\ n = poll[p].hand[2]
  OBVIOUS
<1>1. /\ x \in Chains /\ n \in 1 .. MaxRetries /\ runs[x] = n - 1 /\ chain[x].at = "claimed"
      /\ n \in Nat
  BY <1>0 DEF RetryInv, RetryTypeOK, HeldTry, IsTry
<1>2. LetGo(p, x) /\ Verdict(x, n)
  BY <1>0
<1>3. \A q \in Pods : q # p /\ poll[q].hand # Nothing => poll[q].hand[1] # x /\ poll[q].hand[1] \in Chains
  BY <1>0 DEF RetryInv, HeldTry, RetryTypeOK
<1>4. \A i \in 1 .. Len(dlq) : dlq[i] \in Chains /\ Exhausted(dlq[i])
  BY DEF RetryInv, RetryTypeOK, DeadAreExhausted
<1>5. \A y \in Chains : y # x /\ chain[y].at \in {"none", "claimed"} => Stays(y)
  BY <1>2, <1>4 DEF LetGo, Displaced, Exhausted
<1>6. \A y \in Chains : Exhausted(y) => y # x /\ Exhausted(y)'
  <2> SUFFICES ASSUME NEW y \in Chains, Exhausted(y) PROVE y # x /\ Exhausted(y)'
    OBVIOUS
  <2>1. y # x
    BY <1>1 DEF Exhausted
  <2>2. runs'[y] = runs[y] /\ (Stays(y) \/ chain'[y].at \in {"merged", "overwritten", "lost"})
    BY <2>1, <1>2 DEF LetGo, Verdict, Displaced
  <2> QED
    BY <2>1, <2>2 DEF Exhausted, Stays
<1>7. RetryTypeOK'
  BY <1>2 DEF LetGo, Verdict, RetryInv, RetryTypeOK, PollStates, ChainStates
<1>8. QueuedTry'
  <2> SUFFICES ASSUME NEW y \in Chains, chain'[y].at = "queued" PROVE IsTry(y, chain[y].attempt)'
    BY DEF QueuedTry
  <2>1. CASE y = x
    BY <2>1, <1>1, <1>2, RetryConstants DEF Verdict, IsQueued, IsTry
  <2>2. CASE y # x
    <3>1. Stays(y) /\ runs'[y] = runs[y]
      BY <2>2, <1>2 DEF LetGo, Verdict, Displaced
    <3> QED
      BY <3>1 DEF Stays, RetryInv, QueuedTry, IsTry
  <2> QED
    BY <2>1, <2>2
<1>9. HeldTry'
  <2> SUFFICES ASSUME NEW q \in Pods, poll'[q].hand # Nothing
               PROVE  /\ chain'[poll'[q].hand[1]].at = "claimed"
                      /\ IsTry(poll[q].hand[1], poll[q].hand[2])'
                      /\ \A r \in Pods : q # r /\ poll'[r].hand # Nothing
                                           => poll'[q].hand[1] # poll'[r].hand[1]
    BY DEF HeldTry
  <2>1. q # p /\ poll'[q].hand = poll[q].hand
    BY <1>2 DEF LetGo
  <2>2. Stays(poll[q].hand[1]) /\ runs'[poll[q].hand[1]] = runs[poll[q].hand[1]]
    BY <2>1, <1>2, <1>3, <1>5 DEF RetryInv, HeldTry, Verdict
  <2>3. \A r \in Pods : poll'[r].hand # Nothing => poll'[r].hand = poll[r].hand
    BY <1>2 DEF LetGo
  <2> QED
    BY <2>1, <2>2, <2>3 DEF RetryInv, HeldTry, IsTry, Stays
<1>10. NotYetTried'
  <2> SUFFICES ASSUME NEW y \in Chains
               PROVE  /\ y[1] \in fresh => chain'[y].at = "none"
                      /\ chain'[y].at = "none" => runs'[y] = 0
    BY <1>2 DEF NotYetTried, LetGo
  <2>1. CASE y = x
    BY <2>1, <1>1, <1>2 DEF Verdict, IsQueued, RetryInv, NotYetTried
  <2>2. CASE y # x
    <3>1. runs'[y] = runs[y]
      BY <2>2, <1>2 DEF Verdict
    <3>2. chain[y].at = "none" => chain'[y].at = "none"
      BY <2>2, <1>5 DEF Stays
    <3>3. chain'[y].at = "none" => chain[y].at = "none"
      BY <2>2, <1>2 DEF LetGo, Stays, Displaced
    <3>4. /\ y[1] \in fresh => chain[y].at = "none"
          /\ chain[y].at = "none" => runs[y] = 0
      BY DEF RetryInv, NotYetTried
    <3> QED
      BY <3>1, <3>2, <3>3, <3>4
  <2> QED
    BY <2>1, <2>2
<1>11. DeadAreExhausted'
  <2>1. chain'[x].at = "dead" => Exhausted(x)'
    BY <1>1, <1>2, RetryConstants DEF Verdict, IsQueued, Exhausted
  <2>2. ASSUME NEW i \in 1 .. Len(dlq') PROVE Exhausted(dlq[i])'
    <3>1. PICK y : y = dlq'[i]
      OBVIOUS
    <3>2. Exhausted(y)'
      <4>1. CASE \E j \in 1 .. Len(dlq) : y = dlq[j]
        BY <4>1, <1>4, <1>6
      <4>2. CASE y = x /\ chain'[x].at = "dead"
        BY <4>2, <2>1
      <4> QED
        BY <3>1, <4>1, <4>2, <1>2 DEF LetGo
    <3> QED
      BY <3>1, <3>2 DEF Exhausted
  <2>3. popped # Nothing => popped \in Chains /\ Exhausted(popped)
    BY DEF RetryInv, RetryTypeOK, DeadAreExhausted
  <2>4. popped' # Nothing => Exhausted(popped)'
    BY <2>3, <1>2, <1>6 DEF LetGo, Exhausted
  <2> QED
    BY <2>2, <2>4 DEF DeadAreExhausted
<1>12. RetryBudget'
  <2> SUFFICES ASSUME NEW y \in Chains
               PROVE  /\ runs'[y] <= MaxRetries
                      /\ chain'[y].at \in {"dead", "persisted"} => runs'[y] = MaxRetries
    BY DEF RetryBudget
  <2>1. CASE y = x
    BY <2>1, <1>1, <1>2, RetryConstants DEF Verdict, IsQueued
  <2>2. CASE y # x
    BY <2>2, <1>2 DEF LetGo, Verdict, Stays, Displaced, RetryInv, RetryBudget
  <2> QED
    BY <2>1, <2>2
<1> QED
  BY <1>7, <1>8, <1>9, <1>10, <1>11, <1>12 DEF RetryInv

LEMMA HandleKeeps ==
  ASSUME RetryInv, NEW p \in Pods, Handle(p)
  PROVE  RetryInv'
<1>0. PICK x, n : x = poll[p].hand[1] /\ n = poll[p].hand[2]
  OBVIOUS
<1>t. /\ poll \in [Pods -> PollStates] /\ chain \in [Chains -> ChainStates]
      /\ runs \in [Chains -> Nat] /\ {"ok", "lost"} \subseteq Fates
      /\ dlq \in Seq(Chains) /\ RetryTypeOK
  BY DEF RetryInv, RetryTypeOK, PollStates, ChainStates, Fates
<1>1. /\ poll[p].hand # Nothing /\ x \in Chains
      /\ n \in 1 .. MaxRetries /\ runs[x] = n - 1 /\ n \in Nat
  BY <1>0 DEF Handle, RetryInv, RetryTypeOK, HeldTry, IsTry
<1>2. /\ runs' = [runs EXCEPT ![x] = @ + 1] /\ UNCHANGED <<fresh, popped>>
      /\ poll' = [poll EXCEPT ![p].hand = Nothing]
  BY <1>0 DEF Handle
<1>3. runs' \in [Chains -> Nat] /\ runs'[x] = n /\ \A y \in Chains : y # x => runs'[y] = runs[y]
  BY <1>t, <1>1, <1>2
<1>4. /\ poll' \in [Pods -> PollStates] /\ poll'[p].hand = Nothing
      /\ \A q \in Pods : q # p => poll'[q].hand = poll[q].hand
  BY <1>t, <1>2 DEF PollStates
<1>5. LetGo(p, x) /\ Verdict(x, n)
  <2>1. ASSUME NEW how \in {"ok", "lost"}, chain' = [chain EXCEPT ![x] = End(how)], dlq' = dlq
        PROVE  LetGo(p, x) /\ Verdict(x, n)
    <3>1. /\ chain' \in [Chains -> ChainStates] /\ chain'[x] = End(how)
          /\ \A y \in Chains : y # x => chain'[y] = chain[y]
      BY <1>t, <1>1, <2>1, ShapeTypes
    <3>2. chain'[x].at = how
      BY <1>t, <3>1, ShapeTypes
    <3> QED
      BY <1>t, <1>2, <1>3, <1>4, <2>1, <3>1, <3>2 DEF LetGo, Verdict, Stays
  <2>2. CASE scheduleRetry(x, n + 1) /\ n + 1 > MaxRetries
    <3>1. moveToDeadLetter(x) /\ dlq' = Pushed(x)
      BY <2>2 DEF scheduleRetry, moveToDeadLetter
    <3>2. /\ chain' \in [Chains -> ChainStates] /\ chain'[x].at = "dead"
          /\ \A y \in Chains : y # x =>
               Stays(y) \/ (chain'[y].at = "lost" /\ \E j \in 1 .. Len(dlq) : y = dlq[j])
      BY <1>t, <1>1, <3>1, DeadLetterEffect
    <3>3. /\ dlq' \in Seq(Chains)
          /\ \A i \in 1 .. Len(dlq') : dlq'[i] = x \/ \E j \in 1 .. Len(dlq) : dlq'[i] = dlq[j]
      BY <1>t, <1>1, <3>1, PushEffect
    <3>4. n >= MaxRetries
      BY <1>1, <2>2, RetryConstants
    <3> QED
      BY <1>2, <1>3, <1>4, <3>2, <3>3, <3>4 DEF LetGo, Verdict
  <2>3. CASE scheduleRetry(x, n + 1) /\ ~(n + 1 > MaxRetries)
    <3>1. n + 1 \in 1 .. MaxRetries /\ n < MaxRetries
      BY <1>1, <2>3, RetryConstants
    <3>2. Write([y \in {x} |-> Queued(n + 1, DelayOf[n + 1])]) /\ dlq' = dlq
      BY <2>3 DEF scheduleRetry
    <3>3. /\ chain' \in [Chains -> ChainStates] /\ IsQueued(x, n + 1)
          /\ \A y \in Chains : y # x => Stays(y) \/ Displaced(y)
      BY <1>t, <1>1, <3>1, <3>2, WriteEffect
    <3> QED
      BY <1>t, <1>2, <1>3, <1>4, <3>1, <3>2, <3>3 DEF LetGo, Verdict
  <2> QED
    BY <1>0, <2>1, <2>2, <2>3 DEF Handle
<1> QED
  BY <1>0, <1>1, <1>5, LetGoKeeps

LEMMA CrashKeeps ==
  ASSUME RetryInv, NEW p \in Pods, Crash(p)
  PROVE  RetryInv'
<1>t. /\ poll \in [Pods -> PollStates] /\ chain \in [Chains -> ChainStates]
      /\ runs \in [Chains -> Nat] /\ dlq \in Seq(Chains) /\ "lost" \in Fates
      /\ Resting \in PollStates /\ Resting.hand = Nothing
  BY DEF RetryInv, RetryTypeOK, PollStates, ChainStates, Fates, Resting
<1>1. poll' = [poll EXCEPT ![p] = Resting] /\ UNCHANGED <<fresh, runs, dlq, popped>>
  BY DEF Crash
<1>2. /\ poll' \in [Pods -> PollStates] /\ poll'[p].hand = Nothing
      /\ \A q \in Pods : q # p => poll'[q].hand = poll[q].hand
  BY <1>t, <1>1
<1>3. CASE poll[p].hand = Nothing
  <2>1. chain' = chain
    BY <1>3 DEF Crash
  <2> QED
    BY <1>1, <1>2, <2>1, PollKeeps
<1>4. CASE poll[p].hand # Nothing
  <2>0. PICK x, n : x = poll[p].hand[1] /\ n = poll[p].hand[2]
    OBVIOUS
  <2>1. x \in Chains /\ runs[x] = n - 1
    BY <1>4, <2>0 DEF RetryInv, RetryTypeOK, HeldTry, IsTry
  <2>2. chain' = [chain EXCEPT ![x] = End("lost")]
    BY <1>4, <2>0 DEF Crash
  <2>3. /\ chain' \in [Chains -> ChainStates] /\ chain'[x].at = "lost"
        /\ \A y \in Chains : y # x => chain'[y] = chain[y]
    BY <1>t, <2>1, <2>2, ShapeTypes
  <2>4. LetGo(p, x)
    BY <1>t, <1>1, <1>2, <2>3 DEF LetGo, Stays
  <2>5. Verdict(x, n)
    BY <1>t, <1>1, <2>1, <2>3 DEF Verdict
  <2> QED
    BY <1>4, <2>0, <2>4, <2>5, LetGoKeeps
<1> QED
  BY <1>3, <1>4

(* The drain takes from the list what is exhausted. *)
LEMMA PopKeeps == RetryInv /\ lpopJson => RetryInv'
<1> SUFFICES ASSUME RetryInv, lpopJson PROVE RetryInv'
  OBVIOUS
<1>1. /\ dlq \in Seq(Chains) /\ Len(dlq) > 0 /\ popped' = dlq[1] /\ dlq' = Tail(dlq)
      /\ UNCHANGED <<fresh, chain, runs, poll>>
  BY DEF RetryInv, RetryTypeOK, lpopJson
<1>2. /\ dlq' \in Seq(Chains) /\ popped' \in Chains
      /\ \A i \in 1 .. Len(dlq') : i + 1 \in 1 .. Len(dlq) /\ dlq'[i] = dlq[i + 1]
  BY <1>1
<1>3. RetryTypeOK'
  BY <1>1, <1>2 DEF RetryInv, RetryTypeOK
<1>4. DeadAreExhausted'
  <2>1. \A i \in 1 .. Len(dlq) : Exhausted(dlq[i])
    BY DEF RetryInv, DeadAreExhausted
  <2> QED
    BY <1>1, <1>2, <2>1 DEF DeadAreExhausted, Exhausted
<1>5. QueuedTry' /\ HeldTry' /\ NotYetTried' /\ RetryBudget'
  BY <1>1 DEF RetryInv, QueuedTry, HeldTry, IsTry, NotYetTried, RetryBudget
<1> QED
  BY <1>3, <1>4, <1>5 DEF RetryInv

LEMMA PersistKeeps == RetryInv /\ persistEnvelope => RetryInv'
<1> SUFFICES ASSUME RetryInv, persistEnvelope PROVE RetryInv'
  OBVIOUS
<1>0. PICK x : x = popped
  OBVIOUS
<1>t. chain \in [Chains -> ChainStates] /\ {"persisted", "lost"} \subseteq Fates
  BY DEF RetryInv, RetryTypeOK, ChainStates, Fates
<1>1. /\ x \in Chains /\ Exhausted(x) /\ popped' = Nothing
      /\ UNCHANGED <<fresh, runs, poll, dlq>>
  BY <1>0 DEF RetryInv, RetryTypeOK, DeadAreExhausted, persistEnvelope
<1>2. PICK how \in {"persisted", "lost"} : chain' = [chain EXCEPT ![x] = End(how)]
  BY <1>0 DEF persistEnvelope
<1>3. /\ chain' \in [Chains -> ChainStates] /\ chain'[x].at = how
      /\ \A y \in Chains : y # x => chain'[y] = chain[y]
  BY <1>t, <1>1, <1>2, ShapeTypes
<1>4. RetryTypeOK'
  BY <1>1, <1>3 DEF RetryInv, RetryTypeOK, ChainStates
<1>5. QueuedTry' /\ NotYetTried' /\ RetryBudget'
  BY <1>1, <1>3 DEF RetryInv, QueuedTry, IsTry, NotYetTried, RetryBudget, Exhausted
<1>6. HeldTry'
  <2>1. \A p \in Pods : poll[p].hand # Nothing => poll[p].hand[1] \in Chains /\ poll[p].hand[1] # x
    BY <1>1 DEF RetryInv, RetryTypeOK, HeldTry, Exhausted
  <2> QED
    BY <2>1, <1>1, <1>3 DEF RetryInv, HeldTry, IsTry
<1>7. DeadAreExhausted'
  <2>1. \A y \in Chains : Exhausted(y) => Exhausted(y)'
    BY <1>1, <1>3 DEF Exhausted
  <2>2. \A i \in 1 .. Len(dlq) : dlq[i] \in Chains /\ Exhausted(dlq[i])
    BY DEF RetryInv, RetryTypeOK, DeadAreExhausted
  <2> QED
    BY <1>1, <2>1, <2>2 DEF DeadAreExhausted, Exhausted
<1> QED
  BY <1>4, <1>5, <1>6, <1>7 DEF RetryInv

LEMMA RetryInvariant == RQSpec => []RetryInv
<1>1. RQInit => RetryInv
  <2> SUFFICES ASSUME RQInit PROVE RetryInv
    OBVIOUS
  <2>1. Resting \in PollStates /\ Resting.hand = Nothing
    BY DEF Resting, PollStates
  <2>2. Unused \in ChainStates /\ Unused.at = "none"
    BY DEF Unused, ChainStates, Fates
  <2>3. /\ chain \in [Chains -> ChainStates] /\ \A x \in Chains : chain[x].at = "none" /\ runs[x] = 0
        /\ poll \in [Pods -> PollStates] /\ \A p \in Pods : poll[p].hand = Nothing
        /\ runs \in [Chains -> Nat] /\ dlq = <<>> /\ popped = Nothing
    BY <2>1, <2>2 DEF RQInit
  <2>4. RetryTypeOK
    BY <2>3 DEF RetryTypeOK, PollStates, ChainStates
  <2> QED
    BY <2>3, <2>4, RetryConstants
    DEF RetryInv, QueuedTry, HeldTry, NotYetTried, DeadAreExhausted, RetryBudget
<1>2. RetryInv /\ [RQNext]_rqVars => RetryInv'
  <2> SUFFICES ASSUME RetryInv, [RQNext]_rqVars PROVE RetryInv'
    OBVIOUS
  <2>1. CASE ExpireLock \/ UNCHANGED rqVars
    <3>1. UNCHANGED <<fresh, chain, runs, poll, dlq, popped>>
      BY <2>1 DEF ExpireLock, rqVars
    <3>2. poll' \in [Pods -> PollStates]
      BY <3>1 DEF RetryInv, RetryTypeOK, PollStates
    <3> QED
      BY <3>1, <3>2, PollKeeps
  <2>2. ASSUME NEW p \in Pods, PodStep(p) \/ Crash(p) PROVE RetryInv'
    BY <2>2, PollStepKeeps, ClaimKeeps, HandleKeeps, CrashKeeps DEF PodStep
  <2> QED
    BY <2>1, <2>2, DispatchKeeps, TimePassesKeeps, ExpirePayloadKeeps, PopKeeps, PersistKeeps
    DEF RQNext
<1> QED
  BY <1>1, <1>2, PTL DEF RQSpec

(* Whatever the pods, the faults and the times at which the lock expires, a
   chain is retried at most once for each entry of retryDelaysMs, and what is
   dead has used up all of them.                                            *)
THEOREM RetriesStayInBudget == RQSpec => []RetryBudget
<1>1. RetryInv => RetryBudget
  BY DEF RetryInv
<1> QED
  BY <1>1, RetryInvariant, PTL

(* Two pods that work through one batch never hold the same try: the number in
   a pod's hand is that of the next run of its chain, and no other pod has it. *)
THEOREM TriesAreExclusive == RQSpec => []HeldTry
<1>1. RetryInv => HeldTry
  BY DEF RetryInv
<1> QED
  BY <1>1, RetryInvariant, PTL
=============================================================================
