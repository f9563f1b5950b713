---------------------------- MODULE XpIngestion ----------------------------
(***************************************************************************)
(* How earned XP reaches user_ranking.  A producer (a completed attempt, a *)
(* daily challenge, a won tournament) commits an outbox row; its processor *)
(* publishes the grant on Redis pub/sub and marks the row; every replica   *)
(* that is subscribed hands it to XpIngestionService.  A completed attempt *)
(* is also handed to the service in the process that completed it.  The    *)
(* service claims the grant's idempotency key in Redis, credits the XP in  *)
(* one transaction, and releases the claim when the transaction throws.    *)
(*                                                                         *)
(* All three producers give their outbox row the very key that the service *)
(* gives the xp.added row it writes to the same table, so a grant and its  *)
(* key are one thing here.                                                 *)
(***************************************************************************)
EXTENDS Integers

CONSTANTS
  Grants,     \* one grant of XP, named by its idempotencyKey
  Attempts,   \* the grants of completed attempts
  Pods,       \* replicas of the API
  MaxFaults   \* bound: things that go wrong

ASSUME XpAssumption == Attempts \subseteq Grants /\ MaxFaults \in Nat

(* One invocation of processXpEvent at a time per replica and source. *)
Runners == Pods \X {"in_proc", "outbox"}

VARIABLES
  row,        \* the producer's outbox row: none, live, processed
  sent,       \* grants published by a drain that has yet to mark the row
  wire,       \* <<pod, grant>>: messages on their way to a subscriber
  connected,  \* pods whose subscriber is connected
  replay,     \* grants in the replay buckets of the last window
  open,       \* pods whose Redis circuit breaker is open
  claims,     \* keys under xp:processed: in Redis
  received,   \* per grant, runners that have yet to claim it
  holding,    \* per grant, runners about to run the transaction
  releasing,  \* per grant, runners whose transaction threw
  xp,         \* per grant, how often user_ranking was credited
  addedLive,  \* grants whose xp.added row is not yet processed
  faults,
  announced,  \* observation: grants whose xp.added row was ever written
  inDoubt     \* observation: grants whose claim stopped meaning anything

queue    == <<row, sent>>
bus      == <<wire, connected, replay>>
redis    == <<open, claims>>
handlers == <<received, holding, releasing>>
ranking  == <<xp, addedLive, announced>>
vars     == <<queue, bus, redis, handlers, ranking, faults, inDoubt>>

TypeOK ==
  /\ row \in [Grants -> {"none", "live", "processed"}]
  /\ sent \subseteq Grants
  /\ wire \subseteq Pods \X Grants
  /\ connected \subseteq Pods
  /\ replay \subseteq Grants
  /\ open \subseteq Pods
  /\ claims \subseteq Grants
  /\ received \in [Grants -> SUBSET Runners]
  /\ holding \in [Grants -> SUBSET Runners]
  /\ releasing \in [Grants -> SUBSET Runners]
  /\ xp \in [Grants -> Nat]
  /\ addedLive \subseteq announced
  /\ announced \subseteq Grants
  /\ faults \in 0 .. MaxFaults
  /\ inDoubt \subseteq Grants

Nobody == [g \in Grants |-> {}]

Init ==
  /\ row = [g \in Grants |-> "none"]
  /\ sent = {} /\ wire = {} /\ connected = Pods /\ replay = {}
  /\ open = {} /\ claims = {}
  /\ received = Nobody /\ holding = Nobody /\ releasing = Nobody
  /\ xp = [g \in Grants |-> 0]
  /\ addedLive = {} /\ announced = {}
  /\ faults = 0 /\ inDoubt = {}

Fault == faults < MaxFaults /\ faults' = faults + 1

-----------------------------------------------------------------------------
(* The producer and its outbox processor.                                  *)

(* The producer's transaction commits.  An attempt's is followed by the
   domain event, whose listener starts an ingestion in the same process.    *)
Earn(g, p) ==
  /\ row[g] = "none"
  /\ row' = [row EXCEPT ![g] = "live"]
  /\ received' = IF g \in Attempts
                   THEN [received EXCEPT ![g] = @ \cup {<<p, "in_proc">>}]
                   ELSE received
  /\ UNCHANGED <<sent, bus, redis, holding, releasing, ranking, faults, inDoubt>>

(* dispatch on pod p.  With the breaker open publish returns its fallback,
   0, and the dispatch has succeeded with nothing sent.  (A publish that
   throws leaves everything as it is, and the row is retried.)              *)
PublishXpEarned(g, p) ==
  /\ row[g] = "live"
  /\ g \notin sent
  /\ sent' = sent \cup {g}
  /\ wire' = IF p \in open THEN wire ELSE wire \cup (connected \X {g})
  /\ UNCHANGED <<row, connected, replay, redis, handlers, ranking, faults, inDoubt>>

MarkProcessed(g) ==
  /\ g \in sent
  /\ sent' = sent \ {g}
  /\ row' = [row EXCEPT ![g] = "processed"]
  /\ UNCHANGED <<bus, redis, handlers, ranking, faults, inDoubt>>

(* The drain dies or its update fails: a later drain publishes again. *)
MarkProcessedFails(g) ==
  /\ g \in sent
  /\ Fault
  /\ sent' = sent \ {g}
  /\ UNCHANGED <<row, bus, redis, handlers, ranking, inDoubt>>

-----------------------------------------------------------------------------
(* CommonExternalEventBus on one replica.                                  *)

(* handleRedisMessage: the consumer, not the producer, fills the replay
   window, and only through a closed breaker.                               *)
HandleRedisMessage(p, g) ==
  /\ <<p, g>> \in wire
  /\ wire' = wire \ {<<p, g>>}
  /\ replay' = IF p \in open THEN replay ELSE replay \cup {g}
  /\ received' = [received EXCEPT ![g] = @ \cup {<<p, "outbox">>}]
  /\ UNCHANGED <<queue, connected, redis, holding, releasing, ranking, faults, inDoubt>>

Disconnect(p) ==
  /\ p \in connected
  /\ Fault
  /\ connected' = connected \ {p}
  /\ wire' = {m \in wire : m[1] # p}
  /\ UNCHANGED <<queue, replay, redis, handlers, ranking, inDoubt>>

(* connect and replayAndDispatch: all the replay window holds is handed to
   the handlers again; nothing is removed from it.                          *)
Connect(p) ==
  /\ p \notin connected
  /\ connected' = connected \cup {p}
  /\ received' = [g \in Grants |-> IF g \in replay /\ p \notin open
                                     THEN received[g] \cup {<<p, "outbox">>}
                                     ELSE received[g]]
  /\ UNCHANGED <<queue, wire, replay, redis, holding, releasing, ranking, faults, inDoubt>>

ReplayAgesOut(g) ==
  /\ g \in replay
  /\ replay' = replay \ {g}
  /\ UNCHANGED <<queue, wire, connected, redis, handlers, ranking, faults, inDoubt>>

-----------------------------------------------------------------------------
(* processXpEvent, run by r for grant g.                                   *)

(* Mutant: the claim is a read followed by a write, so a taken key does not
   stop a second runner.                                                    *)
TryClaimXpIgnoringKey(r, g) ==
  /\ r \in received[g]
  /\ r[1] \notin open
  /\ claims' = claims \cup {g}
  /\ received' = [received EXCEPT ![g] = @ \ {r}]
  /\ holding' = [holding EXCEPT ![g] = @ \cup {r}]
  /\ UNCHANGED <<queue, bus, open, releasing, ranking, faults, inDoubt>>

(* Mutant: the claim is set and read back, so the runner that set it takes its
   own key for a duplicate.                                                 *)
TryClaimXpThenSkip(r, g) ==
  /\ r \in received[g]
  /\ r[1] \notin open
  /\ g \notin claims
  /\ claims' = claims \cup {g}
  /\ received' = [received EXCEPT ![g] = @ \ {r}]
  /\ UNCHANGED <<queue, bus, open, holding, releasing, ranking, faults, inDoubt>>

(* SET NX succeeds. *)
TryClaimXp(r, g) ==
  /\ r \in received[g]
  /\ r[1] \notin open
  /\ g \notin claims
  /\ claims' = claims \cup {g}
  /\ received' = [received EXCEPT ![g] = @ \ {r}]
  /\ holding' = [holding EXCEPT ![g] = @ \cup {r}]
  /\ UNCHANGED <<queue, bus, open, releasing, ranking, faults, inDoubt>>

(* The key is taken, or the breaker is open and the fallback, false, says
   so: the event is skipped as a duplicate.                                 *)
SkipDuplicate(r, g) ==
  /\ r \in received[g]
  /\ r[1] \in open \/ g \in claims
  /\ received' = [received EXCEPT ![g] = @ \ {r}]
  /\ UNCHANGED <<queue, bus, redis, holding, releasing, ranking, faults, inDoubt>>

(* The command throws: tryClaimXp answers true.  The key may have been
   written before the reply was lost.                                       *)
ClaimFailsOpen(r, g) ==
  /\ r \in received[g]
  /\ r[1] \notin open
  /\ Fault
  /\ claims' \in {claims, claims \cup {g}}
  /\ received' = [received EXCEPT ![g] = @ \ {r}]
  /\ holding' = [holding EXCEPT ![g] = @ \cup {r}]
  /\ inDoubt' = inDoubt \cup {g}
  /\ UNCHANGED <<queue, bus, open, releasing, ranking>>

(* The partial unique index sees the producer's own row too. *)
KeyIsLive(g) == row[g] = "live" \/ g \in addedLive

(* Mutant: the insert goes through although the key is live. *)
CreditSilently(g) ==
  /\ xp' = [xp EXCEPT ![g] = @ + 1]
  /\ addedLive' = addedLive \cup {g}
  /\ announced' = IF KeyIsLive(g) THEN announced ELSE announced \cup {g}

(* The transaction of applyXpEvent: XP, then the xp.added row ON CONFLICT DO
   NOTHING, then the recalculation work items.                              *)
Credit(g) ==
  /\ xp' = [xp EXCEPT ![g] = @ + 1]
  /\ addedLive' = IF KeyIsLive(g) THEN addedLive ELSE addedLive \cup {g}
  /\ announced' = IF KeyIsLive(g) THEN announced ELSE announced \cup {g}

ApplyXpEvent(r, g) ==
  /\ r \in holding[g]
  /\ Credit(g)
  /\ holding' = [holding EXCEPT ![g] = @ \ {r}]
  /\ UNCHANGED <<queue, bus, redis, received, releasing, faults, inDoubt>>

ApplyRollsBack(r, g) ==
  /\ r \in holding[g]
  /\ Fault
  /\ holding' = [holding EXCEPT ![g] = @ \ {r}]
  /\ releasing' = [releasing EXCEPT ![g] = @ \cup {r}]
  /\ UNCHANGED <<queue, bus, redis, received, ranking, inDoubt>>

(* The commit took effect but its reply was lost: the service sees an error. *)
ApplyCommitUnknown(r, g) ==
  /\ r \in holding[g]
  /\ Fault
  /\ Credit(g)
  /\ holding' = [holding EXCEPT ![g] = @ \ {r}]
  /\ releasing' = [releasing EXCEPT ![g] = @ \cup {r}]
  /\ inDoubt' = inDoubt \cup {g}
  /\ UNCHANGED <<queue, bus, redis, received>>

(* The key is deleted, whoever set it; the error is then only logged. *)
ReleaseXp(r, g) ==
  /\ r \in releasing[g]
  /\ claims' = IF r[1] \in open THEN claims ELSE claims \ {g}
  /\ releasing' = [releasing EXCEPT ![g] = @ \ {r}]
  /\ UNCHANGED <<queue, bus, open, received, holding, ranking, faults, inDoubt>>

ReleaseFails(r, g) ==
  /\ r \in releasing[g]
  /\ Fault
  /\ releasing' = [releasing EXCEPT ![g] = @ \ {r}]
  /\ UNCHANGED <<queue, bus, redis, received, holding, ranking, inDoubt>>

-----------------------------------------------------------------------------
(* The environment.                                                        *)

(* The ranking processor finishes the xp.added row: the key is free again. *)
XpAddedProcessed(g) ==
  /\ g \in addedLive
  /\ addedLive' = addedLive \ {g}
  /\ UNCHANGED <<queue, bus, redis, handlers, xp, announced, faults, inDoubt>>

CircuitOpens(p) ==
  /\ p \notin open
  /\ Fault
  /\ open' = open \cup {p}
  /\ UNCHANGED <<queue, bus, claims, handlers, ranking, inDoubt>>

CircuitCloses(p) ==
  /\ p \in open
  /\ open' = open \ {p}
  /\ UNCHANGED <<queue, bus, claims, handlers, ranking, faults, inDoubt>>

(* Seven days pass, for a row that waited in the DLQ for instance. *)
ClaimExpires(g) ==
  /\ g \in claims
  /\ Fault
  /\ claims' = claims \ {g}
  /\ inDoubt' = inDoubt \cup {g}
  /\ UNCHANGED <<queue, bus, open, handlers, ranking>>

Without(who, p) == [g \in Grants |-> {r \in who[g] : r[1] # p}]

(* A replica dies and comes back with no connection and a fresh breaker. *)
Crash(p) ==
  /\ Fault
  /\ received' = Without(received, p)
  /\ holding' = Without(holding, p)
  /\ releasing' = Without(releasing, p)
  /\ connected' = connected \ {p}
  /\ wire' = {m \in wire : m[1] # p}
  /\ open' = open \ {p}
  /\ UNCHANGED <<queue, replay, claims, ranking, inDoubt>>

-----------------------------------------------------------------------------
QueueStep(g) == (\E p \in Pods : Earn(g, p) \/ PublishXpEarned(g, p)) \/ MarkProcessed(g)
                \/ MarkProcessedFails(g) \/ XpAddedProcessed(g)

BusStep(p) ==
  \/ \E g \in Grants : HandleRedisMessage(p, g)
  \/ Disconnect(p) \/ Connect(p) \/ CircuitOpens(p) \/ CircuitCloses(p) \/ Crash(p)

IngestStep(r, g) ==
  \/ TryClaimXp(r, g) \/ SkipDuplicate(r, g) \/ ClaimFailsOpen(r, g)
  \/ ApplyXpEvent(r, g) \/ ApplyRollsBack(r, g) \/ ApplyCommitUnknown(r, g)
  \/ ReleaseXp(r, g) \/ ReleaseFails(r, g)

Next ==
  \/ \E g \in Grants : QueueStep(g) \/ ReplayAgesOut(g) \/ ClaimExpires(g)
  \/ \E p \in Pods : BusStep(p)
  \/ \E r \in Runners, g \in Grants : IngestStep(r, g)

Spec == Init /\ [][Next]_vars

(* The cron drains the outbox, subscribers reconnect with a bounded delay,
   a breaker leaves its open state, and a handler that started goes on.     *)
Fairness ==
  /\ \A g \in Grants : /\ WF_vars(\E p \in Pods : PublishXpEarned(g, p))
                       /\ WF_vars(MarkProcessed(g))
  /\ \A p \in Pods : WF_vars(Connect(p)) /\ WF_vars(CircuitCloses(p))
  /\ \A p \in Pods, g \in Grants : WF_vars(HandleRedisMessage(p, g))
  /\ \A r \in Runners, g \in Grants :
       /\ WF_vars(TryClaimXp(r, g) \/ SkipDuplicate(r, g))
       /\ WF_vars(ApplyXpEvent(r, g))
       /\ WF_vars(ReleaseXp(r, g))

FairSpec == Spec /\ Fairness

-----------------------------------------------------------------------------
(* Properties.                                                             *)

(* XP is credited at most once per grant, however often it is published,
   replayed or ingested on several replicas at once, unless Redis answered
   with an error, the claim outlived its TTL, or a commit was in doubt: the
   outbox index, the second layer processXpEvent counts on, stops nothing.
   And, faults or not, XP is credited only for what a producer committed: no
   message, replayed event or in-process call runs ahead of the producer's row. *)
CreditedOnce ==
  \A g \in Grants : /\ g \notin inDoubt => xp[g] <= 1
                    /\ xp[g] > 0 => row[g] # "none"

(* As long as nothing goes wrong, every grant is credited in the end: the
   in-process path and the outbox path cannot lock each other out.          *)
CreditedIfNothingFails ==
  [](faults = 0) => \A g \in Grants : row[g] = "live" ~> xp[g] >= 1
=============================================================================
