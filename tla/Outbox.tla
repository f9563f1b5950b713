------------------------------- MODULE Outbox -------------------------------
(***************************************************************************)
(* The transactional outbox: the outbox_events table, the processors that  *)
(* drain it (the BaseOutboxProcessor family, tournament and review), the   *)
(* Redis advisory lock that most of them take, the cleanup cron and the    *)
(* recovery CLI.                                                           *)
(*                                                                         *)
(* A worker is one invocation slot of one processor on one pod: two slots  *)
(* of a processor are two replicas, or two overlapping ticks of one pod    *)
(* (neither the cron decorator nor the base class keeps ticks apart).      *)
(* Every SQL statement is one atomic step; nothing holds a row between     *)
(* two of them, because runProcessPendingEvents is always called with the  *)
(* pool (this.db) and never with a transaction.                            *)
(***************************************************************************)
EXTENDS Integers, FiniteSets

CONSTANTS
  Events,      \* events that may be scheduled, numbered in created_at order
  AggOf,       \* aggregateType of an event, named after the owning processor
  KeyOf,       \* idempotencyKey of an event, NoKey when the column is null
  NoKey,
  Bad,         \* events whose payload the owner's parser rejects
  Workers,     \* drain invocations
  ProcOf,      \* the processor a worker runs
  PodOf,       \* the pod a worker runs on
  Free,        \* no advisory lock key in Redis
  Orphan,      \* a lock token nobody will release
  MaxRetries,  \* retry limit of every processor
  BatchSize,   \* LIMIT of the drain query
  MaxFaults,   \* bound: crashes, failed statements, lost Redis replies
  MaxOps       \* bound: operator commands

(* The processors that extend BaseOutboxProcessor; two have their own loop. *)
BaseFamily == {"auth", "ranking", "Achievement", "coin", "attempt", "daily_challenge"}
Processors == BaseFamily \cup {"tournament", "review"}

NoEvent == 0
Pods == {PodOf[w] : w \in Workers}

ASSUME ConstantsAssumption ==
  /\ Events \subseteq Nat \ {NoEvent}
  /\ AggOf \in [Events -> Processors]
  /\ Bad \subseteq Events
  /\ ProcOf \in [Workers -> Processors]
  /\ Free \notin Workers /\ Orphan \notin Workers /\ Free # Orphan
  /\ MaxRetries \in [Processors -> Nat \ {0}]
  /\ BatchSize \in Nat \ {0}
  /\ MaxFaults \in Nat /\ MaxOps \in Nat

VARIABLES
  rows,        \* events with a row in outbox_events
  gone,        \* events whose row the cleanup cron deleted
  processed,   \* processed_at IS NOT NULL (kept for deleted rows)
  failed,      \* failed_at IS NOT NULL
  discarded,   \* dlq_reason was written by the CLI's discard
  due,         \* next_attempt_at <= now
  attempts,    \* attempt_count
  claim,       \* per worker, how far its drain has got with a row
  held,        \* per worker, the attempt_count it read with the row
  pc,          \* per worker: idle, polled (lock taken), drain, adrift (drain threw)
  lock,        \* per processor, the token stored under its lock key
  processedInRun, \* per pod, the tournament processor's in-memory set
  cli,         \* the row the CLI has read and is about to update
  faults, ops, \* bounds used up
  delivered,   \* observation: events their own dispatcher has carried out
  conflicts,   \* observation: events a dispatch error was taken for a duplicate of
  tries,       \* observation: dispatches that failed since the last operator retry,
               \* counted until the owner's limit is used up
  overtaken,   \* observation: events in a drain's hands at that operator retry
  leased       \* observation: workers whose lock TTL has not run out

table    == <<rows, gone, processed, failed, discarded, due, attempts>>
drains   == <<claim, held, pc, processedInRun>>
locks    == <<lock, leased>>
bounds   == <<faults, ops>>
observed == <<delivered, conflicts, tries, overtaken>>
vars     == <<table, drains, locks, cli, bounds, observed>>

ClaimStates == {"none", "claimed", "sent", "conflict", "failed", "fatal"}

TypeOK ==
  /\ rows \subseteq Events /\ gone \subseteq Events /\ processed \subseteq Events
  /\ failed \subseteq Events /\ discarded \subseteq Events /\ due \subseteq Events
  /\ attempts \in [Events -> Nat]
  /\ claim \in [Workers -> [Events -> ClaimStates]]
  /\ held \in [Workers -> [Events -> Nat]]
  /\ pc \in [Workers -> {"idle", "polled", "drain", "adrift"}]
  /\ lock \in [Processors -> Workers \cup {Free, Orphan}]
  /\ processedInRun \in [Pods -> SUBSET Events]
  /\ cli \in Events \cup {NoEvent}
  /\ faults \in Nat /\ ops \in Nat
  /\ delivered \subseteq Events /\ conflicts \subseteq Events /\ overtaken \subseteq Events
  /\ tries \in [Events -> Nat]
  /\ leased \subseteq Workers

NoClaims  == [e \in Events |-> "none"]
NothingRead == [e \in Events |-> 0]

Init ==
  /\ rows = {} /\ gone = {} /\ processed = {} /\ failed = {} /\ discarded = {} /\ due = {}
  /\ attempts = [e \in Events |-> 0]
  /\ claim = [w \in Workers |-> NoClaims]
  /\ held = [w \in Workers |-> NothingRead]
  /\ pc = [w \in Workers |-> "idle"]
  /\ lock = [p \in Processors |-> Free]
  /\ processedInRun = [d \in Pods |-> {}]
  /\ cli = NoEvent
  /\ faults = 0 /\ ops = 0
  /\ delivered = {} /\ conflicts = {} /\ overtaken = {} /\ leased = {}
  /\ tries = [e \in Events |-> 0]

-----------------------------------------------------------------------------
(* What tells the processors apart.                                        *)

(* Processors whose tick runs only under the advisory lock. *)
Locked(p) == p \in {"coin", "attempt", "daily_challenge", "tournament", "review"}

(* Mutant: the query also filters on the retry limit, one short of the DLQ. *)
PendingBelowLimit(p, e) ==
  /\ e \in (rows \ processed) \cap due
  /\ p # "review" => e \notin failed
  /\ p # "auth" => AggOf[e] = p
  /\ attempts[e] < MaxRetries[p]

(* The WHERE clause of the drain query.  The auth processor overrides it
   without the aggregate filter; the review loop has no failed_at filter. *)
BuildPendingWhere(p, e) ==
  /\ e \in rows \ processed
  /\ e \in due
  /\ p # "review" => e \notin failed
  /\ p # "auth" => AggOf[e] = p

(* One row at a time, in order, each settled before the next is dispatched. *)
Sequential(p) == p \in {"tournament", "review"}

(* A payload the parser rejects: the base class and the review loop give up
   at once; the auth and tournament dispatchers do not parse. *)
RejectsPayload(p, e) ==
  /\ e \in Bad /\ AggOf[e] = p
  /\ p \in {"attempt", "daily_challenge", "review"}

Exhausted(p, n) ==
  IF p \in {"auth", "review"} THEN n >= MaxRetries[p] ELSE n > MaxRetries[p]

CountTry(e) ==
  tries' = [tries EXCEPT ![e] = IF Exhausted(AggOf[e], @) THEN @ ELSE @ + 1]

(* The oldest n members of S: ORDER BY created_at LIMIT n. *)
Oldest(S, n) == {e \in S : Cardinality({f \in S : f < e}) < n}

-----------------------------------------------------------------------------
(* Producers: scheduleEvent and its siblings insert in the caller's
   transaction, ON CONFLICT DO NOTHING against the partial unique index.    *)

LiveKeyTaken(e) ==
  /\ KeyOf[e] # NoKey
  /\ \E f \in rows \ processed : KeyOf[f] = KeyOf[e]

ScheduleEvent(e) ==
  /\ e \notin rows \cup gone
  /\ ~LiveKeyTaken(e)
  /\ rows' = rows \cup {e}
  /\ due' = due \cup {e}
  /\ UNCHANGED <<gone, processed, failed, discarded, attempts, drains, locks, cli, bounds, observed>>

-----------------------------------------------------------------------------
(* The advisory lock: SET NX PX with a fresh token, compare-and-delete, and
   the TTL that removes the key whether or not the holder is done.          *)

AcquireAdvisoryLock(w) ==
  LET p == ProcOf[w] IN
  /\ Locked(p)
  /\ pc[w] = "idle"
  /\ lock[p] = Free
  /\ lock' = [lock EXCEPT ![p] = w]
  /\ leased' = leased \cup {w}
  /\ pc' = [pc EXCEPT ![w] = "polled"]
  /\ UNCHANGED <<table, claim, held, processedInRun, cli, bounds, observed>>

(* The SET took effect but its reply did not arrive: the tick gives up. *)
AcquireReplyLost(w) ==
  LET p == ProcOf[w] IN
  /\ Locked(p)
  /\ faults < MaxFaults
  /\ pc[w] = "idle"
  /\ lock[p] = Free
  /\ lock' = [lock EXCEPT ![p] = Orphan]
  /\ faults' = faults + 1
  /\ UNCHANGED <<table, drains, leased, cli, ops, observed>>

LockTtlElapses(p) ==
  /\ lock[p] # Free
  /\ lock' = [lock EXCEPT ![p] = Free]
  /\ leased' = leased \ {lock[p]}
  /\ UNCHANGED <<table, drains, cli, bounds, observed>>

(* Mutant: DEL without comparing the token. *)
ReleaseWithoutCompare(w) ==
  /\ lock' = [lock EXCEPT ![ProcOf[w]] = Free]
  /\ leased' = leased \ {w}

(* Every token is fresh, so a release only ever finds this drain's own. *)
ReleaseAdvisoryLock(w) ==
  /\ lock' = [lock EXCEPT ![ProcOf[w]] = IF @ = w THEN Free ELSE @]
  /\ leased' = leased \ {w}

(* Redis is unreachable at release time: the key stays until its TTL. *)
ReleaseFails(w) ==
  /\ lock' = [lock EXCEPT ![ProcOf[w]] = IF @ = w THEN Orphan ELSE @]
  /\ leased' = leased \ {w}

-----------------------------------------------------------------------------
(* One drain.                                                              *)

(* SELECT ... FOR UPDATE SKIP LOCKED, outside a transaction: the row locks
   are gone when the statement ends, the rows and counts are now local.     *)
SelectPending(w) ==
  LET p == ProcOf[w]
      batch == Oldest({e \in Events : BuildPendingWhere(p, e)}, BatchSize)
  IN
  /\ pc[w] = IF Locked(p) THEN "polled" ELSE "idle"
  /\ pc' = [pc EXCEPT ![w] = "drain"]
  /\ claim' = [claim EXCEPT ![w] = [e \in Events |-> IF e \in batch THEN "claimed" ELSE "none"]]
  /\ held' = [held EXCEPT ![w] = [e \in Events |-> IF e \in batch THEN attempts[e] ELSE 0]]
  /\ UNCHANGED <<table, processedInRun, locks, cli, bounds, observed>>

(* It is e's turn: rows are dispatched side by side by the base class, one
   after the other by the tournament and review loops.                      *)
Turn(w, e) ==
  /\ claim[w][e] = "claimed"
  /\ Sequential(ProcOf[w]) =>
       \A f \in Events : claim[w][f] # "none" => claim[w][f] = "claimed" /\ e <= f

(* The tournament loop passes over a row this pod has already marked. *)
AlreadyProcessedInRun(w, e) == ProcOf[w] = "tournament" /\ e \in processedInRun[PodOf[w]]

SkipProcessedInRun(w, e) ==
  /\ Turn(w, e)
  /\ AlreadyProcessedInRun(w, e)
  /\ claim' = [claim EXCEPT ![w][e] = "none"]
  /\ UNCHANGED <<table, held, pc, processedInRun, locks, cli, bounds, observed>>

(* dispatch() resolves: the owner's side effect has happened.  The auth
   switch knows no key of another aggregate.                                *)
DispatchSucceeds(w, e) ==
  LET p == ProcOf[w] IN
  /\ Turn(w, e)
  /\ ~AlreadyProcessedInRun(w, e)
  /\ AggOf[e] = p
  /\ ~RejectsPayload(p, e)
  /\ claim' = [claim EXCEPT ![w][e] = "sent"]
  /\ delivered' = delivered \cup {e}
  /\ UNCHANGED <<table, held, pc, processedInRun, locks, cli, bounds, conflicts, tries, overtaken>>

(* dispatch() throws and the words of the error are taken for those of a
   duplicate: the row counts as done, whether or not the effect of an earlier
   dispatch is there.  The review loop has no such case, and the error of
   auth's switch for a foreign key has no such words.                       *)
DispatchTakenForConflict(w, e) ==
  LET p == ProcOf[w] IN
  /\ Turn(w, e)
  /\ ~AlreadyProcessedInRun(w, e)
  /\ AggOf[e] = p /\ p # "review"
  /\ ~RejectsPayload(p, e)
  /\ claim' = [claim EXCEPT ![w][e] = "conflict"]
  /\ conflicts' = conflicts \cup {e}
  /\ UNCHANGED <<table, held, pc, processedInRun, locks, cli, bounds, delivered, tries, overtaken>>

(* Mutant: the error is swallowed and the row counts as sent. *)
DispatchErrorSwallowed(w, e) ==
  /\ Turn(w, e)
  /\ ~AlreadyProcessedInRun(w, e)
  /\ claim' = [claim EXCEPT ![w][e] = "sent"]
  /\ UNCHANGED <<table, held, pc, processedInRun, locks, cli, bounds, observed>>

DispatchFails(w, e) ==
  LET p == ProcOf[w] IN
  /\ Turn(w, e)
  /\ ~AlreadyProcessedInRun(w, e)
  /\ claim' = [claim EXCEPT ![w][e] = IF RejectsPayload(p, e) THEN "fatal" ELSE "failed"]
  /\ CountTry(e)
  /\ UNCHANGED <<table, held, pc, processedInRun, locks, cli, bounds, delivered, conflicts, overtaken>>

(* Mutant: the row is marked before it is dispatched. *)
MarkProcessedFirst(w, e) ==
  /\ claim[w][e] \in {"claimed", "sent"}
  /\ claim' = [claim EXCEPT ![w][e] = IF @ = "claimed" THEN @ ELSE "none"]
  /\ processed' = IF e \in rows THEN processed \cup {e} ELSE processed
  /\ UNCHANGED <<rows, gone, failed, discarded, due, attempts, held, pc, processedInRun, locks, cli, bounds, observed>>

MarkProcessed(w, e) ==
  /\ claim[w][e] \in {"sent", "conflict"}
  /\ claim' = [claim EXCEPT ![w][e] = "none"]
  /\ processed' = IF e \in rows THEN processed \cup {e} ELSE processed
  /\ processedInRun' = IF ProcOf[w] = "tournament"
                         THEN [processedInRun EXCEPT ![PodOf[w]] = @ \cup {e}]
                         ELSE processedInRun
  /\ UNCHANGED <<rows, gone, failed, discarded, due, attempts, held, pc, locks, cli, bounds, observed>>

(* The UPDATE itself fails: it is inside the try, so the row counts as a
   failed dispatch although its side effect took place.                     *)
MarkProcessedFails(w, e) ==
  /\ claim[w][e] = "sent"
  /\ faults < MaxFaults
  /\ claim' = [claim EXCEPT ![w][e] = "failed"]
  /\ CountTry(e)
  /\ faults' = faults + 1
  /\ UNCHANGED <<table, held, pc, processedInRun, locks, cli, ops, delivered, conflicts, overtaken>>

(* The base class settles failures only after every row was dispatched. *)
InFlight(w) == {f \in Events : claim[w][f] \in {"claimed", "sent", "conflict"}}
AllDispatched(w) == InFlight(w) = {}

(* Mutant: the failure update lost its processed_at IS NULL. *)
UpdateMatchesAnyRow(p, e) == e \in rows

(* handleFailure: attempt_count is the stale count plus one; the base class,
   auth and tournament updates require processed_at IS NULL, review's retry
   update does not.                                                         *)
UpdateMatches(p, e) == e \in rows /\ (p # "review" => e \notin processed)

(* Mutant: the incremented count is incremented again in the comparison. *)
MovesToDlqTooEarly(w, e) == claim[w][e] = "fatal" \/ Exhausted(ProcOf[w], held[w][e] + 2)

MovesToDlq(w, e) == claim[w][e] = "fatal" \/ Exhausted(ProcOf[w], held[w][e] + 1)

(* Mutant: the count runs down. *)
HandleFailureCountingDown(w, e) ==
  LET p == ProcOf[w] IN
  /\ pc[w] = "drain"
  /\ claim[w][e] \in {"failed", "fatal"}
  /\ p \in BaseFamily => AllDispatched(w)
  /\ claim' = [claim EXCEPT ![w][e] = "none"]
  /\ UpdateMatches(p, e)
  /\ attempts' = [attempts EXCEPT ![e] = held[w][e] - 1]
  /\ due' = due \ {e}
  /\ UNCHANGED <<rows, gone, processed, failed, discarded, held, pc, processedInRun, locks, cli, bounds, observed>>

HandleFailure(w, e) ==
  LET p == ProcOf[w]
      dlq == MovesToDlq(w, e)
  IN
  /\ pc[w] = "drain"
  /\ claim[w][e] \in {"failed", "fatal"}
  /\ p \in BaseFamily => AllDispatched(w)
  /\ ~(p = "review" /\ dlq)
  /\ claim' = [claim EXCEPT ![w][e] = "none"]
  /\ IF UpdateMatches(p, e)
       THEN /\ attempts' = [attempts EXCEPT ![e] = held[w][e] + 1]
            /\ failed' = IF dlq THEN failed \cup {e} ELSE failed
            /\ discarded' = IF dlq THEN discarded \ {e} ELSE discarded
            /\ due' = IF dlq /\ p \in BaseFamily THEN due \cup {e} ELSE due \ {e}
       ELSE UNCHANGED <<attempts, failed, discarded, due>>
  /\ UNCHANGED <<rows, gone, processed, held, pc, processedInRun, locks, cli, bounds, observed>>

(* The drain is over, normally or by an exception: what it had claimed is
   forgotten, and the finally block releases the lock.                      *)
EndDrain(w) ==
  /\ pc' = [pc EXCEPT ![w] = "idle"]
  /\ claim' = [claim EXCEPT ![w] = NoClaims]
  /\ held' = [held EXCEPT ![w] = NothingRead]
  /\ UNCHANGED <<table, processedInRun, cli, ops, observed>>

FinishDrain(w) ==
  /\ pc[w] = "drain"
  /\ claim[w] = NoClaims
  /\ EndDrain(w)
  /\ ReleaseAdvisoryLock(w)
  /\ UNCHANGED faults

FinishDrainReleaseFails(w) ==
  /\ pc[w] = "drain"
  /\ Locked(ProcOf[w])
  /\ faults < MaxFaults
  /\ claim[w] = NoClaims
  /\ EndDrain(w)
  /\ ReleaseFails(w)
  /\ faults' = faults + 1

(* The SELECT, or the UPDATE of handleFailure, throws. *)
DrainThrows(w) ==
  /\ faults < MaxFaults
  /\ \/ pc[w] = "polled"
     \/ /\ pc[w] = "drain"
        /\ \E e \in Events : claim[w][e] \in {"failed", "fatal"}
        /\ ProcOf[w] \in BaseFamily => AllDispatched(w)
  /\ EndDrain(w)
  /\ ReleaseAdvisoryLock(w)
  /\ faults' = faults + 1

(* The UPDATE that marks a conflict is in the catch block.  When it fails the
   drain is over and its lock released, but the rows of the same chunk that
   are in flight go on by themselves; nothing settles their failures.        *)
MarkConflictFails(w, e) ==
  /\ claim[w][e] = "conflict"
  /\ faults < MaxFaults
  /\ faults' = faults + 1
  /\ IF pc[w] = "adrift"
       THEN /\ claim' = [claim EXCEPT ![w][e] = "none"]
            /\ UNCHANGED <<pc, locks>>
       ELSE /\ \E S \in SUBSET (InFlight(w) \ {e}) :
                 /\ ProcOf[w] \notin BaseFamily => S = {}
                 /\ claim' = [claim EXCEPT ![w] = [f \in Events |-> IF f \in S THEN @[f] ELSE "none"]]
            /\ pc' = [pc EXCEPT ![w] = "adrift"]
            /\ ReleaseAdvisoryLock(w)
  /\ UNCHANGED <<table, held, processedInRun, cli, ops, observed>>

(* The last row of a drain that threw has come to its end. *)
AdriftEnds(w) ==
  /\ pc[w] = "adrift"
  /\ AllDispatched(w)
  /\ EndDrain(w)
  /\ UNCHANGED <<locks, faults>>

(* The review loop moves a row to the DLQ with next_attempt_at = NULL; the
   column is NOT NULL, so that UPDATE always throws and ends the drain.      *)
ReviewDlqUpdateThrows(w, e) ==
  /\ ProcOf[w] = "review"
  /\ claim[w][e] \in {"failed", "fatal"}
  /\ MovesToDlq(w, e)
  /\ EndDrain(w)
  /\ ReleaseAdvisoryLock(w)
  /\ UNCHANGED faults

(* A pod dies: its drains stop where they are, its locks stay in Redis. *)
Crash(d) ==
  LET onPod == {w \in Workers : PodOf[w] = d} IN
  /\ faults < MaxFaults
  /\ \E w \in onPod : pc[w] # "idle"
  /\ faults' = faults + 1
  /\ pc' = [w \in Workers |-> IF w \in onPod THEN "idle" ELSE pc[w]]
  /\ claim' = [w \in Workers |-> IF w \in onPod THEN NoClaims ELSE claim[w]]
  /\ held' = [w \in Workers |-> IF w \in onPod THEN NothingRead ELSE held[w]]
  /\ processedInRun' = [processedInRun EXCEPT ![d] = {}]
  /\ lock' = [p \in Processors |-> IF lock[p] \in onPod THEN Orphan ELSE lock[p]]
  /\ leased' = leased \ onPod
  /\ UNCHANGED <<table, cli, ops, observed>>

-----------------------------------------------------------------------------
(* Time, the cleanup cron and the recovery CLI.                            *)

BackoffElapses(e) ==
  /\ e \in rows \ due
  /\ due' = due \cup {e}
  /\ UNCHANGED <<rows, gone, processed, failed, discarded, attempts, drains, locks, cli, bounds, observed>>

(* One row that has been processed for longer than the retention period. *)
RunCleanup(e) ==
  /\ e \in rows \cap processed
  /\ rows' = rows \ {e}
  /\ gone' = gone \cup {e}
  /\ UNCHANGED <<processed, failed, discarded, due, attempts, drains, locks, cli, bounds, observed>>

Dlq == (rows \ processed) \cap failed

Requeue(S) ==
  /\ failed' = failed \ S
  /\ discarded' = discarded \ S
  /\ attempts' = [e \in Events |-> IF e \in S THEN 0 ELSE attempts[e]]
  /\ due' = due \cup S
  /\ tries' = [e \in Events |-> IF e \in S THEN 0 ELSE tries[e]]
  /\ overtaken' = (overtaken \ S) \cup {e \in S : \E w \in Workers : claim[w][e] # "none"}
  /\ UNCHANGED <<rows, gone, processed, drains, locks, faults, delivered, conflicts>>

MarkDiscarded(S) ==
  /\ discarded' = discarded \cup S
  /\ UNCHANGED <<rows, gone, processed, failed, due, attempts, drains, locks, faults, observed>>

RecoverAll ==
  /\ ops < MaxOps
  /\ Dlq # {}
  /\ ops' = ops + 1
  /\ \/ Requeue(Dlq)
     \/ MarkDiscarded(Dlq)
  /\ UNCHANGED cli

(* --event-id: the row is read and refused when processed, and then updated
   by id alone.                                                             *)
RecoverReads(e) ==
  /\ ops < MaxOps
  /\ cli = NoEvent
  /\ e \in rows \ processed
  /\ cli' = e
  /\ ops' = ops + 1
  /\ UNCHANGED <<table, drains, locks, faults, observed>>

RecoverWrites ==
  /\ cli # NoEvent
  /\ cli' = NoEvent
  /\ \/ Requeue({cli} \cap rows)
     \/ MarkDiscarded({cli} \cap rows)
  /\ UNCHANGED ops

-----------------------------------------------------------------------------
DrainStep(w) ==
  \/ AcquireAdvisoryLock(w) \/ AcquireReplyLost(w) \/ SelectPending(w)
  \/ FinishDrain(w) \/ FinishDrainReleaseFails(w) \/ DrainThrows(w)
  \/ AdriftEnds(w)

RowStep(w, e) ==
  \/ SkipProcessedInRun(w, e)
  \/ DispatchSucceeds(w, e) \/ DispatchFails(w, e) \/ DispatchTakenForConflict(w, e)
  \/ MarkProcessed(w, e) \/ MarkProcessedFails(w, e) \/ MarkConflictFails(w, e)
  \/ HandleFailure(w, e) \/ ReviewDlqUpdateThrows(w, e)

TableStep(e) ==
  ScheduleEvent(e) \/ BackoffElapses(e) \/ RunCleanup(e) \/ RecoverReads(e)

Next ==
  \/ \E w \in Workers : DrainStep(w)
  \/ \E w \in Workers, e \in Events : RowStep(w, e)
  \/ \E e \in Events : TableStep(e)
  \/ \E p \in Processors : LockTtlElapses(p)
  \/ \E d \in Pods : Crash(d)
  \/ RecoverAll \/ RecoverWrites

Spec == Init /\ [][Next]_vars

(* The crons keep firing, started calls return or throw, TTLs and backoffs
   run out.  Nothing is assumed of producers, operators, cleanup or faults.  *)
Fairness ==
  /\ \A w \in Workers :
       /\ WF_vars(AcquireAdvisoryLock(w))
       /\ WF_vars(SelectPending(w))
       /\ WF_vars(FinishDrain(w) \/ AdriftEnds(w))
       /\ \A e \in Events : WF_vars(RowStep(w, e))
  /\ \A p \in Processors : WF_vars(LockTtlElapses(p))
  /\ \A e \in Events : WF_vars(BackoffElapses(e))

FairSpec == Spec /\ Fairness

-----------------------------------------------------------------------------
(* Properties.                                                             *)

(* At-least-once delivery: a row marked processed, and a row the cleanup
   deleted, was carried out by the dispatcher of its own aggregate, whatever
   crashed, overlapped or was retried in between, or an error of that
   dispatcher was taken for a duplicate: there is no other way to close a row
   that had no effect.                                                      *)
AtLeastOnce == processed \cup gone \subseteq delivered \cup conflicts

(* A row is in the DLQ only if, since an operator last retried it, its
   dispatch failed as often as the limit of its owner or of the catch-all
   auth processor demands, or its owner rejects the payload: stale counts and
   overlapping drains never shorten the budget.  The one exception is a drain
   that held the row when the operator retried it, and may bury it again with
   the count it had read.                                                   *)
DlqIsEarned ==
  \A e \in failed \ overtaken :
    RejectsPayload(AggOf[e], e) \/ \E p \in {"auth", AggOf[e]} : Exhausted(p, tries[e])

(* As long as a drain's lock TTL has not run out, the key in Redis is its
   own: no late release, lost reply or crash of another drain takes it away,
   so two drains of a locked processor overlap only after a TTL expired.     *)
LeaseIsExclusive ==
  /\ \A w \in leased : lock[ProcOf[w]] = w
  /\ \A w, v \in Workers :
       ProcOf[w] = ProcOf[v] /\ w \in leased /\ v \in leased => w = v

(* A processed row never enters the DLQ: a drain that lost the race finds
   processed_at set.                                                        *)
ProcessedNeverDlqd == [][\A e \in processed \ failed : e \notin failed']_vars

(* Every scheduled event is eventually processed or in the DLQ: the stale
   attempt_count that overlapping drains write back postpones the DLQ but
   cannot postpone it for ever, and a review row, which its own loop can not
   bury, is buried by auth, whose query selects it as well.                 *)
EventuallySettled ==
  \A e \in Events : (e \in rows) ~> (e \in processed \cup failed)

(* The outbox keeps its promise: seen through the columns processed_at and
   failed_at, every step of table, drains, locks, faults and operators is a
   step of OutboxContract or changes nothing there.                         *)
EventStatus ==
  [e \in Events |->
    IF e \in processed THEN "done"
    ELSE IF e \notin rows THEN "absent"
    ELSE IF e \in failed THEN "dead" ELSE "pending"]

Contract == INSTANCE OutboxContract WITH status <- EventStatus

KeepsContract == Contract!Spec
=============================================================================
