---------------------------- MODULE OutboxProofs ----------------------------
(***************************************************************************)
(* The safety of the outbox for any number of events, workers, pods,       *)
(* faults and operator commands, and any retry limits.                     *)
(***************************************************************************)
EXTENDS Outbox, TLAPS

(* Deliveries.  A row a drain is about to mark has been delivered, or its
   error was taken for a duplicate.                                         *)
SentIsDelivered ==
  \A w \in Workers, e \in Events :
    claim[w][e] \in {"sent", "conflict"} => e \in delivered \cup conflicts
GoneIsProcessed == gone \subseteq processed
ProcessedIsDelivered == processed \subseteq delivered \cup conflicts

(* Counts.  Until the owner's limit is used up, no count, stored or held by a
   drain, exceeds the number of dispatches that failed, and a failure waiting
   to be settled is one of them already.                                    *)
Spent(e) == e \in overtaken \/ Exhausted(AggOf[e], tries[e])
HeldCounts(w, e) ==
  claim[w][e] # "none" =>
    /\ held[w][e] <= tries[e]
    /\ claim[w][e] \in {"failed", "fatal"} => held[w][e] + 1 <= tries[e]
CountsAreTries ==
  \A e \in Events :
    Spent(e) \/ (attempts[e] <= tries[e] /\ \A w \in Workers : HeldCounts(w, e))

(* Claims.  A drain holds only rows its query selects, and gives up at once
   only on rows whose owner rejects the payload.                            *)
ClaimsAreSelected ==
  \A w \in Workers, e \in Events :
    /\ claim[w][e] # "none" => ProcOf[w] = "auth" \/ AggOf[e] = ProcOf[w]
    /\ claim[w][e] = "fatal" => RejectsPayload(ProcOf[w], e)

LeaseIsLock == \A w \in leased : lock[ProcOf[w]] = w

DeliveryInv == SentIsDelivered /\ GoneIsProcessed /\ ProcessedIsDelivered
DlqInv == CountsAreTries /\ ClaimsAreSelected /\ DlqIsEarned

-----------------------------------------------------------------------------
(* Type correctness: every column, drain and lock keeps its domain. *)
THEOREM TypeCorrect == Spec => []TypeOK
<1>1. Init => TypeOK
  BY ConstantsAssumption DEF Init, TypeOK, NoClaims, NothingRead, ClaimStates
<1>2. TypeOK /\ [Next]_vars => TypeOK'
  <2> SUFFICES ASSUME TypeOK, [Next]_vars PROVE TypeOK'
    OBVIOUS
  <2> USE ConstantsAssumption DEF TypeOK
  <2>1. ASSUME NEW w \in Workers, DrainStep(w) PROVE TypeOK'
    <3>1. CASE AcquireAdvisoryLock(w)
      BY <3>1 DEF AcquireAdvisoryLock, table, bounds, observed
    <3>2. CASE AcquireReplyLost(w)
      BY <3>2 DEF AcquireReplyLost, table, drains, observed
    <3>3. CASE SelectPending(w)
      BY <3>3 DEF SelectPending, table, locks, bounds, observed, ClaimStates
    <3>4. CASE FinishDrain(w)
      BY <3>4 DEF FinishDrain, EndDrain, ReleaseAdvisoryLock, table, observed, NoClaims, NothingRead, ClaimStates
    <3>5. CASE FinishDrainReleaseFails(w)
      BY <3>5 DEF FinishDrainReleaseFails, EndDrain, ReleaseFails, table, observed, NoClaims, NothingRead, ClaimStates
    <3>6. CASE DrainThrows(w)
      BY <3>6 DEF DrainThrows, EndDrain, ReleaseAdvisoryLock, table, observed, NoClaims, NothingRead, ClaimStates
    <3>7. CASE AdriftEnds(w)
      BY <3>7 DEF AdriftEnds, EndDrain, table, locks, observed, NoClaims, NothingRead, ClaimStates
    <3> QED BY <2>1, <3>1, <3>2, <3>3, <3>4, <3>5, <3>6, <3>7 DEF DrainStep
  <2>2. ASSUME NEW w \in Workers, NEW e \in Events, RowStep(w, e) PROVE TypeOK'
    <3>1. CASE SkipProcessedInRun(w, e)
      BY <3>1 DEF SkipProcessedInRun, table, locks, bounds, observed, ClaimStates
    <3>2. CASE DispatchSucceeds(w, e)
      BY <3>2 DEF DispatchSucceeds, table, locks, bounds, ClaimStates
    <3>3. CASE DispatchFails(w, e)
      BY <3>3 DEF DispatchFails, CountTry, table, locks, bounds, ClaimStates
    <3>4. CASE MarkProcessed(w, e)
      BY <3>4 DEF MarkProcessed, locks, bounds, observed, ClaimStates, Pods
    <3>5. CASE MarkProcessedFails(w, e)
      BY <3>5 DEF MarkProcessedFails, CountTry, table, locks, ClaimStates
    <3>6. CASE HandleFailure(w, e)
      <4>1. /\ claim' \in [Workers -> [Events -> ClaimStates]]
            /\ attempts' \in [Events -> Nat]
        <5>1. claim' = [claim EXCEPT ![w][e] = "none"]
          BY <3>6 DEF HandleFailure
        <5>2. attempts' = attempts \/ attempts' = [attempts EXCEPT ![e] = held[w][e] + 1]
          BY <3>6, Zenon DEF HandleFailure
        <5> QED BY <5>1, <5>2 DEF ClaimStates
      <4>2. failed' \subseteq Events /\ discarded' \subseteq Events /\ due' \subseteq Events
        <5>1. failed' \in {failed, failed \cup {e}} /\ discarded' \in {discarded, discarded \ {e}}
              /\ due' \in {due, due \cup {e}, due \ {e}}
          BY <3>6, Zenon DEF HandleFailure
        <5> QED BY <5>1
      <4> QED BY <3>6, <4>1, <4>2 DEF HandleFailure, locks, bounds, observed
    <3>7. CASE ReviewDlqUpdateThrows(w, e)
      BY <3>7 DEF ReviewDlqUpdateThrows, EndDrain, ReleaseAdvisoryLock, table, observed, NoClaims, NothingRead, ClaimStates
    <3>8. CASE DispatchTakenForConflict(w, e)
      BY <3>8 DEF DispatchTakenForConflict, table, locks, bounds, ClaimStates
    <3>9. CASE MarkConflictFails(w, e)
      <4>1. claim' \in [Workers -> [Events -> ClaimStates]]
        <5>1. CASE pc[w] = "adrift"
          <6>1. claim' = [claim EXCEPT ![w][e] = "none"]
            BY <3>9, <5>1, Zenon DEF MarkConflictFails
          <6> QED BY <6>1 DEF ClaimStates
        <5>2. CASE pc[w] # "adrift"
          <6>1. PICK S \in SUBSET Events :
                  claim' = [claim EXCEPT ![w] = [f \in Events |-> IF f \in S THEN @[f] ELSE "none"]]
            <7>1. InFlight(w) \ {e} \subseteq Events
              BY DEF InFlight
            <7> QED BY <3>9, <5>2, <7>1 DEF MarkConflictFails
          <6>2. [f \in Events |-> IF f \in S THEN claim[w][f] ELSE "none"] \in [Events -> ClaimStates]
            BY DEF ClaimStates
          <6> QED BY <6>1, <6>2
        <5> QED BY <5>1, <5>2
      <4>2. /\ pc' \in [Workers -> {"idle", "polled", "drain", "adrift"}]
            /\ lock' \in [Processors -> Workers \cup {Free, Orphan}]
            /\ leased' \subseteq Workers
        BY <3>9 DEF MarkConflictFails, ReleaseAdvisoryLock, locks
      <4> QED BY <3>9, <4>1, <4>2 DEF MarkConflictFails, table, observed
    <3> QED BY <2>2, <3>1, <3>2, <3>3, <3>4, <3>5, <3>6, <3>7, <3>8, <3>9 DEF RowStep
  <2>3. ASSUME NEW e \in Events, TableStep(e) PROVE TypeOK'
    <3>1. CASE ScheduleEvent(e)
      BY <3>1 DEF ScheduleEvent, drains, locks, bounds, observed
    <3>2. CASE BackoffElapses(e)
      BY <3>2 DEF BackoffElapses, drains, locks, bounds, observed
    <3>3. CASE RunCleanup(e)
      BY <3>3 DEF RunCleanup, drains, locks, bounds, observed
    <3>4. CASE RecoverReads(e)
      BY <3>4 DEF RecoverReads, table, drains, locks, observed
    <3> QED BY <2>3, <3>1, <3>2, <3>3, <3>4 DEF TableStep
  <2>4. ASSUME NEW p \in Processors, LockTtlElapses(p) PROVE TypeOK'
    BY <2>4 DEF LockTtlElapses, table, drains, bounds, observed
  <2>5. ASSUME NEW d \in Pods, Crash(d) PROVE TypeOK'
    BY <2>5 DEF Crash, table, observed, NoClaims, NothingRead, ClaimStates
  <2>6. CASE RecoverAll
    <3>1. Dlq \subseteq Events
      BY DEF Dlq
    <3>2. CASE Requeue(Dlq)
      <4>1. /\ failed' \subseteq Events /\ discarded' \subseteq Events /\ due' \subseteq Events
            /\ attempts' \in [Events -> Nat] /\ tries' \in [Events -> Nat] /\ overtaken' \subseteq Events
        BY <3>1, <3>2 DEF Requeue
      <4> QED BY <2>6, <3>2, <4>1 DEF RecoverAll, Requeue, drains, locks
    <3>3. CASE MarkDiscarded(Dlq)
      BY <2>6, <3>1, <3>3 DEF RecoverAll, MarkDiscarded, drains, locks, observed
    <3> QED BY <2>6, <3>2, <3>3 DEF RecoverAll
  <2>7. CASE RecoverWrites
    <3> DEFINE S == {cli} \cap rows
    <3>1. S \subseteq Events
      OBVIOUS
    <3>2. CASE Requeue(S)
      <4> HIDE DEF S
      <4>1. /\ failed' \subseteq Events /\ discarded' \subseteq Events /\ due' \subseteq Events
            /\ attempts' \in [Events -> Nat] /\ tries' \in [Events -> Nat] /\ overtaken' \subseteq Events
        BY <3>1, <3>2 DEF Requeue
      <4> QED BY <2>7, <3>2, <4>1 DEF RecoverWrites, Requeue, drains, locks
    <3>3. CASE MarkDiscarded(S)
      <4> HIDE DEF S
      <4> QED BY <2>7, <3>1, <3>3 DEF RecoverWrites, MarkDiscarded, drains, locks, observed
    <3> QED BY <2>7, <3>2, <3>3 DEF RecoverWrites
  <2>8. CASE UNCHANGED vars
    BY <2>8 DEF vars, table, drains, locks, bounds, observed
  <2> QED BY <2>1, <2>2, <2>3, <2>4, <2>5, <2>6, <2>7, <2>8 DEF Next
<1> QED BY <1>1, <1>2, PTL DEF Spec

-----------------------------------------------------------------------------
(* A drain whose conflict can not be marked keeps or drops what it holds. *)
LEMMA ConflictForgets ==
  ASSUME TypeOK, NEW w \in Workers, NEW e \in Events, MarkConflictFails(w, e)
  PROVE  \A v \in Workers, f \in Events : claim'[v][f] \in {claim[v][f], "none"}
<1>1. CASE pc[w] = "adrift"
  BY <1>1 DEF MarkConflictFails, TypeOK
<1>2. CASE pc[w] # "adrift"
  <2>1. PICK S : claim' = [claim EXCEPT ![w] = [f \in Events |-> IF f \in S THEN @[f] ELSE "none"]]
    BY <1>2 DEF MarkConflictFails
  <2> QED BY <2>1 DEF TypeOK
<1> QED BY <1>1, <1>2

(* At-least-once delivery, whatever crashes, overlaps or is retried. *)
LEMMA DeliveryStep == TypeOK /\ DeliveryInv /\ [Next]_vars => DeliveryInv'
<1> SUFFICES ASSUME TypeOK, DeliveryInv, [Next]_vars PROVE DeliveryInv'
  OBVIOUS
<1> USE DEF TypeOK, DeliveryInv, SentIsDelivered, GoneIsProcessed, ProcessedIsDelivered
<1>1. ASSUME NEW w \in Workers, DrainStep(w) PROVE DeliveryInv'
  <2>1. CASE AcquireAdvisoryLock(w)
    BY <2>1 DEF AcquireAdvisoryLock, table, observed
  <2>2. CASE AcquireReplyLost(w)
    BY <2>2 DEF AcquireReplyLost, table, drains, observed
  <2>3. CASE SelectPending(w)
    BY <2>3 DEF SelectPending, table, observed
  <2>4. CASE EndDrain(w)
    BY <2>4 DEF EndDrain, table, observed, NoClaims
  <2> QED BY <1>1, <2>1, <2>2, <2>3, <2>4
          DEF DrainStep, FinishDrain, FinishDrainReleaseFails, DrainThrows, AdriftEnds
<1>2. ASSUME NEW w \in Workers, NEW e \in Events, RowStep(w, e) PROVE DeliveryInv'
  <2>1. CASE SkipProcessedInRun(w, e)
    BY <2>1 DEF SkipProcessedInRun, table, observed
  <2>2. CASE DispatchSucceeds(w, e)
    BY <2>2 DEF DispatchSucceeds, table
  <2>3. CASE DispatchFails(w, e)
    BY <2>3 DEF DispatchFails, table
  <2>4. CASE MarkProcessed(w, e)
    BY <2>4 DEF MarkProcessed, observed
  <2>5. CASE MarkProcessedFails(w, e)
    BY <2>5 DEF MarkProcessedFails, table
  <2>6. CASE HandleFailure(w, e)
    BY <2>6 DEF HandleFailure, observed
  <2>7. CASE ReviewDlqUpdateThrows(w, e)
    BY <2>7 DEF ReviewDlqUpdateThrows, EndDrain, table, observed, NoClaims
  <2>8. CASE DispatchTakenForConflict(w, e)
    BY <2>8 DEF DispatchTakenForConflict, table
  <2>9. CASE MarkConflictFails(w, e)
    BY <2>9, ConflictForgets DEF MarkConflictFails, table, observed
  <2> QED BY <1>2, <2>1, <2>2, <2>3, <2>4, <2>5, <2>6, <2>7, <2>8, <2>9 DEF RowStep
<1>3. ASSUME NEW e \in Events, TableStep(e) PROVE DeliveryInv'
  BY <1>3 DEF TableStep, ScheduleEvent, BackoffElapses, RunCleanup, RecoverReads, table, drains, observed
<1>4. ASSUME NEW p \in Processors, LockTtlElapses(p) PROVE DeliveryInv'
  BY <1>4 DEF LockTtlElapses, table, drains, observed
<1>5. ASSUME NEW d \in Pods, Crash(d) PROVE DeliveryInv'
  BY <1>5 DEF Crash, table, observed, NoClaims
<1>6. CASE RecoverAll
  BY <1>6 DEF RecoverAll, Requeue, MarkDiscarded, drains, observed
<1>7. CASE RecoverWrites
  BY <1>7 DEF RecoverWrites, Requeue, MarkDiscarded, drains, observed
<1>8. CASE UNCHANGED vars
  BY <1>8 DEF vars, table, drains, observed
<1> QED BY <1>1, <1>2, <1>3, <1>4, <1>5, <1>6, <1>7, <1>8 DEF Next

(* A processed or deleted row was carried out by its own dispatcher, or an
   error of that dispatcher was taken for a duplicate: overlapping drains,
   failed statements, crashes and operators close no row without its effect. *)
THEOREM DeliveredAtLeastOnce == Spec => []AtLeastOnce
<1>1. Init => DeliveryInv
  BY DEF Init, DeliveryInv, SentIsDelivered, GoneIsProcessed, ProcessedIsDelivered, NoClaims
<1>2. DeliveryInv => AtLeastOnce
  BY DEF DeliveryInv, GoneIsProcessed, ProcessedIsDelivered, AtLeastOnce
<1> QED BY <1>1, <1>2, TypeCorrect, DeliveryStep, PTL DEF Spec

-----------------------------------------------------------------------------
(* The dead-letter queue. *)

(* A count that exhausts a limit still does when it is larger. *)
LEMMA ExhaustedMonotone ==
  ASSUME NEW p \in Processors, NEW m \in Nat, NEW n \in Nat, m <= n, Exhausted(p, m)
  PROVE  Exhausted(p, n)
BY ConstantsAssumption DEF Exhausted

(* The budget stays used up while failures are only added to. *)
LEMMA EarnedGrows ==
  ASSUME TypeOK, DlqIsEarned, failed' \subseteq failed, overtaken' = overtaken,
         tries' \in [Events -> Nat], \A e \in Events : tries[e] <= tries'[e]
  PROVE  DlqIsEarned'
<1> SUFFICES ASSUME NEW e \in failed' \ overtaken'
             PROVE  RejectsPayload(AggOf[e], e) \/ \E p \in {"auth", AggOf[e]} : Exhausted(p, tries'[e])
  BY DEF DlqIsEarned
<1>1. e \in Events /\ AggOf[e] \in Processors /\ "auth" \in Processors
  BY ConstantsAssumption DEF TypeOK, Processors, BaseFamily
<1>2. CASE RejectsPayload(AggOf[e], e)
  BY <1>2
<1>3. CASE \E p \in {"auth", AggOf[e]} : Exhausted(p, tries[e])
  <2>1. PICK p \in {"auth", AggOf[e]} : Exhausted(p, tries[e])
    BY <1>3
  <2>2. Exhausted(p, tries'[e])
    BY <1>1, <2>1, ExhaustedMonotone DEF TypeOK
  <2> QED BY <2>2
<1> QED BY <1>2, <1>3 DEF DlqIsEarned

(* A drain that only keeps or drops what it holds disturbs no count. *)
LEMMA CountsKept ==
  ASSUME TypeOK, CountsAreTries, UNCHANGED <<attempts, tries, overtaken>>,
         \A w \in Workers, e \in Events :
           \/ claim'[w][e] = "none"
           \/ claim'[w][e] = claim[w][e] /\ held'[w][e] = held[w][e]
  PROVE  CountsAreTries'
BY DEF CountsAreTries, Spent, HeldCounts

(* One more failed dispatch: of the row it is about, the drain at hand comes
   to hold a failure that has been counted.                                 *)
LEMMA CountsAfterFailure ==
  ASSUME TypeOK, CountsAreTries, NEW w \in Workers, NEW e \in Events, claim[w][e] # "none",
         NEW c \in {"failed", "fatal"}, claim' = [claim EXCEPT ![w][e] = c], CountTry(e),
         UNCHANGED <<attempts, held, overtaken>>
  PROVE  CountsAreTries' /\ tries' \in [Events -> Nat] /\ \A f \in Events : tries[f] <= tries'[f]
<1> USE DEF TypeOK
<1>1. tries' \in [Events -> Nat] /\ \A f \in Events : tries[f] <= tries'[f]
  BY DEF CountTry
<1>2. ASSUME NEW f \in Events
      PROVE  (Spent(f) \/ (attempts[f] <= tries[f] /\ \A v \in Workers : HeldCounts(v, f)))'
  <2>1. CASE f # e
    <3>1. tries'[f] = tries[f] /\ \A v \in Workers : claim'[v][f] = claim[v][f]
      BY <2>1 DEF CountTry
    <3> QED BY <3>1 DEF CountsAreTries, Spent, HeldCounts
  <2>2. CASE f = e /\ Spent(e)
    <3>1. tries'[e] = tries[e] \/ e \in overtaken
      BY <2>2 DEF Spent, CountTry
    <3> QED BY <2>2, <3>1 DEF Spent
  <2>3. CASE f = e /\ ~Spent(e)
    <3>1. tries'[e] = tries[e] + 1
      BY <2>3 DEF Spent, CountTry
    <3>2. attempts[e] <= tries[e] /\ \A v \in Workers : HeldCounts(v, e)
      BY <2>3 DEF CountsAreTries
    <3>3. ASSUME NEW v \in Workers PROVE HeldCounts(v, e)'
      <4>1. CASE claim[v][e] = "none"
        <5>1. claim'[v][e] = "none"
          BY <4>1
        <5> QED BY <5>1 DEF HeldCounts
      <4>2. CASE claim[v][e] # "none"
        <5>1. held[v][e] <= tries[e] /\ held[v][e] \in Nat /\ tries[e] \in Nat
          BY <3>2, <4>2 DEF HeldCounts
        <5> QED BY <3>1, <5>1 DEF HeldCounts
      <4> QED BY <4>1, <4>2
    <3> QED BY <2>3, <3>1, <3>2, <3>3
  <2> QED BY <2>1, <2>2, <2>3
<1> QED BY <1>1, <1>2 DEF CountsAreTries

LEMMA DlqStep == TypeOK /\ DlqInv /\ [Next]_vars => DlqInv'
<1> SUFFICES ASSUME TypeOK, DlqInv, [Next]_vars PROVE DlqInv'
  OBVIOUS
<1> USE ConstantsAssumption DEF TypeOK, DlqInv, ClaimsAreSelected
<1>1. ASSUME NEW w \in Workers, DrainStep(w) PROVE DlqInv'
  <2>1. CASE AcquireAdvisoryLock(w)
    BY <2>1, CountsKept DEF AcquireAdvisoryLock, table, observed, DlqIsEarned
  <2>2. CASE AcquireReplyLost(w)
    BY <2>2, CountsKept DEF AcquireReplyLost, table, drains, observed, DlqIsEarned
  <2>3. CASE SelectPending(w)
    <3> DEFINE batch == Oldest({e \in Events : BuildPendingWhere(ProcOf[w], e)}, BatchSize)
    <3>1. \A e \in batch : ProcOf[w] = "auth" \/ AggOf[e] = ProcOf[w]
      BY DEF Oldest, BuildPendingWhere
    <3>2. /\ claim' = [claim EXCEPT ![w] = [e \in Events |-> IF e \in batch THEN "claimed" ELSE "none"]]
          /\ held' = [held EXCEPT ![w] = [e \in Events |-> IF e \in batch THEN attempts[e] ELSE 0]]
          /\ UNCHANGED <<attempts, failed, tries, overtaken>>
      BY <2>3 DEF SelectPending, table, observed
    <3> HIDE DEF batch
    <3>3. CountsAreTries'
      BY <3>2 DEF CountsAreTries, Spent, HeldCounts
    <3>4. ClaimsAreSelected'
      BY <3>1, <3>2
    <3> QED BY <3>2, <3>3, <3>4 DEF DlqIsEarned
  <2>4. CASE EndDrain(w)
    <3>1. \A v \in Workers, e \in Events :
            \/ claim'[v][e] = "none"
            \/ claim'[v][e] = claim[v][e] /\ held'[v][e] = held[v][e]
      BY <2>4 DEF EndDrain, NoClaims
    <3>2. UNCHANGED <<failed, attempts, tries, overtaken>>
      BY <2>4 DEF EndDrain, table, observed
    <3> QED BY <3>1, <3>2, CountsKept DEF DlqIsEarned
  <2> QED BY <1>1, <2>1, <2>2, <2>3, <2>4
          DEF DrainStep, FinishDrain, FinishDrainReleaseFails, DrainThrows, AdriftEnds
<1>2. ASSUME NEW w \in Workers, NEW e \in Events, RowStep(w, e) PROVE DlqInv'
  <2>1. CASE SkipProcessedInRun(w, e)
    BY <2>1, CountsKept DEF SkipProcessedInRun, table, observed, DlqIsEarned
  <2>2. CASE DispatchSucceeds(w, e) \/ DispatchTakenForConflict(w, e)
    <3>1. \E c \in {"sent", "conflict"} : claim' = [claim EXCEPT ![w][e] = c]
      BY <2>2 DEF DispatchSucceeds, DispatchTakenForConflict
    <3>2. claim[w][e] = "claimed" /\ UNCHANGED <<failed, attempts, held, tries, overtaken>>
      BY <2>2 DEF DispatchSucceeds, DispatchTakenForConflict, Turn, table
    <3>3. CountsAreTries'
      BY <3>1, <3>2 DEF CountsAreTries, Spent, HeldCounts
    <3> QED BY <3>1, <3>2, <3>3 DEF DlqIsEarned
  <2>3. CASE DispatchFails(w, e)
    <3>1. CountsAreTries' /\ tries' \in [Events -> Nat] /\ \A f \in Events : tries[f] <= tries'[f]
      BY <2>3, CountsAfterFailure DEF DispatchFails, Turn, table
    <3>2. ClaimsAreSelected'
      BY <2>3 DEF DispatchFails, Turn
    <3>3. DlqIsEarned'
      BY <2>3, <3>1, EarnedGrows DEF DispatchFails, table
    <3> QED BY <3>1, <3>2, <3>3
  <2>4. CASE MarkProcessed(w, e)
    BY <2>4, CountsKept DEF MarkProcessed, observed, DlqIsEarned
  <2>5. CASE MarkProcessedFails(w, e)
    <3>1. CountsAreTries' /\ tries' \in [Events -> Nat] /\ \A f \in Events : tries[f] <= tries'[f]
      BY <2>5, CountsAfterFailure DEF MarkProcessedFails, table
    <3>2. ClaimsAreSelected'
      BY <2>5 DEF MarkProcessedFails
    <3>3. DlqIsEarned'
      BY <2>5, <3>1, EarnedGrows DEF MarkProcessedFails, table
    <3> QED BY <3>1, <3>2, <3>3
  <2>6. CASE HandleFailure(w, e)
    <3>1. /\ claim' = [claim EXCEPT ![w][e] = "none"]
          /\ claim[w][e] \in {"failed", "fatal"}
          /\ attempts' \in {attempts, [attempts EXCEPT ![e] = held[w][e] + 1]}
          /\ UNCHANGED <<held, tries, overtaken>>
      BY <2>6 DEF HandleFailure, observed
    <3>2. failed' = failed \/ (failed' = failed \cup {e} /\ MovesToDlq(w, e))
      BY <2>6, Zenon DEF HandleFailure
    <3>3. CountsAreTries'
      BY <3>1 DEF CountsAreTries, Spent, HeldCounts
    <3>4. ClaimsAreSelected'
      BY <3>1
    <3>5. ASSUME MovesToDlq(w, e), e \notin overtaken
          PROVE RejectsPayload(AggOf[e], e) \/ \E p \in {"auth", AggOf[e]} : Exhausted(p, tries[e])
      <4>1. CASE claim[w][e] = "fatal"
        BY <4>1 DEF RejectsPayload
      <4>2. CASE Exhausted(AggOf[e], tries[e])
        BY <4>2
      <4>3. CASE Exhausted(ProcOf[w], held[w][e] + 1) /\ ~Exhausted(AggOf[e], tries[e])
        <5>1. ProcOf[w] \in {"auth", AggOf[e]} /\ held[w][e] + 1 \in Nat
          BY <3>1
        <5>2. held[w][e] + 1 <= tries[e]
          BY <3>1, <3>5, <4>3 DEF CountsAreTries, Spent, HeldCounts
        <5> QED BY <4>3, <5>1, <5>2, ExhaustedMonotone
      <4> QED BY <3>5, <4>1, <4>2, <4>3 DEF MovesToDlq
    <3>6. DlqIsEarned'
      <4>1. CASE failed' = failed
        BY <3>1, <4>1, EarnedGrows
      <4>2. CASE failed' = failed \cup {e} /\ MovesToDlq(w, e)
        <5>1. ASSUME NEW f \in failed' \ overtaken
              PROVE  RejectsPayload(AggOf[f], f) \/ \E p \in {"auth", AggOf[f]} : Exhausted(p, tries[f])
          <6>1. CASE f = e
            BY <3>5, <4>2, <6>1
          <6>2. CASE f \in failed
            BY <6>2 DEF DlqIsEarned
          <6> QED BY <4>2, <6>1, <6>2
        <5> QED BY <3>1, <5>1 DEF DlqIsEarned
      <4> QED BY <3>2, <4>1, <4>2
    <3> QED BY <3>3, <3>4, <3>6
  <2>7. CASE ReviewDlqUpdateThrows(w, e)
    <3>1. \A v \in Workers, f \in Events :
            \/ claim'[v][f] = "none"
            \/ claim'[v][f] = claim[v][f] /\ held'[v][f] = held[v][f]
      BY <2>7 DEF ReviewDlqUpdateThrows, EndDrain, NoClaims
    <3>2. UNCHANGED <<failed, attempts, tries, overtaken>>
      BY <2>7 DEF ReviewDlqUpdateThrows, EndDrain, table, observed
    <3> QED BY <3>1, <3>2, CountsKept DEF DlqIsEarned
  <2>8. CASE MarkConflictFails(w, e)
    <3>1. \A v \in Workers, f \in Events : claim'[v][f] \in {claim[v][f], "none"}
      BY <2>8, ConflictForgets
    <3>2. UNCHANGED <<failed, attempts, held, tries, overtaken>>
      BY <2>8 DEF MarkConflictFails, table, observed
    <3> QED BY <3>1, <3>2, CountsKept DEF DlqIsEarned
  <2> QED BY <1>2, <2>1, <2>2, <2>3, <2>4, <2>5, <2>6, <2>7, <2>8 DEF RowStep
<1>3. ASSUME NEW e \in Events, TableStep(e) PROVE DlqInv'
  <2>1. UNCHANGED <<failed, attempts, claim, held, tries, overtaken>>
    BY <1>3 DEF TableStep, ScheduleEvent, BackoffElapses, RunCleanup, RecoverReads, table, drains, observed
  <2> QED BY <2>1, CountsKept DEF DlqIsEarned
<1>4. ASSUME NEW p \in Processors, LockTtlElapses(p) PROVE DlqInv'
  BY <1>4, CountsKept DEF LockTtlElapses, table, drains, observed, DlqIsEarned
<1>5. ASSUME NEW d \in Pods, Crash(d) PROVE DlqInv'
  <2>1. \A v \in Workers, f \in Events :
          \/ claim'[v][f] = "none"
          \/ claim'[v][f] = claim[v][f] /\ held'[v][f] = held[v][f]
    BY <1>5 DEF Crash, NoClaims
  <2>2. UNCHANGED <<failed, attempts, tries, overtaken>>
    BY <1>5 DEF Crash, table, observed
  <2> QED BY <2>1, <2>2, CountsKept DEF DlqIsEarned
<1>6. ASSUME NEW S \in SUBSET Events, Requeue(S) \/ MarkDiscarded(S) PROVE DlqInv'
  <2>1. CASE Requeue(S)
    <3>1. /\ UNCHANGED <<claim, held>> /\ failed' = failed \ S
          /\ \A e \in S : attempts'[e] = 0 /\ tries'[e] = 0
          /\ \A e \in Events \ S : attempts'[e] = attempts[e] /\ tries'[e] = tries[e]
          /\ \A e \in S : e \in overtaken' \/ \A w \in Workers : claim[w][e] = "none"
          /\ \A e \in Events \ S : e \in overtaken' <=> e \in overtaken
      BY <2>1 DEF Requeue, drains
    <3>2. CountsAreTries'
      BY <3>1 DEF CountsAreTries, Spent, HeldCounts
    <3>3. DlqIsEarned'
      BY <3>1 DEF DlqIsEarned
    <3> QED BY <3>1, <3>2, <3>3
  <2>2. CASE MarkDiscarded(S)
    BY <2>2, CountsKept DEF MarkDiscarded, drains, observed, DlqIsEarned
  <2> QED BY <1>6, <2>1, <2>2
<1>7. CASE RecoverAll
  <2>1. Dlq \in SUBSET Events
    BY DEF Dlq
  <2> QED BY <1>6, <1>7, <2>1 DEF RecoverAll
<1>8. CASE RecoverWrites
  <2>1. {cli} \cap rows \in SUBSET Events
    OBVIOUS
  <2> QED BY <1>6, <1>8, <2>1 DEF RecoverWrites
<1>9. CASE UNCHANGED vars
  BY <1>9, CountsKept DEF vars, table, drains, observed, DlqIsEarned
<1> QED BY <1>1, <1>2, <1>3, <1>4, <1>5, <1>7, <1>8, <1>9 DEF Next

(* No row enters the dead-letter queue before its failures have used up a
   limit, although drains write back counts that are out of date; only a
   drain that held a row while an operator retried it may bury it sooner.    *)
THEOREM DlqEarned == Spec => []DlqIsEarned
<1>1. Init => DlqInv
  BY ConstantsAssumption
     DEF Init, DlqInv, CountsAreTries, HeldCounts, ClaimsAreSelected, DlqIsEarned, NoClaims, NothingRead
<1>2. DlqInv => DlqIsEarned
  BY DEF DlqInv
<1> QED BY <1>1, <1>2, TypeCorrect, DlqStep, PTL DEF Spec

-----------------------------------------------------------------------------
(* The advisory lock. *)
LEMMA LeaseStep == TypeOK /\ LeaseIsLock /\ [Next]_vars => LeaseIsLock'
<1> SUFFICES ASSUME TypeOK, LeaseIsLock, [Next]_vars PROVE LeaseIsLock'
  OBVIOUS
<1> USE ConstantsAssumption DEF TypeOK, LeaseIsLock
<1>1. ASSUME NEW w \in Workers, DrainStep(w) PROVE LeaseIsLock'
  <2>1. CASE AcquireAdvisoryLock(w)
    BY <2>1 DEF AcquireAdvisoryLock
  <2>2. CASE AcquireReplyLost(w)
    BY <2>2 DEF AcquireReplyLost
  <2>3. CASE SelectPending(w)
    BY <2>3 DEF SelectPending, locks
  <2>4. CASE ReleaseAdvisoryLock(w)
    BY <2>4 DEF ReleaseAdvisoryLock
  <2>5. CASE ReleaseFails(w)
    BY <2>5 DEF ReleaseFails
  <2>6. CASE UNCHANGED locks
    BY <2>6 DEF locks
  <2> QED BY <1>1, <2>1, <2>2, <2>3, <2>4, <2>5, <2>6
          DEF DrainStep, FinishDrain, FinishDrainReleaseFails, DrainThrows, AdriftEnds
<1>2. ASSUME NEW w \in Workers, NEW e \in Events, RowStep(w, e) PROVE LeaseIsLock'
  <2>1. CASE ReleaseAdvisoryLock(w)
    BY <2>1 DEF ReleaseAdvisoryLock
  <2>2. CASE UNCHANGED locks
    BY <2>2 DEF locks
  <2> QED BY <1>2, <2>1, <2>2
          DEF RowStep, SkipProcessedInRun, DispatchSucceeds, DispatchFails, DispatchTakenForConflict,
              MarkProcessed, MarkProcessedFails, MarkConflictFails, HandleFailure, ReviewDlqUpdateThrows
<1>3. ASSUME NEW e \in Events, TableStep(e) PROVE LeaseIsLock'
  BY <1>3 DEF TableStep, ScheduleEvent, BackoffElapses, RunCleanup, RecoverReads, locks
<1>4. ASSUME NEW p \in Processors, LockTtlElapses(p) PROVE LeaseIsLock'
  BY <1>4 DEF LockTtlElapses
<1>5. ASSUME NEW d \in Pods, Crash(d) PROVE LeaseIsLock'
  BY <1>5 DEF Crash
<1>6. CASE RecoverAll \/ RecoverWrites
  BY <1>6 DEF RecoverAll, RecoverWrites, Requeue, MarkDiscarded, locks
<1>7. CASE UNCHANGED vars
  BY <1>7 DEF vars, locks
<1> QED BY <1>1, <1>2, <1>3, <1>4, <1>5, <1>6, <1>7 DEF Next

(* Two drains of a locked processor never both run inside their TTL. *)
THEOREM LeaseExclusive == Spec => []LeaseIsExclusive
<1>1. Init => LeaseIsLock
  BY DEF Init, LeaseIsLock
<1>2. LeaseIsLock => LeaseIsExclusive
  BY DEF LeaseIsLock, LeaseIsExclusive
<1> QED BY <1>1, <1>2, TypeCorrect, LeaseStep, PTL DEF Spec

-----------------------------------------------------------------------------
(* What a step may do to failed_at. *)

(* failed_at is set only by handleFailure, on a row that is not processed,
   and cleared only by the CLI.                                             *)
LEMMA FailedChanges ==
  ASSUME [Next]_vars
  PROVE  \/ failed' = failed
         \/ \E w \in Workers, e \in Events :
              /\ HandleFailure(w, e)
              /\ e \in rows \ processed
              /\ failed' = failed \cup {e}
         \/ \E S \in {Dlq, {cli} \cap rows} : Requeue(S)
<1>1. ASSUME NEW w \in Workers, DrainStep(w) PROVE failed' = failed
  BY <1>1 DEF DrainStep, AcquireAdvisoryLock, AcquireReplyLost, SelectPending, FinishDrain,
              FinishDrainReleaseFails, DrainThrows, AdriftEnds, EndDrain, table
<1>2. ASSUME NEW w \in Workers, NEW e \in Events, RowStep(w, e)
      PROVE  failed' = failed \/ (HandleFailure(w, e) /\ e \in rows \ processed /\ failed' = failed \cup {e})
  <2>1. CASE HandleFailure(w, e)
    <3>1. CASE UpdateMatches(ProcOf[w], e) /\ MovesToDlq(w, e)
      <4>1. ProcOf[w] # "review" /\ failed' = failed \cup {e}
        BY <2>1, <3>1, Zenon DEF HandleFailure
      <4> QED BY <2>1, <3>1, <4>1 DEF UpdateMatches
    <3>2. CASE ~(UpdateMatches(ProcOf[w], e) /\ MovesToDlq(w, e))
      BY <2>1, <3>2, Zenon DEF HandleFailure
    <3> QED BY <3>1, <3>2
  <2>2. CASE ~HandleFailure(w, e)
    BY <1>2, <2>2 DEF RowStep, SkipProcessedInRun, DispatchSucceeds, DispatchFails,
                    DispatchTakenForConflict, MarkConflictFails, MarkProcessed,
                      MarkProcessedFails, ReviewDlqUpdateThrows, EndDrain, table
  <2> QED BY <2>1, <2>2
<1>3. ASSUME NEW e \in Events, TableStep(e) PROVE failed' = failed
  BY <1>3 DEF TableStep, ScheduleEvent, BackoffElapses, RunCleanup, RecoverReads, table
<1>4. ASSUME NEW p \in Processors, LockTtlElapses(p) PROVE failed' = failed
  BY <1>4 DEF LockTtlElapses, table
<1>5. ASSUME NEW d \in Pods, Crash(d) PROVE failed' = failed
  BY <1>5 DEF Crash, table
<1>6. CASE RecoverAll \/ RecoverWrites
  BY <1>6 DEF RecoverAll, RecoverWrites, MarkDiscarded
<1>7. CASE UNCHANGED vars
  BY <1>7 DEF vars, table
<1> QED BY <1>1, <1>2, <1>3, <1>4, <1>5, <1>6, <1>7 DEF Next

(* A drain that lost the race cannot bury a row another drain completed. *)
THEOREM NeverBuriedOnceProcessed == Spec => ProcessedNeverDlqd
<1>1. [Next]_vars => [\A e \in processed \ failed : e \notin failed']_vars
  BY FailedChanges DEF Requeue
<1> QED BY <1>1, PTL DEF Spec, ProcessedNeverDlqd

-----------------------------------------------------------------------------
(* The contract.  Whatever a column or a drain refers to had a row. *)
TableInv ==
  /\ processed \subseteq rows \cup gone
  /\ failed \subseteq rows \cup gone
  /\ \A w \in Workers, e \in Events : claim[w][e] # "none" => e \in rows \cup gone

LEMMA RowsStay == ASSUME TypeOK, [Next]_vars PROVE rows \cup gone \subseteq (rows \cup gone)'
<1>1. ASSUME NEW w \in Workers, DrainStep(w) PROVE UNCHANGED <<rows, gone>>
  BY <1>1 DEF DrainStep, AcquireAdvisoryLock, AcquireReplyLost, SelectPending, FinishDrain,
              FinishDrainReleaseFails, DrainThrows, AdriftEnds, EndDrain, table
<1>2. ASSUME NEW w \in Workers, NEW e \in Events, RowStep(w, e) PROVE UNCHANGED <<rows, gone>>
  BY <1>2 DEF RowStep, SkipProcessedInRun, DispatchSucceeds, DispatchFails,
                    DispatchTakenForConflict, MarkConflictFails, MarkProcessed,
              MarkProcessedFails, HandleFailure, ReviewDlqUpdateThrows, EndDrain, table
<1>3. ASSUME NEW e \in Events, TableStep(e) PROVE rows \cup gone \subseteq (rows \cup gone)'
  BY <1>3 DEF TableStep, ScheduleEvent, BackoffElapses, RunCleanup, RecoverReads, table
<1>4. ASSUME NEW p \in Processors, LockTtlElapses(p) PROVE UNCHANGED <<rows, gone>>
  BY <1>4 DEF LockTtlElapses, table
<1>5. ASSUME NEW d \in Pods, Crash(d) PROVE UNCHANGED <<rows, gone>>
  BY <1>5 DEF Crash, table
<1>6. CASE RecoverAll \/ RecoverWrites
  BY <1>6 DEF RecoverAll, RecoverWrites, Requeue, MarkDiscarded
<1>7. CASE UNCHANGED vars
  BY <1>7 DEF vars, table
<1> QED BY <1>1, <1>2, <1>3, <1>4, <1>5, <1>6, <1>7 DEF Next

(* processed_at is set only by markProcessed, on a row it finds. *)
LEMMA ProcessedChanges ==
  ASSUME [Next]_vars
  PROVE  \/ processed' = processed
         \/ \E w \in Workers, e \in Events :
              MarkProcessed(w, e) /\ e \in rows /\ processed' = processed \cup {e}
<1>1. ASSUME NEW w \in Workers, DrainStep(w) PROVE processed' = processed
  BY <1>1 DEF DrainStep, AcquireAdvisoryLock, AcquireReplyLost, SelectPending, FinishDrain,
              FinishDrainReleaseFails, DrainThrows, AdriftEnds, EndDrain, table
<1>2. ASSUME NEW w \in Workers, NEW e \in Events, RowStep(w, e)
      PROVE  processed' = processed \/ (MarkProcessed(w, e) /\ e \in rows /\ processed' = processed \cup {e})
  BY <1>2 DEF RowStep, SkipProcessedInRun, DispatchSucceeds, DispatchFails,
                    DispatchTakenForConflict, MarkConflictFails, MarkProcessed,
              MarkProcessedFails, HandleFailure, ReviewDlqUpdateThrows, EndDrain, table
<1>3. ASSUME NEW e \in Events, TableStep(e) PROVE processed' = processed
  BY <1>3 DEF TableStep, ScheduleEvent, BackoffElapses, RunCleanup, RecoverReads, table
<1>4. ASSUME NEW p \in Processors, LockTtlElapses(p) PROVE processed' = processed
  BY <1>4 DEF LockTtlElapses, table
<1>5. ASSUME NEW d \in Pods, Crash(d) PROVE processed' = processed
  BY <1>5 DEF Crash, table
<1>6. CASE RecoverAll \/ RecoverWrites
  BY <1>6 DEF RecoverAll, RecoverWrites, Requeue, MarkDiscarded
<1>7. CASE UNCHANGED vars
  BY <1>7 DEF vars, table
<1> QED BY <1>1, <1>2, <1>3, <1>4, <1>5, <1>6, <1>7 DEF Next

(* A drain claims only rows of the table. *)
LEMMA ClaimChanges ==
  ASSUME TypeOK, [Next]_vars, NEW w \in Workers, NEW e \in Events, claim'[w][e] # "none"
  PROVE  claim[w][e] # "none" \/ e \in rows
<1>1. ASSUME NEW v \in Workers, DrainStep(v) PROVE claim[w][e] # "none" \/ e \in rows
  <2>1. CASE SelectPending(v)
    <3> DEFINE batch == Oldest({f \in Events : BuildPendingWhere(ProcOf[v], f)}, BatchSize)
    <3>1. batch \subseteq rows
      BY DEF Oldest, BuildPendingWhere
    <3>2. claim' = [claim EXCEPT ![v] = [f \in Events |-> IF f \in batch THEN "claimed" ELSE "none"]]
      BY <2>1 DEF SelectPending
    <3> HIDE DEF batch
    <3> QED BY <3>1, <3>2 DEF TypeOK
  <2>2. CASE EndDrain(v)
    BY <2>2 DEF EndDrain, NoClaims, TypeOK
  <2>3. CASE claim' = claim
    BY <2>3
  <2> QED BY <1>1, <2>1, <2>2, <2>3
          DEF DrainStep, AcquireAdvisoryLock, AcquireReplyLost, FinishDrain,
              FinishDrainReleaseFails, DrainThrows, AdriftEnds, drains
<1>2. ASSUME NEW v \in Workers, NEW f \in Events, RowStep(v, f) PROVE claim[w][e] # "none"
  <2>1. CASE ReviewDlqUpdateThrows(v, f)
    BY <2>1 DEF ReviewDlqUpdateThrows, EndDrain, NoClaims, TypeOK
  <2>2. CASE MarkConflictFails(v, f)
    BY <2>2, ConflictForgets
  <2>3. CASE ~(ReviewDlqUpdateThrows(v, f) \/ MarkConflictFails(v, f))
    <3>1. claim[v][f] # "none"
      BY <1>2, <2>3 DEF RowStep, SkipProcessedInRun, DispatchSucceeds, DispatchFails, Turn,
                        DispatchTakenForConflict, MarkProcessed, MarkProcessedFails, HandleFailure
    <3>2. \E c \in ClaimStates : claim' = [claim EXCEPT ![v][f] = c]
      BY <1>2, <2>3 DEF RowStep, SkipProcessedInRun, DispatchSucceeds, DispatchFails,
                        DispatchTakenForConflict, MarkProcessed, MarkProcessedFails, HandleFailure,
                        ClaimStates
    <3> QED BY <3>1, <3>2 DEF TypeOK
  <2> QED BY <2>1, <2>2, <2>3
<1>3. ASSUME NEW f \in Events, TableStep(f) PROVE claim' = claim
  BY <1>3 DEF TableStep, ScheduleEvent, BackoffElapses, RunCleanup, RecoverReads, drains
<1>4. ASSUME NEW p \in Processors, LockTtlElapses(p) PROVE claim' = claim
  BY <1>4 DEF LockTtlElapses, drains
<1>5. ASSUME NEW d \in Pods, Crash(d) PROVE claim[w][e] # "none"
  BY <1>5 DEF Crash, NoClaims
<1>6. CASE RecoverAll \/ RecoverWrites
  BY <1>6 DEF RecoverAll, RecoverWrites, Requeue, MarkDiscarded, drains
<1>7. CASE UNCHANGED vars
  BY <1>7 DEF vars, drains
<1> QED BY <1>1, <1>2, <1>3, <1>4, <1>5, <1>6, <1>7 DEF Next

LEMMA TableInvStep == TypeOK /\ TableInv /\ [Next]_vars => TableInv'
<1> SUFFICES ASSUME TypeOK, TableInv, [Next]_vars PROVE TableInv'
  OBVIOUS
<1>1. rows \cup gone \subseteq (rows \cup gone)'
  BY RowsStay
<1>2. processed' \subseteq processed \cup rows
  BY ProcessedChanges
<1>3. failed' \subseteq failed \cup rows
  BY FailedChanges DEF Requeue
<1>4. \A w \in Workers, e \in Events : claim'[w][e] # "none" => claim[w][e] # "none" \/ e \in rows
  BY ClaimChanges
<1> QED BY <1>1, <1>2, <1>3, <1>4 DEF TableInv

(* A step that leaves the columns and the deliveries alone is a stutter. *)
LEMMA SameStatus ==
  ASSUME UNCHANGED <<rows, processed, failed, delivered, conflicts>>
  PROVE  UNCHANGED Contract!contractVars
BY DEF EventStatus, Contract!contractVars

(* Clearing failed_at revives the rows that were in the DLQ, no others. *)
LEMMA RequeueRevives ==
  ASSUME TypeOK, NEW S \in SUBSET Events, Requeue(S)
  PROVE  Contract!Next
<1> DEFINE R == ((S \cap failed) \cap rows) \ processed
<1>1. UNCHANGED <<rows, processed, delivered, conflicts>> /\ failed' = failed \ S
  BY DEF Requeue, observed
<1>2. R \in SUBSET Events
  OBVIOUS
<1>3. \A e \in R : EventStatus[e] = "dead"
  BY DEF EventStatus
<1>4. EventStatus' = [e \in Events |-> IF e \in R THEN "pending" ELSE EventStatus[e]]
  BY <1>1 DEF EventStatus
<1>5. Contract!Revive(R)
  BY <1>1, <1>3, <1>4 DEF Contract!Revive
<1> QED BY <1>2, <1>5 DEF Contract!Next

(* Every step of the outbox is a step of the contract or a stutter. *)
LEMMA ContractStep ==
  TypeOK /\ TableInv /\ DeliveryInv /\ [Next]_vars => [Contract!Next]_(Contract!contractVars)
<1> SUFFICES ASSUME TypeOK, TableInv, DeliveryInv, [Next]_vars
             PROVE  Contract!Next \/ UNCHANGED Contract!contractVars
  OBVIOUS
<1>1. ASSUME NEW w \in Workers, DrainStep(w) PROVE UNCHANGED Contract!contractVars
  <2>1. UNCHANGED <<rows, processed, failed, delivered, conflicts>>
    BY <1>1 DEF DrainStep, AcquireAdvisoryLock, AcquireReplyLost, SelectPending, FinishDrain,
                FinishDrainReleaseFails, DrainThrows, AdriftEnds, EndDrain, table, observed
  <2> QED BY <2>1, SameStatus
<1>2. ASSUME NEW w \in Workers, NEW e \in Events, RowStep(w, e)
      PROVE  Contract!Next \/ UNCHANGED Contract!contractVars
  <2>1. CASE DispatchSucceeds(w, e)
    <3>1. e \in rows \cup gone
      BY <2>1 DEF DispatchSucceeds, Turn, TableInv
    <3>2. EventStatus[e] # "absent"
      BY <3>1 DEF DeliveryInv, GoneIsProcessed, EventStatus
    <3>3. delivered' = delivered \cup {e} /\ UNCHANGED <<rows, processed, failed, conflicts>>
      BY <2>1 DEF DispatchSucceeds, table
    <3>4. Contract!Deliver(e)
      BY <3>2, <3>3 DEF Contract!Deliver, EventStatus
    <3> QED BY <3>4 DEF Contract!Next
  <2>2. CASE MarkProcessed(w, e)
    <3>1. UNCHANGED <<rows, failed, delivered, conflicts>> /\ e \in delivered \cup conflicts
      BY <2>2 DEF MarkProcessed, observed, DeliveryInv, SentIsDelivered
    <3>2. CASE processed' = processed
      BY <3>1, <3>2, SameStatus
    <3>3. CASE e \in rows \ processed /\ processed' = processed \cup {e}
      <4>1. EventStatus[e] \in {"pending", "dead"}
        BY <3>3 DEF EventStatus
      <4>2. EventStatus' = [EventStatus EXCEPT ![e] = "done"]
        BY <3>1, <3>3 DEF EventStatus
      <4>3. Contract!Complete(e)
        BY <3>1, <4>1, <4>2 DEF Contract!Complete
      <4> QED BY <4>3 DEF Contract!Next
    <3> QED BY <2>2, <3>2, <3>3 DEF MarkProcessed
  <2>3. CASE HandleFailure(w, e)
    <3>1. UNCHANGED <<rows, processed, delivered, conflicts>>
      BY <2>3 DEF HandleFailure, observed
    <3>2. CASE failed' = failed
      BY <3>1, <3>2, SameStatus
    <3>3. CASE failed' # failed
      <4>1. failed' = failed \cup {e} /\ e \in rows \ processed /\ e \notin failed
        <5>1. UpdateMatches(ProcOf[w], e) /\ MovesToDlq(w, e)
          BY <2>3, <3>3, Zenon DEF HandleFailure
        <5>2. ProcOf[w] # "review" /\ failed' = failed \cup {e}
          BY <2>3, <5>1, Zenon DEF HandleFailure
        <5> QED BY <3>3, <5>1, <5>2 DEF UpdateMatches
      <4>2. EventStatus[e] = "pending"
        BY <4>1 DEF EventStatus
      <4>3. EventStatus' = [EventStatus EXCEPT ![e] = "dead"]
        BY <3>1, <4>1 DEF EventStatus
      <4>4. Contract!Bury(e)
        BY <3>1, <4>2, <4>3 DEF Contract!Bury
      <4> QED BY <4>4 DEF Contract!Next
    <3> QED BY <3>2, <3>3
  <2>4. CASE DispatchTakenForConflict(w, e)
    <3>1. e \in rows \cup gone
      BY <2>4 DEF DispatchTakenForConflict, Turn, TableInv
    <3>2. EventStatus[e] # "absent"
      BY <3>1 DEF DeliveryInv, GoneIsProcessed, EventStatus
    <3>3. conflicts' = conflicts \cup {e} /\ UNCHANGED <<rows, processed, failed, delivered>>
      BY <2>4 DEF DispatchTakenForConflict, table
    <3>4. Contract!ReportDuplicate(e)
      BY <3>2, <3>3 DEF Contract!ReportDuplicate, EventStatus
    <3> QED BY <3>4 DEF Contract!Next
  <2>5. CASE ~(\/ DispatchSucceeds(w, e) \/ DispatchTakenForConflict(w, e)
               \/ MarkProcessed(w, e) \/ HandleFailure(w, e))
    <3>1. UNCHANGED <<rows, processed, failed, delivered, conflicts>>
      BY <1>2, <2>5 DEF RowStep, SkipProcessedInRun, DispatchFails, MarkConflictFails, MarkProcessedFails,
                        ReviewDlqUpdateThrows, EndDrain, table, observed
    <3> QED BY <3>1, SameStatus
  <2> QED BY <2>1, <2>2, <2>3, <2>4, <2>5
<1>3. ASSUME NEW e \in Events, TableStep(e)
      PROVE  Contract!Next \/ UNCHANGED Contract!contractVars
  <2>1. CASE ScheduleEvent(e)
    <3>1. /\ e \notin rows \cup processed \cup failed
          /\ rows' = rows \cup {e}
          /\ UNCHANGED <<processed, failed, delivered, conflicts>>
      BY <2>1 DEF ScheduleEvent, TableInv, observed
    <3>2. EventStatus[e] = "absent"
      BY <3>1 DEF EventStatus
    <3>3. EventStatus' = [EventStatus EXCEPT ![e] = "pending"]
      BY <3>1 DEF EventStatus
    <3>4. Contract!Schedule(e)
      BY <3>1, <3>2, <3>3 DEF Contract!Schedule
    <3> QED BY <3>4 DEF Contract!Next
  <2>2. CASE RunCleanup(e)
    <3>1. rows' = rows \ {e} /\ e \in processed /\ UNCHANGED <<processed, failed, delivered, conflicts>>
      BY <2>2 DEF RunCleanup, observed
    <3>2. EventStatus' = EventStatus
      BY <3>1 DEF EventStatus
    <3> QED BY <3>1, <3>2 DEF Contract!contractVars
  <2>3. CASE BackoffElapses(e) \/ RecoverReads(e)
    BY <2>3, SameStatus DEF BackoffElapses, RecoverReads, table, observed
  <2> QED BY <1>3, <2>1, <2>2, <2>3 DEF TableStep
<1>4. ASSUME NEW p \in Processors, LockTtlElapses(p) PROVE UNCHANGED Contract!contractVars
  BY <1>4, SameStatus DEF LockTtlElapses, table, observed
<1>5. ASSUME NEW d \in Pods, Crash(d) PROVE UNCHANGED Contract!contractVars
  BY <1>5, SameStatus DEF Crash, table, observed
<1>6. ASSUME NEW S \in SUBSET Events, Requeue(S) \/ MarkDiscarded(S)
      PROVE  Contract!Next \/ UNCHANGED Contract!contractVars
  <2>1. CASE MarkDiscarded(S)
    BY <2>1, SameStatus DEF MarkDiscarded, observed
  <2> QED BY <1>6, <2>1, RequeueRevives
<1>7. CASE RecoverAll
  <2>1. Dlq \in SUBSET Events
    BY DEF Dlq, TypeOK
  <2> QED BY <1>6, <1>7, <2>1 DEF RecoverAll
<1>8. CASE RecoverWrites
  <2>1. {cli} \cap rows \in SUBSET Events
    BY DEF TypeOK
  <2> QED BY <1>6, <1>8, <2>1 DEF RecoverWrites
<1>9. CASE UNCHANGED vars
  BY <1>9, SameStatus DEF vars, table, observed
<1> QED BY <1>1, <1>2, <1>3, <1>4, <1>5, <1>7, <1>8, <1>9 DEF Next

(* The outbox with its drains, locks, faults and operators implements the
   contract: no event is lost, and none is done before it was delivered.     *)
THEOREM ImplementsContract == Spec => KeepsContract
<1>1. Init => TableInv
  BY DEF Init, TableInv, NoClaims
<1>2. Init => DeliveryInv
  BY DEF Init, DeliveryInv, SentIsDelivered, GoneIsProcessed, ProcessedIsDelivered, NoClaims
<1>3. Init => Contract!Init
  BY DEF Init, Contract!Init, EventStatus
<1> QED BY <1>1, <1>2, <1>3, TypeCorrect, TableInvStep, DeliveryStep, ContractStep, PTL
        DEF Spec, KeepsContract, Contract!Spec
=============================================================================
