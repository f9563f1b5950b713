---------------------------- MODULE MCOutboxLive ----------------------------
(***************************************************************************)
(* The fair outbox for TLC: the locked coin and review processors and the  *)
(* catch-all auth processor compete for a coin event, a review event, or a *)
(* review event whose payload is rejected.                                 *)
(***************************************************************************)
EXTENDS Outbox, TLC

CONSTANTS c1, a1, r1, pod1, pod2

LiveProcOf == c1 :> "coin" @@ a1 :> "auth" @@ r1 :> "review"
LivePodOf  == c1 :> pod1 @@ a1 :> pod2 @@ r1 :> pod1
LiveAggOf  == <<"coin", "review", "review">>
LiveKeyOf  == <<NoKey, NoKey, NoKey>>
(* Two failures, so that a drain can write back a count another drain has
   written already.                                                         *)
LimitTwo   == [p \in Processors |-> 2]

(* The events producers schedule in a behaviour. *)
VARIABLE load

(* What the three processors do with a row. *)
LiveRowStep(w, e) ==
  \/ DispatchSucceeds(w, e) \/ DispatchFails(w, e) \/ DispatchTakenForConflict(w, e)
  \/ MarkProcessed(w, e) \/ MarkProcessedFails(w, e) \/ MarkConflictFails(w, e)
  \/ HandleFailure(w, e) \/ ReviewDlqUpdateThrows(w, e)

(* Next without the steps of other processors and of operators, which this
   instance disables (no such worker, MaxOps = 0).                          *)
LiveNext ==
  /\ \/ \E w \in Workers : DrainStep(w)
     \/ \E w \in Workers, e \in Events : LiveRowStep(w, e)
     \/ \E e \in load : ScheduleEvent(e)
     \/ \E e \in Events : BackoffElapses(e) \/ RunCleanup(e)
     \/ \E p \in Processors : LockTtlElapses(p)
     \/ \E d \in Pods : Crash(d)
  /\ UNCHANGED load

LiveInit == Init /\ load \in {{1}, {2}, {3}}

LiveSpec == LiveInit /\ [][LiveNext]_<<vars, load>> /\ Fairness
=============================================================================
