--------------------------- MODULE OutboxContract ---------------------------
(***************************************************************************)
(* What the outbox promises its producers, without processors, locks,      *)
(* retries or time: an event that was scheduled stays on the books until   *)
(* its side effect has taken place at least once, or was reported to be a  *)
(* duplicate; giving up on it is visible (the dead-letter queue) and can   *)
(* be undone by an operator.                                               *)
(***************************************************************************)
CONSTANT Events

VARIABLES
  status,     \* absent, pending, dead (in the DLQ) or done
  delivered,  \* events whose side effect has taken place
  conflicts   \* events reported to be duplicates, rightly or not

contractVars == <<status, delivered, conflicts>>

Init ==
  /\ status = [e \in Events |-> "absent"]
  /\ delivered = {} /\ conflicts = {}

Schedule(e) ==
  /\ status[e] = "absent"
  /\ status' = [status EXCEPT ![e] = "pending"]
  /\ UNCHANGED <<delivered, conflicts>>

Deliver(e) ==
  /\ status[e] # "absent"
  /\ delivered' = delivered \cup {e}
  /\ UNCHANGED <<status, conflicts>>

ReportDuplicate(e) ==
  /\ status[e] # "absent"
  /\ conflicts' = conflicts \cup {e}
  /\ UNCHANGED <<status, delivered>>

(* A drain that was overtaken may still complete a buried event. *)
Complete(e) ==
  /\ status[e] \in {"pending", "dead"}
  /\ e \in delivered \cup conflicts
  /\ status' = [status EXCEPT ![e] = "done"]
  /\ UNCHANGED <<delivered, conflicts>>

Bury(e) ==
  /\ status[e] = "pending"
  /\ status' = [status EXCEPT ![e] = "dead"]
  /\ UNCHANGED <<delivered, conflicts>>

Revive(S) ==
  /\ \A e \in S : status[e] = "dead"
  /\ status' = [e \in Events |-> IF e \in S THEN "pending" ELSE status[e]]
  /\ UNCHANGED <<delivered, conflicts>>

Next ==
  \/ \E e \in Events : Schedule(e) \/ Deliver(e) \/ ReportDuplicate(e) \/ Complete(e) \/ Bury(e)
  \/ \E S \in SUBSET Events : Revive(S)

Spec == Init /\ [][Next]_contractVars
=============================================================================
