---------------------------- MODULE MCRetryQueue ----------------------------
(* Two events, on which one handler or both may throw, and two tries; the drain
   is configured with the shipped key, or with the one the bus writes to.     *)
EXTENDS RetryQueue

CONSTANTS e1, e2

MCEvents  == {e1, e2}
MCFailsOn == [e \in MCEvents |-> IF e = e1 THEN {1} ELSE {1, 2}]

MCDelayOf == <<1, 1>>

(* The drain with its default key, and with the key of the bus. *)
MCPopKeys == {"tier:attempt:dlq", "attempt:event_dead_letter"}
MCPods    == {"pod1", "pod2"}

RetrySpec == RQSpec /\ RQFairness
=============================================================================
