------------------------------ MODULE MCOutbox ------------------------------
(***************************************************************************)
(* Instances of Outbox for TLC.  A behaviour plays one scenario, chosen in *)
(* its initial state: the drains that run, the events producers schedule,  *)
(* and the bounds.  The scenarios add up instead of multiplying, so every  *)
(* processor appears in one run, next to the ones it can disturb.          *)
(***************************************************************************)
EXTENDS Outbox, TLC

CONSTANTS c1, c2, a1, a2, t1, t2, r1, x1, pod1, pod2, k1

MCWorkers == {c1, c2, a1, a2, t1, t2, r1, x1}
MCProcOf ==
  [w \in MCWorkers |->
    CASE w \in {c1, c2} -> "coin"
      [] w \in {a1, a2} -> "auth"
      [] w \in {t1, t2} -> "tournament"
      [] w = r1 -> "review"
      [] w = x1 -> "attempt"]
(* The two tournament slots are overlapping ticks of one pod, the other
   pairs are replicas.                                                      *)
MCPodOf == [w \in MCWorkers |-> IF w \in {c2, a2} THEN pod2 ELSE pod1]

(* 1 and 2 share an idempotency key; 5 and 6 carry a payload their owner
   rejects, and 5 is older than the healthy review event 7.                 *)
MCEvents == 1..8
MCAggOf == <<"coin", "coin", "auth", "tournament", "review", "attempt", "review", "coin">>
MCKeyOf == [e \in MCEvents |-> IF e \in {1, 2} THEN k1 ELSE NoKey]
MCBad   == {5, 6}

LimitTwo == [p \in Processors |-> 2]

Scenario(team, load, f, o) == [team |-> team, load |-> load, faults |-> f, ops |-> o]

VARIABLE scenario

(* Next, with the drains and events of the scenario only. *)
ScenarioNext ==
  \/ \E w \in scenario.team : DrainStep(w)
  \/ \E w \in scenario.team, e \in scenario.load : RowStep(w, e)
  \/ \E e \in scenario.load : TableStep(e)
  \/ \E w \in scenario.team : LockTtlElapses(ProcOf[w])
  \/ \E w \in scenario.team : Crash(PodOf[w])
  \/ RecoverAll \/ RecoverWrites

MCNext ==
  /\ ScenarioNext
  /\ faults' <= scenario.faults
  /\ ops' <= scenario.ops
  /\ UNCHANGED scenario

SafetyScenarios ==
  { Scenario({c1, c2}, {1}, 2, 0), Scenario({c1, c2}, {1}, 1, 1), 
    Scenario({c1}, {1, 2}, 0, 1), Scenario({c1}, {1, 8}, 1, 0),
    Scenario({c1, a1}, {1}, 1, 1), Scenario({a1, a2}, {3}, 2, 1),
    Scenario({t1, t2}, {4}, 2, 0), Scenario({r1, a1}, {5, 7}, 0, 0), Scenario({x1}, {6}, 1, 1) }

SafetyInit == Init /\ scenario \in SafetyScenarios

SafetySpec == SafetyInit /\ [][MCNext]_<<vars, scenario>>
=============================================================================
