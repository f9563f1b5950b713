----------------------------- MODULE MCInstance -----------------------------
(* Small rooms, each around one hazard; the initial state picks one.         *)
EXTENDS Instance

CONSTANTS host, ann, bob,
          joinAnn, joinAnnAgain, joinBob, count1, count2, cancel1,
          start1, start2, close1, close2, closeByAnn

Book ==
  [c \in {joinAnn, joinAnnAgain, joinBob, count1, count2, cancel1, start1, start2,
          close1, close2, closeByAnn} |->
    CASE c \in {joinAnn, joinAnnAgain} -> <<"join", ann>>
      [] c = joinBob -> <<"join", bob>>
      [] c \in {count1, count2} -> <<"countdown", host>>
      [] c = cancel1 -> <<"cancel", host>>
      [] c \in {start1, start2} -> <<"start", host>>
      [] c \in {close1, close2} -> <<"close", host>>
      [] c = closeByAnn -> <<"close", ann>>]

MCUsers  == {host, ann, bob}
MCCalls  == DOMAIN Book
MCKindOf == [c \in MCCalls |-> Book[c][1]]
MCUserOf == [c \in MCCalls |-> Book[c][2]]
MCPasses == {"pass1", "pass2"}

(* The calls made, the players already seated, those who start an attempt. *)
Scenarios ==
  { [calls |-> {joinAnn, joinAnnAgain, joinBob}, seated |-> {host}, play |-> {host}],
    [calls |-> {joinAnn, count1}, seated |-> {host}, play |-> {host}],
    [calls |-> {count1, cancel1, count2}, seated |-> {host, ann}, play |-> {}],
    [calls |-> {count1, start1}, seated |-> {host, ann}, play |-> {ann}],
    [calls |-> {count1, start1, start2}, seated |-> {host, ann}, play |-> {}],
    [calls |-> {count1, start1, close1}, seated |-> {host, ann}, play |-> {}],
    [calls |-> {count1, close1, close2, closeByAnn}, seated |-> {host}, play |-> {}] }

(* Calls outside the scenario are never made: they count as refused; users
   outside it start no attempt: their handlers count as finished. *)
ScenarioInit ==
  /\ status = "open" /\ version = 1 /\ due = FALSE /\ entered = 0
  /\ linked = {}
  /\ seen = [c \in Calls |-> [status |-> "open", version |-> 1]]
  /\ pass = [p \in Passes |-> Idle]
  /\ \E S \in Scenarios :
       /\ player = [u \in Users |-> IF u \in S.seated THEN "joined" ELSE "none"]
       /\ pc = [c \in Calls |-> IF c \in S.calls THEN "new" ELSE "refused"]
       /\ link = [u \in Users |-> IF u \in S.play THEN "none" ELSE "done"]
       /\ finish = [u \in Users |-> IF u \in S.play THEN "none" ELSE "failed"]
  /\ emitted = [e \in Events |-> 0]
  /\ failures = 0

InstanceSpec == ScenarioInit /\ [][Next]_vars /\ Fairness
=============================================================================
