---------------------------- MODULE MCTournament ----------------------------
(* Small tournaments, each around one hazard; the initial state picks one.   *)
EXTENDS Tournament

CONSTANTS ann, bob,
          annJoins, annJoinsAgain, bobJoins, annLeaves, annQuits,
          later, sooner, room2, room1, remove, cancel1, cancel2, add3,
          annPlays1, annPlays1Again, annPlays2

Call(k, u, r, v) == [kind |-> k, user |-> u, round |-> r, value |-> v]

MCCallOf ==
  [c \in {annJoins, annJoinsAgain, bobJoins, annLeaves, annQuits, later, sooner,
          room2, room1, remove, cancel1, cancel2, add3, annPlays1, annPlays1Again,
          annPlays2} |->
    CASE c \in {annJoins, annJoinsAgain}  -> Call("register", ann, 1, 0)
      [] c = bobJoins                     -> Call("register", bob, 1, 0)
      [] c = annLeaves                    -> Call("unregister", ann, 1, 0)
      [] c = annQuits                     -> Call("withdraw", ann, 1, 0)
      [] c = later                        -> Call("reschedule", ann, 1, 2)
      [] c = sooner                       -> Call("reschedule", ann, 1, 0)
      [] c = room2                        -> Call("resize", ann, 1, 2)
      [] c = room1                        -> Call("resize", ann, 1, 1)
      [] c = remove                       -> Call("delete", ann, 1, 0)
      [] c \in {cancel1, cancel2}         -> Call("cancel", ann, 1, 0)
      [] c = add3                         -> Call("addRound", ann, 3, 0)
      [] c \in {annPlays1, annPlays1Again} -> Call("playRound", ann, 1, 0)
      [] c = annPlays2                    -> Call("playRound", ann, 2, 0)]

MCUsers      == {ann, bob}
MCRounds     == 1 .. 3
MCRoundStart == <<0, 0, 1>>
MCRoundEnd   == <<1, 1, 2>>
MCCalls      == DOMAIN MCCallOf
MCJobOf      == [p \in {"registration1", "start1", "finalize1", "open1", "open2",
                        "close1", "reconcile1"} |->
                   CASE p = "registration1"      -> "registration-open"
                     [] p = "start1"             -> "tournament-start"
                     [] p = "finalize1"          -> "tournament-finalize"
                     [] p \in {"open1", "open2"} -> "round-open"
                     [] p = "close1"             -> "round-close"
                     [] p = "reconcile1"         -> "totals-reconcile"]
MCPasses     == DOMAIN MCJobOf

(* The status the tournament has, its start and limit, its rounds, its active
   members, and the calls that are made. *)
Scene(s, begins, limit, rounds, active, calls) ==
  [status |-> s, begins |-> begins, limit |-> limit, rounds |-> rounds,
   active |-> active, calls |-> calls]

None    == <<"none", "none", "none">>
Pending == <<"pending", "pending", "pending">>

Scenarios ==
  { Scene("upcoming", 1, NoLimit, None, {}, {annJoins, add3, cancel1}),
    Scene("registration", 2, 1, None, {}, {annJoins, annJoinsAgain, bobJoins, annLeaves}),
    Scene("registration", 2, 1, None, {ann}, {bobJoins, annLeaves, annJoins, room2}),
    Scene("registration", 2, NoLimit, None, {ann, bob}, {room1, room2, annLeaves}),
    Scene("registration", 1, NoLimit, None, {ann}, {annLeaves, annQuits, later, sooner}),
    Scene("registration", 1, NoLimit, None, {}, {annJoins, cancel1, cancel2}),
    Scene("registration", 1, NoLimit, None, {ann}, {remove, cancel1, annLeaves}),
    Scene("registration", 1, NoLimit, None, {ann}, {remove, add3}),
    Scene("ongoing", 0, NoLimit, Pending, {}, {}),
    Scene("ongoing", 0, NoLimit, <<"open", "none", "none">>, {ann},
          {annPlays1, annPlays1Again, annQuits}),
    Scene("ongoing", 0, NoLimit, <<"open", "open", "none">>, {ann}, {annPlays1, annPlays2}),
    Scene("finished", 0, NoLimit, <<"finished", "none", "none">>, {ann}, {cancel1, annQuits}) }

(* Calls outside the scenario are never made: they count as refused. *)
SceneInit ==
  \E S \in Scenarios :
    /\ status = S.status /\ startAt = S.begins /\ endAt = S.begins + 2
    /\ maxParticipants = S.limit /\ round = S.rounds
    /\ member = [u \in Users |-> IF u \in S.active THEN "active" ELSE "none"]
    /\ recent = {}
    /\ pc = [c \in Calls |-> IF c \in S.calls THEN "new" ELSE "refused"]
    /\ Init

TournamentSpec == SceneInit /\ [][Next]_vars /\ Fairness
=============================================================================
