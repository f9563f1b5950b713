-------------------------- MODULE TournamentProofs --------------------------
(***************************************************************************)
(* One tournament, for any users, rounds, calls and passes of the cron     *)
(* jobs, any times and any number of failures: its seats, the order of its *)
(* statuses, and that its totals stay sums of scores.                      *)
(***************************************************************************)
EXTENDS Tournament, FiniteSetTheorems, TLAPS

PassStates == [at : {"idle", "selected"}, now : 0 .. Horizon, page : Nat,
               items : SUBSET Rounds, full : BOOLEAN]

(* The part of TypeOK that the first proofs need. *)
ShapeOK ==
  /\ now \in 0 .. Horizon /\ maxParticipants \in Nat
  /\ round \in [Rounds -> {"none", "pending", "open", "finished"}]
  /\ member \in [Users -> {"none", "active", "withdrawn", "completed"}]
  /\ attempts \in [Users \X Rounds -> {0, 1}]
  /\ pc \in [Calls -> {"new", "read", "reread", "done", "refused"}]
  /\ pass \in [Passes -> PassStates]

LEMMA CallTypes ==
  ASSUME NEW c \in Calls
  PROVE  Kind(c) \in Kinds /\ User(c) \in Users /\ Round(c) \in Rounds /\ CallOf[c].value \in Nat
  BY TournamentAssumption DEF Kind, User, Round

LEMMA PassTypes ==
  /\ Idle \in PassStates
  /\ \A j, t, n : DuePage(j, t, n) \subseteq Rounds
<1>1. Idle \in PassStates
  BY TournamentAssumption DEF Idle, PassStates
<1>2. \A t : listDueRoundOpens(t) \subseteq Rounds /\ listDueRoundCloses(t) \subseteq Rounds
  BY DEF listDueRoundOpens, listDueRoundCloses
<1>3. \A S, at, n : PageOf(S, at, n) \subseteq S
  BY DEF PageOf
<1> QED
  BY <1>1, <1>2, <1>3 DEF DuePage

LEMMA ReleaseType ==
  ASSUME ShapeOK, NEW p \in Passes, Release(p)
  PROVE  pass' \in [Passes -> PassStates]
  BY PassTypes DEF Release, ShapeOK

LEMMA ShapeStep == ShapeOK /\ [Next]_vars => ShapeOK'
<1> SUFFICES ASSUME ShapeOK, [Next]_vars PROVE ShapeOK'
  OBVIOUS
<1> USE DEF trow, people, play, jobs
<1>1. CASE Tick
  BY <1>1, TournamentAssumption DEF Tick, ShapeOK
<1>2. ASSUME NEW c \in Calls, Read(c) \/ RereadForCancel(c) \/ FailCall(c) \/ softDeleteTournament(c)
                              \/ cancelTournament(c)
      PROVE  ShapeOK'
  BY <1>2 DEF Read, RereadForCancel, FailCall, softDeleteTournament, cancelTournament, Ends, ShapeOK
<1>3. ASSUME NEW c \in Calls, atomicRegister(c) \/ atomicWithdraw(c) PROVE ShapeOK'
  BY <1>3, CallTypes DEF atomicRegister, atomicWithdraw, Ends, ShapeOK
<1>4. ASSUME NEW c \in Calls, updateTournament(c) PROVE ShapeOK'
  BY <1>4, CallTypes DEF updateTournament, Ends, ShapeOK
<1>5. ASSUME NEW c \in Calls, createRound(c) PROVE ShapeOK'
  BY <1>5, CallTypes DEF createRound, Ends, ShapeOK
<1>6. ASSUME NEW c \in Calls, startRoundAttemptTx(c) PROVE ShapeOK'
  <2>1. <<User(c), Round(c)>> \in Users \X Rounds
    BY CallTypes
  <2>2. attempts' \in [Users \X Rounds -> {0, 1}]
    BY <1>6, <2>1 DEF startRoundAttemptTx, ShapeOK
  <2> QED
    BY <1>6, <2>2 DEF startRoundAttemptTx, Ends, ShapeOK
<1>7. ASSUME NEW x \in Users \X Rounds,
             handleAttemptCompleted(x) \/ recalculateParticipantTotals(x) \/ FailScoring(x)
      PROVE  ShapeOK'
  BY <1>7 DEF handleAttemptCompleted, recalculateParticipantTotals, FailScoring, ShapeOK
<1>8. ASSUME NEW p \in Passes, Select(p) PROVE ShapeOK'
  <2>1. \E S \in SUBSET Rounds : pass' = [pass EXCEPT ![p] =
          [at |-> "selected", now |-> now, page |-> 1, items |-> S, full |-> Cardinality(S) = PageSize]]
    BY <1>8, PassTypes DEF Select
  <2>2. pass' \in [Passes -> PassStates]
    BY <2>1 DEF ShapeOK, PassStates
  <2> QED
    BY <1>8, <2>2 DEF Select, ShapeOK
<1>9. ASSUME NEW p \in Passes, dispatchStartingSoonNotifications(p) \/ startDueTournaments(p)
                               \/ reconcileAllParticipantTotals(p)
      PROVE  ShapeOK'
  <2>1. Release(p)
    BY <1>9 DEF dispatchStartingSoonNotifications, startDueTournaments, reconcileAllParticipantTotals
  <2> QED
    BY <1>9, <2>1, ReleaseType DEF dispatchStartingSoonNotifications, startDueTournaments,
       reconcileAllParticipantTotals, ShapeOK
<1>10. ASSUME NEW p \in Passes, finalizeSingleTournament(p) PROVE ShapeOK'
  <2>1. member' \in [Users -> {"none", "active", "withdrawn", "completed"}]
    BY <1>10 DEF finalizeSingleTournament, ShapeOK
  <2> QED
    BY <1>10, <2>1, ReleaseType DEF finalizeSingleTournament, ShapeOK
<1>11. ASSUME NEW p \in Passes, MarkNextRound(p) PROVE ShapeOK'
  <2>1. pass' \in [Passes -> PassStates]
    BY <1>11 DEF MarkNextRound, ShapeOK, PassStates
  <2>2. round' \in [Rounds -> {"none", "pending", "open", "finished"}]
    BY <1>11 DEF MarkNextRound, markRoundStatus, ShapeOK
  <2> QED
    BY <1>11, <2>1, <2>2 DEF MarkNextRound, ShapeOK
<1>12. ASSUME NEW p \in Passes, TurnPage(p) PROVE ShapeOK'
  <2>1. \/ Release(p)
        \/ \E S \in SUBSET Rounds : pass' = [pass EXCEPT ![p].page = @ + 1, ![p].items = S,
                                                         ![p].full = Cardinality(S) = PageSize]
    BY <1>12, PassTypes DEF TurnPage
  <2>2. ASSUME NEW S \in SUBSET Rounds,
               pass' = [pass EXCEPT ![p].page = @ + 1, ![p].items = S,
                                    ![p].full = Cardinality(S) = PageSize]
        PROVE  pass' \in [Passes -> PassStates]
    <3>1. pass \in [Passes -> PassStates] /\ pass[p].page + 1 \in Nat
      BY DEF ShapeOK, PassStates
    <3>2. [pass EXCEPT ![p].page = @ + 1] \in [Passes -> PassStates]
      BY <3>1 DEF PassStates
    <3>3. ASSUME NEW f \in [Passes -> PassStates], NEW b \in BOOLEAN
          PROVE  [f EXCEPT ![p].items = S, ![p].full = b] \in [Passes -> PassStates]
      BY DEF PassStates
    <3> QED
      BY <2>2, <3>2, <3>3
  <2>3. pass' \in [Passes -> PassStates]
    BY <2>1, <2>2, ReleaseType
  <2> QED
    BY <1>12, <2>3 DEF TurnPage, ShapeOK
<1>13. ASSUME NEW p \in Passes, FailPass(p) PROVE ShapeOK'
  <2>1. pass' = [pass EXCEPT ![p] = Idle]
    BY <1>13 DEF FailPass, Release
  <2>2. pass' \in [Passes -> PassStates]
    BY <2>1, PassTypes DEF ShapeOK
  <2> QED
    BY <1>13, <2>2 DEF FailPass, ShapeOK
<1>14. ASSUME NEW j \in Jobs, ExpireLock(j) PROVE ShapeOK'
  BY <1>14 DEF ExpireLock, ShapeOK
<1>15. CASE UNCHANGED vars
  BY <1>15 DEF vars, ShapeOK
<1>16. ASSUME NEW u \in Users, AgeOut(u) PROVE ShapeOK'
  BY <1>16 DEF AgeOut, ShapeOK
<1> QED
  BY <1>1, <1>2, <1>3, <1>4, <1>5, <1>6, <1>7, <1>8, <1>9, <1>10, <1>11, <1>12, <1>13, <1>14, <1>15,
     <1>16
  DEF Next, CallStep, PassStep

LEMMA ShapeStart == Init => ShapeOK
<1> SUFFICES ASSUME Init PROVE ShapeOK
  OBVIOUS
<1>1. Cardinality(Users) \in Nat
  BY TournamentAssumption, FS_CardinalityType
<1>2. /\ now = 0 /\ maxParticipants \in Nat
      /\ round \in [Rounds -> {"none", "pending", "open", "finished"}]
      /\ member \in [Users -> {"none", "active"}] /\ attempts = [x \in Users \X Rounds |-> 0]
      /\ pass = [p \in Passes |-> Idle] /\ pc \in [Calls -> {"new", "refused"}]
  BY <1>1 DEF Init
<1> QED
  BY <1>2, PassTypes, TournamentAssumption DEF ShapeOK
-----------------------------------------------------------------------------
(* Seats.                                                                   *)

CapacityInv == maxParticipants # NoLimit /\ ~overbooked => Cardinality(Active) <= maxParticipants

LEMMA FiniteActive ==
  /\ IsFiniteSet(Active) /\ Cardinality(Active) \in Nat
  /\ IsFiniteSet(Active') /\ Cardinality(Active') \in Nat
<1>1. Active \subseteq Users /\ Active' \subseteq Users
  BY DEF Active
<1> QED
  BY <1>1, TournamentAssumption, FS_Subset, FS_CardinalityType

(* Only a registration adds an active member, and only an update of the row
   changes the limit.                                                       *)
LEMMA ActiveMoves ==
  ShapeOK /\ [Next]_vars =>
    \/ Active' \subseteq Active /\ UNCHANGED <<maxParticipants, overbooked>>
    \/ \E c \in Calls : atomicRegister(c) \/ updateTournament(c)
<1> SUFFICES ASSUME ShapeOK, [Next]_vars, \A c \in Calls : ~atomicRegister(c) /\ ~updateTournament(c)
             PROVE  Active' \subseteq Active /\ UNCHANGED <<maxParticipants, overbooked>>
  OBVIOUS
<1> USE DEF trow, people, play, jobs
<1>1. ASSUME NEW c \in Calls, CallStep(c) \/ FailCall(c)
      PROVE  Active' \subseteq Active /\ UNCHANGED <<maxParticipants, overbooked>>
  <2>1. UNCHANGED <<maxParticipants, overbooked>>
    BY <1>1 DEF CallStep, Read, atomicWithdraw, softDeleteTournament, RereadForCancel, cancelTournament,
       createRound, startRoundAttemptTx, FailCall
  <2>2. member' = member \/ member' = [member EXCEPT ![User(c)] = "withdrawn"]
    BY <1>1 DEF CallStep, Read, atomicWithdraw, softDeleteTournament, RereadForCancel, cancelTournament,
       createRound, startRoundAttemptTx, FailCall
  <2> QED
    BY <2>1, <2>2, CallTypes DEF Active, ShapeOK
<1>2. ASSUME NEW p \in Passes, PassStep(p) \/ FailPass(p)
      PROVE  Active' \subseteq Active /\ UNCHANGED <<maxParticipants, overbooked>>
  <2>1. UNCHANGED <<maxParticipants, overbooked>>
    BY <1>2 DEF PassStep, Select, dispatchStartingSoonNotifications, startDueTournaments,
       finalizeSingleTournament, MarkNextRound, TurnPage, reconcileAllParticipantTotals, FailPass
  <2>2. CASE finalizeSingleTournament(p)
    BY <2>1, <2>2 DEF finalizeSingleTournament, Active, Standing, ShapeOK
  <2>3. CASE ~finalizeSingleTournament(p)
    <3>1. member' = member
      BY <1>2, <2>3 DEF PassStep, Select, dispatchStartingSoonNotifications, startDueTournaments,
         MarkNextRound, TurnPage, reconcileAllParticipantTotals, FailPass
    <3> QED
      BY <2>1, <3>1 DEF Active
  <2> QED
    BY <2>2, <2>3
<1>3. ASSUME \/ Tick \/ UNCHANGED vars \/ \E j \in Jobs : ExpireLock(j)
             \/ \E v \in Users : AgeOut(v)
             \/ \E x \in Users \X Rounds :
                  handleAttemptCompleted(x) \/ recalculateParticipantTotals(x) \/ FailScoring(x)
      PROVE  UNCHANGED <<member, maxParticipants, overbooked>>
  BY <1>3 DEF Tick, vars, ExpireLock, AgeOut, handleAttemptCompleted, recalculateParticipantTotals, FailScoring
<1>4. CASE UNCHANGED <<member, maxParticipants, overbooked>>
  BY <1>4 DEF Active
<1> QED
  BY <1>1, <1>2, <1>3, <1>4 DEF Next

LEMMA CapacityStep == ShapeOK /\ CapacityInv /\ [Next]_vars => CapacityInv'
<1> SUFFICES ASSUME ShapeOK, CapacityInv, [Next]_vars, maxParticipants' # NoLimit, ~overbooked'
             PROVE  Cardinality(Active') <= maxParticipants'
  BY DEF CapacityInv, Active
<1>t. /\ IsFiniteSet(Active) /\ Cardinality(Active) \in Nat
      /\ IsFiniteSet(Active') /\ Cardinality(Active') \in Nat
      /\ maxParticipants \in Nat /\ maxParticipants' \in Nat
  BY FiniteActive, ShapeStep DEF ShapeOK
<1>1. CASE Active' \subseteq Active /\ UNCHANGED <<maxParticipants, overbooked>>
  <2>1. Cardinality(Active') <= Cardinality(Active)
    BY <1>t, <1>1, FS_Subset
  <2> QED
    BY <1>t, <1>1, <2>1 DEF CapacityInv
<1>2. ASSUME NEW c \in Calls, atomicRegister(c) PROVE Cardinality(Active') <= maxParticipants'
  <2>1. UNCHANGED <<maxParticipants, overbooked>>
    BY <1>2 DEF atomicRegister, trow
  <2>2. CASE member' = member
    BY <1>t, <2>1, <2>2 DEF CapacityInv, Active
  <2>3. CASE member' # member
    <3>1. ~Full /\ member' = [member EXCEPT ![User(c)] = "active"]
      BY <1>2, <2>3 DEF atomicRegister
    <3>2. Active' = Active \cup {User(c)}
      BY <3>1, CallTypes DEF Active, ShapeOK
    <3>3. Cardinality(Active') <= Cardinality(Active) + 1
      BY <1>t, <3>2, FS_AddElement
    <3>4. Cardinality(Active) < maxParticipants
      BY <1>t, <2>1, <3>1 DEF Full
    <3> QED
      BY <1>t, <2>1, <3>3, <3>4
  <2> QED
    BY <2>2, <2>3
<1>3. ASSUME NEW c \in Calls, updateTournament(c) PROVE Cardinality(Active') <= maxParticipants'
  <2>1. Active' = Active
    BY <1>3 DEF updateTournament, people, Active
  <2>2. ~(Cardinality(Active) > maxParticipants')
    BY <1>3 DEF updateTournament
  <2> QED
    BY <1>t, <2>1, <2>2
<1> QED
  BY <1>1, <1>2, <1>3, ActiveMoves

(* However registrations, withdrawals and changes of the limit interleave, the
   tournament is not overbooked unless an update made it so, and nobody gets a
   second attempt in a round: for any number of members and requests.        *)
THEOREM TournamentHoldsItsSeats == Spec => []SeatsHold
<1>1. Init => CapacityInv
  BY DEF Init, CapacityInv
<1>2. ShapeOK /\ CapacityInv => SeatsHold
  BY DEF ShapeOK, CapacityInv, SeatsHold
<1> QED
  BY <1>1, <1>2, ShapeStart, ShapeStep, CapacityStep, PTL DEF Spec
-----------------------------------------------------------------------------
(* The course of a tournament.                                              *)

(* A finished tournament stays so.  The cancellation that has read the row a
   second time writes without looking at the status again; what saves it is
   that a tournament is finished only by a pass that found it finished.      *)
FinishInv ==
  /\ \A c \in Calls : pc[c] = "reread" => status # "finished"
  /\ \A p \in Passes : Selected(p, "tournament-finalize") => status = "finished"

(* The steps that write the status, and how. *)
StatusMoves ==
  \/ status' = status
  \/ /\ ~deleted
     /\ \/ <<status, status'>> \in {<<"upcoming", "registration">>, <<"registration", "ongoing">>}
        \/ status' = "cancelled" /\ \E c \in Calls : pc[c] = "reread"
        \/ <<status, status'>> = <<"ongoing", "finished">>
             /\ \E p \in Passes : Selected(p, "tournament-finalize")

LEMMA StatusSteps == [Next]_vars => StatusMoves
<1> SUFFICES ASSUME [Next]_vars PROVE StatusMoves
  OBVIOUS
<1> USE DEF trow, people, play, jobs
<1>1. ASSUME NEW c \in Calls, cancelTournament(c) PROVE StatusMoves
  BY <1>1 DEF cancelTournament, StatusMoves
<1>2. ASSUME NEW c \in Calls, CallStep(c) \/ FailCall(c), ~cancelTournament(c) PROVE status' = status
  BY <1>2 DEF CallStep, Read, atomicRegister, atomicWithdraw, updateTournament, softDeleteTournament,
     RereadForCancel, createRound, startRoundAttemptTx, FailCall
<1>3. ASSUME NEW p \in Passes, dispatchStartingSoonNotifications(p) \/ startDueTournaments(p)
      PROVE  StatusMoves
  BY <1>3 DEF dispatchStartingSoonNotifications, startDueTournaments, markTournamentStatus, StatusMoves
<1>4. ASSUME NEW p \in Passes, finalizeSingleTournament(p) PROVE StatusMoves
  BY <1>4 DEF finalizeSingleTournament, markTournamentStatus, StatusMoves
<1>5. ASSUME NEW p \in Passes, Select(p) \/ MarkNextRound(p) \/ TurnPage(p)
                               \/ reconcileAllParticipantTotals(p) \/ FailPass(p)
      PROVE  status' = status
  BY <1>5 DEF Select, MarkNextRound, TurnPage, reconcileAllParticipantTotals, FailPass
<1>6. ASSUME \/ Tick \/ UNCHANGED vars \/ \E j \in Jobs : ExpireLock(j)
             \/ \E v \in Users : AgeOut(v)
             \/ \E x \in Users \X Rounds :
                  handleAttemptCompleted(x) \/ recalculateParticipantTotals(x) \/ FailScoring(x)
      PROVE  status' = status
  BY <1>6 DEF Tick, vars, ExpireLock, AgeOut, handleAttemptCompleted, recalculateParticipantTotals, FailScoring
<1> QED
  BY <1>1, <1>2, <1>3, <1>4, <1>5, <1>6 DEF Next, PassStep, StatusMoves

(* Who joins those that FinishInv speaks of has just looked at the status. *)
LEMMA FinishSteps ==
  ShapeOK /\ [Next]_vars =>
    /\ \A c \in Calls : pc'[c] = "reread" => pc[c] = "reread" \/ (status # "finished" /\ status' = status)
    /\ \A p \in Passes : Selected(p, "tournament-finalize")' =>
         Selected(p, "tournament-finalize") \/ (status = "finished" /\ status' = status)
<1> SUFFICES ASSUME ShapeOK, [Next]_vars
             PROVE  /\ \A c \in Calls : pc'[c] = "reread" =>
                         pc[c] = "reread" \/ (status # "finished" /\ status' = status)
                    /\ \A p \in Passes : Selected(p, "tournament-finalize")' =>
                         Selected(p, "tournament-finalize") \/ (status = "finished" /\ status' = status)
  OBVIOUS
<1> USE DEF trow, people, play, jobs
<1>t. /\ pc \in [Calls -> {"new", "read", "reread", "done", "refused"}]
      /\ pass \in [Passes -> PassStates]
  BY DEF ShapeOK
<1>1. ASSUME NEW c \in Calls, CallStep(c) \/ FailCall(c)
      PROVE  /\ pass' = pass
             /\ \A d \in Calls : pc'[d] = "reread" => pc[d] = "reread" \/ (status # "finished" /\ status' = status)
  <2>1. pass' = pass
    BY <1>1 DEF CallStep, Read, atomicRegister, atomicWithdraw, updateTournament, softDeleteTournament,
       RereadForCancel, cancelTournament, createRound, startRoundAttemptTx, FailCall
  <2>2. CASE RereadForCancel(c)
    <3>1. status' = status /\ \A d \in Calls : d # c => pc'[d] = pc[d]
      BY <1>t, <2>2 DEF RereadForCancel
    <3>2. CASE deleted \/ status = "finished"
      <4>1. pc'[c] # "reread"
        BY <1>t, <2>2, <3>2 DEF RereadForCancel
      <4> QED
        BY <2>1, <3>1, <4>1
    <3>3. CASE status # "finished"
      BY <2>1, <3>1, <3>3
    <3> QED
      BY <3>2, <3>3
  <2>3. CASE ~RereadForCancel(c)
    <3>1. \E e \in {"read", "done", "refused"} : pc' = [pc EXCEPT ![c] = e]
      BY <1>1, <2>3 DEF CallStep, Read, atomicRegister, atomicWithdraw, updateTournament,
         softDeleteTournament, cancelTournament, createRound, startRoundAttemptTx, FailCall, Ends
    <3> QED
      BY <1>t, <2>1, <3>1
  <2> QED
    BY <2>2, <2>3
<1>2. ASSUME NEW p \in Passes, PassStep(p) \/ FailPass(p)
      PROVE  /\ pc' = pc
             /\ \A q \in Passes : Selected(q, "tournament-finalize")' =>
                  Selected(q, "tournament-finalize") \/ (status = "finished" /\ status' = status)
  <2>1. pc' = pc
    BY <1>2 DEF PassStep, Select, dispatchStartingSoonNotifications, startDueTournaments,
       finalizeSingleTournament, MarkNextRound, TurnPage, reconcileAllParticipantTotals, FailPass
  <2>2. CASE Select(p)
    <3>1. status' = status /\ Finds(JobOf[p])
      BY <2>2 DEF Select
    <3>2. JobOf[p] = "tournament-finalize" => status = "finished"
      BY <3>1 DEF Finds
    <3>3. \A q \in Passes : q # p => pass'[q] = pass[q]
      BY <1>t, <2>2 DEF Select
    <3> QED
      BY <2>1, <3>1, <3>2, <3>3 DEF Selected
  <2>3. CASE MarkNextRound(p)
    <3>1. pass'[p].at = pass[p].at /\ \A q \in Passes : q # p => pass'[q] = pass[q]
      BY <1>t, <2>3 DEF MarkNextRound, PassStates
    <3> QED
      BY <2>1, <3>1 DEF Selected
  <2>4. CASE TurnPage(p)
    <3>1. JobOf[p] # "tournament-finalize"
      BY <2>4 DEF TurnPage, RoundJob
    <3>2. \A q \in Passes : q # p => pass'[q] = pass[q]
      BY <1>t, <2>4 DEF TurnPage, Release
    <3> QED
      BY <2>1, <3>1, <3>2 DEF Selected
  <2>5. CASE ~Select(p) /\ ~MarkNextRound(p) /\ ~TurnPage(p)
    <3>1. pass' = [pass EXCEPT ![p] = Idle]
      BY <1>2, <2>5 DEF PassStep, dispatchStartingSoonNotifications, startDueTournaments,
         finalizeSingleTournament, reconcileAllParticipantTotals, FailPass, Release
    <3>2. pass'[p].at = "idle" /\ \A q \in Passes : q # p => pass'[q] = pass[q]
      BY <1>t, <3>1 DEF Idle
    <3> QED
      BY <2>1, <3>2 DEF Selected
  <2> QED
    BY <2>2, <2>3, <2>4, <2>5
<1>3. ASSUME \/ Tick \/ UNCHANGED vars \/ \E j \in Jobs : ExpireLock(j)
             \/ \E v \in Users : AgeOut(v)
             \/ \E x \in Users \X Rounds :
                  handleAttemptCompleted(x) \/ recalculateParticipantTotals(x) \/ FailScoring(x)
      PROVE  UNCHANGED <<pc, pass>>
  BY <1>3 DEF Tick, vars, ExpireLock, AgeOut, handleAttemptCompleted, recalculateParticipantTotals, FailScoring
<1> QED
  BY <1>1, <1>2, <1>3 DEF Next, Selected

LEMMA FinishStep == ShapeOK /\ FinishInv /\ [Next]_vars => FinishInv'
<1> SUFFICES ASSUME ShapeOK, FinishInv, [Next]_vars PROVE FinishInv'
  OBVIOUS
<1>1. status' = "finished" <=> status = "finished"
  BY StatusSteps DEF StatusMoves, FinishInv
<1> QED
  BY <1>1, FinishSteps DEF FinishInv

(* What a step does to a round. *)
RoundMoves ==
  \A r \in Rounds : round'[r] # round[r] =>
    <<round[r], round'[r]>> \in {<<"none", "pending">>, <<"pending", "open">>, <<"open", "finished">>}

LEMMA RoundSteps == ShapeOK /\ [Next]_vars => RoundMoves
<1> SUFFICES ASSUME ShapeOK, [Next]_vars PROVE RoundMoves
  OBVIOUS
<1> USE DEF trow, people, play, jobs
<1>t. round \in [Rounds -> {"none", "pending", "open", "finished"}]
  BY DEF ShapeOK
<1>1. ASSUME NEW c \in Calls, CallStep(c) \/ FailCall(c) PROVE RoundMoves
  <2>1. CASE createRound(c)
    BY <1>t, <2>1, CallTypes DEF createRound, RoundMoves
  <2>2. CASE ~createRound(c)
    <3>1. round' = round
      BY <1>1, <2>2 DEF CallStep, Read, atomicRegister, atomicWithdraw, updateTournament,
         softDeleteTournament, RereadForCancel, cancelTournament, startRoundAttemptTx, FailCall
    <3> QED
      BY <3>1 DEF RoundMoves
  <2> QED
    BY <2>1, <2>2
<1>2. ASSUME NEW p \in Passes, PassStep(p) \/ FailPass(p) PROVE RoundMoves
  <2>1. CASE MarkNextRound(p)
    <3>1. \E r : markRoundStatus(r, "pending", "open") \/ markRoundStatus(r, "open", "finished")
      BY <2>1 DEF MarkNextRound
    <3> QED
      BY <1>t, <3>1 DEF markRoundStatus, RoundMoves
  <2>2. CASE ~MarkNextRound(p)
    <3>1. round' = round
      BY <1>2, <2>2 DEF PassStep, Select, dispatchStartingSoonNotifications, startDueTournaments,
         finalizeSingleTournament, TurnPage, reconcileAllParticipantTotals, FailPass
    <3> QED
      BY <3>1 DEF RoundMoves
  <2> QED
    BY <2>1, <2>2
<1>3. ASSUME \/ Tick \/ UNCHANGED vars \/ \E j \in Jobs : ExpireLock(j)
             \/ \E v \in Users : AgeOut(v)
             \/ \E x \in Users \X Rounds :
                  handleAttemptCompleted(x) \/ recalculateParticipantTotals(x) \/ FailScoring(x)
      PROVE  RoundMoves
  BY <1>3 DEF Tick, vars, ExpireLock, AgeOut, handleAttemptCompleted, recalculateParticipantTotals, FailScoring,
     RoundMoves
<1> QED
  BY <1>1, <1>2, <1>3 DEF Next

(* The column holds one of its values. *)
KnownStatus == status \in Statuses

(* The status and the rounds only move forward, although the calls and the
   jobs act on what they read before: for any number of both.               *)
THEOREM TournamentMovesForward == Spec => MovesForward
<1>1. Init => FinishInv
  <2> SUFFICES ASSUME Init PROVE FinishInv
    OBVIOUS
  <2>1. \A c \in Calls : pc[c] \in {"new", "refused"}
    BY DEF Init
  <2>2. \A p \in Passes : pass[p] = Idle
    BY DEF Init
  <2> QED
    BY <2>1, <2>2 DEF FinishInv, Selected, Idle
<1>2. ASSUME ShapeOK, FinishInv, [Next]_vars, KnownStatus
      PROVE  /\ status' # status =>
                  /\ ~deleted
                  /\ <<status, status'>> \in {<<"upcoming", "registration">>, <<"registration", "ongoing">>,
                                              <<"ongoing", "finished">>}
                       \cup ({"upcoming", "registration", "ongoing"} \X {"cancelled"})
             /\ RoundMoves
  BY <1>2, StatusSteps, RoundSteps DEF StatusMoves, FinishInv, KnownStatus, Statuses
<1>3. Init => KnownStatus
  BY DEF KnownStatus, Init
<1>4. KnownStatus /\ [Next]_vars => KnownStatus'
  BY StatusSteps DEF KnownStatus, StatusMoves, Statuses
<1>5. ShapeOK /\ FinishInv /\ KnownStatus /\ [Next]_vars
        => [ /\ status' # status =>
                  /\ ~deleted
                  /\ <<status, status'>> \in {<<"upcoming", "registration">>, <<"registration", "ongoing">>,
                                              <<"ongoing", "finished">>}
                       \cup ({"upcoming", "registration", "ongoing"} \X {"cancelled"})
             /\ \A r \in Rounds : round'[r] # round[r] =>
                  <<round[r], round'[r]>> \in {<<"none", "pending">>, <<"pending", "open">>,
                                               <<"open", "finished">>}]_vars
  BY <1>2 DEF RoundMoves
<1> QED
  BY <1>1, <1>3, <1>4, <1>5, ShapeStart, ShapeStep, FinishStep, PTL DEF Spec, MovesForward
-----------------------------------------------------------------------------
(* Scores.                                                                  *)

(* To show something of every subset of a finite set, show it of a set of whose
   subsets with one element less it holds: there is no smallest exception.    *)
LEMMA SubsetInduction ==
  ASSUME NEW S, IsFiniteSet(S), NEW B,
         \A T \in SUBSET S : (\A x \in T : T \ {x} \in B) => T \in B
  PROVE  SUBSET S \subseteq B
<1> SUFFICES ASSUME (SUBSET S) \ B # {} PROVE FALSE
  OBVIOUS
<1>1. (SUBSET S) \ B \subseteq FiniteSubsetsOf(S)
  BY FS_Subset DEF FiniteSubsetsOf
<1>2. PICK T \in (SUBSET S) \ B : \A U \in (SUBSET S) \ B : ~ (<<U, T>> \in StrictSubsetOrdering(S))
  BY <1>1, FS_StrictSubsetOrderingWellFounded, WFMin
<1>3. ASSUME NEW x \in T PROVE T \ {x} \in B
  <2>1. <<T \ {x}, T>> \in StrictSubsetOrdering(S)
    BY DEF StrictSubsetOrdering
  <2> QED
    BY <1>2, <2>1
<1> QED
  BY <1>2, <1>3

AnyOf(s) == CHOOSE x \in s : TRUE

(* The recursion of MapThenSumSet, over a set of sets of rounds. *)
Sums(g, u, D) ==
  g = [s \in D |-> IF s = {} THEN 0 ELSE score[<<u, AnyOf(s)>>] + g[s \ {AnyOf(s)}]]

(* The recursion has a solution: one is found for the subsets with no more
   elements than T, for larger and larger T.                                 *)
UpToSize(S, T) == {s \in SUBSET S : Cardinality(s) <= Cardinality(T)}

LEMMA OneLess ==
  ASSUME NEW T, IsFiniteSet(T), NEW x \in T
  PROVE  /\ Cardinality(T) \in Nat /\ Cardinality(T \ {x}) \in Nat
         /\ Cardinality(T \ {x}) = Cardinality(T) - 1
<1>1. Cardinality(T) \in Nat /\ Cardinality(T \ {x}) = Cardinality(T) - 1
  BY FS_CardinalityType, FS_RemoveElement
<1>2. Cardinality(T \ {x}) \in Nat
  BY FS_RemoveElement, FS_CardinalityType
<1> QED
  BY <1>1, <1>2

LEMMA SumsExist ==
  ASSUME NEW S, IsFiniteSet(S), NEW u
  PROVE  \E g : Sums(g, u, SUBSET S)
<1>f. \A T \in SUBSET S : IsFiniteSet(T) /\ Cardinality(T) \in Nat /\ Cardinality(T) <= Cardinality(S)
  BY FS_Subset, FS_CardinalityType
<1> DEFINE B == {T \in SUBSET S : \E g : Sums(g, u, UpToSize(S, T))}
<1>1. ASSUME NEW T \in SUBSET S, \A x \in T : T \ {x} \in B PROVE T \in B
  <2>1. CASE T = {}
    <3>1. \A s \in UpToSize(S, T) : s = {}
      BY <1>f, <2>1, FS_EmptySet DEF UpToSize
    <3>2. Sums([s \in UpToSize(S, T) |-> 0], u, UpToSize(S, T))
      BY <3>1 DEF Sums
    <3> QED
      BY <3>2
  <2>2. CASE T # {}
    <3>1. PICK x \in T : \E g : Sums(g, u, UpToSize(S, T \ {x}))
      BY <1>1, <2>2
    <3>2. PICK g : Sums(g, u, UpToSize(S, T \ {x}))
      BY <3>1
    <3> DEFINE k == [s \in UpToSize(S, T) |-> IF s = {} THEN 0 ELSE score[<<u, AnyOf(s)>>] + g[s \ {AnyOf(s)}]]
    <3>3. Cardinality(T) \in Nat /\ Cardinality(T \ {x}) = Cardinality(T) - 1
      BY <1>f, OneLess
    <3>4. \A s \in UpToSize(S, T \ {x}) : s \in UpToSize(S, T) /\ k[s] = g[s]
      <4>1. \A s \in UpToSize(S, T \ {x}) : s \in UpToSize(S, T)
        BY <1>f, <3>3 DEF UpToSize
      <4> QED
        BY <3>2, <4>1 DEF Sums
    <3>5. ASSUME NEW s \in UpToSize(S, T), s # {} PROVE s \ {AnyOf(s)} \in UpToSize(S, T \ {x})
      <4>1. AnyOf(s) \in s /\ s \in SUBSET S /\ Cardinality(s) <= Cardinality(T)
        BY <3>5 DEF AnyOf, UpToSize
      <4>2. Cardinality(s \ {AnyOf(s)}) = Cardinality(s) - 1 /\ Cardinality(s) \in Nat
        BY <1>f, <4>1, OneLess
      <4> QED
        BY <3>3, <4>1, <4>2 DEF UpToSize
    <3>6. Sums(k, u, UpToSize(S, T))
      <4>1. \A s \in UpToSize(S, T) : s # {} => k[s \ {AnyOf(s)}] = g[s \ {AnyOf(s)}]
        BY <3>4, <3>5
      <4> QED
        BY <4>1 DEF Sums
    <3> QED
      BY <3>6
  <2> QED
    BY <2>1, <2>2
<1> HIDE DEF B
<1>2. S \in B
  BY <1>1, SubsetInduction
<1>3. UpToSize(S, S) = SUBSET S
  BY <1>f DEF UpToSize
<1> QED
  BY <1>2, <1>3 DEF B

(* The sum of a user's scores, however many rounds it is over, is a number. *)
LEMMA ScoreSumType ==
  ASSUME score \in [Users \X Rounds -> Nat], NEW u \in Users, NEW S \in SUBSET Rounds
  PROVE  MapThenSumSet(LAMBDA q : score[<<u, q>>], S) \in Nat
<1>1. IsFiniteSet(S)
  BY TournamentAssumption, FS_Subset
<1>2. MapThenSumSet(LAMBDA q : score[<<u, q>>], S) = (CHOOSE g : Sums(g, u, SUBSET S))[S]
  BY DEF Sums, AnyOf, MapThenSumSet, MapThenFoldSet
<1>3. PICK g : Sums(g, u, SUBSET S) /\ MapThenSumSet(LAMBDA q : score[<<u, q>>], S) = g[S]
  BY <1>1, <1>2, SumsExist
<1> DEFINE B == {T \in SUBSET S : g[T] \in Nat}
<1>4. ASSUME NEW T \in SUBSET S, \A x \in T : T \ {x} \in B PROVE T \in B
  <2>1. CASE T = {}
    BY <1>3, <2>1 DEF Sums
  <2>2. CASE T # {}
    <3>1. AnyOf(T) \in T /\ AnyOf(T) \in Rounds
      BY <2>2 DEF AnyOf
    <3>2. score[<<u, AnyOf(T)>>] \in Nat /\ g[T \ {AnyOf(T)}] \in Nat
      BY <1>4, <3>1
    <3>3. g[T] = score[<<u, AnyOf(T)>>] + g[T \ {AnyOf(T)}]
      BY <1>3, <2>2 DEF Sums
    <3> QED
      BY <3>2, <3>3
  <2> QED
    BY <2>1, <2>2
<1> HIDE DEF B
<1>5. S \in B
  BY <1>1, <1>4, SubsetInduction
<1> QED
  BY <1>3, <1>5 DEF B

(* What a handler and the reconciling job compute. *)
LEMMA SumTypes ==
  ASSUME score \in [Users \X Rounds -> Nat], NEW u \in Users
  PROVE  Sum(u) \in Nat /\ \A r \in Rounds, points \in Nat : SumWith(u, r, points) \in Nat
<1>1. Sum(u) \in Nat
  BY ScoreSumType DEF Sum
<1>2. ASSUME NEW r \in Rounds, NEW points \in Nat PROVE SumWith(u, r, points) \in Nat
  <2>1. MapThenSumSet(LAMBDA q : score[<<u, q>>], Rounds \ {r}) \in Nat
    BY ScoreSumType
  <2> QED
    BY <2>1 DEF SumWith
<1> QED
  BY <1>1, <1>2
-----------------------------------------------------------------------------
(* Types.                                                                   *)

ScoringStates == [at : {"none", "aggregated", "done"}, points : Nat, sum : Nat, writes : BOOLEAN]
EventKinds    == {"joined", "withdrawn", "starting_soon", "completed", "won"}

SomeTotals(f) == \E S \in SUBSET Users : f \in [S -> Nat]

(* The rest of TypeOK; it does not say by itself that sums is a function. *)
TableOK ==
  /\ status \in Statuses /\ deleted \in BOOLEAN /\ startAt \in Nat /\ endAt \in Nat
  /\ total \in [Users -> Nat] /\ rank \in [Users -> Nat] /\ recent \subseteq Users
  /\ outbox \subseteq EventKinds \X Users
  /\ overbooked \in BOOLEAN
ScoreOK ==
  /\ score \in [Users \X Rounds -> Nat]
  /\ scoring \in [Users \X Rounds -> ScoringStates]
JobOK ==
  /\ DOMAIN sums = Passes /\ \A p \in Passes : SomeTotals(sums[p])
  /\ held \in [Jobs -> Passes \cup {NoPass}]
  /\ failures \in 0 .. MaxFailures

RestOK == TableOK /\ ScoreOK /\ JobOK

(* A pass that has read nothing yet has the totals of nobody. *)
LEMMA NoTotals == SomeTotals([u \in {} |-> 0])
<1>1. {} \in SUBSET Users
  OBVIOUS
<1>2. [u \in {} |-> 0] \in [{} -> Nat]
  OBVIOUS
<1> QED
  BY <1>1, <1>2, Zenon DEF SomeTotals

LEMMA RestStart == Init => RestOK
<1> SUFFICES ASSUME Init PROVE RestOK
  OBVIOUS
<1>1. startAt \in Nat /\ endAt \in Nat
  BY TournamentAssumption DEF Init
<1>2. Active \subseteq Users
  BY DEF Active
<1>3. outbox \subseteq EventKinds \X Users /\ recent \subseteq Users
  BY <1>2 DEF Init, EventKinds
<1>4. TableOK
  BY <1>1, <1>3 DEF Init, TableOK
<1>5. ScoreOK
  BY DEF Init, ScoreOK, ScoringStates, Calm
<1>6. JobOK
  BY NoTotals, TournamentAssumption DEF Init, JobOK
<1> QED
  BY <1>4, <1>5, <1>6 DEF RestOK

LEMMA TableStep == ShapeOK /\ RestOK /\ [Next]_vars => TableOK'
<1> SUFFICES ASSUME ShapeOK, RestOK, [Next]_vars PROVE TableOK'
  OBVIOUS
<1> USE DEF trow, people, play, jobs
<1>t. TableOK
  BY DEF RestOK
<1>1. ASSUME NEW c \in Calls, CallStep(c) \/ FailCall(c) PROVE TableOK'
  <2>1. CASE atomicRegister(c) \/ atomicWithdraw(c)
    BY <1>t, <2>1, CallTypes DEF atomicRegister, atomicWithdraw, TableOK, EventKinds
  <2>2. CASE updateTournament(c)
    BY <1>t, <2>2, CallTypes DEF updateTournament, TableOK
  <2>3. CASE softDeleteTournament(c) \/ cancelTournament(c)
    BY <1>t, <2>3 DEF softDeleteTournament, cancelTournament, TableOK, Statuses
  <2>4. CASE Read(c) \/ RereadForCancel(c) \/ createRound(c) \/ startRoundAttemptTx(c) \/ FailCall(c)
    BY <1>t, <2>4 DEF Read, RereadForCancel, createRound, startRoundAttemptTx, FailCall, TableOK
  <2> QED
    BY <1>1, <2>1, <2>2, <2>3, <2>4 DEF CallStep
<1>2. ASSUME NEW p \in Passes, PassStep(p) \/ FailPass(p) PROVE TableOK'
  <2>1. CASE dispatchStartingSoonNotifications(p)
    <3>1. Active \subseteq Users
      BY DEF Active
    <3> QED
      BY <1>t, <2>1, <3>1 DEF dispatchStartingSoonNotifications, markTournamentStatus, TableOK,
         Statuses, EventKinds
  <2>2. CASE startDueTournaments(p)
    BY <1>t, <2>2 DEF startDueTournaments, markTournamentStatus, TableOK, Statuses
  <2>3. CASE finalizeSingleTournament(p)
    <3>1. CASE status' = status
      BY <1>t, <2>3, <3>1 DEF finalizeSingleTournament, TableOK
    <3>2. CASE status' # status
      <4>1. PICK f \in Rankings :
              /\ rank' = [u \in Users |-> IF u \in Standing THEN f[u] ELSE rank[u]]
              /\ recent' = recent \cup Standing
              /\ outbox' = outbox \cup ({"completed"} \X Standing)
                                  \cup ({"won"} \X {u \in Standing : f[u] = 1})
        BY <2>3, <3>2 DEF finalizeSingleTournament
      <4>2. Standing \subseteq Users /\ \A u \in Standing : f[u] \in Nat
        <5>1. IsFiniteSet(Standing)
          BY TournamentAssumption, FS_Subset DEF Standing
        <5>2. Cardinality(Standing) \in Nat
          BY <5>1, FS_CardinalityType
        <5> QED
          BY <5>2 DEF Standing, Rankings
      <4>3. rank' \in [Users -> Nat]
        BY <1>t, <4>1, <4>2 DEF TableOK
      <4>4. outbox' \subseteq EventKinds \X Users
        BY <1>t, <4>1, <4>2 DEF TableOK, EventKinds
      <4>5. status' \in Statuses
        BY <1>t, <2>3 DEF finalizeSingleTournament, markTournamentStatus, TableOK, Statuses
      <4>6. recent' \subseteq Users
        BY <1>t, <4>1, <4>2 DEF TableOK
      <4> QED
        BY <1>t, <2>3, <4>3, <4>4, <4>5, <4>6 DEF finalizeSingleTournament, TableOK
    <3> QED
      BY <3>1, <3>2
  <2>4. CASE reconcileAllParticipantTotals(p)
    <3>1. DOMAIN sums[p] \subseteq Users /\ \A u \in DOMAIN sums[p] : sums[p][u] \in Nat
      BY DEF RestOK, JobOK, SomeTotals
    <3>2. total' \in [Users -> Nat] /\ recent' \subseteq Users
      BY <1>t, <2>4, <3>1 DEF reconcileAllParticipantTotals, TableOK
    <3> QED
      BY <1>t, <2>4, <3>2 DEF reconcileAllParticipantTotals, TableOK
  <2>5. CASE Select(p) \/ MarkNextRound(p) \/ TurnPage(p) \/ FailPass(p)
    BY <1>t, <2>5 DEF Select, MarkNextRound, TurnPage, FailPass, TableOK
  <2> QED
    BY <1>2, <2>1, <2>2, <2>3, <2>4, <2>5 DEF PassStep
<1>3. ASSUME NEW x \in Users \X Rounds, recalculateParticipantTotals(x) PROVE TableOK'
  <2>1. scoring[x].sum \in Nat /\ x[1] \in Users
    BY DEF RestOK, ScoreOK, ScoringStates
  <2> QED
    BY <1>t, <1>3, <2>1 DEF recalculateParticipantTotals, TableOK
<1>4. ASSUME \/ Tick \/ UNCHANGED vars \/ \E j \in Jobs : ExpireLock(j)
             \/ \E v \in Users : AgeOut(v)
             \/ \E x \in Users \X Rounds : handleAttemptCompleted(x) \/ FailScoring(x)
      PROVE  TableOK'
  BY <1>t, <1>4 DEF Tick, vars, ExpireLock, AgeOut, handleAttemptCompleted, FailScoring, TableOK
<1> QED
  BY <1>1, <1>2, <1>3, <1>4 DEF Next

LEMMA ScoreStep == RestOK /\ [Next]_vars => ScoreOK'
<1> SUFFICES ASSUME RestOK, [Next]_vars PROVE ScoreOK'
  OBVIOUS
<1> USE DEF trow, people, play, jobs
<1>t. ScoreOK
  BY DEF RestOK
<1>1. ASSUME NEW x \in Users \X Rounds, handleAttemptCompleted(x) PROVE ScoreOK'
  <2>1. PICK points \in Points : scoring' = [scoring EXCEPT ![x] =
          [at |-> "aggregated", points |-> points, sum |-> SumWith(x[1], x[2], points),
           writes |-> total[x[1]] # SumWith(x[1], x[2], points)]]
    BY <1>1 DEF handleAttemptCompleted
  <2>2. points \in Nat /\ x[1] \in Users /\ x[2] \in Rounds
    BY TournamentAssumption
  <2>3. SumWith(x[1], x[2], points) \in Nat
    BY <1>t, <2>2, SumTypes DEF ScoreOK
  <2>4. scoring' \in [Users \X Rounds -> ScoringStates]
    BY <1>t, <2>1, <2>2, <2>3 DEF ScoreOK, ScoringStates
  <2> QED
    BY <1>t, <1>1, <2>4 DEF handleAttemptCompleted, ScoreOK
<1>2. ASSUME NEW x \in Users \X Rounds, recalculateParticipantTotals(x) \/ FailScoring(x)
      PROVE  ScoreOK'
  <2>1. [Calm EXCEPT !.at = "done"] \in ScoringStates /\ scoring[x].points \in Nat
    BY <1>t DEF Calm, ScoreOK, ScoringStates
  <2>2. /\ scoring' = [scoring EXCEPT ![x] = [Calm EXCEPT !.at = "done"]]
        /\ score' = [score EXCEPT ![x] = scoring[x].points] \/ score' = score
    BY <1>2 DEF recalculateParticipantTotals, FailScoring
  <2> QED
    BY <1>t, <2>1, <2>2 DEF ScoreOK
<1>3. ASSUME NEW c \in Calls, CallStep(c) \/ FailCall(c) PROVE UNCHANGED <<score, scoring>>
  BY <1>3 DEF CallStep, Read, atomicRegister, atomicWithdraw, updateTournament, softDeleteTournament,
     RereadForCancel, cancelTournament, createRound, startRoundAttemptTx, FailCall
<1>4. ASSUME NEW p \in Passes, PassStep(p) \/ FailPass(p) PROVE UNCHANGED <<score, scoring>>
  BY <1>4 DEF PassStep, Select, dispatchStartingSoonNotifications, startDueTournaments,
     finalizeSingleTournament, MarkNextRound, TurnPage, reconcileAllParticipantTotals, FailPass
<1>5. ASSUME \/ Tick \/ UNCHANGED vars \/ \E j \in Jobs : ExpireLock(j)
             \/ \E v \in Users : AgeOut(v)
      PROVE  UNCHANGED <<score, scoring>>
  BY <1>5 DEF Tick, vars, ExpireLock, AgeOut
<1>6. UNCHANGED <<score, scoring>> => ScoreOK'
  BY <1>t DEF ScoreOK
<1> QED
  BY <1>1, <1>2, <1>3, <1>4, <1>5, <1>6 DEF Next

LEMMA JobStep == RestOK /\ [Next]_vars => JobOK'
<1> SUFFICES ASSUME RestOK, [Next]_vars PROVE JobOK'
  OBVIOUS
<1> USE DEF trow, people, play, jobs
<1>t. JobOK
  BY DEF RestOK
<1>1. ASSUME NEW p \in Passes, Select(p) PROVE JobOK'
  <2>1. SomeTotals([u \in Drifted |-> Sum(u)])
    <3>1. Drifted \in SUBSET Users
      BY DEF Drifted, RestOK, TableOK
    <3>2. \A u \in Drifted : Sum(u) \in Nat
      BY <3>1, SumTypes DEF RestOK, ScoreOK
    <3> HIDE DEF Drifted
    <3>3. [u \in Drifted |-> Sum(u)] \in [Drifted -> Nat]
      BY <3>2
    <3> QED
      BY <3>1, <3>3 DEF SomeTotals
  <2>2. JobOf[p] \in Jobs
    BY TournamentAssumption
  <2>3. held' \in [Jobs -> Passes \cup {NoPass}]
    BY <1>t, <1>1, <2>2 DEF Select, JobOK
  <2>4. /\ sums' = sums \/ sums' = [sums EXCEPT ![p] = [u \in Drifted |-> Sum(u)]]
        /\ failures' = failures
    BY <1>1 DEF Select
  <2>5. DOMAIN sums' = Passes /\ \A q \in Passes : sums'[q] = sums[q] \/ sums'[q] = [u \in Drifted |-> Sum(u)]
    BY <1>t, <2>4 DEF JobOK
  <2> QED
    BY <1>t, <2>1, <2>3, <2>4, <2>5 DEF JobOK
<1>2. ASSUME NEW p \in Passes, Release(p) \/ held' = held
      PROVE  held' \in [Jobs -> Passes \cup {NoPass}]
  <2>1. JobOf[p] \in Jobs
    BY TournamentAssumption
  <2> QED
    BY <1>t, <1>2, <2>1 DEF Release, JobOK
<1>3. ASSUME NEW p \in Passes, reconcileAllParticipantTotals(p) PROVE JobOK'
  <2>1. sums' = [sums EXCEPT ![p] = [u \in {} |-> 0]] /\ Release(p) /\ failures' = failures
    BY <1>3 DEF reconcileAllParticipantTotals
  <2> QED
    BY <1>t, <1>2, <2>1, NoTotals DEF JobOK
<1>4. ASSUME NEW p \in Passes, \/ dispatchStartingSoonNotifications(p) \/ startDueTournaments(p)
                               \/ finalizeSingleTournament(p) \/ MarkNextRound(p) \/ TurnPage(p)
                               \/ FailPass(p)
      PROVE JobOK'
  <2>1. /\ sums' = sums /\ (Release(p) \/ held' = held)
        /\ failures' = failures \/ (failures < MaxFailures /\ failures' = failures + 1)
    BY <1>4 DEF dispatchStartingSoonNotifications, startDueTournaments, finalizeSingleTournament,
       MarkNextRound, TurnPage, FailPass
  <2>2. failures' \in 0 .. MaxFailures
    BY <1>t, <2>1, TournamentAssumption DEF JobOK
  <2> QED
    BY <1>t, <1>2, <2>1, <2>2 DEF JobOK
<1>5. ASSUME NEW j \in Jobs, ExpireLock(j) PROVE JobOK'
  <2>1. failures' \in 0 .. MaxFailures
    BY <1>t, <1>5, TournamentAssumption DEF ExpireLock, JobOK
  <2> QED
    BY <1>t, <1>5, <2>1 DEF ExpireLock, JobOK
<1>6. ASSUME NEW c \in Calls, CallStep(c) \/ FailCall(c)
      PROVE  /\ UNCHANGED <<sums, held>>
             /\ failures' = failures \/ (failures < MaxFailures /\ failures' = failures + 1)
  BY <1>6 DEF CallStep, Read, atomicRegister, atomicWithdraw, updateTournament, softDeleteTournament,
     RereadForCancel, cancelTournament, createRound, startRoundAttemptTx, FailCall
<1>7. ASSUME \/ Tick \/ UNCHANGED vars \/ \E v \in Users : AgeOut(v)
             \/ \E x \in Users \X Rounds :
                  handleAttemptCompleted(x) \/ recalculateParticipantTotals(x) \/ FailScoring(x)
      PROVE  /\ UNCHANGED <<sums, held>>
             /\ failures' = failures \/ (failures < MaxFailures /\ failures' = failures + 1)
  <2>1. CASE \E v \in Users : AgeOut(v)
    BY <1>t, <2>1 DEF AgeOut, JobOK
  <2>2. CASE ~\E v \in Users : AgeOut(v)
    BY <1>7, <2>2 DEF Tick, vars, handleAttemptCompleted, recalculateParticipantTotals, FailScoring
  <2> QED
    BY <2>1, <2>2
<1>8. ASSUME UNCHANGED <<sums, held>>,
             failures' = failures \/ (failures < MaxFailures /\ failures' = failures + 1)
      PROVE  JobOK'
  BY <1>t, <1>8, TournamentAssumption DEF JobOK
<1> QED
  BY <1>1, <1>3, <1>4, <1>5, <1>6, <1>7, <1>8 DEF Next, PassStep

(* Every column and every handler of a tournament keeps its type: the totals
   that handlers and the reconciling job write are sums of recorded scores,
   and no lock is held by anyone but a pass.                                 *)
THEOREM TournamentTypeCorrect == Spec => []TypeOK
<1>1. RestOK /\ ShapeOK /\ [Next]_vars => RestOK'
  BY TableStep, ScoreStep, JobStep DEF RestOK
<1>2. ShapeOK /\ RestOK => TypeOK
  BY DEF ShapeOK, RestOK, TableOK, ScoreOK, JobOK, TypeOK, PassStates, ScoringStates, EventKinds,
     SomeTotals
<1> QED
  BY <1>1, <1>2, ShapeStart, ShapeStep, RestStart, PTL DEF Spec
=============================================================================
