--------------------------- MODULE InstanceProofs ---------------------------
(***************************************************************************)
(* The multiplayer room, for any users, calls and passes of the scheduler, *)
(* any limits and any number of failures.                                  *)
(***************************************************************************)
EXTENDS Instance, FiniteSetTheorems, TLAPS

PassStates == [at : {"idle", "selected", "reread", "counted", "committed"},
               version : Nat, enough : BOOLEAN]

LEMMA KindTypes ==
  /\ KindOf \in [Calls -> Kinds] /\ UserOf \in [Calls -> Users] /\ Host \in Users
  /\ \A c \in Calls : Target(KindOf[c]) \in Statuses
  /\ Idle \in PassStates
  BY InstanceAssumption DEF Target, Kinds, Statuses, Idle, PassStates

(* What updateInstanceStatus leaves of the row. *)
LEMMA UpdateType ==
  ASSUME TypeOK, NEW v, NEW s \in Statuses, updateInstanceStatus(v, s)
  PROVE  /\ status' \in Statuses /\ version' \in Nat /\ due' \in BOOLEAN /\ entered' \in Nat
<1>1. status' = s /\ version' = version + 1 /\ due' = FALSE
  BY DEF updateInstanceStatus
<1>2. entered' = entered \/ entered' = entered + 1
  BY DEF updateInstanceStatus, TypeOK
<1>3. status' \in Statuses /\ version' \in Nat /\ entered' \in Nat
  BY <1>1, <1>2 DEF TypeOK
<1>4. due' \in BOOLEAN
  BY <1>1, Zenon
<1> QED
  BY <1>3, <1>4

LEMMA EmitType ==
  ASSUME TypeOK, NEW S, Emit(S)
  PROVE  emitted' \in [Events -> Nat]
  BY DEF TypeOK, Emit

LEMMA SeatType ==
  ASSUME TypeOK, NEW u \in Users, NEW s \in {"ready", "playing", "finished"}, Seat(u, s)
  PROVE  player' \in [Users -> {"none", "joined", "ready", "playing", "finished"}]
  BY DEF TypeOK, Seat

LEMMA TypeStep == TypeOK /\ [Next]_vars => TypeOK'
<1> SUFFICES ASSUME TypeOK, [Next]_vars PROVE TypeOK'
  OBVIOUS
<1> USE KindTypes, InstanceAssumption DEF row, seats
<1>1. ASSUME NEW c \in Calls, Read(c) \/ CountForStart(c) \/ LoseLock(c) PROVE TypeOK'
  <2>1. [status |-> status, version |-> version] \in [status : Statuses, version : Nat]
    BY DEF TypeOK
  <2>2. seen' \in [Calls -> [status : Statuses, version : Nat]]
    BY <1>1, <2>1 DEF Read, CountForStart, LoseLock, TypeOK
  <2>3. pc' \in [Calls -> {"new", "read", "counted", "committed", "done", "refused"}]
    BY <1>1 DEF Read, CountForStart, LoseLock, TypeOK
  <2> QED
    BY <1>1, <2>2, <2>3 DEF Read, CountForStart, LoseLock, TypeOK
<1>2. ASSUME NEW c \in Calls, Commit(c) PROVE TypeOK'
  BY <1>2, UpdateType DEF Commit, TypeOK
<1>3. ASSUME NEW c \in Calls, joinInstanceAtomic(c) PROVE TypeOK'
  BY <1>3 DEF joinInstanceAtomic, TypeOK
<1>4. ASSUME NEW c \in Calls, Announce(c) PROVE TypeOK'
  BY <1>4, EmitType DEF Announce, TypeOK
<1>5. ASSUME NEW c \in Calls, FailCall(c) PROVE TypeOK'
  BY <1>5 DEF FailCall, TypeOK
<1>6. CASE Elapse
  BY <1>6 DEF Elapse, TypeOK
<1>7. ASSUME NEW p \in Passes, findDueCountdowns(p) \/ LoseLockPass(p) PROVE TypeOK'
  <2>1. [at |-> "selected", version |-> version, enough |-> FALSE] \in PassStates
    BY DEF TypeOK, PassStates
  <2>2. pass' \in [Passes -> PassStates]
    BY <1>7, <2>1 DEF findDueCountdowns, LoseLockPass, TypeOK, PassStates
  <2> QED
    BY <1>7, <2>2 DEF findDueCountdowns, LoseLockPass, TypeOK, PassStates
<1>8. ASSUME NEW p \in Passes, Reread(p) \/ CountForPass(p) PROVE TypeOK'
  <2>1. pass \in [Passes -> PassStates] /\ Enough \in BOOLEAN
    BY DEF TypeOK, PassStates, Enough
  <2>2. \/ pass' = [pass EXCEPT ![p] = [@ EXCEPT !.at = "reread"]]
        \/ pass' = [pass EXCEPT ![p] = Idle]
        \/ pass' = [pass EXCEPT ![p].at = "counted", ![p].enough = Enough]
    BY <1>8 DEF Reread, CountForPass
  <2>3. pass' \in [Passes -> PassStates]
    BY <2>1, <2>2 DEF PassStates
  <2> QED
    BY <1>8, <2>3 DEF Reread, CountForPass, TypeOK, PassStates
<1>9. ASSUME NEW p \in Passes, CompleteOrReopen(p) PROVE TypeOK'
  <2>1. (IF pass[p].enough THEN "running" ELSE "open") \in Statuses
    BY DEF Statuses
  <2>2. pass' \in [Passes -> PassStates]
    BY <1>9 DEF CompleteOrReopen, TypeOK, PassStates
  <2> QED
    BY <1>9, <2>1, <2>2, UpdateType DEF CompleteOrReopen, TypeOK, PassStates
<1>10. ASSUME NEW p \in Passes, AnnouncePass(p) PROVE TypeOK'
  BY <1>10, EmitType DEF AnnouncePass, TypeOK, PassStates
<1>11. ASSUME NEW p \in Passes, FailPass(p) PROVE TypeOK'
  BY <1>11 DEF FailPass, TypeOK, PassStates
<1>12. ASSUME NEW u \in Users, handleAttemptStarted(u) \/ handleAttemptFinished(u) PROVE TypeOK'
  BY <1>12 DEF handleAttemptStarted, handleAttemptFinished, TypeOK
<1>13. ASSUME NEW u \in Users, linkAttemptToPlayer(u) \/ MarkPlaying(u) \/ MarkFinished(u) PROVE TypeOK'
  <2>1. player' \in [Users -> {"none", "joined", "ready", "playing", "finished"}]
    BY <1>13, SeatType DEF linkAttemptToPlayer, MarkPlaying, MarkFinished
  <2>2. linked' \subseteq Users
    BY <1>13 DEF linkAttemptToPlayer, MarkPlaying, MarkFinished, TypeOK
  <2> QED
    BY <1>13, <2>1, <2>2 DEF linkAttemptToPlayer, MarkPlaying, MarkFinished, TypeOK
<1>14. CASE UNCHANGED vars
  BY <1>14 DEF vars, TypeOK
<1> QED
  BY <1>1, <1>2, <1>3, <1>4, <1>5, <1>6, <1>7, <1>8, <1>9, <1>10, <1>11, <1>12, <1>13, <1>14
  DEF Next, CallStep, PassStep, PlayerStep

(* The room's variables keep their types: no call or pass ever writes a status
   that the column does not know.                                           *)
THEOREM InstanceTypeCorrect == Spec => []TypeOK
<1>1. Init => TypeOK
  <2> SUFFICES ASSUME Init PROVE TypeOK
    OBVIOUS
  <2>1. due \in BOOLEAN
    BY Zenon DEF Init
  <2>2. pass \in [Passes -> PassStates]
    BY KindTypes DEF Init
  <2>3. /\ status \in Statuses /\ version \in Nat /\ entered \in Nat
        /\ seen \in [Calls -> [status : Statuses, version : Nat]]
        /\ emitted \in [Events -> Nat] /\ failures \in 0 .. MaxFailures
    BY InstanceAssumption DEF Init, Statuses
  <2> QED
    BY <2>1, <2>2, <2>3 DEF Init, TypeOK, PassStates
<1> QED
  BY <1>1, TypeStep, PTL DEF Spec
-----------------------------------------------------------------------------
(* The optimistic lock.                                                     *)

(* A call or a pass that still has the version of the row knows its status:
   every change of the status raises the version.  A pass knows besides that
   the countdown has run its time.                                          *)
VersionInv ==
  /\ \A c \in Calls : pc[c] \in {"read", "counted"} =>
       /\ seen[c].version <= version /\ seen[c].status \in Allowed(KindOf[c])
       /\ seen[c].version = version => seen[c].status = status
  /\ \A p \in Passes : pass[p].at \in {"selected", "reread", "counted"} =>
       /\ pass[p].version <= version
       /\ pass[p].version = version => status = "countdown" /\ due
  /\ \A c \in Calls : pc[c] = "counted" => KindOf[c] = "start"

(* Nothing new is at work. *)
NoneJoins ==
  /\ \A c \in Calls : pc'[c] \in {"read", "counted"} =>
       /\ pc[c] \in {"read", "counted"} /\ seen'[c] = seen[c]
       /\ pc'[c] = "counted" => pc[c] = "counted" \/ KindOf[c] = "start"
  /\ \A p \in Passes : pass'[p].at \in {"selected", "reread", "counted"} =>
       pass[p].at \in {"selected", "reread", "counted"} /\ pass'[p].version = pass[p].version

LEMMA VersionFrame ==
  ASSUME VersionInv, NoneJoins, UNCHANGED <<status, version, due>>
  PROVE  VersionInv'
  BY DEF VersionInv, NoneJoins

(* A new version leaves everybody else behind. *)
LEMMA VersionMoves ==
  ASSUME TypeOK, VersionInv, NoneJoins, version' = version + 1
  PROVE  VersionInv'
<1>1. \A c \in Calls : seen[c].version \in Nat
  BY DEF TypeOK
<1>2. \A p \in Passes : pass[p].version \in Nat
  BY DEF TypeOK
<1>3. version \in Nat
  BY DEF TypeOK
<1> QED
  BY <1>1, <1>2, <1>3 DEF VersionInv, NoneJoins

LEMMA VersionStep == TypeOK /\ VersionInv /\ [Next]_vars => VersionInv'
<1> SUFFICES ASSUME TypeOK, VersionInv, [Next]_vars PROVE VersionInv'
  OBVIOUS
<1> USE DEF row, seats
<1>t. /\ pc \in [Calls -> {"new", "read", "counted", "committed", "done", "refused"}]
      /\ seen \in [Calls -> [status : Statuses, version : Nat]]
      /\ pass \in [Passes -> PassStates] /\ version \in Nat
  BY DEF TypeOK, PassStates
<1>1. ASSUME NEW c \in Calls, Read(c) PROVE VersionInv'
  <2>1. /\ pc' = [pc EXCEPT ![c] = IF Admitted(c) THEN "read" ELSE "refused"]
        /\ seen' = [seen EXCEPT ![c] = [status |-> status, version |-> version]]
        /\ UNCHANGED <<status, version, due, pass>>
    BY <1>1 DEF Read
  <2>2. pc'[c] = "read" => status \in Allowed(KindOf[c])
    BY <1>t, <2>1 DEF Admitted
  <2>3. \A d \in Calls : d # c => pc'[d] = pc[d] /\ seen'[d] = seen[d]
    BY <1>t, <2>1
  <2>4. pc'[c] \in {"read", "refused"} /\ seen'[c] = [status |-> status, version |-> version]
    BY <1>t, <2>1
  <2> QED
    BY <1>t, <2>1, <2>2, <2>3, <2>4 DEF VersionInv
<1>2. ASSUME NEW c \in Calls, CountForStart(c) \/ LoseLock(c) \/ joinInstanceAtomic(c)
                              \/ Announce(c) \/ FailCall(c)
      PROVE VersionInv'
  <2>1. NoneJoins
    BY <1>2, <1>t DEF CountForStart, LoseLock, joinInstanceAtomic, Announce, FailCall, NoneJoins
  <2>2. UNCHANGED <<status, version, due>>
    BY <1>2 DEF CountForStart, LoseLock, joinInstanceAtomic, Announce, FailCall
  <2> QED
    BY <2>1, <2>2, VersionFrame
<1>3. ASSUME NEW c \in Calls, Commit(c) PROVE VersionInv'
  <2>1. NoneJoins /\ version' = version + 1
    BY <1>3, <1>t DEF Commit, updateInstanceStatus, NoneJoins
  <2> QED
    BY <2>1, VersionMoves
<1>4. CASE Elapse
  BY <1>4 DEF Elapse, VersionInv
<1>5. ASSUME NEW p \in Passes, findDueCountdowns(p) PROVE VersionInv'
  <2>1. /\ pass' = [pass EXCEPT ![p] = [at |-> "selected", version |-> version, enough |-> FALSE]]
        /\ UNCHANGED <<status, version, due, pc, seen>> /\ status = "countdown" /\ due
    BY <1>5 DEF findDueCountdowns
  <2>2. pass'[p].version = version /\ \A q \in Passes : q # p => pass'[q] = pass[q]
    BY <1>t, <2>1
  <2> QED
    BY <1>t, <2>1, <2>2 DEF VersionInv
<1>6. ASSUME NEW p \in Passes, Reread(p) \/ CountForPass(p) \/ LoseLockPass(p) \/ AnnouncePass(p)
                               \/ FailPass(p)
      PROVE VersionInv'
  <2>1. UNCHANGED <<status, version, due, pc, seen>>
    BY <1>6 DEF Reread, CountForPass, LoseLockPass, AnnouncePass, FailPass
  <2>2. \A q \in Passes : q # p => pass'[q] = pass[q]
    BY <1>6, <1>t DEF Reread, CountForPass, LoseLockPass, AnnouncePass, FailPass
  <2>3. pass'[p].at = "idle" \/ (/\ pass[p].at \in {"selected", "reread"}
                                 /\ pass'[p].version = pass[p].version)
    BY <1>6, <1>t DEF Reread, CountForPass, LoseLockPass, AnnouncePass, FailPass, Idle, PassStates
  <2>4. NoneJoins
    BY <2>1, <2>2, <2>3 DEF NoneJoins
  <2> QED
    BY <2>1, <2>4, VersionFrame
<1>7. ASSUME NEW p \in Passes, CompleteOrReopen(p) PROVE VersionInv'
  <2>1. version' = version + 1 /\ UNCHANGED <<pc, seen>> /\ pass' = [pass EXCEPT ![p].at = "committed"]
    BY <1>7 DEF CompleteOrReopen, updateInstanceStatus
  <2>2. pass'[p].at = "committed" /\ \A q \in Passes : q # p => pass'[q] = pass[q]
    BY <1>t, <2>1 DEF PassStates
  <2>3. NoneJoins
    BY <2>1, <2>2 DEF NoneJoins
  <2> QED
    BY <2>1, <2>3, VersionMoves
<1>8. ASSUME NEW u \in Users, PlayerStep(u) PROVE VersionInv'
  BY <1>8 DEF PlayerStep, handleAttemptStarted, linkAttemptToPlayer, MarkPlaying,
     handleAttemptFinished, MarkFinished, VersionInv
<1>9. CASE UNCHANGED vars
  BY <1>9 DEF vars, VersionInv
<1> QED
  BY <1>1, <1>2, <1>3, <1>4, <1>5, <1>6, <1>7, <1>8, <1>9 DEF Next, CallStep, PassStep

LEMMA VersionInvariant == Spec => []VersionInv
<1>1. Init => VersionInv
  BY DEF Init, VersionInv, Idle
<1> QED
  BY <1>1, InstanceTypeCorrect, VersionStep, PTL DEF Spec
-----------------------------------------------------------------------------
(* Seats.                                                                   *)

Waiting == {u \in Users : player[u] = "joined"}

Manned == Cardinality(Seated) >= MinPlayers

(* Who counted enough players may rely on it: a player may begin to play, but
   never leaves the room.                                                   *)
MannedInv ==
  /\ status = "running" => Manned
  /\ \A c \in Calls : pc[c] = "counted" => Manned /\ KindOf[c] = "start"
  /\ \A p \in Passes : pass[p].enough => Manned

CapacityInv == MaxPlayers # NoLimit => countPlayers <= MaxPlayers

(* What a step does to the seats, unless it is a join. *)
NobodyJoins ==
  \A u \in Users : /\ player'[u] = "none" <=> player[u] = "none"
                   /\ player'[u] = "joined" => player[u] = "joined"

LEMMA FiniteSeats ==
  ASSUME NEW S, S \subseteq Users
  PROVE  IsFiniteSet(S) /\ Cardinality(S) \in Nat
  BY InstanceAssumption, FS_Subset, FS_CardinalityType

(* Nobody waits who is not seated. *)
LEMMA WaitingSeated == Waiting \subseteq Seated /\ countPlayers = Cardinality(Waiting)
  BY DEF Waiting, Seated, countPlayers

LEMMA EnoughManned == Enough => Manned
<1>1. IsFiniteSet(Seated) /\ Cardinality(Seated) \in Nat /\ Cardinality(Waiting) \in Nat
  BY FiniteSeats DEF Seated, Waiting
<1>2. Cardinality(Waiting) <= Cardinality(Seated)
  BY <1>1, WaitingSeated, FS_Subset
<1> QED
  BY <1>1, <1>2, WaitingSeated, InstanceAssumption DEF Enough, Manned

(* A seat is never given up. *)
LEMMA SeatedGrows ==
  ASSUME Seated \subseteq Seated', Manned
  PROVE  Manned'
<1>1. IsFiniteSet(Seated') /\ Cardinality(Seated') \in Nat /\ Cardinality(Seated) \in Nat
  BY FiniteSeats DEF Seated
<1>2. Cardinality(Seated) <= Cardinality(Seated')
  BY <1>1, FS_Subset
<1> QED
  BY <1>1, <1>2, InstanceAssumption DEF Manned

(* Every step leaves the seated where they are. *)
LEMMA SeatsStay == TypeOK /\ [Next]_vars =>
                     NobodyJoins \/ \E c \in Calls : joinInstanceAtomic(c)
<1> SUFFICES ASSUME TypeOK, [Next]_vars, \A c \in Calls : ~joinInstanceAtomic(c) PROVE NobodyJoins
  OBVIOUS
<1> USE DEF row, seats
<1>1. ASSUME NEW c \in Calls, CallStep(c) \/ FailCall(c) PROVE player' = player
  BY <1>1 DEF CallStep, Read, CountForStart, Commit, LoseLock, Announce, FailCall
<1>2. ASSUME NEW p \in Passes, PassStep(p) \/ FailPass(p) PROVE player' = player
  BY <1>2 DEF PassStep, findDueCountdowns, Reread, CountForPass, CompleteOrReopen, LoseLockPass,
              AnnouncePass, FailPass
<1>3. ASSUME NEW u \in Users, PlayerStep(u) PROVE NobodyJoins
  BY <1>3 DEF PlayerStep, handleAttemptStarted, linkAttemptToPlayer, MarkPlaying,
     handleAttemptFinished, MarkFinished, Seat, NobodyJoins, TypeOK
<1>4. CASE Elapse \/ UNCHANGED vars
  BY <1>4 DEF Elapse, vars, NobodyJoins
<1> QED
  BY <1>1, <1>2, <1>3, <1>4 DEF Next, NobodyJoins

LEMMA CapacityStep == TypeOK /\ CapacityInv /\ [Next]_vars => CapacityInv'
<1> SUFFICES ASSUME TypeOK, CapacityInv, [Next]_vars, MaxPlayers # NoLimit
             PROVE  countPlayers' <= MaxPlayers
  BY DEF CapacityInv
<1>1. /\ IsFiniteSet(Waiting) /\ IsFiniteSet(Waiting')
      /\ Cardinality(Waiting) \in Nat /\ Cardinality(Waiting') \in Nat /\ MaxPlayers \in Nat
      /\ Cardinality(Waiting) <= MaxPlayers
  BY FiniteSeats, WaitingSeated, InstanceAssumption DEF Waiting, CapacityInv
<1>2. countPlayers' = Cardinality(Waiting')
  BY DEF countPlayers, Waiting
<1>3. CASE NobodyJoins
  <2>1. Waiting' \subseteq Waiting
    BY <1>3 DEF NobodyJoins, Waiting
  <2>2. Cardinality(Waiting') <= Cardinality(Waiting)
    BY <1>1, <2>1, FS_Subset
  <2> QED
    BY <1>1, <1>2, <2>2
<1>4. ASSUME NEW c \in Calls, joinInstanceAtomic(c) PROVE countPlayers' <= MaxPlayers
  <2>1. CASE player' = player
    BY <1>1, <2>1, WaitingSeated DEF countPlayers, CapacityInv
  <2>2. CASE player' # player
    <3>1. ~Full /\ player' = [player EXCEPT ![UserOf[c]] = "joined"]
      BY <1>4, <2>2 DEF joinInstanceAtomic
    <3>2. Waiting' = Waiting \cup {UserOf[c]}
      BY <3>1, KindTypes DEF Waiting, TypeOK
    <3>3. Cardinality(Waiting') <= Cardinality(Waiting) + 1
      BY <1>1, <3>2, FS_AddElement
    <3>4. Cardinality(Waiting) < MaxPlayers
      BY <1>1, <3>1, WaitingSeated DEF Full
    <3> QED
      BY <1>1, <1>2, <3>3, <3>4
  <2> QED
    BY <2>1, <2>2
<1> QED
  BY <1>3, <1>4, SeatsStay

LEMMA MannedStep == TypeOK /\ MannedInv /\ [Next]_vars => MannedInv'
<1> SUFFICES ASSUME TypeOK, MannedInv, [Next]_vars PROVE MannedInv'
  OBVIOUS
<1> USE DEF row, seats
<1>t. /\ pc \in [Calls -> {"new", "read", "counted", "committed", "done", "refused"}]
      /\ pass \in [Passes -> PassStates]
  BY DEF TypeOK, PassStates
<1>k. \A c \in Calls : Target(KindOf[c]) = "running" => KindOf[c] = "start"
  BY KindTypes DEF Target, Kinds
<1>s. Seated \subseteq Seated'
  <2>1. CASE NobodyJoins
    BY <2>1 DEF NobodyJoins, Seated
  <2>2. ASSUME NEW c \in Calls, joinInstanceAtomic(c) PROVE Seated \subseteq Seated'
    BY <2>2, KindTypes DEF joinInstanceAtomic, Seated, TypeOK
  <2> QED
    BY <2>1, <2>2, SeatsStay
<1>m. Manned => Manned'
  BY <1>s, SeatedGrows
<1>1. ASSUME status' = "running" => status = "running" \/ Manned,
             \A c \in Calls : pc'[c] = "counted" =>
               pc[c] = "counted" \/ (Enough /\ KindOf[c] = "start"),
             \A p \in Passes : pass'[p].enough => pass[p].enough \/ Enough
      PROVE  MannedInv'
  BY <1>1, <1>m, EnoughManned DEF MannedInv
<1>2. ASSUME NEW c \in Calls, CallStep(c) \/ FailCall(c) PROVE MannedInv'
  <2>1. pass' = pass
    BY <1>2 DEF CallStep, Read, CountForStart, Commit, LoseLock, joinInstanceAtomic, Announce, FailCall
  <2>2. \A d \in Calls : pc'[d] = "counted" => pc[d] = "counted" \/ (Enough /\ KindOf[d] = "start")
    BY <1>2, <1>t DEF CallStep, Read, CountForStart, Commit, LoseLock, joinInstanceAtomic, Announce, FailCall
  <2>3. CASE Commit(c)
    <3>1. status' = "running" => pc[c] = "counted"
      BY <1>k, <2>3 DEF Commit, ReadyToCommit, updateInstanceStatus
    <3> QED
      BY <1>1, <2>1, <2>2, <3>1 DEF MannedInv
  <2>4. CASE ~Commit(c)
    <3>1. status' = status
      BY <1>2, <2>4 DEF CallStep, Read, CountForStart, LoseLock, joinInstanceAtomic, Announce, FailCall
    <3> QED
      BY <1>1, <2>1, <2>2, <3>1
  <2> QED
    BY <2>3, <2>4
<1>3. ASSUME NEW p \in Passes, PassStep(p) \/ FailPass(p) PROVE MannedInv'
  <2>1. pc' = pc
    BY <1>3 DEF PassStep, findDueCountdowns, Reread, CountForPass, CompleteOrReopen, LoseLockPass,
                AnnouncePass, FailPass
  <2>2. \A q \in Passes : q # p => pass'[q] = pass[q]
    BY <1>3, <1>t DEF PassStep, findDueCountdowns, Reread, CountForPass, CompleteOrReopen, LoseLockPass,
                AnnouncePass, FailPass
  <2>3. CASE CountForPass(p)
    <3>1. pass'[p].enough => Enough
      BY <1>t, <2>3 DEF CountForPass, PassStates
    <3> QED
      BY <1>1, <2>1, <2>2, <2>3, <3>1 DEF CountForPass
  <2>4. CASE CompleteOrReopen(p)
    <3>1. /\ pass'[p].enough = pass[p].enough
          /\ status' = "running" => pass[p].enough
      BY <1>t, <2>4 DEF CompleteOrReopen, updateInstanceStatus, PassStates
    <3> QED
      BY <1>1, <2>1, <2>2, <3>1 DEF MannedInv
  <2>5. CASE findDueCountdowns(p) \/ Reread(p) \/ LoseLockPass(p) \/ AnnouncePass(p) \/ FailPass(p)
    <3>1. status' = status
      BY <2>5 DEF findDueCountdowns, Reread, LoseLockPass, AnnouncePass, FailPass
    <3>2. pass'[p].enough => pass[p].enough
      BY <1>t, <2>5 DEF findDueCountdowns, Reread, LoseLockPass, AnnouncePass, FailPass, Idle, PassStates
    <3> QED
      BY <1>1, <2>1, <2>2, <3>1, <3>2
  <2> QED
    BY <1>3, <2>3, <2>4, <2>5 DEF PassStep
<1>4. ASSUME NEW u \in Users, PlayerStep(u) PROVE MannedInv'
  <2>1. UNCHANGED <<status, pc, pass>>
    BY <1>4 DEF PlayerStep, handleAttemptStarted, linkAttemptToPlayer, MarkPlaying,
       handleAttemptFinished, MarkFinished
  <2> QED
    BY <1>1, <2>1
<1>5. CASE Elapse \/ UNCHANGED vars
  <2>1. UNCHANGED <<status, pc, pass>>
    BY <1>5 DEF Elapse, vars
  <2> QED
    BY <1>1, <2>1
<1> QED
  BY <1>2, <1>3, <1>4, <1>5 DEF Next

(* However joins, starts and the scheduler interleave, the room is never
   overbooked and never runs without enough players, for any limits.         *)
THEOREM RoomHoldsItsSeats == Spec => []SeatsHold
<1>1. Init => CapacityInv /\ MannedInv
  <2> SUFFICES ASSUME Init PROVE CapacityInv /\ MannedInv
    OBVIOUS
  <2>1. Waiting = {Host}
    BY InstanceAssumption DEF Init, Waiting
  <2>2. countPlayers = 1
    BY <2>1, WaitingSeated, FS_Singleton
  <2>3. CapacityInv
    BY <2>2, InstanceAssumption DEF CapacityInv, NoLimit
  <2>4. MannedInv
    BY DEF Init, MannedInv, Idle
  <2> QED
    BY <2>3, <2>4
<1>2. Spec => []TypeOK
  BY InstanceTypeCorrect
<1>3. CapacityInv /\ MannedInv => SeatsHold
  BY DEF CapacityInv, MannedInv, Manned, SeatsHold
<1> QED
  BY <1>1, <1>2, <1>3, CapacityStep, MannedStep, PTL DEF Spec
-----------------------------------------------------------------------------
(* Announcements.                                                           *)

(* Of one start, and of one close: those that have committed and have not yet
   told the room.                                                           *)
Starting(c)     == pc[c] = "committed" /\ KindOf[c] = "start"
StartingPass(p) == pass[p].at = "committed" /\ pass[p].enough
Closing(c)      == pc[c] = "committed" /\ KindOf[c] = "close"

Begun == status \in {"running", "closed"}

(* A room begins once: who begins it finds nobody else about to say so, and
   nothing said.                                                            *)
StartInv ==
  /\ emitted["started"] \in {0, 1}
  /\ emitted["started"] = 1 => Begun
  /\ \A c \in Calls : Starting(c) => Begun /\ emitted["started"] = 0
  /\ \A p \in Passes : StartingPass(p) => Begun /\ emitted["started"] = 0
  /\ \A c, d \in Calls : Starting(c) /\ Starting(d) => c = d
  /\ \A p, q \in Passes : StartingPass(p) /\ StartingPass(q) => p = q
  /\ \A c \in Calls, p \in Passes : ~(Starting(c) /\ StartingPass(p))

CloseInv ==
  /\ emitted["closed"] \in {0, 1}
  /\ emitted["closed"] = 1 => status = "closed"
  /\ \A c \in Calls : Closing(c) => status = "closed" /\ emitted["closed"] = 0
  /\ \A c, d \in Calls : Closing(c) /\ Closing(d) => c = d

(* The ends of countdowns that have been committed and not announced. *)
EndsCountdown(c) ==
  KindOf[c] \in {"cancel", "start"} \/ (KindOf[c] = "close" /\ seen[c].status = "countdown")
Enders     == {c \in Calls : pc[c] = "committed" /\ EndsCountdown(c)}
PassEnders == {p \in Passes : pass[p].at = "committed"}
Running    == IF status = "countdown" THEN 1 ELSE 0

(* Every countdown begun is running, or has ended with one commit, which is
   announced at most once.                                                  *)
LedgerInv ==
  /\ IsFiniteSet(Enders) /\ IsFiniteSet(PassEnders)
  /\ emitted["countdown_cancelled"] + emitted["started"]
       + Cardinality(Enders) + Cardinality(PassEnders) + Running <= entered

(* What a call that wins the lock found and leaves. *)
LEMMA CommitMoves ==
  ASSUME TypeOK, VersionInv, NEW c \in Calls, Commit(c)
  PROVE  /\ KindOf[c] # "join" /\ pc' = [pc EXCEPT ![c] = "committed"]
         /\ UNCHANGED <<seen, pass, emitted>>
         /\ seen[c].status = status
         /\ \/ KindOf[c] = "countdown" /\ status = "open" /\ status' = "countdown"
            \/ KindOf[c] = "cancel" /\ status = "countdown" /\ status' = "open"
            \/ KindOf[c] = "start" /\ status = "countdown" /\ status' = "running"
            \/ KindOf[c] = "close" /\ status # "closed" /\ status' = "closed"
         /\ entered' = IF KindOf[c] = "countdown" THEN entered + 1 ELSE entered
<1>1. pc[c] \in {"read", "counted"} /\ KindOf[c] # "join" /\ version = seen[c].version
  BY DEF Commit, ReadyToCommit, updateInstanceStatus
<1>2. seen[c].status = status /\ status \in Allowed(KindOf[c])
  BY <1>1 DEF VersionInv
<1>3. status' = Target(KindOf[c]) /\ entered' = entered + (IF Target(KindOf[c]) = "countdown" THEN 1 ELSE 0)
  BY DEF Commit, updateInstanceStatus
<1>4. \/ KindOf[c] = "countdown" /\ status = "open" /\ Target(KindOf[c]) = "countdown"
      \/ KindOf[c] = "cancel" /\ status = "countdown" /\ Target(KindOf[c]) = "open"
      \/ KindOf[c] = "start" /\ status = "countdown" /\ Target(KindOf[c]) = "running"
      \/ KindOf[c] = "close" /\ status # "closed" /\ Target(KindOf[c]) = "closed"
  BY <1>1, <1>2, KindTypes DEF Allowed, Target, Kinds
<1>5. entered \in Nat
  BY DEF TypeOK
<1>6. entered' = IF KindOf[c] = "countdown" THEN entered + 1 ELSE entered
  BY <1>3, <1>4, <1>5
<1> QED
  BY <1>1, <1>2, <1>3, <1>4, <1>6 DEF Commit

(* What a pass that wins the lock found and leaves. *)
LEMMA PassMoves ==
  ASSUME TypeOK, VersionInv, NEW p \in Passes, CompleteOrReopen(p)
  PROVE  /\ status = "countdown" /\ status' = (IF pass[p].enough THEN "running" ELSE "open")
         /\ UNCHANGED <<pc, seen, emitted, entered>>
         /\ pass[p].at = "counted" /\ pass'[p].at = "committed" /\ pass'[p].enough = pass[p].enough
         /\ \A q \in Passes : q # p => pass'[q] = pass[q]
<1>1. pass \in [Passes -> PassStates] /\ entered \in Nat
  BY DEF TypeOK, PassStates
<1>2. status = "countdown"
  BY DEF CompleteOrReopen, updateInstanceStatus, VersionInv
<1>3. entered' = entered
  BY <1>1 DEF CompleteOrReopen, updateInstanceStatus
<1> QED
  BY <1>1, <1>2, <1>3 DEF CompleteOrReopen, updateInstanceStatus, PassStates

(* What an announcement adds. *)
LEMMA EmitAdds ==
  ASSUME TypeOK, NEW S, Emit(S), NEW e \in Events
  PROVE  emitted[e] \in Nat /\ emitted'[e] = IF e \in S THEN emitted[e] + 1 ELSE emitted[e]
  BY DEF TypeOK, Emit

LEMMA EventTypes ==
  /\ "started" \in Events /\ "closed" \in Events /\ "countdown_cancelled" \in Events
  BY DEF Events

(* What the call's events tell of starts, closes and ends of countdowns. *)
LEMMA EventsOfCall ==
  ASSUME NEW c \in Calls
  PROVE  /\ "started" \in EventsOf(c) <=> KindOf[c] = "start"
         /\ "closed" \in EventsOf(c) <=> KindOf[c] = "close"
         /\ "countdown_cancelled" \in EventsOf(c) <=> EndsCountdown(c) /\ KindOf[c] # "start"
<1>1. KindOf[c] \in Kinds
  BY KindTypes
<1>2. CASE KindOf[c] = "close"
  <2>1. EventsOf(c) = {"closed"} \cup (IF seen[c].status = "countdown" THEN {"countdown_cancelled"} ELSE {})
    BY <1>2 DEF EventsOf
  <2> QED
    BY <1>2, <2>1 DEF EndsCountdown
<1>3. CASE KindOf[c] # "close"
  BY <1>1, <1>3 DEF EventsOf, Kinds, EndsCountdown
<1> QED
  BY <1>2, <1>3

(* Most steps commit nothing and announce nothing. *)
Quiet ==
  /\ UNCHANGED <<status, emitted, entered>>
  /\ \A c \in Calls : pc'[c] = "committed" =>
       KindOf[c] = "join" \/ (pc[c] = "committed" /\ seen'[c] = seen[c])
  /\ \A p \in Passes : pass'[p].at = "committed" => pass'[p] = pass[p]

LEMMA QuietSteps ==
  TypeOK /\ [Next]_vars => \/ Quiet
                           \/ \E c \in Calls : Commit(c) \/ Announce(c)
                           \/ \E p \in Passes : CompleteOrReopen(p) \/ AnnouncePass(p)
<1> SUFFICES ASSUME TypeOK, [Next]_vars,
                    \A c \in Calls : ~Commit(c) /\ ~Announce(c),
                    \A p \in Passes : ~CompleteOrReopen(p) /\ ~AnnouncePass(p)
             PROVE  Quiet
  OBVIOUS
<1> USE DEF row, seats
<1>t. /\ pc \in [Calls -> {"new", "read", "counted", "committed", "done", "refused"}]
      /\ seen \in [Calls -> [status : Statuses, version : Nat]]
      /\ pass \in [Passes -> PassStates]
  BY DEF TypeOK, PassStates
<1>1. ASSUME NEW c \in Calls, CallStep(c) \/ FailCall(c) PROVE Quiet
  <2>1. UNCHANGED <<status, emitted, entered, pass>>
    BY <1>1 DEF CallStep, Read, CountForStart, LoseLock, joinInstanceAtomic, FailCall
  <2>2. \A d \in Calls : pc'[d] = "committed" =>
          KindOf[d] = "join" \/ (pc[d] = "committed" /\ seen'[d] = seen[d])
    BY <1>1, <1>t DEF CallStep, Read, CountForStart, LoseLock, joinInstanceAtomic, FailCall
  <2> QED
    BY <2>1, <2>2 DEF Quiet
<1>2. ASSUME NEW p \in Passes, PassStep(p) \/ FailPass(p) PROVE Quiet
  <2>1. UNCHANGED <<status, emitted, entered, pc, seen>>
    BY <1>2 DEF PassStep, findDueCountdowns, Reread, CountForPass, LoseLockPass, FailPass
  <2>2. \A q \in Passes : q # p => pass'[q] = pass[q]
    BY <1>2, <1>t DEF PassStep, findDueCountdowns, Reread, CountForPass, LoseLockPass, FailPass
  <2>3. pass'[p].at # "committed"
    BY <1>2, <1>t DEF PassStep, findDueCountdowns, Reread, CountForPass, LoseLockPass, FailPass,
                      Idle, PassStates
  <2> QED
    BY <2>1, <2>2, <2>3 DEF Quiet
<1>3. ASSUME NEW u \in Users, PlayerStep(u) PROVE Quiet
  BY <1>3 DEF PlayerStep, handleAttemptStarted, linkAttemptToPlayer, MarkPlaying,
     handleAttemptFinished, MarkFinished, Quiet
<1>4. CASE Elapse \/ UNCHANGED vars
  BY <1>4 DEF Elapse, vars, Quiet
<1> QED
  BY <1>1, <1>2, <1>3, <1>4 DEF Next

(* What an announcement leaves. *)
LEMMA AnnounceMoves ==
  ASSUME TypeOK, NEW c \in Calls, Announce(c)
  PROVE  /\ pc[c] = "committed" /\ pc'[c] = "done" /\ \A d \in Calls : d # c => pc'[d] = pc[d]
         /\ Emit(EventsOf(c)) /\ UNCHANGED <<status, entered, seen, pass>>
  BY DEF Announce, TypeOK, row

LEMMA AnnouncePassMoves ==
  ASSUME TypeOK, NEW p \in Passes, AnnouncePass(p)
  PROVE  /\ pass[p].at = "committed" /\ pass'[p].at = "idle" /\ \A q \in Passes : q # p => pass'[q] = pass[q]
         /\ Emit(IF pass[p].enough THEN {"countdown_completed", "started"} ELSE {"countdown_cancelled"})
         /\ UNCHANGED <<status, entered, pc, seen>>
  BY DEF AnnouncePass, NewsOf, TypeOK, row, Idle

LEMMA StartStep == TypeOK /\ VersionInv /\ StartInv /\ [Next]_vars => StartInv'
<1> SUFFICES ASSUME TypeOK, VersionInv, StartInv, [Next]_vars PROVE StartInv'
  OBVIOUS
<1>t. pc \in [Calls -> {"new", "read", "counted", "committed", "done", "refused"}]
  BY DEF TypeOK
<1>1. CASE Quiet
  <2>1. \A c \in Calls : Starting(c)' => Starting(c)
    BY <1>1 DEF Quiet, Starting
  <2>2. \A p \in Passes : StartingPass(p)' => StartingPass(p)
    BY <1>1 DEF Quiet, StartingPass
  <2>3. UNCHANGED <<Begun, emitted>>
    BY <1>1 DEF Quiet, Begun
  <2> QED
    BY <2>1, <2>2, <2>3 DEF StartInv
<1>2. ASSUME NEW c \in Calls, Commit(c) PROVE StartInv'
  <2>1. UNCHANGED <<pass, emitted>> /\ pc'[c] = "committed" /\ \A d \in Calls : d # c => pc'[d] = pc[d]
    BY <1>2, <1>t, CommitMoves
  <2>2. \A p \in Passes : StartingPass(p)' <=> StartingPass(p)
    BY <2>1 DEF StartingPass
  <2>3. \A d \in Calls : d # c => (Starting(d)' <=> Starting(d))
    BY <2>1 DEF Starting
  <2>4. Begun => Begun'
    BY <1>2, CommitMoves DEF Begun
  <2>5. CASE KindOf[c] = "start"
    <3>1. ~Begun /\ Begun'
      BY <1>2, <2>5, CommitMoves DEF Begun
    <3> QED
      BY <2>1, <2>2, <2>3, <3>1 DEF StartInv
  <2>6. CASE KindOf[c] # "start"
    <3>1. ~Starting(c)'
      BY <2>6 DEF Starting
    <3> QED
      BY <2>1, <2>2, <2>3, <2>4, <3>1 DEF StartInv
  <2> QED
    BY <2>5, <2>6
<1>3. ASSUME NEW p \in Passes, CompleteOrReopen(p) PROVE StartInv'
  <2>1. UNCHANGED <<pc, emitted>> /\ ~Begun /\ (StartingPass(p)' => Begun')
    BY <1>3, PassMoves DEF Begun, StartingPass
  <2>2. \A c \in Calls : Starting(c)' <=> Starting(c)
    BY <2>1 DEF Starting
  <2>3. \A q \in Passes : q # p => (StartingPass(q)' <=> StartingPass(q))
    BY <1>3, PassMoves DEF StartingPass
  <2> QED
    BY <2>1, <2>2, <2>3 DEF StartInv
<1>4. ASSUME NEW c \in Calls, Announce(c) PROVE StartInv'
  <2>1. UNCHANGED <<pass, Begun>> /\ ~Starting(c)'
    BY <1>4, AnnounceMoves DEF Begun, Starting
  <2>2. \A p \in Passes : StartingPass(p)' <=> StartingPass(p)
    BY <2>1 DEF StartingPass
  <2>3. \A d \in Calls : d # c => (Starting(d)' <=> Starting(d))
    BY <1>4, AnnounceMoves DEF Starting
  <2>4. emitted'["started"] = IF Starting(c) THEN emitted["started"] + 1 ELSE emitted["started"]
    BY <1>4, AnnounceMoves, EmitAdds, EventTypes, EventsOfCall DEF Starting
  <2> QED
    BY <2>1, <2>2, <2>3, <2>4 DEF StartInv
<1>5. ASSUME NEW p \in Passes, AnnouncePass(p) PROVE StartInv'
  <2>1. UNCHANGED <<pc, Begun>> /\ ~StartingPass(p)'
    BY <1>5, AnnouncePassMoves DEF Begun, StartingPass
  <2>2. \A c \in Calls : Starting(c)' <=> Starting(c)
    BY <2>1 DEF Starting
  <2>3. \A q \in Passes : q # p => (StartingPass(q)' <=> StartingPass(q))
    BY <1>5, AnnouncePassMoves DEF StartingPass
  <2>4. emitted'["started"] = IF StartingPass(p) THEN emitted["started"] + 1 ELSE emitted["started"]
    BY <1>5, AnnouncePassMoves, EmitAdds, EventTypes DEF StartingPass
  <2> QED
    BY <2>1, <2>2, <2>3, <2>4 DEF StartInv
<1> QED
  BY <1>1, <1>2, <1>3, <1>4, <1>5, QuietSteps

LEMMA CloseStep == TypeOK /\ VersionInv /\ CloseInv /\ [Next]_vars => CloseInv'
<1> SUFFICES ASSUME TypeOK, VersionInv, CloseInv, [Next]_vars PROVE CloseInv'
  OBVIOUS
<1>t. pc \in [Calls -> {"new", "read", "counted", "committed", "done", "refused"}]
  BY DEF TypeOK
<1>1. CASE Quiet
  <2>1. \A c \in Calls : Closing(c)' => Closing(c)
    BY <1>1 DEF Quiet, Closing
  <2> QED
    BY <1>1, <2>1 DEF CloseInv, Quiet
<1>2. ASSUME NEW c \in Calls, Commit(c) PROVE CloseInv'
  <2>1. emitted' = emitted /\ status # "closed" /\ pc'[c] = "committed" /\ \A d \in Calls : d # c => pc'[d] = pc[d]
    BY <1>2, <1>t, CommitMoves
  <2>2. \A d \in Calls : d # c => ~Closing(d)'
    BY <2>1 DEF Closing, CloseInv
  <2>3. Closing(c)' => status' = "closed"
    BY <1>2, CommitMoves DEF Closing
  <2> QED
    BY <2>1, <2>2, <2>3 DEF CloseInv
<1>3. ASSUME NEW p \in Passes, CompleteOrReopen(p) PROVE CloseInv'
  <2>1. UNCHANGED <<pc, emitted>> /\ status # "closed"
    BY <1>3, PassMoves
  <2>2. \A c \in Calls : Closing(c)' <=> Closing(c)
    BY <2>1 DEF Closing
  <2> QED
    BY <2>1, <2>2 DEF CloseInv
<1>4. ASSUME NEW c \in Calls, Announce(c) PROVE CloseInv'
  <2>1. status' = status /\ ~Closing(c)'
    BY <1>4, AnnounceMoves DEF Closing
  <2>2. \A d \in Calls : d # c => (Closing(d)' <=> Closing(d))
    BY <1>4, AnnounceMoves DEF Closing
  <2>3. emitted'["closed"] = IF Closing(c) THEN emitted["closed"] + 1 ELSE emitted["closed"]
    BY <1>4, AnnounceMoves, EmitAdds, EventTypes, EventsOfCall DEF Closing
  <2> QED
    BY <2>1, <2>2, <2>3 DEF CloseInv
<1>5. ASSUME NEW p \in Passes, AnnouncePass(p) PROVE CloseInv'
  <2>1. UNCHANGED <<pc, status>>
    BY <1>5, AnnouncePassMoves
  <2>2. \A c \in Calls : Closing(c)' <=> Closing(c)
    BY <2>1 DEF Closing
  <2>3. emitted'["closed"] = emitted["closed"]
    BY <1>5, AnnouncePassMoves, EmitAdds, EventTypes
  <2> QED
    BY <2>1, <2>2, <2>3 DEF CloseInv
<1> QED
  BY <1>1, <1>2, <1>3, <1>4, <1>5, QuietSteps

(* Adding to and taking from a finite set. *)
LEMMA CountOf ==
  ASSUME NEW S, IsFiniteSet(S), NEW x
  PROVE  /\ Cardinality(S) \in Nat
         /\ IsFiniteSet(S \cup {x}) /\ Cardinality(S \cup {x}) \in Nat
         /\ Cardinality(S \cup {x}) <= Cardinality(S) + 1
         /\ IsFiniteSet(S \ {x}) /\ Cardinality(S \ {x}) \in Nat
         /\ x \in S => Cardinality(S \ {x}) = Cardinality(S) - 1
         /\ Cardinality(S \ {x}) <= Cardinality(S)
<1>1. Cardinality(S) \in Nat
  BY FS_CardinalityType
<1>2. /\ IsFiniteSet(S \cup {x})
      /\ Cardinality(S \cup {x}) = IF x \in S THEN Cardinality(S) ELSE Cardinality(S) + 1
  BY FS_AddElement
<1>3. /\ IsFiniteSet(S \ {x})
      /\ Cardinality(S \ {x}) = IF x \in S THEN Cardinality(S) - 1 ELSE Cardinality(S)
  BY FS_RemoveElement
<1>4. Cardinality(S \cup {x}) \in Nat /\ Cardinality(S \ {x}) \in Nat
  BY <1>2, <1>3, FS_CardinalityType
<1> QED
  BY <1>1, <1>2, <1>3, <1>4

LEMMA LedgerStep == TypeOK /\ VersionInv /\ LedgerInv /\ [Next]_vars => LedgerInv'
<1> SUFFICES ASSUME TypeOK, VersionInv, LedgerInv, [Next]_vars PROVE LedgerInv'
  OBVIOUS
<1> DEFINE Told == emitted["countdown_cancelled"] + emitted["started"]
<1>t. /\ pc \in [Calls -> {"new", "read", "counted", "committed", "done", "refused"}]
      /\ emitted["countdown_cancelled"] \in Nat /\ emitted["started"] \in Nat /\ entered \in Nat
      /\ Cardinality(Enders) \in Nat /\ Cardinality(PassEnders) \in Nat
      /\ IsFiniteSet(Enders) /\ IsFiniteSet(PassEnders)
      /\ Running \in {0, 1}
      /\ Told + Cardinality(Enders) + Cardinality(PassEnders) + Running <= entered
  BY EventTypes, FS_CardinalityType DEF TypeOK, LedgerInv, Running
<1>1. CASE Quiet
  <2>1. Enders' \subseteq Enders
    BY <1>1 DEF Quiet, Enders, EndsCountdown
  <2>2. PassEnders' \subseteq PassEnders
    BY <1>1 DEF Quiet, PassEnders
  <2>3. IsFiniteSet(Enders') /\ Cardinality(Enders') \in Nat /\ Cardinality(Enders') <= Cardinality(Enders)
    BY <1>t, <2>1, FS_Subset, FS_CardinalityType
  <2>4. /\ IsFiniteSet(PassEnders') /\ Cardinality(PassEnders') \in Nat
        /\ Cardinality(PassEnders') <= Cardinality(PassEnders)
    BY <1>t, <2>2, FS_Subset, FS_CardinalityType
  <2>5. UNCHANGED <<Running, emitted, entered>>
    BY <1>1 DEF Quiet, Running
  <2> QED
    BY <1>t, <2>3, <2>4, <2>5 DEF LedgerInv
<1>2. ASSUME NEW c \in Calls, Commit(c) PROVE LedgerInv'
  <2>1. /\ UNCHANGED <<seen, pass, emitted>> /\ pc'[c] = "committed" /\ pc[c] # "committed"
        /\ \A d \in Calls : d # c => pc'[d] = pc[d]
    BY <1>2, <1>t, CommitMoves DEF Commit, ReadyToCommit
  <2>2. PassEnders' = PassEnders
    BY <2>1 DEF PassEnders
  <2>3. CASE EndsCountdown(c)
    <3>1. Enders' = Enders \cup {c}
      BY <2>1, <2>3 DEF Enders, EndsCountdown
    <3>2. Running = 1 /\ Running' = 0 /\ entered' = entered
      BY <1>2, <2>3, CommitMoves DEF EndsCountdown, Running
    <3>3. /\ IsFiniteSet(Enders') /\ Cardinality(Enders') \in Nat
          /\ Cardinality(Enders') <= Cardinality(Enders) + 1
      BY <1>t, <3>1, CountOf
    <3> QED
      BY <1>t, <2>1, <2>2, <3>2, <3>3 DEF LedgerInv
  <2>4. CASE ~EndsCountdown(c)
    <3>1. Enders' = Enders
      BY <2>1, <2>4 DEF Enders, EndsCountdown
    <3>2. \/ Running = 0 /\ Running' = 1 /\ entered' = entered + 1
          \/ Running = 0 /\ Running' = 0 /\ entered' = entered
      BY <1>2, <2>4, CommitMoves DEF EndsCountdown, Running
    <3> QED
      BY <1>t, <2>1, <2>2, <3>1, <3>2 DEF LedgerInv
  <2> QED
    BY <2>3, <2>4
<1>3. ASSUME NEW p \in Passes, CompleteOrReopen(p) PROVE LedgerInv'
  <2>1. PassEnders' = PassEnders \cup {p}
    BY <1>3, PassMoves DEF PassEnders
  <2>2. UNCHANGED <<Enders, emitted, entered>> /\ Running = 1 /\ Running' = 0
    BY <1>3, PassMoves DEF Enders, EndsCountdown, Running
  <2>3. /\ IsFiniteSet(PassEnders') /\ Cardinality(PassEnders') \in Nat
        /\ Cardinality(PassEnders') <= Cardinality(PassEnders) + 1
    BY <1>t, <2>1, CountOf
  <2> QED
    BY <1>t, <2>2, <2>3 DEF LedgerInv
<1>4. ASSUME NEW c \in Calls, Announce(c) PROVE LedgerInv'
  <2>1. Enders' = Enders \ {c}
    BY <1>4, AnnounceMoves DEF Enders, EndsCountdown
  <2>2. UNCHANGED <<PassEnders, Running, entered>>
    BY <1>4, AnnounceMoves DEF PassEnders, Running
  <2>3. c \in Enders <=> EndsCountdown(c)
    BY <1>4, AnnounceMoves DEF Enders
  <2>4. /\ emitted'["started"] = IF KindOf[c] = "start" THEN emitted["started"] + 1 ELSE emitted["started"]
        /\ emitted'["countdown_cancelled"] = IF c \in Enders /\ KindOf[c] # "start"
             THEN emitted["countdown_cancelled"] + 1 ELSE emitted["countdown_cancelled"]
    BY <1>4, <2>3, AnnounceMoves, EmitAdds, EventTypes, EventsOfCall
  <2>5. KindOf[c] = "start" => c \in Enders
    BY <2>3 DEF EndsCountdown
  <2>6. /\ IsFiniteSet(Enders') /\ Cardinality(Enders') \in Nat
        /\ Cardinality(Enders') <= Cardinality(Enders)
        /\ c \in Enders => Cardinality(Enders') = Cardinality(Enders) - 1
    BY <1>t, <2>1, CountOf
  <2> QED
    BY <1>t, <2>2, <2>4, <2>5, <2>6 DEF LedgerInv
<1>5. ASSUME NEW p \in Passes, AnnouncePass(p) PROVE LedgerInv'
  <2>1. PassEnders' = PassEnders \ {p} /\ p \in PassEnders
    BY <1>5, AnnouncePassMoves DEF PassEnders
  <2>2. UNCHANGED <<Enders, Running, entered>>
    BY <1>5, AnnouncePassMoves DEF Enders, EndsCountdown, Running
  <2>3. /\ emitted'["started"] = IF pass[p].enough THEN emitted["started"] + 1 ELSE emitted["started"]
        /\ emitted'["countdown_cancelled"] = IF pass[p].enough
             THEN emitted["countdown_cancelled"] ELSE emitted["countdown_cancelled"] + 1
    BY <1>5, AnnouncePassMoves, EmitAdds, EventTypes
  <2>4. /\ IsFiniteSet(PassEnders') /\ Cardinality(PassEnders') \in Nat
        /\ Cardinality(PassEnders') = Cardinality(PassEnders) - 1
    BY <1>t, <2>1, CountOf
  <2> QED
    BY <1>t, <2>2, <2>3, <2>4 DEF LedgerInv
<1> QED
  BY <1>1, <1>2, <1>3, <1>4, <1>5, QuietSteps

(* Of the host's calls and the scheduler's passes that compete, however many,
   one wins: the room hears of one start and one close at most, and of no more
   ends of countdowns than countdowns began.                                *)
THEOREM RoomHearsOnce == Spec => []AnnouncedOnce
<1>1. Init => VersionInv /\ StartInv /\ CloseInv /\ LedgerInv
  <2> SUFFICES ASSUME Init PROVE VersionInv /\ StartInv /\ CloseInv /\ LedgerInv
    OBVIOUS
  <2>1. VersionInv
    BY DEF Init, VersionInv, Idle
  <2>2. emitted["started"] = 0 /\ emitted["closed"] = 0 /\ emitted["countdown_cancelled"] = 0
    BY EventTypes DEF Init
  <2>3. Enders = {} /\ PassEnders = {} /\ Running = 0 /\ entered = 0
    BY DEF Init, Enders, PassEnders, Running, Idle
  <2>4. LedgerInv
    BY <2>2, <2>3, FS_EmptySet DEF LedgerInv
  <2>5. StartInv /\ CloseInv
    BY <2>2 DEF Init, StartInv, CloseInv, Starting, StartingPass, Closing, Idle
  <2> QED
    BY <2>1, <2>4, <2>5
<1>2. Spec => []TypeOK
  BY InstanceTypeCorrect
<1>3. TypeOK /\ StartInv /\ CloseInv /\ LedgerInv => AnnouncedOnce
  <2> SUFFICES ASSUME TypeOK, StartInv, CloseInv, LedgerInv PROVE AnnouncedOnce
    OBVIOUS
  <2>1. /\ emitted["countdown_cancelled"] \in Nat /\ emitted["started"] \in Nat
        /\ entered \in Nat /\ Running \in {0, 1}
        /\ Cardinality(Enders) \in Nat /\ Cardinality(PassEnders) \in Nat
    BY EventTypes, FS_CardinalityType DEF TypeOK, LedgerInv, Running
  <2>2. emitted["countdown_cancelled"] + emitted["started"] <= entered
    BY <2>1 DEF LedgerInv
  <2> QED
    BY <2>2 DEF StartInv, CloseInv, AnnouncedOnce
<1> QED
  BY <1>1, <1>2, <1>3, VersionStep, StartStep, CloseStep, LedgerStep, PTL DEF Spec
-----------------------------------------------------------------------------
(* The room as those who watch it see it.                                   *)

(* What each kind of call has to tell. *)
LEMMA EventsOfKind ==
  ASSUME NEW c \in Calls
  PROVE  /\ KindOf[c] = "join" => EventsOf(c) = {"joined"}
         /\ KindOf[c] = "countdown" => EventsOf(c) = {"countdown_started"}
         /\ KindOf[c] = "cancel" => EventsOf(c) = {"countdown_cancelled"}
         /\ KindOf[c] = "start" => EventsOf(c) = {"started"}
         /\ KindOf[c] = "close" => EventsOf(c) = IF seen[c].status = "countdown"
              THEN {"closed", "countdown_cancelled"} ELSE {"closed"}
         /\ EventsOf(c) # {}
<1>1. KindOf[c] \in Kinds
  BY KindTypes
<1>2. CASE KindOf[c] = "close"
  <2>1. EventsOf(c) = {"closed"} \cup (IF seen[c].status = "countdown" THEN {"countdown_cancelled"} ELSE {})
    BY <1>2 DEF EventsOf
  <2> QED
    BY <1>2, <2>1
<1>3. CASE KindOf[c] # "close"
  BY <1>1, <1>3 DEF EventsOf, Kinds
<1> QED
  BY <1>2, <1>3

(* A call owes what it owed unless the step is its own. *)
LEMMA OwedBy ==
  ASSUME NEW c \in Calls, \A d \in Calls : d # c => pc'[d] = pc[d],
         \A d \in Calls : pc[d] = "committed" => seen'[d] = seen[d]
  PROVE  Owed' = [Owed EXCEPT ![c] = IF pc'[c] = "committed" THEN EventsOf(c)' ELSE {}]
<1>1. ASSUME NEW d \in Calls, pc[d] = "committed" PROVE EventsOf(d)' = EventsOf(d)
  <2>1. seen'[d] = seen[d]
    BY <1>1
  <2> QED
    BY <2>1 DEF EventsOf
<1>2. Owed' = [d \in Calls |-> IF pc'[d] = "committed" THEN EventsOf(d)' ELSE {}]
  BY DEF Owed
<1>3. \A d \in Calls : d # c => Owed'[d] = Owed[d]
  BY <1>1, <1>2 DEF Owed
<1> QED
  BY <1>2, <1>3 DEF Owed

LEMMA OwedLateBy ==
  ASSUME NEW p \in Passes, \A q \in Passes : q # p => pass'[q] = pass[q]
  PROVE  OwedLate' = [OwedLate EXCEPT ![p] = IF pass'[p].at = "committed" THEN NewsOf(p)' ELSE {}]
  BY DEF OwedLate, NewsOf

LEMMA OwedStay ==
  /\ UNCHANGED <<pc, seen>> => UNCHANGED Owed
  /\ UNCHANGED pass => UNCHANGED OwedLate
<1>1. ASSUME UNCHANGED <<pc, seen>> PROVE UNCHANGED Owed
  <2>1. \A c \in Calls : EventsOf(c)' = EventsOf(c)
    BY <1>1 DEF EventsOf
  <2>2. Owed' = [c \in Calls |-> IF pc[c] = "committed" THEN EventsOf(c)' ELSE {}]
    BY <1>1 DEF Owed
  <2> QED
    BY <2>1, <2>2 DEF Owed
<1>2. ASSUME UNCHANGED pass PROVE UNCHANGED OwedLate
  BY <1>2 DEF OwedLate, NewsOf
<1> QED
  BY <1>1, <1>2

LEMMA CallSimulates ==
  ASSUME TypeOK, VersionInv, NEW c \in Calls, CallStep(c) \/ FailCall(c)
  PROVE  Room!ByHost(c) \/ Room!Join(c) \/ Room!Pay(c) \/ UNCHANGED Room!roomVars
<1> USE DEF row, seats
<1>t. /\ pc \in [Calls -> {"new", "read", "counted", "committed", "done", "refused"}]
      /\ seen \in [Calls -> [status : Statuses, version : Nat]]
  BY DEF TypeOK
<1>1. /\ \A d \in Calls : d # c => pc'[d] = pc[d]
      /\ \A d \in Calls : pc[d] = "committed" => seen'[d] = seen[d]
      /\ UNCHANGED pass
  BY <1>t DEF CallStep, Read, CountForStart, Commit, LoseLock, joinInstanceAtomic, Announce, FailCall
<1>2. /\ Owed' = [Owed EXCEPT ![c] = IF pc'[c] = "committed" THEN EventsOf(c)' ELSE {}]
      /\ Owed[c] = IF pc[c] = "committed" THEN EventsOf(c) ELSE {}
      /\ Owed = [d \in Calls |-> Owed[d]] /\ UNCHANGED OwedLate
  BY <1>1, OwedBy, OwedStay DEF Owed
<1>3. CASE Read(c) \/ CountForStart(c) \/ LoseLock(c)
  <2>1. pc[c] # "committed" /\ pc'[c] # "committed" /\ UNCHANGED <<status, due, emitted>>
    BY <1>3, <1>t DEF Read, CountForStart, LoseLock, ReadyToCommit
  <2>2. Owed' = Owed
    BY <1>2, <2>1
  <2> QED
    BY <1>2, <2>1, <2>2 DEF Room!roomVars
<1>4. CASE Commit(c)
  <2>1. /\ pc[c] # "committed" /\ pc'[c] = "committed" /\ UNCHANGED <<seen, emitted>>
        /\ due' = FALSE /\ status \in Statuses /\ seen[c].status = status
    BY <1>4, <1>t, CommitMoves DEF Commit, ReadyToCommit, updateInstanceStatus, TypeOK
  <2>2. EventsOf(c)' = EventsOf(c)
    BY <2>1 DEF EventsOf
  <2>3. Owed[c] = {} /\ Owed' = [Owed EXCEPT ![c] = EventsOf(c)]
    BY <1>2, <2>1, <2>2
  <2>4. \/ /\ status = "open" /\ status' = "countdown" /\ EventsOf(c) = {"countdown_started"}
        \/ /\ status = "countdown" /\ status' = "open" /\ EventsOf(c) = {"countdown_cancelled"}
        \/ /\ status = "countdown" /\ status' = "running" /\ EventsOf(c) = {"started"}
        \/ /\ status = "countdown" /\ status' = "closed"
           /\ EventsOf(c) = {"closed", "countdown_cancelled"}
        \/ /\ status \in {"open", "running"} /\ status' = "closed" /\ EventsOf(c) = {"closed"}
    BY <1>4, <2>1, CommitMoves, EventsOfKind DEF Statuses
  <2> QED
    BY <1>2, <2>1, <2>3, <2>4 DEF Room!ByHost, Room!Decide, Room!Turn
<1>5. CASE joinInstanceAtomic(c)
  <2>1. /\ pc[c] = "read" /\ KindOf[c] = "join" /\ UNCHANGED <<status, due, seen, emitted>>
        /\ pc'[c] \in {"refused", "committed"}
    BY <1>5, <1>t DEF joinInstanceAtomic
  <2>2. EventsOf(c)' = {"joined"}
    BY <2>1 DEF EventsOf
  <2>3. CASE pc'[c] = "refused"
    BY <1>2, <2>1, <2>3 DEF Room!roomVars
  <2>4. CASE pc'[c] = "committed"
    BY <1>2, <2>1, <2>2, <2>4 DEF Room!Join
  <2> QED
    BY <2>1, <2>3, <2>4
<1>6. CASE Announce(c) \/ (FailCall(c) /\ pc[c] = "committed")
  <2>1. /\ pc[c] = "committed" /\ pc'[c] # "committed" /\ UNCHANGED <<status, due>>
        /\ Emit(EventsOf(c)) \/ UNCHANGED emitted
    BY <1>6, <1>t DEF Announce, FailCall
  <2>2. Owed[c] = EventsOf(c) /\ Owed[c] # {} /\ Owed' = [Owed EXCEPT ![c] = {}]
    BY <1>2, <2>1, EventsOfKind
  <2>3. Room!Hear(Owed[c]) \/ UNCHANGED emitted
    BY <2>1, <2>2 DEF Emit, Room!Hear
  <2> QED
    BY <1>2, <2>1, <2>2, <2>3 DEF Room!Pay
<1>7. CASE FailCall(c) /\ pc[c] # "committed"
  <2>1. pc'[c] # "committed" /\ UNCHANGED <<status, due, emitted>>
    BY <1>7, <1>t DEF FailCall
  <2>2. Owed' = Owed
    BY <1>2, <1>7, <2>1
  <2> QED
    BY <1>2, <2>1, <2>2 DEF Room!roomVars
<1> QED
  BY <1>3, <1>4, <1>5, <1>6, <1>7 DEF CallStep

LEMMA PassSimulates ==
  ASSUME TypeOK, VersionInv, NEW p \in Passes, PassStep(p) \/ FailPass(p)
  PROVE  Room!ByTime(p) \/ Room!PayLate(p) \/ UNCHANGED Room!roomVars
<1> USE DEF row, seats
<1>t. pass \in [Passes -> PassStates]
  BY DEF TypeOK, PassStates
<1>1. (\A q \in Passes : q # p => pass'[q] = pass[q]) /\ UNCHANGED <<pc, seen>>
  BY <1>t DEF PassStep, findDueCountdowns, Reread, CountForPass, CompleteOrReopen, LoseLockPass,
              AnnouncePass, FailPass
<1>2. /\ OwedLate' = [OwedLate EXCEPT ![p] = IF pass'[p].at = "committed" THEN NewsOf(p)' ELSE {}]
      /\ OwedLate[p] = IF pass[p].at = "committed" THEN NewsOf(p) ELSE {}
      /\ OwedLate = [q \in Passes |-> OwedLate[q]] /\ UNCHANGED Owed
  BY <1>1, OwedLateBy, OwedStay DEF OwedLate
<1>3. CASE CompleteOrReopen(p)
  <2>1. /\ status = "countdown" /\ due /\ due' = FALSE /\ UNCHANGED emitted
        /\ status' = IF pass[p].enough THEN "running" ELSE "open"
        /\ pass[p].at = "counted" /\ pass'[p].at = "committed" /\ pass'[p].enough = pass[p].enough
    BY <1>3, PassMoves DEF CompleteOrReopen, updateInstanceStatus, VersionInv
  <2>2. NewsOf(p)' = IF pass[p].enough THEN {"countdown_completed", "started"}
                                       ELSE {"countdown_cancelled"}
    BY <2>1 DEF NewsOf
  <2>3. OwedLate[p] = {} /\ OwedLate' = [OwedLate EXCEPT ![p] = NewsOf(p)']
    BY <1>2, <2>1
  <2> QED
    BY <1>2, <2>1, <2>2, <2>3 DEF Room!ByTime, Room!Expire, Room!Turn
<1>4. CASE AnnouncePass(p) \/ (FailPass(p) /\ pass[p].at = "committed")
  <2>1. /\ pass[p].at = "committed" /\ pass'[p].at = "idle" /\ UNCHANGED <<status, due>>
        /\ Emit(NewsOf(p)) \/ UNCHANGED emitted
    BY <1>4, <1>t DEF AnnouncePass, FailPass, Idle
  <2>2. NewsOf(p) # {}
    BY DEF NewsOf
  <2>3. OwedLate[p] = NewsOf(p) /\ OwedLate[p] # {} /\ OwedLate' = [OwedLate EXCEPT ![p] = {}]
    BY <1>2, <2>1, <2>2
  <2>4. Room!Hear(OwedLate[p]) \/ UNCHANGED emitted
    BY <2>1, <2>3 DEF Emit, Room!Hear
  <2> QED
    BY <1>2, <2>1, <2>3, <2>4 DEF Room!PayLate
<1>5. CASE \/ findDueCountdowns(p) \/ Reread(p) \/ CountForPass(p) \/ LoseLockPass(p)
           \/ (FailPass(p) /\ pass[p].at # "committed")
  <2>1. UNCHANGED <<status, due, emitted>>
    BY <1>5 DEF findDueCountdowns, Reread, CountForPass, LoseLockPass, FailPass
  <2>2. pass[p].at # "committed" /\ pass'[p].at # "committed"
    BY <1>5, <1>t DEF findDueCountdowns, Reread, CountForPass, LoseLockPass, FailPass, Idle, PassStates
  <2>3. OwedLate' = OwedLate
    BY <1>2, <2>2
  <2> QED
    BY <1>2, <2>1, <2>3 DEF Room!roomVars
<1> QED
  BY <1>3, <1>4, <1>5 DEF PassStep

LEMMA RoomStep == TypeOK /\ VersionInv /\ [Next]_vars => [Room!Next]_(Room!roomVars)
<1> SUFFICES ASSUME TypeOK, VersionInv, [Next]_vars PROVE Room!Next \/ UNCHANGED Room!roomVars
  OBVIOUS
<1> USE DEF row, seats
<1>1. ASSUME NEW c \in Calls, CallStep(c) \/ FailCall(c)
      PROVE  Room!Next \/ UNCHANGED Room!roomVars
  BY <1>1, CallSimulates DEF Room!Next
<1>2. ASSUME NEW p \in Passes, PassStep(p) \/ FailPass(p)
      PROVE  Room!Next \/ UNCHANGED Room!roomVars
  BY <1>2, PassSimulates DEF Room!Next
<1>3. ASSUME NEW u \in Users, PlayerStep(u) PROVE UNCHANGED Room!roomVars
  <2>1. UNCHANGED <<status, due, emitted, pc, seen, pass>>
    BY <1>3 DEF PlayerStep, handleAttemptStarted, linkAttemptToPlayer, MarkPlaying,
       handleAttemptFinished, MarkFinished
  <2> QED
    BY <2>1, OwedStay DEF Room!roomVars
<1>4. CASE Elapse
  <2>1. Room!Elapse
    BY <1>4, OwedStay DEF Elapse, Room!Elapse
  <2> QED
    BY <2>1 DEF Room!Next
<1>5. CASE UNCHANGED vars
  BY <1>5, OwedStay DEF vars, Room!roomVars
<1> QED
  BY <1>1, <1>2, <1>3, <1>4, <1>5 DEF Next

(* For any number of calls and of overlapping passes, the room behaves as one
   that is changed by single decisions on its present status: reading, deciding
   and committing apart, and failing at any point, are not to be seen.      *)
THEOREM InstanceImplementsRoom == Spec => KeepsRoom
<1>1. Init => Room!Init
  BY DEF Init, Room!Init, Owed, OwedLate, Idle
<1> QED
  BY <1>1, RoomStep, InstanceTypeCorrect, VersionInvariant, PTL DEF Spec, KeepsRoom, Room!Spec
=============================================================================
