------------------------------ MODULE Instance ------------------------------
(***************************************************************************)
(* One multiplayer room (InstanceService, QuizInstanceRepository, the      *)
(* countdown scheduler and the listener on attempt events).  The row has a *)
(* version; each call reads the row, decides, and commits only if the      *)
(* version is still the one it read.  Joining is a transaction of its own  *)
(* that locks the row and leaves the version alone.  The scheduler runs on *)
(* every pod without a lock, and its passes overlap.                       *)
(***************************************************************************)
EXTENDS Integers, FiniteSets

CONSTANTS
  Users,
  Host,
  Calls,        \* requests to the service
  KindOf,       \* one of Kinds
  UserOf,       \* who makes the call
  Passes,       \* passes of the scheduler that may be under way together
  MinPlayers,   \* MIN_PLAYERS_PER_INSTANCE
  MaxPlayers,   \* the row's max_players, NoLimit for null
  MaxFailures   \* bound: calls and passes cut short by an error or a restart

NoLimit == 0
Kinds   == {"join", "countdown", "cancel", "start", "close"}

ASSUME InstanceAssumption ==
  /\ Host \in Users /\ IsFiniteSet(Users)
  /\ KindOf \in [Calls -> Kinds]
  /\ UserOf \in [Calls -> Users]
  /\ MinPlayers \in Nat /\ MaxPlayers \in Nat \ {1} /\ MaxFailures \in Nat

VARIABLES
  status,    \* quiz_instances.status; nothing ever writes finished
  version,   \* quiz_instances.version
  due,       \* countdown_started_at is COUNTDOWN_DURATION_MS old or older
  player,    \* quiz_instance_players.status, none for no row
  linked,    \* users whose row has an attempt_id
  pc,        \* per call
  seen,      \* per call: status and version it read
  pass,      \* per pass: where it is, the version it selected, enough players
  link,      \* per user: the handler of attempt.started
  finish,    \* per user: the handler of attempt.completed
  emitted,   \* how many events of each kind went to the room
  entered,   \* observation: countdowns begun
  failures

row   == <<status, version, due, entered>>
seats == <<player, linked>>
vars  == <<row, seats, pc, seen, pass, link, finish, emitted, failures>>

Statuses == {"open", "countdown", "running", "closed"}
Events   == {"joined", "countdown_started", "countdown_cancelled",
             "countdown_completed", "started", "closed"}
Idle     == [at |-> "idle", version |-> 0, enough |-> FALSE]

TypeOK ==
  /\ status \in Statuses /\ version \in Nat /\ due \in BOOLEAN /\ entered \in Nat
  /\ player \in [Users -> {"none", "joined", "ready", "playing", "finished"}]
  /\ linked \subseteq Users
  /\ pc \in [Calls -> {"new", "read", "counted", "committed", "done", "refused"}]
  /\ seen \in [Calls -> [status : Statuses, version : Nat]]
  /\ pass \in [Passes -> [at : {"idle", "selected", "reread", "counted", "committed"},
                          version : Nat, enough : BOOLEAN]]
  /\ link \in [Users -> {"none", "received", "linked", "done"}]
  /\ finish \in [Users -> {"none", "checked", "done", "failed"}]
  /\ emitted \in [Events -> Nat]
  /\ failures \in 0 .. MaxFailures

(* createInstance: the room is open and its host is seated, in one transaction. *)
Init ==
  /\ status = "open" /\ version = 1 /\ due = FALSE /\ entered = 0
  /\ player = [u \in Users |-> IF u = Host THEN "joined" ELSE "none"]
  /\ linked = {}
  /\ pc = [c \in Calls |-> "new"]
  /\ seen = [c \in Calls |-> [status |-> "open", version |-> 1]]
  /\ pass = [p \in Passes |-> Idle]
  /\ link = [u \in Users |-> "none"]
  /\ finish = [u \in Users |-> "none"]
  /\ emitted = [e \in Events |-> 0]
  /\ failures = 0

countPlayers == Cardinality({u \in Users : player[u] = "joined"})
Enough       == countPlayers >= MinPlayers

(* Mutant: the update does not compare the version. *)
UpdateUnversioned(expectedVersion, next) ==
  /\ status' = next /\ version' = version + 1 /\ due' = FALSE
  /\ entered' = entered + (IF next = "countdown" THEN 1 ELSE 0)

(* UPDATE ... WHERE version = expectedVersion; every caller also sets
   countdown_started_at, to now or to null. *)
updateInstanceStatus(expectedVersion, next) ==
  /\ version = expectedVersion
  /\ status' = next /\ version' = version + 1 /\ due' = FALSE
  /\ entered' = entered + (IF next = "countdown" THEN 1 ELSE 0)

Emit(kinds) ==
  emitted' = [e \in Events |-> emitted[e] + (IF e \in kinds THEN 1 ELSE 0)]

-----------------------------------------------------------------------------
(* Calls. *)

(* The status a kind of call needs, and the one it writes. *)
Allowed(kind) ==
  CASE kind \in {"join", "countdown"} -> {"open"}
    [] kind \in {"cancel", "start"}   -> {"countdown"}
    [] kind = "close"                 -> Statuses \ {"closed"}

(* Mutant: a start writes a status the column does not know. *)
TargetAsDocumented(kind) ==
  CASE kind = "countdown" -> "countdown"
    [] kind = "cancel"    -> "open"
    [] kind = "start"     -> "started"
    [] kind = "close"     -> "closed"
    [] kind = "join"      -> "open"

Target(kind) ==
  CASE kind = "countdown" -> "countdown"
    [] kind = "cancel"    -> "open"
    [] kind = "start"     -> "running"
    [] kind = "close"     -> "closed"
    [] kind = "join"      -> "open"

Admitted(c) ==
  /\ KindOf[c] # "join" => UserOf[c] = Host
  /\ status \in Allowed(KindOf[c])

Read(c) ==
  /\ pc[c] = "new"
  /\ pc' = [pc EXCEPT ![c] = IF Admitted(c) THEN "read" ELSE "refused"]
  /\ seen' = [seen EXCEPT ![c] = [status |-> status, version |-> version]]
  /\ UNCHANGED <<row, seats, pass, link, finish, emitted, failures>>

CountForStart(c) ==
  /\ pc[c] = "read" /\ KindOf[c] = "start"
  /\ pc' = [pc EXCEPT ![c] = IF Enough THEN "counted" ELSE "refused"]
  /\ UNCHANGED <<row, seats, seen, pass, link, finish, emitted, failures>>

ReadyToCommit(c) ==
  /\ KindOf[c] # "join"
  /\ pc[c] = IF KindOf[c] = "start" THEN "counted" ELSE "read"

Commit(c) ==
  /\ ReadyToCommit(c)
  /\ updateInstanceStatus(seen[c].version, Target(KindOf[c]))
  /\ pc' = [pc EXCEPT ![c] = "committed"]
  /\ UNCHANGED <<seats, seen, pass, link, finish, emitted, failures>>

(* InstanceOptimisticLockError: the row is read again only to choose the error. *)
LoseLock(c) ==
  /\ ReadyToCommit(c) /\ version # seen[c].version
  /\ pc' = [pc EXCEPT ![c] = "refused"]
  /\ UNCHANGED <<row, seats, seen, pass, link, finish, emitted, failures>>

(* Mutant: the capacity check is off by one. *)
FullByOne == MaxPlayers # NoLimit /\ countPlayers > MaxPlayers

(* joinInstanceAtomic, under the lock on the instance row. *)
Full == MaxPlayers # NoLimit /\ countPlayers >= MaxPlayers

joinInstanceAtomic(c) ==
  /\ pc[c] = "read" /\ KindOf[c] = "join"
  /\ IF player[UserOf[c]] # "none" \/ Full
       THEN /\ pc' = [pc EXCEPT ![c] = "refused"]
            /\ UNCHANGED player
       ELSE /\ pc' = [pc EXCEPT ![c] = "committed"]
            /\ player' = [player EXCEPT ![UserOf[c]] = "joined"]
  /\ UNCHANGED <<row, linked, seen, pass, link, finish, emitted, failures>>

EventsOf(c) ==
  CASE KindOf[c] = "join"      -> {"joined"}
    [] KindOf[c] = "countdown" -> {"countdown_started"}
    [] KindOf[c] = "cancel"    -> {"countdown_cancelled"}
    [] KindOf[c] = "start"     -> {"started"}
    [] KindOf[c] = "close"     -> {"closed"} \cup
         (IF seen[c].status = "countdown" THEN {"countdown_cancelled"} ELSE {})

Announce(c) ==
  /\ pc[c] = "committed"
  /\ Emit(EventsOf(c))
  /\ pc' = [pc EXCEPT ![c] = "done"]
  /\ UNCHANGED <<row, seats, seen, pass, link, finish, failures>>

(* A database error or a restart ends a call; the events are in memory only. *)
FailCall(c) ==
  /\ pc[c] \in {"read", "counted", "committed"} /\ failures < MaxFailures
  /\ pc' = [pc EXCEPT ![c] = "refused"]
  /\ failures' = failures + 1
  /\ UNCHANGED <<row, seats, seen, pass, link, finish, emitted>>

-----------------------------------------------------------------------------
(* The scheduler: SELECT the due countdowns, then completeCountdownByScheduler
   with the version the SELECT returned. *)

Elapse ==
  /\ status = "countdown" /\ ~due /\ due' = TRUE
  /\ UNCHANGED <<status, version, entered, seats, pc, seen, pass, link, finish, emitted, failures>>

findDueCountdowns(p) ==
  /\ pass[p].at = "idle" /\ status = "countdown" /\ due
  /\ pass' = [pass EXCEPT ![p] = [at |-> "selected", version |-> version, enough |-> FALSE]]
  /\ UNCHANGED <<row, seats, pc, seen, link, finish, emitted, failures>>

(* Mutant: the version is taken from the second read. *)
RereadKeepsFresh(p) ==
  /\ pass[p].at = "selected"
  /\ pass' = [pass EXCEPT ![p] = IF status = "countdown"
                                   THEN [@ EXCEPT !.at = "reread", !.version = version] ELSE Idle]
  /\ UNCHANGED <<row, seats, pc, seen, link, finish, emitted, failures>>

Reread(p) ==
  /\ pass[p].at = "selected"
  /\ pass' = [pass EXCEPT ![p] = IF status = "countdown" THEN [@ EXCEPT !.at = "reread"] ELSE Idle]
  /\ UNCHANGED <<row, seats, pc, seen, link, finish, emitted, failures>>

CountForPass(p) ==
  /\ pass[p].at = "reread"
  /\ pass' = [pass EXCEPT ![p].at = "counted", ![p].enough = Enough]
  /\ UNCHANGED <<row, seats, pc, seen, link, finish, emitted, failures>>

(* Mutant: a room without enough players is not reopened. *)
CompleteOnly(p) ==
  /\ pass[p].at = "counted" /\ pass[p].enough
  /\ updateInstanceStatus(pass[p].version, "running")
  /\ pass' = [pass EXCEPT ![p].at = "committed"]
  /\ UNCHANGED <<seats, pc, seen, link, finish, emitted, failures>>

CompleteOrReopen(p) ==
  /\ pass[p].at = "counted"
  /\ updateInstanceStatus(pass[p].version, IF pass[p].enough THEN "running" ELSE "open")
  /\ pass' = [pass EXCEPT ![p].at = "committed"]
  /\ UNCHANGED <<seats, pc, seen, link, finish, emitted, failures>>

LoseLockPass(p) ==
  /\ pass[p].at = "counted" /\ version # pass[p].version
  /\ pass' = [pass EXCEPT ![p] = Idle]
  /\ UNCHANGED <<row, seats, pc, seen, link, finish, emitted, failures>>

NewsOf(p) == IF pass[p].enough THEN {"countdown_completed", "started"} ELSE {"countdown_cancelled"}

AnnouncePass(p) ==
  /\ pass[p].at = "committed"
  /\ Emit(NewsOf(p))
  /\ pass' = [pass EXCEPT ![p] = Idle]
  /\ UNCHANGED <<row, seats, pc, seen, link, finish, failures>>

FailPass(p) ==
  /\ pass[p].at # "idle" /\ failures < MaxFailures
  /\ pass' = [pass EXCEPT ![p] = Idle]
  /\ failures' = failures + 1
  /\ UNCHANGED <<row, seats, pc, seen, link, finish, emitted>>

-----------------------------------------------------------------------------
(* The listener on attempt events.  Neither handler is awaited, and neither
   looks at the status the row has: the transitions they assert are constants.
   An UPDATE of a row that does not exist changes nothing. *)

Seat(u, s) == player' = IF player[u] = "none" THEN player ELSE [player EXCEPT ![u] = s]

handleAttemptStarted(u) ==
  /\ link[u] = "none"
  /\ link' = [link EXCEPT ![u] = "received"]
  /\ UNCHANGED <<row, seats, pc, seen, pass, finish, emitted, failures>>

linkAttemptToPlayer(u) ==
  /\ link[u] = "received"
  /\ Seat(u, "ready")
  /\ linked' = IF player[u] = "none" THEN linked ELSE linked \cup {u}
  /\ link' = [link EXCEPT ![u] = "linked"]
  /\ UNCHANGED <<row, pc, seen, pass, finish, emitted, failures>>

MarkPlaying(u) ==
  /\ link[u] = "linked"
  /\ Seat(u, "playing")
  /\ link' = [link EXCEPT ![u] = "done"]
  /\ UNCHANGED <<row, linked, pc, seen, pass, finish, emitted, failures>>

handleAttemptFinished(u) ==
  /\ link[u] # "none" /\ finish[u] = "none"
  /\ finish' = [finish EXCEPT ![u] = IF u \in linked THEN "checked" ELSE "failed"]
  /\ UNCHANGED <<row, seats, pc, seen, pass, link, emitted, failures>>

MarkFinished(u) ==
  /\ finish[u] = "checked"
  /\ Seat(u, "finished")
  /\ finish' = [finish EXCEPT ![u] = "done"]
  /\ UNCHANGED <<row, linked, pc, seen, pass, link, emitted, failures>>

-----------------------------------------------------------------------------
CallStep(c) ==
  \/ Read(c) \/ CountForStart(c) \/ Commit(c) \/ LoseLock(c)
  \/ joinInstanceAtomic(c) \/ Announce(c)

PassStep(p) ==
  \/ findDueCountdowns(p) \/ Reread(p) \/ CountForPass(p)
  \/ CompleteOrReopen(p) \/ LoseLockPass(p) \/ AnnouncePass(p)

PlayerStep(u) ==
  \/ handleAttemptStarted(u) \/ linkAttemptToPlayer(u) \/ MarkPlaying(u)
  \/ handleAttemptFinished(u) \/ MarkFinished(u)

Next ==
  \/ \E c \in Calls : CallStep(c) \/ FailCall(c)
  \/ \E p \in Passes : PassStep(p) \/ FailPass(p)
  \/ \E u \in Users : PlayerStep(u)
  \/ Elapse

(* Time passes, the cron fires every five seconds on each pod and a pass that
   has begun is run to its end unless it fails. *)
Spec == Init /\ [][Next]_vars

Fairness == WF_vars(Elapse) /\ \A p \in Passes : WF_vars(PassStep(p))

-----------------------------------------------------------------------------
Seated == {u \in Users : player[u] # "none"}

(* However joins interleave, no more players wait for the start (status 'joined')
   than max_players allows: joinInstanceAtomic counts those under the row lock.
   It counts no others, so a player who begins an attempt gives his place to one
   more, and a room may seat more than max_players.  And a room that runs has at
   least MIN_PLAYERS_PER_INSTANCE players, although the players are counted
   before the status is committed and may begin to play in between. *)
SeatsHold ==
  /\ MaxPlayers # NoLimit => countPlayers <= MaxPlayers
  /\ status = "running" => Cardinality(Seated) >= MinPlayers

(* The optimistic lock of updateInstanceStatus: of the host's calls and the
   scheduler's passes that compete, one wins, so the room hears of one start
   and one close, and of at most one end for each countdown. *)
AnnouncedOnce ==
  /\ emitted["started"] <= 1 /\ emitted["closed"] <= 1
  /\ emitted["countdown_cancelled"] + emitted["started"] <= entered

(* What a call and a pass have committed and not yet announced. *)
Owed     == [c \in Calls |-> IF pc[c] = "committed" THEN EventsOf(c) ELSE {}]
OwedLate == [p \in Passes |-> IF pass[p].at = "committed" THEN NewsOf(p) ELSE {}]

Room == INSTANCE InstanceContract WITH
          Requests <- Calls, Timers <- Passes, News <- Events,
          told <- emitted, owed <- Owed, owedLate <- OwedLate

(* Although every call and pass reads the row, decides and commits in separate
   steps, the room changes as if each had decided in one: on the status it then
   has, by a pass only when the countdown's time is up (even if the one it
   selected was cancelled and another one begun), and the room hears of what was
   committed and of nothing else, once or, after a failure, never. *)
KeepsRoom == Room!Spec

(* Every countdown ends: the host stops it, or a pass starts the game or
   reopens the room, whatever passes fail or lose the lock. *)
CountdownEnds == status = "countdown" ~> status # "countdown"
=============================================================================
