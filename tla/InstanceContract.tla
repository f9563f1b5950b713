-------------------------- MODULE InstanceContract --------------------------
(***************************************************************************)
(* What a multiplayer room promises to those who watch it: its status      *)
(* changes in single decisions, each made on the status the room has at    *)
(* that moment, and the room hears of a decision at most once.  Nothing is *)
(* said of reads, versions, lost locks or passes that give up.             *)
(***************************************************************************)
EXTENDS Integers

CONSTANTS Requests, Timers, News   \* News: the kinds of events a room hears

VARIABLES
  status,
  due,       \* the countdown has run its time
  told,      \* how often the room has heard of each kind
  owed,      \* per request: what it has decided and not yet told
  owedLate   \* per timer: the same

roomVars == <<status, due, told, owed, owedLate>>

Init ==
  /\ status = "open" /\ due = FALSE
  /\ told = [e \in News |-> 0]
  /\ owed = [r \in Requests |-> {}] /\ owedLate = [t \in Timers |-> {}]

Turn(from, to) == status = from /\ status' = to /\ due' = FALSE

(* The host's decisions, and what each has to tell. *)
Decide(r, from, to, says) ==
  /\ Turn(from, to) /\ owed[r] = {} /\ owed' = [owed EXCEPT ![r] = says]
  /\ UNCHANGED <<told, owedLate>>

ByHost(r) ==
  \/ Decide(r, "open", "countdown", {"countdown_started"})
  \/ Decide(r, "countdown", "open", {"countdown_cancelled"})
  \/ Decide(r, "countdown", "running", {"started"})
  \/ Decide(r, "countdown", "closed", {"closed", "countdown_cancelled"})
  \/ \E from \in {"open", "running"} : Decide(r, from, "closed", {"closed"})

(* Time decides only when it is up: the game starts or the room reopens. *)
Expire(t, to, says) ==
  /\ due /\ Turn("countdown", to) /\ owedLate[t] = {} /\ owedLate' = [owedLate EXCEPT ![t] = says]
  /\ UNCHANGED <<told, owed>>

ByTime(t) ==
  \/ Expire(t, "running", {"countdown_completed", "started"})
  \/ Expire(t, "open", {"countdown_cancelled"})

Elapse ==
  /\ status = "countdown" /\ ~due /\ due' = TRUE
  /\ UNCHANGED <<status, told, owed, owedLate>>

(* Somebody sits down; nothing is promised of the status at that moment. *)
Join(r) ==
  /\ owed[r] = {} /\ owed' = [owed EXCEPT ![r] = {"joined"}]
  /\ UNCHANGED <<status, due, told, owedLate>>

Hear(says) == told' = [e \in News |-> told[e] + (IF e \in says THEN 1 ELSE 0)]

(* What is owed is told, all of it at once, or forgotten in a failure. *)
Pay(r) ==
  /\ owed[r] # {} /\ owed' = [owed EXCEPT ![r] = {}]
  /\ Hear(owed[r]) \/ UNCHANGED told
  /\ UNCHANGED <<status, due, owedLate>>

PayLate(t) ==
  /\ owedLate[t] # {} /\ owedLate' = [owedLate EXCEPT ![t] = {}]
  /\ Hear(owedLate[t]) \/ UNCHANGED told
  /\ UNCHANGED <<status, due, owed>>

Next ==
  \/ \E r \in Requests : ByHost(r) \/ Join(r) \/ Pay(r)
  \/ \E t \in Timers : ByTime(t) \/ PayLate(t)
  \/ Elapse

Spec == Init /\ [][Next]_roomVars
=============================================================================
