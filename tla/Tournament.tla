----------------------------- MODULE Tournament -----------------------------
(***************************************************************************)
(* One tournament: its row, its rounds, its participants and their scores  *)
(* (TournamentService, TournamentLifecycleService, the repositories, the   *)
(* cron jobs and the listener on attempt.completed).  A call reads the row *)
(* and decides, then runs a transaction that locks the row but seldom      *)
(* looks at its status again.  The jobs select what is due, then update    *)
(* the rows one by one; a Redis lock with a TTL keeps passes of one job    *)
(* apart.  Callers are taken to have the permission the call needs.        *)
(***************************************************************************)
EXTENDS Integers, FiniteSets, FiniteSetsExt

CONSTANTS
  Users,
  Rounds,       \* integers, in the order of round_id
  RoundStart,   \* start_at of a round, NoTime for null
  RoundEnd,     \* end_at of a round, NoTime for null
  Calls,
  CallOf,       \* per call: kind, user, round, and the value an update writes
  Passes,
  JobOf,        \* the cron job a pass belongs to
  PageSize,     \* PAGE_SIZE
  Window,       \* half the window of handleRegistrationOpen
  Points,       \* round scores
  Horizon,      \* bound: the last instant
  MaxFailures   \* bound: calls, handlers and passes cut short, locks lost

NoTime  == -1
NoLimit == 0
Kinds   == {"register", "unregister", "withdraw", "reschedule", "resize",
            "delete", "cancel", "addRound", "playRound"}
Jobs    == {"registration-open", "tournament-start", "tournament-finalize",
            "round-open", "round-close", "totals-reconcile"}

ASSUME TournamentAssumption ==
  /\ IsFiniteSet(Users) /\ IsFiniteSet(Rounds) /\ Rounds \subseteq Nat
  /\ RoundStart \in [Rounds -> Nat \cup {NoTime}]
  /\ RoundEnd \in [Rounds -> Nat \cup {NoTime}]
  /\ CallOf \in [Calls -> [kind : Kinds, user : Users, round : Rounds, value : Nat]]
  /\ JobOf \in [Passes -> Jobs]
  /\ PageSize \in Nat \ {0} /\ Window \in Nat /\ Points \subseteq Nat
  /\ Horizon \in Nat /\ MaxFailures \in Nat

VARIABLES
  now,
  status, deleted, startAt, endAt, maxParticipants,   \* the tournaments row
  round,       \* tournament_rounds.status, none before the round is added
  member,      \* tournament_participants.status, none for no row
  total,       \* tournament_participants.total_score
  rank,        \* tournament_participants.rank_final, 0 for null
  recent,      \* members with updated_at > NOW() - INTERVAL '7 days'
  attempts,    \* quiz_attempts made for a user in a round; the first is linked
  score,       \* tournament_round_participants.round_score
  outbox,      \* idempotency keys of the events written
  pc,          \* per call
  scoring,     \* per user and round: the handler of attempt.completed
  pass,        \* per pass: its nowIso, page and the rows it has left to update
  sums,        \* per pass of totals-reconcile: the new totals of the rows that differ
  held,        \* per job: the pass whose token is in Redis, none for no key
  overbooked,  \* observation: an update wrote a limit below the active members
  failures

trow   == <<status, deleted, startAt, endAt, maxParticipants, overbooked>>
people == <<member, total, rank, recent, outbox>>
play   == <<attempts, score, scoring>>
jobs   == <<pass, sums, held>>
vars   == <<now, trow, round, people, play, pc, jobs, failures>>

Statuses == {"upcoming", "registration", "ongoing", "finished", "cancelled"}
NoPass   == "none"
Idle     == [at |-> "idle", now |-> 0, page |-> 0, items |-> {}, full |-> FALSE]
Calm     == [at |-> "none", points |-> 0, sum |-> 0, writes |-> FALSE]

TypeOK ==
  /\ now \in 0 .. Horizon /\ status \in Statuses /\ deleted \in BOOLEAN
  /\ startAt \in Nat /\ endAt \in Nat /\ maxParticipants \in Nat
  /\ round \in [Rounds -> {"none", "pending", "open", "finished"}]
  /\ member \in [Users -> {"none", "active", "withdrawn", "completed"}]
  /\ total \in [Users -> Nat] /\ rank \in [Users -> Nat] /\ recent \subseteq Users
  /\ attempts \in [Users \X Rounds -> Nat] /\ score \in [Users \X Rounds -> Nat]
  /\ outbox \subseteq {"joined", "withdrawn", "starting_soon", "completed", "won"} \X Users
  /\ pc \in [Calls -> {"new", "read", "reread", "done", "refused"}]
  /\ scoring \in [Users \X Rounds -> [at : {"none", "aggregated", "done"},
                                      points : Nat, sum : Nat, writes : BOOLEAN]]
  /\ pass \in [Passes -> [at : {"idle", "selected"}, now : 0 .. Horizon, page : Nat,
                          items : SUBSET Rounds, full : BOOLEAN]]
  /\ \A p \in Passes : \E S \in SUBSET Users : sums[p] \in [S -> Nat]
  /\ held \in [Jobs -> Passes \cup {NoPass}]
  /\ overbooked \in BOOLEAN /\ failures \in 0 .. MaxFailures

Active == {u \in Users : member[u] = "active"}

(* createTournament writes upcoming.  That status is never left (see
   RegistrationOpens), so the later ones are those the seed writes: registration
   with rounds to come, ongoing with open and finished with finished ones.
   Nobody has played yet; who has registered fits into the limit. *)
Init ==
  /\ now = 0 /\ status \in Statuses /\ deleted = FALSE
  /\ startAt \in 0 .. Horizon /\ endAt \in 1 .. Horizon + 2 /\ startAt < endAt
  /\ round \in [Rounds -> {"none", "pending", "open", "finished"}]
  /\ status \in {"upcoming", "registration"} => \A r \in Rounds : round[r] \in {"none", "pending"}
  /\ member \in [Users -> {"none", "active"}]
  /\ status = "upcoming" => Active = {}
  /\ maxParticipants \in 0 .. Cardinality(Users)
  /\ maxParticipants # NoLimit => Cardinality(Active) <= maxParticipants
  /\ total = [u \in Users |-> 0] /\ rank = [u \in Users |-> 0]
  /\ recent \in SUBSET Active
  /\ attempts = [x \in Users \X Rounds |-> 0]
  /\ score = [x \in Users \X Rounds |-> 0]
  /\ outbox = {"joined"} \X Active
  /\ scoring = [x \in Users \X Rounds |-> Calm]
  /\ pc \in [Calls -> {"new", "refused"}]    \* refused: the call is not made
  /\ pass = [p \in Passes |-> Idle]
  /\ sums = [p \in Passes |-> [u \in {} |-> 0]]
  /\ held = [j \in Jobs |-> NoPass]
  /\ overbooked = FALSE /\ failures = 0

(* SUM(round_score) of a participant, over the committed rows and one more. *)
SumWith(u, r, points) ==
  points + MapThenSumSet(LAMBDA q : score[<<u, q>>], Rounds \ {r})
Sum(u) == MapThenSumSet(LAMBDA q : score[<<u, q>>], Rounds)

-----------------------------------------------------------------------------
(* Calls. *)

Tick ==
  /\ now < Horizon /\ now' = now + 1
  /\ UNCHANGED <<trow, round, people, play, pc, jobs, failures>>

Kind(c) == CallOf[c].kind
User(c) == CallOf[c].user
Round(c) == CallOf[c].round

(* What the service checks on the rows it has read, before any transaction. *)
mayRegister == status = "registration" /\ startAt > now
mayUnregister == status = "registration"
mayWithdraw == status = "ongoing"
mayUpdate(c) ==
  /\ status \in {"upcoming", "registration"}
  /\ Kind(c) = "reschedule" => endAt > CallOf[c].value
  /\ Kind(c) = "resize" => \/ NoLimit \in {maxParticipants, CallOf[c].value}
                           \/ CallOf[c].value >= maxParticipants
mayDelete == status \in {"upcoming", "registration"}
canCancelTournament == status \in {"upcoming", "registration"}
mayAddRound(c) ==
  /\ status \in {"upcoming", "registration"}
  /\ RoundStart[Round(c)] # NoTime => RoundStart[Round(c)] >= startAt
  /\ RoundEnd[Round(c)] # NoTime => RoundEnd[Round(c)] <= endAt
mayPlay(c) == round[Round(c)] = "open" /\ User(c) \in Active

Admitted(c) ==
  /\ ~deleted
  /\ CASE Kind(c) = "register"   -> mayRegister
       [] Kind(c) = "unregister" -> mayUnregister
       [] Kind(c) = "withdraw"   -> mayWithdraw
       [] Kind(c) \in {"reschedule", "resize"} -> mayUpdate(c)
       [] Kind(c) = "delete"     -> mayDelete
       [] Kind(c) = "cancel"     -> canCancelTournament
       [] Kind(c) = "addRound"   -> mayAddRound(c)
       [] Kind(c) = "playRound"  -> mayPlay(c)

Read(c) ==
  /\ pc[c] = "new"
  /\ pc' = [pc EXCEPT ![c] = IF Admitted(c) THEN "read" ELSE "refused"]
  /\ UNCHANGED <<now, trow, round, people, play, jobs, failures>>

(* The transaction of a call ends it; one that finds nothing to do refuses. *)
Ends(c, done) == pc' = [pc EXCEPT ![c] = IF done THEN "done" ELSE "refused"]

(* Mutant: the capacity check is off by one. *)
FullByOne == maxParticipants # NoLimit /\ Cardinality(Active) > maxParticipants

(* atomicRegister: the count includes every active member, the caller too. *)
Full == maxParticipants # NoLimit /\ Cardinality(Active) >= maxParticipants

atomicRegister(c) ==
  /\ pc[c] = "read" /\ Kind(c) = "register"
  /\ LET u == User(c)
         seated == ~deleted /\ ~Full /\ member[u] \in {"none", "withdrawn"}
     IN  /\ Ends(c, seated)
         /\ member' = IF seated THEN [member EXCEPT ![u] = "active"] ELSE member
         /\ recent' = IF seated THEN recent \cup {u} ELSE recent
         /\ outbox' = IF seated /\ member[u] = "none" THEN outbox \cup {<<"joined", u>>} ELSE outbox
  /\ UNCHANGED <<now, trow, round, total, rank, play, jobs, failures>>

(* The second withdrawal of one user meets the key of the first. *)
atomicWithdraw(c) ==
  /\ pc[c] = "read" /\ Kind(c) \in {"unregister", "withdraw"}
  /\ LET u == User(c)
         leaves == ~deleted /\ u \in Active
     IN  /\ Ends(c, leaves)
         /\ member' = IF leaves THEN [member EXCEPT ![u] = "withdrawn"] ELSE member
         /\ recent' = IF leaves THEN recent \cup {u} ELSE recent
         /\ outbox' = IF leaves THEN outbox \cup {<<"withdrawn", u>>} ELSE outbox
  /\ UNCHANGED <<now, trow, round, total, rank, play, jobs, failures>>

(* UPDATE by id; the status is not part of the condition. *)
updateTournament(c) ==
  /\ pc[c] = "read" /\ Kind(c) \in {"reschedule", "resize"}
  /\ Ends(c, ~deleted)
  /\ startAt' = IF Kind(c) = "reschedule" /\ ~deleted THEN CallOf[c].value ELSE startAt
  /\ maxParticipants' = IF Kind(c) = "resize" /\ ~deleted THEN CallOf[c].value ELSE maxParticipants
  /\ overbooked' = (overbooked \/ (/\ maxParticipants' # NoLimit
                                  /\ Cardinality(Active) > maxParticipants'))
  /\ UNCHANGED <<now, status, deleted, endAt, round, people, play, jobs, failures>>

softDeleteTournament(c) ==
  /\ pc[c] = "read" /\ Kind(c) = "delete"
  /\ Ends(c, ~deleted)
  /\ deleted' = TRUE
  /\ UNCHANGED <<now, status, startAt, endAt, maxParticipants, overbooked, round, people, play, jobs, failures>>

(* cancelTournament of the repository reads the row a second time ... *)
RereadForCancel(c) ==
  /\ pc[c] = "read" /\ Kind(c) = "cancel"
  /\ pc' = [pc EXCEPT ![c] = CASE deleted \/ status = "finished" -> "refused"
                               [] ~deleted /\ status = "cancelled" -> "done"
                               [] OTHER -> "reread"]
  /\ UNCHANGED <<now, trow, round, people, play, jobs, failures>>

(* ... and then updates it by id. *)
cancelTournament(c) ==
  /\ pc[c] = "reread"
  /\ Ends(c, ~deleted)
  /\ status' = IF deleted THEN status ELSE "cancelled"
  /\ UNCHANGED <<now, deleted, startAt, endAt, maxParticipants, overbooked, round, people, play, jobs, failures>>

createRound(c) ==
  /\ pc[c] = "read" /\ Kind(c) = "addRound"
  /\ LET added == ~deleted /\ round[Round(c)] = "none"
     IN  /\ Ends(c, added)
         /\ round' = IF added THEN [round EXCEPT ![Round(c)] = "pending"] ELSE round
  /\ UNCHANGED <<now, trow, people, play, jobs, failures>>

(* The row of the user in the round is inserted or locked; an attempt that is
   already linked is returned. *)
startRoundAttemptTx(c) ==
  /\ pc[c] = "read" /\ Kind(c) = "playRound"
  /\ Ends(c, TRUE)
  /\ attempts' = [attempts EXCEPT ![<<User(c), Round(c)>>] = IF @ = 0 THEN 1 ELSE @]
  /\ UNCHANGED <<now, trow, round, people, score, scoring, jobs, failures>>

(* A database error or a restart; the transaction leaves nothing behind. *)
FailCall(c) ==
  /\ pc[c] \in {"read", "reread"} /\ failures < MaxFailures
  /\ Ends(c, FALSE)
  /\ failures' = failures + 1
  /\ UNCHANGED <<now, trow, round, people, play, jobs>>

-----------------------------------------------------------------------------
(* The listener on attempt.completed.  One transaction writes the round score
   and then the total from what its statement sees: its own row, and the rows
   other transactions have committed.  It looks at no status.  An error is
   logged and the event is not delivered again. *)

handleAttemptCompleted(x) ==
  LET u == x[1] IN
  /\ attempts[x] > 0 /\ scoring[x].at = "none"
  /\ \E points \in Points :
       LET sum == SumWith(u, x[2], points)
       IN  scoring' = [scoring EXCEPT ![x] = [at |-> "aggregated", points |-> points,
                                              sum |-> sum, writes |-> total[u] # sum]]
  /\ UNCHANGED <<now, trow, round, people, attempts, score, pc, jobs, failures>>

recalculateParticipantTotals(x) ==
  LET u == x[1] IN
  /\ scoring[x].at = "aggregated"
  /\ score' = [score EXCEPT ![x] = scoring[x].points]
  /\ total' = IF scoring[x].writes THEN [total EXCEPT ![u] = scoring[x].sum] ELSE total
  /\ recent' = IF scoring[x].writes THEN recent \cup {u} ELSE recent
  /\ scoring' = [scoring EXCEPT ![x] = [Calm EXCEPT !.at = "done"]]
  /\ UNCHANGED <<now, trow, round, member, rank, outbox, attempts, pc, jobs, failures>>

FailScoring(x) ==
  /\ scoring[x].at = "aggregated" /\ failures < MaxFailures
  /\ scoring' = [scoring EXCEPT ![x] = [Calm EXCEPT !.at = "done"]]
  /\ failures' = failures + 1
  /\ UNCHANGED <<now, trow, round, people, attempts, score, pc, jobs>>

-----------------------------------------------------------------------------
(* The cron jobs.  A pass takes the lock of its job and selects; a selection
   that is empty changes nothing and is left out. *)

(* ORDER BY the due time, then round_id; one page of it. *)
Before(at, q, r) == at[q] < at[r] \/ (at[q] = at[r] /\ q < r)
PageOf(S, at, page) ==
  {r \in S : Cardinality({q \in S : Before(at, q, r)}) \in
               (page - 1) * PageSize .. page * PageSize - 1}

(* Mutant: only rounds that began within the window are due. *)
OpensInWindow(t) ==
  {r \in Rounds : /\ round[r] = "pending" /\ RoundStart[r] # NoTime
                  /\ RoundStart[r] \in t - Window .. t
                  /\ status = "ongoing" /\ ~deleted}

listDueRoundOpens(t) ==
  {r \in Rounds : /\ round[r] = "pending" /\ RoundStart[r] # NoTime /\ RoundStart[r] <= t
                  /\ status = "ongoing" /\ ~deleted}
listDueRoundCloses(t) ==
  {r \in Rounds : round[r] = "open" /\ RoundEnd[r] # NoTime /\ RoundEnd[r] <= t}

DuePage(j, t, page) ==
  IF j = "round-open" THEN PageOf(listDueRoundOpens(t), RoundStart, page)
                      ELSE PageOf(listDueRoundCloses(t), RoundEnd, page)

(* What the reconciliation sees: rows written in the last seven days. *)
Drifted == {u \in recent : total[u] # Sum(u)}

(* Whether the SELECT of a job finds something.  That of tournament-finalize
   asks for finished tournaments. *)
Finds(j) ==
  CASE j = "registration-open"   -> ~deleted /\ status = "upcoming" /\ startAt \in now - Window .. now + Window
    [] j = "tournament-start"    -> ~deleted /\ status = "registration" /\ startAt <= now
    [] j = "tournament-finalize" -> ~deleted /\ status = "finished" /\ endAt < now
    [] j = "totals-reconcile"    -> Drifted # {}
    [] OTHER                     -> DuePage(j, now, 1) # {}

RoundJob(j) == j \in {"round-open", "round-close"}

Select(p) ==
  LET j == JobOf[p] IN
  /\ pass[p].at = "idle" /\ held[j] = NoPass /\ Finds(j)
  /\ held' = [held EXCEPT ![j] = p]
  /\ LET items == IF RoundJob(j) THEN DuePage(j, now, 1) ELSE {}
     IN  pass' = [pass EXCEPT ![p] = [at |-> "selected", now |-> now, page |-> 1, items |-> items,
                                      full |-> Cardinality(items) = PageSize]]
  /\ sums' = IF j = "totals-reconcile" THEN [sums EXCEPT ![p] = [u \in Drifted |-> Sum(u)]] ELSE sums
  /\ UNCHANGED <<now, trow, round, people, play, pc, failures>>

(* releaseAdvisoryLock compares the token. *)
Release(p) ==
  /\ pass' = [pass EXCEPT ![p] = Idle]
  /\ held' = [held EXCEPT ![JobOf[p]] = IF @ = p THEN NoPass ELSE @]

Selected(p, j) == pass[p].at = "selected" /\ JobOf[p] = j

(* Mutant: the status the row has is not compared. *)
MarkUnconditionally(from, to) ==
  status' = IF ~deleted THEN to ELSE status

(* UPDATE ... WHERE status = fromStatus AND deleted_at IS NULL *)
markTournamentStatus(from, to) ==
  status' = IF ~deleted /\ status = from THEN to ELSE status

(* A tournament with no active member is skipped.  One that has members is
   advanced, and the batch of starting_soon events follows; since a member can
   only be had in a later status, the code never gets there, and the two writes
   of that branch are kept as one step. *)
dispatchStartingSoonNotifications(p) ==
  /\ Selected(p, "registration-open")
  /\ IF Active = {} THEN UNCHANGED <<status, outbox>>
     ELSE /\ markTournamentStatus("upcoming", "registration")
          /\ outbox' = IF status' # status THEN outbox \cup ({"starting_soon"} \X Active) ELSE outbox
  /\ Release(p)
  /\ UNCHANGED <<now, deleted, startAt, endAt, maxParticipants, overbooked, round,
                 member, total, rank, recent, play, pc, sums, failures>>

startDueTournaments(p) ==
  /\ Selected(p, "tournament-start")
  /\ markTournamentStatus("registration", "ongoing")
  /\ Release(p)
  /\ UNCHANGED <<now, deleted, startAt, endAt, maxParticipants, overbooked, round,
                 people, play, pc, sums, failures>>

(* ROW_NUMBER over the members that have not withdrawn, by score; time and id
   decide between equal scores. *)
Standing == {u \in Users : member[u] \in {"active", "completed"}}
Rankings ==
  {f \in [Standing -> 1 .. Cardinality(Standing)] :
     \A u, v \in Standing : u # v => f[u] # f[v] /\ (Sum(u) > Sum(v) => f[u] < f[v])}

(* The selected tournament is finished already, so the update of the status
   matches no row and the ranking is never written; one step stands for that
   transaction. *)
finalizeSingleTournament(p) ==
  /\ Selected(p, "tournament-finalize")
  /\ markTournamentStatus("ongoing", "finished")
  /\ IF status' = status THEN UNCHANGED <<member, rank, recent, outbox>>
     ELSE \E f \in Rankings :
          /\ member' = [u \in Users |-> IF u \in Standing THEN "completed" ELSE member[u]]
          /\ rank' = [u \in Users |-> IF u \in Standing THEN f[u] ELSE rank[u]]
          /\ recent' = recent \cup Standing
          /\ outbox' = outbox \cup ({"completed"} \X Standing)
                              \cup ({"won"} \X {u \in Standing : f[u] = 1})
  /\ Release(p)
  /\ UNCHANGED <<now, deleted, startAt, endAt, maxParticipants, overbooked, round,
                 total, play, pc, sums, failures>>

(* Mutant: a round ends in a status the column does not know. *)
MarkRoundClosed(r, from, to) ==
  round' = IF round[r] = from THEN [round EXCEPT ![r] = IF to = "finished" THEN "closed" ELSE to]
                              ELSE round

(* The rounds of a page, in order, each with an UPDATE of its own. *)
markRoundStatus(r, from, to) ==
  round' = IF round[r] = from THEN [round EXCEPT ![r] = to] ELSE round

First(p) ==
  LET at == IF JobOf[p] = "round-open" THEN RoundStart ELSE RoundEnd
  IN  CHOOSE r \in pass[p].items : \A q \in pass[p].items \ {r} : Before(at, r, q)

MarkNextRound(p) ==
  /\ pass[p].at = "selected" /\ pass[p].items # {}
  /\ IF JobOf[p] = "round-open" THEN markRoundStatus(First(p), "pending", "open")
                                ELSE markRoundStatus(First(p), "open", "finished")
  /\ pass' = [pass EXCEPT ![p].items = @ \ {First(p)}]
  /\ UNCHANGED <<now, trow, people, play, pc, sums, held, failures>>

(* After a full page the next one is selected: page + 1 of what is due now. *)
TurnPage(p) ==
  /\ pass[p].at = "selected" /\ RoundJob(JobOf[p]) /\ pass[p].items = {}
  /\ LET items == DuePage(JobOf[p], pass[p].now, pass[p].page + 1)
     IN  IF pass[p].full /\ items # {}
           THEN /\ pass' = [pass EXCEPT ![p].page = @ + 1, ![p].items = items,
                                        ![p].full = Cardinality(items) = PageSize]
                /\ UNCHANGED held
           ELSE Release(p)
  /\ UNCHANGED <<now, trow, round, people, play, pc, sums, failures>>

(* Mutant: only totals that are too large are repaired. *)
ReconcileExcess(p) ==
  /\ Selected(p, "totals-reconcile")
  /\ total' = [u \in Users |-> IF u \in DOMAIN sums[p] /\ total[u] > sums[p][u]
                                 THEN sums[p][u] ELSE total[u]]
  /\ recent' = recent \cup DOMAIN sums[p]
  /\ sums' = [sums EXCEPT ![p] = [u \in {} |-> 0]]
  /\ Release(p)
  /\ UNCHANGED <<now, trow, round, member, rank, outbox, play, pc, failures>>

(* One statement: the rows that differed when it began are written. *)
reconcileAllParticipantTotals(p) ==
  /\ Selected(p, "totals-reconcile")
  /\ total' = [u \in Users |-> IF u \in DOMAIN sums[p] THEN sums[p][u] ELSE total[u]]
  /\ recent' = recent \cup DOMAIN sums[p]
  /\ sums' = [sums EXCEPT ![p] = [u \in {} |-> 0]]
  /\ Release(p)
  /\ UNCHANGED <<now, trow, round, member, rank, outbox, play, pc, failures>>

(* A row has not been written for seven days.  If its total is wrong, seven
   daily passes in a row have failed or found the lock taken: a failure. *)
AgeOut(u) ==
  /\ u \in recent
  /\ total[u] # Sum(u) => failures < MaxFailures
  /\ recent' = recent \ {u}
  /\ failures' = failures + (IF total[u] # Sum(u) THEN 1 ELSE 0)
  /\ UNCHANGED <<now, trow, round, member, total, rank, outbox, play, pc, jobs>>

(* The TTL of a lock passes; while its pass is still at work, a failure. *)
ExpireLock(j) ==
  /\ held[j] # NoPass
  /\ pass[held[j]].at = "selected" => failures < MaxFailures
  /\ held' = [held EXCEPT ![j] = NoPass]
  /\ failures' = failures + (IF pass[held[j]].at = "selected" THEN 1 ELSE 0)
  /\ UNCHANGED <<now, trow, round, people, play, pc, pass, sums>>

(* An error ends a pass and releases the lock; a crash leaves it to its TTL. *)
FailPass(p) ==
  /\ pass[p].at = "selected" /\ failures < MaxFailures
  /\ \/ Release(p)
     \/ pass' = [pass EXCEPT ![p] = Idle] /\ UNCHANGED held
  /\ failures' = failures + 1
  /\ UNCHANGED <<now, trow, round, people, play, pc, sums>>

-----------------------------------------------------------------------------
CallStep(c) ==
  \/ Read(c) \/ atomicRegister(c) \/ atomicWithdraw(c) \/ updateTournament(c)
  \/ softDeleteTournament(c) \/ RereadForCancel(c) \/ cancelTournament(c)
  \/ createRound(c) \/ startRoundAttemptTx(c)

PassStep(p) ==
  \/ Select(p) \/ dispatchStartingSoonNotifications(p) \/ startDueTournaments(p)
  \/ finalizeSingleTournament(p) \/ MarkNextRound(p) \/ TurnPage(p)
  \/ reconcileAllParticipantTotals(p)

Next ==
  \/ Tick
  \/ \E c \in Calls : CallStep(c) \/ FailCall(c)
  \/ \E x \in Users \X Rounds :
       handleAttemptCompleted(x) \/ recalculateParticipantTotals(x) \/ FailScoring(x)
  \/ \E p \in Passes : PassStep(p) \/ FailPass(p)
  \/ \E j \in Jobs : ExpireLock(j)
  \/ \E u \in Users : AgeOut(u)

Spec == Init /\ [][Next]_vars

(* Time passes, locks expire, the cron of every job keeps firing and a pass or
   a handler that has begun goes on unless it fails. *)
Fairness ==
  /\ WF_vars(Tick)
  /\ WF_vars(\E j \in Jobs : ExpireLock(j))
  /\ \A p \in Passes : WF_vars(PassStep(p))
  /\ WF_vars(\E x \in Users \X Rounds : recalculateParticipantTotals(x))

-----------------------------------------------------------------------------
(* However registrations, withdrawals and changes of the limit interleave, the
   active members stay within max_participants (unless an update itself wrote a
   limit below their number), and a member gets one attempt in a round although
   two requests may both have found the round open. *)
SeatsHold ==
  /\ maxParticipants # NoLimit /\ ~overbooked => Cardinality(Active) <= maxParticipants
  /\ \A x \in Users \X Rounds : attempts[x] <= 1

(* The status only moves forward, and nothing brings a finished, cancelled or
   deleted tournament back: a pass that selected the tournament before it was
   cancelled, deleted or advanced by another pass does not write its status, and
   a cancellation that read it earlier never meets a finished one.  An ongoing
   one it does meet: it was admitted during registration, the start came in
   between, and the last write asks for no status.  A round is opened once and
   closed once, whatever has become of its tournament since it was selected. *)
MovesForward ==
  [][ /\ status' # status =>
           /\ ~deleted
           /\ <<status, status'>> \in {<<"upcoming", "registration">>, <<"registration", "ongoing">>,
                                       <<"ongoing", "finished">>}
                \cup ({"upcoming", "registration", "ongoing"} \X {"cancelled"})
      /\ \A r \in Rounds : round'[r] # round[r] =>
           <<round[r], round'[r]>> \in {<<"none", "pending">>, <<"pending", "open">>,
                                        <<"open", "finished">>}]_vars

(* Every due round of an ongoing tournament is opened, and every round past its
   end is closed, although each page of a pass is numbered in a selection that
   the pass itself shrinks, and although passes fail and locks outlive them. *)
RoundsRun ==
  \A r \in Rounds :
    /\ (round[r] = "pending" /\ RoundStart[r] \in 0 .. now)
         ~> (round[r] # "pending" \/ status # "ongoing" \/ deleted)
    /\ (round[r] = "open" /\ RoundEnd[r] \in 0 .. now) ~> (round[r] = "finished")

(* Two results of one member that are recorded at the same time each compute
   the total without the other.  The reconciliation repairs every such total,
   unless it fails for the seven days in which it looks at the row: a total that
   is wrong for ever belongs to a row that was not written since, and takes a
   failure. *)
TotalsHeal ==
  <>[](\A u \in Users : total[u] # Sum(u) => u \notin recent /\ failures > 0)

(* docs/modules/tournament.md, lifecycle: upcoming becomes registration through
   advanceTournamentToRegistration, run by the scheduler. *)
RegistrationOpens == (status = "upcoming") ~> (status # "upcoming")
=============================================================================
