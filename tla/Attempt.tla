------------------------------ MODULE Attempt ------------------------------
(***************************************************************************)
(* Quiz attempts: AttemptCommandService and the two attempt repositories.  *)
(* A call checks the attempt, reads what it needs and then writes; other   *)
(* calls run in between.  The transaction of a completion is two steps:    *)
(* Close, where its UPDATE finds the attempt started and the locks on the  *)
(* attempt and on the quiz_stats row are taken, and Commit.  The daily     *)
(* reconciliation of quiz_stats reads and writes in two statements.        *)
(***************************************************************************)
EXTENDS Integers, FiniteSets

CONSTANTS
  Attempts, Users, Quizzes, Questions, Admins,
  OwnerOf, QuizOf,        \* of an attempt (one version per quiz)
  Calls,                  \* invocations of the command service
  KindOf, AttemptOf,      \* what a call does, to which attempt
  CallerOf,               \* user.sub
  QuestionOf, AnswerOf,   \* of submit and withdraw calls
  PassingScore,           \* passingScorePercent of every quiz
  Unrewarded,             \* quizzes of which rewardXp is 0
  Milestones,             \* QUIZ_COMPLETION_MILESTONES
  MaxDay                  \* bound: days that pass

Kinds   == {"start", "submit", "withdraw", "abandon", "complete"}
Answers == {"skipped", "right", "wrong"}    \* skipped: selectedOptionId is null

ASSUME AttemptAssumption ==
  /\ IsFiniteSet(Attempts) /\ IsFiniteSet(Questions)
  /\ OwnerOf \in [Attempts -> Users] /\ QuizOf \in [Attempts -> Quizzes]
  /\ KindOf \in [Calls -> Kinds] /\ AttemptOf \in [Calls -> Attempts]
  /\ CallerOf \in [Calls -> Users \cup Admins]
  /\ \A c \in Calls : KindOf[c] = "start" => CallerOf[c] = OwnerOf[AttemptOf[c]]
  /\ QuestionOf \in [Calls -> Questions] /\ AnswerOf \in [Calls -> Answers]
  /\ PassingScore \in 0 .. 100 /\ Unrewarded \subseteq Quizzes
  /\ Milestones \subseteq Nat /\ MaxDay \in Nat \ {0}

VARIABLES
  status,     \* per attempt, none before the row is created
  answers,    \* per attempt and question, none for no row
  score,      \* scorePercent in hundredths
  finished,   \* UTC day of finishedAt, 0 for null
  closings,   \* attempt.completed and attempt.abandoned rows of an attempt
  xpRows,     \* attempt.xp_to_publish rows of an attempt
  total,      \* quiz_stats.total_attempts
  streak,     \* users.current_streak, longest_streak, last_streak_day (0: null)
  emitted,    \* <<user, milestone>>: quiz.milestone events
  pc,         \* per call, its last step, see Labels
  day,        \* per call, the day of its clock
  mark,       \* per call, the score it computed
  pre,        \* per call, preCompletionCount
  was,        \* per call, the users row its streak statement reads
  recount,    \* per quiz, the count a reconciliation has read, -1 for none
  today,
  raced       \* observation: attempts answered or withdrawn from while a
              \* completion was under way, or after the attempt was finished

Labels == {"new", "checked", "scored", "counted", "closed", "committed", "done", "refused"}

table == <<status, answers, score, finished, closings, xpRows>>
calls == <<pc, day, mark, pre, was>>
vars  == <<table, total, streak, emitted, calls, recount, today, raced>>

NoStreak == [current |-> 0, longest |-> 0, last |-> 0]
Streaks  == [current : Nat, longest : Nat, last : 0 .. MaxDay]

FullScore == 10000    \* 100.00 percent

TableTyped ==
  /\ status \in [Attempts -> {"none", "started", "completed", "abandoned"}]
  /\ answers \in [Attempts -> [Questions -> Answers \cup {"none"}]]
  /\ score \in [Attempts -> 0 .. FullScore]
  /\ finished \in [Attempts -> 0 .. MaxDay]
  /\ closings \in [Attempts -> Nat] /\ xpRows \in [Attempts -> Nat]

CallsTyped ==
  /\ pc \in [Calls -> Labels]
  /\ day \in [Calls -> 0 .. MaxDay]
  /\ mark \in [Calls -> 0 .. FullScore]
  /\ pre \in [Calls -> Nat]
  /\ was \in [Calls -> Streaks]

RestTyped ==
  /\ total \in [Quizzes -> Nat]
  /\ streak \in [Users -> Streaks]
  /\ emitted \subseteq Users \X Milestones
  /\ recount \in [Quizzes -> Nat \cup {-1}]
  /\ today \in 1 .. MaxDay
  /\ raced \subseteq Attempts

TypeOK == TableTyped /\ CallsTyped /\ RestTyped

Init ==
  /\ status = [a \in Attempts |-> "none"]
  /\ answers = [a \in Attempts |-> [q \in Questions |-> "none"]]
  /\ score = [a \in Attempts |-> 0]
  /\ finished = [a \in Attempts |-> 0]
  /\ closings = [a \in Attempts |-> 0] /\ xpRows = [a \in Attempts |-> 0]
  /\ total = [z \in Quizzes |-> 0]
  /\ streak = [u \in Users |-> NoStreak]
  /\ emitted = {}
  /\ pc = [c \in Calls |-> "new"]
  /\ day = [c \in Calls |-> 0] /\ mark = [c \in Calls |-> 0] /\ pre = [c \in Calls |-> 0]
  /\ was = [c \in Calls |-> NoStreak]
  /\ recount = [z \in Quizzes |-> -1]
  /\ today = 1
  /\ raced = {}

-----------------------------------------------------------------------------
(* What the calls read and compute.                                        *)

Active(u, z) == {a \in Attempts : OwnerOf[a] = u /\ QuizOf[a] = z /\ status[a] = "started"}

Completed(S) == {a \in S : status[a] = "completed"}
OfUser(u) == {a \in Attempts : OwnerOf[a] = u}
OfQuiz(z) == {a \in Attempts : QuizOf[a] = z}

Allowed(c) == CallerOf[c] = OwnerOf[AttemptOf[c]] \/ CallerOf[c] \in Admins

Count(a, S) == Cardinality({q \in Questions : answers[a][q] \in S})

(* Mutant: right answers are divided by the wrong ones. *)
CalculateRatio(correct, answered) ==
  IF answered = 0 THEN 0 ELSE (10000 * correct) \div (1 + answered - correct)

(* toFixed(2) of right / answered * 100: an answer without an option has no
   row in the join and is not counted.                                      *)
CalculateScorePercent(correct, answered) ==
  IF answered = 0 THEN 0 ELSE (20000 * correct + answered) \div (2 * answered)

(* calculateXpEarned is not 0. *)
EarnsXp(a, percent) == percent >= 100 * PassingScore /\ QuizOf[a] \notin Unrewarded

(* A completion of a or of another attempt at its quiz holds the locks. *)
StatsLocked(z) == \E c \in Calls : pc[c] = "closed" /\ QuizOf[AttemptOf[c]] = z
RowLocked(a) == \E c \in Calls : pc[c] = "closed" /\ AttemptOf[c] = a

(* A completion of a has read the answers and has not ended. *)
Scoring(a) == \E c \in Calls : pc[c] \in {"scored", "counted", "closed"} /\ AttemptOf[c] = a

(* A completion has read its clock and has not ended. *)
Completing(c) ==
  pc[c] \in {"scored", "counted", "closed"} \/ (KindOf[c] = "complete" /\ pc[c] = "checked")

MaxOf(m, n) == IF m > n THEN m ELSE n

(* Mutant: a second completion on the same day counts as another day. *)
NewCurrentCountsAgain(s, d) ==
  CASE d < s.last -> s.current
    [] d = s.last \/ d = s.last + 1 -> s.current + 1
    [] OTHER -> 1

(* The CASE of the streak statement; a null last_streak_day takes the ELSE. *)
NewCurrent(s, d) ==
  CASE s.last = 0 \/ d > s.last + 1 -> 1
    [] s.last # 0 /\ d <= s.last -> s.current
    [] s.last # 0 /\ d = s.last + 1 -> s.current + 1

(* The statement computes from the row it read, old, and updates the row it
   finds, now, once it has the lock on it.  It is the only one that writes the
   streak columns: UserAccountRepository.updateStreakCache, which runs on every
   xp.added event, gets its timestamp from the outbox payload, a string, and
   throws at finishedAt.toISOString() before its own UPDATE; the listener logs
   the error.                                                               *)
StreakUpdated(now, old, d) ==
  LET current == NewCurrent(old, d) IN
  [current |-> current, longest |-> MaxOf(old.longest, current), last |-> MaxOf(now.last, d)]

-----------------------------------------------------------------------------
Goto(c, label) == pc' = [pc EXCEPT ![c] = label]

(* The call is over, and its locals are gone. *)
Leave(c, label) ==
  /\ Goto(c, label)
  /\ day' = [day EXCEPT ![c] = 0] /\ mark' = [mark EXCEPT ![c] = 0] /\ pre' = [pre EXCEPT ![c] = 0]
  /\ was' = [was EXCEPT ![c] = NoStreak]

Quiet == UNCHANGED <<total, streak, emitted, day, mark, pre, was, recount, today>>

(* The checks before a start: no active attempt of this user at this quiz. *)
CheckStart(c) ==
  /\ KindOf[c] = "start" /\ pc[c] = "new"
  /\ Active(CallerOf[c], QuizOf[AttemptOf[c]]) = {}
  /\ Goto(c, "checked")
  /\ Quiet /\ UNCHANGED <<table, raced>>

(* createAttempt inserts a row of a fresh id; no index forbids that it is the
   second active one.                                                       *)
CreateAttempt(c) ==
  /\ KindOf[c] = "start" /\ pc[c] = "checked"
  /\ status[AttemptOf[c]] = "none"
  /\ status' = [status EXCEPT ![AttemptOf[c]] = "started"]
  /\ Goto(c, "done")
  /\ Quiet /\ UNCHANGED <<answers, score, finished, closings, xpRows, raced>>

(* The last look at the status before an answer is written or deleted. *)
CheckActive(c) ==
  /\ KindOf[c] \in {"submit", "withdraw"} /\ pc[c] = "new"
  /\ Allowed(c)
  /\ status[AttemptOf[c]] = "started"
  /\ KindOf[c] = "withdraw" => answers[AttemptOf[c]][QuestionOf[c]] # "none"
  /\ Goto(c, "checked")
  /\ Quiet /\ UNCHANGED <<table, raced>>

WriteAnswer(c, value) ==
  LET a == AttemptOf[c] IN
  /\ answers' = [answers EXCEPT ![a][QuestionOf[c]] = value]
  /\ raced' = IF status[a] # "started" \/ Scoring(a) THEN raced \cup {a} ELSE raced
  /\ Goto(c, "done")
  /\ Quiet /\ UNCHANGED <<status, score, finished, closings, xpRows>>

(* uq_attempt_question: a second answer is an error, not a replacement. *)
SubmitAnswer(c) ==
  /\ KindOf[c] = "submit" /\ pc[c] = "checked"
  /\ answers[AttemptOf[c]][QuestionOf[c]] = "none"
  /\ WriteAnswer(c, AnswerOf[c])

DeleteAnswer(c) ==
  /\ KindOf[c] = "withdraw" /\ pc[c] = "checked"
  /\ WriteAnswer(c, "none")

(* The UPDATE asks for the caller's own attempt: an admin passes the check
   and then finds no row.                                                   *)
AbandonAttempt(c) ==
  LET a == AttemptOf[c] IN
  /\ KindOf[c] = "abandon" /\ pc[c] = "new"
  /\ CallerOf[c] = OwnerOf[a]
  /\ status[a] = "started"
  /\ ~RowLocked(a)
  /\ status' = [status EXCEPT ![a] = "abandoned"]
  /\ finished' = [finished EXCEPT ![a] = today]
  /\ closings' = [closings EXCEPT ![a] = @ + 1]
  /\ Goto(c, "done")
  /\ Quiet /\ UNCHANGED <<answers, score, xpRows, raced>>

(* completeAttempt begins: the clock, and the row it checks. *)
BeginCompletion(c) ==
  /\ KindOf[c] = "complete" /\ pc[c] = "new"
  /\ Allowed(c)
  /\ status[AttemptOf[c]] = "started"
  /\ day' = [day EXCEPT ![c] = today]
  /\ Goto(c, "checked")
  /\ UNCHANGED <<table, total, streak, emitted, mark, pre, was, recount, today, raced>>

(* Mutant: unanswered questions are left out but skipped ones are not. *)
ScoreCountingSkipped(c) ==
  LET a == AttemptOf[c] IN
  /\ KindOf[c] = "complete" /\ pc[c] = "checked"
  /\ mark' = [mark EXCEPT ![c] = CalculateScorePercent(Count(a, {"right"}), Count(a, Answers))]
  /\ Goto(c, "scored")
  /\ UNCHANGED <<table, total, streak, emitted, day, pre, was, recount, today, raced>>

(* The query over the answers, outside the transaction. *)
ScoreAttempt(c) ==
  LET a == AttemptOf[c] IN
  /\ KindOf[c] = "complete" /\ pc[c] = "checked"
  /\ mark' = [mark EXCEPT ![c] =
       CalculateScorePercent(Count(a, {"right"}), Count(a, {"right", "wrong"}))]
  /\ Goto(c, "scored")
  /\ UNCHANGED <<table, total, streak, emitted, day, pre, was, recount, today, raced>>

(* The transaction begins with the count of the user's completed attempts. *)
CountCompleted(c) ==
  /\ pc[c] = "scored"
  /\ pre' = [pre EXCEPT ![c] = Cardinality(Completed(OfUser(OwnerOf[AttemptOf[c]])))]
  /\ Goto(c, "counted")
  /\ UNCHANGED <<table, total, streak, emitted, day, mark, was, recount, today, raced>>

(* Mutant: the UPDATE does not ask for an attempt that is still started. *)
CloseAnyStatus(c) ==
  LET a == AttemptOf[c] IN
  /\ pc[c] = "counted"
  /\ ~StatsLocked(QuizOf[a])
  /\ was' = [was EXCEPT ![c] = streak[OwnerOf[a]]]
  /\ Goto(c, "closed")
  /\ UNCHANGED <<table, total, streak, emitted, day, mark, pre, recount, today, raced>>

(* The UPDATE finds the attempt started, quiz_stats is incremented, and the
   streak statement begins.                                                 *)
CloseAttempt(c) ==
  LET a == AttemptOf[c] IN
  /\ pc[c] = "counted"
  /\ status[a] = "started"
  /\ ~StatsLocked(QuizOf[a])
  /\ was' = [was EXCEPT ![c] = streak[OwnerOf[a]]]
  /\ Goto(c, "closed")
  /\ UNCHANGED <<table, total, streak, emitted, day, mark, pre, recount, today, raced>>

CommitCompletion(c) ==
  LET a == AttemptOf[c]
      u == OwnerOf[a]
  IN
  /\ pc[c] = "closed"
  /\ status' = [status EXCEPT ![a] = "completed"]
  /\ score' = [score EXCEPT ![a] = mark[c]]
  /\ finished' = [finished EXCEPT ![a] = day[c]]
  /\ closings' = [closings EXCEPT ![a] = @ + 1]
  /\ xpRows' = IF EarnsXp(a, mark[c]) THEN [xpRows EXCEPT ![a] = @ + 1] ELSE xpRows
  /\ total' = [total EXCEPT ![QuizOf[a]] = @ + 1]
  /\ streak' = [streak EXCEPT ![u] = StreakUpdated(@, was[c], day[c])]
  /\ Goto(c, "committed")
  /\ UNCHANGED <<answers, emitted, day, mark, pre, was, recount, today, raced>>

(* Mutant: the milestone is announced when it is next in line. *)
EmitEarly(c) ==
  /\ pc[c] = "committed"
  /\ emitted' = emitted \cup {<<OwnerOf[AttemptOf[c]], m>> : m \in Milestones \cap {pre[c] + 2}}
  /\ Leave(c, "done")
  /\ UNCHANGED <<table, total, streak, recount, today, raced>>

(* attempt.completed and, on a milestone, quiz.milestone, in memory only. *)
EmitEvents(c) ==
  /\ pc[c] = "committed"
  /\ emitted' = emitted \cup {<<OwnerOf[AttemptOf[c]], m>> : m \in Milestones \cap {pre[c] + 1}}
  /\ Leave(c, "done")
  /\ UNCHANGED <<table, total, streak, recount, today, raced>>

(* The call throws, on a check or on a failed statement, or its process dies:
   a transaction rolls back, events not yet emitted are lost.               *)
CallEnds(c) ==
  /\ pc[c] \notin {"done", "refused"}
  /\ Leave(c, "refused")
  /\ UNCHANGED <<table, total, streak, emitted, recount, today, raced>>

-----------------------------------------------------------------------------
(* Mutant: the recount leaves the versions of other statuses in. *)
RefreshReadsAll(z) ==
  /\ recount[z] = -1
  /\ recount' = [recount EXCEPT ![z] = Cardinality({a \in OfQuiz(z) : status[a] # "none"})]
  /\ UNCHANGED <<table, total, streak, emitted, calls, today, raced>>

(* refreshQuizMetrics, once a day for every quiz: read, then upsert. *)
RefreshReads(z) ==
  /\ recount[z] = -1
  /\ recount' = [recount EXCEPT ![z] = Cardinality(Completed(OfQuiz(z)))]
  /\ UNCHANGED <<table, total, streak, emitted, calls, today, raced>>

RefreshWrites(z) ==
  /\ recount[z] # -1
  /\ ~StatsLocked(z)
  /\ total' = [total EXCEPT ![z] = recount[z]]
  /\ recount' = [recount EXCEPT ![z] = -1]
  /\ UNCHANGED <<table, streak, emitted, calls, today, raced>>

(* A call lasts less than a day: it meets one midnight at most. *)
Midnight ==
  /\ today < MaxDay
  /\ \A c \in Calls : Completing(c) => day[c] = today
  /\ today' = today + 1
  /\ UNCHANGED <<table, total, streak, emitted, calls, recount, raced>>

CallStep(c) ==
  \/ CheckStart(c) \/ CreateAttempt(c)
  \/ CheckActive(c) \/ SubmitAnswer(c) \/ DeleteAnswer(c)
  \/ AbandonAttempt(c)
  \/ BeginCompletion(c) \/ ScoreAttempt(c) \/ CountCompleted(c) \/ CloseAttempt(c)
  \/ CommitCompletion(c) \/ EmitEvents(c)
  \/ CallEnds(c)

Next ==
  \/ \E c \in Calls : CallStep(c)
  \/ \E z \in Quizzes : RefreshReads(z) \/ RefreshWrites(z)
  \/ Midnight

Spec == Init /\ [][Next]_vars

(* Calls come to an end, and the reconciliation cron keeps running. *)
Fairness ==
  /\ \A c \in Calls : WF_vars(CallStep(c))
  /\ \A z \in Quizzes : WF_vars(RefreshReads(z)) /\ WF_vars(RefreshWrites(z))

-----------------------------------------------------------------------------
(* Properties.                                                             *)

(* An attempt is completed or abandoned once, whatever completions and
   abandonments race for it: it has one closing event, at most one row that
   grants XP, and none of them while it is open.                            *)
ClosedOnce ==
  \A a \in Attempts :
    /\ closings[a] = IF status[a] \in {"none", "started"} THEN 0 ELSE 1
    /\ xpRows[a] = IF status[a] = "completed" /\ EarnsXp(a, score[a]) THEN 1 ELSE 0

(* The stored score is the score of the stored answers, to half a hundredth,
   as long as no answer was written behind the completion's back.           *)
ScoreMatchesAnswers ==
  \A a \in Attempts \ raced :
    LET right == Count(a, {"right"})
        n == Count(a, {"right", "wrong"})
        gap == 10000 * right - score[a] * n
    IN
    status[a] = "completed" => IF n = 0 THEN score[a] = 0 ELSE 2 * gap \in -n .. n

DaysOf(u) == {finished[a] : a \in Completed(OfUser(u))}

(* A streak never claims a day without a completion, although it is computed
   from a row that may be out of date and in whatever order the completions
   around midnight commit.                                                  *)
StreakIsEarned ==
  \A u \in Users :
    LET s == streak[u] IN
    /\ s.longest >= s.current
    /\ \A d \in (s.last - s.current + 1) .. s.last : d \in DaysOf(u)

(* A milestone is not announced before it is reached. *)
MilestoneIsReached == \A e \in emitted : Cardinality(Completed(OfUser(e[1]))) >= e[2]

(* Whatever a reconciliation that overlapped a completion wrote, the counter
   ends up as the number of completed attempts.                             *)
StatsHeal == <>[](\A z \in Quizzes : total[z] = Cardinality(Completed(OfQuiz(z))))
=============================================================================
