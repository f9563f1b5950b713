--------------------------- MODULE AttemptProofs ---------------------------
(***************************************************************************)
(* Attempts have their types and close once, with the score of their       *)
(* answers, earned streaks and milestones that were reached, for any       *)
(* users, quizzes, questions and calls.                                    *)
(***************************************************************************)
EXTENDS Attempt, FiniteSetTheorems, TLAPS

(* A score of at most as many right answers as there are answers is at most
   a hundred percent.                                                       *)
LEMMA PercentBound ==
  ASSUME NEW n \in Nat, NEW m \in Nat, m <= n
  PROVE  CalculateScorePercent(m, n) \in 0 .. FullScore
<1>1. CASE n = 0
  BY <1>1 DEF CalculateScorePercent, FullScore
<1>2. CASE n > 0
  <2> DEFINE x == (20000 * m + n) \div (2 * n)
  <2>1. x \in Int /\ x * (2 * n) <= 20000 * m + n /\ 20000 * m + n < (x + 1) * (2 * n)
    BY <1>2, SMT
  <2>2. x >= 0
    BY <1>2, <2>1, SMT
  <2>3. x <= 10000
    BY <1>2, <2>1, <2>2, SMT
  <2>4. CalculateScorePercent(m, n) = x
    BY <1>2 DEF CalculateScorePercent
  <2>5. x \in Int
    BY <2>1
  <2> HIDE DEF x
  <2> QED
    BY <2>2, <2>3, <2>4, <2>5 DEF FullScore
<1> QED
  BY <1>1, <1>2

(* The count of some of an attempt's answers is a number, and grows with the
   answers counted.                                                         *)
LEMMA CountBound ==
  ASSUME NEW a, NEW S, NEW T, S \subseteq T
  PROVE  Count(a, S) \in Nat /\ Count(a, T) \in Nat /\ Count(a, S) <= Count(a, T)
<1> DEFINE Q(R) == {q \in Questions : answers[a][q] \in R}
<1>1. IsFiniteSet(Questions)
  BY AttemptAssumption
<1>2. Q(S) \subseteq Q(T) /\ Q(T) \subseteq Questions
  OBVIOUS
<1>3. IsFiniteSet(Q(T)) /\ IsFiniteSet(Q(S))
  BY <1>1, <1>2, FS_Subset
<1>4. Cardinality(Q(S)) \in Nat /\ Cardinality(Q(T)) \in Nat
  BY <1>3, FS_CardinalityType
<1>5. Cardinality(Q(S)) <= Cardinality(Q(T))
  BY <1>2, <1>3, FS_Subset
<1> QED
  BY <1>4, <1>5 DEF Count

LEMMA CompletedFinite ==
  ASSUME NEW S \in SUBSET Attempts
  PROVE  Cardinality(Completed(S)) \in Nat
<1>1. Completed(S) \subseteq Attempts /\ IsFiniteSet(Attempts)
  BY AttemptAssumption DEF Completed
<1> QED
  BY <1>1, FS_Subset, FS_CardinalityType

-----------------------------------------------------------------------------
(* Types.                                                                  *)

LEMMA StreakType ==
  ASSUME NEW now \in Streaks, NEW old \in Streaks, NEW d \in 0 .. MaxDay
  PROVE  StreakUpdated(now, old, d) \in Streaks
<1>1. NewCurrent(old, d) \in Nat
  BY AttemptAssumption DEF NewCurrent, Streaks
<1> QED
  BY <1>1, AttemptAssumption DEF StreakUpdated, Streaks, MaxOf

LEMMA Signatures ==
  /\ AttemptOf \in [Calls -> Attempts] /\ QuestionOf \in [Calls -> Questions]
  /\ AnswerOf \in [Calls -> Answers]
  /\ OwnerOf \in [Attempts -> Users] /\ QuizOf \in [Attempts -> Quizzes]
  /\ MaxDay \in Nat \ {0}
  /\ NoStreak \in Streaks /\ FullScore \in Nat
  BY AttemptAssumption DEF NoStreak, Streaks, FullScore

(* What a call does to its own place and locals. *)
LEMMA GotoType ==
  ASSUME CallsTyped, NEW c \in Calls,
         NEW l \in Labels,
         Goto(c, l), UNCHANGED <<day, mark, pre, was>>
  PROVE  CallsTyped'
  BY DEF CallsTyped, Goto

LEMMA LeaveType ==
  ASSUME CallsTyped, NEW c \in Calls, NEW l \in {"done", "refused"}, Leave(c, l)
  PROVE  CallsTyped'
  BY Signatures DEF CallsTyped, Leave, Goto, Labels

LEMMA TableStep == TypeOK /\ [Next]_vars => TableTyped'
<1> SUFFICES ASSUME TypeOK, [Next]_vars PROVE TableTyped'
  OBVIOUS
<1> USE Signatures DEF TypeOK, table, calls
<1>1. ASSUME NEW c \in Calls, CreateAttempt(c) PROVE TableTyped'
  BY <1>1 DEF CreateAttempt, TableTyped
<1>2. ASSUME NEW c \in Calls, SubmitAnswer(c) \/ DeleteAnswer(c) PROVE TableTyped'
  <2>1. PICK v \in Answers \cup {"none"} : WriteAnswer(c, v)
    BY <1>2 DEF SubmitAnswer, DeleteAnswer
  <2>2. answers' = [answers EXCEPT ![AttemptOf[c]][QuestionOf[c]] = v]
    BY <2>1 DEF WriteAnswer
  <2> QED
    BY <2>1, <2>2 DEF WriteAnswer, TableTyped
<1>3. ASSUME NEW c \in Calls, AbandonAttempt(c) PROVE TableTyped'
  BY <1>3 DEF AbandonAttempt, TableTyped, RestTyped
<1>4. ASSUME NEW c \in Calls, CommitCompletion(c) PROVE TableTyped'
  BY <1>4 DEF CommitCompletion, TableTyped, CallsTyped
<1>5. ASSUME NEW c \in Calls, CheckStart(c) \/ CheckActive(c) \/ BeginCompletion(c) \/ ScoreAttempt(c)
                              \/ CountCompleted(c) \/ CloseAttempt(c) \/ EmitEvents(c) \/ CallEnds(c)
      PROVE TableTyped'
  BY <1>5 DEF CheckStart, CheckActive, BeginCompletion, ScoreAttempt, CountCompleted, CloseAttempt, EmitEvents, CallEnds, TableTyped
<1>6. ASSUME NEW z \in Quizzes, RefreshReads(z) \/ RefreshWrites(z) PROVE TableTyped'
  BY <1>6 DEF RefreshReads, RefreshWrites, TableTyped
<1>7. CASE Midnight \/ UNCHANGED vars
  BY <1>7 DEF Midnight, vars, TableTyped
<1> QED
  BY <1>1, <1>2, <1>3, <1>4, <1>5, <1>6, <1>7 DEF Next, CallStep

LEMMA CallsStep == TypeOK /\ [Next]_vars => CallsTyped'
<1> SUFFICES ASSUME TypeOK, [Next]_vars PROVE CallsTyped'
  OBVIOUS
<1> USE Signatures DEF TypeOK, table, calls
<1>1. ASSUME NEW c \in Calls, CheckStart(c) \/ CreateAttempt(c) \/ CheckActive(c) \/ SubmitAnswer(c)
                              \/ DeleteAnswer(c) \/ AbandonAttempt(c) \/ CommitCompletion(c)
      PROVE CallsTyped'
  BY <1>1, GotoType
  DEF CheckStart, CreateAttempt, CheckActive, SubmitAnswer, DeleteAnswer, WriteAnswer, AbandonAttempt,
      CommitCompletion, Quiet, Labels
<1>2. ASSUME NEW c \in Calls, BeginCompletion(c) PROVE CallsTyped'
  <2>1. today \in 0 .. MaxDay
    BY DEF RestTyped
  <2> QED
    BY <1>2, <2>1 DEF BeginCompletion, CallsTyped, Goto, Labels
<1>7. ASSUME NEW c \in Calls, ScoreAttempt(c) PROVE CallsTyped'
  <2> DEFINE a == AttemptOf[c]
             m == CalculateScorePercent(Count(a, {"right"}), Count(a, {"right", "wrong"}))
  <2>1. m \in 0 .. FullScore
    <3>1. {"right"} \subseteq {"right", "wrong"}
      OBVIOUS
    <3>2. /\ Count(a, {"right"}) \in Nat /\ Count(a, {"right", "wrong"}) \in Nat
          /\ Count(a, {"right"}) <= Count(a, {"right", "wrong"})
      BY <3>1, CountBound
    <3> QED
      BY <3>2, PercentBound
  <2>2. mark' = [mark EXCEPT ![c] = m] /\ Goto(c, "scored") /\ UNCHANGED <<day, pre, was>>
    BY <1>7 DEF ScoreAttempt
  <2> HIDE DEF m
  <2> QED
    BY <2>1, <2>2 DEF CallsTyped, Goto, Labels
<1>8. ASSUME NEW c \in Calls, CountCompleted(c) PROVE CallsTyped'
  <2> DEFINE n == Cardinality(Completed(OfUser(OwnerOf[AttemptOf[c]])))
  <2>1. n \in Nat
    BY CompletedFinite DEF OfUser
  <2>2. pre' = [pre EXCEPT ![c] = n] /\ Goto(c, "counted") /\ UNCHANGED <<day, mark, was>>
    BY <1>8 DEF CountCompleted
  <2> HIDE DEF n
  <2> QED
    BY <2>1, <2>2 DEF CallsTyped, Goto, Labels
<1>3. ASSUME NEW c \in Calls, CloseAttempt(c) PROVE CallsTyped'
  <2>1. streak[OwnerOf[AttemptOf[c]]] \in Streaks
    BY DEF RestTyped
  <2> QED
    BY <1>3, <2>1 DEF CloseAttempt, Goto, CallsTyped, Labels
<1>4. ASSUME NEW c \in Calls, EmitEvents(c) \/ CallEnds(c) PROVE CallsTyped'
  BY <1>4, LeaveType DEF EmitEvents, CallEnds
<1>5. ASSUME NEW z \in Quizzes, RefreshReads(z) \/ RefreshWrites(z) PROVE CallsTyped'
  BY <1>5 DEF RefreshReads, RefreshWrites, CallsTyped
<1>6. CASE Midnight \/ UNCHANGED vars
  BY <1>6 DEF Midnight, vars, CallsTyped
<1> QED
  BY <1>1, <1>2, <1>3, <1>4, <1>5, <1>6, <1>7, <1>8 DEF Next, CallStep

LEMMA RestStep == TypeOK /\ [Next]_vars => RestTyped'
<1> SUFFICES ASSUME TypeOK, [Next]_vars PROVE RestTyped'
  OBVIOUS
<1> USE Signatures DEF TypeOK, table, calls
<1>1. ASSUME NEW c \in Calls, CheckStart(c) \/ CreateAttempt(c) \/ CheckActive(c) \/ AbandonAttempt(c)
                              \/ BeginCompletion(c) \/ ScoreAttempt(c) \/ CountCompleted(c)
                              \/ CloseAttempt(c) \/ CallEnds(c)
      PROVE RestTyped'
  BY <1>1 DEF CheckStart, CreateAttempt, CheckActive, AbandonAttempt, BeginCompletion, ScoreAttempt,
              CountCompleted, CloseAttempt, CallEnds, Quiet, RestTyped
<1>2. ASSUME NEW c \in Calls, SubmitAnswer(c) \/ DeleteAnswer(c) PROVE RestTyped'
  BY <1>2 DEF SubmitAnswer, DeleteAnswer, WriteAnswer, Quiet, RestTyped
<1>3. ASSUME NEW c \in Calls, CommitCompletion(c) PROVE RestTyped'
  <2> DEFINE u == OwnerOf[AttemptOf[c]]
             s == StreakUpdated(streak[u], was[c], day[c])
  <2>1. s \in Streaks
    BY StreakType DEF RestTyped, CallsTyped
  <2>2. streak' = [streak EXCEPT ![u] = s]
    BY <1>3 DEF CommitCompletion
  <2> HIDE DEF s
  <2>3. streak' \in [Users -> Streaks]
    BY <2>1, <2>2 DEF RestTyped
  <2> QED
    BY <1>3, <2>3 DEF CommitCompletion, RestTyped
<1>4. ASSUME NEW c \in Calls, EmitEvents(c) PROVE RestTyped'
  <2>1. OwnerOf[AttemptOf[c]] \in Users
    OBVIOUS
  <2>2. emitted' \subseteq Users \X Milestones
    BY <1>4, <2>1 DEF EmitEvents, RestTyped
  <2> QED
    BY <1>4, <2>2 DEF EmitEvents, RestTyped
<1>5. ASSUME NEW z \in Quizzes, RefreshReads(z) \/ RefreshWrites(z) PROVE RestTyped'
  <2>1. Cardinality(Completed(OfQuiz(z))) \in Nat
    BY CompletedFinite DEF OfQuiz
  <2> QED
    BY <1>5, <2>1 DEF RefreshReads, RefreshWrites, RestTyped
<1>6. CASE Midnight \/ UNCHANGED vars
  BY <1>6 DEF Midnight, vars, RestTyped
<1> QED
  BY <1>1, <1>2, <1>3, <1>4, <1>5, <1>6 DEF Next, CallStep

(* Scores stay within a hundred percent, streaks within the days passed. *)
THEOREM AttemptTypeCorrect == Spec => []TypeOK
<1>1. Init => TypeOK
  BY Signatures DEF Init, TypeOK, TableTyped, CallsTyped, RestTyped, Labels
<1> QED
  BY <1>1, TableStep, CallsStep, RestStep, PTL DEF Spec, TypeOK

-----------------------------------------------------------------------------
(* Attempts close once.                                                    *)

(* A transaction that has closed an attempt and not committed finds it still
   started, and no other transaction has closed one of the same quiz: the
   quiz_stats row is locked.                                                *)
ClosingIsAlone ==
  /\ \A c \in Calls : pc[c] = "closed" => status[AttemptOf[c]] = "started"
  /\ \A c, d \in Calls :
       pc[c] = "closed" /\ pc[d] = "closed" /\ QuizOf[AttemptOf[c]] = QuizOf[AttemptOf[d]] => c = d

CloseInv == ClosedOnce /\ ClosingIsAlone

LEMMA CloseFrame ==
  ASSUME CloseInv, UNCHANGED <<status, score, closings, xpRows>>,
         \A c \in Calls : pc'[c] = "closed" => pc[c] = "closed"
  PROVE  CloseInv'
  BY DEF CloseInv, ClosedOnce, ClosingIsAlone, EarnsXp

LEMMA CloseStep == TypeOK /\ CloseInv /\ [Next]_vars => CloseInv'
<1> SUFFICES ASSUME TypeOK, CloseInv, [Next]_vars PROVE CloseInv'
  OBVIOUS
<1> USE Signatures DEF table, calls
<1>t. pc \in [Calls -> {"new", "checked", "scored", "counted", "closed", "committed", "done", "refused"}]
  BY DEF TypeOK, CallsTyped, Labels
<1>1. ASSUME NEW c \in Calls, CheckStart(c) \/ CheckActive(c) \/ SubmitAnswer(c) \/ DeleteAnswer(c)
                              \/ BeginCompletion(c) \/ ScoreAttempt(c) \/ CountCompleted(c)
      PROVE CloseInv'
  BY <1>1, <1>t, CloseFrame
  DEF CheckStart, CheckActive, SubmitAnswer, DeleteAnswer, WriteAnswer, BeginCompletion, ScoreAttempt,
      CountCompleted, Goto, Quiet
<1>2. ASSUME NEW c \in Calls, EmitEvents(c) \/ CallEnds(c) PROVE CloseInv'
  BY <1>2, <1>t, CloseFrame DEF EmitEvents, CallEnds, Leave, Goto
<1>3. ASSUME NEW z \in Quizzes, RefreshReads(z) \/ RefreshWrites(z) PROVE CloseInv'
  BY <1>3, CloseFrame DEF RefreshReads, RefreshWrites
<1>4. CASE Midnight \/ UNCHANGED vars
  BY <1>4, CloseFrame DEF Midnight, vars
<1>5. ASSUME NEW c \in Calls, CreateAttempt(c) PROVE CloseInv'
  <2>1. ClosedOnce'
    BY <1>5 DEF CreateAttempt, CloseInv, ClosedOnce, TypeOK, TableTyped, EarnsXp, Quiet
  <2>2. ClosingIsAlone'
    BY <1>5, <1>t DEF CreateAttempt, Goto, CloseInv, ClosingIsAlone, TypeOK, TableTyped
  <2> QED
    BY <2>1, <2>2 DEF CloseInv
<1>6. ASSUME NEW c \in Calls, AbandonAttempt(c) PROVE CloseInv'
  <2>1. ClosedOnce'
    BY <1>6 DEF AbandonAttempt, CloseInv, ClosedOnce, TypeOK, TableTyped, EarnsXp, Quiet
  <2>2. ClosingIsAlone'
    BY <1>6, <1>t DEF AbandonAttempt, RowLocked, Goto, CloseInv, ClosingIsAlone, TypeOK, TableTyped
  <2> QED
    BY <2>1, <2>2 DEF CloseInv
<1>7. ASSUME NEW c \in Calls, CloseAttempt(c) PROVE CloseInv'
  <2>1. ClosedOnce'
    BY <1>7 DEF CloseAttempt, CloseInv, ClosedOnce, EarnsXp
  <2>2. ClosingIsAlone'
    BY <1>7, <1>t DEF CloseAttempt, StatsLocked, Goto, CloseInv, ClosingIsAlone
  <2> QED
    BY <2>1, <2>2 DEF CloseInv
<1>8. ASSUME NEW c \in Calls, CommitCompletion(c) PROVE CloseInv'
  <2>1. status[AttemptOf[c]] = "started"
    BY <1>8 DEF CommitCompletion, CloseInv, ClosingIsAlone
  <2>2. ClosedOnce'
    BY <1>8, <2>1 DEF CommitCompletion, CloseInv, ClosedOnce, TypeOK, TableTyped, EarnsXp
  <2>3. ClosingIsAlone'
    BY <1>8, <1>t DEF CommitCompletion, Goto, CloseInv, ClosingIsAlone, TypeOK, TableTyped
  <2> QED
    BY <2>2, <2>3 DEF CloseInv
<1> QED
  BY <1>1, <1>2, <1>3, <1>4, <1>5, <1>6, <1>7, <1>8 DEF Next, CallStep

(* However completions and abandonments race, an attempt is closed once and
   grants XP at most once.                                                  *)
THEOREM AttemptClosedOnce == Spec => []ClosedOnce
<1>1. Init => CloseInv
  BY AttemptAssumption DEF Init, CloseInv, ClosedOnce, ClosingIsAlone
<1>2. Spec => []TypeOK
  BY AttemptTypeCorrect
<1> QED
  BY <1>1, <1>2, CloseStep, PTL DEF Spec, CloseInv
-----------------------------------------------------------------------------
(* What is completed stays completed, with its day.                         *)

(* A step adds to the completed attempts at most that of one completion. *)
Grows ==
  \A b \in Attempts : status[b] = "completed" =>
    status'[b] = "completed" /\ finished'[b] = finished[b] /\ score'[b] = score[b]

LEMMA CompletedGrows == TypeOK /\ CloseInv /\ [Next]_vars => Grows
<1> SUFFICES ASSUME TypeOK, CloseInv, [Next]_vars PROVE Grows
  OBVIOUS
<1> USE Signatures DEF table, calls, Grows
<1>1. ASSUME NEW c \in Calls, CheckStart(c) \/ CheckActive(c) \/ SubmitAnswer(c) \/ DeleteAnswer(c)
                              \/ BeginCompletion(c) \/ ScoreAttempt(c) \/ CountCompleted(c)
                              \/ CloseAttempt(c) \/ EmitEvents(c) \/ CallEnds(c)
      PROVE Grows
  BY <1>1 DEF CheckStart, CheckActive, SubmitAnswer, DeleteAnswer, WriteAnswer, BeginCompletion,
              ScoreAttempt, CountCompleted, CloseAttempt, EmitEvents, CallEnds
<1>2. ASSUME NEW c \in Calls, CreateAttempt(c) \/ AbandonAttempt(c) PROVE Grows
  BY <1>2 DEF CreateAttempt, AbandonAttempt, TypeOK, TableTyped
<1>3. ASSUME NEW c \in Calls, CommitCompletion(c) PROVE Grows
  <2>1. status[AttemptOf[c]] = "started"
    BY <1>3 DEF CommitCompletion, CloseInv, ClosingIsAlone
  <2> QED
    BY <1>3, <2>1 DEF CommitCompletion, TypeOK, TableTyped
<1>4. ASSUME NEW z \in Quizzes, RefreshReads(z) \/ RefreshWrites(z) PROVE Grows
  BY <1>4 DEF RefreshReads, RefreshWrites
<1>5. CASE Midnight \/ UNCHANGED vars
  BY <1>5 DEF Midnight, vars
<1> QED
  BY <1>1, <1>2, <1>3, <1>4, <1>5 DEF Next, CallStep

(* A user's completions are never fewer after a step, nor are their days. *)
LEMMA CountGrows ==
  ASSUME Grows, NEW u
  PROVE  /\ Completed(OfUser(u)) \subseteq Completed(OfUser(u))'
         /\ DaysOf(u) \subseteq DaysOf(u)'
         /\ Cardinality(Completed(OfUser(u))) \in Nat
         /\ Cardinality(Completed(OfUser(u))') \in Nat
         /\ Cardinality(Completed(OfUser(u))) <= Cardinality(Completed(OfUser(u))')
<1>1. Completed(OfUser(u)) \subseteq Completed(OfUser(u))'
  BY DEF Grows, Completed, OfUser
<1>2. DaysOf(u) \subseteq DaysOf(u)'
  BY DEF Grows, DaysOf, Completed, OfUser
<1>3. Completed(OfUser(u))' \subseteq Attempts /\ IsFiniteSet(Attempts)
  BY AttemptAssumption DEF Completed, OfUser
<1>4. IsFiniteSet(Completed(OfUser(u))') /\ IsFiniteSet(Completed(OfUser(u)))
  BY <1>1, <1>3, FS_Subset
<1> QED
  BY <1>1, <1>2, <1>4, FS_Subset, FS_CardinalityType

-----------------------------------------------------------------------------
(* The stored score.                                                        *)

(* The score of the answers that are in the table. *)
Deserved(a) == CalculateScorePercent(Count(a, {"right"}), Count(a, {"right", "wrong"}))

(* As long as nothing raced with it, a completion holds the score of the
   answers that are in the table, and so does the completed attempt.        *)
ScoreInv ==
  /\ \A a \in Attempts \ raced : status[a] = "completed" => score[a] = Deserved(a)
  /\ \A c \in Calls : pc[c] \in {"scored", "counted", "closed"} /\ AttemptOf[c] \notin raced =>
                        mark[c] = Deserved(AttemptOf[c])

LEMMA ScoreFrame ==
  ASSUME ScoreInv, UNCHANGED <<answers, score, mark, raced>>,
         \A a \in Attempts : status'[a] = "completed" => status[a] = "completed",
         \A c \in Calls : pc'[c] \in {"scored", "counted", "closed"} => pc[c] \in {"scored", "counted", "closed"}
  PROVE  ScoreInv'
<1>1. \A a \in Attempts : Deserved(a)' = Deserved(a)
  BY DEF Deserved, Count, CalculateScorePercent
<1> QED
  BY <1>1, Signatures DEF ScoreInv

LEMMA ScoreStep == TypeOK /\ CloseInv /\ ScoreInv /\ [Next]_vars => ScoreInv'
<1> SUFFICES ASSUME TypeOK, CloseInv, ScoreInv, [Next]_vars PROVE ScoreInv'
  OBVIOUS
<1> USE Signatures DEF table, calls
<1>t. /\ pc \in [Calls -> {"new", "checked", "scored", "counted", "closed", "committed", "done", "refused"}]
      /\ mark \in [Calls -> 0 .. FullScore]
      /\ status \in [Attempts -> {"none", "started", "completed", "abandoned"}]
      /\ score \in [Attempts -> 0 .. FullScore]
  BY DEF TypeOK, CallsTyped, TableTyped, Labels
<1>1. ASSUME NEW c \in Calls, CheckStart(c) \/ CheckActive(c) \/ BeginCompletion(c)
                              \/ CountCompleted(c)
      PROVE ScoreInv'
  BY <1>1, <1>t, ScoreFrame DEF CheckStart, CheckActive, BeginCompletion, CountCompleted, Goto, Quiet
<1>2. ASSUME NEW c \in Calls, CreateAttempt(c) \/ AbandonAttempt(c) PROVE ScoreInv'
  BY <1>2, <1>t, ScoreFrame DEF CreateAttempt, AbandonAttempt, Goto, Quiet
<1>3. ASSUME NEW c \in Calls, SubmitAnswer(c) \/ DeleteAnswer(c) PROVE ScoreInv'
  <2> DEFINE a == AttemptOf[c]
  <2>1. PICK v : WriteAnswer(c, v)
    BY <1>3 DEF SubmitAnswer, DeleteAnswer
  <2>2. /\ raced' = (IF status[a] # "started" \/ Scoring(a) THEN raced \cup {a} ELSE raced)
        /\ UNCHANGED <<status, score, mark>>
        /\ pc' = [pc EXCEPT ![c] = "done"]
    BY <2>1 DEF WriteAnswer, Quiet, Goto
  <2>3. \A b \in Attempts : b # a => answers'[b] = answers[b]
    BY <2>1 DEF WriteAnswer, TypeOK, TableTyped
  <2>4. \A b \in Attempts : b # a => Deserved(b)' = Deserved(b)
    <3> SUFFICES ASSUME NEW b \in Attempts, b # a PROVE Deserved(b)' = Deserved(b)
      OBVIOUS
    <3>1. answers'[b] = answers[b]
      BY <2>3
    <3> QED
      BY <3>1 DEF Deserved, Count, CalculateScorePercent
  <2>5. a \notin raced' =>
          status[a] = "started" /\ \A d \in Calls : AttemptOf[d] = a => pc[d] \notin {"scored", "counted", "closed"}
    BY <2>2 DEF Scoring
  <2>6. \A b \in Attempts \ raced' : status'[b] = "completed" => score'[b] = Deserved(b)'
    BY <2>2, <2>4, <2>5 DEF ScoreInv
  <2>7. \A d \in Calls : pc'[d] \in {"scored", "counted", "closed"} /\ AttemptOf[d] \notin raced' =>
                           mark'[d] = Deserved(AttemptOf[d])'
    BY <1>t, <2>2, <2>4, <2>5 DEF ScoreInv
  <2> QED
    BY <2>6, <2>7 DEF ScoreInv
<1>4. ASSUME NEW c \in Calls, ScoreAttempt(c) PROVE ScoreInv'
  <2>1. /\ mark' = [mark EXCEPT ![c] = Deserved(AttemptOf[c])]
        /\ UNCHANGED <<status, answers, score, raced>>
        /\ pc' = [pc EXCEPT ![c] = "scored"]
    BY <1>4 DEF ScoreAttempt, Deserved, Goto
  <2>2. \A b \in Attempts : Deserved(b)' = Deserved(b)
    BY <2>1 DEF Deserved, Count, CalculateScorePercent
  <2> QED
    BY <1>t, <2>1, <2>2 DEF ScoreInv
<1>5. ASSUME NEW c \in Calls, CloseAttempt(c) PROVE ScoreInv'
  BY <1>5, <1>t, ScoreFrame DEF CloseAttempt, Goto
<1>6. ASSUME NEW c \in Calls, CommitCompletion(c) PROVE ScoreInv'
  <2>1. /\ score' = [score EXCEPT ![AttemptOf[c]] = mark[c]]
        /\ status' = [status EXCEPT ![AttemptOf[c]] = "completed"]
        /\ UNCHANGED <<answers, mark, raced>>
        /\ pc[c] = "closed" /\ pc' = [pc EXCEPT ![c] = "committed"]
    BY <1>6 DEF CommitCompletion, Goto
  <2>2. \A b \in Attempts : Deserved(b)' = Deserved(b)
    BY <2>1 DEF Deserved, Count, CalculateScorePercent
  <2> QED
    BY <1>t, <2>1, <2>2 DEF ScoreInv
<1>7. ASSUME NEW c \in Calls, EmitEvents(c) \/ CallEnds(c) PROVE ScoreInv'
  <2>1. /\ UNCHANGED <<status, answers, score, raced>>
        /\ \A d \in Calls : pc'[d] \in {"scored", "counted", "closed"} => d # c /\ pc[d] = pc'[d] /\ mark'[d] = mark[d]
    BY <1>7, <1>t DEF EmitEvents, CallEnds, Leave, Goto
  <2>2. \A b \in Attempts : Deserved(b)' = Deserved(b)
    BY <2>1 DEF Deserved, Count, CalculateScorePercent
  <2> QED
    BY <2>1, <2>2 DEF ScoreInv
<1>8. ASSUME NEW z \in Quizzes, RefreshReads(z) \/ RefreshWrites(z) PROVE ScoreInv'
  BY <1>8, ScoreFrame DEF RefreshReads, RefreshWrites
<1>9. CASE Midnight \/ UNCHANGED vars
  BY <1>9, ScoreFrame DEF Midnight, vars
<1> QED
  BY <1>1, <1>2, <1>3, <1>4, <1>5, <1>6, <1>7, <1>8, <1>9 DEF Next, CallStep

(* Rounding to hundredths is off by half a hundredth at most. *)
LEMMA RoundingGap ==
  ASSUME NEW n \in Nat, NEW m \in Nat, m <= n
  PROVE  LET x == CalculateScorePercent(m, n)
         IN  IF n = 0 THEN x = 0 ELSE 2 * (10000 * m - x * n) \in -n .. n
<1>1. CASE n = 0
  BY <1>1 DEF CalculateScorePercent
<1>2. CASE n > 0
  <2> DEFINE x == (20000 * m + n) \div (2 * n)
  <2>1. x \in Int /\ x * (2 * n) <= 20000 * m + n /\ 20000 * m + n < (x + 1) * (2 * n)
    BY <1>2, SMT
  <2> HIDE DEF x
  <2>2. x * n \in Int /\ x * (2 * n) = 2 * (x * n) /\ (x + 1) * (2 * n) = 2 * (x * n) + 2 * n
    BY <2>1, SMT
  <2>3. 2 * (10000 * m - x * n) \in -n .. n
    BY <2>1, <2>2, SMT
  <2> QED
    BY <1>2, <2>3 DEF CalculateScorePercent, x
<1> QED
  BY <1>1, <1>2

(* The score of a completed attempt is the score of its answers, rounded,
   unless an answer was written behind the completion's back: for any number
   of questions, of completions that compete and of answers under way.      *)
THEOREM ScoreIsOfTheAnswers == Spec => []ScoreMatchesAnswers
<1>1. Init => CloseInv /\ ScoreInv
  BY AttemptAssumption DEF Init, CloseInv, ClosedOnce, ClosingIsAlone, ScoreInv
<1>2. Spec => []TypeOK
  BY AttemptTypeCorrect
<1>3. ScoreInv => ScoreMatchesAnswers
  <2> SUFFICES ASSUME ScoreInv, NEW a \in Attempts \ raced, status[a] = "completed"
               PROVE  LET right == Count(a, {"right"})
                          n == Count(a, {"right", "wrong"})
                          gap == 10000 * right - score[a] * n
                      IN  IF n = 0 THEN score[a] = 0 ELSE 2 * gap \in -n .. n
    BY DEF ScoreMatchesAnswers
  <2>1. score[a] = CalculateScorePercent(Count(a, {"right"}), Count(a, {"right", "wrong"}))
    BY DEF ScoreInv, Deserved
  <2>2. {"right"} \subseteq {"right", "wrong"}
    OBVIOUS
  <2>3. /\ Count(a, {"right"}) \in Nat /\ Count(a, {"right", "wrong"}) \in Nat
        /\ Count(a, {"right"}) <= Count(a, {"right", "wrong"})
    BY <2>2, CountBound
  <2> QED
    BY <2>1, <2>3, RoundingGap
<1> QED
  BY <1>1, <1>2, <1>3, CloseStep, ScoreStep, PTL DEF Spec
-----------------------------------------------------------------------------
(* Milestones.                                                              *)

(* A completion counted no more earlier completions than there are, its own
   left out; what it will announce has been reached once it has committed.  *)
PreIsCounted ==
  \A c \in Calls :
    LET done == Cardinality(Completed(OfUser(OwnerOf[AttemptOf[c]]))) IN
    /\ pc[c] \in {"counted", "closed"} => pre[c] <= done
    /\ pc[c] = "committed" => pre[c] + 1 <= done

MilestoneInv == MilestoneIsReached /\ PreIsCounted

(* Of a call that a step leaves where it is, or ends, nothing new is asked. *)
LEMMA MilestoneFrame ==
  ASSUME TypeOK, MilestoneInv, Grows, emitted' = emitted,
         \A c \in Calls : pc'[c] \in {"counted", "closed", "committed"} =>
            pre'[c] = pre[c] /\ (pc'[c] = pc[c] \/ (pc[c] = "counted" /\ pc'[c] = "closed"))
  PROVE  MilestoneInv'
<1>1. MilestoneIsReached'
  <2> SUFFICES ASSUME NEW e \in emitted PROVE Cardinality(Completed(OfUser(e[1]))') >= e[2]
    BY DEF MilestoneIsReached
  <2>1. Cardinality(Completed(OfUser(e[1]))) >= e[2] /\ e[2] \in Nat
    BY AttemptAssumption DEF MilestoneInv, MilestoneIsReached, TypeOK, RestTyped
  <2> QED
    BY <2>1, CountGrows
<1>2. PreIsCounted'
  <2> SUFFICES ASSUME NEW c \in Calls
               PROVE  LET done == Cardinality(Completed(OfUser(OwnerOf[AttemptOf[c]]))') IN
                      /\ pc'[c] \in {"counted", "closed"} => pre'[c] <= done
                      /\ pc'[c] = "committed" => pre'[c] + 1 <= done
    BY DEF PreIsCounted
  <2> DEFINE n == Cardinality(Completed(OfUser(OwnerOf[AttemptOf[c]])))
             m == Cardinality(Completed(OfUser(OwnerOf[AttemptOf[c]]))')
  <2>1. n \in Nat /\ m \in Nat /\ n <= m
    BY CountGrows
  <2>2. /\ pc[c] \in {"counted", "closed"} => pre[c] <= n
        /\ pc[c] = "committed" => pre[c] + 1 <= n
    BY DEF MilestoneInv, PreIsCounted
  <2>3. pre[c] \in Nat
    BY DEF TypeOK, CallsTyped
  <2> HIDE DEF n, m
  <2>4. /\ pc'[c] \in {"counted", "closed"} => pre'[c] <= m
        /\ pc'[c] = "committed" => pre'[c] + 1 <= m
    BY <2>1, <2>2, <2>3
  <2> QED
    BY <2>4 DEF m
<1> QED
  BY <1>1, <1>2 DEF MilestoneInv

LEMMA MilestoneStep == TypeOK /\ CloseInv /\ MilestoneInv /\ [Next]_vars => MilestoneInv'
<1> SUFFICES ASSUME TypeOK, CloseInv, MilestoneInv, [Next]_vars PROVE MilestoneInv'
  OBVIOUS
<1> USE Signatures DEF table, calls
<1>t. /\ pc \in [Calls -> {"new", "checked", "scored", "counted", "closed", "committed", "done", "refused"}]
      /\ pre \in [Calls -> Nat]
      /\ status \in [Attempts -> {"none", "started", "completed", "abandoned"}]
  BY DEF TypeOK, CallsTyped, TableTyped, Labels
<1>g. Grows
  BY CompletedGrows
<1>1. ASSUME NEW c \in Calls, CheckStart(c) \/ CheckActive(c) \/ CreateAttempt(c) \/ AbandonAttempt(c)
                              \/ SubmitAnswer(c) \/ DeleteAnswer(c)
      PROVE MilestoneInv'
  BY <1>1, <1>t, <1>g, MilestoneFrame DEF CheckStart, CheckActive, CreateAttempt, AbandonAttempt,
     SubmitAnswer, DeleteAnswer, WriteAnswer, Goto, Quiet
<1>2. ASSUME NEW c \in Calls, BeginCompletion(c) \/ ScoreAttempt(c) \/ CloseAttempt(c) \/ CallEnds(c)
      PROVE MilestoneInv'
  BY <1>2, <1>t, <1>g, MilestoneFrame DEF BeginCompletion, ScoreAttempt, CloseAttempt, CallEnds, Leave, Goto
<1>3. ASSUME NEW c \in Calls, CountCompleted(c) PROVE MilestoneInv'
  <2> DEFINE n == Cardinality(Completed(OfUser(OwnerOf[AttemptOf[c]])))
  <2>1. n \in Nat /\ Cardinality(Completed(OfUser(OwnerOf[AttemptOf[c]]))') = n
    BY <1>3, CompletedFinite DEF CountCompleted, Completed, OfUser
  <2>2. pre' = [pre EXCEPT ![c] = n] /\ pc' = [pc EXCEPT ![c] = "counted"] /\ UNCHANGED <<status, emitted>>
    BY <1>3 DEF CountCompleted, Goto
  <2>3. \A u : Completed(OfUser(u))' = Completed(OfUser(u))
    BY <2>2 DEF Completed, OfUser
  <2> HIDE DEF n
  <2>4. MilestoneIsReached'
    BY <2>2, <2>3 DEF MilestoneInv, MilestoneIsReached
  <2>5. ASSUME NEW d \in Calls
        PROVE  LET done == Cardinality(Completed(OfUser(OwnerOf[AttemptOf[d]]))') IN
               /\ pc'[d] \in {"counted", "closed"} => pre'[d] <= done
               /\ pc'[d] = "committed" => pre'[d] + 1 <= done
    <3>1. CASE d = c
      BY <1>t, <2>1, <2>2, <3>1
    <3>2. CASE d # c
      BY <1>t, <2>2, <2>3, <3>2 DEF MilestoneInv, PreIsCounted
    <3> QED
      BY <3>1, <3>2
  <2> QED
    BY <2>4, <2>5 DEF MilestoneInv, PreIsCounted
<1>4. ASSUME NEW c \in Calls, CommitCompletion(c) PROVE MilestoneInv'
  <2> DEFINE a == AttemptOf[c]
             C == Completed(OfUser(OwnerOf[a]))
  <2>1. status[a] = "started" /\ pc[c] = "closed"
    BY <1>4 DEF CommitCompletion, CloseInv, ClosingIsAlone
  <2>2. /\ status' = [status EXCEPT ![a] = "completed"]
        /\ pc' = [pc EXCEPT ![c] = "committed"] /\ UNCHANGED <<pre, emitted>>
    BY <1>4 DEF CommitCompletion, Goto
  <2>3. C' = C \cup {a} /\ a \notin C
    BY <1>t, <2>1, <2>2 DEF Completed, OfUser
  <2>4. IsFiniteSet(C)
    BY AttemptAssumption, FS_Subset DEF Completed, OfUser
  <2>5. Cardinality(C') = Cardinality(C) + 1 /\ Cardinality(C) \in Nat
    BY <2>3, <2>4, FS_AddElement, FS_CardinalityType
  <2>6. pre[c] <= Cardinality(C) /\ pre[c] \in Nat
    BY <1>t, <2>1 DEF MilestoneInv, PreIsCounted
  <2>7. MilestoneIsReached'
    <3> SUFFICES ASSUME NEW e \in emitted PROVE Cardinality(Completed(OfUser(e[1]))') >= e[2]
      BY <2>2 DEF MilestoneIsReached
    <3>1. Cardinality(Completed(OfUser(e[1]))) >= e[2] /\ e[2] \in Nat
      BY AttemptAssumption DEF MilestoneInv, MilestoneIsReached, TypeOK, RestTyped
    <3> QED
      BY <1>g, <3>1, CountGrows
  <2>8. ASSUME NEW d \in Calls
        PROVE  LET done == Cardinality(Completed(OfUser(OwnerOf[AttemptOf[d]]))') IN
               /\ pc'[d] \in {"counted", "closed"} => pre'[d] <= done
               /\ pc'[d] = "committed" => pre'[d] + 1 <= done
    <3>1. CASE d = c
      BY <1>t, <2>2, <2>5, <2>6, <3>1
    <3>2. CASE d # c
      <4> DEFINE n == Cardinality(Completed(OfUser(OwnerOf[AttemptOf[d]])))
                 m == Cardinality(Completed(OfUser(OwnerOf[AttemptOf[d]]))')
      <4>1. n \in Nat /\ m \in Nat /\ n <= m
        BY <1>g, CountGrows
      <4>2. /\ pc[d] \in {"counted", "closed"} => pre[d] <= n
            /\ pc[d] = "committed" => pre[d] + 1 <= n
        BY DEF MilestoneInv, PreIsCounted
      <4>3. pc'[d] = pc[d] /\ pre'[d] = pre[d] /\ pre[d] \in Nat
        BY <1>t, <2>2, <3>2
      <4> HIDE DEF n, m
      <4>4. /\ pc'[d] \in {"counted", "closed"} => pre'[d] <= m
            /\ pc'[d] = "committed" => pre'[d] + 1 <= m
        BY <4>1, <4>2, <4>3
      <4> QED
        BY <4>4 DEF m
    <3> QED
      BY <3>1, <3>2
  <2> QED
    BY <2>7, <2>8 DEF MilestoneInv, PreIsCounted
<1>5. ASSUME NEW c \in Calls, EmitEvents(c) PROVE MilestoneInv'
  <2> DEFINE u == OwnerOf[AttemptOf[c]]
  <2>1. /\ pc[c] = "committed" /\ status' = status
        /\ emitted' = emitted \cup {<<u, m>> : m \in Milestones \cap {pre[c] + 1}}
        /\ \A d \in Calls : pc'[d] \in {"counted", "closed", "committed"} =>
             d # c /\ pc'[d] = pc[d] /\ pre'[d] = pre[d]
    BY <1>5, <1>t DEF EmitEvents, Leave, Goto
  <2>2. \A v : Completed(OfUser(v))' = Completed(OfUser(v))
    BY <2>1 DEF Completed, OfUser
  <2>3. Cardinality(Completed(OfUser(u))) >= pre[c] + 1
    BY <1>t, <2>1, CompletedFinite DEF MilestoneInv, PreIsCounted, OfUser
  <2>4. ASSUME NEW e \in emitted' PROVE Cardinality(Completed(OfUser(e[1]))) >= e[2]
    <3>1. CASE e \in emitted
      BY <3>1 DEF MilestoneInv, MilestoneIsReached
    <3>2. CASE e \notin emitted
      <4>1. e = <<u, pre[c] + 1>>
        BY <2>1, <3>2
      <4> QED
        BY <2>3, <4>1
    <3> QED
      BY <3>1, <3>2
  <2>5. MilestoneIsReached'
    BY <2>2, <2>4 DEF MilestoneIsReached
  <2>6. PreIsCounted'
    BY <2>1, <2>2 DEF MilestoneInv, PreIsCounted
  <2> QED
    BY <2>5, <2>6 DEF MilestoneInv
<1>6. ASSUME NEW z \in Quizzes, RefreshReads(z) \/ RefreshWrites(z) PROVE MilestoneInv'
  BY <1>6, <1>t, <1>g, MilestoneFrame DEF RefreshReads, RefreshWrites
<1>7. CASE Midnight \/ UNCHANGED vars
  BY <1>7, <1>t, <1>g, MilestoneFrame DEF Midnight, vars
<1> QED
  BY <1>1, <1>2, <1>3, <1>4, <1>5, <1>6, <1>7 DEF Next, CallStep

(* A milestone is announced only to a user who has reached it, although the
   count is taken before the completion and others complete in between.      *)
THEOREM MilestonesAreReached == Spec => []MilestoneIsReached
<1>1. Init => CloseInv /\ MilestoneInv
  BY AttemptAssumption
  DEF Init, CloseInv, ClosedOnce, ClosingIsAlone, MilestoneInv, MilestoneIsReached, PreIsCounted
<1>2. Spec => []TypeOK
  BY AttemptTypeCorrect
<1> QED
  BY <1>1, <1>2, CloseStep, MilestoneStep, PTL DEF Spec, MilestoneInv
-----------------------------------------------------------------------------
(* Streaks.                                                                 *)

(* A streak row claims only days of D. *)
Earned(s, D) ==
  /\ s.longest >= s.current
  /\ s.last > 0 => s.last \in D
  /\ \A d \in Int : s.last - s.current + 1 <= d /\ d <= s.last => d \in D

(* The streak statement, on a row that may be out of date: what it writes is
   earned if both rows are and the day is yesterday or today.  A row older by
   more than a day would not do: its streak would be dated to the new one.   *)
LEMMA StreakEarned ==
  ASSUME NEW now \in Streaks, NEW old \in Streaks, NEW d \in 0 .. MaxDay, NEW t \in Nat,
         d <= t, t <= d + 1, old.last <= now.last, now.last <= t,
         NEW D, d \in D, Earned(now, D), Earned(old, D)
  PROVE  Earned(StreakUpdated(now, old, d), D) /\ StreakUpdated(now, old, d).last <= t
<1> DEFINE cur == NewCurrent(old, d)
           new == StreakUpdated(now, old, d)
           l == MaxOf(now.last, d)
<1>a. /\ now.last \in Nat /\ old.last \in Nat /\ old.current \in Nat /\ old.longest \in Nat
      /\ d \in Nat /\ cur \in Nat /\ l \in Nat
  BY AttemptAssumption DEF Streaks, NewCurrent, MaxOf
<1>b. /\ new.current = cur /\ new.last = l
      /\ new.longest = MaxOf(old.longest, cur)
  BY DEF StreakUpdated
<1>c. l = IF now.last > d THEN now.last ELSE d
  BY DEF MaxOf
<1>1. new.longest >= new.current /\ l <= t
  BY <1>a, <1>b, <1>c DEF MaxOf
<1>2. l \in D
  BY <1>a, <1>c DEF Earned
<1>3. /\ old.last = 0 => cur = 1
      /\ old.last # 0 /\ d < old.last => cur = old.current
      /\ old.last # 0 /\ d = old.last => cur = old.current
      /\ old.last # 0 /\ d = old.last + 1 => cur = old.current + 1
      /\ old.last # 0 /\ d > old.last + 1 => cur = 1
  <2>1. CASE old.last = 0
    BY <1>a, <2>1 DEF NewCurrent
  <2>2. CASE old.last # 0 /\ d < old.last
    BY <1>a, <2>2 DEF NewCurrent
  <2>3. CASE old.last # 0 /\ d = old.last
    BY <1>a, <2>3 DEF NewCurrent
  <2>4. CASE old.last # 0 /\ d = old.last + 1
    BY <1>a, <2>4 DEF NewCurrent
  <2>5. CASE old.last # 0 /\ d > old.last + 1
    BY <1>a, <2>5 DEF NewCurrent
  <2> QED
    BY <1>a, <2>1, <2>2, <2>3, <2>4, <2>5
<1> HIDE DEF cur, new, l
<1>4. ASSUME NEW k \in Int, l - cur + 1 <= k, k <= l PROVE k \in D
  <2>o. \A j \in Int : old.last - old.current + 1 <= j /\ j <= old.last => j \in D
    BY DEF Earned
  <2>1. CASE cur = 1
    BY <1>a, <1>2, <1>4, <2>1
  <2>2. CASE old.last # 0 /\ d < old.last
    <3>1. l = old.last /\ cur = old.current
      BY <1>a, <1>c, <1>3, <2>2
    <3> QED
      BY <1>4, <2>o, <3>1
  <2>3. CASE old.last # 0 /\ d = old.last
    <3>1. cur = old.current /\ (l = old.last \/ l = old.last + 1)
      BY <1>a, <1>c, <1>3, <2>3
    <3> QED
      BY <1>a, <1>2, <1>4, <2>o, <3>1
  <2>4. CASE old.last # 0 /\ d = old.last + 1
    <3>1. cur = old.current + 1 /\ (l = d \/ l = d + 1)
      BY <1>a, <1>c, <1>3, <2>4
    <3>2. CASE k = l \/ k = d
      BY <1>2, <3>2
    <3>3. CASE k # l /\ k # d
      BY <1>a, <1>4, <2>o, <2>4, <3>1, <3>3
    <3> QED
      BY <3>2, <3>3
  <2> QED
    BY <1>a, <1>3, <2>1, <2>2, <2>3, <2>4
<1> QED
  BY <1>1, <1>2, <1>4, <1>b DEF Earned, new

(* Rows are earned, and so are those a completion under way has read; a call
   meets one midnight at most, so its day is not older than yesterday.       *)
StreakInv ==
  /\ \A u \in Users : Earned(streak[u], DaysOf(u)) /\ streak[u].last <= today
  /\ \A c \in Calls : pc[c] = "closed" =>
       LET u == OwnerOf[AttemptOf[c]]
       IN  Earned(was[c], DaysOf(u)) /\ was[c].last <= streak[u].last
  /\ \A c \in Calls : Completing(c) => day[c] <= today /\ today <= day[c] + 1

(* More days earn no less. *)
LEMMA EarnedGrows ==
  ASSUME NEW s, NEW D, NEW E, D \subseteq E, Earned(s, D)
  PROVE  Earned(s, E)
  BY DEF Earned

LEMMA StreakFrame ==
  ASSUME StreakInv, Grows, UNCHANGED <<streak, today>>,
         \A c \in Calls :
           /\ pc'[c] = "closed" => pc[c] = "closed" /\ was'[c] = was[c]
           /\ Completing(c)' => Completing(c) /\ day'[c] = day[c]
  PROVE  StreakInv'
<1>1. \A u \in Users : Earned(streak[u], DaysOf(u)')
  BY CountGrows, EarnedGrows DEF StreakInv
<1>2. \A c \in Calls : pc'[c] = "closed" =>
        LET u == OwnerOf[AttemptOf[c]]
        IN  Earned(was[c], DaysOf(u)') /\ was[c].last <= streak[u].last
  BY CountGrows, EarnedGrows DEF StreakInv
<1>3. \A u \in Users : Earned(streak[u], DaysOf(u))'
  BY <1>1 DEF Earned
<1>4. \A c \in Calls : pc'[c] = "closed" =>
        LET u == OwnerOf[AttemptOf[c]]
        IN  Earned(was[c], DaysOf(u))' /\ was'[c].last <= streak'[u].last
  BY <1>2 DEF Earned
<1> QED
  BY <1>3, <1>4 DEF StreakInv

LEMMA StreakStep == TypeOK /\ CloseInv /\ StreakInv /\ [Next]_vars => StreakInv'
<1> SUFFICES ASSUME TypeOK, CloseInv, StreakInv, [Next]_vars PROVE StreakInv'
  OBVIOUS
<1> USE Signatures DEF table, calls
<1>t. /\ pc \in [Calls -> {"new", "checked", "scored", "counted", "closed", "committed", "done", "refused"}]
      /\ day \in [Calls -> 0 .. MaxDay] /\ was \in [Calls -> Streaks]
      /\ streak \in [Users -> Streaks] /\ today \in 1 .. MaxDay
      /\ status \in [Attempts -> {"none", "started", "completed", "abandoned"}]
      /\ finished \in [Attempts -> 0 .. MaxDay]
  BY DEF TypeOK, CallsTyped, TableTyped, RestTyped, Labels
<1>g. Grows
  BY CompletedGrows
<1>1. ASSUME NEW c \in Calls, CheckStart(c) \/ CheckActive(c) \/ CreateAttempt(c) \/ AbandonAttempt(c)
                              \/ SubmitAnswer(c) \/ DeleteAnswer(c)
      PROVE StreakInv'
  BY <1>1, <1>t, <1>g, StreakFrame DEF CheckStart, CheckActive, CreateAttempt, AbandonAttempt,
     SubmitAnswer, DeleteAnswer, WriteAnswer, Goto, Quiet, Completing
<1>2. ASSUME NEW c \in Calls, EmitEvents(c) \/ CallEnds(c) PROVE StreakInv'
  BY <1>2, <1>t, <1>g, StreakFrame DEF EmitEvents, CallEnds, Leave, Goto, Completing
<1>3. ASSUME NEW z \in Quizzes, RefreshReads(z) \/ RefreshWrites(z) PROVE StreakInv'
  BY <1>3, <1>t, <1>g, StreakFrame DEF RefreshReads, RefreshWrites, Completing
<1>4. CASE UNCHANGED vars
  BY <1>4, <1>t, <1>g, StreakFrame DEF vars, Completing
<1>5. CASE Midnight
  <2>1. /\ today' = today + 1 /\ UNCHANGED <<status, finished, streak, pc, day, was>>
        /\ \A c \in Calls : Completing(c) => day[c] = today
    BY <1>5 DEF Midnight
  <2>2. \A u : DaysOf(u)' = DaysOf(u)
    BY <2>1 DEF DaysOf, Completed, OfUser
  <2>3. \A u \in Users : streak[u].last \in Int
    BY <1>t DEF Streaks
  <2> QED
    BY <1>t, <2>1, <2>2, <2>3 DEF StreakInv, Earned, Completing
<1>6. ASSUME NEW c \in Calls, BeginCompletion(c) PROVE StreakInv'
  <2>1. /\ day' = [day EXCEPT ![c] = today] /\ pc' = [pc EXCEPT ![c] = "checked"]
        /\ UNCHANGED <<status, finished, streak, today, was>>
    BY <1>6 DEF BeginCompletion, Goto
  <2>2. \A u : DaysOf(u)' = DaysOf(u)
    BY <2>1 DEF DaysOf, Completed, OfUser
  <2> QED
    BY <1>t, <2>1, <2>2 DEF StreakInv, Earned, Completing
<1>9. ASSUME NEW c \in Calls, ScoreAttempt(c) \/ CountCompleted(c) PROVE StreakInv'
  BY <1>9, <1>t, <1>g, StreakFrame DEF ScoreAttempt, CountCompleted, Goto, Completing
<1>7. ASSUME NEW c \in Calls, CloseAttempt(c) PROVE StreakInv'
  <2> DEFINE u == OwnerOf[AttemptOf[c]]
  <2>1. /\ pc[c] = "counted" /\ pc' = [pc EXCEPT ![c] = "closed"] /\ was' = [was EXCEPT ![c] = streak[u]]
        /\ UNCHANGED <<status, finished, streak, today, day>>
    BY <1>7 DEF CloseAttempt, Goto
  <2>2. \A v : DaysOf(v)' = DaysOf(v)
    BY <2>1 DEF DaysOf, Completed, OfUser
  <2>3. u \in Users /\ streak[u].last \in Int /\ Earned(streak[u], DaysOf(u))
    BY <1>t DEF Streaks, StreakInv
  <2> QED
    BY <1>t, <2>1, <2>2, <2>3 DEF StreakInv, Earned, Completing
<1>8. ASSUME NEW c \in Calls, CommitCompletion(c) PROVE StreakInv'
  <2> DEFINE a == AttemptOf[c]
             u == OwnerOf[a]
             new == StreakUpdated(streak[u], was[c], day[c])
  <2>1. /\ pc[c] = "closed" /\ pc' = [pc EXCEPT ![c] = "committed"]
        /\ status' = [status EXCEPT ![a] = "completed"]
        /\ finished' = [finished EXCEPT ![a] = day[c]]
        /\ streak' = [streak EXCEPT ![u] = new]
        /\ UNCHANGED <<day, was, today>>
    BY <1>8 DEF CommitCompletion, Goto
  <2>2. a \in Attempts /\ u \in Users /\ day[c] \in DaysOf(u)'
    BY <1>t, <2>1 DEF DaysOf, Completed, OfUser
  <2>3. \A v : DaysOf(v) \subseteq DaysOf(v)'
    BY <1>g, CountGrows
  <2>4. /\ Earned(streak[u], DaysOf(u)') /\ Earned(was[c], DaysOf(u)')
        /\ was[c].last <= streak[u].last /\ streak[u].last <= today
        /\ day[c] <= today /\ today <= day[c] + 1
    BY <2>1, <2>2, <2>3, EarnedGrows DEF StreakInv, Completing
  <2>5. Earned(new, DaysOf(u)') /\ new.last <= today
    BY <1>t, <2>2, <2>4, StreakEarned
  <2>6. new.last >= streak[u].last /\ new.last \in Int /\ streak[u].last \in Int
    BY <1>t, <2>2 DEF StreakUpdated, MaxOf, Streaks
  <2> HIDE DEF new
  <2>7. ASSUME NEW v \in Users PROVE Earned(streak[v], DaysOf(v))' /\ streak'[v].last <= today'
    <3>1. CASE v = u
      BY <1>t, <2>1, <2>5, <3>1 DEF Earned
    <3>2. CASE v # u
      <4>1. Earned(streak[v], DaysOf(v)') /\ streak'[v] = streak[v] /\ streak[v].last <= today
        BY <1>t, <2>1, <2>3, <3>2, EarnedGrows DEF StreakInv
      <4> QED
        BY <2>1, <4>1 DEF Earned
    <3> QED
      BY <3>1, <3>2
  <2>8. ASSUME NEW d \in Calls, pc'[d] = "closed"
        PROVE  LET v == OwnerOf[AttemptOf[d]]
               IN  Earned(was[d], DaysOf(v))' /\ was'[d].last <= streak'[v].last
    <3> DEFINE v == OwnerOf[AttemptOf[d]]
    <3>1. pc[d] = "closed" /\ v \in Users
      BY <1>t, <2>1, <2>8
    <3>2. Earned(was[d], DaysOf(v)') /\ was[d].last <= streak[v].last
      BY <2>3, <3>1, EarnedGrows DEF StreakInv
    <3>3. streak[v].last \in Int /\ was[d].last \in Int /\ streak'[v].last \in Int
           /\ streak[v].last <= streak'[v].last
      BY <1>t, <2>1, <2>6, <3>1 DEF Streaks
    <3>4. was'[d].last <= streak'[v].last
      BY <2>1, <3>2, <3>3
    <3> QED
      BY <2>1, <3>2, <3>4 DEF Earned
  <2>9. \A d \in Calls : Completing(d)' => day'[d] <= today' /\ today' <= day'[d] + 1
    BY <1>t, <2>1 DEF StreakInv, Completing
  <2> QED
    BY <2>7, <2>8, <2>9 DEF StreakInv
<1> QED
  BY <1>1, <1>2, <1>3, <1>4, <1>5, <1>6, <1>7, <1>8, <1>9 DEF Next, CallStep

(* A streak never claims a day on which the user completed nothing, however
   completions around midnight read and write the row.                      *)
THEOREM StreaksAreEarned == Spec => []StreakIsEarned
<1>1. Init => CloseInv /\ StreakInv
  <2> SUFFICES ASSUME Init PROVE CloseInv /\ StreakInv
    OBVIOUS
  <2>1. CloseInv
    BY AttemptAssumption DEF Init, CloseInv, ClosedOnce, ClosingIsAlone
  <2>2. \A u \in Users : streak[u] = [current |-> 0, longest |-> 0, last |-> 0] /\ today = 1
    BY DEF Init, NoStreak
  <2>3. \A u \in Users : Earned(streak[u], DaysOf(u)) /\ streak[u].last <= today
    BY <2>2 DEF Earned
  <2> QED
    BY <2>1, <2>3 DEF Init, StreakInv
<1>2. Spec => []TypeOK
  BY AttemptTypeCorrect
<1>3. StreakInv => StreakIsEarned
  <2> SUFFICES ASSUME StreakInv, NEW u \in Users
               PROVE  LET s == streak[u] IN
                      /\ s.longest >= s.current
                      /\ \A d \in (s.last - s.current + 1) .. s.last : d \in DaysOf(u)
    BY DEF StreakIsEarned
  <2>1. Earned(streak[u], DaysOf(u))
    BY DEF StreakInv
  <2> QED
    BY <2>1 DEF Earned
<1> QED
  BY <1>1, <1>2, <1>3, CloseStep, StreakStep, PTL DEF Spec
=============================================================================
