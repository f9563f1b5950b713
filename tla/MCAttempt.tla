----------------------------- MODULE MCAttempt -----------------------------
(* Small attempts, each around one hazard; the initial state picks one.      *)
EXTENDS Attempt

CONSTANTS u1, admin, z1, z2, q1, q2, q3, a1, a2, a3, a4,
          start1, start4, right1, skip1, wrong2, drop1, quit1, quit1byAdmin,
          end1, end1byAdmin, end2, end4

MCOwnerOf == [a \in {a1, a2, a3, a4} |-> u1]
MCQuizOf  == [a \in {a1, a2, a3, a4} |-> IF a = a2 THEN z2 ELSE z1]

C(kind, attempt, caller, question, answer) ==
  [kind |-> kind, attempt |-> attempt, caller |-> caller, question |-> question, answer |-> answer]

Book ==
  [c \in {start1, start4, right1, skip1, wrong2, drop1, quit1, quit1byAdmin,
          end1, end1byAdmin, end2, end4} |->
    CASE c = start1 -> C("start", a1, u1, q1, "right")
      [] c = start4 -> C("start", a4, u1, q1, "right")
      [] c = right1 -> C("submit", a1, u1, q1, "right")
      [] c = skip1  -> C("submit", a1, u1, q1, "skipped")
      [] c = wrong2 -> C("submit", a1, u1, q2, "wrong")
      [] c = drop1  -> C("withdraw", a1, u1, q1, "right")
      [] c = quit1  -> C("abandon", a1, u1, q1, "right")
      [] c = quit1byAdmin -> C("abandon", a1, admin, q1, "right")
      [] c = end1   -> C("complete", a1, u1, q1, "right")
      [] c = end1byAdmin -> C("complete", a1, admin, q1, "right")
      [] c = end2   -> C("complete", a2, u1, q1, "right")
      [] c = end4   -> C("complete", a4, u1, q1, "right")]

MCAttempts == {a1, a2, a3, a4}
MCUsers == {u1}
MCQuizzes == {z1, z2}
MCQuestions == {q1, q2, q3}
MCAdmins == {admin}
MCCalls == DOMAIN Book
MCKindOf == [c \in MCCalls |-> Book[c].kind]
MCAttemptOf == [c \in MCCalls |-> Book[c].attempt]
MCCallerOf == [c \in MCCalls |-> Book[c].caller]
MCQuestionOf == [c \in MCCalls |-> Book[c].question]
MCAnswerOf == [c \in MCCalls |-> Book[c].answer]
MCUnrewarded == {z2}
MCMilestones == {2, 3}

(* The calls of a scenario, the attempts already started, those completed on
   day 1 without an answer, the day it begins on, whether the first attempt
   has answers.  A scenario that begins on the last day has no midnight.    *)
Scenarios ==
  { [calls |-> {right1, skip1, drop1, end1}, started |-> {a1}, over |-> {}, from |-> 3, answered |-> TRUE],
    [calls |-> {wrong2, end1, end1byAdmin, quit1, quit1byAdmin}, started |-> {a1}, over |-> {}, from |-> 3, answered |-> FALSE],
    [calls |-> {end1, end2}, started |-> {a1, a2}, over |-> {a3}, from |-> 1, answered |-> FALSE],
    [calls |-> {start1, start4, end1, end4}, started |-> {}, over |-> {}, from |-> 2, answered |-> FALSE] }

Unanswered == [q \in Questions |-> "none"]
AllRight == [q \in Questions |-> "right"]    \* and no XP for it

(* Up to three answers, so that a score may have to be rounded. *)
Answered ==
  { [q \in Questions |-> CASE q = q1 -> r[1] [] q = q2 -> r[2] [] q = q3 -> r[3]] :
      r \in {"none", "skipped", "right", "wrong"} \X {"right"} \X {"none", "wrong"} }

(* Calls outside the scenario are never made: they count as refused. *)
ScenarioInit ==
  \E s \in Scenarios :
    /\ status = [a \in Attempts |-> CASE a \in s.started -> "started"
                                   [] a \in s.over -> "completed"
                                   [] OTHER -> "none"]
    /\ \E first \in IF s.answered THEN Answered ELSE {Unanswered} :
         answers = [a \in Attempts |-> CASE a = a1 -> first
                                         [] a = a2 /\ a \in s.started -> AllRight
                                         [] OTHER -> Unanswered]
    /\ score = [a \in Attempts |-> 0]
    /\ finished = [a \in Attempts |-> IF a \in s.over THEN 1 ELSE 0]
    /\ closings = [a \in Attempts |-> IF a \in s.over THEN 1 ELSE 0]
    /\ xpRows = [a \in Attempts |-> 0]
    /\ total = [z \in Quizzes |-> Cardinality(s.over \cap OfQuiz(z))]
    /\ streak = [u \in Users |-> IF s.over = {} THEN NoStreak ELSE [current |-> 1, longest |-> 1, last |-> 1]]
    /\ emitted = {}
    /\ pc = [c \in Calls |-> IF c \in s.calls THEN "new" ELSE "refused"]
    /\ day = [c \in Calls |-> 0] /\ mark = [c \in Calls |-> 0] /\ pre = [c \in Calls |-> 0]
    /\ was = [c \in Calls |-> NoStreak]
    /\ recount = [z \in Quizzes |-> -1]
    /\ today = s.from
    /\ raced = {}

MCSpec == ScenarioInit /\ [][Next]_vars /\ Fairness
=============================================================================
