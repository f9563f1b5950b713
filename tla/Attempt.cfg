SPECIFICATION MCSpec
CONSTANTS
  u1 = u1
  admin = admin
  z1 = z1
  z2 = z2
  q1 = q1
  q2 = q2
  q3 = q3
  a1 = a1
  a2 = a2
  a3 = a3
  a4 = a4
  start1 = start1
  start4 = start4
  right1 = right1
  skip1 = skip1
  wrong2 = wrong2
  drop1 = drop1
  quit1 = quit1
  quit1byAdmin = quit1byAdmin
  end1 = end1
  end1byAdmin = end1byAdmin
  end2 = end2
  end4 = end4
  Attempts <- MCAttempts
  Users <- MCUsers
  Quizzes <- MCQuizzes
  Questions <- MCQuestions
  Admins <- MCAdmins
  OwnerOf <- MCOwnerOf
  QuizOf <- MCQuizOf
  Calls <- MCCalls
  KindOf <- MCKindOf
  AttemptOf <- MCAttemptOf
  CallerOf <- MCCallerOf
  QuestionOf <- MCQuestionOf
  AnswerOf <- MCAnswerOf
  Milestones <- MCMilestones
  Unrewarded <- MCUnrewarded
  PassingScore = 50
  MaxDay = 3
INVARIANTS TypeOK ClosedOnce ScoreMatchesAnswers StreakIsEarned MilestoneIsReached
PROPERTY StatsHeal
