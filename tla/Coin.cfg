SPECIFICATION CoinSpec
CONSTANTS
  u1 = u1
  u2 = u2
  author1 = author1
  author2 = author2
  quiz1 = quiz1
  badge1 = badge1
  none = none
  reward = reward
  bonus = bonus
  again = again
  other = other
  streak = streak
  tip1 = tip1
  tip1retry = tip1retry
  tip2 = tip2
  flair = flair
  hide1 = hide1
  hide2 = hide2
  claw = claw
  streak2 = streak2
  Users <- MCUsers
  Requests <- MCRequests
  KindOf <- MCKindOf
  UserOf <- MCUserOf
  AmountOf <- MCAmountOf
  KeyOf <- MCKeyOf
  TargetOf <- MCTargetOf
  After <- MCAfter
  NoRequest = none
  Badges <- MCBadges
  WalletMax = 5
  EarnCap = 3
  TipCap = 1
  MaxDay = 2
INVARIANTS TypeOK WalletMatchesLedger OneRowPerKey LimitsHoldSerially
CHECK_DEADLOCK FALSE
