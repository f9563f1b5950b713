SPECIFICATION MCSpec
CONSTANTS
  attempt = attempt
  bonus = bonus
  pod1 = pod1
  pod2 = pod2
  Grants <- MCGrants
  Attempts <- MCAttempts
  Pods <- MCPods
  MaxFaults = 3
INVARIANTS TypeOK CreditedOnce
PROPERTIES CreditedIfNothingFails
CHECK_DEADLOCK FALSE
