SPECIFICATION FairSpec
CONSTANTS
  c1 = c1
  c2 = c2
  c3 = c3
  Calls <- MCCalls
  FailureThreshold = 2
  ResetTimeout = 2
INVARIANTS TypeOK CoolDownArmed
PROPERTIES ProbeAfterQuiet CoolDownEnds
