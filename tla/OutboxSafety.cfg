SPECIFICATION SafetySpec
CONSTANTS
  Events <- MCEvents
  AggOf <- MCAggOf
  KeyOf <- MCKeyOf
  NoKey = NoKey
  Bad <- MCBad
  Workers <- MCWorkers
  ProcOf <- MCProcOf
  PodOf <- MCPodOf
  Free = Free
  Orphan = Orphan
  MaxRetries <- LimitTwo
  BatchSize = 2
  MaxFaults = 2
  MaxOps = 1
  c1 = c1
  c2 = c2
  a1 = a1
  a2 = a2
  t1 = t1
  t2 = t2
  r1 = r1
  x1 = x1
  pod1 = pod1
  pod2 = pod2
  k1 = k1
INVARIANTS TypeOK AtLeastOnce DlqIsEarned LeaseIsExclusive
PROPERTIES ProcessedNeverDlqd KeepsContract
CHECK_DEADLOCK FALSE
