SPECIFICATION LiveSpec
CONSTANTS
  Events = {1, 2, 3}
  AggOf <- LiveAggOf
  KeyOf <- LiveKeyOf
  NoKey = NoKey
  Bad = {3}
  Workers = {c1, a1, r1}
  ProcOf <- LiveProcOf
  PodOf <- LivePodOf
  Free = Free
  Orphan = Orphan
  MaxRetries <- LimitTwo
  BatchSize = 1
  MaxFaults = 1
  MaxOps = 0
  c1 = c1
  a1 = a1
  r1 = r1
  pod1 = pod1
  pod2 = pod2
PROPERTIES EventuallySettled
CHECK_DEADLOCK FALSE
