SPECIFICATION RetrySpec
CONSTANTS
  e1 = e1
  e2 = e2
  Events <- MCEvents
  FailsOn <- MCFailsOn
  Handlers = {1, 2}
  MaxRetries = 2
  DelayOf <- MCDelayOf
  Pods <- MCPods
  DrainBatch = 2
  ListLimit = 1
  PushKey = "attempt:event_dead_letter"
  PopKeys <- MCPopKeys
  MaxFaults = 1
INVARIANTS RetryBudget
 
CHECK_DEADLOCK FALSE
