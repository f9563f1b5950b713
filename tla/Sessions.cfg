CONSTANTS
  Logins = {"l1", "l2", "l3"}
  Refreshes = {"r1", "r2"}
  DeviceOf <- MCDevices
  MaxActive = 2
  Ttl = 1
  Grace = 0
  Strict = TRUE
  MaxTime = 2
SPECIFICATION Spec
INVARIANTS LimitHolds ReuseIsReal
CHECK_DEADLOCK FALSE
