SPECIFICATION InstanceSpec
CONSTANTS
  host = host
  ann = ann
  bob = bob
  joinAnn = joinAnn
  joinAnnAgain = joinAnnAgain
  joinBob = joinBob
  count1 = count1
  count2 = count2
  cancel1 = cancel1
  start1 = start1
  start2 = start2
  close1 = close1
  close2 = close2
  closeByAnn = closeByAnn
  Users <- MCUsers
  Host = host
  Calls <- MCCalls
  KindOf <- MCKindOf
  UserOf <- MCUserOf
  Passes <- MCPasses
  MinPlayers = 2
  MaxPlayers = 2
  MaxFailures = 1
INVARIANTS TypeOK SeatsHold AnnouncedOnce
PROPERTIES KeepsRoom CountdownEnds
CHECK_DEADLOCK FALSE
