SPECIFICATION TournamentSpec
CONSTANTS
  ann = ann
  bob = bob
  annJoins = annJoins
  annJoinsAgain = annJoinsAgain
  bobJoins = bobJoins
  annLeaves = annLeaves
  annQuits = annQuits
  later = later
  sooner = sooner
  room2 = room2
  room1 = room1
  remove = remove
  cancel1 = cancel1
  cancel2 = cancel2
  add3 = add3
  annPlays1 = annPlays1
  annPlays1Again = annPlays1Again
  annPlays2 = annPlays2
  Users <- MCUsers
  Rounds <- MCRounds
  RoundStart <- MCRoundStart
  RoundEnd <- MCRoundEnd
  Calls <- MCCalls
  CallOf <- MCCallOf
  Passes <- MCPasses
  JobOf <- MCJobOf
  PageSize = 1
  Window = 3
  Points = {1}
  Horizon = 3
  MaxFailures = 1

PROPERTY RegistrationOpens
CHECK_DEADLOCK FALSE
