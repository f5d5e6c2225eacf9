SPECIFICATION FairSpec
CONSTANTS
  MaxReplans = 1
  MaxGoals = 4
  MaxActions = 1
  MayThrow = TRUE
INVARIANTS TypeOK OnlyCrossedRequestsTerminate SuccessIsOfTheTree
  FruitlessReplansEnd MissionsAreOfActiveGoals
PROPERTY EveryGoalEnds
CHECK_DEADLOCK FALSE
