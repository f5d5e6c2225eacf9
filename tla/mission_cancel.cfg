SPECIFICATION Spec
CONSTANTS
  MaxReplans = 1
  MaxGoals = 2
  MaxActions = 0
  MayThrow = FALSE
PROPERTY OnlyTheMissionMeantIsCancelled
CHECK_DEADLOCK FALSE
