SPECIFICATION Spec
CONSTANTS
  Names = {"r", "k"}
  Types = {"thing", "robot", "place"}
  Constant <- Declared
  Predicates = {"known", "at", "reachable"}
  Fluents = {"battery"}
  Param <- Stands
  Derives <- Derivations
  Values = {0, 1}
  Goals <- Aims
  Problems <- Starts
  Watched = "reachable"
  None = None
  MaxNotices = 1
INVARIANTS TypeOK StoredIsGrounded StoredIsValid GoalIsGrounded KeptCheckHolds
CHECK_DEADLOCK FALSE
