SPECIFICATION Spec
CONSTANTS
  e1 = e1  e2 = e2  p1 = p1  p2 = p2  x1 = x1  x2 = x2
  None = None
  Executors = {e1, e2}
  Performers = {p1, p2}
  Exprs = {x1, x2}
  ExprOf <- TwoActions
  PlanOf <- OnePlan
  CanDo <- AllCanDo
  After <- Unordered
  SlowPerformers = FALSE
  TickRaces = TRUE
  Backlog = 1
  MaxPlans = 0
  MaxUnstarted = 0
  MaxCrashes = 0
  Endless = FALSE
INVARIANTS TypeOK ConfirmFindsPerformerReady RunningIsServed ExclusiveWork CommitmentIsAnswered
PROPERTY SuccessIsFinal
CHECK_DEADLOCK FALSE
SYMMETRY FullSymmetry
