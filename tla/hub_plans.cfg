SPECIFICATION Spec
CONSTANTS
  e1 = e1  e2 = e2  p1 = p1  p2 = p2  x1 = x1  x2 = x2
  None = None
  Executors = {e1, e2}
  Performers = {p1, p2}
  Exprs = {x1}
  ExprOf <- SameAction
  PlanOf <- TwoPlans
  CanDo <- AllCanDo
  After <- Unordered
  SlowPerformers = FALSE
  TickRaces = FALSE
  Backlog = 1
  MaxPlans = 1
  MaxUnstarted = 0
  MaxCrashes = 0
  Endless = FALSE
INVARIANTS ConfirmFindsPerformerReady
PROPERTY ImplementsAssignment
CHECK_DEADLOCK FALSE
SYMMETRY PerformerSymmetry
