SPECIFICATION FairSpec
CONSTANTS
  e1 = e1  e2 = e2  p1 = p1  p2 = p2  x1 = x1  x2 = x2
  None = None
  Executors = {e1}
  Performers = {p1, p2}
  Exprs = {x1}
  ExprOf <- OneAction
  PlanOf <- OnePlan
  CanDo <- AllCanDo
  After <- Unordered
  SlowPerformers = FALSE
  TickRaces = FALSE
  Backlog = 1
  MaxPlans = 0
  MaxUnstarted = 1
  MaxCrashes = 0
  Endless = FALSE
PROPERTY CommitmentsEnd
CHECK_DEADLOCK FALSE
