SPECIFICATION FairSpec
CONSTANTS
  e1 = e1  e2 = e2  p1 = p1  p2 = p2  x1 = x1  x2 = x2
  None = None
  Executors = {e1}
  Performers = {p1, p2}
  Exprs = {x1}
  ExprOf <- OneAction
  PlanOf <- OnePlan
  CanDo <- AllCanDo
  After <- Unordered
  SlowPerformers = FALSE
  TickRaces = TRUE
  Backlog = 1
  MaxPlans = 0
  MaxUnstarted = 1
  MaxCrashes = 1
  Endless = TRUE
INVARIANTS ExclusiveWork DoneMeansDone
PROPERTY EveryDealIsSettled
CHECK_DEADLOCK FALSE
