SPECIFICATION Spec
CONSTANTS
  Solvers = {s1, s2}
  Wrapped = {s1}
  Requests = {r1, r2}
  None = None
  Managed <- MCManaged
  MaxCrashes = 1
INVARIANTS TypeOK SolversAreNotShared ActivatedInOrder FailsForAReason
PROPERTIES StartupEnds EveryRequestIsAnswered
CHECK_DEADLOCK FALSE
