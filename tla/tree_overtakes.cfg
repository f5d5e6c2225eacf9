SPECIFICATION Spec
CONSTANTS
  Facts = {"here", "there", "charged", "seen"}
  Actions = {"go", "look", "charge", "report", "beep"}
  Act <- Repertory
  InitialFacts = {"here", "charged"}
  Plans <- ShortPlans
  MaxMissions = 1
  MaxChanges = 1
  MaxFailures = 1
INVARIANT ArcsAreEnough
CHECK_DEADLOCK FALSE
