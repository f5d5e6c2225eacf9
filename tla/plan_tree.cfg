SPECIFICATION Spec
CONSTANTS
  Facts = {"here", "there", "charged", "seen"}
  Actions = {"go", "look", "charge", "report", "beep"}
  Act <- Repertory
  InitialFacts = {"here", "charged"}
  Plans <- ShortPlans
  MaxMissions = 2
  MaxChanges = 1
  MaxFailures = 1
INVARIANTS TypeOK EffectsFollowWork NestingIsEnough RenderedOnce
PROPERTIES EndEffectsAreChecked MissionsEnd
CHECK_DEADLOCK FALSE
