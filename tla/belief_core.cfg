SPECIFICATION Spec
CONSTANTS
  Agents = {"r1"}
  Facts <- AllFacts
  Ontic = {"drive out", "drive back"}
  Sensing = {"inspect"}
  Events = {"e blocked", "e clear"}
  EventsOf <- OneLooks
  Where <- PlacesOfOne
  Means <- Answering
  Effect <- Move
  Sensor <- OneRobot
  Formulas <- Sayable
  Tasks <- Corridors
  Goals <- Aimable
  RepairsSeriality = TRUE
  None = None
  MaxActs = 3
  MaxLoads = 1
  MaxVersion = 1
  MaxTimeouts = 1
  MaxChanges = 1
INVARIANTS TypeOK SensorKnows SomethingIsPossible PublishedIsCurrent
PROPERTIES TruthStaysPossible RepairFindsTruth
CHECK_DEADLOCK FALSE
