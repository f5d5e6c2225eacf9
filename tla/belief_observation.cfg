SPECIFICATION Spec
CONSTANTS
  Agents = {"r1"}
  Facts <- AllFacts
  Ontic = {"drive out", "drive back"}
  Sensing = {"inspect"}
  Events = {"e blocked", "e clear"}
  EventsOf <- OneLooks
  Where <- PlacesOfOne
  Means <- Answering
  Effect <- Move
  Sensor <- OneRobot
  Formulas <- Sayable
  Tasks <- Corridors
  Goals <- Aimable
  RepairsSeriality = FALSE
  None = None
  MaxActs = 3
  MaxLoads = 1
  MaxVersion = 1
  MaxTimeouts = 1
  MaxChanges = 0
INVARIANT TheObservationWins
CHECK_DEADLOCK FALSE
