SPECIFICATION Spec
CONSTANTS
  Scans = {"s1"}
  Events <- Mixed
  Bad <- OneBad
  MaxEvents = 2
  Workers = {w1, w2}
  BatchSize = 2
  MaxRetries = 1
  MaxMarks = 1
  MaxIncidents = 2
  Incidents = {"sendFails", "replay", "quota", "d1", "crash", "stall", "stop", "delete"}
SYMMETRY Alike
CHECK_DEADLOCK FALSE
INVARIANTS
  EventsAreHeld OneOutcome DeletedKeepsNothing DeadAreBad
PROPERTIES
  ProgressNeverGoesBack
