SPECIFICATION Spec
CONSTANTS
  MaxScans = 1
  RunnerOf <- OwnTwice
  OwnRunners <- Own
  Projects = {}
  Private = {}
  MaxActive = 1
  MaxRestarts = 1
  UserCommands = {"stop", "pause"}
CHECK_DEADLOCK FALSE
INVARIANTS
  TypeOK
PROPERTIES
  TrackingKept
