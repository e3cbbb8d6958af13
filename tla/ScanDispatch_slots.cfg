SPECIFICATION Spec
CONSTANTS
  MaxScans = 2
  RunnerOf <- OwnAndPool
  OwnRunners <- Own
  Projects = {1}
  Private = {2}
  MaxActive = 1
  MaxRestarts = 0
  UserCommands = {}
CHECK_DEADLOCK FALSE
INVARIANTS
  CapacityRespected
