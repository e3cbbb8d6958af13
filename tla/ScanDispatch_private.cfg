SPECIFICATION Spec
CONSTANTS
  MaxScans = 1
  RunnerOf <- PoolOnce
  OwnRunners <- Own
  Projects = {}
  Private = {1}
  MaxActive = 1
  MaxRestarts = 0
  UserCommands = {}
CHECK_DEADLOCK FALSE
INVARIANTS
  PrivateStaysPrivate
