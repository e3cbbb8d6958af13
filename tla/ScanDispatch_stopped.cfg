SPECIFICATION Spec
CONSTANTS
  MaxScans = 1
  RunnerOf <- OwnTwice
  OwnRunners <- Own
  Projects = {}
  Private = {}
  MaxActive = 1
  MaxRestarts = 0
  UserCommands = {"stop"}
CHECK_DEADLOCK FALSE
PROPERTIES
  EndedStaysEnded
