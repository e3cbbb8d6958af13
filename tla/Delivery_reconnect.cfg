SPECIFICATION Spec
CONSTANTS
  MaxSeq = 2
  MaxExecs = 2
  MaxConns = 2
  MaxFaults = 1
  Faults = {"refuseClaim", "tooLarge", "persistFails"}
  Kinds = {"data"}
  AckEvery = 2
  MaxUnacked = 1
  LateWriter = FALSE
INVARIANTS TypeOK NothingForgotten NeverProcessedTwice
CHECK_DEADLOCK FALSE
