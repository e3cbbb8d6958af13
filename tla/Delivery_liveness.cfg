SPECIFICATION FairSpec
CONSTANTS
  MaxSeq = 2
  MaxExecs = 1
  MaxConns = 2
  MaxFaults = 0
  Faults = {}
  Kinds = {"end", "log"}
  AckEvery = 2
  MaxUnacked = 5
  LateWriter = FALSE
PROPERTIES EveryEventSettles AcksArrive
CHECK_DEADLOCK FALSE
