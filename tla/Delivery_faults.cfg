SPECIFICATION Spec
CONSTANTS
  MaxSeq = 2
  MaxExecs = 2
  MaxConns = 2
  MaxFaults = 1
  Faults = {"coordRestart", "putFails", "agentRestart"}
  Kinds = {"data", "end"}
  AckEvery = 2
  MaxUnacked = 5
  LateWriter = FALSE
INVARIANTS AckedArePersisted MarkCoversPersisted
PROPERTY ImplementsLedger
CHECK_DEADLOCK FALSE
