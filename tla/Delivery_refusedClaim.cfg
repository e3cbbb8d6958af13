SPECIFICATION Spec
CONSTANTS
  MaxSeq = 2
  MaxExecs = 2
  MaxConns = 2
  MaxFaults = 1
  Faults = {"refuseClaim"}
  Kinds = {"data"}
  AckEvery = 2
  MaxUnacked = 5
  LateWriter = FALSE
INVARIANT RefusedStayUnacked
CHECK_DEADLOCK FALSE
