SPECIFICATION EventsSpec
CONSTANTS
  NumProfiles = 2
  NumEndpoints = 1
  NumIterations = 2
  Slots = 2
  PipeCap = 1
  SubCap = 1
  CheckEvery = 2
  Resumes = {}
  RunFaults = {}
  MaxRunFaults = 0
INVARIANT CheckpointsAreSafe
CHECK_DEADLOCK FALSE
