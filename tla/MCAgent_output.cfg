SPECIFICATION AgentSpec
CONSTANTS
  Runs = {r1}
  Senders = {g1, g2}
  Repliers = {a1}
  Low = 0
  High = 1
  Hard = 1
  MaxRequests = 3
  MaxStarts = 2
  NumProfiles = 1
  NumEndpoints = 2
  NumIterations = 2
  Slots = 2
  PipeCap = 1
  SubCap = 1
  CheckEvery = 3
  Resumes <- SecondEndpoint
  RunFaults = {"stop", "workerPanic", "runPanic", "startFails", "brokenEvent"}
  MaxRunFaults = 1
  RunIds = {r1, r2}
  MaxExecutions = 2
  MaxDuration = 2
  MaxClock = 5
CHECK_DEADLOCK FALSE
INVARIANTS
  HeldTogether HardLimitKept
  FinalStatsAreWhole CompleteMeansAll
  ActiveIsRunning EndIsWritten
  HeldTimeNotCounted
PROPERTIES
  OrderedOnWire HeldAreReleased RoomComes RepliesLeave
  NoCheckpointAfterMiss CheckpointSafeInPlace EndIsReported
