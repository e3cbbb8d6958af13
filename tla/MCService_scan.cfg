SPECIFICATION ServiceSpec
CONSTANTS
  MaxScans = 2
  RunnerOf <- PoolOnce
  OwnRunners <- Own
  Projects = {}
  Private = {}
  MaxActive = 1
  MaxRestarts = 0
  UserCommands = {}
  Callers = {q1, q2, q3}
  Ceiling = 3
  Requesters = {q1}
  Calls = {q1, q2}
  HasProbe = TRUE
  MaxLogins = 2
  MaxEnds = 1
  Tokens = {t1}
  MaxCallbacks = 2
  MaxCuts = 1
  McpCalls = {k1, k2}
  MaxAnswers = 2
  MaxReconnects = 1
  MaxSaid = 1
  MaxTrouble = 2
CHECK_DEADLOCK FALSE
INVARIANTS
  NoSlotLost
  NoLostWakeup
  OneLoginPerSession
  ReportedOnce
  ReaderCanSend
  NoOrphanedCall
  EndReportedOnce
PROPERTIES
  QueuedIsDispatched
  CallbackReported
  EndIsLearned
