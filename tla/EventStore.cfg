SPECIFICATION HostSpec
CONSTANTS
  Users = {u1, u2}
  MaxSession = 1
  MaxRun = 1
  MaxPending = 2
  MaxStarts = 2
  NormalBudget = 4
  HardBudget = 6
  CacheLimit = 1
  Commands <- MCCommands
  Roots = {}
  Endings = {"close", "crash", "worker_exit", "disk"}
CHECK_DEADLOCK FALSE
INVARIANTS
  NoOrphan
  NeverResumed
PROPERTIES
  CallsSettle
  AcceptedRunsEnd
