SPECIFICATION HostSpec
CONSTANTS
  Users = {u1, u2}
  MaxSession = 1
  MaxRun = 1
  MaxPending = 2
  MaxStarts = 1
  NormalBudget = 4
  HardBudget = 6
  CacheLimit = 1
  Commands <- MCCommands
  Roots = {}
  Endings = {}
CHECK_DEADLOCK FALSE
INVARIANT
  DeletionSparesHost
