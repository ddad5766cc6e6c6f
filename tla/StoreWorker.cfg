SPECIFICATION Spec
CONSTANTS
  MaxSession = 2
  MaxRun = 2
  MaxStarts = 2
  NormalBudget = 6
  HardBudget = 7
  CacheLimit = 1
  Commands <- MCCommands
  Roots <- Nested
CHECK_DEADLOCK FALSE
INVARIANT
  CachesAgree
PROPERTIES
  WorkspaceGate
  DeletedAtRest
  StartupIsAtomic
  LedgerSpec
