SPECIFICATION RecoverySpec
CONSTANTS
  Runs = {r1}
  Commands = {c1}
  NoRun = NoRun
  MaxStep = 1
  MaxCall = 3
  MaxDelta = 1
  FailureReasons <- MCFailures
  Outcomes <- MCFewOutcomes
CHECK_DEADLOCK FALSE
INVARIANTS
  ActiveSets
  OneOperation
  ToolOrder
  Gate
  CleanupKept
  ResolvedAreReal
  AlwaysReopens
  RecoveryInventsNothing
PROPERTIES
  NoDispatchOnceStopped
  HistoryOnlyGrows
