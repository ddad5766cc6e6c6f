SPECIFICATION Spec
CONSTANTS
  Runs = {r1}
  Commands = {c1}
  NoRun = NoRun
  MaxStep = 2
  MaxCall = 1
  MaxDelta = 0
  FailureReasons <- MCFailures
  Outcomes <- MCOutcomes
CHECK_DEADLOCK FALSE
INVARIANTS
  TypeOK
  TerminalClosed
  CompletedWhole
  HistoryBuildable
PROPERTY
  HistoryFrozen
