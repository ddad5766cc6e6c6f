SPECIFICATION Spec
CONSTANTS
  Commands = {c1}
  MaxStep = 2
  MaxCall = 1
  MaxDelta = 1
  MaxParallel = 2
  FailureReasons <- MCFailures
  Faults = {"context"}
CHECK_DEADLOCK FALSE
INVARIANTS
  RetryHasCheckpoint
PROPERTIES
  LoopCloses
