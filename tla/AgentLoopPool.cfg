SPECIFICATION Spec
CONSTANTS
  Commands = {c1}
  MaxStep = 1
  MaxCall = 3
  MaxDelta = 0
  MaxParallel = 2
  FailureReasons <- MCFailures
  Faults = {"cleanup_failed", "write_refused"}
CHECK_DEADLOCK FALSE
INVARIANTS
  PoolBound
  Drained
PROPERTIES
  Ledger
