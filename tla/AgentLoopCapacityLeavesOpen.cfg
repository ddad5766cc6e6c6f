SPECIFICATION Spec
CONSTANTS
  Commands = {c1}
  MaxStep = 1
  MaxCall = 2
  MaxDelta = 0
  MaxParallel = 1
  FailureReasons <- MCFailures
  Faults = {"session_capacity"}
CHECK_DEADLOCK FALSE
INVARIANT
  CapacityCloses
