SPECIFICATION Spec
CONSTANTS
  Commands = {c1}
  MaxStep = 1
  MaxCall = 2
  MaxDelta = 0
  MaxParallel = 2
  FailureReasons <- MCFailures
  Faults = {"write_refused"}
CHECK_DEADLOCK FALSE
PROPERTY
  RefusedWritePropagates
