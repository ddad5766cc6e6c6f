SPECIFICATION Spec
CONSTANTS
  Commands = {c1}
  MaxStep = 1
  MaxCall = 2
  MaxDelta = 1
  MaxParallel = 2
  FailureReasons <- MCFailures
  Faults <- MCFaults
CHECK_DEADLOCK FALSE
INVARIANTS
  LeftOpen
PROPERTIES
  LoopEnds
