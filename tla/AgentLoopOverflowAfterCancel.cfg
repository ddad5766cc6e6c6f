SPECIFICATION Spec
CONSTANTS
  Commands = {c1}
  MaxStep = 1
  MaxCall = 0
  MaxDelta = 0
  MaxParallel = 1
  FailureReasons <- MCFailures
  Faults = {"context"}
CHECK_DEADLOCK FALSE
PROPERTY
  NoCompactionAfterCancel
