CONSTANTS
  NodeCount = 4
  Labels = {"a", "b"}
  MaxSignals = 1
  Templates <- Gallery
SPECIFICATION Spec
INVARIANT StopEndsRun
CHECK_DEADLOCK FALSE
