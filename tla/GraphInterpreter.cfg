CONSTANTS
  NodeCount = 4
  Labels = {"a", "b"}
  MaxSignals = 2
  Templates <- All
SPECIFICATION FairSpec
INVARIANTS
  NodeRunsOnce
  QueueInvariant
  NothingStranded
  ReturnsLatestResponse
PROPERTIES
  ImplementsDataflow
  Terminates
CHECK_DEADLOCK FALSE
