SPECIFICATION FairSpec
CONSTANTS
  Cancellers = {c1, c2}
  Origins <- AllOrigins
  MaxAttempts = 2
INVARIANTS
  CompletedRunWasRecorded
  RecordAgrees
  LifecycleInvariant
PROPERTIES
  DeletedStaysDeleted
  CancelEndsRun
CHECK_DEADLOCK FALSE
