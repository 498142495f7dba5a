SPECIFICATION FairCacheSpec
CONSTANTS
  None = None
  Calls = {c1, c2, c3}
  MaxCalls = 4
  MaxCrashes = 1
INVARIANTS
  CacheInvariant
PROPERTIES
  GivenWhole
  CallsEnd
CHECK_DEADLOCK FALSE
