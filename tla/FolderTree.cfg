SPECIFICATION FairSpec
CONSTANTS
  None = None
  Folders = {f1, f2, f3}
  Workflows = {w1}
  Requests = {r1, r2}
  MaxRequests = 4
INVARIANTS
  FolderInvariant
  AllShown
PROPERTY RequestsEnd
CHECK_DEADLOCK FALSE
