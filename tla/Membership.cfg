SPECIFICATION Spec
CONSTANTS
  None = None
  Users = {u1, u2, u3}
  Requests = {r1, r2}
  MaxRequests = 4
  MaxInvites = 2
SYMMETRY AnyUserAnyRequest
INVARIANTS
  MembershipInvariant
  OwnerStays
  InvitesAreForOutsiders
PROPERTIES
  SuperadminStays
CHECK_DEADLOCK FALSE
