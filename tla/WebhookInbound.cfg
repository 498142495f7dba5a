SPECIFICATION FairSpec
CONSTANTS
  None = None
  Requests = {r1, r2}
  Manual = {m1}
INVARIANTS
  HandledOnce
  LostOnlyToAnother
  InboundInvariant
PROPERTY EveryRequestAnswered
CHECK_DEADLOCK FALSE
