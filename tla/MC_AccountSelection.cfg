SPECIFICATION Spec
CONSTANTS
  Conns = {1, 2, 3}
  Requests = {r1, r2}
  StickyLimit = 2
  SameMs = FALSE
  MaxCalls = 6
  MaxEdits = 1
INVARIANTS
  UsageReadIsCurrent
  NoAccountStarves
PROPERTY EveryCallReturns
CHECK_DEADLOCK FALSE
