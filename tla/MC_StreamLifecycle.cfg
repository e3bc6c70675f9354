SPECIFICATION Spec
CONSTANTS
  Requests = {r1, r2}
  StallTimeout = 2
  PendingTimeout = 1
  AbortDelay = 1
  MaxChunks = 2
INVARIANTS
  ReleasedOnce
  PendingIsLive
PROPERTY EveryRequestEnds
