SPECIFICATION Spec
CONSTANTS
  Models = {m1, m2, free}
  AllModels = all
  FreeModels = {free}
  Conns = {1, 2}
  Requests = {r1, r2}
  RoundRobin = FALSE
  Failures = {"backoff", "monthly"}
  BackoffBase = 1
  BackoffMax = 2
  MaxLevel = 2
  Short = 1
  Transient = 1
  Long = 2
  ResetCap = 2
  ProviderReset = 3
  NextMonth = 3
  MaxNow = 2
  MaxEdits = 1
INVARIANTS
  ActiveRowIsClean
PROPERTIES
  SuccessKeepsLocksItSaw
  LocksReleasedForCause
  RetryAfterIsUseful
  ImplementsFallback
SYMMETRY Symmetry
CHECK_DEADLOCK FALSE
