SPECIFICATION QuotaSpec
CONSTANTS
  r1 = r1
  r2 = r2
  r3 = r3
  m1 = m1
  Requests = {r1, r2, r3}
  Models = {m1}
  Interval = 1
  Window = 2
  Threshold = 3
  Block = 3
  Resets = {0, 2}
INVARIANTS
  BlockIsInTheCache
PROPERTIES
  BlockIsEarned
  OneCallPerInterval
  EveryRefusalIsJudged
