SPECIFICATION CombosSpec
CONSTANTS
  a = a
  b = b
  p = p
  Requests = {r1, r2}
  Lists <- EditedLists
  Pool <- AdapterPool
  Capable <- Attachments
  RoundRobin = TRUE
  StickyLimit = 2
  MaxEdits = 1
  MaxPanel = 3
  MinPanel = 2
  Grace = 1
  HardTimeout = 3
INVARIANTS
  CapableFirst
  RotationFair
PROPERTIES
  NoModelDropped
  EveryRequestIsAnswered
  InTimeIsUsed
  StragglersGetTheirGrace
  EveryFusionIsAnswered
