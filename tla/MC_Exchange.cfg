CONSTANTS
  Calls = {1, 2}
  LastSlot = 4
  MaxPieces = 5
  Chains <- MCChains
  Routes <- AllRoutes
  Unusable = {2}
  MaxTurns = 5
  MaxCalls = 2
  MaxRewrites = 1
SPECIFICATION ExchangeSpec
INVARIANTS
  RequestIsWellFormed
  NothingIsLost
  WellFramed
  NothingMixed
  FinishReachesClient
CHECK_DEADLOCK FALSE
