CONSTANTS
  Calls = {1, 2}
  LastSlot = 4
  MaxPieces = 1
  Chains = {}
  Routes <- ClaudeToKiro
  Unusable = {}
  MaxTurns = 5
  MaxCalls = 1
  MaxRewrites = 0
SPECIFICATION ExchangeSpec
INVARIANT KiroIsToldEverything
CHECK_DEADLOCK FALSE
