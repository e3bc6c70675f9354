SPECIFICATION TokenSpec
CONSTANTS
  Chats = {r1, r2}
  MaxTokens = 3
  DedupTtl = 2
  MaxAttempts = 2
INVARIANTS
  RetryUsesANewerToken
PROPERTIES
  NoTokenSpentTwice
  EveryRequestFinishes
  RotatedTokenIsSaved
