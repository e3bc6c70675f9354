SPECIFICATION Spec
CONSTANTS
  Requests = {r1, r2}
  BatchSize = 2
  MaxRecords = 1
  FlushInterval = 2
  SaveDelay = 1
  MaxOther = 1
INVARIANTS
  NothingVanishes
PROPERTY AnswerReachesDisk
