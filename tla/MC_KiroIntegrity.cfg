SPECIFICATION Spec
CONSTANTS
  Tools = {t1, t2}
  MaxEvents = 4
CHECK_DEADLOCK FALSE
INVARIANTS
  RefusalStaysPrivate
  UsableTurnIsKept
  TruncationIsTold
PROPERTY EveryTurnEnds
