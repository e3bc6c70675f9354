SPECIFICATION TraceSpec
CONSTANT MaxFrames = 3
CHECK_DEADLOCK FALSE
INVARIANTS
  RowIsTrue
PROPERTIES
  ClosedOnce
  EveryRowIsClosed
