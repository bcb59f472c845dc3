SPECIFICATION Spec
CONSTANTS
  Flush = {f, g, h}
  MaxWrites = 5
  HighWater = 2
  None = none
INVARIANTS
  WaitingHasDrain
  FlushInOnePlace
  FlushBound
PROPERTIES
  EveryFlushReturns
CHECK_DEADLOCK FALSE
