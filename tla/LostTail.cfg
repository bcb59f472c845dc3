SPECIFICATION Spec
CONSTANTS
  Read = {a, b, c}
  Sizes = {0, 1, 2}
  MaxBody = 3
  MaxChunk = 2
  None = none
INVARIANT NoTailLost
CHECK_DEADLOCK FALSE
