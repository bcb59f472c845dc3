SPECIFICATION Spec
CONSTANTS
  Read = {a, b, c}
  Sizes = {0, 1, 2}
  MaxBody = 3
  MaxChunk = 2
  None = none
INVARIANTS
  TypeOK
  BytesInOrder
  ReadInOnePlace
  DataHasReader
  ShortMeansOver
  NoReadStranded
PROPERTIES
  EveryReadAnswered
CHECK_DEADLOCK FALSE
