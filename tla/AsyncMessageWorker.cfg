SPECIFICATION Spec
CONSTANTS
  PhpCall = {m, w, h, d}
  JsCall = {r1, r2}
  Wait = {w, h}
  Handler = {h}
  Dtor = {d}
  Cleanup = cleanup
  None = none
INVARIANTS
  NoDanglingMessage
  NoAsyncIsExact
  QueuesDrained
  NeverBothBlocked
PROPERTIES
  CallProtocol
  AnswerIsStable
  ServicedAtCleanup
  Finishes
CHECK_DEADLOCK FALSE
