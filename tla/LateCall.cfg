SPECIFICATION Spec
CONSTANTS
  PhpCall = {h}
  JsCall = {r}
  Wait = {}
  Handler = {h}
  Dtor = {}
  Cleanup = cleanup
  None = none
INVARIANT NoPushAfterShutdown
CHECK_DEADLOCK FALSE
