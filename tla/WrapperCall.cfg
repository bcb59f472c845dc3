SPECIFICATION WrapperSpec
CONSTANTS
  PhpCall = {m}
  JsCall = {r}
  Wait = {}
  Handler = {}
  Dtor = {}
  Cleanup = cleanup
  None = none
PROPERTY OpenWhenConverted
CHECK_DEADLOCK FALSE
