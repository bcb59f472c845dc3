SPECIFICATION Spec
CONSTANTS
  JsObj = {o, f}
  Foreign = {f}
  PhpObj = {x}
  IdSpace = 4
  None = None
INVARIANTS
  TypeOK
  OneNamePerObject
  SidesAgree
  WrappersClosed
  PhpSideReleased
CHECK_DEADLOCK FALSE
