SPECIFICATION Spec
CONSTANTS
  Request = {r1, r2}
  Threads = 2
PROPERTY RequestsEnd
CHECK_DEADLOCK FALSE
