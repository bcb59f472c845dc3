SPECIFICATION Spec
CONSTANTS
  Var = {a, b}
  Zval = {z1, z2, z3, z4}
INVARIANT UniqueCopy
CHECK_DEADLOCK FALSE
