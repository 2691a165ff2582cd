SPECIFICATION Spec
CONSTANTS
  work_mode = 0
  MaxMsg = 1
INVARIANT NoAssert
CHECK_DEADLOCK FALSE
