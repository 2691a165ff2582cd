SPECIFICATION Spec
CONSTANTS
  work_mode = 0
  MaxMsg = 1
INVARIANT DrxWakeupSet
CHECK_DEADLOCK FALSE
