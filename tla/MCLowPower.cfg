SPECIFICATION Spec
CONSTANTS
  work_mode = 1
  MaxMsg = 2
INVARIANTS NothingUnread SavedBeforeOff LocksRespected DeepSleepKnown NoIdleStandby
CHECK_DEADLOCK FALSE
