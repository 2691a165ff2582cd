SPECIFICATION Spec
CONSTANTS
  app = app
  local = local
  Mcu = Mcu
  Cdp = Cdp
  AppUser <- MCAppUser
  LocalUser <- MCLocalUser
  MaxHold = 2
  MaxWait = 1
  OPERATION_VER = FALSE
  Paired = FALSE
  UnlockAll = FALSE
  DynamicLoad = TRUE
INVARIANT DspKnowsOfLock
CHECK_DEADLOCK FALSE
