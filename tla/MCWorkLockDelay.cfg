SPECIFICATION Spec
CONSTANTS
  app = app
  local = local
  Mcu = Mcu
  Cdp = Cdp
  AppUser <- MCAppUser
  LocalUser <- MCLocalUser
  MaxHold = 2
  MaxWait = 1
  OPERATION_VER = FALSE
  Paired = FALSE
  UnlockAll = FALSE
  DynamicLoad = FALSE
INVARIANTS DelayKeepsAwake NoAssert
CHECK_DEADLOCK FALSE
