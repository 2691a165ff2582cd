SPECIFICATION Spec
CONSTANTS
  app = app
  local = local
  Mcu = Mcu
  Cdp = Cdp
  AppUser <- MCAppUser
  LocalUser <- MCLocalUser
  MaxHold = 2
  MaxWait = 1
  OPERATION_VER = TRUE
  Paired = TRUE
  UnlockAll = FALSE
  DynamicLoad = FALSE
INVARIANT UsersKeepAwake
CHECK_DEADLOCK FALSE
