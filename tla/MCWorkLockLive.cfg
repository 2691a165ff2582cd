SPECIFICATION FairSpec
CONSTANTS
  app = app
  local = local
  Mcu = Mcu
  Cdp = Cdp
  AppUser <- MCAppUser
  LocalUser <- MCLocalUser
  MaxHold = 1
  MaxWait = 1
  OPERATION_VER = TRUE
  Paired = FALSE
  UnlockAll = TRUE
  DynamicLoad = TRUE
PROPERTIES DelayEnds
CHECK_DEADLOCK FALSE
