SPECIFICATION FairSpec
CONSTANTS
  app = app
  local = local
  Mcu = Mcu
  Cdp = Cdp
  AppUser <- MCAppUser
  LocalUser <- MCLocalUser
  MaxHold = 1
  MaxWait = 1
  OPERATION_VER = FALSE
  Paired = FALSE
  UnlockAll = FALSE
  DynamicLoad = FALSE
PROPERTY RaiSent
CHECK_DEADLOCK FALSE
