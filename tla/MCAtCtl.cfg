SPECIFICATION FairSpec
CONSTANTS
  p = p
  p2 = p2
  b = b
  f = f
  a = a
  n = n
  x = x
  k = k
  Cmd <- MCCmd
  Kind <- MCKind
  Menus <- MCMenus
  Critical = {k}
  Req = Req
  Junk = Junk
  RETRANS_MAX_NUM = 2
  MayBeOff = TRUE
  PsInTime = FALSE
INVARIANTS BusyMeansOwed SleepOnlyWhenDone OneAtPs
PROPERTIES RightContext AllAnswered
CHECK_DEADLOCK FALSE
