SPECIFICATION Spec
CONSTANTS
  p = p
  p2 = p2
  b = b
  f = f
  a = a
  n = n
  x = x
  k = k
  Cmd <- MCCmd
  Kind <- MCKind
  Menus <- MCMenusNv
  Critical = {k}
  Req = Req
  Junk = Junk
  RETRANS_MAX_NUM = 2
  MayBeOff = TRUE
  PsInTime = FALSE
PROPERTY RightContext
CHECK_DEADLOCK FALSE
