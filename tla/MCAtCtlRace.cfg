SPECIFICATION Spec
CONSTANTS
  p = p
  p2 = p2
  b = b
  f = f
  a = a
  n = n
  x = x
  k = k
  Cmd <- MCCmd
  Kind <- MCKind
  Menus <- MCMenusFwd
  Critical = {k}
  Req = Req
  Junk = Junk
  RETRANS_MAX_NUM = 2
  MayBeOff = TRUE
  PsInTime = TRUE
INVARIANTS OneAtPs NoneLost
CHECK_DEADLOCK FALSE
