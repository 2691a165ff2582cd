SPECIFICATION Spec
CONSTANTS
  d = d
  x = x
  y = y
  t1 = t1
  t2 = t2
  Junk = Junk
  Boot = Boot
  NoProc = NoProc
  NPage = 2
  MaxNum = 3
  DspField = {d}
  AppField = {x, y}
  Val = {0, 1}
  Default <- MCDefault
  Thread = {t1, t2}
  DualCore = TRUE
  TornTails = {FALSE, TRUE}
INVARIANTS
  NoJunk
PROPERTIES
  OthersKept
