SPECIFICATION FairSpec
CONSTANTS
  d = d
  x = x
  y = y
  t1 = t1
  t2 = t2
  Junk = Junk
  Boot = Boot
  NoProc = NoProc
  NPage = 2
  MaxNum = 2
  DspField = {d}
  AppField = {x}
  Val = {0, 1}
  Default <- MCDefault
  Thread = {t1}
  DualCore = TRUE
  TornTails = {TRUE}
PROPERTIES
  EveryCallReturns
