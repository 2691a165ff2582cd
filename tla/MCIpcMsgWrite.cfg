SPECIFICATION FairSpec
CONSTANTS
  a = a
  b = b
  NoMsg = NoMsg
  NoThread = NoThread
  Msg <- MCMsg
  DataLen <- MCDataLen
  Thread = {t1, t2}
  Size = 6
  CacheLine = 2
  WakesDSP = TRUE
INVARIANTS
  NeverAsleepOverMessage
PROPERTIES
  UnreadUntouched
  ImplementsChannel
  WriteReturns
