SPECIFICATION RcvFairSpec
CONSTANTS
  a = a
  b = b
  NoMsg = NoMsg
  Msg <- MCMsg
  DataLen <- MCDataLen
  Size = 6
  CacheLine = 2
INVARIANTS
  NeverSleepsOverMessage
PROPERTIES
  RcvImplementsChannel
  EveryMessageRead
