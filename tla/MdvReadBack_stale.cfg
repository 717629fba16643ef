CONSTANTS
  a1 = a1  a2 = a2
  NoAddr = NoAddr
  Addr <- MCAddr
  Content <- MCContent
  Settle = 2
  Refresh = 3
  MaxLatency = 4
  MaxWrites = 0
  MaxMoves = 4
  MaxForgets = 0
SPECIFICATION ReadBackSpec
INVARIANT AnswerIsRight
