CONSTANTS
  a1 = a1  a2 = a2
  NoAddr = NoAddr
  Addr <- MCAddr
  Content <- MCContent
  Settle = 2
  Refresh = 3
  MaxLatency = 4
  MaxWrites = 2
  MaxMoves = 1
  MaxForgets = 1
SPECIFICATION FairSpec
INVARIANTS NoWriteLost
PROPERTIES RightUntilOvertaken RequestStable PortBHeals PortAAnswered
