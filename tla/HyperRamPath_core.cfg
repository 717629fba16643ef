CONSTANTS
  LastAddr = 3
  NoAddr = NoAddr
  Line = 4
  Lane <- MCLane
  Byte <- MCByte
  Content <- MCContent
  WriteData <- MCWriteData
  MaxWrites = 2
  WrDepth = 2
  RdDepth = 4
SPECIFICATION PathSpec
INVARIANTS InOrder
PROPERTIES Implements CacheSpec Served
