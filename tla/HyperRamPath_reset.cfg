CONSTANTS
  LastAddr = 3
  NoAddr = NoAddr
  Line = 4
  Lane <- MCLane
  Byte <- MCByte
  Content <- MCContent
  WriteData <- MCWriteData
  MaxWrites = 1
  WrDepth = 2
  RdDepth = 4
SPECIFICATION ResetSpec
PROPERTIES ServedAfterReset
