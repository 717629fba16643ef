CONSTANTS
  PreferSwap = FALSE
  MaxLen = 1
  Serial = TRUE
  Nobody <- MCNobody
  Withdrawing <- MCMainRam
  NoAddr = NoAddr
  Junk = Junk
  Addr <- MCAddr
  Lane <- MCLane
  Byte <- MCByte
  Operand <- MCOperand
  RefreshTime = 22
  PowerOnTime = 2
SPECIFICATION MCSpec
INVARIANTS RoutedHome OneAtATime FairTurns Coherent CommandsInTime RefreshOnTime
PROPERTIES ArbiterSpec SlaveSpec Served
