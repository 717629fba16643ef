CONSTANTS
  c1 = c1  c2 = c2  fA = fA  fB = fB
  NSectors = 2
  SectorBytes = 2
  NBytes = 2
  Chunk = 1
  GateThreshold = 1
  NoFile = NoFile
  Files <- MCFiles
  Cards <- MCCards
  CardOf <- MCCardOf
  ByteOf <- MCByteOf
  Budget <- BudgetAll
SPECIFICATION FairSpec
INVARIANTS UnsavedAccounted IInv
PROPERTIES WritesLandInPlace DirtyIsFlushed ForcedFlushEnds
CHECK_DEADLOCK FALSE
