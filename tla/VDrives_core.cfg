CONSTANTS
  fA = fA  fB = fB
  NLbas = 2
  BlockBytes = 2
  IterSize = 3
  Delay = 1
  NoFile = NoFile
  Files <- MCFiles
  Original <- MCOriginal
  Budget <- BudgetCore
SPECIFICATION FairSpec
INVARIANTS UnsavedAccounted ReadsCurrent
PROPERTIES FlushInPlace RequestsServed DirtyIsFlushed
