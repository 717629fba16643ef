CONSTANTS
  Words = 2
  Span = 3
  MaxBytes = 2
  Byte = {0, 1}
  Files = {2, 8}
  Image <- MCImage
  Probed = {3}
  QlByte = {1}
  MaxErrands = 1
  MaxQlWrites = 1
  MaxResets = 1
SPECIFICATION FairSpec
PROPERTIES AccessesEndAfterReset
