SPECIFICATION MCSpec
CONSTANTS
  Lengths = {0, 1, 3, 16, 23, 96, 112}
  WriteLengths = {0, 1, 4, 7, 16, 18, 32, 109, 112}
  MaxCalls = 2
  Byte <- MCByte
  Halfword <- MCHalfword
  Buffers <- MCBuffers
  Contents <- MCContents
INVARIANTS
  TypeOK
  InPages
  OnlyItsBytes
  WindowOps
PROPERTIES
  CopiesEnd
