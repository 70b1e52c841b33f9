SPECIFICATION Spec
CONSTANTS
  PageSize = 4
  ByteBits = 4
  HeapAlign = 2
  AddrSpace = 64
  LowTop = 8
  BssEnd = 10
  Mbis <- MbisLarge
  Sizes <- SizesSmall
  FreeArgs <- FreeArgsAll
  MaxBlocks = 1
  NoMbi = NoMbi
INVARIANT BitmapFramesReserved
