SPECIFICATION Spec
CONSTANTS
  PageSize = 4
  ByteBits = 4
  HeapAlign = 2
  AddrSpace = 64
  LowTop = 8
  BssEnd = 10
  Mbis <- MbisSafe
  Sizes <- SizesSmall
  FreeArgs <- FreeArgsAll
  MaxBlocks = 2
  NoMbi = NoMbi
INVARIANT HeapExclusive
