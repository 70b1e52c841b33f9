SPECIFICATION FairKSpec
CONSTANTS
  E = 3
  PageSize = 8
  RamFrames = 9
  BootBitmaps <- BitmapsTwo
  P4 = 1
  P3 = 2
  P2 = 4
  BitsIn <- BitmapInSix
  Pages <- AllPages
  MapArgs <- None
  UnmapArgs <- None
  FbArgs <- None
  TlbPages = {5, 17}
  Cpus <- CpusAll
  Loaders <- LoadersAll
  MULTIBOOT_MAGIC = 7
  Junk = Junk
  Ctors = 0
  PixelBytes = 4
  LowLimit = 24
  MaxFbSize = 48
  VgaFrame = 2
INVARIANTS
  LoaderParametersKept
  FramebufferReady
  EndsAsExpected
PROPERTIES
  EveryBootEnds
CHECK_DEADLOCK FALSE
