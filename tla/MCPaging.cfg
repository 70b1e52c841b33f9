SPECIFICATION FairSpec
CONSTANTS
  E = 3
  PageSize = 2
  RamFrames = 11
  BootBitmaps <- BitmapsTwo
  P4 = 1
  P3 = 2
  P2 = 4
  BitsIn <- BitmapInFive
  Pages <- PagesFar
  MapArgs <- MapsFar
  UnmapArgs <- UnmapsFar
  FbArgs <- FbFar
  TlbPages = {4, 11, 18}
INVARIANTS
  TypeOK
  TablesFormTree
  IdentityKept
  TlbCoherent
  WalksAgree
  FramebufferMapped
PROPERTIES
  SpaceSpec
  CallsReturn
CHECK_DEADLOCK FALSE
