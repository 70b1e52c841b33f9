SPECIFICATION Spec
CONSTANTS
  E = 3
  PageSize = 2
  RamFrames = 8
  BootBitmaps <- BitmapsLow
  P4 = 1
  P3 = 2
  P2 = 4
  BitsIn <- BitmapInFive
  Pages <- PagesFar
  MapArgs <- None
  UnmapArgs <- None
  FbArgs <- FbOne
  TlbPages = {4, 11}
INVARIANT SuccessMeansMapped
