SPECIFICATION FairSpec
CONSTANTS
  Screens <- Vga
  WaveScreens = {}
  Wrap <- Scaled
INVARIANTS
  RectsTurn
CHECK_DEADLOCK FALSE
