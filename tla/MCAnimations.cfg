SPECIFICATION FairSpec
CONSTANTS
  Screens <- AllScreens
  WaveScreens <- Small
  Wrap <- Scaled
INVARIANTS
  BallMirrored
  BallLeavesWalls
  RectsOnScreen
  RectsTurnForward
  OnUnitCircle
PROPERTIES
  AnimationsEnd
CHECK_DEADLOCK FALSE
