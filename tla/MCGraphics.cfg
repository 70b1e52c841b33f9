SPECIFICATION FairSpec
CONSTANTS
  Width = 5
  Height = 4
  Pitch = 24
  Wrap = 128
  Channel = 2
  Black <- BlackDef
  Requests <- RequestsAll
  Modes <- ModesAll
  Font <- FontA
  GlyphSize = 2
  Newline = "newline"
  Idle = Idle
  MaxCalls = 2
INVARIANTS
  OnlyPixelsStored
  LineOnCourse
PROPERTIES
  CanvasSpec
  DrawingEnds
