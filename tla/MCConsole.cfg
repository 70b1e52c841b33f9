SPECIFICATION Spec
CONSTANTS
  VGA_WIDTH = 2
  VGA_HEIGHT = 2
  Chars = {a}
  HighChars = {h}
  Newline = newline
  Space = space
  Colors = {red, grey}
  AllOnes = allones
  Old = old
  Cursors <- CursorsAll
  MaxScroll = 1
  MaxBad = 1
INVARIANTS
  TypeOK
  StraysPaidFor
PROPERTIES
  TerminalSpec
  CursorComesBack
