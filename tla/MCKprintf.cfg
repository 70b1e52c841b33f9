SPECIFICATION FairSpec
CONSTANTS
  IntWord <- IntBits
  LongWord <- LongBits
  IntRoom <- IntBuffers
  LongRoom <- LongBuffers
  Power <- Pow
  CharWord = 4
  CharOf <- Codes
  Alphabet <- Characters
  NUL = "nul"
  Beyond <- Behind
  Programs <- AllPrograms
INVARIANTS
  PrintsAsAsked
  BuffersHold
  StaysInFormat
PROPERTIES
  kprintfReturns
  PanicHasLastWord
CHECK_DEADLOCK FALSE
