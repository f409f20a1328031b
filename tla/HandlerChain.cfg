SPECIFICATION Spec
CONSTANTS
  Frequency <- FiveChars
  CountModulus = 65536
  Starts <- EveryStart
  Scripts = 2
  Writes <- FullWrites
  Texts <- SomeTexts
  Offsets <- SomeOffsets
  Replacement <- Replaced
  MaxOps = 3
INVARIANTS ReadAsMeant CutIsRefused UntouchedBitsSurvive WritesAppend
CHECK_DEADLOCK FALSE
