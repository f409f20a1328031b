SPECIFICATION Spec
CONSTANTS
  Frequency <- FiveChars
  CountModulus = 65536
  Starts <- ScriptStarts
  Scripts = 2
  Writes <- FullWrites
  Texts <- SomeTexts
  Offsets <- SomeOffsets
  Replacement <- Replaced
  MaxOps = 3
PROPERTY WritingRewrites
CHECK_DEADLOCK FALSE
