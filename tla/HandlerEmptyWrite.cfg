SPECIFICATION Spec
CONSTANTS
  Frequency <- FiveChars
  CountModulus = 65536
  Starts <- ScriptStarts
  Scripts = 2
  Writes <- AnyWrites
  Texts <- SomeTexts
  Offsets <- SomeOffsets
  Replacement <- Replaced
  MaxOps = 3
INVARIANT StreamHoldsItsBits
CHECK_DEADLOCK FALSE
