SPECIFICATION Spec
CHECK_DEADLOCK FALSE
CONSTANTS
  MaxAttempts = 2
  Delay = 2
  SelfSpawn = FALSE
  Scripts = {}
  Stdin = TRUE
  MaxFlags = 0
  MaxInbox = 1
INVARIANT EndsForCause
