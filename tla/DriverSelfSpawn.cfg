SPECIFICATION Spec
CHECK_DEADLOCK FALSE
CONSTANTS
  MaxAttempts = 2
  Delay = 2
  SelfSpawn = TRUE
  Scripts = {}
  Stdin = FALSE
  MaxFlags = 0
  MaxInbox = 1
INVARIANT MilestonesInOrder
