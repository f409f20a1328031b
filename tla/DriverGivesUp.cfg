SPECIFICATION Spec
CHECK_DEADLOCK FALSE
CONSTANTS
  MaxAttempts = 2
  Delay = 3
  SelfSpawn = FALSE
  Scripts = {}
  Stdin = FALSE
  MaxFlags = 0
  MaxInbox = 1
INVARIANT LostSessionIsRetried
