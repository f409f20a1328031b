SPECIFICATION FairSpec
CHECK_DEADLOCK FALSE
CONSTANTS
  MaxAttempts = 2
  Delay = 2
  SelfSpawn = FALSE
  Scripts = {}
  Stdin = FALSE
  MaxFlags = 0
  MaxInbox = 1
PROPERTY SpawnIsRequested
