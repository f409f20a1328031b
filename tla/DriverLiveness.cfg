SPECIFICATION FairSpec
CHECK_DEADLOCK FALSE
CONSTANTS
  MaxAttempts = 1
  Delay = 1
  SelfSpawn = FALSE
  Scripts = {"outbox"}
  Stdin = TRUE
  MaxFlags = 0
  MaxInbox = 1
PROPERTY NoLimbo
