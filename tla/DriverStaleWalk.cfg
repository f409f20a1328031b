SPECIFICATION Spec
CHECK_DEADLOCK FALSE
CONSTANTS
  MaxAttempts = 2
  Delay = 2
  SelfSpawn = FALSE
  Scripts = {"walk", "reconnect"}
  Stdin = FALSE
  MaxFlags = 1
  MaxInbox = 1
INVARIANT WalkIsThisSession
