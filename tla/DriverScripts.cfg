SPECIFICATION Spec
CHECK_DEADLOCK FALSE
CONSTANTS
  MaxAttempts = 1
  Delay = 1
  SelfSpawn = FALSE
  Scripts = {"spawn", "reconnect"}
  Stdin = FALSE
  MaxFlags = 1
  MaxInbox = 1
INVARIANTS TypeOK SpawnNeedsGrant NoEarlyRequest
