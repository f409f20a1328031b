SPECIFICATION Spec
CHECK_DEADLOCK FALSE
CONSTANTS
  MaxAttempts = 2
  Delay = 2
  SelfSpawn = FALSE
  Scripts = {"drop", "stop", "walk", "sync"}
  Stdin = FALSE
  MaxFlags = 1
  MaxInbox = 1
INVARIANTS RetriesCapped TerminalIsFinal EndsForCause WalkIsThisSession
