SPECIFICATION LaunchSpec
CHECK_DEADLOCK FALSE
CONSTANTS
  Client = {c1, c2}
  Self = c1
  Initial <- PoolLines
  Comments = {"comment"}
  Malformed = {"bad"}
  Rotatable = {"rotating"}
  MaxFaults = 1
  Address = {host1, host2}
  Unknown = unknown
  MaxRotations = 2
  StunTries = 2
INVARIANT ConnectedWasAnswered
