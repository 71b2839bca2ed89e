CONSTANTS
  Client <- MCClient
  Initial = {"error", "debug"}
  Added = {"extra"}
  Missed = {"derived"}
  MaxCalls = 2
  MaxRotations = 2
SPECIFICATION FairSpec
INVARIANTS
  SrvLogTypeOK
  RotatedTogether
  BaseUsesLive
PROPERTIES
  LogReturns
CHECK_DEADLOCK FALSE
