CONSTANTS
  Client <- MCClient
  Initial = {"error", "debug"}
  Added = {"extra"}
  Missed = {"base"}
  MaxCalls = 2
  MaxRotations = 1
SPECIFICATION FairSpec
PROPERTIES
  LogReturns
CHECK_DEADLOCK FALSE
