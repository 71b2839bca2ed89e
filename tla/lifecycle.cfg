CONSTANTS
  Sub = {"s1", "s2"}
  Resubscribes = {}
  Code = {2}
  MaxReq = 3
SPECIFICATION FairSpec
INVARIANTS
  ExitCodeOfFirst
PROPERTIES
  AllNotified
  CloseIsNoCrash
  ImplementsApp
  ShutdownCompletes
CHECK_DEADLOCK FALSE
