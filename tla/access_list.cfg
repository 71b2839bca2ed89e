CONSTANTS
  Host <- MCHost
  Net <- MCNet
  Contains <- MCContains
  Lines <- MCWritten
  MaxLines = 3
  MaxLoads = 2
SPECIFICATION Spec
INVARIANTS
  NeverElevated
  Restricting
