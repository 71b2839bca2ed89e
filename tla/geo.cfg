CONSTANTS
  Request = {"r1"}
  Recorder = {"rec"}
  Host = {"local", "remote"}
  Private = {"local"}
  Country = {"A", "B"}
  File <- MCFile
  MaxCalls = 3
  MaxChanges = 2
  MaxDays = 1
SPECIFICATION Spec
INVARIANTS
  GeoTypeOK
  GrantJustified
  CachedWasTold
CHECK_DEADLOCK FALSE
