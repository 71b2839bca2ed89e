CONSTANTS
  Method = {"GET", "CONNECT"}
  Segment = {"a", "b"}
  Path <- MCPath
  Func = {"tree", "leaf", "root"}
  Client = {"c"}
  Host = {"near", "far"}
  RawPath <- MCRawPath
  InitHandlers <- MCInitHandlers
  HandlerSet <- MCHandlerSet
  LevelSet <- MCLevelSet
  MaxChanges = 2
SPECIFICATION Spec
INVARIANTS
  DispatchTypeOK
  ServedRightfully
  RedirectsEnd
  CountedOnce
CHECK_DEADLOCK FALSE
