CONSTANTS
  Method = {"GET"}
  Segment = {"a", "b"}
  Func = {"f"}
  Path <- MCPath
  InitRegs <- MCInitRegs
  RegChoice <- MCRegChoice
  MaxOps = 5
SPECIFICATION HSpec
INVARIANTS
  RegistryMatchesMux
  RedirectHasTarget
  RegisteredIsRouted
PROPERTIES
  NeverReplaced
  OnlyClashDisagrees
CHECK_DEADLOCK FALSE
