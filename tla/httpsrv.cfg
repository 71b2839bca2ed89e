CONSTANTS
  Method = {"GET"}
  Segment = {"a"}
  Func = {"OnPrivStaticSrvUri", "OnPubStaticSrvUri", "app"}
  Path <- MCPath
  InitRegs <- MCInitRegs
  RegChoice <- MCRegChoice
  MaxOps = 1
  Addr = {"p1", "p2", "q"}
  PrivateNet = {"p1", "p2"}
  Port = {1, 2}
  Dir = {"www"}
  MaxCert = 1
  Configs <- MCConfigs
  InitCfgs <- MCInitCfgs
  InitSrv = TRUE
  MaxDup = 1
  TakenSets <- MCTaken
  MaxEnv = 2
SPECIFICATION FairSpec
INVARIANTS
  SideSeparation
  SocketsOwned
  NothingStale
  Covered
PROPERTIES
  KeepsWanted
  Follows
CHECK_DEADLOCK FALSE
