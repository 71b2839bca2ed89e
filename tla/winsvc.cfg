CONSTANTS
  Mode = {"RUN_SVC", "INST_SVC", "UNINST_SVC"}
  Code <- MCCode
  Word = 8
  MaxReq = 4
SPECIFICATION FairSpec
INVARIANTS
  ErrnoOfFirst
  StoppedIsLast
PROPERTIES
  StopHonoured
  InitEnds
CHECK_DEADLOCK FALSE
