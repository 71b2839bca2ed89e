CONSTANTS
  Pid = {"p1", "p2", "p3"}
  MaxKills = 2
SPECIFICATION FairSpec
INVARIANTS
  AtMostOneRuns
  FileNamesRunning
PROPERTIES
  StaleFileHarmless
