CONSTANTS
  Entry = {"e1", "e2", "e3", "e4", "e5"}
  Size = 3
SPECIFICATION FairSpec
PROPERTIES
  ImplementsBoundedLog
  SendersEnd
