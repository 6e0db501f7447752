SPECIFICATION FairSpec
CONSTANTS
  Threads = {t1, t2}
  Paths = {"f"}
  Data = {"old", "new"}
  Fresh = "old"
  Ops = {"create", "mkdir", "rmdir", "getattr", "read", "write", "chmod", "chown", "utimens", "truncate"}
  RenameReplaces = TRUE
  MaxFaults = 1
  MaxOthers = 1
PROPERTIES
  RequestsAnswered
  DisturbedOpensEnd
  CleanTakesEffect
CHECK_DEADLOCK FALSE
