SPECIFICATION Spec
CONSTANTS
  Threads = {t1, t2}
  Paths = {"f", "g"}
  Data = {"old", "new"}
  Fresh = "old"
  Ops = {"create", "unlink", "rename", "readdir", "write"}
  RenameReplaces = TRUE
  MaxFaults = 1
  MaxOthers = 1
SYMMETRY Symmetry
INVARIANTS
  TypeOK
  HandlesAccounted
PROPERTIES
  CleanTakesEffect
CHECK_DEADLOCK FALSE
