SPECIFICATION Spec
CONSTANTS
  Threads = {t1}
  Paths = {"f", "g"}
  Data = {"old", "new"}
  Fresh = "old"
  Ops = {"create", "rename"}
  RenameReplaces = FALSE
  MaxFaults = 0
  MaxOthers = 0
PROPERTIES
  MovesTakeEffect
CHECK_DEADLOCK FALSE
