SPECIFICATION Spec
CONSTANTS
  Threads = {t1, t2}
  Paths <- MCPaths
  Layouts <- OnlyTwo
  FirstFile = "f"
  MaxFiles = 3
INVARIANTS
  RemovesNamed
CHECK_DEADLOCK FALSE
