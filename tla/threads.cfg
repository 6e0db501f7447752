SPECIFICATION Spec
CONSTANTS
  Threads = {t1, t2}
  Paths <- MCPaths
  Layouts <- OneOrTwo
  FirstFile = "f"
  MaxFiles = 3
INVARIANTS
  TypeOK
  CleanHitsNamed
  CleanAnswered
  ModifiersHitNamed
  UniquePaths
  ListingsAndCreatesWhole
CHECK_DEADLOCK FALSE
