SPECIFICATION Spec
CONSTANTS
  NUL = "NUL"
  Byte <- MCByte
  Overrun = 1
  Paths <- FilePaths
  Modes = {"rw", "r"}
  Owners = {"root", "user"}
  Times = {"now"}
  MountMode = "rw"
  MountOwner = "root"
  Data <- Texts
  InitContent <- Text
  MaxFiles = 2
  MaxDirs = 5
  MaxLen = 1
INVARIANTS
  TypeOK
  UniquePaths
  ParentsPresent
  AbortsOnlyOnDirectories
  TopFilesListed
  SubdirectoriesReal
  OnlyGrowthLosesEntries
PROPERTIES
  ImplementsTree
