SPECIFICATION Spec
CONSTANTS
  NUL = "NUL"
  Byte <- MCByte
  Overrun = 1
  Paths <- FilePaths
  Modes = {"rw"}
  Owners = {"root"}
  Times = {"now"}
  MountMode = "rw"
  MountOwner = "root"
  Data <- Texts
  InitContent <- Text
  MaxFiles = 3
  MaxDirs = 3
  MaxLen = 1
INVARIANTS
  AssertionsHold
