SPECIFICATION Spec
CONSTANTS
  NUL = "NUL"
  Byte <- MCByte
  Data <- MCData
  InitContent <- MCInitContent
  Overrun = 1
  MaxLen = 4
  MaxRead = 5
INVARIANTS
  TypeOK
  OnlyStaleDiffers
  ReadToEndIsPosix
  ReadsPrefix
