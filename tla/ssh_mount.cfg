SPECIFICATION Spec
CONSTANTS
  Args <- MCArgs
  NPos = 255
INVARIANTS
  TypeOK
  WellFormedSplit
  PositionsInside
  SessionsReleased
CHECK_DEADLOCK FALSE
