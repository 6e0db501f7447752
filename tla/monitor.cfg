SPECIFICATION DaemonSpec
CONSTANTS
  N = 2
  MaxFaults = 2
  EmptyAnswers = TRUE
  StdoutFails = TRUE
INVARIANTS
  TypeOK
  OwnAnswer
PROPERTIES
  DownIsShown
  ReadyIsShown
  RoundsGoOn
CHECK_DEADLOCK FALSE
