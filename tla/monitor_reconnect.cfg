SPECIFICATION AwakeSpec
CONSTANTS
  N = 2
  MaxFaults = 1
  EmptyAnswers = FALSE
  StdoutFails = FALSE
PROPERTIES
  ReturningIsShown
CHECK_DEADLOCK FALSE
