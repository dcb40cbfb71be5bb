CONSTANTS
  Lines <- SomeLines
  MaxLines = 3
SPECIFICATION Spec
INVARIANTS Invariants ExitKillsAll
PROPERTY BackgroundSurvives
CHECK_DEADLOCK FALSE
