CONSTANTS
  MaxSteps = 3
  MaxRetries = 1
SPECIFICATION Spec
INVARIANTS UndoneOnce
CHECK_DEADLOCK FALSE
