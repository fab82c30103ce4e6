CONSTANTS
  MaxSteps = 3
  MaxRetries = 2
  Requests = {1, 2}
  Last = 2
  FailureThreshold = 2
  HalfOpenRequests = 2
  MaxOutages = 3
  MayReset = TRUE
  Calls = {c1, c2}
  None = None
SPECIFICATION RecoverySpec
INVARIANTS WorksInOrder EndsConsistent ProbeOutstanding NotHammered
PROPERTIES SagaSettles PrimaryReturns  StaleEnds
CHECK_DEADLOCK FALSE
