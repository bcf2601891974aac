SPECIFICATION Spec
CONSTANTS
  NumIqSamples = 2
  SamplesPerBuffer = 3
  NumBlocks = 4
  WeakMemory = TRUE
  Failures = {"malloc", "gps_start", "gps_setup", "tx_start"}
INVARIANTS
  StopsOnlyWhereExplained FreedInUseOnlyAfterTxFailure
PROPERTY WrongSampleOnlyWhileBlockLate
CHECK_DEADLOCK FALSE
