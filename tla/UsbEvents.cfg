SPECIFICATION Spec
CONSTANTS
  Fds = {4, 5}
  Runs = 2
  Enumerations = 1
INVARIANTS
  PipeMatchesEvents
  ClosedAlone
  TransferAlive
  SleeperIsWoken
PROPERTIES
  SyncReturns
  CloseReturns
CHECK_DEADLOCK FALSE
