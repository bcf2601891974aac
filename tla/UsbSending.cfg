SPECIFICATION SendingSpec
CONSTANTS
  NumContexts = 2
  BuffersCount = 2
  NumUrbs = 2
  MaxBegins = 2
  MaxFaults = 1
INVARIANTS
  ReportedAfterLastUrb DoneMeansOver ReportedIsSent ContextsSuffice
  StuckOnlyWhereExplained
CHECK_DEADLOCK FALSE
PROPERTIES
  CancelledIsReported TxEnds
