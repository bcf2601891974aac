SPECIFICATION Spec
CONSTANTS
  MaxSat = 4
  MaxChan = 2
  ArraySets = 3
  NumSets = 2
  Cleared = TRUE
INVARIANTS
  TablesAgree ChannelsUsedUnlessDropped SubframesCurrent WordsOneRefreshBehind
