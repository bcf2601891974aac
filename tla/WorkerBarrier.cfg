SPECIFICATION Spec
CONSTANTS
  NumThreads = 3
  NumBlocks = 3
  CreateFails = TRUE
INVARIANTS
  ChannelsNotShared StrayOnlyAfterEnd
PROPERTIES
  WritesTheSignal EverybodyEnds
CHECK_DEADLOCK FALSE
