SPECIFICATION NavSpec
CONSTANTS
  NSbf = 2
  NDwrdSbf = 3
  TicksPerWord = 2
  UnitsPerTick = 3
  HalfSecond = 1
  FramesPerWeek = 2
  WeekModulus = 2
  LastTick = 60
INVARIANT WordsOnTime
CHECK_DEADLOCK FALSE
