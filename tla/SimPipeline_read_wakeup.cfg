SPECIFICATION Spec
CONSTANTS
  NumIqSamples = 2
  SamplesPerBuffer = 3
  NumBlocks = 6
  WeakMemory = FALSE
  Failures = {}
PROPERTY WriteWaitEnds
CHECK_DEADLOCK FALSE
