SPECIFICATION Spec
CONSTANTS
  NumIqSamples = 2
  SamplesPerBuffer = 3
  NumBlocks = 6
  WeakMemory = FALSE
  Failures = {}
PROPERTIES
  DeliveredUnlessWakeupLost PlaysTheSignal
CHECK_DEADLOCK FALSE
