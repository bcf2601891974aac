SPECIFICATION Spec
CONSTANTS
  Sats = {0, 2, 3}
  MaxSat = 2
  Lengths = {1, 2}
  MaxLength = 3
  HeaderLen = 2
  ParityLen = 1
  BuffLen = 6
  NumFrames = 3
INVARIANTS
  OverrunOnlyOfLostLength InStep
PROPERTY NoneMissed
CHECK_DEADLOCK FALSE
