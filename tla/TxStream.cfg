SPECIFICATION Spec
CONSTANTS
  PacketSize = 3
  FifoPackets = 2
  WriteSize = 7
  BuffersCount = 2
  NumWrites = 3
INVARIANTS
  InOrder NothingLost
PROPERTY AppCompletes
