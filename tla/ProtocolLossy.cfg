SPECIFICATION Spec
CONSTANTS
  Stream <- LossyStream
  Merge = TRUE
  MaxLost = 1
  LUNIX_DEBUG = TRUE
  MAX_TURNS = 9
  MAX_PACKET_LEN = 27
  SensorCnt = 2
INVARIANT IndexInBounds
CHECK_DEADLOCK FALSE
