SPECIFICATION FairSpec
CONSTANTS
  Stream <- MixedStream
  Merge = FALSE
  MaxLost = 0
  LUNIX_DEBUG = FALSE
  MAX_TURNS = 50
  MAX_PACKET_LEN = 27
  SensorCnt = 2
INVARIANTS UpdatesAreTheReadings InStep NeverOverflows
PROPERTY BufferDone
CHECK_DEADLOCK FALSE
