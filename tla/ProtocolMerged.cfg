SPECIFICATION Spec
CONSTANTS
  Stream <- TwoPackets
  Merge = TRUE
  MaxLost = 0
  LUNIX_DEBUG = FALSE
  MAX_TURNS = 50
  MAX_PACKET_LEN = 300
  SensorCnt = 2
INVARIANT UpdatesAreTheReadings
CHECK_DEADLOCK FALSE
