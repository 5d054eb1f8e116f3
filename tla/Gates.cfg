SPECIFICATION FairSpec
CONSTANTS
  NGates = 2
  MaxPid = 5
  MaxSignals = 2
INVARIANTS NoOrphans TogglesCounted
PROPERTY GatesManned
CHECK_DEADLOCK FALSE
