SPECIFICATION Spec
CONSTANTS
  SensorCnt = 3
  N_LUNIX_MSR = 3
  MaxLoads = 3
INVARIANTS LiveOnlyWhenReady UndoneButPages
CHECK_DEADLOCK FALSE
