SPECIFICATION Spec
CONSTANTS
  p1 = p1
  p2 = p2
  p3 = p3
  ttyS0 = ttyS0
  ttyS1 = ttyS1
  Procs = {p1, p2, p3}
  TTYs = {ttyS0, ttyS1}
  TTYOf <- TwoLines
  UucpKnown = {p1, p3}
  MaxSignals = 2
INVARIANTS OneTTY LockExclusive AttachedWhilePaused LineReleased
CHECK_DEADLOCK FALSE
