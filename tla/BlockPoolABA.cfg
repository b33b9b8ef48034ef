SPECIFICATION Spec
CONSTANTS
  Threads = {t1, t2}
  PageBlocks = 3
  MaxPages = 1
  MaxAllocs = 3
  MaxFrees = 1
INVARIANTS Exclusive
CHECK_DEADLOCK FALSE
