SPECIFICATION FairSpec
CONSTANTS
  Threads = {t1, t2}
  PageBlocks = 2
  MaxPages = 4
  MaxAllocs = 3
  MaxFrees = 2
CONSTRAINT NoStalePop
INVARIANT PoolInv
PROPERTIES ImplementsPool AllocationReturns
CHECK_DEADLOCK FALSE
