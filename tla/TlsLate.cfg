SPECIFICATION Spec
CONSTANTS
  main = main
  worker = worker
  Threads = {main, worker}
  WorkerThread = worker
  Blocks = {1, 2, 3}
  NoBlock = NoBlock
  Size = 5
  Overflow = 3
  HeaderSize = 4
  AuxHeader = 1
  Timing = 1
  EventSizes = {2}
  AuxSizes = {2}
  Redirects = {0}
  MaxEvents <- MainLogs
  MaxFields = 1
INVARIANT SoleUse
