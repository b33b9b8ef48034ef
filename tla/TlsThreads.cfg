SPECIFICATION FairSpec
CONSTANTS
  main = main
  worker = worker
  Threads = {main, worker}
  WorkerThread = worker
  Blocks = {1, 2, 3, 4, 5, 6}
  NoBlock = NoBlock
  Size = 5
  Overflow = 3
  HeaderSize = 4
  AuxHeader = 1
  Timing = 1
  EventSizes = {2}
  AuxSizes = {5}
  Redirects = {0}
  MaxEvents <- BothLog
  MaxFields = 1
CONSTRAINT NotStrayed
ACTION_CONSTRAINT LeastBlock
INVARIANTS SoleUseUnlessStrayed StreamInOrder
PROPERTIES EventuallySent EventuallyReclaimed
