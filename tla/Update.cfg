SPECIFICATION UpdateSpec
CONSTANTS
  main = main
  worker = worker
  Threads = {main, worker}
  WorkerThread = worker
  Blocks = {1, 2, 3, 4}
  NoBlock = NoBlock
  Size = 5
  Overflow = 3
  HeaderSize = 4
  AuxHeader = 1
  Timing = 1
  EventSizes = {2}
  AuxSizes = {2, 5}
  Redirects = {0, 1}
  MaxEvents <- MainLogs
  MaxFields = 2
  Callers = {c1}
  Worker = worker
  Exit = exit
  p1 = p1
  p2 = p2
  Pumps = {p1, p2}
  Commands = {"WriteTo", "Stop"}
  Exits = TRUE
  MaxHandles = 2
CONSTRAINT NotStrayed
ACTION_CONSTRAINTS LeastBlock PumpsInTurn
INVARIANTS ChainInvUnlessStrayed NoOverrun ConnectionInv SessionInOrder
PROPERTIES ImplementsTrace StopCloses OpenedIsServed
