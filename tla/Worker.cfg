SPECIFICATION WorkerSpec
CONSTANTS
  Threads = {t1, t2, t3}
  Capacity = 3
  Growth = 2
  EventSizes = {1, 4}
  MaxEvents = 1
  MaxBuffers = 5
  Events = {e1, e2}
  NoEvent = NoEvent
  MaxConnections = 3
INVARIANTS SentInv ClaimInv
PROPERTIES EventuallySent EventuallyDescribed
