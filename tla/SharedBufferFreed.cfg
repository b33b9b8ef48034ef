SPECIFICATION Spec
CONSTANTS
  Threads = {t1, t2}
  Capacity = 3
  Growth = 2
  EventSizes = {1, 2, 4}
  MaxEvents = 1
  MaxBuffers = 5
INVARIANTS NoUseAfterFree
