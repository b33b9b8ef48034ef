SPECIFICATION ClientsSpec
CONSTANTS
  Size = 11
  Requests <- SomeRequests
  TooBig = {12}
  MaxBytes = 24
  CollectorSize = 3
  BufferSize = 8
  PacketHeader = 1
  EncodeMaxSize = 4
  DataSizes = {1, 3, 7}
  MaxCached = 18
  MaxBuffers = 6
  Letters = {"a"}
  CommandBuffer = 4
  MaxWords = 2
  MaxSent = 6
  MaxClients = 2
INVARIANTS RingInv TailIsSuffix ClientSeesNoGap TailIsLong CacheKeepsAll EveryCommandOnce
PROPERTIES ImplementsStream NextClientServed
CHECK_DEADLOCK FALSE
