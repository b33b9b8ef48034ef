SPECIFICATION ProducersSpec
CONSTANTS
  Events = {e1, e2, e3}
  NoEvent = NoEvent
  MaxConnections = 2
  Threads = {t1, t2}
  Hashes = {0, 3, 7}
  ReserveCount = 4
  DefaultSize = 2
  MaxCalls = 2
  MaxToggles = 1
  CpuThreads = {t1, t2}
  Scopes = {s1}
  Names = {n1}
  Digit = 4
  MaxBufferSize = 7
  MaxEncodedEventSize = 3
  Steps = {1, 2}
  MaxCycle = 5
  MaxSpecId = 2
  MaxSwitches = 1
  TagThreads = {t1, t2}
  TagNames = {"a", "a/b", "/b"}
  ParentName <- ParentNames
  NoTag = NoTag
  NoName = NoName
  MaxScopes = 2
  MaxTagSwitches = 1
INVARIANTS ListInv DescriptionInv TableInv FindEnds EveryIdDescribed BatchesTell BeginsDescribed TagsDescribed ActiveTagIsInnermost
CHECK_DEADLOCK FALSE
