SPECIFICATION Spec
CONSTANTS
  c1 = c1
  c2 = c2
  Channels <- OneChannel
  Nil = Nil
  Requests <- OnlyOne
  Types = {"Network"}
  Commands = {}
  MaxRequests = 2
PROPERTIES StartMakesConnection
CHECK_DEADLOCK FALSE
