SPECIFICATION FairSpec
CONSTANTS
  c1 = c1
  c2 = c2
  Channels <- TwoChannels
  Nil = Nil
  Requests <- Both
  Types = {"Network", "File"}
  Commands = {"ToggleChannels", "SendTo", "Stop"}
  MaxRequests = 2
INVARIANTS ChannelsKept ClientKnows SessionInv SessionHasConnection
PROPERTIES EventuallyAnnounced
CHECK_DEADLOCK FALSE
