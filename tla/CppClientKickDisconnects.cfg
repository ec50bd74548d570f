CONSTANTS
  Requests = {r1}
  Notifies = {n1}
  Oversize = {}
  None = None
  IdSpace = 4
  NetCap = 1
  MaxReplies = 1
  MaxUnsolicited = 1
  Kinds <- OnlyKick
  Fragments = FALSE
SPECIFICATION FairSpec
PROPERTY KickDisconnects
CHECK_DEADLOCK FALSE
