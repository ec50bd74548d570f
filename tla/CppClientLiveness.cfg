CONSTANTS
  Requests = {r1}
  Notifies = {n1}
  Oversize = {r1}
  None = None
  IdSpace = 4
  NetCap = 1
  MaxReplies = 0
  MaxUnsolicited = 1
  Kinds <- AllKinds
  Fragments = FALSE
SPECIFICATION FairSpec
INVARIANT NothingLeftBehind
PROPERTIES PushedIsTaken NotifyReturns StopEnds
CHECK_DEADLOCK FALSE
