CONSTANTS
  Requests = {r1}
  Notifies = {n1}
  Oversize = {}
  None = None
  IdSpace = 4
  NetCap = 1
  MaxReplies = 1
  MaxUnsolicited = 1
  Kinds <- OnlyPush
  Fragments = FALSE
SPECIFICATION Spec
INVARIANT OnMessageThreadSafe
CHECK_DEADLOCK FALSE
