CONSTANTS
  Requests = {r1}
  Notifies = {n1}
  Oversize = {}
  None = None
  IdSpace = 4
  NetCap = 1
  MaxReplies = 1
  MaxUnsolicited = 0
  Kinds <- NoKinds
  Fragments = FALSE
SPECIFICATION Spec
INVARIANT EndsWithoutTerminate
CHECK_DEADLOCK FALSE
