CONSTANTS
  Requests = {r1, r2}
  Notifies = {}
  Oversize = {}
  None = None
  IdSpace = 4
  NetCap = 1
  MaxReplies = 1
  MaxUnsolicited = 0
  Kinds <- NoKinds
  Fragments = FALSE
SPECIFICATION Spec
INVARIANT ResponseFindsPromise
CHECK_DEADLOCK FALSE
