CONSTANTS
  Requests = {r1, r2}
  Notifies = {}
  Oversize = {}
  None = None
  IdSpace = 4
  NetCap = 2
  MaxReplies = 2
  MaxUnsolicited = 1
  Kinds <- AllKinds
  Fragments = TRUE
SPECIFICATION Spec
INVARIANTS TypeOK PromiseKept ClosedWhenUnused Correlated
PROPERTY ImplementsRpcCalls
SYMMETRY RequestSymmetry
CHECK_DEADLOCK FALSE
