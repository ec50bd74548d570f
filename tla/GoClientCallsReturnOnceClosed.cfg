CONSTANTS
  Requests = {r1}
  Notifies = {n1, n2}
  Oversize = {}
  None = None
  IdSpace = 4
  SendCap = 1
  NetCap = 1
  Repeated = {}
  MaxUnsolicited = 1
SPECIFICATION FairSpec
PROPERTY CallsReturnOnceClosed
CHECK_DEADLOCK FALSE
