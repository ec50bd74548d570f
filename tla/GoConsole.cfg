CONSTANTS
  Requests = {r1, r2, r3}
  Notifies = {n1, n2}
  Oversize = {}
  None = None
  IdSpace = 5
  SendCap = 2
  NetCap = 2
  Repeated = {}
  MaxUnsolicited = 1
SPECIFICATION ConsoleFairSpec
INVARIANTS ConsoleTypeOK InOrder AckIsOfCommand
PROPERTIES AnnouncedArrives AnsweredReturns
CHECK_DEADLOCK FALSE
