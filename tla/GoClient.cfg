CONSTANTS
  Requests = {r1, r2}
  Notifies = {n1}
  Oversize = {n1}
  None = None
  IdSpace = 4
  SendCap = 1
  NetCap = 1
  Repeated = {r1}
  MaxUnsolicited = 1
SPECIFICATION FairSpec
INVARIANTS TypeOK RepliedOnce PendingUntilReplied NothingLostWhileWriting MuteOnlyByOversize Correlated
PROPERTIES ImplementsRpcCalls ReplyDelivered ReaderUnblocks ClosedOrJammed
CHECK_DEADLOCK FALSE
