CONSTANTS
  Radix = 2
  Payloads <- SmallPayloads
  Chunk = 9
  MaxSent = 4
SPECIFICATION FairSpec
INVARIANTS TypeOK HeldOnlyByFullRead
PROPERTIES ImplementsPacketStream DeafOncePoisoned HandedOver
CHECK_DEADLOCK FALSE
