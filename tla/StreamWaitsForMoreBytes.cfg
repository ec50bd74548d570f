CONSTANTS
  Radix = 2
  Payloads <- PlainPayloads
  Chunk = 9
  MaxSent = 3
SPECIFICATION Spec
INVARIANT WaitsForMoreBytes
CHECK_DEADLOCK FALSE
