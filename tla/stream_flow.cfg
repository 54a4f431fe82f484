SPECIFICATION Spec
CONSTANTS
  HighWaterMark = 2
  ChunkKinds = {"pair", "late", "unencodable", "garbled"}
  MaxWrites = 3
  MaxOthers = 2
CHECK_DEADLOCK FALSE
INVARIANT InOrder
INVARIANT EventsInOrder
INVARIANT Backpressure
INVARIANT NoStall
