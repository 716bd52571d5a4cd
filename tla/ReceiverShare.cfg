CONSTANTS
  Base = 256
  Registered = {1, 2}
  Processors = {"share"}
  Streams <- MCStreams
  MaxMsgSize = 12
  InitialSize = 8
  PoolBuffSize = 40
  SplitHeaders = TRUE
SPECIFICATION Spec
INVARIANTS UnpackedInOrder
CHECK_DEADLOCK FALSE
