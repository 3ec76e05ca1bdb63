SPECIFICATION FairSpec
CONSTANTS
  Cap = 3
  ReadSize = 2
  FrameLen = 2
  HasParser = TRUE
  Calls = {"open", "reopen", "close", "write"}
  LineFaults = {"eof", "error"}
  MaxBytes = 5
  MaxCalls = 4
CHECK_DEADLOCK FALSE
INVARIANTS
  SingleReader
  SingleWriter
  CommandsInOrder
  BufferWithinCapacity
  NoStrandedFrame
PROPERTIES FrameIntact InputDrained
