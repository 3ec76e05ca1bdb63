SPECIFICATION FairSpec
CONSTANTS
  Cap = 3
  ReadSize = 2
  FrameLen = 2
  HasParser = TRUE
  Calls = {"open", "close"}
  LineFaults = {}
  MaxBytes = 3
  MaxCalls = 2
CHECK_DEADLOCK FALSE
PROPERTY CloseReturns
