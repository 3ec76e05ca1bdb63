SPECIFICATION TSpec
CONSTANTS
  Cap = 2
  ReadSize = 2
  FrameLen = 1
  HasParser = TRUE
  Calls = {"open", "reopen", "close", "write"}
  LineFaults = {"eof", "error"}
  MaxBytes = 6
  MaxCalls = 6
  RetryEnabled = TRUE
CHECK_DEADLOCK FALSE
INVARIANTS
  CleanExchange
PROPERTY AnswersInOrder
