SPECIFICATION Spec
CONSTANTS
  Apdus = {a1, a2}
  Faults = {"loss", "repeat", "busy"}
  TicksPerSecond = 1
  MaxCalls = 4
  MaxBusy = 2
CHECK_DEADLOCK FALSE
INVARIANTS
  TypeOK
  AtMostOneAhead
  AnswerOfTheApdu
PROPERTIES
  SecuredReplyMatches
  CallEnds
