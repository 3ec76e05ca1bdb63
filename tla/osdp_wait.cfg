SPECIFICATION Spec
CONSTANTS
  Waits = {0, 2, 4}
  MaxEvents = 4
  MaxCalls = 3
CHECK_DEADLOCK FALSE
PROPERTIES
  RemovedMeansGone
  RemovalNoticed
  InsertionNoticed
  InsertionTimesOut
