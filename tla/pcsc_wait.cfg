SPECIFICATION Spec
CONSTANTS
  Readers = {1, 2}
  Special = {2}
  Cards = {1, 2}
  Waits = {0, 2}
  MaxLate = 2
  MaxCalls = 4
  MaxMoves = 3
INVARIANTS NoHandleWhileWaiting ActsWhereSeen
PROPERTIES RemovedMeansGone InsertionTimesOut RemovalTimesOut
CHECK_DEADLOCK FALSE
