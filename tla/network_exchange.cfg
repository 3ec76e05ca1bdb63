SPECIFICATION Spec
CONSTANTS
  MaxCalls = 4
  MaxFaults = 3
INVARIANTS TypeOK QuietBetweenCalls
PROPERTY Promise
CHECK_DEADLOCK FALSE
