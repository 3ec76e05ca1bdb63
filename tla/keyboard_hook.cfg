SPECIFICATION Spec
CONSTANTS
  Sessions = {1, 2}
  IsUserSession = FALSE
  Chips = {c1, c2}
  NoChip = NoChip
  MaxDelay = 2
  MaxKeys = 2
INVARIANTS KeysOnceInOrder
PROPERTIES HookStays HooksExit
CHECK_DEADLOCK FALSE
