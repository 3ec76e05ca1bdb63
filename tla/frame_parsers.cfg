SPECIFICATION Spec
CONSTANTS
  Count = 3
  NoiseBytes = {13, 255}
INVARIANTS MessagesAsSent InsideTheBuffer
PROPERTY MessagesFound
CHECK_DEADLOCK FALSE
