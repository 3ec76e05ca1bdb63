SPECIFICATION Spec
CONSTANTS
  Apdus = {a1, a2}
  Faults = {"ack", "wrongkey"}
  TicksPerSecond = 1
  MaxCalls = 6
  MaxBusy = 0
CHECK_DEADLOCK FALSE
INVARIANT SessionInStep
INVARIANT SequenceAdvances
