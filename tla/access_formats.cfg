SPECIFICATION Spec
CONSTANT
  Formats = {"w26", "w34", "w34f", "w35", "w37", "w37f", "w37p2",
             "honeywell", "getronik", "barium"}
CHECK_DEADLOCK FALSE
INVARIANTS
  RoundTrip
  DamageDetected
