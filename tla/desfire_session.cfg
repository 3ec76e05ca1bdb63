SPECIFICATION Spec
CONSTANTS
  Keys = {k0, k1}
  DefaultKey = k0
  Aids = {0, 1}
  KeyNos = {0, 1}
  MaxSessions = 2
  MaxChain = 4
  MaxThrown = 1
INVARIANTS TypeOK SessionAgreement KeyTableTrue
PROPERTIES AuthenticateRestores
CHECK_DEADLOCK FALSE
