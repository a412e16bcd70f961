SPECIFICATION Spec
CONSTANTS
  Handlers = {"h1", "h2"}
  Exchanges = {"k1", "k2"}
  MaxNonces = 3
  MaxGen = 2
  MaxRevokes = 1
INVARIANTS
  SingleUse
  SilentAfterTimeout
PROPERTY
  RevokedStaysRevoked
CHECK_DEADLOCK FALSE
