SPECIFICATION Spec
CONSTANTS
  Resources = {"r1"}
  Requests = {"q1"}
  Calls = {"c1"}
  Operators = {"o1", "o2"}
  MaxCalls = 2
  MaxRevokes = 1
  MaxCrashes = 1
INVARIANTS
  TypeOK
  RevokedMeansOver
  ClaimHasOwner
PROPERTIES
  EndedForever
  RequestSettlesOnce
  CommandsEnd
CHECK_DEADLOCK FALSE
