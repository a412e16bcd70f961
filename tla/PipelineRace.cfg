CONSTANTS
  MaxActions = 2
  Kinds = {"manual", "awaited"}
  Revertible = {"manual"}
  Callers = {c1, c2}
  Operators = {o1, o2}
  Drainers = {}
  Nobody = Nobody
  MaxCrashes = 0
SPECIFICATION Spec
SYMMETRY Interchangeable
INVARIANT AtMostOnce
INVARIANT StoresAgree
PROPERTY InOrder
