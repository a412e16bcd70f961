CONSTANTS
  MaxActions = 2
  Kinds = {"auto", "awaited"}
  Revertible = {"auto"}
  Callers = {c1}
  Operators = {o1}
  Drainers = {d1}
  Nobody = Nobody
  MaxCrashes = 1
SPECIFICATION Spec
PROPERTY EffectUnderAuthority
