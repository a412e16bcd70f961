CONSTANTS
  MaxActions = 2
  Kinds = {"auto"}
  Revertible = {}
  Callers = {c1}
  Operators = {o1}
  Drainers = {d1}
  Nobody = Nobody
  MaxCrashes = 0
SPECIFICATION FairSpec
PROPERTY EveryoneFinishes
PROPERTY DrainProgress
