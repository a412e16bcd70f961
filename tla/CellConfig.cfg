CONSTANTS
  MaxFragments = 1
  MaxBundles = 1
  MaxEdits = 1
  MaxRuns = 3
SPECIFICATION Spec
CHECK_DEADLOCK FALSE
INVARIANTS
  TypeOK
  
  
  PinLostOnlyByOverlap
PROPERTIES
  ForeignEditsSurvive
