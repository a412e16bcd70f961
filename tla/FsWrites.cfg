CONSTANTS
  MaxId = 2
  MaxEdits = 2
  MaxCrashes = 1
  Publishers = {"exchange", "rename"}
SPECIFICATION Spec
CHECK_DEADLOCK FALSE
INVARIANTS
  TypeOK
  ReceiptMeansCas
  LostOnlyByRename
  SettledIsClean
  RevertRestores
