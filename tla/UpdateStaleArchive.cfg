CONSTANTS
  MaxVersion = 1
  Grants = {g1}
  MaxEdits = 0
  MaxCrashes = 1
  Settings = {FALSE, TRUE}
  Backups <- MCBackups
SPECIFICATION Spec
INVARIANTS
  RevokedStaysRevoked
