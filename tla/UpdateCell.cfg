CONSTANTS
  MaxVersion = 2
  Grants = {g1}
  MaxEdits = 1
  MaxCrashes = 2
  Settings = {FALSE}
  Backups <- MCBackups
SPECIFICATION Spec
INVARIANTS
  TypeOK
  AdmissionAfterCommit
  CommitKeepsGrants
  OldNeverOnNewState
  SettledConsistent
PROPERTIES
  RestoreKeepsRevocations
