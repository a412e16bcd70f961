------------------------- MODULE MCUpdateTransaction -------------------------
(* The instance of UpdateTransaction that TLC explores.                         *)
EXTENDS UpdateTransaction

\* Open cells of the first version with their first configuration and no grants: an
\* archive that is older than the cell.  The proofs have archives of any cell.
MCBackups == {s \in States : ~s.maint /\ s.lock = 0 /\ s.config = 0 /\ s.active \cup s.revoked = {}}
=============================================================================
