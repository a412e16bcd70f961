---------------------------- MODULE ActionStore ----------------------------
(***************************************************************************)
(* The actions and action_bindings tables of the kernel's SQLite store,    *)
(* for one gatekeeper instance.  Each operator is one autocommitted        *)
(* statement; the kernel id of an action is its position in rows.          *)
(***************************************************************************)
EXTENDS Naturals, Sequences

VARIABLE
  rows  \* rows[k] = [action: the driver's id, status, bound: has a binding]

RowStatus == {"pending", "failed", "applied", "rejected", "reverted"}
RowIds    == 1 .. Len(rows)

\* The status an operation expects to find and the one it leaves.
Verbs       == {"apply", "reject", "revert"}
Expected(v) == IF v = "revert" THEN "applied" ELSE "pending"

\* Mutant: a status outside the schema.
OutcomeUnlisted(v) == IF v = "reject" THEN "declined" ELSE "applied"

Outcome(v)  == CASE v = "apply" -> "applied"
                 [] v = "reject" -> "rejected"
                 [] v = "revert" -> "reverted"

Row(i, b) == [action |-> i, status |-> "pending", bound |-> b]

\* Mutant: rows listed newest first.
AddNewestFirst(i, b) == rows' = <<Row(i, b)>> \o rows

\* addAction(): INSERT OR IGNORE against UNIQUE(gatekeeperInstance, actionId);
\* bindAction() follows in a statement of its own (b = FALSE: not reached).
AddAction(i, b) ==
  rows' = IF \E k \in RowIds : rows[k].action = i
          THEN rows
          ELSE Append(rows, Row(i, b))

SetStatus(k, s) == rows' = [rows EXCEPT ![k].status = s]

\* Mutant: the claim persists no intent.
ClaimWithoutIntent(k, v) == rows[k].status = Expected(v) /\ UNCHANGED rows

\* claimAction(): the fail-closed intent is written where status = expected.
ClaimAction(k, v) == rows[k].status = Expected(v) /\ SetStatus(k, "failed")

\* decideAction(): unconditional.
DecideAction(k, v) == SetStatus(k, Outcome(v))

\* An apply may not overtake an earlier action without a known outcome.
Overtakes(k) == \E j \in RowIds : j < k /\ rows[j].status \in {"pending", "failed"}

=============================================================================
