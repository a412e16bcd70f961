---------------------------- MODULE EffectLedger ----------------------------
(***************************************************************************)
(* What the action pipeline promises to the owner of a resource, without   *)
(* journals, queues, processes or crashes: every submitted action has one  *)
(* fate, the resource takes its effect at most once and in id order, only  *)
(* while the fate is open, and whoever looks at a closed fate knows what   *)
(* the resource went through.  An open fate may stay open for ever: that   *)
(* is the code's "uncertain", it is never guessed and never retried.       *)
(***************************************************************************)
EXTENDS Naturals

CONSTANT MaxActions

VARIABLES
  fate,     \* "unseen", "waiting", "open", "applied", "rejected", "reverted"
  applies,  \* times the resource took each action's effect
  reverts   \* times it took the reversal

ledger == <<fate, applies, reverts>>
Ids    == 1 .. MaxActions

Init ==
  /\ fate = [i \in Ids |-> "unseen"]
  /\ applies = [i \in Ids |-> 0]
  /\ reverts = [i \in Ids |-> 0]

EarlierClosed(i) ==
  \A j \in Ids : j < i => fate[j] \notin {"waiting", "open"}

Becomes(i, f) ==
  fate' = [fate EXCEPT ![i] = f] /\ UNCHANGED <<applies, reverts>>

\* An action is announced; its submission may itself have an open outcome.
Announce(i) == fate[i] = "unseen" /\ Becomes(i, "open")

\* Its submission is confirmed: it waits for a decision.
Queue(i) ==
  /\ fate[i] = "open"
  /\ applies[i] = 0
  /\ Becomes(i, "waiting")

\* A decision is acted upon: the outcome is open from here on.
Begin(i) ==
  /\ \/ fate[i] = "waiting"
     \/ fate[i] = "applied" /\ reverts[i] = 0
  /\ Becomes(i, "open")

\* The resource takes the effect, after everything that came before it.
Apply(i) ==
  /\ fate[i] = "open"
  /\ applies[i] = 0
  /\ EarlierClosed(i)
  /\ applies' = [applies EXCEPT ![i] = 1]
  /\ UNCHANGED <<fate, reverts>>

Revert(i) ==
  /\ fate[i] = "open"
  /\ applies[i] = 1
  /\ reverts[i] = 0
  /\ reverts' = [reverts EXCEPT ![i] = 1]
  /\ UNCHANGED <<fate, applies>>

\* The outcome is known.
Close(i) ==
  \/ fate[i] = "open" /\ applies[i] = 1 /\ reverts[i] = 0 /\ Becomes(i, "applied")
  \/ fate[i] = "open" /\ reverts[i] = 1 /\ Becomes(i, "reverted")
  \/ fate[i] = "waiting" /\ applies[i] = 0 /\ Becomes(i, "rejected")

Next ==
  \E i \in Ids : Announce(i) \/ Queue(i) \/ Begin(i) \/ Apply(i) \/ Revert(i) \/ Close(i)

Spec == Init /\ [][Next]_ledger

=============================================================================
