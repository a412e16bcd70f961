--------------------------- MODULE KitGatekeeper ---------------------------
(***************************************************************************)
(* The durable half of one resource driver: the action journal, the id     *)
(* sequencer and the overlay of simulated effects that KitGatekeeper       *)
(* (gatekeeper-kit) keeps on disk, together with the resource itself.      *)
(*                                                                         *)
(* Every operator below is one atomic write of one of those files (each is *)
(* published by writeJsonAtomic: temporary file, fsync, rename), or one    *)
(* effect on the resource.  ActionPipeline says who performs them, in      *)
(* which order, and where a crash falls between two of them.               *)
(***************************************************************************)
EXTENDS Naturals, FiniteSets

CONSTANTS
  MaxActions,  \* bound: ids the sequencer can hand out (2^53-1 in the code)
  Kinds,       \* classes of action descriptions the driver may produce
  Revertible   \* the kinds whose description has implementsRevert

\* "auto":    deferred, autoApprovable and its tag is in the autoApprove list
\* "manual":  deferred, needs an operator's decision
\* "awaited": awaitDecision, decided before the call and applied inside it
ASSUME KitAssumption ==
  /\ MaxActions \in Nat
  /\ Kinds \subseteq {"auto", "manual", "awaited"}
  /\ Revertible \subseteq Kinds

VARIABLES
  next,     \* ActionSequencer.nextId, as in the .sequence file
  journal,  \* status of each ActionRecord, "none" where there is no record
  kind,     \* class of the record's description, "none" likewise
  overlay,  \* ids with an entry in OverlayStore
  applies,  \* times the resource took the action's effect (not in the code)
  reverts   \* times the resource took the effect's reversal (not in the code)

kitVars == <<next, journal, kind, overlay, applies, reverts>>

Ids == 1 .. MaxActions

Decided   == {"applied", "rejected", "reverted"}
Unsettled == {"submitting", "applying", "reverting", "uncertain"}
Status    == {"none", "pending"} \cup Decided \cup Unsettled

KitTypeOK ==
  /\ next \in 1 .. (MaxActions + 1)
  /\ journal \in [Ids -> Status]
  /\ kind \in [Ids -> Kinds \cup {"none"}]
  /\ overlay \in SUBSET Ids
  /\ applies \in [Ids -> Nat]
  /\ reverts \in [Ids -> Nat]

KitInit ==
  /\ next = 1
  /\ journal = [i \in Ids |-> "none"]
  /\ kind = [i \in Ids |-> "none"]
  /\ overlay = {}
  /\ applies = [i \in Ids |-> 0]
  /\ reverts = [i \in Ids |-> 0]

(***************************************************************************)
(* What the code asks of the journal.                                      *)
(***************************************************************************)

\* assertSettled(): no record whose outcome is open or unknown.
Settled == \A i \in Ids : journal[i] \notin Unsettled

\* Mutant: applyRecorded() without its look at earlier records.
AnyOrder(i) == TRUE

\* applyRecorded(): every record with a lower id has been decided.
EarlierDecided(i) ==
  \A j \in Ids : j < i => journal[j] \in Decided \cup {"none"}

\* Records whose simulated effect the overlay must hold.
Simulated == {i \in Ids : journal[i] = "pending" /\ kind[i] # "awaited"}

\* Mutant: recoverOverlay() keeps the entries of decided records.
NoStale == {}

\* recoverOverlay(): the entries to drop, the effects to simulate again.
Stale   == {i \in overlay : journal[i] # "pending"}
Missing == Simulated \ overlay

(***************************************************************************)
(* What the code writes.                                                   *)
(***************************************************************************)

\* sequence.next(): the id is used up even when no record follows.
Reserve ==
  /\ next' = next + 1
  /\ UNCHANGED <<journal, kind, overlay, applies, reverts>>

\* next() and the record's first save(), with status s.
Record(k, s) ==
  /\ next' = next + 1
  /\ journal' = [journal EXCEPT ![next] = s]
  /\ kind' = [kind EXCEPT ![next] = k]
  /\ UNCHANGED <<overlay, applies, reverts>>

\* save({...record, status: s})
Save(i, s) ==
  /\ journal' = [journal EXCEPT ![i] = s]
  /\ UNCHANGED <<next, kind, overlay, applies, reverts>>

\* save({...record, status: s}) and then overlay.remove(i)
SaveAndRetire(i, s) ==
  /\ journal' = [journal EXCEPT ![i] = s]
  /\ overlay' = overlay \ {i}
  /\ UNCHANGED <<next, kind, applies, reverts>>

SetOverlay(entries) ==
  /\ overlay' = entries
  /\ UNCHANGED <<next, journal, kind, applies, reverts>>

\* The resource takes the effect of action i, or its reversal.
Effect(i) ==
  /\ applies' = [applies EXCEPT ![i] = @ + 1]
  /\ UNCHANGED <<next, journal, kind, overlay, reverts>>

Reversal(i) ==
  /\ reverts' = [reverts EXCEPT ![i] = @ + 1]
  /\ UNCHANGED <<next, journal, kind, overlay, applies>>

=============================================================================
