----------------------- MODULE ActionPipelineInvariant -----------------------
(***************************************************************************)
(* The inductive invariant behind the safety properties of ActionPipeline: *)
(* which lock a process holds where, what the journal and the kernel's row *)
(* say about the action it works on, and what the resource has been        *)
(* through in every state of the journal.                                  *)
(***************************************************************************)
EXTENDS ActionPipeline

\* Where a caller, and where a decider, can be.
CallerLabels  == {"idle", "opening", "replaying", "open", "calling", "accepted",
                  "simulating", "simulated", "effect", "effected"}
DeciderLabels == {"idle", "waiting", "drainwait", "draining", "opening",
                  "replaying", "authorizing", "claimed", "effect", "effected",
                  "undo", "undone", "confirm"}

\* Where a process holds the driver's queue, and works on a journal record.
OnRecord == {"accepted", "simulating", "simulated", "effect", "effected",
             "undo", "undone"}
InKit    == OnRecord \cup {"replaying"}

\* Where a decider has claimed a row; works on one; holds the coordinator's queue.
HasClaim == {"claimed", "effect", "effected", "undo", "undone", "confirm"}
OnRow    == HasClaim \cup {"opening", "replaying", "authorizing"}
InFlight == OnRow \cup {"draining"}

\* Each queue has one holder, and a process is only where its role takes it.
LockOK(p) ==
  /\ p \in Callers => proc[p].pc \in CallerLabels
  /\ p \in Deciders => proc[p].pc \in DeciderLabels
  /\ proc[p].pc \in InKit => kit = p
  /\ p \in Deciders /\ proc[p].pc \in InFlight => flight = p

\* A process works on an existing record, or row, and a selection of rows.
WorkOK(p) ==
  /\ proc[p].pc \in OnRecord => proc[p].act \in Ids /\ proc[p].act < next
  /\ proc[p].todo \subseteq RowIds
  /\ proc[p].pc = "waiting" => proc[p].todo # {}
  /\ p \in Deciders /\ proc[p].pc \in OnRow =>
       proc[p].row \in RowIds /\ proc[p].act = rows[proc[p].row].action

\* What the journal and the resource say while a process is at work on an action.
JournalOK(p) ==
  LET i == proc[p].act IN
    /\ proc[p].pc = "accepted" => journal[i] = "submitting"
    /\ proc[p].pc \in {"simulating", "simulated"} => journal[i] = "pending"
    /\ proc[p].pc = "effect" => journal[i] = "applying" /\ applies[i] = 0
    /\ proc[p].pc = "effected" => journal[i] = "applying" /\ applies[i] = 1
    /\ proc[p].pc = "undo" => journal[i] = "reverting" /\ reverts[i] = 0
    /\ proc[p].pc = "undone" => journal[i] = "reverting" /\ reverts[i] = 1
    /\ proc[p].pc = "effect" => EarlierDecided(i)

\* A decider with a claim has its intent in the row and acts as its verb says;
\* when it confirms, the journal has the outcome.
ClaimOK(p) ==
  p \in Deciders =>
    /\ proc[p].pc \in HasClaim => rows[proc[p].row].status = "failed"
    /\ proc[p].pc \in {"effect", "effected"} => proc[p].verb = "apply"
    /\ proc[p].pc \in {"undo", "undone"} => proc[p].verb = "revert"
    /\ proc[p].pc = "confirm" => journal[proc[p].act] = Outcome(proc[p].verb)

ProcOK(p) == LockOK(p) /\ WorkOK(p) /\ JournalOK(p) /\ ClaimOK(p)

\* The id counter is ahead of every record, and rows follow the journal's order.
OrderInv ==
  /\ \A i \in Ids : i >= next => journal[i] = "none"
  /\ \A k \in RowIds : rows[k].action < next
  /\ SameOrder

\* What the resource has been through in every state of the journal.
HistoryInv ==
  \A i \in Ids :
    /\ applies[i] <= 1
    /\ reverts[i] <= applies[i]
    /\ journal[i] \in {"none", "submitting", "pending", "rejected"} => applies[i] = 0
    /\ journal[i] \in {"applied", "reverting", "reverted"} => applies[i] = 1
    /\ journal[i] \in {"applying", "applied"} => reverts[i] = 0
    /\ journal[i] = "reverted" => reverts[i] = 1

\* The outcomes the kernel reports are the journal's.
OutcomeInv ==
  \A k \in RowIds :
    rows[k].status \in Decided => journal[rows[k].action] = rows[k].status

StoreInv == OrderInv /\ HistoryInv /\ OutcomeInv

\* The conjunction, which every step preserves: it implies each of the
\* pipeline's outcomes, at-most-once effects and order properties.
PipelineInv ==
  /\ TypeOK
  /\ StoreInv
  /\ \A p \in Procs : ProcOK(p)

-----------------------------------------------------------------------------
(***************************************************************************)
(* What operators and agents are shown: the kernel's queue and the         *)
(* overlay, on top of PipelineInv.                                         *)
(***************************************************************************)

\* The kernel lists the action, bound to the grant it came from.
Queued(i) == \E k \in RowIds : rows[k].action = i /\ rows[k].bound

\* A record that got past submitting is listed.
QueueInv ==
  \A i \in Ids : journal[i] \in {"pending", "applying", "reverting"} \cup Decided => Queued(i)

\* A deferred action's row carries the intent from the moment the driver saves
\* it as applying (reverting), and afterwards whatever becomes of the record.
IntentInv ==
  \A k \in RowIds : LET i == rows[k].action IN
    /\ kind[i] # "awaited" /\ (applies[i] > 0 \/ journal[i] = "applying") =>
         rows[k].status # "pending"
    /\ reverts[i] > 0 \/ journal[i] = "reverting" => rows[k].status \in {"failed", "reverted"}

\* A caller's session that is open; a caller about to simulate action i.
Live          == \E c \in Callers : proc[c].pc \in {"open", "calling"} /\ ~proc[c].closed
Simulating(i) == \E c \in Callers : proc[c].pc = "simulating" /\ proc[c].act = i

\* Records that have no overlay entry while a session is live.
Entryless == {"none", "reverting"} \cup Decided

\* The overlay holds deferred actions only; and while a session is live,
\* whatever else is open or unknown, no decided record has an entry and every
\* pending one has, or is about to get, its own.
OverlayInv ==
  /\ \A i \in overlay : i < next /\ kind[i] # "awaited"
  /\ Live => \A i \in Ids :
       /\ journal[i] \in Entryless => i \notin overlay
       /\ i \in Simulated => i \in overlay \/ Simulating(i)

\* A caller back from the kernel has its row; what is simulated is deferred, and
\* then in the overlay; a recovery works on settled records, stale entries gone.
ViewOK(p) ==
  /\ proc[p].pc = "accepted" => Queued(proc[p].act)
  /\ proc[p].pc \in {"simulating", "simulated"} => kind[proc[p].act] # "awaited"
  /\ proc[p].pc = "simulated" => proc[p].act \in overlay
  /\ proc[p].pc = "replaying" => Settled /\ Stale = {}

\* The inductive invariant of the whole pipeline.
IndInv ==
  /\ PipelineInv
  /\ QueueInv
  /\ IntentInv
  /\ OverlayInv
  /\ \A p \in Procs : ViewOK(p)

=============================================================================
