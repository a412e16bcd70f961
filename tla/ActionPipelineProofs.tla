------------------------ MODULE ActionPipelineProofs ------------------------
(***************************************************************************)
(* Machine-checked proofs, for every number of callers, operators,         *)
(* drainers, actions and crashes, that ActionPipeline keeps its types and  *)
(* that the resource takes effects at most once, in order, and as the      *)
(* kernel reports them.                                                    *)
(*                                                                         *)
(* The argument is rely/guarantee: ProcOK(q) says what process q relies    *)
(* on; Undisturbed(q) is what the step of another process leaves alone     *)
(* (because both queues have one holder); Rely shows that it is enough.    *)
(* Each action then only has to establish ProcOK of the process that takes *)
(* it, the invariant of the stores, and Undisturbed for everybody else.    *)
(***************************************************************************)
EXTENDS ActionPipelineInvariant, TLAPS, SequenceTheorems, WellFoundedInduction

\* The rows only grow, and keep the action they are about.
RowsGrow ==
  /\ RowIds \subseteq RowIds'
  /\ \A k \in RowIds : rows'[k].action = rows[k].action

\* What the step of another process leaves alone.
Undisturbed(q) ==
  /\ proc'[q].pc = proc[q].pc
  /\ proc'[q].act = proc[q].act
  /\ proc'[q].row = proc[q].row
  /\ proc'[q].verb = proc[q].verb
  /\ proc'[q].todo = proc[q].todo
  /\ next' \in Nat /\ next <= next'
  /\ RowsGrow
  /\ kit = q => kit' = q /\ UNCHANGED <<journal, applies, reverts>>
  /\ flight = q =>
       /\ flight' = q
       /\ \A k \in RowIds : rows[k].status = "failed" => rows'[k].status = "failed"
       /\ \A i \in Ids : journal[i] \in Decided => journal'[i] = journal[i]

-----------------------------------------------------------------------------
(***************************************************************************)
(* The operators the model is built from.                                  *)
(***************************************************************************)

\* Min(), with which decide() and drain() pick their next row, picks a member.
LEMMA MinIsMember ==
  ASSUME NEW S, S \subseteq Nat, S # {}
  PROVE  Min(S) \in S
<1>1. PICK x \in S : \A y \in S : ~(<<y, x>> \in OpToRel(<, Nat))
  BY WFMin, NatLessThanWellFounded
<1>2. ASSUME NEW y \in S PROVE x <= y
  <2>1. ~(y < x)
    BY <1>1, <<y, x>> \in Nat \X Nat, Zenon DEF OpToRel
  <2> QED
    BY <2>1
<1> QED
  BY <1>2 DEF Min

\* Goto() changes the place of one process and nothing else of any.
LEMMA GotoFacts ==
  ASSUME proc \in [Procs -> ProcState], NEW p \in Procs, NEW l \in Labels, Goto(p, l)
  PROVE  /\ proc' \in [Procs -> ProcState]
         /\ proc'[p].pc = l
         /\ proc'[p].act = proc[p].act
         /\ proc'[p].row = proc[p].row
         /\ proc'[p].verb = proc[p].verb
         /\ proc'[p].todo = proc[p].todo
         /\ \A q \in Procs : q # p => proc'[q] = proc[q]
BY DEF Goto, ProcState

\* Become() gives one process a new state.
LEMMA BecomeFacts ==
  ASSUME proc \in [Procs -> ProcState], NEW p \in Procs, NEW r \in ProcState, Become(p, r)
  PROVE  /\ proc' \in [Procs -> ProcState]
         /\ proc'[p] = r
         /\ \A q \in Procs : q # p => proc'[q] = proc[q]
BY DEF Become

\* A process that gives up is idle.
LEMMA IdleFacts ==
  ASSUME PipelineAssumption, KitAssumption
  PROVE  /\ IdleProc \in ProcState
         /\ IdleProc.pc = "idle"
         /\ IdleProc.todo = {}
BY DEF IdleProc, ProcState, Labels, Verbs, KitAssumption

\* An idle process relies on nothing.
LEMMA IdleOK ==
  ASSUME NEW p \in Procs, proc'[p] = IdleProc
  PROVE  ProcOK(p)'
BY DEF IdleProc, ProcOK, LockOK, WorkOK, JournalOK, ClaimOK, CallerLabels,
       DeciderLabels, InKit, InFlight, OnRow, OnRecord, HasClaim

\* The kernel's rows are about the driver's ids.
LEMMA RowFacts ==
  ASSUME rows \in Seq(RowSet), NEW k \in RowIds
  PROVE  rows[k] \in RowSet /\ rows[k].action \in Ids /\ rows[k].status \in RowStatus
<1>1. rows[k] \in RowSet
  BY ElementOfSeq DEF RowIds
<1> QED
  BY <1>1 DEF RowSet

\* The kernel's ids are numbers.
LEMMA RowIdsFacts ==
  ASSUME rows \in Seq(RowSet)
  PROVE  Len(rows) \in Nat /\ RowIds \in SUBSET Nat
<1>1. Len(rows) \in Nat
  BY LenProperties
<1> QED
  BY <1>1 DEF RowIds

\* SetStatus() changes the status of one row and nothing else of any.
LEMMA SetStatusFacts ==
  ASSUME rows \in Seq(RowSet), NEW k \in RowIds, NEW s \in RowStatus, SetStatus(k, s)
  PROVE  /\ rows' \in Seq(RowSet)
         /\ RowIds' = RowIds
         /\ \A j \in RowIds : rows'[j].action = rows[j].action
         /\ \A j \in RowIds : rows'[j].bound = rows[j].bound
         /\ \A j \in RowIds : rows'[j].status = IF j = k THEN s ELSE rows[j].status
<1>1. rows[k] \in RowSet
  BY RowFacts
<1>2. [rows[k] EXCEPT !.status = s] \in RowSet
  BY <1>1 DEF RowSet
<1>3. rows' = [rows EXCEPT ![k] = [rows[k] EXCEPT !.status = s]]
  BY DEF SetStatus
<1>4. /\ rows' \in Seq(RowSet)
      /\ Len(rows') = Len(rows)
      /\ \A j \in 1 .. Len(rows) :
           rows'[j] = IF j = k THEN [rows[k] EXCEPT !.status = s] ELSE rows[j]
  BY <1>2, <1>3, ExceptSeq DEF RowIds
<1> QED
  BY <1>1, <1>4 DEF RowIds, RowSet

\* AddAction() of an action without a row appends one.
LEMMA AddActionFacts ==
  ASSUME rows \in Seq(RowSet), NEW i \in Ids, NEW b \in BOOLEAN,
         \A k \in RowIds : rows[k].action # i, AddAction(i, b)
  PROVE  /\ rows' \in Seq(RowSet)
         /\ Len(rows) \in Nat
         /\ Len(rows') = Len(rows) + 1
         /\ \A j \in RowIds : rows'[j] = rows[j]
         /\ rows'[Len(rows) + 1].action = i
         /\ rows'[Len(rows) + 1].status = "pending"
         /\ rows'[Len(rows) + 1].bound = b
<1>1. rows' = Append(rows, Row(i, b))
  BY DEF AddAction
<1>2. Row(i, b) \in RowSet
  BY DEF Row, RowSet, RowStatus
<1> QED
  BY <1>1, <1>2, LenProperties DEF RowIds, Row

-----------------------------------------------------------------------------
(***************************************************************************)
(* Rely: what a process relies on survives every step that leaves the      *)
(* process undisturbed.                                                    *)
(***************************************************************************)
\* What process q relies on survives a step that leaves q undisturbed.
LEMMA Rely ==
  ASSUME TypeOK, StoreInv, NEW q \in Procs, ProcOK(q), Undisturbed(q)
  PROVE  ProcOK(q)'
<1>1. LockOK(q)'
  <2>1. proc[q].pc \in InFlight /\ q \in Deciders => flight' = q
    BY DEF ProcOK, LockOK, Undisturbed
  <2>2. proc[q].pc \in InKit => kit' = q
    BY DEF ProcOK, LockOK, Undisturbed
  <2> QED
    BY <2>1, <2>2 DEF ProcOK, LockOK, Undisturbed
<1>2. WorkOK(q)'
  <2>1. proc[q].pc \in OnRecord => proc[q].act \in Ids /\ proc[q].act < next'
    BY KitAssumption DEF ProcOK, WorkOK, Undisturbed, TypeOK, KitTypeOK, Ids
  <2> QED
    BY <2>1 DEF ProcOK, WorkOK, Undisturbed, RowsGrow
<1>3. JournalOK(q)'
  <2>1. CASE proc[q].pc \in InKit
    <3>1. kit = q
      BY <2>1 DEF ProcOK, LockOK
    <3> QED
      BY <3>1 DEF ProcOK, JournalOK, Undisturbed, EarlierDecided
  <2>2. CASE proc[q].pc \notin InKit
    BY <2>2 DEF JournalOK, Undisturbed, InKit, OnRecord
  <2> QED
    BY <2>1, <2>2
<1>4. ClaimOK(q)'
  <2> SUFFICES ASSUME q \in Deciders PROVE ClaimOK(q)'
    BY DEF ClaimOK
  <2>1. CASE proc[q].pc \in HasClaim
    <3>1. /\ flight = q
          /\ proc[q].row \in RowIds
          /\ proc[q].act = rows[proc[q].row].action
      BY <2>1 DEF ProcOK, LockOK, WorkOK, InFlight, OnRow
    <3>2. proc[q].act \in Ids
      BY <3>1, RowFacts DEF TypeOK
    <3>3. proc[q].pc = "confirm" => journal[proc[q].act] \in Decided
      BY DEF ProcOK, ClaimOK, Outcome, Decided, TypeOK, ProcState, Verbs
    <3> QED
      BY <3>1, <3>2, <3>3 DEF ProcOK, ClaimOK, Undisturbed
  <2>2. CASE proc[q].pc \notin HasClaim
    BY <2>2 DEF ClaimOK, Undisturbed, HasClaim
  <2> QED
    BY <2>1, <2>2
<1> QED
  BY <1>1, <1>2, <1>3, <1>4 DEF ProcOK

-----------------------------------------------------------------------------
(***************************************************************************)
(* Guarantee: what each action of a process establishes.                   *)
(***************************************************************************)
Guarantee(p) ==
  /\ TypeOK'
  /\ StoreInv'
  /\ ProcOK(p)'
  /\ \A q \in Procs : q # p => Undisturbed(q)

\* A lock is left alone, taken when it is free, or released by its holder.
HandOff(lock, lockNext, p) ==
  \/ lockNext = lock
  \/ lock = Nobody /\ lockNext = p
  \/ lock = p /\ lockNext = Nobody

\* The step is p's own: it moves no other process and takes no held lock.
OwnStep(p) ==
  /\ proc' \in [Procs -> ProcState]
  /\ \A q \in Procs : q # p => proc'[q] = proc[q]
  /\ HandOff(kit, kit', p)
  /\ HandOff(flight, flight', p)
  /\ flight' \in Deciders \cup {Nobody}
  /\ UNCHANGED <<authority, maintenance, phase, crashes>>

\* With Rely, a guarantee preserves the whole invariant.
LEMMA Compose ==
  ASSUME PipelineInv, NEW p \in Procs, Guarantee(p)
  PROVE  PipelineInv'
<1>1. ASSUME NEW q \in Procs PROVE ProcOK(q)'
  BY Rely DEF PipelineInv, Guarantee
<1> QED
  BY <1>1 DEF PipelineInv, Guarantee

\* A step that writes neither store only has to place its process well.
LEMMA MoveGuarantee ==
  ASSUME PipelineInv, NEW p \in Procs, OwnStep(p), UNCHANGED <<kitVars, rows>>, ProcOK(p)'
  PROVE  Guarantee(p)
<1>1. TypeOK'
  BY DEF PipelineInv, TypeOK, KitTypeOK, kitVars, OwnStep, HandOff, RowIds
<1>2. StoreInv'
  BY DEF PipelineInv, StoreInv, OrderInv, HistoryInv, OutcomeInv, SameOrder, RowIds, kitVars
<1>3. ASSUME NEW q \in Procs, q # p PROVE Undisturbed(q)
  BY <1>3, PipelineAssumption, KitAssumption
     DEF PipelineInv, TypeOK, KitTypeOK, Undisturbed, RowsGrow, RowIds, OwnStep, HandOff, kitVars, Ids
<1> QED
  BY <1>1, <1>2, <1>3 DEF Guarantee

\* A step that writes the driver's files holds the driver's queue; to take back
\* a decided outcome it holds the coordinator's too.
LEMMA WriteGuarantee ==
  ASSUME PipelineInv, NEW p \in Procs, OwnStep(p), UNCHANGED <<next, rows>>,
         KitTypeOK', StoreInv', ProcOK(p)', kit \in {p, Nobody},
         flight = p \/ \A i \in Ids : journal[i] \in Decided => journal'[i] = journal[i]
  PROVE  Guarantee(p)
<1>1. TypeOK'
  BY DEF PipelineInv, TypeOK, OwnStep, HandOff, RowIds
<1>2. ASSUME NEW q \in Procs, q # p PROVE Undisturbed(q)
  <2>1. next' \in Nat /\ next <= next' /\ RowsGrow
    BY KitAssumption DEF PipelineInv, TypeOK, KitTypeOK, RowsGrow, RowIds, Ids
  <2>2. kit # q /\ (flight = q => flight' = q /\ flight # p)
    BY <1>2, PipelineAssumption DEF OwnStep, HandOff
  <2> QED
    BY <1>2, <2>1, <2>2 DEF Undisturbed, OwnStep
<1> QED
  BY <1>1, <1>2 DEF Guarantee

\* No two rows are about the same action.
LEMMA RowsDistinct ==
  ASSUME PipelineInv, NEW j \in RowIds, NEW k \in RowIds, rows[j].action = rows[k].action
  PROVE  j = k
<1>1. rows[j].action \in Nat /\ rows[k].action \in Nat
  BY RowFacts, KitAssumption DEF PipelineInv, TypeOK, Ids
<1>2. j \in Nat /\ k \in Nat
  BY LenProperties DEF PipelineInv, TypeOK, RowIds
<1> QED
  BY <1>1, <1>2 DEF PipelineInv, StoreInv, OrderInv, SameOrder

\* What the resource must have been through for a status to be saved.
Justified(i, s) ==
  /\ s \in {"submitting", "pending", "rejected"} => applies[i] = 0
  /\ s \in {"applied", "reverting", "reverted"} => applies[i] = 1
  /\ s \in {"applying", "applied"} => reverts[i] = 0
  /\ s = "reverted" => reverts[i] = 1

\* save() keeps the invariant of the stores.
LEMMA SaveStores ==
  ASSUME PipelineInv, NEW i \in Ids, i < next, NEW s \in Status \ {"none"}, Justified(i, s),
         journal' = [journal EXCEPT ![i] = s], UNCHANGED <<next, applies, reverts, rows>>,
         journal[i] \in Decided =>
           \A k \in RowIds : rows[k].action = i => rows[k].status \notin Decided
  PROVE  StoreInv'
<1>1. OrderInv'
  BY KitAssumption DEF PipelineInv, StoreInv, OrderInv, SameOrder, RowIds, TypeOK, KitTypeOK, Ids
<1>2. HistoryInv'
  BY DEF PipelineInv, StoreInv, HistoryInv, TypeOK, KitTypeOK, Justified
<1>3. OutcomeInv'
  <2> SUFFICES ASSUME NEW k \in RowIds, rows[k].status \in Decided
               PROVE  journal'[rows[k].action] = rows[k].status
    BY DEF OutcomeInv, RowIds
  <2>1. rows[k].action \in Ids /\ journal[rows[k].action] = rows[k].status
    BY RowFacts DEF PipelineInv, StoreInv, OutcomeInv, TypeOK
  <2> QED
    BY <2>1 DEF PipelineInv, TypeOK, KitTypeOK
<1> QED
  BY <1>1, <1>2, <1>3 DEF StoreInv

-----------------------------------------------------------------------------
(***************************************************************************)
(* Actions that write neither store.                                       *)
(***************************************************************************)

\* Goto() is a step of its process's own.
LEMMA GotoOwn ==
  ASSUME PipelineInv, NEW p \in Procs, NEW l \in Labels, Goto(p, l), HandOff(kit, kit', p),
         UNCHANGED <<flight, authority, maintenance, phase, crashes>>
  PROVE  /\ OwnStep(p)
         /\ proc'[p].pc = l
         /\ proc'[p].act = proc[p].act
         /\ proc'[p].row = proc[p].row
         /\ proc'[p].verb = proc[p].verb
         /\ proc'[p].todo = proc[p].todo
BY GotoFacts DEF PipelineInv, TypeOK, OwnStep, HandOff

\* So is becoming idle, leaving the coordinator's queue or not.
LEMMA IdleOwn ==
  ASSUME PipelineInv, NEW p \in Procs, Become(p, IdleProc), HandOff(kit, kit', p),
         HandOff(flight, flight', p), flight' \in {flight, Nobody},
         UNCHANGED <<authority, maintenance, phase, crashes>>
  PROVE  OwnStep(p) /\ ProcOK(p)'
<1>1. /\ proc' \in [Procs -> ProcState]
      /\ proc'[p] = IdleProc
      /\ \A q \in Procs : q # p => proc'[q] = proc[q]
  BY BecomeFacts, IdleFacts, KitAssumption, PipelineAssumption DEF PipelineInv, TypeOK
<1>2. ProcOK(p)'
  BY <1>1, IdleOK
<1> QED
  BY <1>1, <1>2 DEF OwnStep, PipelineInv, TypeOK

\* And so is GiveUp().
LEMMA GiveUpOwn ==
  ASSUME PipelineInv, NEW p \in Procs, GiveUp(p), HandOff(kit, kit', p),
         UNCHANGED <<authority, maintenance, phase, crashes>>
  PROVE  OwnStep(p) /\ ProcOK(p)'
<1>1. HandOff(flight, flight', p) /\ flight' \in {flight, Nobody}
  BY DEF GiveUp, HandOff
<1> QED
  BY <1>1, IdleOwn DEF GiveUp

\* Starting to open a session (resolveGrant()) keeps the guarantee.
LEMMA OpenSessionStep ==
  ASSUME PipelineInv, NEW c \in Callers, OpenSession(c)
  PROVE  Guarantee(c)
<1>1. c \in Procs /\ c \notin Deciders
  BY PipelineAssumption DEF Procs
<1>2. OwnStep(c) /\ proc'[c].pc = "opening" /\ proc'[c].todo = proc[c].todo
  BY <1>1, GotoOwn DEF OpenSession, HandOff, kernelVars, Labels
<1>3. ProcOK(c)'
  BY <1>1, <1>2 DEF OpenSession, PipelineInv, ProcOK, LockOK, WorkOK, JournalOK, ClaimOK,
     CallerLabels, InKit, OnRecord, kernelVars, RowIds
<1> QED
  BY <1>1, <1>2, <1>3, MoveGuarantee DEF OpenSession, kernelVars

\* So does exec(), which only queues the call behind the driver.
LEMMA ExecStep ==
  ASSUME PipelineInv, NEW c \in Callers, Exec(c)
  PROVE  Guarantee(c)
<1>1. c \in Procs /\ c \notin Deciders
  BY PipelineAssumption DEF Procs
<1>2. OwnStep(c) /\ proc'[c].pc = "calling" /\ proc'[c].todo = proc[c].todo
  BY <1>1, GotoOwn DEF Exec, HandOff, kernelVars, Labels
<1>3. ProcOK(c)'
  BY <1>1, <1>2 DEF Exec, PipelineInv, ProcOK, LockOK, WorkOK, JournalOK, ClaimOK,
     CallerLabels, InKit, OnRecord, kernelVars, RowIds
<1> QED
  BY <1>1, <1>2, <1>3, MoveGuarantee DEF Exec, kernelVars

\* So does a denied call, which writes nothing.
LEMMA CallDeniedStep ==
  ASSUME PipelineInv, NEW c \in Callers, CallDenied(c)
  PROVE  Guarantee(c)
BY IdleOwn, MoveGuarantee DEF CallDenied, HandOff, kernelVars, Procs

\* So does returning the simulated result, which frees the driver's queue.
LEMMA ReturnStep ==
  ASSUME PipelineInv, NEW c \in Callers, Return(c)
  PROVE  Guarantee(c)
<1>1. c \in Procs /\ kit = c
  BY DEF Return, At, PipelineInv, ProcOK, LockOK, InKit, OnRecord, Procs
<1> QED
  BY <1>1, IdleOwn, MoveGuarantee DEF Return, HandOff, kernelVars

\* A session that fails to open leaves both queues.
LEMMA OpenFailsStep ==
  ASSUME PipelineInv, NEW p \in Procs, OpenFails(p)
  PROVE  Guarantee(p)
<1>1. HandOff(kit, kit', p)
  BY DEF OpenFails, HandOff, At, PipelineInv, ProcOK, LockOK, InKit
<1> QED
  BY <1>1, GiveUpOwn, MoveGuarantee DEF OpenFails, kernelVars

\* A recovered session frees the driver's queue and goes on in its role.
LEMMA RecoveredStep ==
  ASSUME PipelineInv, NEW p \in Procs, Recovered(p)
  PROVE  Guarantee(p)
<1>1. kit = p /\ HandOff(kit, kit', p)
  BY DEF Recovered, HandOff, At, PipelineInv, ProcOK, LockOK, InKit
<1>2. CASE p \in Callers
  <2> DEFINE r == [proc[p] EXCEPT !.pc = "open", !.closed = (phase = "closed")]
  <2>0. proc[p] \in ProcState /\ "open" \in Labels
    BY DEF PipelineInv, TypeOK, Labels
  <2>1. r \in ProcState /\ r.pc = "open" /\ r.todo = proc[p].todo
    BY <2>0 DEF ProcState
  <2>2. Become(p, r)
    BY <1>2 DEF Recovered
  <2> HIDE DEF r
  <2>3. /\ proc' \in [Procs -> ProcState]
        /\ proc'[p] = r
        /\ \A q \in Procs : q # p => proc'[q] = proc[q]
    BY <2>1, <2>2, BecomeFacts DEF PipelineInv, TypeOK
  <2>4. OwnStep(p)
    BY <1>1, <2>3 DEF OwnStep, HandOff, Recovered, kernelVars, PipelineInv, TypeOK
  <2>5. ProcOK(p)'
    BY <1>2, <2>1, <2>3, PipelineAssumption
       DEF Recovered, PipelineInv, ProcOK, LockOK, WorkOK, JournalOK, ClaimOK,
           CallerLabels, InKit, OnRecord, kernelVars, RowIds
  <2> QED
    BY <2>4, <2>5, MoveGuarantee DEF Recovered, kernelVars
<1>3. CASE p \notin Callers
  <2>1. p \in Deciders
    BY <1>3 DEF Procs
  <2>2. /\ OwnStep(p)
        /\ proc'[p].pc = "authorizing"
        /\ proc'[p].act = proc[p].act
        /\ proc'[p].row = proc[p].row
        /\ proc'[p].todo = proc[p].todo
    BY <1>1, <1>3, GotoOwn DEF Recovered, kernelVars, Labels
  <2>3. ProcOK(p)'
    BY <1>3, <2>1, <2>2
       DEF Recovered, At, PipelineInv, ProcOK, LockOK, WorkOK, JournalOK, ClaimOK,
           DeciderLabels, InKit, InFlight, OnRow, OnRecord, HasClaim, kernelVars, RowIds
  <2> QED
    BY <2>2, <2>3, MoveGuarantee DEF Recovered, kernelVars
<1> QED
  BY <1>2, <1>3

\* decide() selects existing rows, and holds nothing yet.
LEMMA DecideStep ==
  ASSUME PipelineInv, NEW p \in Operators, NEW v \in Verbs,
         NEW ids \in (SUBSET RowIds) \ {{}}, Decide(p, ids, v)
  PROVE  Guarantee(p)
<1> DEFINE r == [IdleProc EXCEPT !.pc = "waiting", !.verb = v, !.todo = ids]
<1>1. p \in Procs /\ p \in Deciders /\ p \notin Callers
  BY PipelineAssumption DEF Procs, Deciders
<1>2. ids \in SUBSET Nat
  BY DEF RowIds
<1>3. r \in ProcState /\ r.pc = "waiting" /\ r.todo = ids
  BY <1>2, IdleFacts, KitAssumption, PipelineAssumption DEF ProcState, Labels
<1>4. Become(p, r)
  BY DEF Decide
<1> HIDE DEF r
<1>5. /\ proc' \in [Procs -> ProcState]
      /\ proc'[p] = r
      /\ \A q \in Procs : q # p => proc'[q] = proc[q]
  BY <1>1, <1>3, <1>4, BecomeFacts DEF PipelineInv, TypeOK
<1>6. OwnStep(p)
  BY <1>5 DEF OwnStep, HandOff, Decide, kernelVars, PipelineInv, TypeOK
<1>7. ProcOK(p)'
  <2>1. ids \subseteq RowIds' /\ ids # {}
    BY DEF Decide, kernelVars, RowIds
  <2> QED
    BY <1>1, <1>3, <1>5, <2>1
     DEF ProcOK, LockOK, WorkOK, JournalOK, ClaimOK, DeciderLabels, InKit,
         InFlight, OnRow, OnRecord, HasClaim
<1> QED
  BY <1>1, <1>6, <1>7, MoveGuarantee DEF Decide, kernelVars

\* drain() starts with nothing selected, and holds nothing yet.
LEMMA StartDrainStep ==
  ASSUME PipelineInv, NEW p \in Drainers, StartDrain(p)
  PROVE  Guarantee(p)
<1> DEFINE r == [IdleProc EXCEPT !.pc = "drainwait", !.drain = TRUE]
<1>1. p \in Procs /\ p \in Deciders /\ p \notin Callers
  BY PipelineAssumption DEF Procs, Deciders
<1>2. r \in ProcState /\ r.pc = "drainwait" /\ r.todo = {}
  BY IdleFacts, KitAssumption, PipelineAssumption DEF ProcState, Labels
<1>3. Become(p, r)
  BY DEF StartDrain
<1> HIDE DEF r
<1>4. /\ proc' \in [Procs -> ProcState]
      /\ proc'[p] = r
      /\ \A q \in Procs : q # p => proc'[q] = proc[q]
  BY <1>1, <1>2, <1>3, BecomeFacts DEF PipelineInv, TypeOK
<1>5. OwnStep(p)
  BY <1>4 DEF OwnStep, HandOff, StartDrain, kernelVars, PipelineInv, TypeOK
<1>6. ProcOK(p)'
  BY <1>1, <1>2, <1>4
     DEF ProcOK, LockOK, WorkOK, JournalOK, ClaimOK, DeciderLabels, InKit,
         InFlight, OnRow, OnRecord, HasClaim
<1> QED
  BY <1>1, <1>5, <1>6, MoveGuarantee DEF StartDrain, kernelVars

\* Taking up a row, with the coordinator's queue in hand.
LEMMA ResolveGuarantee ==
  ASSUME PipelineInv, NEW p \in Deciders, NEW k \in RowIds, Become(p, Resolve(p, k)),
         HandOff(flight, flight', p), flight' = p,
         UNCHANGED <<kitVars, kernelVars, phase, kit, crashes>>
  PROVE  Guarantee(p)
<1>1. p \in Procs /\ p \notin Callers
  BY PipelineAssumption DEF Procs
<1>2. rows[k].action \in Ids
  BY RowFacts DEF PipelineInv, TypeOK
<1>3. /\ Resolve(p, k) \in ProcState
      /\ Resolve(p, k).pc = "opening"
      /\ Resolve(p, k).row = k
      /\ Resolve(p, k).act = rows[k].action
      /\ Resolve(p, k).todo = proc[p].todo
  <2>1. k \in Nat /\ rows[k].action \in 0 .. MaxActions /\ proc[p] \in ProcState
    BY <1>1, <1>2, RowIdsFacts, KitAssumption DEF PipelineInv, TypeOK, Ids
  <2> QED
    BY <2>1 DEF Resolve, ProcState, Labels
<1>4. /\ proc' \in [Procs -> ProcState]
      /\ proc'[p] = Resolve(p, k)
      /\ \A q \in Procs : q # p => proc'[q] = proc[q]
  BY <1>1, <1>3, BecomeFacts DEF PipelineInv, TypeOK
<1>5. OwnStep(p)
  BY <1>4 DEF OwnStep, HandOff, kernelVars, PipelineInv, TypeOK
<1>6. ProcOK(p)'
  BY <1>1, <1>3, <1>4
     DEF PipelineInv, ProcOK, LockOK, WorkOK, JournalOK, ClaimOK, DeciderLabels,
         InKit, InFlight, OnRow, OnRecord, HasClaim, kernelVars, RowIds
<1> QED
  BY <1>1, <1>5, <1>6, MoveGuarantee DEF kernelVars

\* perform() takes the coordinator's queue for a row that exists.
LEMMA PerformStep ==
  ASSUME PipelineInv, NEW p \in Deciders, Perform(p)
  PROVE  Guarantee(p)
<1> DEFINE k == Min(proc[p].todo)
<1>1. k \in RowIds
  <2>1. proc[p].todo \subseteq RowIds /\ proc[p].todo # {}
    BY DEF PipelineInv, ProcOK, WorkOK, Perform, At, Procs
  <2> QED
    BY <2>1, MinIsMember DEF RowIds
<1> HIDE DEF k
<1>2. CASE Resolvable(k, proc[p].verb)
  <2>1. flight' = p /\ HandOff(flight, flight', p) /\ Become(p, Resolve(p, k))
    BY <1>2 DEF Perform, FlightFree, HandOff, k
  <2> QED
    BY <1>1, <2>1, ResolveGuarantee DEF Perform
<1>3. CASE ~Resolvable(k, proc[p].verb)
  <2>1. flight' = flight /\ Become(p, IdleProc)
    BY <1>3 DEF Perform, k
  <2> QED
    BY <2>1, IdleOwn, MoveGuarantee DEF Perform, HandOff, kernelVars, Procs
<1> QED
  BY <1>2, <1>3

\* A drain goes on to a row that exists, with its queue in hand.
LEMMA DrainNextStep ==
  ASSUME PipelineInv, NEW p \in Deciders, DrainNext(p)
  PROVE  Guarantee(p)
<1> DEFINE k == Min(Undecided(p))
<1>1. k \in RowIds
  <2>1. Undecided(p) \subseteq RowIds /\ Undecided(p) # {}
    BY DEF PipelineInv, ProcOK, WorkOK, DrainNext, Drainable, Undecided, Procs
  <2> QED
    BY <2>1, MinIsMember DEF RowIds
<1>2. flight = p /\ flight' = flight
  BY DEF PipelineInv, ProcOK, LockOK, InFlight, DrainNext, At, Procs
<1>3. Become(p, Resolve(p, k))
  BY DEF DrainNext
<1> HIDE DEF k
<1> QED
  BY <1>1, <1>2, <1>3, ResolveGuarantee DEF DrainNext, HandOff

\* A drain takes the coordinator's queue and lists the rows.
LEMMA DrainTurnStep ==
  ASSUME PipelineInv, NEW p \in Deciders, DrainTurn(p)
  PROVE  Guarantee(p)
<1> DEFINE r == [proc[p] EXCEPT !.pc = "draining", !.todo = RowIds]
<1>1. p \in Procs /\ p \notin Callers
  BY PipelineAssumption DEF Procs
<1>2. r \in ProcState /\ r.pc = "draining" /\ r.todo = RowIds
  <2>1. RowIds \in SUBSET Nat /\ proc[p] \in ProcState
    BY <1>1, RowIdsFacts DEF PipelineInv, TypeOK
  <2> QED
    BY <2>1 DEF ProcState, Labels
<1>3. Become(p, r)
  BY DEF DrainTurn
<1> HIDE DEF r
<1>4. /\ proc' \in [Procs -> ProcState]
      /\ proc'[p] = r
      /\ \A q \in Procs : q # p => proc'[q] = proc[q]
  BY <1>1, <1>2, <1>3, BecomeFacts DEF PipelineInv, TypeOK
<1>5. OwnStep(p)
  BY <1>4 DEF OwnStep, HandOff, DrainTurn, FlightFree, kernelVars, PipelineInv, TypeOK
<1>6. ProcOK(p)'
  BY <1>1, <1>2, <1>4
     DEF DrainTurn, ProcOK, LockOK, WorkOK, JournalOK, ClaimOK, DeciderLabels, InKit,
         InFlight, OnRow, OnRecord, HasClaim, kernelVars, RowIds
<1> QED
  BY <1>1, <1>5, <1>6, MoveGuarantee DEF DrainTurn, kernelVars

\* A drain that stops, a denied claim and a driver's refusal only leave the queue.
LEMMA DeciderGivesUp ==
  ASSUME PipelineInv, NEW p \in Deciders, DrainStops(p) \/ ClaimDenied(p) \/ Refused(p)
  PROVE  Guarantee(p)
<1>1. /\ p \in Procs
      /\ GiveUp(p)
      /\ kit' = kit
      /\ UNCHANGED <<kitVars, kernelVars, phase, crashes>>
  BY DEF DrainStops, ClaimDenied, Refused, Procs
<1> QED
  BY <1>1, GiveUpOwn, MoveGuarantee DEF HandOff, kernelVars

-----------------------------------------------------------------------------
(***************************************************************************)
(* Actions that write the driver's files, or act on the resource.          *)
(***************************************************************************)

\* A write of the overlay alone concerns no process and no store invariant.
LEMMA OverlayGuarantee ==
  ASSUME PipelineInv, NEW p \in Procs, OwnStep(p), NEW S \in SUBSET Ids, SetOverlay(S),
         UNCHANGED rows, kit \in {p, Nobody}, ProcOK(p)'
  PROVE  Guarantee(p)
<1>1. KitTypeOK'
  BY DEF PipelineInv, TypeOK, KitTypeOK, SetOverlay
<1>2. StoreInv'
  BY DEF PipelineInv, StoreInv, OrderInv, HistoryInv, OutcomeInv, SameOrder, RowIds, SetOverlay
<1> QED
  BY <1>1, <1>2, WriteGuarantee DEF SetOverlay

\* A write of the journal must be justified, and taking back a decided outcome
\* requires both queues and an intent in the row.
LEMMA SaveGuarantee ==
  ASSUME PipelineInv, NEW p \in Procs, OwnStep(p), kit \in {p, Nobody},
         NEW i \in Ids, i < next, NEW s \in Status \ {"none"}, Justified(i, s),
         Save(i, s) \/ SaveAndRetire(i, s), UNCHANGED rows,
         journal[i] \in Decided =>
           /\ flight = p
           /\ \A k \in RowIds : rows[k].action = i => rows[k].status \notin Decided,
         ProcOK(p)'
  PROVE  Guarantee(p)
<1>1. KitTypeOK'
  BY DEF PipelineInv, TypeOK, KitTypeOK, Save, SaveAndRetire
<1>2. StoreInv'
  BY SaveStores DEF Save, SaveAndRetire
<1>3. flight = p \/ \A j \in Ids : journal[j] \in Decided => journal'[j] = journal[j]
  BY DEF Save, SaveAndRetire, PipelineInv, TypeOK, KitTypeOK
<1> QED
  BY <1>1, <1>2, <1>3, WriteGuarantee DEF Save, SaveAndRetire

\* recoverOverlay() takes the driver's queue and writes only the overlay.
LEMMA RecoverStep ==
  ASSUME PipelineInv, NEW p \in Procs, Recover(p)
  PROVE  Guarantee(p)
<1>1. kit = Nobody /\ kit' = p
  BY DEF Recover, KitFree
<1>2. /\ OwnStep(p)
      /\ proc'[p].pc = "replaying"
      /\ proc'[p].act = proc[p].act
      /\ proc'[p].row = proc[p].row
      /\ proc'[p].todo = proc[p].todo
  BY <1>1, GotoOwn DEF Recover, HandOff, kernelVars, Labels
<1>3. ProcOK(p)'
  BY <1>1, <1>2
     DEF Recover, At, PipelineInv, ProcOK, LockOK, WorkOK, JournalOK, ClaimOK, CallerLabels,
         DeciderLabels, InKit, InFlight, OnRow, OnRecord, HasClaim, kernelVars, RowIds
<1>4. overlay \ Stale \in SUBSET Ids
  BY DEF PipelineInv, TypeOK, KitTypeOK
<1> QED
  BY <1>1, <1>2, <1>3, <1>4, OverlayGuarantee DEF Recover, kernelVars

\* Simulating a missing effect again writes only the overlay.
LEMMA ReplayStep ==
  ASSUME PipelineInv, NEW p \in Procs, Replay(p)
  PROVE  Guarantee(p)
<1>1. kit = p
  BY DEF Replay, At, PipelineInv, ProcOK, LockOK, InKit
<1>2. OwnStep(p)
  BY DEF Replay, OwnStep, HandOff, PipelineInv, TypeOK, kernelVars
<1>3. ProcOK(p)'
  BY DEF Replay, SetOverlay, PipelineInv, ProcOK, LockOK, WorkOK, JournalOK, ClaimOK,
         EarlierDecided, kernelVars, RowIds
<1>4. overlay \cup {Min(Missing)} \in SUBSET Ids
  <2>1. Missing \subseteq Ids /\ Missing # {} /\ Ids \subseteq Nat
    BY DEF Replay, Missing, Simulated, Ids
  <2> QED
    BY <2>1, MinIsMember DEF PipelineInv, TypeOK, KitTypeOK
<1> QED
  BY <1>1, <1>2, <1>3, <1>4, OverlayGuarantee DEF Replay, kernelVars

\* simulate() writes only the overlay: the record stays pending.
LEMMA SimulateStep ==
  ASSUME PipelineInv, NEW c \in Callers, Simulate(c)
  PROVE  Guarantee(c)
<1>1. c \in Procs /\ c \notin Deciders
  BY PipelineAssumption DEF Procs
<1>2. kit = c /\ proc[c].act \in Ids
  BY <1>1 DEF Simulate, At, PipelineInv, ProcOK, LockOK, WorkOK, InKit, OnRecord
<1>3. /\ OwnStep(c)
      /\ proc'[c].pc = "simulated"
      /\ proc'[c].act = proc[c].act
      /\ proc'[c].todo = proc[c].todo
  BY <1>1, GotoOwn DEF Simulate, HandOff, kernelVars, Labels
<1>4. ProcOK(c)'
  BY <1>1, <1>2, <1>3
     DEF Simulate, SetOverlay, At, PipelineInv, ProcOK, LockOK, WorkOK, JournalOK, ClaimOK,
         CallerLabels, InKit, OnRecord, kernelVars, RowIds
<1>5. overlay \cup {proc[c].act} \in SUBSET Ids
  BY <1>2 DEF PipelineInv, TypeOK, KitTypeOK
<1> QED
  BY <1>1, <1>2, <1>3, <1>4, <1>5, OverlayGuarantee DEF Simulate, kernelVars

\* What a process knows of the record it works on.
LEMMA RecordKnown ==
  ASSUME PipelineInv, NEW p \in Procs, proc[p].pc \in OnRecord
  PROVE  /\ kit = p
         /\ proc[p].act \in Ids
         /\ proc[p].act < next
         /\ journal[proc[p].act] \notin Decided
<1>1. kit = p /\ proc[p].act \in Ids /\ proc[p].act < next
  BY DEF PipelineInv, ProcOK, LockOK, WorkOK, InKit
<1>2. journal[proc[p].act] \notin Decided
  BY DEF PipelineInv, ProcOK, JournalOK, OnRecord, Decided
<1> QED
  BY <1>1, <1>2

\* Only a submitting record is made pending, by the call that submitted it.
LEMMA PendStep ==
  ASSUME PipelineInv, NEW c \in Callers, Pend(c)
  PROVE  Guarantee(c)
<1>1. c \in Procs /\ c \notin Deciders
  BY PipelineAssumption DEF Procs
<1>2. /\ kit = c
      /\ proc[c].act \in Ids
      /\ proc[c].act < next
      /\ journal[proc[c].act] = "submitting"
  BY <1>1, RecordKnown DEF Pend, At, PipelineInv, ProcOK, JournalOK, OnRecord
<1>3. /\ OwnStep(c)
      /\ proc'[c].pc = "simulating"
      /\ proc'[c].act = proc[c].act
      /\ proc'[c].todo = proc[c].todo
  BY <1>1, GotoOwn DEF Pend, HandOff, kernelVars, Labels
<1>4. ProcOK(c)'
  BY <1>1, <1>2, <1>3
     DEF Pend, Save, At, PipelineInv, TypeOK, KitTypeOK, ProcOK, LockOK, WorkOK, JournalOK,
         ClaimOK, CallerLabels, InKit, OnRecord, kernelVars, RowIds
<1>5. Justified(proc[c].act, "pending") /\ journal[proc[c].act] \notin Decided
  BY <1>2 DEF PipelineInv, StoreInv, HistoryInv, Justified, Decided
<1>6. "pending" \in Status \ {"none"}
  BY DEF Status
<1> QED
  BY <1>1, <1>2, <1>3, <1>4, <1>5, <1>6, SaveGuarantee DEF Pend, kernelVars

\* An awaited action is applied once all earlier ones are decided.
LEMMA PendAndApplyStep ==
  ASSUME PipelineInv, NEW c \in Callers, PendAndApply(c)
  PROVE  Guarantee(c)
<1>1. c \in Procs /\ c \notin Deciders
  BY PipelineAssumption DEF Procs
<1>2. /\ kit = c
      /\ proc[c].act \in Ids
      /\ proc[c].act < next
      /\ journal[proc[c].act] = "submitting"
  BY <1>1, RecordKnown DEF PendAndApply, At, PipelineInv, ProcOK, JournalOK, OnRecord
<1>3. applies[proc[c].act] = 0 /\ reverts[proc[c].act] = 0
  BY <1>2 DEF PipelineInv, TypeOK, KitTypeOK, StoreInv, HistoryInv
<1>4. /\ OwnStep(c)
      /\ proc'[c].pc = "effect"
      /\ proc'[c].act = proc[c].act
      /\ proc'[c].todo = proc[c].todo
  BY <1>1, GotoOwn DEF PendAndApply, HandOff, kernelVars, Labels
<1>5. ProcOK(c)'
  BY <1>1, <1>2, <1>3, <1>4, KitAssumption
     DEF PendAndApply, Save, At, PipelineInv, TypeOK, KitTypeOK, ProcOK, LockOK, WorkOK,
         JournalOK, ClaimOK, EarlierDecided, CallerLabels, InKit, OnRecord, kernelVars, RowIds,
         Ids
<1>6. Justified(proc[c].act, "applying") /\ journal[proc[c].act] \notin Decided
  BY <1>2, <1>3 DEF Justified, Decided
<1>7. "applying" \in Status \ {"none"}
  BY DEF Status, Unsettled
<1> QED
  BY <1>1, <1>2, <1>4, <1>5, <1>6, <1>7, SaveGuarantee DEF PendAndApply, kernelVars

\* A call that fails after its submission leaves its record uncertain.
LEMMA CallFails ==
  ASSUME PipelineInv, NEW c \in Callers, PendFails(c) \/ SimulateFails(c)
  PROVE  Guarantee(c)
<1>1. c \in Procs /\ proc[c].pc \in OnRecord
  BY DEF PendFails, SimulateFails, At, OnRecord, Procs
<1>2. /\ OwnStep(c)
      /\ ProcOK(c)'
      /\ kit = c
  BY <1>1, RecordKnown, IdleOwn DEF PendFails, SimulateFails, HandOff, kernelVars
<1>3. Justified(proc[c].act, "uncertain") /\ "uncertain" \in Status \ {"none"}
  BY DEF Justified, Status, Unsettled
<1> QED
  BY <1>1, <1>2, <1>3, RecordKnown, SaveGuarantee DEF PendFails, SimulateFails, kernelVars

\* What a decider knows of the action it has claimed.
LEMMA ClaimKnown ==
  ASSUME PipelineInv, NEW p \in Deciders, proc[p].pc \in HasClaim
  PROVE  /\ p \in Procs /\ p \notin Callers
         /\ flight = p
         /\ proc[p].row \in RowIds
         /\ proc[p].act = rows[proc[p].row].action
         /\ proc[p].act \in Ids
         /\ proc[p].act < next
         /\ rows[proc[p].row].status = "failed"
         /\ \A k \in RowIds : rows[k].action = proc[p].act => k = proc[p].row
<1>1. p \in Procs /\ p \notin Callers
  BY PipelineAssumption DEF Procs
<1>2. /\ flight = p
      /\ proc[p].row \in RowIds
      /\ proc[p].act = rows[proc[p].row].action
      /\ rows[proc[p].row].status = "failed"
  BY <1>1 DEF PipelineInv, ProcOK, LockOK, WorkOK, ClaimOK, InFlight, OnRow
<1>3. proc[p].act \in Ids /\ proc[p].act < next
  BY <1>2, RowFacts DEF PipelineInv, TypeOK, StoreInv, OrderInv
<1> QED
  BY <1>1, <1>2, <1>3, RowsDistinct

\* applyRecorded() opens a pending record whose earlier ones are decided.
LEMMA ApplyActionStep ==
  ASSUME PipelineInv, NEW p \in Deciders, ApplyAction(p)
  PROVE  Guarantee(p)
<1> DEFINE i == proc[p].act
<1>1. proc[p].pc \in HasClaim /\ kit = Nobody /\ kit' = p
  BY DEF ApplyAction, Turn, At, KitFree, HasClaim
<1>2. /\ journal[i] = "pending"
      /\ EarlierDecided(i)
      /\ proc[p].verb = "apply"
  BY DEF ApplyAction, MayApply, Turn
<1>3. applies[i] = 0 /\ reverts[i] = 0
  BY <1>1, <1>2, ClaimKnown DEF PipelineInv, TypeOK, KitTypeOK, StoreInv, HistoryInv
<1>4. /\ OwnStep(p)
      /\ proc'[p].pc = "effect"
      /\ proc'[p].act = i
      /\ proc'[p].row = proc[p].row
      /\ proc'[p].verb = proc[p].verb
      /\ proc'[p].todo = proc[p].todo
  BY <1>1, ClaimKnown, GotoOwn DEF ApplyAction, HandOff, kernelVars, Labels
<1>5. ProcOK(p)'
  <2>1. /\ journal' = [journal EXCEPT ![i] = "applying"]
        /\ UNCHANGED <<next, rows, applies, reverts, flight>>
    BY DEF ApplyAction, Save, kernelVars
  <2>2. LockOK(p)'
    BY <1>1, <1>4, <2>1, ClaimKnown DEF LockOK, DeciderLabels, InKit, InFlight
  <2>3. WorkOK(p)'
    BY <1>1, <1>4, <2>1, ClaimKnown DEF PipelineInv, ProcOK, WorkOK, OnRow, OnRecord, RowIds, Ids
  <2>4. EarlierDecided(i)'
    <3>1. journal \in [Ids -> Status] /\ i \in Ids /\ Ids \subseteq Nat
      BY <1>1, ClaimKnown, KitAssumption DEF PipelineInv, TypeOK, KitTypeOK, Ids
    <3>2. \A j \in Ids : j < i => journal'[j] = journal[j]
      BY <2>1, <3>1
    <3> QED BY <1>2, <1>4, <3>2 DEF EarlierDecided
  <2>5. JournalOK(p)'
    BY <1>1, <1>3, <1>4, <2>1, <2>4, ClaimKnown DEF JournalOK, PipelineInv, TypeOK, KitTypeOK
  <2>6. ClaimOK(p)'
    BY <1>1, <1>2, <1>4, <2>1, ClaimKnown DEF ClaimOK, HasClaim, PipelineInv, TypeOK
  <2> QED BY <2>2, <2>3, <2>5, <2>6 DEF ProcOK
<1>6. Justified(i, "applying") /\ "applying" \in Status \ {"none"}
  BY <1>3 DEF Justified, Status, Unsettled
<1>7. journal[i] \notin Decided
  BY <1>2 DEF Decided
<1> QED
  BY <1>1, <1>4, <1>5, <1>6, <1>7, ClaimKnown, SaveGuarantee DEF ApplyAction, kernelVars

\* rejectAction() closes a pending record, whose effect never took place.
LEMMA RejectActionStep ==
  ASSUME PipelineInv, NEW p \in Deciders, RejectAction(p)
  PROVE  Guarantee(p)
<1> DEFINE i == proc[p].act
<1>1. /\ proc[p].pc \in HasClaim
      /\ kit = Nobody
      /\ kit' = kit
      /\ proc[p].verb = "reject"
  BY DEF RejectAction, Turn, At, KitFree, HasClaim
<1>2. journal[i] = "pending"
  BY DEF RejectAction
<1>3. /\ OwnStep(p)
      /\ proc'[p].pc = "confirm"
      /\ proc'[p].act = i
      /\ proc'[p].row = proc[p].row
      /\ proc'[p].verb = proc[p].verb
      /\ proc'[p].todo = proc[p].todo
  BY <1>1, ClaimKnown, GotoOwn DEF RejectAction, HandOff, kernelVars, Labels
<1>4. ProcOK(p)'
  <2>1. /\ journal' = [journal EXCEPT ![i] = "rejected"]
        /\ UNCHANGED <<next, rows, applies, reverts, flight>>
    BY DEF RejectAction, SaveAndRetire, kernelVars
  <2>2. LockOK(p)'
    BY <1>1, <1>3, <2>1, ClaimKnown DEF LockOK, DeciderLabels, InKit, OnRecord
  <2>3. WorkOK(p)'
    BY <1>1, <1>3, <2>1, ClaimKnown DEF PipelineInv, ProcOK, WorkOK, OnRow, OnRecord, RowIds, Ids
  <2>4. JournalOK(p)'
    BY <1>3 DEF JournalOK
  <2>5. ClaimOK(p)'
    BY <1>1, <1>3, <2>1, ClaimKnown DEF ClaimOK, HasClaim, Outcome, PipelineInv, TypeOK, KitTypeOK
  <2> QED BY <2>2, <2>3, <2>4, <2>5 DEF ProcOK
<1>5. Justified(i, "rejected") /\ "rejected" \in Status \ {"none"}
  BY <1>1, <1>2, ClaimKnown DEF PipelineInv, StoreInv, HistoryInv, Justified, Status, Decided
<1>6. journal[i] \notin Decided
  BY <1>2 DEF Decided
<1> QED
  BY <1>1, <1>3, <1>4, <1>5, <1>6, ClaimKnown, SaveGuarantee DEF RejectAction, kernelVars

\* revertAction() opens an applied record, under a claim on its row.
LEMMA RevertActionStep ==
  ASSUME PipelineInv, NEW p \in Deciders, RevertAction(p)
  PROVE  Guarantee(p)
<1> DEFINE i == proc[p].act
<1>1. proc[p].pc \in HasClaim /\ kit = Nobody /\ kit' = p
  BY DEF RevertAction, Turn, At, KitFree, HasClaim
<1>2. journal[i] = "applied" /\ proc[p].verb = "revert"
  BY DEF RevertAction, MayRevert, Turn
<1>3. applies[i] = 1 /\ reverts[i] = 0
  BY <1>1, <1>2, ClaimKnown DEF PipelineInv, TypeOK, KitTypeOK, StoreInv, HistoryInv
<1>4. /\ OwnStep(p)
      /\ proc'[p].pc = "undo"
      /\ proc'[p].act = i
      /\ proc'[p].row = proc[p].row
      /\ proc'[p].verb = proc[p].verb
      /\ proc'[p].todo = proc[p].todo
  BY <1>1, ClaimKnown, GotoOwn DEF RevertAction, HandOff, kernelVars, Labels
<1>5. ProcOK(p)'
  BY <1>1, <1>2, <1>3, <1>4, ClaimKnown
     DEF RevertAction, Save, PipelineInv, TypeOK, KitTypeOK, ProcOK, LockOK, WorkOK, JournalOK,
         ClaimOK, DeciderLabels, InKit, InFlight, OnRow, OnRecord, HasClaim, kernelVars, RowIds
<1>6. Justified(i, "reverting") /\ "reverting" \in Status \ {"none"}
  BY <1>3 DEF Justified, Status, Unsettled
<1>7. \A k \in RowIds : rows[k].action = i => rows[k].status \notin Decided
  BY <1>1, ClaimKnown DEF Decided
<1> QED
  BY <1>1, <1>4, <1>5, <1>6, <1>7, ClaimKnown, SaveGuarantee DEF RevertAction, kernelVars

\* A repeated decision finds its outcome recorded and repeats no effect.
LEMMA RepeatedStep ==
  ASSUME PipelineInv, NEW p \in Deciders, Repeated(p)
  PROVE  Guarantee(p)
<1> DEFINE S == IF proc[p].verb = "revert" THEN overlay ELSE overlay \ {proc[p].act}
<1>1. /\ proc[p].pc \in HasClaim
      /\ kit = Nobody
      /\ kit' = kit
      /\ journal[proc[p].act] = Outcome(proc[p].verb)
  BY DEF Repeated, At, KitFree, HasClaim
<1>2. /\ OwnStep(p)
      /\ proc'[p].pc = "confirm"
      /\ proc'[p].act = proc[p].act
      /\ proc'[p].row = proc[p].row
      /\ proc'[p].verb = proc[p].verb
      /\ proc'[p].todo = proc[p].todo
  BY <1>1, ClaimKnown, GotoOwn DEF Repeated, HandOff, kernelVars, Labels
<1>3. ProcOK(p)'
  BY <1>1, <1>2, ClaimKnown
     DEF Repeated, SetOverlay, PipelineInv, ProcOK, LockOK, WorkOK, JournalOK, ClaimOK,
         Outcome, DeciderLabels, InKit, InFlight, OnRow, OnRecord, HasClaim, kernelVars, RowIds
<1>4. S \in SUBSET Ids
  BY DEF PipelineInv, TypeOK, KitTypeOK
<1> QED
  BY <1>1, <1>2, <1>3, <1>4, ClaimKnown, OverlayGuarantee DEF Repeated, kernelVars

\* A throwing driver leaves an open record uncertain and both queues free.
LEMMA EffectThrowsStep ==
  ASSUME PipelineInv, NEW p \in Procs, EffectThrows(p)
  PROVE  Guarantee(p)
<1>1. proc[p].pc \in OnRecord
  BY DEF EffectThrows, At, OnRecord
<1>2. /\ OwnStep(p)
      /\ ProcOK(p)'
      /\ kit = p
  BY <1>1, RecordKnown, GiveUpOwn DEF EffectThrows, HandOff, kernelVars
<1>3. Justified(proc[p].act, "uncertain") /\ "uncertain" \in Status \ {"none"}
  BY DEF Justified, Status, Unsettled
<1> QED
  BY <1>1, <1>2, <1>3, RecordKnown, SaveGuarantee DEF EffectThrows, kernelVars

\* The resource takes an effect, or its reversal, for the first time.
LEMMA TakeEffectStep ==
  ASSUME PipelineInv, NEW p \in Procs, TakeEffect(p)
  PROVE  Guarantee(p)
<1> DEFINE i == proc[p].act
           done == IF proc[p].pc = "effect" THEN "effected" ELSE "undone"
<1>1. proc[p].pc \in {"effect", "undo"}
  BY DEF TakeEffect, At
<1>2. kit = p /\ i \in Ids /\ kit' = kit
  BY <1>1, RecordKnown DEF TakeEffect, OnRecord
<1>3. /\ proc[p].pc = "effect" => journal[i] = "applying" /\ applies[i] = 0 /\ reverts[i] = 0
      /\ proc[p].pc = "undo" => journal[i] = "reverting" /\ applies[i] = 1 /\ reverts[i] = 0
  BY <1>2 DEF PipelineInv, ProcOK, JournalOK, TypeOK, KitTypeOK, StoreInv, HistoryInv
<1>4. done \in Labels /\ Goto(p, done)
  BY <1>1 DEF TakeEffect, At, Labels
<1> HIDE DEF done
<1>5. /\ OwnStep(p)
      /\ proc'[p].pc = done
      /\ proc'[p].act = i
      /\ proc'[p].row = proc[p].row
      /\ proc'[p].verb = proc[p].verb
      /\ proc'[p].todo = proc[p].todo
  BY <1>2, <1>4, GotoOwn DEF TakeEffect, HandOff, kernelVars
<1>6. /\ proc[p].pc = "effect" => Effect(i) /\ done = "effected"
      /\ proc[p].pc = "undo" => Reversal(i) /\ done = "undone"
  BY DEF TakeEffect, At, done
<1>7. KitTypeOK'
  <2>1. /\ KitTypeOK
        /\ [applies EXCEPT ![i] = applies[i] + 1] \in [Ids -> Nat]
        /\ [reverts EXCEPT ![i] = reverts[i] + 1] \in [Ids -> Nat]
    BY <1>2 DEF PipelineInv, TypeOK, KitTypeOK
  <2> QED
    BY <1>1, <1>6, <2>1 DEF KitTypeOK, Effect, Reversal
<1>8. StoreInv'
  <2>1. OrderInv' /\ OutcomeInv'
    BY <1>1, <1>6 DEF Effect, Reversal, TakeEffect, PipelineInv, StoreInv, OrderInv, OutcomeInv,
                      SameOrder, RowIds, kernelVars
  <2>2. HistoryInv'
    BY <1>1, <1>2, <1>3, <1>6
       DEF Effect, Reversal, PipelineInv, TypeOK, KitTypeOK, StoreInv, HistoryInv
  <2> QED
    BY <2>1, <2>2 DEF StoreInv
<1>9. ProcOK(p)'
  <2>1. LockOK(p)' /\ WorkOK(p)' /\ ClaimOK(p)'
    BY <1>1, <1>2, <1>5, <1>6
       DEF Effect, Reversal, TakeEffect, PipelineInv, ProcOK, LockOK, WorkOK, ClaimOK,
           CallerLabels, DeciderLabels, InKit, InFlight, OnRow, OnRecord, HasClaim,
           kernelVars, RowIds
  <2>2. JournalOK(p)'
    BY <1>1, <1>2, <1>3, <1>5, <1>6
       DEF Effect, Reversal, JournalOK, PipelineInv, TypeOK, KitTypeOK
  <2> QED
    BY <2>1, <2>2 DEF ProcOK
<1>10. UNCHANGED <<next, journal, rows>>
  BY <1>1, <1>6 DEF Effect, Reversal, TakeEffect, kernelVars
<1> QED
  BY <1>2, <1>5, <1>7, <1>8, <1>9, <1>10, WriteGuarantee

\* A returning driver closes the record with what the resource went through.
LEMMA EffectReturnsStep ==
  ASSUME PipelineInv, NEW p \in Procs, EffectReturns(p)
  PROVE  Guarantee(p)
<1> DEFINE i == proc[p].act
           s == IF proc[p].pc = "effected" THEN "applied" ELSE "reverted"
<1>1. proc[p].pc \in {"effected", "undone"}
  BY DEF EffectReturns, At
<1>2. kit = p /\ i \in Ids /\ i < next /\ journal[i] \notin Decided
  BY <1>1, RecordKnown DEF OnRecord
<1>3. s \in Status \ {"none"}
  BY DEF Status, Decided
<1>4. Justified(i, s)
  BY <1>1, <1>2 DEF PipelineInv, ProcOK, JournalOK, TypeOK, KitTypeOK, StoreInv, HistoryInv,
                    Justified
<1>5. (Save(i, s) \/ SaveAndRetire(i, s)) /\ journal' = [journal EXCEPT ![i] = s]
  BY DEF EffectReturns, At, Save, SaveAndRetire
<1>6. OwnStep(p) /\ ProcOK(p)'
  <2>1. HandOff(kit, kit', p) /\ kit' = Nobody
    BY <1>2 DEF EffectReturns, HandOff
  <2>2. CASE p \in Callers
    BY <2>1, <2>2, IdleOwn DEF EffectReturns, HandOff, kernelVars
  <2>3. CASE p \notin Callers
    <3>1. p \in Deciders /\ proc[p].pc \in HasClaim
      BY <1>1, <2>3 DEF Procs, HasClaim
    <3>2. /\ OwnStep(p)
          /\ proc'[p].pc = "confirm"
          /\ proc'[p].act = i
          /\ proc'[p].row = proc[p].row
          /\ proc'[p].verb = proc[p].verb
          /\ proc'[p].todo = proc[p].todo
      BY <2>1, <2>3, GotoOwn DEF EffectReturns, kernelVars, Labels
    <3>3. s = Outcome(proc[p].verb)
      BY <1>1, <3>1 DEF PipelineInv, ProcOK, ClaimOK, Outcome
    <3>4. next' = next /\ rows' = rows /\ journal'[i] = s /\ flight' = flight
      BY <1>2, <1>5 DEF EffectReturns, Save, SaveAndRetire, kernelVars, PipelineInv, TypeOK,
                        KitTypeOK
    <3> HIDE DEF s
    <3>5. ProcOK(p)'
      BY <3>1, <3>2, <3>3, <3>4, ClaimKnown
         DEF PipelineInv, ProcOK, LockOK, WorkOK, JournalOK, ClaimOK, DeciderLabels, InKit,
             InFlight, OnRow, OnRecord, HasClaim, RowIds
    <3> QED
      BY <3>2, <3>5
  <2> QED
    BY <2>2, <2>3
<1> HIDE DEF s
<1> QED
  BY <1>2, <1>3, <1>4, <1>5, <1>6, SaveGuarantee DEF EffectReturns, kernelVars

-----------------------------------------------------------------------------
(***************************************************************************)
(* Actions that write the kernel's rows.                                   *)
(***************************************************************************)

\* A change of a row's status is made by the holder of the coordinator's queue.
LEMMA StatusGuarantee ==
  ASSUME PipelineInv, NEW p \in Deciders, OwnStep(p), flight = p, UNCHANGED kitVars,
         NEW k \in RowIds, NEW s \in RowStatus, SetStatus(k, s),
         s \in Decided => journal[rows[k].action] = s, ProcOK(p)'
  PROVE  Guarantee(p)
<1>1. /\ rows' \in Seq(RowSet)
      /\ RowIds' = RowIds
      /\ \A j \in RowIds : rows'[j].action = rows[j].action
      /\ \A j \in RowIds : rows'[j].status = IF j = k THEN s ELSE rows[j].status
  BY SetStatusFacts DEF PipelineInv, TypeOK
<1>2. TypeOK'
  BY <1>1 DEF PipelineInv, TypeOK, KitTypeOK, kitVars, OwnStep, HandOff, Procs
<1>3. StoreInv'
  <2>1. OrderInv' /\ HistoryInv'
    BY <1>1 DEF PipelineInv, StoreInv, OrderInv, HistoryInv, SameOrder, kitVars
  <2>2. OutcomeInv'
    BY <1>1 DEF PipelineInv, StoreInv, OutcomeInv, kitVars
  <2> QED
    BY <2>1, <2>2 DEF StoreInv
<1>4. ASSUME NEW q \in Procs, q # p PROVE Undisturbed(q)
  BY <1>1, <1>4, PipelineAssumption, KitAssumption
     DEF PipelineInv, TypeOK, KitTypeOK, Undisturbed, RowsGrow, OwnStep, HandOff, kitVars, Ids
<1> QED
  BY <1>2, <1>3, <1>4 DEF Guarantee

\* claimAction() replaces the expected status by the fail-closed intent.
LEMMA ClaimStep ==
  ASSUME PipelineInv, NEW p \in Deciders, Claim(p)
  PROVE  Guarantee(p)
<1>1. /\ p \in Procs
      /\ p \notin Callers
      /\ proc[p].pc = "authorizing"
      /\ flight = p
      /\ proc[p].row \in RowIds
      /\ proc[p].act = rows[proc[p].row].action
  BY PipelineAssumption DEF Procs, Claim, At, PipelineInv, ProcOK, LockOK, WorkOK, InFlight, OnRow
<1>2. SetStatus(proc[p].row, "failed") /\ "failed" \in RowStatus
  BY DEF Claim, ClaimAction, RowStatus
<1>3. /\ OwnStep(p)
      /\ proc'[p].pc = "claimed"
      /\ proc'[p].act = proc[p].act
      /\ proc'[p].row = proc[p].row
      /\ proc'[p].todo = proc[p].todo
  BY <1>1, GotoOwn DEF Claim, HandOff, Labels
<1>4. /\ RowIds' = RowIds
      /\ rows'[proc[p].row].action = proc[p].act
      /\ rows'[proc[p].row].status = "failed"
  BY <1>1, <1>2, SetStatusFacts DEF PipelineInv, TypeOK
<1>5. ProcOK(p)'
  BY <1>1, <1>3, <1>4
     DEF Claim, PipelineInv, ProcOK, LockOK, WorkOK, JournalOK, ClaimOK, DeciderLabels, InKit,
         InFlight, OnRow, OnRecord, HasClaim
<1> QED
  BY <1>1, <1>2, <1>3, <1>5, StatusGuarantee DEF Claim, Decided

\* decideAction() records the outcome that the journal already has.
LEMMA ConfirmStep ==
  ASSUME PipelineInv, NEW p \in Deciders, Confirm(p)
  PROVE  Guarantee(p)
<1> DEFINE v    == proc[p].verb
           k    == proc[p].row
           rest == proc[p].todo \ {k}
           more == [IdleProc EXCEPT !.verb = v, !.todo = rest]
           last == [IdleProc EXCEPT !.drain = TRUE]
<1>1. proc[p].pc = "confirm" /\ proc[p].pc \in HasClaim
  BY DEF Confirm, At, HasClaim
<1>2. v \in Verbs /\ rest \in SUBSET Nat /\ rest \subseteq RowIds
  BY <1>1, ClaimKnown DEF PipelineInv, TypeOK, ProcState, ProcOK, WorkOK
<1>3. SetStatus(k, Outcome(v)) /\ Outcome(v) \in RowStatus
  BY <1>2 DEF Confirm, DecideAction, Outcome, Verbs, RowStatus
<1>4. journal[rows[k].action] = Outcome(v)
  BY <1>1, ClaimKnown DEF PipelineInv, ProcOK, ClaimOK
<1>5. RowIds' = RowIds
  BY <1>1, <1>3, ClaimKnown, SetStatusFacts DEF PipelineInv, TypeOK
<1>6. PICK r \in ProcState :
        /\ Become(p, r)
        /\ r.pc \in {"draining", "waiting", "drainwait", "idle"}
        /\ r.todo \subseteq rest
        /\ r.pc = "waiting" => r.todo # {}
        /\ IF r.pc = "draining" THEN flight' = flight ELSE flight' \in {flight, Nobody}
  <2>1. /\ more \in ProcState /\ more.todo = rest
        /\ last \in ProcState /\ last.todo = {}
    BY <1>2, IdleFacts, KitAssumption, PipelineAssumption DEF ProcState
  <2>2. /\ [last EXCEPT !.pc = "draining", !.todo = rest] \in ProcState
        /\ [last EXCEPT !.pc = "draining", !.todo = rest].pc = "draining"
        /\ [last EXCEPT !.pc = "draining", !.todo = rest].todo = rest
        /\ [more EXCEPT !.pc = "waiting"] \in ProcState
        /\ [more EXCEPT !.pc = "waiting"].pc = "waiting"
        /\ [more EXCEPT !.pc = "waiting"].todo = rest
        /\ [last EXCEPT !.pc = "drainwait"] \in ProcState
        /\ [last EXCEPT !.pc = "drainwait"].pc = "drainwait"
        /\ [last EXCEPT !.pc = "drainwait"].todo = {}
    <3> HIDE DEF more, last, rest
    <3> QED
      BY <1>2, <2>1 DEF ProcState, Labels
  <2>3. CASE proc[p].drain
    <3>1. /\ Become(p, [last EXCEPT !.pc = "draining", !.todo = rest])
          /\ flight' = flight
      BY <2>3 DEF Confirm
    <3> HIDE DEF more, last, rest
    <3> QED
      BY <2>2, <3>1
  <2>4. CASE ~proc[p].drain
    <3>1. /\ flight' = Nobody
          /\ \/ rest # {} /\ Become(p, [more EXCEPT !.pc = "waiting"])
             \/ Become(p, [last EXCEPT !.pc = "drainwait"])
             \/ Become(p, IdleProc)
      BY <2>4 DEF Confirm
    <3> HIDE DEF more, last, rest
    <3> QED
      BY <2>2, <3>1, IdleFacts, KitAssumption, PipelineAssumption
  <2> QED
    BY <2>3, <2>4
<1> HIDE DEF rest, more, last
<1>7. /\ proc' \in [Procs -> ProcState]
      /\ proc'[p] = r
      /\ \A q \in Procs : q # p => proc'[q] = proc[q]
  BY <1>1, <1>6, ClaimKnown, BecomeFacts DEF PipelineInv, TypeOK
<1>8. flight = p /\ UNCHANGED <<kitVars, authority, maintenance, phase, kit, crashes>>
  BY <1>1, ClaimKnown DEF Confirm
<1>9. OwnStep(p)
  BY <1>6, <1>7, <1>8 DEF OwnStep, HandOff, PipelineInv, TypeOK
<1>10. ProcOK(p)'
  BY <1>1, <1>2, <1>5, <1>6, <1>7, <1>8, ClaimKnown
     DEF ProcOK, LockOK, WorkOK, JournalOK, ClaimOK, DeciderLabels, InKit, InFlight, OnRow,
         OnRecord, HasClaim
<1> QED
  BY <1>1, <1>3, <1>4, <1>8, <1>9, <1>10, ClaimKnown, StatusGuarantee

\* next() and the first save() of a record, with or without a row for it, keep
\* the invariant of the stores.
LEMMA RecordStores ==
  ASSUME PipelineInv, next <= MaxActions, NEW k \in Kinds, NEW s \in {"submitting", "uncertain"},
         Record(k, s), UNCHANGED rows \/ \E b \in BOOLEAN : AddAction(next, b)
  PROVE  /\ KitTypeOK'
         /\ rows' \in Seq(RowSet)
         /\ StoreInv'
         /\ RowsGrow
         /\ \A j \in RowIds : rows'[j] = rows[j]
<1>1. next \in Ids /\ next \in Nat /\ journal[next] = "none"
  BY KitAssumption DEF PipelineInv, TypeOK, KitTypeOK, StoreInv, OrderInv, Ids
<1>2. KitTypeOK'
  BY <1>1, KitAssumption DEF PipelineInv, TypeOK, KitTypeOK, Record, Status, Unsettled, Ids
<1>3. \A j \in RowIds : rows[j].action \in Ids /\ rows[j].action # next
  BY <1>1, RowFacts, KitAssumption DEF PipelineInv, TypeOK, StoreInv, OrderInv, Ids
<1>4. /\ rows' \in Seq(RowSet)
      /\ Len(rows) \in Nat
      /\ \A j \in RowIds : rows'[j] = rows[j]
      /\ \/ Len(rows') = Len(rows)
         \/ /\ Len(rows') = Len(rows) + 1
            /\ rows'[Len(rows) + 1].action = next
            /\ rows'[Len(rows) + 1].status = "pending"
  <2>1. CASE UNCHANGED rows
    BY <2>1, RowIdsFacts DEF PipelineInv, TypeOK
  <2>2. CASE \E b \in BOOLEAN : AddAction(next, b)
    BY <1>1, <1>3, <2>2, AddActionFacts DEF PipelineInv, TypeOK
  <2> QED
    BY <2>1, <2>2
<1>5. \A j \in RowIds' :
        \/ j \in RowIds /\ rows'[j] = rows[j]
        \/ /\ j = Len(rows) + 1
           /\ rows'[j].action = next
           /\ rows'[j].status = "pending"
  BY <1>4 DEF RowIds
<1>6. RowIds \subseteq RowIds' /\ RowIds \subseteq 1 .. Len(rows)
  BY <1>4 DEF RowIds
<1>7. OrderInv'
  <2>1. \A i \in Ids : i >= next' => journal'[i] = "none"
    BY <1>1, KitAssumption DEF PipelineInv, TypeOK, KitTypeOK, StoreInv, OrderInv, Record, Ids
  <2>2. \A j \in RowIds' : rows'[j].action < next'
    BY <1>1, <1>3, <1>5, KitAssumption DEF PipelineInv, StoreInv, OrderInv, Record, Ids
  <2>3. SameOrder'
    BY <1>1, <1>3, <1>4, <1>5, <1>6
       DEF PipelineInv, StoreInv, OrderInv, SameOrder
  <2> QED
    BY <2>1, <2>2, <2>3 DEF OrderInv
<1>8. HistoryInv'
  BY <1>1 DEF PipelineInv, TypeOK, KitTypeOK, StoreInv, HistoryInv, Record
<1>9. OutcomeInv'
  BY <1>1, <1>3, <1>5
     DEF PipelineInv, TypeOK, KitTypeOK, StoreInv, OutcomeInv, Record, Decided
<1> QED
  BY <1>2, <1>4, <1>6, <1>7, <1>8, <1>9 DEF StoreInv, RowsGrow

\* A submission leaves every process but the caller undisturbed.
LEMMA RecordGuarantee ==
  ASSUME PipelineInv, NEW c \in Callers, OwnStep(c), kit = Nobody, next <= MaxActions,
         NEW k \in Kinds, NEW s \in {"submitting", "uncertain"},
         Record(k, s), UNCHANGED rows \/ \E b \in BOOLEAN : AddAction(next, b), ProcOK(c)'
  PROVE  Guarantee(c)
<1>1. TypeOK'
  BY RecordStores, PipelineAssumption DEF PipelineInv, TypeOK, OwnStep, HandOff, Procs
<1>2. ASSUME NEW q \in Procs, q # c PROVE Undisturbed(q)
  <2>1. next' \in Nat /\ next <= next' /\ kit # q
    BY PipelineAssumption, KitAssumption DEF PipelineInv, TypeOK, KitTypeOK, Record, Ids
  <2>2. \A i \in Ids : journal[i] \in Decided => journal'[i] = journal[i]
    BY KitAssumption
       DEF PipelineInv, TypeOK, KitTypeOK, StoreInv, OrderInv, Record, Ids, Decided
  <2>3. flight = q => flight' = q
    BY <1>2, PipelineAssumption DEF OwnStep, HandOff
  <2> QED
    BY <1>2, <2>1, <2>2, <2>3, RecordStores DEF Undisturbed, OwnStep
<1> QED
  BY <1>1, <1>2, RecordStores DEF Guarantee

\* A refused submission leaves a fresh record uncertain, without a row.
LEMMA SubmitRefusedStep ==
  ASSUME PipelineInv, NEW c \in Callers, NEW k \in Kinds, SubmitRefused(c, k)
  PROVE  Guarantee(c)
<1>1. OwnStep(c) /\ ProcOK(c)'
  BY IdleOwn DEF SubmitRefused, HandOff, kernelVars, Procs
<1> QED
  BY <1>1, RecordGuarantee DEF SubmitRefused, MaySubmit, KitFree, kernelVars

\* A submission adds a fresh record and a row after all others.
LEMMA SubmitStep ==
  ASSUME PipelineInv, NEW c \in Callers, NEW k \in Kinds, Submit(c, k)
  PROVE  Guarantee(c)
<1> DEFINE r == [proc[c] EXCEPT !.pc = "accepted", !.act = next]
<1>1. c \in Procs /\ c \notin Deciders
  BY PipelineAssumption DEF Procs
<1>2. /\ kit = Nobody
      /\ kit' = c
      /\ AddAction(next, TRUE)
      /\ Record(k, "submitting")
      /\ next <= MaxActions
  BY DEF Submit, MaySubmit, KitFree
<1>3. next \in Ids /\ next \in Nat
  BY <1>2, KitAssumption DEF PipelineInv, TypeOK, KitTypeOK, Ids
<1>4. r \in ProcState /\ r.pc = "accepted" /\ r.act = next /\ r.todo = proc[c].todo
  <2>1. proc[c] \in ProcState /\ next \in 0 .. MaxActions
    BY <1>1, <1>3, KitAssumption DEF PipelineInv, TypeOK, Ids
  <2> QED
    BY <2>1 DEF ProcState, Labels
<1>5. Become(c, r)
  BY DEF Submit
<1> HIDE DEF r
<1>6. /\ proc' \in [Procs -> ProcState]
      /\ proc'[c] = r
      /\ \A q \in Procs : q # c => proc'[q] = proc[q]
  BY <1>1, <1>4, <1>5, BecomeFacts DEF PipelineInv, TypeOK
<1>7. OwnStep(c)
  BY <1>2, <1>6 DEF OwnStep, HandOff, Submit, PipelineInv, TypeOK
<1>8. next' = next + 1 /\ journal'[next] = "submitting"
  BY <1>2, <1>3 DEF Record, PipelineInv, TypeOK, KitTypeOK
<1>9. proc[c].todo \subseteq RowIds'
  BY <1>1, <1>2, RecordStores DEF PipelineInv, ProcOK, WorkOK, RowsGrow, Submit, MaySubmit
<1>10. ProcOK(c)'
  BY <1>1, <1>2, <1>3, <1>4, <1>6, <1>8, <1>9
     DEF ProcOK, LockOK, WorkOK, JournalOK, ClaimOK, CallerLabels, InKit, OnRecord
<1> QED
  BY <1>2, <1>7, <1>10, RecordGuarantee DEF Submit, MaySubmit

-----------------------------------------------------------------------------
(***************************************************************************)
(* The environment.                                                        *)
(***************************************************************************)

\* Closing sessions leaves every process in its place.
LEMMA CloseSessionsFacts ==
  ASSUME proc \in [Procs -> ProcState], NEW S, CloseSessions(S)
  PROVE  /\ proc' \in [Procs -> ProcState]
         /\ \A q \in Procs : /\ proc'[q].pc = proc[q].pc
                             /\ proc'[q].act = proc[q].act
                             /\ proc'[q].row = proc[q].row
                             /\ proc'[q].verb = proc[q].verb
                             /\ proc'[q].todo = proc[q].todo
BY DEF CloseSessions, ProcState

\* What neither writes a store, nor moves a process or a queue, is harmless.
LEMMA QuietStep ==
  ASSUME PipelineInv, UNCHANGED <<kitVars, rows, kit, flight>>, crashes' = crashes,
         authority' \in BOOLEAN, maintenance' \in BOOLEAN,
         phase' \in {"up", "stopping", "closed", "down"},
         proc' = proc \/ \E S \in SUBSET Callers : CloseSessions(S)
  PROVE  PipelineInv'
<1>1. /\ proc' \in [Procs -> ProcState]
      /\ \A q \in Procs : /\ proc'[q].pc = proc[q].pc
                          /\ proc'[q].act = proc[q].act
                          /\ proc'[q].row = proc[q].row
                          /\ proc'[q].verb = proc[q].verb
                          /\ proc'[q].todo = proc[q].todo
  BY CloseSessionsFacts DEF PipelineInv, TypeOK
<1>2. TypeOK'
  BY <1>1 DEF PipelineInv, TypeOK, KitTypeOK, kitVars
<1>3. StoreInv'
  BY DEF PipelineInv, StoreInv, OrderInv, HistoryInv, OutcomeInv, SameOrder, RowIds, kitVars
<1>4. ASSUME NEW q \in Procs PROVE Undisturbed(q)
  BY <1>1, <1>4, KitAssumption
     DEF PipelineInv, TypeOK, KitTypeOK, Undisturbed, RowsGrow, RowIds, kitVars, Ids
<1>5. ASSUME NEW q \in Procs PROVE ProcOK(q)'
  BY <1>4, Rely DEF PipelineInv
<1> QED
  BY <1>2, <1>3, <1>5 DEF PipelineInv

\* After a death only the stores matter.
LEMMA DieStep ==
  ASSUME PipelineInv, Die, KitTypeOK', rows' \in Seq(RowSet), StoreInv'
  PROVE  PipelineInv'
<1>1. \A p \in Procs : proc'[p] = IdleProc
  BY DEF Die
<1>2. proc' \in [Procs -> ProcState]
  BY IdleFacts, KitAssumption, PipelineAssumption DEF Die
<1>3. TypeOK'
  BY <1>2 DEF PipelineInv, TypeOK, Die
<1>4. ASSUME NEW p \in Procs PROVE ProcOK(p)'
  BY <1>1, IdleOK
<1> QED
  BY <1>3, <1>4 DEF PipelineInv

\* A crash between two stretches keeps the stores as they are.
LEMMA CrashStep ==
  ASSUME PipelineInv, Crash
  PROVE  PipelineInv'
<1>1. KitTypeOK' /\ rows' \in Seq(RowSet)
  BY DEF PipelineInv, TypeOK, KitTypeOK, Crash, kitVars
<1>2. StoreInv'
  BY DEF PipelineInv, StoreInv, OrderInv, HistoryInv, OutcomeInv, SameOrder, RowIds, kitVars,
         Crash
<1> QED
  BY <1>1, <1>2, DieStep DEF Crash

\* A crash inside a submission leaves an id used up, a record, or an unbound row.
LEMMA TornSubmitStep ==
  ASSUME PipelineInv, NEW c \in Callers, NEW k \in Kinds, TornSubmit(c, k)
  PROVE  PipelineInv'
<1>1. Die /\ next <= MaxActions
  BY DEF TornSubmit, MaySubmit
<1>2. CASE Reserve /\ UNCHANGED rows
  <2>1. KitTypeOK' /\ rows' \in Seq(RowSet)
    BY <1>1, <1>2, KitAssumption DEF PipelineInv, TypeOK, KitTypeOK, Reserve, Ids
  <2>2. OrderInv'
    <3>1. next \in Nat /\ Ids \subseteq Nat /\ next' = next + 1
      BY <1>2, KitAssumption DEF PipelineInv, TypeOK, KitTypeOK, Reserve, Ids
    <3>2. \A i \in Ids : i >= next' => journal'[i] = "none"
      BY <1>2, <3>1 DEF PipelineInv, StoreInv, OrderInv, Reserve
    <3>3. ASSUME NEW j \in RowIds PROVE rows[j].action < next'
      <4>1. rows[j].action \in Nat /\ rows[j].action < next
        BY <3>1, RowFacts DEF PipelineInv, TypeOK, StoreInv, OrderInv
      <4> QED
        BY <3>1, <4>1
    <3>4. SameOrder'
      BY <1>2 DEF PipelineInv, StoreInv, OrderInv, SameOrder, RowIds
    <3> QED
      BY <1>2, <3>2, <3>3, <3>4 DEF OrderInv, RowIds
  <2>3. HistoryInv' /\ OutcomeInv'
    BY <1>2 DEF PipelineInv, StoreInv, HistoryInv, OutcomeInv, RowIds, Reserve
  <2> QED
    BY <1>1, <2>1, <2>2, <2>3, DieStep DEF StoreInv
<1>3. CASE Record(k, "submitting") /\ (UNCHANGED rows \/ AddAction(next, FALSE))
  BY <1>1, <1>3, RecordStores, DieStep
<1> QED
  BY <1>2, <1>3 DEF TornSubmit

\* A death right after a justified save.
LEMMA TornSave ==
  ASSUME PipelineInv, Die, NEW i \in Ids, i < next, NEW s \in Status \ {"none"},
         Justified(i, s), journal[i] \notin Decided, Save(i, s), UNCHANGED rows
  PROVE  PipelineInv'
<1>1. KitTypeOK' /\ rows' \in Seq(RowSet)
  BY DEF PipelineInv, TypeOK, KitTypeOK, Save
<1> QED
  BY <1>1, SaveStores, DieStep DEF Save

\* A crash after a submission was confirmed leaves a pending record.
LEMMA TornPendStep ==
  ASSUME PipelineInv, NEW c \in Callers, TornPend(c)
  PROVE  PipelineInv'
<1>1. /\ proc[c].act \in Ids
      /\ proc[c].act < next
      /\ journal[proc[c].act] = "submitting"
  BY RecordKnown DEF TornPend, At, PipelineInv, ProcOK, JournalOK, OnRecord, Procs
<1>2. Justified(proc[c].act, "pending") /\ "pending" \in Status \ {"none"}
  BY <1>1 DEF PipelineInv, StoreInv, HistoryInv, Justified, Status
<1> QED
  BY <1>1, <1>2, TornSave DEF TornPend, Decided

\* A crash after an outcome was saved leaves it saved.
LEMMA TornOutcomeStep ==
  ASSUME PipelineInv, NEW p \in Procs, TornOutcome(p)
  PROVE  PipelineInv'
<1>1. CASE At(p, "effected") /\ Save(proc[p].act, "applied")
  <2>1. proc[p].act \in Ids /\ proc[p].act < next /\ journal[proc[p].act] = "applying"
    BY <1>1, RecordKnown DEF At, PipelineInv, ProcOK, JournalOK, OnRecord
  <2>2. Justified(proc[p].act, "applied") /\ "applied" \in Status \ {"none"}
    BY <1>1, <2>1 DEF At, PipelineInv, ProcOK, JournalOK, StoreInv, HistoryInv, Justified,
                      Status, Decided
  <2> QED
    BY <1>1, <2>1, <2>2, TornSave DEF TornOutcome, Decided
<1>2. CASE /\ Turn(p, "reject")
           /\ journal[proc[p].act] = "pending"
           /\ Save(proc[p].act, "rejected")
  <2>1. p \in Deciders /\ proc[p].pc \in HasClaim
    BY <1>2 DEF Turn, At, PipelineInv, ProcOK, LockOK, CallerLabels, HasClaim, Procs
  <2>2. proc[p].act \in Ids /\ proc[p].act < next
    BY <2>1, ClaimKnown
  <2>3. Justified(proc[p].act, "rejected") /\ "rejected" \in Status \ {"none"}
    BY <1>2, <2>2 DEF PipelineInv, StoreInv, HistoryInv, Justified, Status, Decided
  <2> QED
    BY <1>2, <2>2, <2>3, TornSave DEF TornOutcome, Decided
<1> QED
  BY <1>1, <1>2 DEF TornOutcome

-----------------------------------------------------------------------------
(***************************************************************************)
(* The invariant, and what follows from it.                                *)
(***************************************************************************)
\* Empty stores and idle processes satisfy the invariant.
LEMMA InitInvariant ==
  ASSUME Init
  PROVE  PipelineInv
<1>1. /\ proc \in [Procs -> ProcState]
      /\ \A p \in Procs : proc[p] = IdleProc
  BY IdleFacts, KitAssumption, PipelineAssumption DEF Init
<1>2. rows = <<>> /\ rows \in Seq(RowSet) /\ RowIds = {}
  BY EmptySeq DEF Init, RowIds
<1>3. KitTypeOK
  BY KitAssumption DEF Init, KitInit, KitTypeOK, Status, Ids
<1>4. TypeOK
  BY <1>1, <1>2, <1>3, PipelineAssumption DEF Init, TypeOK
<1>5. StoreInv
  BY <1>2 DEF Init, KitInit, StoreInv, OrderInv, HistoryInv, OutcomeInv, SameOrder, Ids
<1>6. ASSUME NEW p \in Procs PROVE ProcOK(p)
  BY <1>1 DEF IdleProc, ProcOK, LockOK, WorkOK, JournalOK, ClaimOK, CallerLabels,
              DeciderLabels, InKit, InFlight, OnRow, OnRecord, HasClaim
<1> QED
  BY <1>4, <1>5, <1>6 DEF PipelineInv

\* Every step of a tool call preserves the invariant.
LEMMA CallerInvariant ==
  ASSUME PipelineInv, NEW c \in Callers, CallerStep(c)
  PROVE  PipelineInv'
<1>1. Guarantee(c)
  BY OpenSessionStep, ExecStep, CallDeniedStep, SubmitStep, SubmitRefusedStep, PendStep,
     PendAndApplyStep, CallFails, SimulateStep, ReturnStep
     DEF CallerStep
<1> QED
  BY <1>1, Compose DEF Procs

\* Every step of a decision or a drain preserves the invariant.
LEMMA DeciderInvariant ==
  ASSUME PipelineInv, NEW p \in Deciders, DeciderStep(p)
  PROVE  PipelineInv'
<1>1. Guarantee(p)
  BY PerformStep, DrainTurnStep, DrainNextStep, DeciderGivesUp, ClaimStep, ApplyActionStep,
     RejectActionStep, RevertActionStep, RepeatedStep, ConfirmStep
     DEF DeciderStep
<1> QED
  BY <1>1, Compose DEF Procs

\* So does every step that calls and decisions have in common.
LEMMA SharedInvariant ==
  ASSUME PipelineInv, NEW p \in Procs, SharedStep(p)
  PROVE  PipelineInv'
<1>1. Guarantee(p)
  BY RecoverStep, ReplayStep, RecoveredStep, OpenFailsStep, TakeEffectStep,
     EffectReturnsStep, EffectThrowsStep
     DEF SharedStep
<1> QED
  BY <1>1, Compose

\* So do revocation, session ends, maintenance, shutdown, deaths and restarts.
LEMMA EnvironmentInvariant ==
  ASSUME PipelineInv, Environment
  PROVE  PipelineInv'
<1> USE DEF PipelineInv, TypeOK, kernelVars
<1>1. CASE \E S \in {{}, Callers} : LoseAuthority(S)
  BY <1>1, QuietStep DEF LoseAuthority
<1>2. CASE \E c \in Callers : SessionEnd(c)
  BY <1>2, QuietStep DEF SessionEnd
<1>3. CASE SetMaintenance
  BY <1>3, QuietStep DEF SetMaintenance
<1>4. CASE Stop
  BY <1>4, QuietStep DEF Stop
<1>5. CASE Close
  BY <1>5, QuietStep DEF Close
<1>6. CASE Restart
  BY <1>6, QuietStep DEF Restart
<1>7. CASE Death
  BY <1>7, CrashStep, TornSubmitStep, TornPendStep, TornOutcomeStep DEF Death
<1> QED
  BY <1>1, <1>2, <1>3, <1>4, <1>5, <1>6, <1>7 DEF Environment

\* So does every step of the pipeline, and every stutter.
LEMMA StepInvariant ==
  ASSUME PipelineInv, [Next]_vars
  PROVE  PipelineInv'
<1>1. CASE \E c \in Callers : CallerStep(c)
  BY <1>1, CallerInvariant
<1>2. CASE \E p \in Deciders : DeciderStep(p)
  BY <1>2, DeciderInvariant
<1>3. CASE \E p \in Procs : SharedStep(p)
  BY <1>3, SharedInvariant
<1>4. CASE \E p \in Operators, v \in Verbs :
             \E ids \in (SUBSET RowIds) \ {{}} : Decide(p, ids, v)
  BY <1>4, DecideStep, Compose DEF Procs, Deciders
<1>5. CASE \E p \in Drainers : StartDrain(p)
  BY <1>5, StartDrainStep, Compose DEF Procs, Deciders
<1>6. CASE Environment
  BY <1>6, EnvironmentInvariant
<1>7. CASE UNCHANGED vars
  <2>1. UNCHANGED <<kitVars, rows, kit, flight>> /\ proc' = proc
    BY <1>7 DEF vars, kernelVars
  <2> QED
    BY <1>7, <2>1, QuietStep DEF vars, kernelVars, PipelineInv, TypeOK
<1> QED
  BY <1>1, <1>2, <1>3, <1>4, <1>5, <1>6, <1>7 DEF Next

\* PipelineInv holds in every reachable state: each queue has one holder, who
\* alone works on its journal record or its row.
THEOREM Invariance == Spec => []PipelineInv
<1>1. Init => PipelineInv
  BY InitInvariant
<1>2. PipelineInv /\ [Next]_vars => PipelineInv'
  BY StepInvariant
<1> QED
  BY <1>1, <1>2, PTL DEF Spec

\* Every variable keeps its type: no handler of the pipeline writes a status
\* outside the two schemas, or an id the sequencer has not handed out.
THEOREM TypeCorrect == Spec => []TypeOK
<1>1. PipelineInv => TypeOK
  BY DEF PipelineInv
<1> QED
  BY <1>1, Invariance, PTL

\* However many calls, operators, drains and crashes there are, the resource
\* takes the effect of an action at most once, and its reversal at most once and
\* only after the effect (applyRecorded(), revertAction()).
THEOREM AtMostOnceHolds == Spec => []AtMostOnce
<1>1. PipelineInv => AtMostOnce
  BY DEF PipelineInv, StoreInv, HistoryInv, AtMostOnce
<1> QED
  BY <1>1, Invariance, PTL

\* An outcome the kernel has recorded (perform()) is the driver's own record of
\* the action, and what the resource went through.
THEOREM StoresAgreeHolds == Spec => []StoresAgree
<1>1. ASSUME PipelineInv PROVE StoresAgree
  <2> SUFFICES ASSUME NEW k \in RowIds, NEW i, i = rows[k].action
               PROVE  /\ rows[k].status = "applied" =>
                           journal[i] = "applied" /\ applies[i] = 1 /\ reverts[i] = 0
                      /\ rows[k].status = "rejected" => journal[i] = "rejected" /\ applies[i] = 0
                      /\ rows[k].status = "reverted" => journal[i] = "reverted" /\ reverts[i] = 1
    BY DEF StoresAgree
  <2>1. i \in Ids
    BY <1>1, RowFacts DEF PipelineInv, TypeOK
  <2>2. rows[k].status \in Decided => journal[i] = rows[k].status
    BY <1>1 DEF PipelineInv, StoreInv, OutcomeInv
  <2> QED
    BY <1>1, <2>1, <2>2 DEF PipelineInv, StoreInv, HistoryInv, Decided
<1> QED
  BY <1>1, Invariance, PTL

\* The kernel's ids are in the order of the driver's, whatever is lost between
\* next() and addAction().
THEOREM SameOrderHolds == Spec => []SameOrder
<1>1. PipelineInv => SameOrder
  BY DEF PipelineInv, StoreInv, OrderInv
<1> QED
  BY <1>1, Invariance, PTL

=============================================================================
