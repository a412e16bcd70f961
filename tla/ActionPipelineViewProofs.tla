---------------------- MODULE ActionPipelineViewProofs ----------------------
(***************************************************************************)
(* Machine-checked proofs of what operators and agents are shown: that the *)
(* kernel's rows never offer an action the resource may have taken, that   *)
(* every pending action is in the operators' queue, and that a live        *)
(* session reads its own writes through the overlay.                       *)
(*                                                                         *)
(* The first two follow from the lives of records and rows (JournalLife,   *)
(* RowsLive).  The overlay is changed by whoever has the driver's queue,   *)
(* so its part is again rely/guarantee: Mine(p) is a step that moves only  *)
(* p and writes the driver's files only with that queue.                   *)
(***************************************************************************)
EXTENDS ActionPipelineStepProofs

\* The class of a recorded action never changes (save({...record, status})).
LEMMA KindSticks ==
  ASSUME PipelineInv, [Next]_vars, NEW i \in Ids, i < next
  PROVE  kind'[i] = kind[i]
<1>1. ASSUME NEW k \in Kinds, NEW s, Record(k, s) PROVE kind'[i] = kind[i]
  <2>1. next # i
    BY KitAssumption DEF PipelineInv, TypeOK, KitTypeOK, Ids
  <2> QED
    BY <1>1, <2>1 DEF Record, PipelineInv, TypeOK, KitTypeOK
<1>2. ASSUME NEW c \in Callers, CallerStep(c) PROVE kind'[i] = kind[i]
  <2>1. CASE \E k \in Kinds : Submit(c, k) \/ SubmitRefused(c, k)
    BY <1>1, <2>1 DEF Submit, SubmitRefused
  <2>2. CASE ~\E k \in Kinds : Submit(c, k) \/ SubmitRefused(c, k)
    BY <1>2, <2>2 DEF CallerStep, OpenSession, Exec, CallDenied, Pend, PendAndApply,
       PendFails, Simulate, Return, SimulateFails, kitVars, Save, SaveAndRetire, SetOverlay
  <2> QED
    BY <2>1, <2>2
<1>3. ASSUME NEW p \in Deciders, DeciderStep(p) PROVE kind' = kind
  BY <1>3 DEF DeciderStep, Perform, DrainTurn, DrainNext, DrainStops, Claim, ClaimDenied,
     ApplyAction, RejectAction, RevertAction, Repeated, Refused, Confirm,
     kitVars, Save, SaveAndRetire, SetOverlay
<1>4. ASSUME NEW p \in Procs, SharedStep(p) PROVE kind' = kind
  BY <1>4 DEF SharedStep, Recover, Replay, Recovered, OpenFails, TakeEffect, EffectReturns,
     EffectThrows, kitVars, Save, SaveAndRetire, SetOverlay, Effect, Reversal
<1>5. ASSUME NEW p, NEW v, NEW ids, Decide(p, ids, v) \/ StartDrain(p) PROVE kind' = kind
  BY <1>5 DEF Decide, StartDrain, kitVars
<1>6. ASSUME Environment PROVE kind'[i] = kind[i]
  <2>1. ASSUME NEW c \in Callers, NEW k \in Kinds, TornSubmit(c, k) PROVE kind'[i] = kind[i]
    BY <1>1, <2>1 DEF TornSubmit, Reserve
  <2>2. CASE ~\E c \in Callers, k \in Kinds : TornSubmit(c, k)
    BY <1>6, <2>2 DEF Environment, LoseAuthority, SessionEnd, SetMaintenance, Stop, Close,
       Restart, Death, Crash, TornPend, TornOutcome, kitVars, Save
  <2> QED
    BY <2>1, <2>2
<1>7. CASE UNCHANGED vars
  BY <1>7 DEF vars, kitVars
<1> QED
  BY <1>2, <1>3, <1>4, <1>5, <1>6, <1>7 DEF Next

-----------------------------------------------------------------------------
(***************************************************************************)
(* IntentFirst.                                                            *)
(***************************************************************************)

\* What one step can do to one action: nothing, one edge, an effect, a reversal.
LEMMA ActionLife ==
  ASSUME PipelineInv, [Next]_vars, NEW i \in Ids
  PROVE  \/ UNCHANGED <<journal[i], applies[i], reverts[i]>>
         \/ \E s \in Status : Move(i, s) /\ journal'[i] = s
         \/ journal[i] = "applying" /\ UNCHANGED <<journal[i], reverts[i]>>
         \/ journal[i] = "reverting" /\ UNCHANGED <<journal[i], applies[i]>>
<1>1. CASE Quiet
  BY <1>1 DEF Quiet
<1>2. ASSUME NEW a \in Ids, NEW s \in Status, Move(a, s)
      PROVE  \/ UNCHANGED <<journal[i], applies[i], reverts[i]>>
             \/ Move(i, s) /\ journal'[i] = s
  BY <1>2 DEF Move, PipelineInv, TypeOK, KitTypeOK
<1>3. ASSUME NEW p \in Procs, TakeEffect(p)
      PROVE  \/ UNCHANGED <<journal[i], applies[i], reverts[i]>>
             \/ journal[i] = "applying" /\ UNCHANGED <<journal[i], reverts[i]>>
             \/ journal[i] = "reverting" /\ UNCHANGED <<journal[i], applies[i]>>
  BY <1>3, EffectKnown DEF PipelineInv, TypeOK, KitTypeOK
<1> QED
  BY <1>1, <1>2, <1>3, JournalLife DEF Life

\* The row of an action whose claim begins an effect or a reversal.
LEMMA ClaimedRow ==
  ASSUME PipelineInv, NEW k \in RowIds, NEW i \in Ids, i = rows[k].action,
         NEW s \in Status, Move(i, s),
         s = "reverting" \/ (s = "applying" /\ journal[i] = "pending")
  PROVE  rows'[k].status = "failed"
<1>1. PICK p \in Deciders : proc[p].pc = "claimed" /\ proc[p].act = i
  BY DEF Move, Mover
<1>2. /\ proc[p].row \in RowIds
      /\ rows[proc[p].row].action = rows[k].action
      /\ rows[proc[p].row].status = "failed"
  BY <1>1 DEF PipelineInv, ProcOK, WorkOK, ClaimOK, OnRow, HasClaim, Procs
<1>3. proc[p].row = k
  BY <1>2, RowsDistinct
<1>4. journal[i] # "none"
  BY DEF Move, Lawful
<1> QED
  BY <1>2, <1>3, <1>4 DEF Move, Mover

\* Every step keeps the intent in the rows of what the resource may have taken.
LEMMA IntentStep ==
  ASSUME PipelineInv, IntentInv, [Next]_vars
  PROVE  IntentInv'
<1>1. RowLife
  BY RowsLive
<1>2. ASSUME NEW k \in RowIds', k \notin RowIds
      PROVE  LET i == rows'[k].action IN
               /\ ~(applies'[i] > 0 \/ journal'[i] = "applying")
               /\ ~(reverts'[i] > 0 \/ journal'[i] = "reverting")
  <2>1. rows'[k].action = next /\ next \in Ids
    BY <1>1, <1>2, RowLifeFacts
  <2>2. journal[next] = "none" /\ applies[next] = 0 /\ reverts[next] = 0
    <3>1. journal[next] = "none" /\ next \in Nat
      BY <2>1, KitAssumption DEF PipelineInv, StoreInv, OrderInv, Ids
    <3>2. applies[next] = 0 /\ reverts[next] \in Nat /\ reverts[next] <= applies[next]
      BY <2>1, <3>1 DEF PipelineInv, TypeOK, KitTypeOK, StoreInv, HistoryInv
    <3> QED
      BY <3>1, <3>2
  <2>3. /\ applies'[next] = 0 /\ reverts'[next] = 0
        /\ journal'[next] \notin {"applying", "reverting"}
    BY <2>1, <2>2, ActionLife DEF Move, Lawful
  <2> QED
    BY <2>1, <2>3
<1>3. ASSUME NEW k \in RowIds, NEW i \in Ids, i = rows[k].action
      PROVE  /\ rows'[k].action = i
             /\ kind'[i] # "awaited" /\ (applies'[i] > 0 \/ journal'[i] = "applying") =>
                  rows'[k].status # "pending"
             /\ reverts'[i] > 0 \/ journal'[i] = "reverting" =>
                  rows'[k].status \in {"failed", "reverted"}
  <2>1. i < next
    BY <1>3 DEF PipelineInv, StoreInv, OrderInv
  <2>2. kind'[i] = kind[i] /\ rows'[k].action = i
    BY <1>1, <1>3, <2>1, KindSticks, RowLifeFacts DEF RowsGrow
  <2>3. \/ rows'[k].status = rows[k].status
        \/ rows[k].status \in {"pending", "applied"} /\ rows'[k].status = "failed"
        \/ /\ rows[k].status = "failed" /\ rows'[k].status \in Decided
           /\ rows'[k].status = journal[i]
    BY <1>1, <1>3, RowLifeFacts
  <2>4. /\ kind[i] # "awaited" /\ (applies[i] > 0 \/ journal[i] = "applying") =>
             rows[k].status # "pending"
        /\ reverts[i] > 0 \/ journal[i] = "reverting" => rows[k].status \in {"failed", "reverted"}
    BY <1>3 DEF IntentInv
  <2>5. /\ reverts[i] \in Nat /\ applies[i] \in Nat /\ reverts[i] <= applies[i]
        /\ journal[i] = "rejected" => applies[i] = 0
        /\ journal[i] = "applied" => reverts[i] = 0
    BY DEF PipelineInv, TypeOK, KitTypeOK, StoreInv, HistoryInv
  <2>6. \/ UNCHANGED <<journal[i], applies[i], reverts[i]>>
        \/ \E s \in Status : Move(i, s) /\ journal'[i] = s
        \/ journal[i] = "applying" /\ UNCHANGED <<journal[i], reverts[i]>>
        \/ journal[i] = "reverting" /\ UNCHANGED <<journal[i], applies[i]>>
    BY ActionLife
  <2>7. ASSUME kind[i] # "awaited", applies'[i] > 0 \/ journal'[i] = "applying"
        PROVE  rows'[k].status # "pending"
    <3>1. CASE applies[i] > 0 \/ journal[i] = "applying"
      BY <2>3, <2>4, <2>7, <3>1 DEF Decided
    <3>2. CASE ~(applies[i] > 0 \/ journal[i] = "applying")
      <4>1. CASE journal'[i] = "applying" /\ Move(i, "applying")
        <5>1. journal[i] \in {"submitting", "pending"}
          BY <4>1 DEF Move, Lawful
        <5>2. journal[i] = "pending"
          BY <2>7, <4>1, <5>1 DEF Move, Mover
        <5>3. "applying" \in Status
          BY DEF Status, Unsettled
        <5>4. rows'[k].status = "failed"
          BY <1>3, <4>1, <5>2, <5>3, ClaimedRow
        <5> QED
          BY <5>4
      <4>2. journal'[i] = "applying" /\ Move(i, "applying")
        BY <2>6, <2>7, <3>2 DEF Move
      <4> QED
        BY <4>1, <4>2
    <3> QED
      BY <3>1, <3>2
  <2>8. ASSUME reverts'[i] > 0 \/ journal'[i] = "reverting"
        PROVE  rows'[k].status \in {"failed", "reverted"}
    <3>1. CASE reverts[i] > 0 \/ journal[i] = "reverting"
      BY <2>3, <2>4, <2>5, <3>1 DEF Decided
    <3>2. CASE ~(reverts[i] > 0 \/ journal[i] = "reverting")
      <4>1. Move(i, "reverting")
        BY <2>6, <2>8, <3>2 DEF Move
      <4> QED
        BY <1>3, <4>1, ClaimedRow DEF Status, Unsettled
    <3> QED
      BY <3>1, <3>2
  <2> QED
    BY <2>2, <2>7, <2>8
<1>4. \A k \in RowIds : rows[k].action \in Ids
  BY RowFacts DEF PipelineInv, TypeOK
<1> QED
  BY <1>2, <1>3, <1>4 DEF IntentInv

-----------------------------------------------------------------------------
(***************************************************************************)
(* PendingIsQueued, as far as the stores go.                               *)
(***************************************************************************)

\* Listed actions stay listed.
LEMMA QueuedStays ==
  ASSUME PipelineInv, [Next]_vars, NEW i, Queued(i)
  PROVE  Queued(i)'
<1>1. PICK k \in RowIds : rows[k].action = i /\ rows[k].bound
  BY DEF Queued
<1>2. k \in RowIds' /\ rows'[k].action = i /\ rows'[k].bound
  BY <1>1, RowsLive, RowLifeFacts DEF RowsGrow
<1> QED
  BY <1>2 DEF Queued

\* A record leaves submitting only in the hands of a caller that has its row.
LEMMA QueueStep ==
  ASSUME PipelineInv, QueueInv, \A p \in Procs : ViewOK(p), [Next]_vars
  PROVE  QueueInv'
<1> DEFINE Listed == {"pending", "applying", "reverting"} \cup Decided
<1> SUFFICES ASSUME NEW i \in Ids, journal'[i] \in Listed PROVE Queued(i)'
  BY DEF QueueInv
<1>1. CASE journal[i] \in Listed
  BY <1>1, QueuedStays DEF QueueInv
<1>2. CASE journal[i] \notin Listed
  <2>1. PICK s \in Status : Move(i, s) /\ journal'[i] = s
    BY <1>2, ActionLife
  <2>2. journal[i] = "submitting" /\ s # "uncertain"
    BY <1>2, <2>1 DEF Move, Lawful, Decided
  <2>3. PICK c \in Callers : proc[c].pc = "accepted" /\ proc[c].act = i
    BY <2>1, <2>2 DEF Move, Mover
  <2>4. Queued(i)
    BY <2>3 DEF ViewOK, Procs
  <2> QED
    BY <2>4, QueuedStays
<1> QED
  BY <1>1, <1>2

-----------------------------------------------------------------------------
(***************************************************************************)
(* ReadYourWrites: who changes the overlay.                                *)
(***************************************************************************)

\* A step that moves only p, and writes the driver's files only with its queue.
Mine(p) ==
  /\ \A q \in Procs : q # p => proc'[q] = proc[q]
  /\ UNCHANGED <<journal, kind, overlay>> \/ kit \in {p, Nobody}

\* Every step of a tool call is its own.
LEMMA CallerMine ==
  ASSUME PipelineInv, NEW c \in Callers, CallerStep(c)
  PROVE  Mine(c)
<1>1. c \in Procs /\ proc \in [Procs -> ProcState]
  BY DEF PipelineInv, TypeOK, Procs
<1>2. proc[c].pc \in InKit => kit = c
  BY <1>1 DEF PipelineInv, ProcOK, LockOK
<1>3. CASE OpenSession(c) \/ Exec(c) \/ CallDenied(c) \/ Return(c)
  BY <1>1, <1>3 DEF OpenSession, Exec, CallDenied, Return, Goto, Become, kitVars, Mine
<1>4. CASE \E k \in Kinds : Submit(c, k) \/ SubmitRefused(c, k)
  BY <1>1, <1>4 DEF Submit, SubmitRefused, MaySubmit, KitFree, Become, Mine
<1>5. CASE Pend(c) \/ PendAndApply(c) \/ PendFails(c) \/ Simulate(c) \/ SimulateFails(c)
  <2>1. proc[c].pc \in InKit
    BY <1>5 DEF Pend, PendAndApply, PendFails, Simulate, SimulateFails, At, InKit, OnRecord
  <2>2. \A q \in Procs : q # c => proc'[q] = proc[q]
    BY <1>1, <1>5 DEF Pend, PendAndApply, PendFails, Simulate, SimulateFails, Goto, Become
  <2> QED
    BY <1>2, <2>1, <2>2 DEF Mine
<1> QED
  BY <1>3, <1>4, <1>5, <1>1 DEF CallerStep

\* So is every step of a decision.
LEMMA DeciderMine ==
  ASSUME PipelineInv, NEW p \in Deciders, DeciderStep(p)
  PROVE  Mine(p)
<1>1. p \in Procs /\ proc \in [Procs -> ProcState]
  BY DEF PipelineInv, TypeOK, Procs
<1>2. CASE \/ Perform(p) \/ DrainTurn(p) \/ DrainNext(p) \/ DrainStops(p) \/ Claim(p)
           \/ ClaimDenied(p) \/ Refused(p) \/ Confirm(p)
  BY <1>1, <1>2 DEF Perform, DrainTurn, DrainNext, DrainStops, Claim, ClaimDenied, Refused,
     Confirm, Goto, Become, GiveUp, kitVars, Mine
<1>3. CASE ApplyAction(p) \/ RejectAction(p) \/ RevertAction(p) \/ Repeated(p)
  BY <1>1, <1>3 DEF ApplyAction, RejectAction, RevertAction, Repeated, Turn, KitFree, Goto, Mine
<1> QED
  BY <1>2, <1>3 DEF DeciderStep

\* And every step of opening a session, and of an effect.
LEMMA SharedMine ==
  ASSUME PipelineInv, NEW p \in Procs, SharedStep(p)
  PROVE  Mine(p)
<1>1. proc \in [Procs -> ProcState]
  BY DEF PipelineInv, TypeOK
<1>2. CASE Recovered(p) \/ OpenFails(p) \/ TakeEffect(p)
  BY <1>1, <1>2 DEF Recovered, OpenFails, TakeEffect, Goto, Become, GiveUp, Effect, Reversal,
     kitVars, Mine
<1>3. CASE Recover(p)
  BY <1>1, <1>3 DEF Recover, KitFree, Goto, Mine
<1>4. CASE Replay(p) \/ EffectReturns(p) \/ EffectThrows(p)
  <2>1. proc[p].pc \in InKit
    BY <1>4 DEF Replay, EffectReturns, EffectThrows, At, InKit, OnRecord
  <2>2. \A q \in Procs : q # p => proc'[q] = proc[q]
    BY <1>1, <1>4 DEF Replay, EffectReturns, EffectThrows, Goto, Become, GiveUp
  <2> QED
    BY <2>1, <2>2 DEF PipelineInv, ProcOK, LockOK, Mine
<1> QED
  BY <1>2, <1>3, <1>4 DEF SharedStep

\* What the others rely on survives p's step.
LEMMA OthersView ==
  ASSUME PipelineInv, [Next]_vars, NEW p \in Procs, Mine(p),
         NEW q \in Procs, q # p, ViewOK(q)
  PROVE  ViewOK(q)'
<1>1. proc'[q] = proc[q]
  BY DEF Mine
<1>2. CASE proc[q].pc \in InKit
  <2>1. kit = q
    BY <1>2 DEF PipelineInv, ProcOK, LockOK
  <2>2. UNCHANGED <<journal, kind, overlay>>
    BY <2>1, PipelineAssumption DEF Mine
  <2>3. Settled' = Settled /\ Stale' = Stale
    BY <2>2 DEF Settled, Stale
  <2>4. ASSUME Queued(proc[q].act) PROVE Queued(proc[q].act)'
    <3>1. PICK k \in RowIds : rows[k].action = proc[q].act /\ rows[k].bound
      BY <2>4 DEF Queued
    <3>2. k \in RowIds' /\ rows'[k].action = proc[q].act /\ rows'[k].bound
      BY <3>1, RowsLive, RowLifeFacts DEF RowsGrow
    <3> QED
      BY <1>1, <3>2 DEF Queued
  <2> QED
    BY <1>1, <2>2, <2>3, <2>4 DEF ViewOK
<1>3. CASE proc[q].pc \notin InKit
  BY <1>1, <1>3 DEF ViewOK, InKit, OnRecord
<1> QED
  BY <1>2, <1>3

-----------------------------------------------------------------------------
(***************************************************************************)
(* ReadYourWrites: what each step leaves the session with.                 *)
(***************************************************************************)

\* What p's own step establishes.
View(p) == OverlayInv' /\ ViewOK(p)'

\* A step that leaves the files alone, and opens no session.
LEMMA QuietView ==
  ASSUME OverlayInv, NEW p \in Procs, Mine(p), UNCHANGED <<next, journal, kind, overlay>>,
         proc[p].pc # "simulating",
         proc'[p].pc \notin {"accepted", "simulating", "simulated", "replaying"},
         proc'[p].pc \in {"open", "calling"} =>
           proc[p].pc \in {"open", "calling"} /\ (proc[p].closed => proc'[p].closed)
  PROVE  View(p)
<1>1. ViewOK(p)'
  BY DEF ViewOK
<1>2. Live' => Live
  BY DEF Live, Mine, Procs
<1>3. ASSUME NEW i, Simulating(i) PROVE Simulating(i)'
  BY <1>3 DEF Simulating, Mine, Procs
<1>4. Simulated' = Simulated
  BY DEF Simulated
<1> QED
  BY <1>1, <1>2, <1>3, <1>4 DEF View, OverlayInv

\* Record i, perhaps a fresh one, is saved with status s, perhaps retired.
Writes(i, s) ==
  /\ i < next' /\ next' \in Nat /\ next <= next'
  /\ journal' = [journal EXCEPT ![i] = s]
  /\ \/ kind' = kind
     \/ i = next /\ \E k : kind' = [kind EXCEPT ![next] = k]
  /\ overlay' \in {overlay, overlay \ {i}}
  /\ s \in Entryless => i \notin overlay' \/ journal[i] \in Entryless

\* What that leaves the session with, if the record is not pending now.
LEMMA WriteView ==
  ASSUME PipelineInv, OverlayInv, NEW p \in Procs, Mine(p),
         NEW i \in Ids, NEW s \in Status \ {"pending"}, Writes(i, s),
         proc[p].pc = "simulating" => proc[p].act = i,
         proc'[p].pc \notin {"simulating", "simulated", "replaying", "open", "calling"}
  PROVE  OverlayInv'
<1>1. /\ journal \in [Ids -> Status]
      /\ kind \in [Ids -> Kinds \cup {"none"}]
      /\ overlay \subseteq Ids
      /\ Ids \subseteq Nat
      /\ next \in Nat
  BY KitAssumption DEF PipelineInv, TypeOK, KitTypeOK, Ids
<1>2. ASSUME NEW j \in overlay' PROVE j < next' /\ kind'[j] # "awaited"
  <2>1. j \in overlay
    BY <1>2 DEF Writes
  <2>2. j < next /\ kind[j] # "awaited" /\ j \in Ids
    BY <1>1, <2>1 DEF OverlayInv
  <2>3. j < next'
    BY <1>1, <2>2 DEF Writes
  <2>4. kind'[j] = kind[j]
    BY <1>1, <2>2 DEF Writes
  <2> QED
    BY <2>2, <2>3, <2>4
<1>3. Live' => Live
  BY DEF Live, Mine, Procs
<1>4. ASSUME NEW j \in Ids, Live, journal'[j] \in Entryless PROVE j \notin overlay'
  <2>1. j = i \/ journal'[j] = journal[j]
    BY <1>1 DEF Writes
  <2>2. journal[j] \in Entryless => j \notin overlay
    BY <1>4 DEF OverlayInv
  <2>3. journal'[i] = s
    BY <1>1 DEF Writes
  <2> QED
    BY <1>4, <2>1, <2>2, <2>3 DEF Writes
<1>5. ASSUME NEW j \in Ids, Live, j \in Simulated' PROVE j \in overlay' \/ Simulating(j)'
  <2>1. j # i /\ journal'[j] = journal[j]
    BY <1>1, <1>5 DEF Simulated, Writes
  <2>2. kind'[j] = kind[j]
    BY <1>1, <2>1 DEF Writes
  <2>3. j \in Simulated
    BY <1>5, <2>1, <2>2 DEF Simulated
  <2>4. j \in overlay => j \in overlay'
    BY <2>1 DEF Writes
  <2>5. Simulating(j) => Simulating(j)'
    BY <2>1 DEF Simulating, Mine, Procs
  <2> QED
    BY <1>5, <2>3, <2>4, <2>5 DEF OverlayInv
<1> QED
  BY <1>2, <1>3, <1>4, <1>5 DEF OverlayInv

\* A tool call: what is recorded, simulated or given up.
LEMMA CallerView ==
  ASSUME PipelineInv, [Next]_vars, OverlayInv, NEW c \in Callers, ViewOK(c), CallerStep(c)
  PROVE  View(c)
<1>1. c \in Procs /\ proc[c] \in ProcState /\ proc \in [Procs -> ProcState] /\ Mine(c)
  BY CallerMine DEF PipelineInv, TypeOK, Procs
<1>2. /\ next \in Nat
      /\ proc[c].pc \in OnRecord => proc[c].act \in Ids /\ proc[c].act < next
  BY <1>1, KitAssumption DEF PipelineInv, TypeOK, KitTypeOK, ProcOK, WorkOK, Ids
<1>3. CASE OpenSession(c) \/ Exec(c) \/ CallDenied(c) \/ Return(c)
  <2>1. UNCHANGED kitVars /\ proc[c].pc \in {"idle", "open", "calling", "simulated"}
    BY <1>3 DEF OpenSession, Exec, CallDenied, Return, At
  <2>2. \/ proc'[c].pc \in {"opening", "idle"}
        \/ proc[c].pc = "open" /\ proc'[c].pc = "calling" /\ proc'[c].closed = proc[c].closed
    BY <1>1, <1>3 DEF OpenSession, Exec, CallDenied, Return, At, Goto, Become, IdleProc, ProcState
  <2> QED
    BY <1>1, <2>1, <2>2, QuietView DEF kitVars
<1>4. ASSUME NEW k \in Kinds, NEW s \in {"submitting", "uncertain"}, Record(k, s),
             next <= MaxActions, proc[c].pc = "calling", proc'[c].pc \in {"accepted", "idle"}
      PROVE  OverlayInv'
  <2>1. next \in Ids /\ s \in Status \ {"pending"}
    BY <1>2, <1>4, KitAssumption
       DEF PipelineInv, TypeOK, KitTypeOK, Ids, Status, Unsettled
  <2>2. Writes(next, s)
    <3>1. s \notin Entryless /\ next' = next + 1
      BY <1>4 DEF Entryless, Decided, Record
    <3>2. next < next' /\ next' \in Nat /\ next <= next'
      BY <1>2, <3>1
    <3> QED
      BY <1>4, <3>1, <3>2 DEF Record, Writes
  <2> QED
    BY <1>1, <1>4, <2>1, <2>2, WriteView
<1>5. ASSUME NEW k \in Kinds, Submit(c, k) PROVE View(c)
  <2>1. proc'[c].pc = "accepted" /\ proc'[c].act = next /\ proc[c].pc = "calling"
    BY <1>1, <1>5 DEF Submit, MaySubmit, At, Become, ProcState
  <2>2. OverlayInv'
    BY <1>4, <1>5, <2>1 DEF Submit, MaySubmit
  <2>3. Queued(proc[c].act)'
    <3>1. next \in Ids /\ \A j \in RowIds : rows[j].action # next
      <4>1. next \in Ids
        BY <1>2, <1>5, KitAssumption DEF Submit, MaySubmit, PipelineInv, TypeOK, KitTypeOK, Ids
      <4>2. \A j \in RowIds : rows[j].action \in Nat /\ rows[j].action < next
        BY RowFacts, KitAssumption DEF PipelineInv, TypeOK, StoreInv, OrderInv, Ids
      <4> QED
        BY <1>2, <4>1, <4>2
    <3>2. /\ Len(rows) \in Nat
          /\ Len(rows') = Len(rows) + 1
          /\ rows'[Len(rows) + 1].action = next
          /\ rows'[Len(rows) + 1].bound = TRUE
      BY <1>5, <3>1, AddActionFacts DEF Submit, PipelineInv, TypeOK
    <3>3. Len(rows) + 1 \in RowIds'
      BY <3>2 DEF RowIds
    <3> QED
      BY <2>1, <3>2, <3>3 DEF Queued
  <2> QED
    BY <2>1, <2>2, <2>3 DEF View, ViewOK
<1>6. ASSUME NEW k \in Kinds, SubmitRefused(c, k) PROVE View(c)
  <2>1. proc'[c].pc = "idle" /\ proc[c].pc = "calling"
    BY <1>1, <1>6 DEF SubmitRefused, MaySubmit, At, Become, IdleProc
  <2> QED
    BY <1>4, <1>6, <2>1 DEF SubmitRefused, MaySubmit, View, ViewOK
<1>7. CASE PendAndApply(c) \/ PendFails(c) \/ SimulateFails(c)
  <2>1. proc[c].pc \in OnRecord
    BY <1>7 DEF PendAndApply, PendFails, SimulateFails, At, OnRecord
  <2>2. proc'[c].pc \in {"effect", "idle"}
    <3>1. CASE Goto(c, "effect")
      BY <1>1, <3>1, GotoFacts DEF Labels
    <3>2. CASE Become(c, IdleProc)
      BY <1>1, <3>2 DEF Become, IdleProc
    <3> QED
      BY <1>7, <3>1, <3>2 DEF PendAndApply, PendFails, SimulateFails
  <2>3. \E s \in {"applying", "uncertain"} :
          Save(proc[c].act, s) \/ SaveAndRetire(proc[c].act, s)
    BY <1>7 DEF PendAndApply, PendFails, SimulateFails
  <2>4. PICK s \in {"applying", "uncertain"} :
          /\ journal' = [journal EXCEPT ![proc[c].act] = s]
          /\ overlay' \in {overlay, overlay \ {proc[c].act}}
          /\ UNCHANGED <<next, kind>>
    BY <2>3 DEF Save, SaveAndRetire
  <2>5. s \in Status \ {"pending"} /\ s \notin Entryless
    BY DEF Status, Unsettled, Entryless, Decided
  <2>6. OverlayInv'
    <3>1. Writes(proc[c].act, s)
      BY <1>2, <2>1, <2>4, <2>5 DEF Writes
    <3> QED
      BY <1>1, <1>2, <2>1, <2>2, <2>5, <3>1, WriteView
  <2> QED
    BY <2>2, <2>6 DEF View, ViewOK
<1>8. CASE Pend(c)
  <2> DEFINE i == proc[c].act
  <2>1. /\ proc[c].pc = "accepted" /\ proc'[c].pc = "simulating" /\ proc'[c].act = i
        /\ i \in Ids /\ kind[i] # "awaited"
        /\ journal' = [journal EXCEPT ![i] = "pending"] /\ UNCHANGED <<next, kind, overlay>>
    BY <1>1, <1>2, <1>8 DEF Pend, At, OnRecord, Goto, Save
  <2>2. journal \in [Ids -> Status]
    BY DEF PipelineInv, TypeOK, KitTypeOK
  <2>3. Live' => Live
    BY <1>1, <2>1 DEF Live, Mine, Procs
  <2>4. ASSUME NEW j \in Ids, Live, journal'[j] \in Entryless PROVE j \notin overlay'
    BY <2>1, <2>2, <2>4 DEF OverlayInv, Entryless, Decided
  <2>5. ASSUME NEW j \in Ids, Live, j \in Simulated' PROVE j \in overlay' \/ Simulating(j)'
    <3>1. CASE j = i
      BY <2>1, <3>1 DEF Simulating
    <3>2. CASE j # i
      <4>1. j \in Simulated
        BY <2>1, <2>2, <2>5, <3>2 DEF Simulated
      <4>2. Simulating(j) => Simulating(j)'
        BY <1>1, <2>1 DEF Simulating, Mine, Procs
      <4> QED
        BY <2>1, <2>5, <4>1, <4>2 DEF OverlayInv
    <3> QED
      BY <3>1, <3>2
  <2>6. OverlayInv'
    BY <2>1, <2>3, <2>4, <2>5 DEF OverlayInv
  <2> QED
    BY <2>1, <2>6 DEF View, ViewOK
<1>9. CASE Simulate(c)
  <2> DEFINE i == proc[c].act
  <2>1. /\ proc[c].pc = "simulating" /\ proc'[c].pc = "simulated" /\ proc'[c].act = i
        /\ i \in Ids /\ i < next /\ kind[i] # "awaited" /\ journal[i] = "pending"
        /\ overlay' = overlay \cup {i} /\ UNCHANGED <<next, journal, kind>>
    BY <1>1, <1>2, <1>9, WorkKnown DEF Simulate, At, OnRecord, Goto, SetOverlay, ViewOK
  <2>2. Live' => Live
    BY <1>1, <2>1 DEF Live, Mine, Procs
  <2>3. ASSUME NEW j \in Ids, Live, journal'[j] \in Entryless PROVE j \notin overlay'
    BY <2>1, <2>3 DEF OverlayInv, Entryless, Decided
  <2>4. ASSUME NEW j \in Ids, Live, j \in Simulated' PROVE j \in overlay' \/ Simulating(j)'
    <3>1. j \in Simulated
      BY <2>1, <2>4 DEF Simulated
    <3>2. j = i \/ (Simulating(j) => Simulating(j)')
      BY <1>1, <2>1 DEF Simulating, Mine, Procs
    <3> QED
      BY <2>1, <2>4, <3>1, <3>2 DEF OverlayInv
  <2>5. OverlayInv'
    BY <2>1, <2>2, <2>3, <2>4 DEF OverlayInv
  <2> QED
    BY <2>1, <2>5 DEF View, ViewOK
<1> QED
  BY <1>3, <1>5, <1>6, <1>7, <1>8, <1>9 DEF CallerStep

\* A decision never leaves its decider in recoverOverlay().
LEMMA DeciderPlace ==
  ASSUME PipelineInv, NEW p \in Deciders, DeciderStep(p)
  PROVE  /\ proc[p].pc # "simulating"
         /\ proc'[p].pc \notin {"accepted", "simulating", "simulated", "replaying", "open", "calling"}
<1>1. p \in Procs /\ proc[p] \in ProcState /\ proc \in [Procs -> ProcState]
  BY DEF PipelineInv, TypeOK, Procs
<1>2. proc[p].pc # "simulating"
  BY <1>1 DEF PipelineInv, ProcOK, LockOK, DeciderLabels
<1> USE DEF ProcState
<1>3. CASE Perform(p) \/ DrainNext(p)
  <2>1. \/ Become(p, IdleProc)
        \/ Become(p, Resolve(p, Min(proc[p].todo)))
        \/ Become(p, Resolve(p, Min(Undecided(p))))
    BY <1>3 DEF Perform, DrainNext
  <2>2. IdleProc.pc = "idle" /\ \A k : Resolve(p, k).pc = "opening"
    BY <1>1 DEF Resolve, IdleProc
  <2>3. proc'[p].pc \in {"opening", "idle"}
    BY <1>1, <2>1, <2>2 DEF Become
  <2> QED
    BY <1>2, <2>3
<1>4. CASE DrainTurn(p)
  <2>1. proc'[p].pc = "draining"
    BY <1>1, <1>4 DEF DrainTurn, Become
  <2> QED
    BY <1>2, <2>1
<1>5. CASE DrainStops(p) \/ ClaimDenied(p) \/ Refused(p)
  <2>1. proc'[p].pc = "idle"
    BY <1>1, <1>5 DEF DrainStops, ClaimDenied, Refused, GiveUp, Become, IdleProc
  <2> QED
    BY <1>2, <2>1
<1>6. CASE \/ Claim(p) \/ ApplyAction(p) \/ RejectAction(p) \/ RevertAction(p) \/ Repeated(p)
  <2>1. proc'[p].pc \in {"claimed", "effect", "confirm", "undo"}
    BY <1>1, <1>6 DEF Claim, ApplyAction, RejectAction, RevertAction, Repeated, Goto
  <2> QED
    BY <1>2, <2>1
<1>7. CASE Confirm(p)
  <2>1. \E r : /\ Become(p, r)
              /\ r.pc \in {"draining", "waiting", "drainwait", "idle"}
    <3> DEFINE rest == proc[p].todo \ {proc[p].row}
               more == [IdleProc EXCEPT !.verb = proc[p].verb, !.todo = rest]
               last == [IdleProc EXCEPT !.drain = TRUE]
    <3>1. \/ Become(p, [last EXCEPT !.pc = "draining", !.todo = rest])
          \/ Become(p, [more EXCEPT !.pc = "waiting"])
          \/ Become(p, [last EXCEPT !.pc = "drainwait"])
          \/ Become(p, IdleProc)
      BY <1>7, Zenon DEF Confirm
    <3>2. /\ [last EXCEPT !.pc = "draining", !.todo = rest].pc = "draining"
          /\ [more EXCEPT !.pc = "waiting"].pc = "waiting"
          /\ [last EXCEPT !.pc = "drainwait"].pc = "drainwait"
          /\ IdleProc.pc = "idle"
      BY DEF IdleProc
    <3> HIDE DEF more, last, rest
    <3> QED
      BY <3>1, <3>2, Zenon
  <2>2. proc'[p].pc \in {"draining", "waiting", "drainwait", "idle"}
    BY <1>1, <2>1 DEF Become
  <2> QED
    BY <1>2, <2>2
<1> QED
  BY <1>3, <1>4, <1>5, <1>6, <1>7 DEF DeciderStep

\* A decision: what is applied, rejected or reverted has no entry afterwards.
LEMMA DeciderView ==
  ASSUME PipelineInv, OverlayInv, NEW p \in Deciders, DeciderStep(p)
  PROVE  View(p)
<1>1. p \in Procs /\ proc[p] \in ProcState /\ Mine(p)
  BY DeciderMine DEF PipelineInv, TypeOK, Procs
<1>2. proc[p].pc = "claimed" => proc[p].act \in Ids /\ proc[p].act < next /\ next \in Nat
  <2> SUFFICES ASSUME proc[p].pc = "claimed"
               PROVE  proc[p].act \in Ids /\ proc[p].act < next /\ next \in Nat
    OBVIOUS
  <2>1. proc[p].act \in Ids
    BY <1>1, ClaimedAct
  <2>2. proc[p].row \in RowIds /\ proc[p].act = rows[proc[p].row].action
    BY <1>1 DEF PipelineInv, ProcOK, WorkOK, OnRow, HasClaim
  <2> QED
    BY <2>1, <2>2, KitAssumption DEF PipelineInv, TypeOK, KitTypeOK, StoreInv, OrderInv, Ids
<1>3. ViewOK(p)'
  BY DeciderPlace DEF ViewOK
<1>4. CASE \/ Perform(p) \/ DrainTurn(p) \/ DrainNext(p) \/ DrainStops(p) \/ Claim(p)
           \/ ClaimDenied(p) \/ Refused(p) \/ Confirm(p)
  <2>1. UNCHANGED kitVars
    BY <1>4 DEF Perform, DrainTurn, DrainNext, DrainStops, Claim, ClaimDenied, Refused, Confirm
  <2> QED
    BY <1>1, <2>1, DeciderPlace, QuietView DEF kitVars
<1>5. ASSUME NEW s \in Status \ {"pending"}, proc[p].pc = "claimed", Writes(proc[p].act, s)
      PROVE  OverlayInv'
  BY <1>1, <1>2, <1>5, DeciderPlace, WriteView
<1>6. CASE ApplyAction(p)
  <2>1. proc[p].pc = "claimed" /\ Save(proc[p].act, "applying")
    BY <1>6 DEF ApplyAction, Turn, At
  <2>2. Writes(proc[p].act, "applying") /\ "applying" \in Status \ {"pending"}
    BY <1>2, <2>1 DEF Writes, Save, Entryless, Decided, Status, Unsettled
  <2> QED
    BY <1>3, <1>5, <2>1, <2>2 DEF View
<1>7. CASE RejectAction(p)
  <2>1. proc[p].pc = "claimed" /\ SaveAndRetire(proc[p].act, "rejected")
    BY <1>7 DEF RejectAction, Turn, At
  <2>2. Writes(proc[p].act, "rejected") /\ "rejected" \in Status \ {"pending"}
    BY <1>2, <2>1 DEF Writes, SaveAndRetire, Status, Decided
  <2> QED
    BY <1>3, <1>5, <2>1, <2>2 DEF View
<1>8. CASE RevertAction(p)
  <2>1. /\ proc[p].pc = "claimed" /\ Save(proc[p].act, "reverting")
        /\ journal[proc[p].act] = "applied"
    BY <1>8 DEF RevertAction, MayRevert, Turn, At
  <2>2. Writes(proc[p].act, "reverting") /\ "reverting" \in Status \ {"pending"}
    BY <1>2, <2>1 DEF Writes, Save, Entryless, Decided, Status, Unsettled
  <2> QED
    BY <1>3, <1>5, <2>1, <2>2 DEF View
<1>9. CASE Repeated(p)
  <2> DEFINE i == proc[p].act
  <2>1. /\ journal[i] # "pending" /\ proc[p].pc = "claimed"
        /\ overlay' \in {overlay, overlay \ {i}} /\ UNCHANGED <<next, journal, kind>>
    BY <1>1, <1>9 DEF Repeated, At, Outcome, SetOverlay, ProcState, Verbs
  <2>2. Live' => Live
    BY <1>1, DeciderPlace DEF Live, Mine, Procs
  <2>3. ASSUME NEW j \in Ids, j \in Simulated' PROVE j \in Simulated /\ (j \in overlay => j \in overlay')
    BY <2>1, <2>3 DEF Simulated
  <2>4. ASSUME NEW j, Simulating(j) PROVE Simulating(j)'
    BY <1>1, <2>1, <2>4 DEF Simulating, Mine, Procs
  <2>5. OverlayInv'
    BY <2>1, <2>2, <2>3, <2>4 DEF OverlayInv
  <2> QED
    BY <1>3, <2>5 DEF View
<1> QED
  BY <1>4, <1>6, <1>7, <1>8, <1>9 DEF DeciderStep

\* Opening a session repairs the overlay; an effect retires its entry.
LEMMA SharedView ==
  ASSUME PipelineInv, OverlayInv, NEW p \in Procs, ViewOK(p), SharedStep(p)
  PROVE  View(p)
<1>1. proc[p] \in ProcState /\ proc \in [Procs -> ProcState] /\ Mine(p)
  BY SharedMine DEF PipelineInv, TypeOK
<1>2. /\ next \in Nat
      /\ proc[p].pc \in OnRecord => proc[p].act \in Ids /\ proc[p].act < next
  BY KitAssumption DEF PipelineInv, TypeOK, KitTypeOK, ProcOK, WorkOK, Ids
<1>3. CASE OpenFails(p) \/ TakeEffect(p)
  <2>1. UNCHANGED <<next, journal, kind, overlay>> /\ proc[p].pc # "simulating"
    BY <1>3 DEF OpenFails, TakeEffect, At, kitVars, Effect, Reversal
  <2>2. proc'[p].pc \in {"idle", "effected", "undone"}
    BY <1>1, <1>3 DEF OpenFails, TakeEffect, GiveUp, Become, IdleProc, Goto, ProcState
  <2> QED
    BY <1>1, <2>1, <2>2, QuietView
<1>4. CASE Recover(p)
  <2>1. /\ proc[p].pc = "opening" /\ proc'[p].pc = "replaying" /\ Settled
        /\ overlay' = overlay \ Stale /\ UNCHANGED <<next, journal, kind>>
    BY <1>1, <1>4 DEF Recover, At, Goto, SetOverlay, ProcState
  <2>2. Live' => Live
    BY <1>1, <2>1 DEF Live, Mine, Procs
  <2>3. ASSUME NEW j \in Ids, j \in Simulated' PROVE j \in Simulated /\ (j \in overlay => j \in overlay')
    BY <2>1, <2>3 DEF Simulated, Stale
  <2>4. ASSUME NEW j, Simulating(j) PROVE Simulating(j)'
    BY <1>1, <2>1, <2>4 DEF Simulating, Mine, Procs
  <2>5. OverlayInv'
    BY <2>1, <2>2, <2>3, <2>4 DEF OverlayInv
  <2>6. Settled' /\ Stale' = {}
    BY <2>1 DEF Settled, Stale
  <2> QED
    BY <2>1, <2>5, <2>6 DEF View, ViewOK
<1>5. CASE Replay(p)
  <2> DEFINE m == Min(Missing)
  <2>1. /\ proc[p].pc = "replaying" /\ overlay' = overlay \cup {m}
        /\ UNCHANGED <<next, journal, kind, proc>> /\ Missing # {}
    BY <1>5 DEF Replay, At, SetOverlay
  <2>2. m \in Missing
    BY <2>1, MinIsMember, KitAssumption DEF Missing, Simulated, Ids
  <2>3. m \in Ids /\ journal[m] = "pending" /\ kind[m] # "awaited"
    BY <2>2 DEF Missing, Simulated
  <2> HIDE DEF m
  <2>4. m < next
    BY <1>2, <2>3, KitAssumption DEF PipelineInv, StoreInv, OrderInv, Ids
  <2>5. Live' = Live /\ (\A j : Simulating(j)' = Simulating(j)) /\ Simulated' = Simulated
    BY <2>1 DEF Live, Simulating, Simulated
  <2>6. OverlayInv'
    BY <2>1, <2>3, <2>4, <2>5 DEF OverlayInv, Entryless, Decided
  <2>7. Settled /\ Stale = {}
    BY <2>1 DEF ViewOK
  <2>8. Settled' /\ Stale' = {}
    BY <2>1, <2>3, <2>7 DEF Settled, Stale
  <2> QED
    BY <2>1, <2>6, <2>8 DEF View, ViewOK
<1>6. CASE Recovered(p)
  <2>1. /\ proc[p].pc = "replaying" /\ Missing = {}
        /\ UNCHANGED <<next, journal, kind, overlay>>
    BY <1>6 DEF Recovered, At, kitVars
  <2>2. proc'[p].pc \in {"open", "authorizing"}
    BY <1>1, <1>6 DEF Recovered, Become, Goto, ProcState
  <2>3. \A j \in Ids : /\ journal[j] \in Entryless => j \notin overlay
                       /\ j \in Simulated => j \in overlay
    BY <2>1 DEF ViewOK, Stale, Missing, Entryless, Decided
  <2>4. Simulated' = Simulated
    BY <2>1 DEF Simulated
  <2> QED
    BY <2>1, <2>2, <2>3, <2>4 DEF View, ViewOK, OverlayInv
<1>7. CASE EffectReturns(p) \/ EffectThrows(p)
  <2> DEFINE i == proc[p].act
  <2>1. proc[p].pc \in {"effect", "effected", "undo", "undone"} /\ i \in Ids /\ i < next
    BY <1>2, <1>7 DEF EffectReturns, EffectThrows, At, OnRecord
  <2>2. proc'[p].pc \in {"idle", "confirm"}
    BY <1>1, <1>7 DEF EffectReturns, EffectThrows, Become, Goto, GiveUp, IdleProc, ProcState
  <2>3. \E s \in {"applied", "reverted", "uncertain"} : Writes(i, s)
    <3>1. CASE At(p, "effected") /\ SaveAndRetire(i, "applied")
      BY <1>2, <2>1, <3>1 DEF SaveAndRetire, Writes
    <3>2. CASE At(p, "undone") /\ Save(i, "reverted")
      <4>1. journal[i] \in Entryless
        BY <3>2, WorkKnown DEF At, Entryless
      <4> QED
        BY <1>2, <2>1, <3>2, <4>1 DEF Save, Writes
    <3>3. CASE Save(i, "uncertain")
      BY <1>2, <2>1, <3>3 DEF Save, Writes, Entryless, Decided
    <3> QED
      BY <1>7, <3>1, <3>2, <3>3 DEF EffectReturns, EffectThrows
  <2>4. OverlayInv'
    BY <1>1, <2>1, <2>2, <2>3, WriteView DEF Status, Decided, Unsettled
  <2> QED
    BY <2>2, <2>4 DEF View, ViewOK
<1> QED
  BY <1>3, <1>4, <1>5, <1>6, <1>7 DEF SharedStep

-----------------------------------------------------------------------------
(***************************************************************************)
(* The inductive invariant, and what follows from it.                      *)
(***************************************************************************)

\* A step that is p's own keeps what everybody relies on.
LEMMA ViewStep ==
  ASSUME PipelineInv, \A q \in Procs : ViewOK(q), [Next]_vars,
         NEW p \in Procs, Mine(p), View(p)
  PROVE  OverlayInv' /\ \A q \in Procs : ViewOK(q)'
BY OthersView DEF View

\* Selecting rows, by an operator or the timer, opens no session.
LEMMA SelectView ==
  ASSUME PipelineInv, OverlayInv, NEW p \in Procs, NEW v, NEW ids,
         Decide(p, ids, v) \/ StartDrain(p)
  PROVE  Mine(p) /\ View(p)
<1>1. proc \in [Procs -> ProcState]
  BY DEF PipelineInv, TypeOK
<1>2. UNCHANGED kitVars /\ proc[p].pc = "idle"
  BY DEF Decide, StartDrain, At
<1>3. \/ Become(p, [IdleProc EXCEPT !.pc = "waiting", !.verb = v, !.todo = ids])
      \/ Become(p, [IdleProc EXCEPT !.pc = "drainwait", !.drain = TRUE])
  BY DEF Decide, StartDrain
<1>4. proc'[p].pc \in {"waiting", "drainwait"} /\ \A q \in Procs : q # p => proc'[q] = proc[q]
  BY <1>1, <1>3 DEF Become, IdleProc
<1>5. Mine(p)
  BY <1>2, <1>4 DEF Mine, kitVars
<1> QED
  BY <1>2, <1>4, <1>5, QuietView DEF kitVars

\* Closing sessions, and everything else around the processes, shows no session
\* more than it was shown before; a death leaves none.
LEMMA EnvironmentView ==
  ASSUME PipelineInv, OverlayInv, \A q \in Procs : ViewOK(q), [Next]_vars,
         Environment \/ UNCHANGED vars
  PROVE  OverlayInv' /\ \A q \in Procs : ViewOK(q)'
<1>1. proc \in [Procs -> ProcState]
  BY DEF PipelineInv, TypeOK
<1>2. ASSUME UNCHANGED <<kitVars, rows>>,
             \A q \in Procs : /\ proc'[q].pc = proc[q].pc
                              /\ proc'[q].act = proc[q].act
                              /\ proc[q].closed => proc'[q].closed
      PROVE  OverlayInv' /\ \A q \in Procs : ViewOK(q)'
  <2>1. /\ UNCHANGED <<next, journal, kind, overlay>>
        /\ Simulated' = Simulated /\ Settled' = Settled /\ Stale' = Stale
    BY <1>2 DEF kitVars, Simulated, Settled, Stale
  <2>2. (Live' => Live) /\ \A j : Simulating(j) => Simulating(j)'
    BY <1>2 DEF Live, Simulating, Procs
  <2>3. OverlayInv'
    BY <2>1, <2>2 DEF OverlayInv
  <2>4. ASSUME NEW q \in Procs PROVE ViewOK(q)'
    BY <1>2, <2>1 DEF ViewOK, Queued, RowIds
  <2> QED
    BY <2>3, <2>4
<1>3. CASE \/ \E S \in {{}, Callers} : LoseAuthority(S)
           \/ \E c \in Callers : SessionEnd(c)
           \/ SetMaintenance \/ Stop \/ Close \/ Restart \/ UNCHANGED vars
  <2>1. UNCHANGED <<kitVars, rows>> /\ (UNCHANGED proc \/ \E S : CloseSessions(S))
    BY <1>3 DEF LoseAuthority, SessionEnd, SetMaintenance, Stop, Close, Restart, vars, kernelVars
  <2>2. ASSUME NEW q \in Procs
        PROVE  /\ proc'[q].pc = proc[q].pc
               /\ proc'[q].act = proc[q].act
               /\ proc[q].closed => proc'[q].closed
    BY <1>1, <2>1 DEF CloseSessions, ProcState
  <2> QED
    BY <1>2, <2>1, <2>2
<1>4. CASE Death
  <2>1. Die /\ UNCHANGED overlay
    BY <1>4 DEF Death, Crash, TornSubmit, TornPend, TornOutcome, kitVars, Reserve, Record, Save
  <2>2. \A q \in Procs : proc'[q].pc = "idle"
    BY <2>1 DEF Die, IdleProc
  <2>3. ~Live' /\ \A q \in Procs : ViewOK(q)'
    BY <2>2 DEF Live, ViewOK, Procs
  <2>4. next \in Nat /\ next' \in {next, next + 1}
    <3>1. next' = next \/ next' = next + 1
      BY <1>4 DEF Death, Crash, TornSubmit, TornPend, TornOutcome, kitVars, Reserve, Record, Save
    <3> QED
      BY <3>1, KitAssumption DEF PipelineInv, TypeOK, KitTypeOK
  <2>5. ASSUME NEW j \in overlay PROVE j < next' /\ kind'[j] # "awaited"
    <3>1. j \in Ids /\ j \in Nat /\ j < next /\ kind[j] # "awaited"
      BY KitAssumption DEF OverlayInv, PipelineInv, TypeOK, KitTypeOK, Ids
    <3> QED
      BY <2>4, <3>1, KindSticks
  <2> QED
    BY <2>1, <2>3, <2>5 DEF OverlayInv
<1> QED
  BY <1>3, <1>4 DEF Environment

\* Every step keeps the overlay, and each process's view, in order.
LEMMA OverlayStep ==
  ASSUME PipelineInv, OverlayInv, \A q \in Procs : ViewOK(q), [Next]_vars
  PROVE  OverlayInv' /\ \A q \in Procs : ViewOK(q)'
<1>1. CASE \E c \in Callers : CallerStep(c)
  BY <1>1, CallerMine, CallerView, ViewStep DEF Procs
<1>2. CASE \E p \in Deciders : DeciderStep(p)
  BY <1>2, DeciderMine, DeciderView, ViewStep DEF Procs
<1>3. CASE \E p \in Procs : SharedStep(p)
  BY <1>3, SharedMine, SharedView, ViewStep
<1>4. CASE \/ \E p \in Operators, v \in Verbs :
                \E ids \in (SUBSET RowIds) \ {{}} : Decide(p, ids, v)
           \/ \E p \in Drainers : StartDrain(p)
  BY <1>4, SelectView, ViewStep DEF Procs, Deciders
<1> QED
  BY <1>1, <1>2, <1>3, <1>4, EnvironmentView DEF Next

\* The whole invariant is inductive: it holds in every reachable state.
THEOREM FullInvariance == Spec => []IndInv
<1>1. Init => QueueInv /\ IntentInv /\ OverlayInv /\ \A p \in Procs : ViewOK(p)
  <2> SUFFICES ASSUME Init
               PROVE  QueueInv /\ IntentInv /\ OverlayInv /\ \A p \in Procs : ViewOK(p)
    OBVIOUS
  <2>1. (\A p \in Procs : proc[p].pc = "idle") /\ overlay = {} /\ rows = <<>>
    BY DEF Init, KitInit, IdleProc
  <2>2. QueueInv
    BY DEF Init, KitInit, QueueInv, Decided
  <2>3. IntentInv
    BY <2>1 DEF IntentInv, RowIds
  <2>4. OverlayInv /\ \A p \in Procs : ViewOK(p)
    BY <2>1 DEF OverlayInv, Live, ViewOK, Procs
  <2> QED
    BY <2>2, <2>3, <2>4
<1> DEFINE Rest == QueueInv /\ IntentInv /\ OverlayInv /\ \A p \in Procs : ViewOK(p)
<1>2. Init => Rest
  BY <1>1
<1>3. PipelineInv /\ Rest /\ [Next]_vars => Rest'
  BY QueueStep, IntentStep, OverlayStep
<1>4. PipelineInv /\ Rest => IndInv
  BY DEF IndInv
<1> HIDE DEF Rest
<1> QED
  BY <1>2, <1>3, <1>4, Invariance, PTL DEF Spec

\* perform() persists its intent before the resource is touched, and nothing
\* takes it back: an action the resource has taken is never offered again.
THEOREM IntentFirstHolds == Spec => []IntentFirst
<1>1. IndInv => IntentFirst
  BY DEF IndInv, IntentInv, IntentFirst
<1> QED
  BY <1>1, FullInvariance, PTL

\* No crash leaves a pending action, whose effect agents already see, outside
\* the operators' queue (addAction() and bindAction() precede save("pending")).
THEOREM PendingIsQueuedHolds == Spec => []PendingIsQueued
<1>1. IndInv => PendingIsQueued
  BY DEF IndInv, QueueInv, Queued, PendingIsQueued
<1> QED
  BY <1>1, FullInvariance, PTL

\* With nothing under way in the driver's queue, a live session's overlay holds
\* exactly the undecided deferred actions, also after torn writes: what
\* recoverOverlay() repairs stays repaired.
THEOREM ReadYourWritesHolds == Spec => []ReadYourWrites
<1>1. IndInv => ReadYourWrites
  <2> SUFFICES ASSUME IndInv, KitFree, Settled, Live PROVE overlay = Simulated
    BY DEF ReadYourWrites, Live
  <2>1. ASSUME NEW j PROVE ~Simulating(j)
    <3>1. ASSUME NEW c \in Callers PROVE proc[c].pc # "simulating"
      BY PipelineAssumption
         DEF IndInv, PipelineInv, ProcOK, LockOK, KitFree, InKit, OnRecord, Procs
    <3> QED
      BY <3>1 DEF Simulating
  <2>2. overlay \subseteq Ids /\ journal \in [Ids -> Status]
    BY DEF IndInv, PipelineInv, TypeOK, KitTypeOK
  <2>3. ASSUME NEW j \in overlay PROVE j \in Simulated
    <3>1. journal[j] \notin Entryless /\ journal[j] \notin Unsettled /\ kind[j] # "awaited"
      BY <2>2 DEF IndInv, OverlayInv, Settled
    <3>2. journal[j] = "pending"
      BY <2>2, <3>1 DEF Entryless, Unsettled, Status
    <3> QED
      BY <2>2, <3>1, <3>2 DEF Simulated
  <2>4. ASSUME NEW j \in Simulated PROVE j \in overlay
    BY <2>1 DEF IndInv, OverlayInv, Simulated
  <2> QED
    BY <2>3, <2>4
<1> QED
  BY <1>1, FullInvariance, PTL

=============================================================================
