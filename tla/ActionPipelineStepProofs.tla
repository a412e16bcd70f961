---------------------- MODULE ActionPipelineStepProofs ----------------------
(***************************************************************************)
(* Machine-checked proofs of what a step of ActionPipeline may do: in      *)
(* which order the resource takes effects, that an unknown outcome is      *)
(* never turned back into one that could be applied, and that every step   *)
(* is one of the EffectLedger, or none.                                    *)
(*                                                                         *)
(* All of it follows from the life of a journal record (JournalLife): with *)
(* PipelineInv, each step leaves the journal and the resource alone, takes *)
(* one record along one Lawful edge, or is an effect.                      *)
(***************************************************************************)
EXTENDS ActionPipelineProofs

\* The edges of a record's life.
Lawful ==
  {<<"none", "submitting">>, <<"none", "uncertain">>,
   <<"submitting", "pending">>, <<"submitting", "applying">>, <<"submitting", "uncertain">>,
   <<"pending", "applying">>, <<"pending", "rejected">>, <<"pending", "uncertain">>,
   <<"applying", "applied">>, <<"applying", "uncertain">>,
   <<"applied", "reverting">>,
   <<"reverting", "reverted">>, <<"reverting", "uncertain">>}

\* A submission's caller goes on with its record; a claim begins the effect or
\* the reversal; and only a fresh record comes with a kernel row.
Mover(i, s) ==
  /\ journal[i] = "submitting" /\ s # "uncertain" =>
       \E c \in Callers :
         /\ proc[c].pc = "accepted" /\ proc[c].act = i
         /\ s = "applying" => kind[i] = "awaited"
  /\ (journal[i] = "pending" /\ s = "applying") \/ s = "reverting" =>
       \E p \in Deciders : proc[p].pc = "claimed" /\ proc[p].act = i
  /\ journal[i] # "none" => UNCHANGED <<kind, rows>>

Move(i, s) ==
  /\ <<journal[i], s>> \in Lawful
  /\ Mover(i, s)
  /\ s = "applied" => applies[i] = 1
  /\ s = "reverted" => reverts[i] = 1
  /\ journal' = [journal EXCEPT ![i] = s]
  /\ UNCHANGED <<applies, reverts>>

Quiet == UNCHANGED <<journal, applies, reverts>>

Life == Quiet \/ (\E i \in Ids, s \in Status : Move(i, s)) \/ (\E p \in Procs : TakeEffect(p))

-----------------------------------------------------------------------------
(***************************************************************************)
(* The life of a journal record.                                           *)
(***************************************************************************)

\* A justified save takes a record along one edge.
LEMMA SaveLives ==
  ASSUME NEW i \in Ids, NEW s \in Status, Save(i, s) \/ SaveAndRetire(i, s),
         <<journal[i], s>> \in Lawful, Mover(i, s),
         s = "applied" => applies[i] = 1, s = "reverted" => reverts[i] = 1
  PROVE  Life
BY DEF Life, Move, Save, SaveAndRetire

\* A fresh record starts as submitting, or uncertain where the queue refused.
LEMMA RecordLives ==
  ASSUME PipelineInv, next <= MaxActions, NEW k, NEW s \in {"submitting", "uncertain"},
         Record(k, s)
  PROVE  Life
<1>1. next \in Ids /\ journal[next] = "none"
  BY KitAssumption DEF PipelineInv, TypeOK, KitTypeOK, StoreInv, OrderInv, Ids
<1>2. <<journal[next], s>> \in Lawful /\ s \in Status /\ Mover(next, s)
  BY <1>1 DEF Lawful, Status, Unsettled, Mover
<1> QED
  BY <1>1, <1>2 DEF Record, Life, Move

\* A process at work on a record knows its status and what the resource took.
LEMMA WorkKnown ==
  ASSUME PipelineInv, NEW p \in Procs
  PROVE  /\ proc[p].pc = "accepted" =>
              proc[p].act \in Ids /\ journal[proc[p].act] = "submitting"
         /\ proc[p].pc \in {"simulating", "simulated"} =>
              proc[p].act \in Ids /\ journal[proc[p].act] = "pending"
         /\ proc[p].pc \in {"effect", "effected"} =>
              proc[p].act \in Ids /\ journal[proc[p].act] = "applying"
         /\ proc[p].pc = "effected" => applies[proc[p].act] = 1
         /\ proc[p].pc \in {"undo", "undone"} =>
              proc[p].act \in Ids /\ journal[proc[p].act] = "reverting"
         /\ proc[p].pc = "undone" => reverts[proc[p].act] = 1
BY DEF PipelineInv, ProcOK, WorkOK, JournalOK, OnRecord

\* A tool call takes its record along the edges of a submission.
LEMMA CallerLives ==
  ASSUME PipelineInv, NEW c \in Callers, CallerStep(c)
  PROVE  Life
<1> USE DEF Lawful, Status, Decided, Unsettled
<1>1. c \in Procs
  BY DEF Procs
<1>2. CASE OpenSession(c) \/ Exec(c) \/ CallDenied(c) \/ Simulate(c) \/ Return(c)
  BY <1>2 DEF OpenSession, Exec, CallDenied, Simulate, Return, SetOverlay, kitVars, Life, Quiet
<1>3. CASE \E k \in Kinds : Submit(c, k) \/ SubmitRefused(c, k)
  BY <1>3, RecordLives DEF Submit, SubmitRefused, MaySubmit
<1>4. CASE Pend(c)
  <2>1. proc[c].act \in Ids /\ journal[proc[c].act] = "submitting"
    BY <1>1, <1>4, WorkKnown DEF Pend, At
  <2>2. Mover(proc[c].act, "pending")
    BY <1>4, <2>1 DEF Pend, At, Mover, Save, kernelVars
  <2> QED
    BY <1>4, <2>1, <2>2, SaveLives DEF Pend
<1>5. CASE PendAndApply(c)
  <2>1. proc[c].act \in Ids /\ journal[proc[c].act] = "submitting"
    BY <1>1, <1>5, WorkKnown DEF PendAndApply, At
  <2>2. Mover(proc[c].act, "applying")
    BY <1>5, <2>1 DEF PendAndApply, At, Mover, Save, kernelVars
  <2> QED
    BY <1>5, <2>1, <2>2, SaveLives DEF PendAndApply
<1>6. CASE PendFails(c) \/ SimulateFails(c)
  <2>1. proc[c].act \in Ids /\ journal[proc[c].act] \in {"submitting", "pending"}
    BY <1>1, <1>6, WorkKnown DEF PendFails, SimulateFails, At
  <2>2. Mover(proc[c].act, "uncertain") /\ SaveAndRetire(proc[c].act, "uncertain")
    BY <1>6 DEF PendFails, SimulateFails, Mover, SaveAndRetire, kernelVars
  <2> QED
    BY <2>1, <2>2, SaveLives
<1> QED
  BY <1>2, <1>3, <1>4, <1>5, <1>6 DEF CallerStep

\* What a decider has claimed is an action of the driver's.
LEMMA ClaimedAct ==
  ASSUME PipelineInv, NEW p \in Procs, proc[p].pc = "claimed"
  PROVE  p \in Deciders /\ proc[p].act \in Ids
<1>1. p \in Deciders
  BY DEF PipelineInv, ProcOK, LockOK, CallerLabels, Procs
<1> QED
  BY <1>1, RowFacts DEF PipelineInv, TypeOK, ProcOK, WorkOK, OnRow, HasClaim

\* A decision takes its record along one edge, if the driver does not refuse.
LEMMA DeciderLives ==
  ASSUME PipelineInv, NEW p \in Deciders, DeciderStep(p)
  PROVE  Life
<1> USE DEF Lawful, Status, Decided, Unsettled
<1>1. CASE \/ Perform(p) \/ DrainTurn(p) \/ DrainNext(p) \/ DrainStops(p) \/ Claim(p)
           \/ ClaimDenied(p) \/ Repeated(p) \/ Refused(p) \/ Confirm(p)
  BY <1>1 DEF Perform, DrainTurn, DrainNext, DrainStops, Claim, ClaimDenied, Repeated,
     Refused, Confirm, SetOverlay, kitVars, Life, Quiet
<1>2. proc[p].pc = "claimed" => proc[p].act \in Ids
  BY ClaimedAct DEF Procs
<1>3. CASE ApplyAction(p)
  <2>1. Mover(proc[p].act, "applying") /\ journal[proc[p].act] = "pending"
    BY <1>3 DEF ApplyAction, Turn, At, MayApply, Mover, Save, kernelVars
  <2> QED
    BY <1>2, <1>3, <2>1, SaveLives DEF ApplyAction, Turn, At
<1>4. CASE RejectAction(p)
  <2>1. Mover(proc[p].act, "rejected") /\ journal[proc[p].act] = "pending"
    BY <1>4 DEF RejectAction, Mover, SaveAndRetire, kernelVars
  <2> QED
    BY <1>2, <1>4, <2>1, SaveLives DEF RejectAction, Turn, At
<1>5. CASE RevertAction(p)
  <2>1. Mover(proc[p].act, "reverting") /\ journal[proc[p].act] = "applied"
    BY <1>5 DEF RevertAction, Turn, At, MayRevert, Mover, Save, kernelVars
  <2> QED
    BY <1>2, <1>5, <2>1, SaveLives DEF RevertAction, Turn, At
<1> QED
  BY <1>1, <1>3, <1>4, <1>5 DEF DeciderStep

\* A driver that returns or throws closes its record, or leaves it uncertain.
LEMMA SharedLives ==
  ASSUME PipelineInv, NEW p \in Procs, SharedStep(p)
  PROVE  Life
<1> USE DEF Lawful, Status, Decided, Unsettled
<1>1. CASE Recover(p) \/ Replay(p) \/ Recovered(p) \/ OpenFails(p)
  BY <1>1 DEF Recover, Replay, Recovered, OpenFails, SetOverlay, kitVars, Life, Quiet
<1>2. CASE TakeEffect(p)
  BY <1>2 DEF Life
<1>3. CASE EffectReturns(p)
  <2>1. CASE At(p, "effected") /\ SaveAndRetire(proc[p].act, "applied")
    <3>1. /\ proc[p].act \in Ids /\ journal[proc[p].act] = "applying"
          /\ applies[proc[p].act] = 1
      BY <2>1, WorkKnown DEF At
    <3>2. Mover(proc[p].act, "applied")
      BY <1>3, <3>1, <2>1 DEF EffectReturns, Mover, SaveAndRetire, kernelVars
    <3> QED
      BY <2>1, <3>1, <3>2, SaveLives
  <2>2. CASE At(p, "undone") /\ Save(proc[p].act, "reverted")
    <3>1. /\ proc[p].act \in Ids /\ journal[proc[p].act] = "reverting"
          /\ reverts[proc[p].act] = 1
      BY <2>2, WorkKnown DEF At
    <3>2. Mover(proc[p].act, "reverted")
      BY <1>3, <3>1, <2>2 DEF EffectReturns, Mover, Save, kernelVars
    <3> QED
      BY <2>2, <3>1, <3>2, SaveLives
  <2> QED
    BY <1>3, <2>1, <2>2 DEF EffectReturns
<1>4. CASE EffectThrows(p)
  <2>1. proc[p].act \in Ids /\ journal[proc[p].act] \in {"applying", "reverting"}
    BY <1>4, WorkKnown DEF EffectThrows, At
  <2>2. Mover(proc[p].act, "uncertain")
    BY <1>4 DEF EffectThrows, Mover, Save, kernelVars
  <2> QED
    BY <1>4, <2>1, <2>2, SaveLives DEF EffectThrows
<1> QED
  BY <1>1, <1>2, <1>3, <1>4 DEF SharedStep

\* A death in the middle of a stretch leaves a record on one of its edges.
LEMMA EnvironmentLives ==
  ASSUME PipelineInv, Environment
  PROVE  Life
<1> USE DEF Lawful, Status, Decided, Unsettled
<1>1. CASE \/ \E S \in {{}, Callers} : LoseAuthority(S)
           \/ \E c \in Callers : SessionEnd(c)
           \/ SetMaintenance \/ Stop \/ Close \/ Restart \/ Crash
  BY <1>1 DEF LoseAuthority, SessionEnd, SetMaintenance, Stop, Close, Restart, Crash,
     kitVars, Life, Quiet
<1>2. ASSUME NEW c \in Callers, NEW k \in Kinds, TornSubmit(c, k) PROVE Life
  BY <1>2, RecordLives DEF TornSubmit, MaySubmit, Reserve, Life, Quiet
<1>3. ASSUME NEW c \in Callers, TornPend(c) PROVE Life
  <2>1. proc[c].act \in Ids /\ journal[proc[c].act] = "submitting"
    BY <1>3, WorkKnown DEF TornPend, At, Procs
  <2>2. Mover(proc[c].act, "pending")
    BY <1>3, <2>1 DEF TornPend, At, Mover, Save
  <2> QED
    BY <1>3, <2>1, <2>2, SaveLives DEF TornPend
<1>4. ASSUME NEW p \in Procs, TornOutcome(p) PROVE Life
  <2>1. CASE At(p, "effected") /\ Save(proc[p].act, "applied")
    <3>1. /\ proc[p].act \in Ids /\ journal[proc[p].act] = "applying"
          /\ applies[proc[p].act] = 1
      BY <2>1, WorkKnown DEF At
    <3>2. Mover(proc[p].act, "applied")
      BY <1>4, <2>1, <3>1 DEF TornOutcome, Mover, Save
    <3> QED
      BY <2>1, <3>1, <3>2, SaveLives
  <2>2. CASE /\ Turn(p, "reject") /\ journal[proc[p].act] = "pending"
             /\ Save(proc[p].act, "rejected")
    <3>1. proc[p].act \in Ids
      BY <2>2, ClaimedAct DEF Turn, At
    <3>2. Mover(proc[p].act, "rejected")
      BY <1>4, <2>2 DEF TornOutcome, Mover, Save
    <3> QED
      BY <2>2, <3>1, <3>2, SaveLives
  <2> QED
    BY <1>4, <2>1, <2>2 DEF TornOutcome
<1> QED
  BY <1>1, <1>2, <1>3, <1>4 DEF Environment, Death

\* Every step of the pipeline is quiet, one edge of one record, or an effect.
LEMMA JournalLife ==
  ASSUME PipelineInv, [Next]_vars
  PROVE  Life
<1>1. CASE \E p \in Operators, v \in Verbs :
             \E ids \in (SUBSET RowIds) \ {{}} : Decide(p, ids, v)
  BY <1>1 DEF Decide, kitVars, Life, Quiet
<1>2. CASE \E p \in Drainers : StartDrain(p)
  BY <1>2 DEF StartDrain, kitVars, Life, Quiet
<1>3. CASE UNCHANGED vars
  BY <1>3 DEF vars, kitVars, Life, Quiet
<1> QED
  BY <1>1, <1>2, <1>3, CallerLives, DeciderLives, SharedLives, EnvironmentLives DEF Next

\* What the resource takes, and when: the effect of the action in hand.
LEMMA EffectKnown ==
  ASSUME PipelineInv, NEW p \in Procs, TakeEffect(p)
  PROVE  \E i \in Ids :
           \/ /\ applies[i] = 0 /\ journal[i] = "applying" /\ EarlierDecided(i)
              /\ applies' = [applies EXCEPT ![i] = 1]
              /\ UNCHANGED <<journal, reverts>>
           \/ /\ applies[i] = 1 /\ reverts[i] = 0 /\ journal[i] = "reverting"
              /\ reverts' = [reverts EXCEPT ![i] = 1]
              /\ UNCHANGED <<journal, applies>>
<1>1. CASE At(p, "effect") /\ Effect(proc[p].act)
  <2>1. applies[proc[p].act] = 0 /\ EarlierDecided(proc[p].act)
    BY <1>1 DEF At, PipelineInv, ProcOK, JournalOK
  <2>2. proc[p].act \in Ids /\ journal[proc[p].act] = "applying"
    BY <1>1, WorkKnown DEF At
  <2>3. /\ applies' = [applies EXCEPT ![proc[p].act] = 1]
        /\ UNCHANGED <<journal, reverts>>
    BY <1>1, <2>1 DEF Effect
  <2> QED
    BY <2>1, <2>2, <2>3
<1>2. CASE At(p, "undo") /\ Reversal(proc[p].act)
  <2>1. reverts[proc[p].act] = 0
    BY <1>2 DEF At, PipelineInv, ProcOK, JournalOK
  <2>2. proc[p].act \in Ids /\ journal[proc[p].act] = "reverting"
    BY <1>2, WorkKnown DEF At
  <2>3. applies[proc[p].act] = 1
    BY <2>2 DEF PipelineInv, StoreInv, HistoryInv
  <2>4. /\ reverts' = [reverts EXCEPT ![proc[p].act] = 1]
        /\ UNCHANGED <<journal, applies>>
    BY <1>2, <2>1 DEF Reversal
  <2> QED
    BY <2>1, <2>2, <2>3, <2>4
<1> QED
  BY <1>1, <1>2 DEF TakeEffect

-----------------------------------------------------------------------------
(***************************************************************************)
(* InOrder and NoRetry.                                                    *)
(***************************************************************************)

\* When the resource takes an effect, every earlier action has been decided,
\* whether a call, an operator or the drainer acts (applyRecorded()).
THEOREM InOrderHolds == Spec => InOrder
<1> DEFINE Ordered == \A i, j \in Ids :
      j < i /\ applies'[i] > applies[i] => journal[j] \in Decided \cup {"none"}
<1>1. PipelineInv /\ [Next]_vars => Ordered
  <2> SUFFICES ASSUME PipelineInv, [Next]_vars, NEW i \in Ids, NEW j \in Ids,
                      j < i, applies'[i] > applies[i]
               PROVE  journal[j] \in Decided \cup {"none"}
    OBVIOUS
  <2>1. applies \in [Ids -> Nat]
    BY DEF PipelineInv, TypeOK, KitTypeOK
  <2>2. applies' # applies
    BY <2>1
  <2>3. PICK p \in Procs : TakeEffect(p)
    BY <2>2, JournalLife DEF Life, Quiet, Move
  <2>4. PICK a \in Ids : EarlierDecided(a) /\ applies' = [applies EXCEPT ![a] = 1]
    BY <2>2, <2>3, EffectKnown
  <2>5. a = i
    BY <2>1, <2>4
  <2> QED
    BY <2>4, <2>5 DEF EarlierDecided
<1> HIDE DEF Ordered
<1>2. Spec => [][Ordered]_vars
  BY <1>1, Invariance, PTL DEF Spec
<1> QED
  BY <1>2 DEF Ordered, InOrder

\* A claim turns a row into an intent; a decision then into the journal's outcome.
RowMove(k, s) ==
  /\ SetStatus(k, s)
  /\ \/ rows[k].status \in {"pending", "applied"} /\ s = "failed"
     \/ rows[k].status = "failed" /\ s \in Decided /\ s = journal[rows[k].action]

RowLife ==
  \/ UNCHANGED rows
  \/ \E kd \in Kinds, b \in BOOLEAN :
       next <= MaxActions /\ Record(kd, "submitting") /\ AddAction(next, b)
  \/ \E k \in RowIds, s \in RowStatus : RowMove(k, s)

\* A claim and a decision are moves of the decider's row.
LEMMA DecisionMovesRow ==
  ASSUME PipelineInv, NEW p \in Deciders, Claim(p) \/ Confirm(p)
  PROVE  RowLife
<1>1. p \in Procs /\ proc[p].verb \in Verbs
  BY DEF Procs, PipelineInv, TypeOK, ProcState
<1>2. proc[p].row \in RowIds
  BY <1>1 DEF Claim, Confirm, At, PipelineInv, ProcOK, WorkOK, OnRow, HasClaim
<1>3. CASE Claim(p)
  <2>1. RowMove(proc[p].row, "failed") /\ "failed" \in RowStatus
    BY <1>1, <1>3 DEF Claim, ClaimAction, RowMove, Expected, Verbs, RowStatus
  <2> QED
    BY <1>2, <2>1 DEF RowLife
<1>4. CASE Confirm(p)
  <2>1. /\ rows[proc[p].row].status = "failed"
        /\ rows[proc[p].row].action = proc[p].act
        /\ journal[proc[p].act] = Outcome(proc[p].verb)
    BY <1>1, <1>4 DEF Confirm, At, PipelineInv, ProcOK, WorkOK, ClaimOK, OnRow, HasClaim
  <2>2. Outcome(proc[p].verb) \in RowStatus /\ Outcome(proc[p].verb) \in Decided
    BY <1>1 DEF Verbs, Outcome, RowStatus, Decided
  <2>3. RowMove(proc[p].row, Outcome(proc[p].verb))
    BY <1>4, <2>1, <2>2 DEF Confirm, DecideAction, RowMove
  <2> QED
    BY <1>2, <2>2, <2>3 DEF RowLife
<1> QED
  BY <1>3, <1>4

\* A kernel row is added with the record of a submission, and moves by claims
\* and decisions only.
LEMMA RowsLive ==
  ASSUME PipelineInv, [Next]_vars
  PROVE  RowLife
<1>1. ASSUME NEW c \in Callers, NEW kd \in Kinds, Submit(c, kd) \/ TornSubmit(c, kd)
      PROVE  RowLife
  BY <1>1 DEF Submit, TornSubmit, MaySubmit, RowLife
<1>2. ASSUME NEW c \in Callers, CallerStep(c), ~\E kd \in Kinds : Submit(c, kd)
      PROVE  UNCHANGED rows
  BY <1>2 DEF CallerStep, OpenSession, Exec, CallDenied, SubmitRefused, Pend, PendAndApply,
     PendFails, Simulate, Return, SimulateFails, kernelVars
<1>3. ASSUME NEW p \in Deciders, DeciderStep(p), ~Claim(p), ~Confirm(p)
      PROVE  UNCHANGED rows
  BY <1>3 DEF DeciderStep, Perform, DrainTurn, DrainNext, DrainStops, ClaimDenied,
     ApplyAction, RejectAction, RevertAction, Repeated, Refused, kernelVars
<1>4. ASSUME NEW p \in Procs, SharedStep(p)
      PROVE  UNCHANGED rows
  BY <1>4 DEF SharedStep, Recover, Replay, Recovered, OpenFails, TakeEffect, EffectReturns,
     EffectThrows, kernelVars
<1>5. ASSUME Environment, ~\E c \in Callers, kd \in Kinds : TornSubmit(c, kd)
      PROVE  UNCHANGED rows
  BY <1>5 DEF Environment, LoseAuthority, SessionEnd, SetMaintenance, Stop, Close, Restart,
     Death, Crash, TornPend, TornOutcome, kernelVars
<1>6. ASSUME NEW p \in Procs, NEW v, NEW ids, Decide(p, ids, v) \/ StartDrain(p)
      PROVE  UNCHANGED rows
  BY <1>6 DEF Decide, StartDrain, kernelVars
<1>7. CASE UNCHANGED vars
  BY <1>7 DEF vars, kernelVars, RowLife
<1> QED
  BY <1>1, <1>2, <1>3, <1>4, <1>5, <1>6, <1>7, DecisionMovesRow DEF RowLife, Next, Procs, Deciders

\* What that means for each row: it stays the row of its action and keeps its
\* binding; its status is never pending again; and a new row is the next action's.
LEMMA RowLifeFacts ==
  ASSUME PipelineInv, RowLife
  PROVE  /\ RowsGrow
         /\ \A k \in RowIds :
              /\ rows'[k].bound = rows[k].bound
              /\ \/ rows'[k].status = rows[k].status
                 \/ rows[k].status \in {"pending", "applied"} /\ rows'[k].status = "failed"
                 \/ /\ rows[k].status = "failed" /\ rows'[k].status \in Decided
                    /\ rows'[k].status = journal[rows[k].action]
         /\ \A k \in RowIds' : k \notin RowIds =>
              rows'[k].action = next /\ rows'[k].status = "pending" /\ next \in Ids
<1>1. CASE UNCHANGED rows
  BY <1>1 DEF RowsGrow, RowIds
<1>2. ASSUME NEW kd \in Kinds, NEW b \in BOOLEAN, next <= MaxActions,
             Record(kd, "submitting"), AddAction(next, b)
      PROVE  /\ RowsGrow
             /\ \A k \in RowIds : rows'[k] = rows[k]
             /\ \A k \in RowIds' : k \notin RowIds =>
                  rows'[k].action = next /\ rows'[k].status = "pending" /\ next \in Ids
  <2>1. next \in Ids
    BY <1>2, KitAssumption DEF PipelineInv, TypeOK, KitTypeOK, Ids
  <2>2. \A k \in RowIds : rows[k].action # next
    <3>1. next \in Nat /\ \A k \in RowIds : rows[k].action < next /\ rows[k].action \in Nat
      BY RowFacts, <2>1, KitAssumption DEF PipelineInv, TypeOK, StoreInv, OrderInv, Ids
    <3> QED
      BY <3>1
  <2>3. /\ Len(rows) \in Nat
        /\ Len(rows') = Len(rows) + 1
        /\ \A k \in RowIds : rows'[k] = rows[k]
        /\ rows'[Len(rows) + 1].action = next
        /\ rows'[Len(rows) + 1].status = "pending"
    BY <1>2, <2>1, <2>2, AddActionFacts DEF PipelineInv, TypeOK
  <2>4. /\ RowIds \subseteq RowIds'
        /\ \A k \in RowIds' : k \notin RowIds => k = Len(rows) + 1
    BY <2>3 DEF RowIds
  <2> QED
    BY <2>1, <2>3, <2>4 DEF RowsGrow
<1>3. ASSUME NEW j \in RowIds, NEW s \in RowStatus, RowMove(j, s)
      PROVE  /\ RowIds' = RowIds
             /\ \A k \in RowIds :
                  /\ rows'[k].action = rows[k].action
                  /\ rows'[k].bound = rows[k].bound
                  /\ rows'[k].status = IF k = j THEN s ELSE rows[k].status
  BY <1>3, SetStatusFacts DEF RowMove, PipelineInv, TypeOK
<1>4. CASE \E j \in RowIds, s \in RowStatus : RowMove(j, s)
  BY <1>3, <1>4 DEF RowMove, RowsGrow
<1> QED
  BY <1>1, <1>2, <1>4 DEF RowLife

\* Once the driver or the kernel cannot tell what became of an action, nothing
\* makes it one that could be applied again: there is no blind retry.
THEOREM NoRetryHolds == Spec => NoRetry
<1> DEFINE Kept ==
      /\ \A i \in Ids : journal[i] = "uncertain" => journal'[i] = "uncertain"
      /\ \A k \in RowIds : rows[k].status = "failed" => rows'[k].status # "pending"
<1>1. PipelineInv /\ [Next]_vars => Kept
  <2> SUFFICES ASSUME PipelineInv, [Next]_vars, NEW i \in Ids, journal[i] = "uncertain"
               PROVE  journal'[i] = "uncertain"
    BY RowsLive, RowLifeFacts, Zenon DEF Decided
  <2>1. CASE Quiet \/ \E p \in Procs : TakeEffect(p)
    BY <2>1, EffectKnown DEF Quiet
  <2>2. ASSUME NEW a \in Ids, NEW s \in Status, Move(a, s) PROVE journal'[i] = journal[i]
    BY <2>2 DEF Move, Lawful, PipelineInv, TypeOK, KitTypeOK
  <2> QED
    BY <2>1, <2>2, JournalLife DEF Life
<1> HIDE DEF Kept
<1>2. Spec => [][Kept]_vars
  BY <1>1, Invariance, PTL DEF Spec
<1> QED
  BY <1>2 DEF Kept, NoRetry

-----------------------------------------------------------------------------
(***************************************************************************)
(* The pipeline implements the ledger.                                     *)
(***************************************************************************)
fateOf == [i \in Ids |-> Fate(journal[i])]

\* Every edge of a record is a step of the ledger, or an open fate stays open.
LEMMA MoveMaps ==
  ASSUME PipelineInv, NEW i \in Ids, NEW s \in Status, Move(i, s)
  PROVE  [Ledger!Next]_(Ledger!ledger)
<1>1. /\ fateOf' = [fateOf EXCEPT ![i] = Fate(s)]
      /\ fateOf[i] = Fate(journal[i])
      /\ i \in Ledger!Ids
      /\ UNCHANGED <<applies, reverts>>
  <2>1. journal \in [Ids -> Status] /\ journal' = [journal EXCEPT ![i] = s]
    BY DEF Move, PipelineInv, TypeOK, KitTypeOK
  <2>2. \A j \in Ids : Fate(journal[j])' = IF j = i THEN Fate(s) ELSE Fate(journal[j])
    BY <2>1 DEF Fate
  <2> QED
    BY <2>2 DEF fateOf, Move, Ledger!Ids, Ids
<1>2. Ledger!Becomes(i, Fate(s))
  BY <1>1 DEF Ledger!Becomes, fateOf
<1>3. /\ journal[i] \in {"none", "submitting", "pending"} => applies[i] = 0
      /\ journal[i] = "applied" => reverts[i] = 0
      /\ s = "applied" => applies[i] = 1 /\ reverts[i] = 0
      /\ s = "reverted" => reverts[i] = 1
  BY DEF PipelineInv, StoreInv, HistoryInv, Move, Lawful
<1>4. CASE Fate(s) = Fate(journal[i])
  <2>1. fateOf' = fateOf
    BY <1>1, <1>4 DEF fateOf
  <2> QED
    BY <1>1, <2>1 DEF Ledger!ledger, fateOf
<1>5. CASE Fate(s) # Fate(journal[i])
  <2>1. \/ Fate(journal[i]) = "unseen" /\ Fate(s) = "open"
        \/ Fate(journal[i]) = "open" /\ Fate(s) = "waiting" /\ applies[i] = 0
        \/ Fate(journal[i]) = "waiting" /\ Fate(s) = "open"
        \/ Fate(journal[i]) = "applied" /\ Fate(s) = "open" /\ reverts[i] = 0
        \/ Fate(journal[i]) = "open" /\ Fate(s) = "applied" /\ applies[i] = 1 /\ reverts[i] = 0
        \/ Fate(journal[i]) = "open" /\ Fate(s) = "reverted" /\ reverts[i] = 1
        \/ Fate(journal[i]) = "waiting" /\ Fate(s) = "rejected" /\ applies[i] = 0
    BY <1>3, <1>5 DEF Move, Lawful, Fate, Unsettled
  <2>2. \/ Ledger!Announce(i) \/ Ledger!Queue(i) \/ Ledger!Begin(i) \/ Ledger!Close(i)
    BY <1>1, <1>2, <2>1
       DEF Ledger!Announce, Ledger!Queue, Ledger!Begin, Ledger!Close, fateOf
  <2> QED
    BY <1>1, <2>2 DEF Ledger!Next
<1> QED
  BY <1>4, <1>5

\* Every effect on the resource is a step of the ledger.
LEMMA EffectMaps ==
  ASSUME PipelineInv, NEW p \in Procs, TakeEffect(p)
  PROVE  Ledger!Next
<1>1. PICK i \in Ids :
        \/ /\ applies[i] = 0 /\ journal[i] = "applying" /\ EarlierDecided(i)
           /\ applies' = [applies EXCEPT ![i] = 1]
           /\ UNCHANGED <<journal, reverts>>
        \/ /\ applies[i] = 1 /\ reverts[i] = 0 /\ journal[i] = "reverting"
           /\ reverts' = [reverts EXCEPT ![i] = 1]
           /\ UNCHANGED <<journal, applies>>
  BY EffectKnown
<1>2. /\ Ledger!Ids = Ids
      /\ fateOf' = fateOf
      /\ fateOf[i] = "open"
  BY <1>1 DEF fateOf, Fate, Unsettled, Ledger!Ids, Ids
<1>3. EarlierDecided(i) => Ledger!EarlierClosed(i)
  <2> SUFFICES ASSUME EarlierDecided(i), NEW j \in Ids, j < i
               PROVE  fateOf[j] \notin {"waiting", "open"}
    BY <1>2 DEF Ledger!EarlierClosed, fateOf
  <2>1. journal[j] \in Decided \cup {"none"}
    BY DEF EarlierDecided
  <2> QED
    BY <2>1 DEF fateOf, Fate, Decided, Unsettled
<1>4. Ledger!Apply(i) \/ Ledger!Revert(i)
  BY <1>1, <1>2, <1>3 DEF Ledger!Apply, Ledger!Revert, fateOf
<1> QED
  BY <1>2, <1>4 DEF Ledger!Next

\* The pipeline implements the ledger: with the fate of an action read off its
\* journal record, every behaviour of the code is one of EffectLedger.
THEOREM LedgerImplemented == Spec => LedgerSpec
<1>1. Init => Ledger!Init
  <2> SUFFICES ASSUME Init PROVE Ledger!Init
    OBVIOUS
  <2>1. Ledger!Ids = Ids
    BY DEF Ledger!Ids, Ids
  <2>2. \A i \in Ids : Fate(journal[i]) = "unseen"
    BY DEF Init, KitInit, Fate, Unsettled
  <2>3. [i \in Ids |-> Fate(journal[i])] = [i \in Ids |-> "unseen"]
    BY <2>2
  <2> QED
    BY <2>1, <2>3 DEF Init, KitInit, Ledger!Init
<1>2. PipelineInv /\ [Next]_vars => [Ledger!Next]_(Ledger!ledger)
  <2> SUFFICES ASSUME PipelineInv, [Next]_vars PROVE [Ledger!Next]_(Ledger!ledger)
    OBVIOUS
  <2>1. CASE Quiet
    BY <2>1 DEF Quiet, Ledger!ledger
  <2> QED
    BY <2>1, MoveMaps, EffectMaps, JournalLife DEF Life
<1> QED
  BY <1>1, <1>2, Invariance, PTL DEF Spec, LedgerSpec, Ledger!Spec

=============================================================================
