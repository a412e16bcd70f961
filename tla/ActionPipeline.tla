--------------------------- MODULE ActionPipeline ---------------------------
(***************************************************************************)
(* The action pipeline of one gatekeeper instance: agents' tool calls      *)
(* submit actions through the driver kit, operators' decisions and the     *)
(* auto-approval drainer perform them through the kernel's                 *)
(* ActionCoordinator, and the two sides meet in three durable stores: the  *)
(* driver's journal and overlay (KitGatekeeper) and the kernel's rows      *)
(* (ActionStore).                                                          *)
(*                                                                         *)
(* A step is a stretch of code between two awaits; what other callbacks    *)
(* can interleave with is exactly the set of such stretches.  A crash can  *)
(* also fall inside a stretch, between two of its durable writes: the      *)
(* Torn... actions perform a proper prefix of the stretch and die.         *)
(***************************************************************************)
EXTENDS KitGatekeeper, ActionStore, FiniteSetsExt

CONSTANTS
  Callers,    \* tool calls under way at one time (each with its own session)
  Operators,  \* concurrent decide requests
  Drainers,   \* concurrent drain passes (timer, agent_end)
  Nobody,     \* holder of a free lock
  MaxCrashes  \* bound: number of times the process dies

Deciders == Operators \cup Drainers
Procs    == Callers \cup Deciders

ASSUME PipelineAssumption ==
  /\ Callers \cap Deciders = {}
  /\ Operators \cap Drainers = {}
  /\ Nobody \notin Procs
  /\ MaxCrashes \in Nat

VARIABLES
  authority,    \* the binding's grant is active, unobserved, not locked down
  maintenance,  \* the persistent maintenance barrier
  phase,        \* of the kernel: "up", "stopping", "closed" or "down"
  kit,          \* holder of the ActionSequencer's single-flight queue
  flight,       \* holder of the coordinator's queue for this instance
  proc,         \* per process: where it is and what it works on
  crashes       \* deaths so far (bounds the model)

kernelVars == <<rows, authority, maintenance>>
vars == <<kitVars, kernelVars, phase, kit, flight, proc, crashes>>

(***************************************************************************)
(* A process: act is the driver's action id, row the kernel's, verb what a *)
(* decider does, drain whether it does so for a drain pass, todo the rows  *)
(* still selected, closed whether a caller's session has been closed.      *)
(***************************************************************************)
Labels == {"idle", "opening", "replaying", "open", "calling", "accepted",
           "simulating", "simulated", "effect", "effected", "waiting",
           "drainwait", "draining", "authorizing", "claimed", "undo",
           "undone", "confirm"}

RowSet == [action : Ids, status : RowStatus, bound : BOOLEAN]

ProcState == [pc : Labels, act : 0 .. MaxActions, row : Nat, verb : Verbs,
              drain : BOOLEAN, todo : SUBSET Nat, closed : BOOLEAN]

IdleProc == [pc |-> "idle", act |-> 0, row |-> 0, verb |-> "apply",
             drain |-> FALSE, todo |-> {}, closed |-> FALSE]

Become(p, r) == proc' = [proc EXCEPT ![p] = r]
Goto(p, l)   == proc' = [proc EXCEPT ![p].pc = l]
At(p, l)     == phase # "down" /\ proc[p].pc = l

KitFree    == kit = Nobody
FlightFree == flight = Nobody

TypeOK ==
  /\ KitTypeOK
  /\ rows \in Seq(RowSet)
  /\ authority \in BOOLEAN
  /\ maintenance \in BOOLEAN
  /\ phase \in {"up", "stopping", "closed", "down"}
  /\ kit \in Procs \cup {Nobody}
  /\ flight \in Deciders \cup {Nobody}
  /\ proc \in [Procs -> ProcState]
  /\ crashes \in Nat

Init ==
  /\ KitInit
  /\ rows = <<>>
  /\ authority = TRUE
  /\ maintenance = FALSE
  /\ phase = "up"
  /\ kit = Nobody
  /\ flight = Nobody
  /\ proc = [p \in Procs |-> IdleProc]
  /\ crashes = 0

-----------------------------------------------------------------------------
(***************************************************************************)
(* resolveGrant() -> openSession() -> startSession(), for calls and        *)
(* decisions alike: authority is read before the await; recoverOverlay()   *)
(* runs inside the driver's queue.                                         *)
(***************************************************************************)

\* A tool call's preflight starts to open its session.
OpenSession(c) ==
  /\ At(c, "idle")
  /\ phase \in {"up", "stopping"}
  /\ authority
  /\ Goto(c, "opening")
  /\ UNCHANGED <<kitVars, kernelVars, phase, kit, flight, crashes>>

\* recoverOverlay() gets its turn: unsettled journals refuse, stale entries go.
Recover(p) ==
  /\ At(p, "opening")
  /\ KitFree
  /\ Settled
  /\ SetOverlay(overlay \ Stale)
  /\ kit' = p
  /\ Goto(p, "replaying")
  /\ UNCHANGED <<kernelVars, phase, flight, crashes>>

\* ... one missing effect is simulated again, in record order.
Replay(p) ==
  /\ At(p, "replaying")
  /\ Missing # {}
  /\ SetOverlay(overlay \cup {Min(Missing)})
  /\ UNCHANGED <<kernelVars, phase, kit, flight, proc, crashes>>

\* ... and the session is live.
Recovered(p) ==
  /\ At(p, "replaying")
  /\ Missing = {}
  /\ kit' = Nobody
  /\ IF p \in Callers
     THEN Become(p, [proc[p] EXCEPT !.pc = "open", !.closed = (phase = "closed")])
     ELSE Goto(p, "authorizing")
  /\ UNCHANGED <<kitVars, kernelVars, phase, flight, crashes>>

\* A process gives up: a decider leaves the coordinator's queue with it.
GiveUp(p) ==
  /\ Become(p, IdleProc)
  /\ flight' = IF flight = p THEN Nobody ELSE flight

\* The vendor is unavailable, the journal unsettled, or a replay fails.
OpenFails(p) ==
  /\ \/ At(p, "opening") /\ kit' = kit
     \/ At(p, "replaying") /\ Missing # {} /\ kit' = Nobody
  /\ GiveUp(p)
  /\ UNCHANGED <<kitVars, kernelVars, phase, crashes>>

-----------------------------------------------------------------------------
(***************************************************************************)
(* Tool calls: Kernel.exec() and the session's call().                     *)
(***************************************************************************)

\* exec() rechecks the grant; call() waits for its turn in the driver's queue.
Exec(c) ==
  /\ At(c, "open")
  /\ phase # "closed"
  /\ authority
  /\ ~proc[c].closed
  /\ Settled
  /\ Goto(c, "calling")
  /\ UNCHANGED <<kitVars, kernelVars, phase, kit, flight, crashes>>

\* The call is denied by the policy, the operator, or a check of its own.
CallDenied(c) ==
  /\ At(c, "open") \/ (At(c, "calling") /\ KitFree)
  /\ Become(c, IdleProc)
  /\ UNCHANGED <<kitVars, kernelVars, phase, kit, flight, crashes>>

MaySubmit(c) ==
  /\ At(c, "calling")
  /\ KitFree
  /\ ~proc[c].closed
  /\ Settled
  /\ next <= MaxActions

\* Reserve an id, journal the record as submitting, queue the kernel's row.
Submit(c, k) ==
  /\ MaySubmit(c)
  /\ authority
  /\ Record(k, "submitting")
  /\ AddAction(next, TRUE)
  /\ kit' = c
  /\ Become(c, [proc[c] EXCEPT !.pc = "accepted", !.act = next])
  /\ UNCHANGED <<authority, maintenance, phase, flight, crashes>>

\* submitAction() refuses: the record becomes uncertain.
SubmitRefused(c, k) ==
  /\ MaySubmit(c)
  /\ ~authority
  /\ Record(k, "uncertain")
  /\ Become(c, IdleProc)
  /\ UNCHANGED <<kernelVars, phase, kit, flight, crashes>>

\* Back from the kernel: a deferred action is pending, then simulated.
Pend(c) ==
  /\ At(c, "accepted")
  /\ ~proc[c].closed
  /\ kind[proc[c].act] # "awaited"
  /\ Save(proc[c].act, "pending")
  /\ Goto(c, "simulating")
  /\ UNCHANGED <<kernelVars, phase, kit, flight, crashes>>

\* Back from the kernel: an awaited action is pending, and applied at once.
PendAndApply(c) ==
  /\ At(c, "accepted")
  /\ ~proc[c].closed
  /\ kind[proc[c].act] = "awaited"
  /\ EarlierDecided(proc[c].act)
  /\ Save(proc[c].act, "applying")
  /\ Goto(c, "effect")
  /\ UNCHANGED <<kernelVars, phase, kit, flight, crashes>>

\* The session was closed meanwhile, or an earlier action is undecided.
PendFails(c) ==
  /\ At(c, "accepted")
  /\ \/ proc[c].closed
     \/ kind[proc[c].act] = "awaited" /\ ~EarlierDecided(proc[c].act)
  /\ SaveAndRetire(proc[c].act, "uncertain")
  /\ kit' = Nobody
  /\ Become(c, IdleProc)
  /\ UNCHANGED <<kernelVars, phase, flight, crashes>>

\* simulate() adds the action's entry to the overlay ...
Simulate(c) ==
  /\ At(c, "simulating")
  /\ SetOverlay(overlay \cup {proc[c].act})
  /\ Goto(c, "simulated")
  /\ UNCHANGED <<kernelVars, phase, kit, flight, crashes>>

\* ... and the agent is told that its write took place.
Return(c) ==
  /\ At(c, "simulated")
  /\ ~proc[c].closed
  /\ kit' = Nobody
  /\ Become(c, IdleProc)
  /\ UNCHANGED <<kitVars, kernelVars, phase, flight, crashes>>

\* simulate() throws, or the session was closed while it ran.
SimulateFails(c) ==
  /\ At(c, "simulating") \/ (At(c, "simulated") /\ proc[c].closed)
  /\ SaveAndRetire(proc[c].act, "uncertain")
  /\ kit' = Nobody
  /\ Become(c, IdleProc)
  /\ UNCHANGED <<kernelVars, phase, flight, crashes>>

-----------------------------------------------------------------------------
(***************************************************************************)
(* Decisions: decide(), drain() and perform() of the ActionCoordinator.    *)
(***************************************************************************)

\* The checks perform() makes before it resolves the binding.
Eligible(k, v) ==
  /\ rows[k].status = Expected(v)
  /\ v = "apply" => ~Overtakes(k)
  /\ v = "revert" => kind[rows[k].action] \in Revertible

\* ... and those resolveGrant() makes before its first await.
Resolvable(k, v) == Eligible(k, v) /\ rows[k].bound /\ authority

Resolve(p, k) ==
  [proc[p] EXCEPT !.pc = "opening", !.row = k, !.act = rows[k].action]

\* An operator selects rows (a list of ids, or "all").
Decide(p, ids, v) ==
  /\ At(p, "idle")
  /\ phase = "up"
  /\ ~maintenance
  /\ Become(p, [IdleProc EXCEPT !.pc = "waiting", !.verb = v, !.todo = ids])
  /\ UNCHANGED <<kitVars, kernelVars, phase, kit, flight, crashes>>

\* The lowest selected row gets its turn in the instance's queue.
Perform(p) ==
  /\ At(p, "waiting")
  /\ FlightFree
  /\ LET k == Min(proc[p].todo)
     IN  IF Resolvable(k, proc[p].verb)
         THEN flight' = p /\ Become(p, Resolve(p, k))
         ELSE flight' = flight /\ Become(p, IdleProc)
  /\ UNCHANGED <<kitVars, kernelVars, phase, kit, crashes>>

\* The timer, or the end of a run, starts a drain with the configured tags.
StartDrain(p) ==
  /\ At(p, "idle")
  /\ phase = "up"
  /\ ~maintenance
  /\ \E k \in RowIds : rows[k].status = "pending"
  /\ Become(p, [IdleProc EXCEPT !.pc = "drainwait", !.drain = TRUE])
  /\ UNCHANGED <<kitVars, kernelVars, phase, kit, flight, crashes>>

DrainTurn(p) ==
  /\ At(p, "drainwait")
  /\ FlightFree
  /\ flight' = p
  /\ Become(p, [proc[p] EXCEPT !.pc = "draining", !.todo = RowIds])
  /\ UNCHANGED <<kitVars, kernelVars, phase, kit, crashes>>

\* Mutant: the drain does not step over decided rows.
UndecidedOrNot(p) == proc[p].todo

Undecided(p) == {k \in proc[p].todo : rows[k].status \in {"pending", "failed"}}

\* The drain takes the first undecided row if it may be applied unasked ...
Drainable(p) ==
  /\ phase = "up"
  /\ Undecided(p) # {}
  /\ LET k == Min(Undecided(p))
     IN  Resolvable(k, "apply") /\ kind[rows[k].action] = "auto"

DrainNext(p) ==
  /\ At(p, "draining")
  /\ Drainable(p)
  /\ Become(p, Resolve(p, Min(Undecided(p))))
  /\ UNCHANGED <<kitVars, kernelVars, phase, kit, flight, crashes>>

\* ... and stops at one that may not, never skipping it.
DrainStops(p) ==
  /\ At(p, "draining")
  /\ ~Drainable(p)
  /\ GiveUp(p)
  /\ UNCHANGED <<kitVars, kernelVars, phase, kit, crashes>>

\* authorize() and claimAction(): no await between the check and the intent.
MayClaim(p) ==
  /\ authority
  /\ ~maintenance
  /\ rows[proc[p].row].status = Expected(proc[p].verb)

Claim(p) ==
  /\ At(p, "authorizing")
  /\ MayClaim(p)
  /\ ClaimAction(proc[p].row, proc[p].verb)
  /\ Goto(p, "claimed")
  /\ UNCHANGED <<kitVars, authority, maintenance, phase, kit, flight, crashes>>

ClaimDenied(p) ==
  /\ At(p, "authorizing")
  /\ ~MayClaim(p)
  /\ GiveUp(p)
  /\ UNCHANGED <<kitVars, kernelVars, phase, kit, crashes>>

\* The claimed decision gets its turn in the driver's queue.
Turn(p, v) == At(p, "claimed") /\ KitFree /\ proc[p].verb = v

MayApply(i)  == journal[i] = "pending" /\ EarlierDecided(i)
MayRevert(i) == journal[i] = "applied" /\ kind[i] \in Revertible

\* applyRecorded() up to the effect.
ApplyAction(p) ==
  /\ Turn(p, "apply")
  /\ MayApply(proc[p].act)
  /\ Save(proc[p].act, "applying")
  /\ kit' = p
  /\ Goto(p, "effect")
  /\ UNCHANGED <<kernelVars, phase, flight, crashes>>

\* Mutant: rejectAction() without its look at the record's status.
RejectUnchecked(p) ==
  /\ Turn(p, "reject")
  /\ SaveAndRetire(proc[p].act, "rejected")
  /\ Goto(p, "confirm")
  /\ UNCHANGED <<kernelVars, phase, kit, flight, crashes>>

\* rejectAction()
RejectAction(p) ==
  /\ Turn(p, "reject")
  /\ journal[proc[p].act] = "pending"
  /\ SaveAndRetire(proc[p].act, "rejected")
  /\ Goto(p, "confirm")
  /\ UNCHANGED <<kernelVars, phase, kit, flight, crashes>>

\* revertAction() up to the reversal.
RevertAction(p) ==
  /\ Turn(p, "revert")
  /\ MayRevert(proc[p].act)
  /\ Save(proc[p].act, "reverting")
  /\ kit' = p
  /\ Goto(p, "undo")
  /\ UNCHANGED <<kernelVars, phase, flight, crashes>>

\* The driver already recorded this outcome: nothing is repeated.
Repeated(p) ==
  /\ At(p, "claimed")
  /\ KitFree
  /\ journal[proc[p].act] = Outcome(proc[p].verb)
  /\ SetOverlay(IF proc[p].verb = "revert" THEN overlay ELSE overlay \ {proc[p].act})
  /\ Goto(p, "confirm")
  /\ UNCHANGED <<kernelVars, phase, kit, flight, crashes>>

\* Mutants: a refusal taken for success; a refusal that reopens the row.
RefusedAsSuccess(p) ==
  /\ At(p, "claimed")
  /\ KitFree
  /\ proc[p].verb = "reject" /\ journal[proc[p].act] # "pending"
  /\ Goto(p, "confirm")
  /\ UNCHANGED <<kitVars, kernelVars, phase, kit, flight, crashes>>

RefusedReopens(p) ==
  /\ At(p, "claimed")
  /\ KitFree
  /\ proc[p].verb = "reject" /\ journal[proc[p].act] # "pending"
  /\ SetStatus(proc[p].row, "pending")
  /\ GiveUp(p)
  /\ UNCHANGED <<kitVars, authority, maintenance, phase, kit, crashes>>

\* The driver refuses; the kernel's intent stays failed.
Refused(p) ==
  LET i == proc[p].act
  IN  /\ At(p, "claimed")
      /\ KitFree
      /\ journal[i] # Outcome(proc[p].verb)
      /\ \/ proc[p].verb = "apply" /\ ~MayApply(i)
         \/ proc[p].verb = "reject" /\ journal[i] # "pending"
         \/ proc[p].verb = "revert" /\ ~MayRevert(i)
      /\ GiveUp(p)
      /\ UNCHANGED <<kitVars, kernelVars, phase, kit, crashes>>

\* The driver's apply() or revert() acts on the resource.
TakeEffect(p) ==
  /\ \/ At(p, "effect") /\ Effect(proc[p].act) /\ Goto(p, "effected")
     \/ At(p, "undo") /\ Reversal(proc[p].act) /\ Goto(p, "undone")
  /\ UNCHANGED <<kernelVars, phase, kit, flight, crashes>>

\* It returns: the journal has the outcome, the overlay entry is retired.
EffectReturns(p) ==
  /\ \/ At(p, "effected") /\ SaveAndRetire(proc[p].act, "applied")
     \/ At(p, "undone") /\ Save(proc[p].act, "reverted")
  /\ kit' = Nobody
  /\ IF p \in Callers THEN Become(p, IdleProc) ELSE Goto(p, "confirm")
  /\ UNCHANGED <<kernelVars, phase, flight, crashes>>

\* Mutants: a failed effect is pending again; it keeps the driver's queue.
EffectThrowsRetry(p) ==
  /\ At(p, "effect") \/ At(p, "effected")
  /\ Save(proc[p].act, "pending")
  /\ kit' = Nobody
  /\ GiveUp(p)
  /\ UNCHANGED <<kernelVars, phase, crashes>>

EffectThrowsHolding(p) ==
  /\ At(p, "effect") \/ At(p, "effected")
  /\ Save(proc[p].act, "uncertain")
  /\ GiveUp(p)
  /\ UNCHANGED <<kernelVars, phase, kit, crashes>>

\* It throws, before or after the resource took the effect.
EffectThrows(p) ==
  /\ At(p, "effect") \/ At(p, "effected") \/ At(p, "undo") \/ At(p, "undone")
  /\ Save(proc[p].act, "uncertain")
  /\ kit' = Nobody
  /\ GiveUp(p)
  /\ UNCHANGED <<kernelVars, phase, crashes>>

\* decideAction(); a drain goes on to its next row in the same turn, a decide
\* request joins the queue again, and drains after its last row.
Confirm(p) ==
  LET rest == proc[p].todo \ {proc[p].row}
      more == [IdleProc EXCEPT !.verb = proc[p].verb, !.todo = rest]
      last == [IdleProc EXCEPT !.drain = TRUE]
  IN  /\ At(p, "confirm")
      /\ DecideAction(proc[p].row, proc[p].verb)
      /\ IF proc[p].drain
         THEN /\ Become(p, [last EXCEPT !.pc = "draining", !.todo = rest])
              /\ flight' = flight
         ELSE /\ flight' = Nobody
              /\ Become(p, CASE phase = "up" /\ rest # {} ->
                                  [more EXCEPT !.pc = "waiting"]
                             [] phase = "up" /\ rest = {} /\ ~maintenance ->
                                  [last EXCEPT !.pc = "drainwait"]
                             [] OTHER -> IdleProc)
      /\ UNCHANGED <<kitVars, authority, maintenance, phase, kit, crashes>>

-----------------------------------------------------------------------------
(***************************************************************************)
(* The environment: revocation, observers, sessions ending, maintenance,   *)
(* shutdown, crash and restart.                                            *)
(***************************************************************************)

\* A session is registered, and can be closed, once it has been opened.
Registered(c) == c \in Callers /\ proc[c].pc \notin {"idle", "opening", "replaying"}

CloseSessions(S) ==
  proc' = [p \in Procs |->
             IF p \in S /\ Registered(p)
             THEN [proc[p] EXCEPT !.closed = TRUE] ELSE proc[p]]

\* revoke() closes the grant's sessions; an observer or a lockdown does not.
LoseAuthority(S) ==
  /\ phase \in {"up", "stopping"}
  /\ authority
  /\ authority' = FALSE
  /\ CloseSessions(S)
  /\ UNCHANGED <<kitVars, rows, maintenance, phase, kit, flight, crashes>>

\* onSessionEnd()
SessionEnd(c) ==
  /\ phase # "down"
  /\ Registered(c)
  /\ ~proc[c].closed
  /\ CloseSessions({c})
  /\ UNCHANGED <<kitVars, kernelVars, phase, kit, flight, crashes>>

SetMaintenance ==
  /\ phase \in {"up", "stopping"}
  /\ maintenance' = ~maintenance
  /\ UNCHANGED <<kitVars, rows, authority, phase, kit, flight, proc, crashes>>

\* stop(): no new decisions; what the coordinator has queued still runs.
Stop ==
  /\ phase = "up"
  /\ crashes < MaxCrashes
  /\ phase' = "stopping"
  /\ UNCHANGED <<kitVars, kernelVars, kit, flight, proc, crashes>>

\* The flights have settled: sessions and the database are closed.
Close ==
  /\ phase = "stopping"
  /\ FlightFree
  /\ \A p \in Deciders : proc[p].pc = "idle"
  /\ phase' = "closed"
  /\ CloseSessions(Callers)
  /\ UNCHANGED <<kitVars, kernelVars, kit, flight, crashes>>

\* The process ends: everything that is not on disk is gone.
Die ==
  /\ phase' = "down"
  /\ kit' = Nobody
  /\ flight' = Nobody
  /\ proc' = [p \in Procs |-> IdleProc]
  /\ crashes' = crashes + 1
  /\ UNCHANGED <<authority, maintenance>>

MayDie == phase # "down" /\ crashes < MaxCrashes

Crash ==
  /\ MayDie
  /\ Die
  /\ UNCHANGED <<kitVars, rows>>

\* Mutant: the record is saved as pending before the kernel has its row.
TornSubmitPending(c, k) ==
  /\ MayDie
  /\ MaySubmit(c)
  /\ Die
  /\ Record(k, "pending")
  /\ UNCHANGED rows

\* Dies in Submit: after next(), after the first save(), or after addAction().
TornSubmit(c, k) ==
  /\ MayDie
  /\ MaySubmit(c)
  /\ Die
  /\ \/ Reserve /\ UNCHANGED rows
     \/ Record(k, "submitting") /\ UNCHANGED rows
     \/ authority /\ Record(k, "submitting") /\ AddAction(next, FALSE)

\* Dies after the journal says pending and before what follows.
TornPend(c) ==
  /\ MayDie
  /\ At(c, "accepted")
  /\ Die
  /\ Save(proc[c].act, "pending")
  /\ UNCHANGED rows

\* Dies between the journal's outcome and the removal of the overlay entry.
TornOutcome(p) ==
  /\ MayDie
  /\ Die
  /\ \/ At(p, "effected") /\ Save(proc[p].act, "applied")
     \/ Turn(p, "reject") /\ journal[proc[p].act] = "pending"
                          /\ Save(proc[p].act, "rejected")
  /\ UNCHANGED rows

Restart ==
  /\ phase = "down"
  /\ phase' = "up"
  /\ UNCHANGED <<kitVars, kernelVars, kit, flight, proc, crashes>>

-----------------------------------------------------------------------------
CallerStep(c) ==
  \/ OpenSession(c) \/ Exec(c) \/ CallDenied(c)
  \/ \E k \in Kinds : Submit(c, k) \/ SubmitRefused(c, k)
  \/ Pend(c) \/ PendAndApply(c) \/ PendFails(c)
  \/ Simulate(c) \/ Return(c) \/ SimulateFails(c)

DeciderStep(p) ==
  \/ Perform(p) \/ DrainTurn(p) \/ DrainNext(p) \/ DrainStops(p)
  \/ Claim(p) \/ ClaimDenied(p)
  \/ ApplyAction(p) \/ RejectAction(p) \/ RevertAction(p)
  \/ Repeated(p) \/ Refused(p) \/ Confirm(p)

SharedStep(p) ==
  \/ Recover(p) \/ Replay(p) \/ Recovered(p) \/ OpenFails(p)
  \/ TakeEffect(p) \/ EffectReturns(p) \/ EffectThrows(p)

Death ==
  \/ Crash
  \/ \E c \in Callers, k \in Kinds : TornSubmit(c, k)
  \/ \E c \in Callers : TornPend(c)
  \/ \E p \in Procs : TornOutcome(p)

Environment ==
  \/ \E S \in {{}, Callers} : LoseAuthority(S)
  \/ \E c \in Callers : SessionEnd(c)
  \/ SetMaintenance \/ Stop \/ Close \/ Restart \/ Death

Next ==
  \/ \E c \in Callers : CallerStep(c)
  \/ \E p \in Deciders : DeciderStep(p)
  \/ \E p \in Procs : SharedStep(p)
  \/ \E p \in Operators, v \in Verbs :
       \E ids \in (SUBSET RowIds) \ {{}} : Decide(p, ids, v)
  \/ \E p \in Drainers : StartDrain(p)
  \/ Environment

Spec == Init /\ [][Next]_vars

-----------------------------------------------------------------------------
(***************************************************************************)
(* Fairness.  Every await of a call, a decision or a driver settles (the   *)
(* fairness of the steps of a process already under way); both queues are  *)
(* promise chains, so whoever waits in one gets its turn (the strong       *)
(* fairness); the 30 s timer keeps firing (StartDrain).  Nothing is        *)
(* assumed of agents, operators, revocations, shutdowns and crashes.       *)
(***************************************************************************)
TakeTurn(p) ==
  \/ Perform(p) \/ DrainTurn(p)
  \/ ApplyAction(p) \/ RejectAction(p) \/ RevertAction(p) \/ Repeated(p) \/ Refused(p)

UnderWay(c) ==
  \/ \E k \in Kinds : Submit(c, k) \/ SubmitRefused(c, k)
  \/ CallDenied(c) \/ Pend(c) \/ PendAndApply(c) \/ PendFails(c)
  \/ Simulate(c) \/ Return(c) \/ SimulateFails(c)

Fairness ==
  /\ \A c \in Callers : WF_vars(UnderWay(c)) /\ SF_vars(proc[c].pc = "calling" /\ UnderWay(c))
  /\ \A p \in Procs : WF_vars(SharedStep(p)) /\ SF_vars(Recover(p))
  /\ \A p \in Deciders : WF_vars(DeciderStep(p)) /\ SF_vars(TakeTurn(p))
  /\ \A p \in Drainers : WF_vars(StartDrain(p))

FairSpec == Spec /\ Fairness

-----------------------------------------------------------------------------
(***************************************************************************)
(* Properties.                                                             *)
(***************************************************************************)

\* Ambiguous failures, crashes, two operators and the drainer never make the
\* resource take an effect twice, nor its reversal, nor a reversal of nothing:
\* what applyRecorded() and revertAction() promise with "once".
AtMostOnce ==
  \A i \in Ids : applies[i] <= 1 /\ reverts[i] <= applies[i]

\* perform() persists its fail-closed intent before the resource is touched: a
\* deferred action the resource has taken is never listed as pending (so never
\* offered for a decision again), and one being undone never as applied.
IntentFirst ==
  \A k \in RowIds : LET i == rows[k].action IN
    /\ applies[i] > 0 /\ kind[i] # "awaited" => rows[k].status # "pending"
    /\ reverts[i] > 0 => rows[k].status \in {"failed", "reverted"}

\* The two stores agree: an outcome the kernel reports (and audits) is the
\* driver's recorded outcome and what the resource really went through.
StoresAgree ==
  \A k \in RowIds : LET i == rows[k].action IN
    /\ rows[k].status = "applied" =>
         journal[i] = "applied" /\ applies[i] = 1 /\ reverts[i] = 0
    /\ rows[k].status = "rejected" => journal[i] = "rejected" /\ applies[i] = 0
    /\ rows[k].status = "reverted" => journal[i] = "reverted" /\ reverts[i] = 1

\* No crash leaves a pending action, whose effect agents already see simulated,
\* without a kernel row through which an operator can decide it, bound to the
\* grant it came from.
PendingIsQueued ==
  \A i \in Ids : journal[i] = "pending" =>
    \E k \in RowIds : rows[k].action = i /\ rows[k].bound

\* The kernel's id order, in which decide() and drain() work, is the driver's,
\* in which applyRecorded() insists on applying.
SameOrder ==
  \A j, k \in RowIds : j < k => rows[j].action < rows[k].action

\* Read your writes: while a live session may read and nothing is under way in
\* the driver's queue, the overlay holds exactly the undecided deferred actions,
\* also when the files were left torn by a crash.
ReadYourWrites ==
  ( /\ KitFree
    /\ Settled
    /\ \E c \in Callers : proc[c].pc \in {"open", "calling"} /\ ~proc[c].closed )
  => overlay = Simulated

\* The resource takes effects in id order: when it takes one, every earlier
\* action has a decided outcome, whichever of call, operator or drainer acts.
InOrder ==
  [][\A i, j \in Ids :
       j < i /\ applies'[i] > applies[i] => journal[j] \in Decided \cup {"none"}]_vars

\* Once the kernel or the driver cannot tell what became of an action, nothing
\* turns that record back into one that could be applied: no blind retry.
NoRetry ==
  [][ /\ \A i \in Ids : journal[i] = "uncertain" => journal'[i] = "uncertain"
      /\ \A k \in RowIds : rows[k].status = "failed" => rows'[k].status # "pending" ]_vars

\* The pipeline implements the ledger its promises are made of.
Fate(s) ==
  CASE s = "none" -> "unseen"
    [] s = "pending" -> "waiting"
    [] s \in Unsettled -> "open"
    [] OTHER -> s

Ledger == INSTANCE EffectLedger WITH fate <- [i \in Ids |-> Fate(journal[i])]
LedgerSpec == Ledger!Spec

\* Nobody waits for ever on the two queues (a decision holds the coordinator's
\* while it waits for the driver's, which a submitting call holds): every call,
\* decision and drain under way ends.
EveryoneFinishes ==
  \A p \in Procs :
    (proc[p].pc \notin {"idle", "open"}) ~> (proc[p].pc \in {"idle", "open"})

\* The drain is not starved: with the kernel up, the grant in force, no
\* maintenance and sessions that open, the first undecided action, if it may be
\* applied unasked, is decided sooner or later, or the resource needs
\* reconciliation.
AutoHead(k) ==
  /\ k \in RowIds
  /\ rows[k].status = "pending"
  /\ rows[k].bound
  /\ kind[rows[k].action] = "auto"
  /\ ~Overtakes(k)

DrainProgress ==
  (/\ <>[](authority /\ ~maintenance /\ phase = "up")
   /\ <>[][\A p \in Drainers : ~OpenFails(p)]_vars) =>
    \A k \in Ids : (AutoHead(k) /\ Settled) ~> (~AutoHead(k) \/ ~Settled)

-----------------------------------------------------------------------------
(***************************************************************************)
(* What comments and documents say, and the code does not do.              *)
(***************************************************************************)

\* actions.ts: authorize() is the "final check ... immediately before an
\* effect"; so a decision's effect would begin only under its grant.
EffectUnderAuthority ==
  [][\A i \in Ids :
       kind[i] # "awaited" /\ journal[i] = "pending" /\ journal'[i] = "applying"
       => authority]_vars

\* actions.ts: stop() waits "for existing effects before SQLite is closed".
ClosedIsQuiet ==
  phase = "closed" =>
    \A p \in Procs : proc[p].pc \notin {"effect", "effected", "undo", "undone"}

=============================================================================
