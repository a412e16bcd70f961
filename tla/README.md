# GatekeeperOS, verified

TLA+ models of GatekeeperOS (the repository under `src/`), the TLC
configurations that check them on small instances, and TLAPS proofs for every
instance. GatekeeperOS puts a kernel and drivers ("gatekeepers") between an
agent and the resources it works on: agents' writes are submitted as actions,
simulated for the agent, and performed on the resource only once an operator,
or a rule the operator set, has decided them.

Paths below are relative to `src/packages/`.

## Inventory

| Part | State it keeps | Operations | Hard about it | Correct when |
|---|---|---|---|---|
| **Driver kit: journal, sequencer, overlay** `gatekeeper-kit/src/{kit-gatekeeper,action-sequencer,overlay-store,atomic-json}.ts` | the journal file (a status per action), the sequence file (next id), the overlay file (simulated effects); in memory a promise chain that serializes the instance | `startSession`, `call`, `close`, `applyAction`, `rejectAction`, `revertAction` | awaits the kernel and the resource while it holds its queue; three files, each atomic alone; ambiguous failures | effects at most once, in id order; reads see one's own undecided writes; an unknown outcome is never retried |
| **Kernel store** `gkos-kernel/src/store.ts` | SQLite tables: actions, bindings, grants, instances, observers, introductions, tool approvals, notifications | one statement, or one transaction, per operation | no transaction spans two operations | a status is what happened; a claim precedes the effect |
| **Action coordinator** `gkos-kernel/src/actions.ts` | one promise chain per instance (`flights`), `stopped` | `decide`, `drain`, `stop` | waits for the driver's queue while it holds its own; decisions go stale while they queue | one decision per action; the drainer never skips; the outcome it reports is the driver's |
| **Approval queue** `gkos-kernel/src/approvals.ts` | none | `submitAction`, `authorizeObservation` | two statements between two journal writes of the driver | every simulated action can be decided by somebody |
| **Kernel** `gkos-kernel/src/kernel.ts` | sessions, preflight stash, in-flight calls, notes, timer, maintenance file, run counters | hooks (`onBeforeToolCall`, `onToolResult`, `onAgentEnd`, `onSessionEnd`, ...), operator methods, `start`, `stop` | authority is checked before awaits and used after them | nothing runs without a grant in force |
| **Registry** `gkos-kernel/src/registry.ts` | loaded drivers | `openSession`, `introduce`, `start`, `stop` | drivers are revoked while handles are out | a revoked driver fails closed |
| **Accounts** `gkos-kernel/src/oauth.ts`, `gatekeeper-kit/src/{oauth-nonce,token-store}.ts` | pending nonces; encrypted token files, refreshes and generations | connect, start, callback; put, get, remove, refresh | refresh races with removal; two-stage one-use nonces | a removed token stays removed; no nonce is accepted twice |
| **Filesystem gatekeeper** `gkos-gatekeeper-fs/src/*` | effect, transaction, preimage and receipt files | queueing a write, `run` (apply, revert), reads | external editors; death between any two of ten steps | no edit is lost unnoticed; a receipt is never wrong |
| **MCP gatekeeper** `gkos-gatekeeper-mcp/src/*` | account record (a bearer or a tombstone), accounts in memory | `createAccount`, `provision`, `revoke`, `withServer` | a total timeout that cannot stop a lookup; operations that outlive their driver | nothing is sent after the timeout; a tombstone stays |
| **GitHub gatekeeper** `gkos-gatekeeper-github/src/*` | none of its own | requests through the kit | - | not modelled |
| **Update, rollback, backup** `gkos-cli/src/util/update-transaction.ts`, `commands/{update,backup}.ts` | update journal and guard, state directory, archives, the unit's drop-in | nine steps, rollback, resume; create, restore | death inside any step; operators and agents go on meanwhile | either version runs as a whole; admission opens only after a commit; no revoked grant comes back |
| **Config apply and install** `gkos-cli/src/commands/{config-apply,install}.ts` | live and generated configuration, applied catalog, lockfile, stash | `reconcile`, the twelve steps of `install` | external edits between compare and write; three files of one checkpoint; two commands at once | an edit from outside is reported, not overwritten; "in sync" is true; the service runs what was applied |
| Audit log, upstream adapters, cache mutation store, doctor, status, policy, blueprints, conformance, installer, documents | append-only file, none | - | I/O, formatting, sequential algorithms | not modelled |

How they interact: a tool call is admitted by `onBeforeToolCall`, which opens a
session through `resolveGrant` -> `Registry.openSession` ->
`KitGatekeeper.startSession` and describes the call in a dry pass; `exec` rechecks
the grant and calls the session. The session journals the action, awaits
`submitAction` of the kernel's queue (a call back into the kernel, and its
SQLite), and then simulates the effect or, if it was approved before the call,
applies it. `decide` and the drain timer take the other direction: from the
kernel's row through a session opened for the decision into the driver's
`applyAction`, `rejectAction` or `revertAction`. Both directions share the
driver's files, the kernel's rows and the two queues, and everything else
(revocation, observers, lockdown, session end, maintenance, shutdown, death)
can happen at any await.

Around a cell, `gkos update` and `gkos rollback` talk to its kernel over RPC
(maintenance, drain, digest of the grants), stop and start its service, and
replace its state directory as a whole; `gkos install`, `gkos config apply` and
`gkos backup restore` work on files of the same directory. They share the lockfile
and the service, and no lock: each is modelled with the others where they meet.

## Modules

| Module | Models |
|---|---|
| `KitGatekeeper` | the durable half of the driver kit: each operator is one atomic write of the journal, sequence or overlay file, or one effect on the resource |
| `ActionStore` | the kernel's `actions` and `action_bindings` tables: each operator is one statement |
| `ActionPipeline` | composes the two with the processes that use them, the environment, crashes and restarts; holds the properties |
| `EffectLedger` | the abstract specification: what the pipeline promises the owner of a resource |
| `ActionPipelineInvariant` | the inductive invariant, in named parts |
| `ActionPipelineProofs`, `ActionPipelineStepProofs`, `ActionPipelineViewProofs` | the TLAPS proofs of the inductive invariant of records and processes and what follows from it; of what a step may do, and of the refinement; of what operators and agents are shown |
| `MCActionPipeline`, `Pipeline*.cfg` | the instances for TLC; `MCActionPipeline` extends the invariant, so that TLC can be asked about it too |
| `KernelAuthority` | grants, requests for them, tool calls with preflight, stash and execution, driver sessions, observers, lockdown, revocation |
| `FsDirectory` | one file of a granted directory: queued writes and the journaled transaction of each, system call by system call, with editors of the host |
| `UpdateTransaction` | `gkos update`, `gkos rollback` and `gkos backup` on a cell that goes on working |
| `CellConfig` | `gkos install` and `gkos config apply` on one cell, with everybody else who writes its configuration |
| `AccountRouting` | OAuth nonces, driver generations, the credential record, and the bounded exchange with a remote server |
| `KernelAuthorityProofs`, `FsDirectoryProofs`, `UpdateTransactionProofs`, `CellConfigProofs`, `AccountRoutingProofs` | the TLAPS proofs about the five, each with its inductive invariant |
| `MCUpdateTransaction`, `KernelAuthority.cfg`, `FsWrites.cfg`, `UpdateCell.cfg`, `UpdateStaleArchive.cfg`, `CellConfig.cfg`, `CellConfigMerge.cfg`, `AccountRouting.cfg` | their instances for TLC; `MCUpdateTransaction` bounds what `gkos backup create` archives |

The models meet where one takes for granted what another shows. `KernelAuthority`
ends where a call reaches the approval queue; from there on the action is
`ActionPipeline`'s, whose one variable `authority` stands for what
`KernelAuthority` has about the grant. `FsDirectory` is one driver behind the kit,
and keeps of the kit only the status and the order of actions. `UpdateTransaction`
sees the kernel as its barrier, its runs and its grants.

### The action pipeline

#### State

`next`, `journal`, `kind`, `overlay` are the three files of the driver (`kind`
is what the record's description says: `auto`, `manual`, or `awaited`, for
`awaitDecision`; a kind in `Revertible` has `implementsRevert`). `rows` is the
SQLite table: its position is the kernel's id, `action` the driver's id,
`bound` whether the binding was written. `applies` and `reverts` count what the
resource went through; no code reads them. `kit` and `flight` are the holders
of the driver's queue (`ActionSequencer.run`) and of the coordinator's
(`ActionCoordinator.serial`). `authority` is whether the grant the actions are
bound to is active, unobserved and not locked down: once lost it is never
regained, since bindings name a handle and no operation reactivates one.
`maintenance` is the barrier file, `phase` the kernel's life.

#### Steps

JavaScript runs one callback at a time, so an action of the model is the code
between two awaits, with every write it makes. What a crash can still divide
is a stretch with two durable writes; for each of those a `Torn...` action
performs a proper prefix and dies: after `next()`, the first `save()` or
`addAction()` in a submission (`TornSubmit`), after the record became pending
(`TornPend`), between an outcome and the retirement of its overlay entry
(`TornOutcome`). Other prefixes coincide with states these reach: a call that
fails saves the record as pending first, and dies in `TornPend`'s state; an
overlay entry dropped just before its record becomes uncertain leaves the state
`Crash` leaves at `simulating`; `recoverOverlay` writes one entry at a time but
dropping stale entries is idempotent.

- Calls (`Callers`): `OpenSession`, `Recover`, `Replay`, `Recovered`, `OpenFails`
  (opening, with the recovery of the overlay), `Exec`, `CallDenied`, `Submit`,
  `SubmitRefused`, `Pend`, `PendAndApply`, `PendFails`, `Simulate`, `Return`,
  `SimulateFails`.
- Decisions (`Operators`, `Drainers`): `Decide`, `Perform`, `StartDrain`,
  `DrainTurn`, `DrainNext`, `DrainStops`, the opening steps, `Claim`,
  `ClaimDenied`, `ApplyAction`, `RejectAction`, `RevertAction`, `Repeated`,
  `Refused`, `Confirm`.
- Both: `TakeEffect`, `EffectReturns`, `EffectThrows`. A driver may throw before or
  after the resource took the effect; nobody but the resource knows.
- Environment: `LoseAuthority` (revocation, which closes sessions; an observer
  or a lockdown, which does not), `SessionEnd`, `SetMaintenance`, `Stop`,
  `Close`, `Crash`, `Torn...`, `Restart`.

The driver's code itself (what `apply` does to a remote resource) is external:
it takes the effect at most once per call of `apply`, and may throw at any time.

#### Abstractions

One gatekeeper instance: instances share no queue, file or row, so what holds
of one holds of each. A promise chain serves waiters in order; the model lets
any waiter in, which allows more interleavings. Parameters, results, audit
records, callers' identities and error texts are left out. A drain's list of
the rows is read again by the model at every step; only the holder of the
coordinator's queue changes a row's status, so they are the same. A drain
during maintenance runs with no tags and changes nothing: the model does not
start it. Disk errors in a process that lives on, duplicated tool call ids,
sessions closed one after another by `revoke`, and two driver objects over the
same files are not modelled.

### Authority (`KernelAuthority`)

`grants`, `requests`, `approvals`, `observed` are tables of the store, `maint` the
maintenance file, `open` is `runtime.sessions`, and `calls` says for each tool-call
id which await its call has reached and whether the stash holds it. `ops` is what
each operator's command is doing. An action is the code between two awaits:
`BeforeToolCall`, `SessionOpened`, `DryRun`, `Stash` are the preflight; `Decide`
is the owner's answer; `Exec`, `ExecDenied`, `Queue`, `Return` the execution;
`Lockdown` is `authorizeObservation` when somebody has joined. `Introduce`,
`DecideRequests`, `Claim`, `Granted`, `Revoke`, `CloseRevoked`, `Revoked` are the
operators'. A tool-call id may be used again: the model takes what the agent
sends as it comes. One conversation and one agent; a grant is named by its
resource, since a second insert of the same identity finds the first row; the
audience is the owner alone; parameters and values are left out.

### Filesystem writes (`FsDirectory`)

One file of one granted directory. `target`, `stage` and `data` are the host's
file system: which inode a name leads to, and the content of each; contents are
named after whoever wrote them first, so that "the same content" and "the same
file" are different questions, as in `inspect()`. `effect`, `journal`, `phase`,
`publish`, `preimage`, `receipt` are the driver's files. A transaction is
synchronous, so there is one; but editors of the host, failures and death come
between any two system calls: `Inspect`, `Intent`, `Open`, `Staged`, `Write`,
`Plan`, `Recheck`, then `Link`, `Exchange` (or `ExchangeRefused`, `Identify`,
`Fallback`) or `Rename`, then `CheckSwappedOut`, `Unlink`, `Final`, `Published`,
`WriteReceipt`, `Applied`, and `Confirm` in the kit. `Fail` is any check or call
that fails, at any of them. A write may be queued on top of a pending one
(`after`), and its baseline is then what that one leaves. `MoveDirectory` takes
the bound directory out of its place. Left out: a second file, modes and times,
reuse of inode numbers, editors who open the driver's own stage files, reads and
listings (they fill a cache of snapshots that each write looks through); editors that
hold a descriptor of the target across the exchange, and go on writing into the file
that was swapped out (`apply.ts:181-185`).

### Update, rollback, backup (`UpdateTransaction`)

`state` is the cell's state directory, of which the model keeps what the command
compares or moves: the version in the lockfile, the grants, the barrier, the
newest runtime that has written there, the operator's configuration. `journal` and
`guard` are outside of it, as in the code. `running` is the runtime that is up,
`runs` the agent runs the kernel counts, `introducing` the introductions it does
not. The nine steps are `Resolve`, `PluginCompatibility`, `Backup`, `Stage`,
`Conformance`; `Pause`, `Drain`, `TakeDigest`, `Archive`, `StopGateway`; `Select`,
`Start`; `Verify`; `Pin`, `Commit`; then `Resume`. `restoreRuntime()` is
`CheckRestore` to `Reopen` with its two renames apart; `StartRollback` to `Refuse`
is `rollback()` of every state it accepts. Each may fail or be the last before a
death. The cell goes on: runs, introductions, revocations, edits, somebody who starts the
unit, a reboot. `AdminMaintenance` is `os.maintenance.set`, by which an administrator
pauses or opens the cell whenever it is up, also between any two steps of an update
or a rollback; `gkos kernel maintenance` asks `committedRuntime()` first, but when
the command begins, not when the call lands. `lifted` remembers that it opened the
cell of an update that was not over (`Unfinished`). `pauseAndDrain()` of a rollback
is two actions, `Repause` and `Quiesce`, because of it. `gkos backup restore` is there
with its renames and its put-back; it runs while no update does. The unit is started
by somebody (`StartUnit`) only while no updater, rollback or restore is at work: that
is assumed of the host, except of a reboot, which may come at any time.
Left out: a reinstallation of the same version, the schema number, two updating
commands that contend for one guard (`takeover` is one step), audits.

### Configuration (`CellConfig`)

Of a configuration the model keeps what its scalars and arrays say, as one value that
is named by what it is derived from (fragments, catalog), and the keys under its
objects, one for each content of the fragments but the first. Both merges of the code are `Merge`:
values are replaced, keys are united. The fragments are merged from nothing
(`Merged`), so what they derive has their own key at most; the patch is merged into the
live file (`Patched`, `config-transaction.mjs`), where keys stay that nobody asks for
any more, or that an edit has added. Deletion by `null` is left out: `mergeAll()`
consumes a `null` where an earlier fragment has the object around it (`merge.ts:19-31`),
and only one in an object that no earlier fragment has gets as far as the patch.
`live` is `openclaw.json`, with
the paths the OS owns and the rest, both of which others edit; its revision is its
content. `applied`, `generated`, `lock`, `stash` are the checkpoint's files; `job` is
what each command remembers. `Derive`, `ReadOwned`, `GuardInSync`, `GuardPasses`,
`RecheckCatalog`, `Patch`, `Lint`, `Restart`, `WriteApplied`, `WriteGenerated`,
`WriteCheckpoint` are `reconcile()`, for both commands; `Preflight`, `SetUp`,
`Project`, `Service`, `Finish` the rest of `install`. Any command can stop after any
of them (`Fail`). `EditFragments` may bring an earlier content of the fragments back. `EditLive`
changes a value, adds or removes a key, or edits what the OS does not own.
`CommitUpdate` is the last write of an update. Two installs at once, and two applies
at once, are not modelled (one of each is).

### Accounts (`AccountRouting`)

One operator, one vendor, either `static` (provisions from a configured secret) or
`oauth`. `nonces` are the pending entries of each generation's flow with their
stage; `handlers` are browser requests, which may carry any nonce to either end at
any time. `account`, `record`, `refresh` are the account in memory, its file, and
`TokenStore`'s refresh with whether its generation has moved. `exchange` are
`withServer()` operations: lookup, the control without a bearer, connect, list,
call. `Timeout` closes the transport, except that a lookup goes on. `Stop` and
`Restart` leave what the old generation awaits under way; `Crash` does not.

## Runs

| Run | Instance | Checks |
|---|---|---|
| `crash` | 1 call, 1 operator, 1 drainer, 2 actions, kinds `auto` (revertible) and `awaited`, 1 death or stop; 638 408 states | `TypeOK`, `AtMostOnce`, `IntentFirst`, `StoresAgree`, `PendingIsQueued`, `SameOrder`, `ReadYourWrites`, `InOrder`, `NoRetry`, `LedgerSpec` |
| `race` | 2 calls, 2 operators, 2 actions, kinds `manual` (revertible) and `awaited`, no death; 1.3 million states up to symmetry | `AtMostOnce`, `StoresAgree`, `InOrder` |
| `live` | 1 call, 1 operator, 1 drainer, 2 actions, kind `auto`, no death, fair | `EveryoneFinishes`, `DrainProgress` |
| `authority` | as `crash` | finds `EffectUnderAuthority` violated |
| `shutdown` | as `crash` | finds `ClosedIsQuiet` violated |
| `kernel` | 1 resource, 1 request row, 1 call id, 2 operators, 2 calls, 1 revocation, 1 end of the kernel, fair; 194 400 states | `TypeOK`, `EndedForever`, `RevokedMeansOver`, `RequestSettlesOnce`, `ClaimHasOwner`, `CommandsEnd` |
| `fs` | 2 queued writes, 2 changes by editors, 1 death, both ways to publish; 828 881 states | `TypeOK`, `ReceiptMeansCas`, `LostOnlyByRename`, `SettledIsClean`, `RevertRestores` |
| `update` | versions 0 to 2, 1 grant, 1 edit, 2 deaths or reboots, 1 backup restore, a barrier lifted at any time; 1 880 187 states | `TypeOK`, `AdmissionAfterCommit`, `CommitKeepsGrants`, `OldNeverOnNewState`, `SettledConsistent`, `RestoreKeepsRevocations` |
| `update_stale` | versions 0 and 1, 1 grant, 1 death | finds `RevokedStaysRevoked` violated |
| `config` | fragments that change between 2 contents, 1 new distribution, 1 edit of the live file, 1 update, 3 commands; 3 668 136 states | `TypeOK`, `ForeignEditsSurvive`, `InSyncIsInSync`, `SettledService`, `PinLostOnlyByOverlap` |
| `config_merge` | as `config` | finds `RemovedIsRemoved` violated |
| `accounts` | 2 browser requests, 2 exchanges, 3 nonces, 2 starts of the driver, 1 revocation; 561 861 states | `SingleUse`, `RevokedStaysRevoked`, `SilentAfterTimeout` |

What the properties say:

- `AtMostOnce`: an effect happens at most once, its reversal at most once and
  only after it, whatever fails ambiguously, crashes or is decided twice.
- `IntentFirst`: the kernel's row shows the fail-closed intent before the
  resource is touched, so a restart never offers the action again.
- `StoresAgree`: an outcome the kernel reports is the driver's, and the truth.
- `PendingIsQueued`: whatever a crash tears, an action whose effect agents see
  simulated has a bound row through which it can be decided.
- `SameOrder`: the two id orders agree (if not, `perform` and `applyRecorded`
  would block each other for ever).
- `ReadYourWrites`: a session that may read sees exactly the undecided effects,
  also after a crash between the files.
- `InOrder`: a step property, for all three ways to an effect.
- `NoRetry`: an unknown outcome stays unknown: there is no way back.
- `LedgerSpec`: the pipeline refines `EffectLedger`, with the fate of an action
  read off its journal record: effects happen only while a fate is open, in
  order, once, and a closed fate is the truth.
- `EveryoneFinishes`: no process waits for ever on the nested queues.
- `DrainProgress`: with authority, no maintenance and sessions that open, the
  first auto-approvable action is decided, or the resource needs reconciliation.

Of authority:

- `RevokedMeansOver`: once `revoke()` has returned, no call that passed its checks
  has a session left to go on in, also if the session was opened by a preflight
  that began before the revocation and ended after it.
- `EndedForever`: neither a request approved late nor a second introduction makes
  a revoked or locked-down grant active again.
- `RequestSettlesOnce`, `ClaimHasOwner`: operators who decide overlapping lists of
  requests settle each one once; one that is claimed is being worked on, or the
  kernel ended since.
- `CommandsEnd`: a revocation ends although calls on their way open further
  sessions of the grant while it closes them.

Of filesystem writes:

- `ReceiptMeansCas`: a receipt of a link or an exchange proves a compare-and-swap:
  the very file the write was decided against was replaced. This is what a revert
  relies on.
- `LostOnlyByRename`: what an editor wrote is under some name or in a preimage,
  unless a record says that a plain rename published. After that the property says no
  more about that resource.
- `SettledIsClean`: a resource that is open again carries no trace of a half-done
  write; every half-done one closes it.
- `RevertRestores`: with writes on top of writes, each revert takes away what its
  own action published, and brings back what that replaced.

Of updates:

- `AdmissionAfterCommit`, `OldNeverOnNewState`, `SettledConsistent`: the target takes
  no work before its commit is in the journal; no older runtime meets the state of
  a newer one; an update that is over is of one version in all three places.
- `CommitKeepsGrants`: an update commits under the grants that its digest names. An
  introduction that waited for its vendor while the cell was drained, and inserts its
  grant after the digest was taken, stops the commit.
- `RestoreKeepsRevocations`: barrier, second archive and digest leave no gap through
  which the first restoration could bring a revoked grant back.

`AdmissionAfterCommit`, `CommitKeepsGrants` and `RestoreKeepsRevocations` speak of cells
whose barrier no administrator has lifted (`lifted`). That is a limit of the code and
not of the model: lifted between the drain's last look and the stop of the gateway, or
during the rollback of a committed update, all three are false (see "Met while
modelling"). The two about versions hold with a barrier that is lifted at any time.

Of configuration:

- `ForeignEditsSurvive`: between the guard and the commit there is no gap, for values
  and for keys.
- `InSyncIsInSync`: it is decided from three files that are written one after
  another by commands that break off; together they still never lie: everything that
  fragments and catalog ask for is in the live file, and one more patch would change
  nothing. That nothing else is there is not promised, and not so: see
  `RemovedIsRemoved` under findings.
- `SettledService`: the service was started with what the checkpoint describes, but
  for the gaps that `disturbed` names.
- `PinLostOnlyByOverlap`: a checkpoint written from a lockfile read long before
  takes an update's pin away only if the update committed in between. That loss itself
  happens, and is left out by `update = "alone"`.

Of accounts:

- `SingleUse`: one connect leads to at most one account or code exchange.
- `RevokedStaysRevoked`: neither provisioning nor refresh of the running driver
  brings a revoked credential back. Operations of an earlier start of the driver may,
  and so may a connection begun before the revocation and completed after it, which
  counts as new; the property leaves both out.
- `SilentAfterTimeout`: the late answer of a resolver starts no request.

Every property has a mutant of a modelled definition that breaks it under the
same configuration; the mutants stand next to the definitions they change.

### Bounds

`MaxActions` = 2 is the least at which order, overtaking and the overlay of an
earlier action matter; ids only meet in pairs in the code ("earlier than").
`MaxCrashes` = 1 death (or stop) shows every state a torn stretch can leave to
its successor; recovery itself is then run to the end, and a second death would
find a state that the first could have left. `race` drops crashes and the
drainer to afford two calls and two operators. The proofs have no bounds:
`MaxActions`, `MaxCrashes` and all sets of processes are arbitrary.

Processes that have nothing left to do are idle and can start again, and
maintenance can always be toggled while the kernel is up; so deadlock is
checked in every run of the pipeline, and for the like reason in `update`.

The other bounds:

- `kernel`: two operators are what an overlap needs. One call id used for two calls
  (`MaxCalls`) lets the second meet the stash and the decision of the first. A
  grant that was revoked cannot be revoked to another effect: one is enough.
- `fs`: the second write is the one whose baseline is another's receipt. One editor
  can come between check and system call, a second between that and the look at
  what was swapped out. After a death no transaction is taken up again.
- `update`: three versions, so that an update can follow an update and the archive
  of one be older than the directory of the other. Two deaths: one leaves the
  journal in the middle of a restoration, the other interrupts the next. `Settings` is
  lifting alone: a barrier that is set by an administrator too is one more way into the
  states that `Pause` and `Repause` lead to (`update_stale` has both, and so have the
  proofs). `Backups` are open cells of the first version with their first configuration
  and no grants: the properties about versions and revocations leave out what a restored
  archive brings with it, and the proofs have archives of any cell.
- `config`: three commands, so that a third finds what two that overlapped or broke
  off have left. One edit each of the live file and the distribution: two edits are
  one, or the second takes the first back, which a comparison of contents cannot tell
  from none. An edit that brings back what was recorded or published (`TakenBack`) can
  happen with one. Fragments go to and fro, for a command compares them with what
  another generated. A service that is not restarted (below, under findings) takes a
  fourth command after two that broke off, which `disturbed` leaves out.
- `accounts`: a connect draws two nonces; the third is a second connect's. The
  second start of the driver is the one that finds what the first left under way.

`fs`, `config`, `kernel` and `accounts` run with deadlock unchecked: writes,
commands, calls and nonces are bounded there, and when all are used up nothing is
left to do. In every proof these bounds are arbitrary natural numbers.

### Fairness

`FairSpec` assumes that every await of a step under way settles (weak
fairness per process): calls to a driver have timeouts or return. It assumes
that whoever stays in a queue gets its turn (strong fairness of the steps that
take a queue): both queues are promise chains, served in order. It assumes that
the 30 s timer fires (weak fairness of `StartDrain`). It assumes nothing of
agents, operators, revocation, shutdown and crashes. `live` runs with
`MaxCrashes` = 0: a death ends everything under way, which satisfies
`EveryoneFinishes` trivially.

`KernelAuthority` assumes weak fairness of `CommandStep(o)`, the steps of a command
that an operator has begun: what it awaits (a driver that introduces, a session
that closes) settles either way. Calls, agents and observers are assumed nothing
of. The other models state no fairness: all their properties are of safety.

## Findings

Four statements of comments and documents that the code does not keep, each a
run that TLC must find violated:

1. `EffectUnderAuthority`: `actions.ts:12` calls `authorize()` the final check
   "immediately before an effect". The effect still waits for the driver's queue
   after it, and begins even if the grant was revoked meanwhile.
2. `ClosedIsQuiet`: `actions.ts:54` and the kernel's README say that shutdown
   waits for effects in flight. It waits for decisions, not for effects of
   synchronously approved calls.
3. `RevokedStaysRevoked` of `UpdateTransaction`: `docs/updating.md:52-53` says that
   rollback's refusals prevent a stale archive from reactivating revoked
   capabilities. The grants are compared only if the journal says `committed`
   (`update.ts:383`). A rollback that dies after it has reopened admission, and
   before it writes `rolled-back`, leaves an open cell under `rolling-back`; what is
   revoked on it then comes back when `gkos rollback` is run again.
4. `RemovedIsRemoved` of `CellConfig`: `merge.ts:5-6` calls the generated file "a
   faithful preview of what the patch will do", and `merge.test.ts:4-6` says that
   without that "the diff we show the operator becomes a lie". The diff is taken
   between what was generated last and what is generated now, and calls a key that
   was dropped from the fragments `removed` (`config-apply.ts:100`, `merge.ts:62`). The
   patch is what is generated now, without that key, and `config-transaction.mjs:9-17`
   merges it into the live file, which keeps the key. It is then digested as the OS's
   own (`config-apply.ts:138`), and every later run says "already in sync". The two
   merges are of the same semantics, as the test demands; it is what they are applied
   to that differs.

Met while modelling, where no document says otherwise:

- Pipeline: a synchronous call submitted behind an undecided deferred action
  becomes `uncertain` without any effect, and closes the resource
  (`kit-gatekeeper.ts:127`); nothing in the program reconciles an uncertain record;
  a refusal by the driver after the claim leaves the row `failed` for good. The row of
  a synchronously approved action stays pending after its call applied it
  (`approvals.ts:15`, `kit-gatekeeper.ts:118-120`): it is offered for decision, and bars
  later actions, until somebody applies it, which the driver answers as already
  applied. (`docs/threat-model.md:35` describes such a settlement, of a candidate kernel
  that is not this one.)
- Kernel: introducing a revoked resource again reports it as granted although the
  old row stays (`kernel.ts:98`, `store.ts:36`). A request left `resolving` by a
  death is never listed again. The session of every preflight, also of one that is
  denied, stays open to the end of the conversation (`kernel.ts:49`). A decision of
  the owner outlives a call that is denied before it consumes it (`kernel.ts:66`).
- Update: nothing keeps the barrier of an update down. `os.maintenance.set` is answered
  at any time, `gkos kernel maintenance` asks `committedRuntime()` only when it begins,
  and after the last look of the drain (`update.ts:140`) nobody looks again before
  `verify` (`:234`). Lifted before the gateway is stopped (`:193`), the target starts open
  and takes work before its commit; a grant that is revoked meanwhile is active in the
  archive, `verify` refuses, and the restoration brings it back. The like happens in the
  rollback of a committed update, between its drain and its restoration (`:384-392`).
- Update: introductions under way are not counted by the drain. A grant that one
  inserts between digest and second archive fails `verify`, and then, since the archive
  has it too, the verification of the restoration: the cell is left in
  `recovery-required`, and every later rollback of it ends there again. A death between
  the two renames of a restoration leaves no state directory, and a second rollback
  finds no lockfile. `gkos backup restore` knows neither guard, journal, drop-in nor
  barrier, and compares no versions.
- Configuration: dropping a key from the fragments does not remove it from the live
  file, and a `null` over an object that an earlier fragment has does not either: it is
  consumed when the fragments are merged (`merge.ts:23-26`). A forced run over an edit
  that has added a key under an owned path leaves the key, which is the OS's own from
  then on.
- Configuration: an install that dies between its reconciliation and its restart
  never makes up for it (`install.ts:228`). A death between the patch and the
  checkpoint makes the next run report the OS's own write as a conflict. What is worth
  a restart is told by comparison with `config.generated.json` (`config-apply.ts:97`),
  not with the live file or the checkpoint. If one apply dies between writing that file
  and its checkpoint, and a second, forced, with the fragments taken back, between its
  restart and its own `config.generated.json`, then the first change made once more is
  no change to the generated file and no conflict with the checkpoint: it is patched,
  checkpointed and not restarted for, although `docs/implementation-plan.md:768` has
  changed restart-requiring paths restarted for. It takes two such deaths and a
  reversal; `SettledService` leaves cells with either of them out. An adopting
  apply does not look at `config.state.json`. Two installs at once may lose an entry
  of `cells.json` (`install.ts:271-281`).
- Accounts: no vendor of the repository implements `completeConnection`, and only
  tests call an account's `revoke()` or `TokenStore.refresh()`. A provisioning or
  refresh of a driver that was stopped still writes its record, over the tombstone
  of its successor.

## Proofs

### The action pipeline

The three proof modules of the pipeline prove, for every value of the constants that satisfies `KitAssumption` and `PipelineAssumption` (kinds are kinds, process sets are
disjoint; TLC evaluates both on every run):

| Theorem | States |
|---|---|
| `Invariance` | `Spec => []PipelineInv`, the inductive invariant |
| `TypeCorrect` | `Spec => []TypeOK` |
| `AtMostOnceHolds` | `Spec => []AtMostOnce` |
| `StoresAgreeHolds` | `Spec => []StoresAgree` |
| `SameOrderHolds` | `Spec => []SameOrder` |
| `InOrderHolds` | `Spec => InOrder`, a step property |
| `NoRetryHolds` | `Spec => NoRetry`, a step property |
| `LedgerImplemented` | `Spec => LedgerSpec`: the pipeline implements `EffectLedger` |
| `FullInvariance` | `Spec => []IndInv`, the inductive invariant with what is shown |
| `IntentFirstHolds` | `Spec => []IntentFirst` |
| `PendingIsQueuedHolds` | `Spec => []PendingIsQueued` |
| `ReadYourWritesHolds` | `Spec => []ReadYourWrites` |

None of these properties is inductive. `AtMostOnce` needs to know that a process about to
act finds `applies` at 0; that needs the journal to say `applying` only while
the one holder of the driver's queue is at work, which needs the queue to have
one holder, the holder to work on a record that exists, and a decider to work
on the row it has claimed. `PipelineInv` says all that in named parts:

- per process: `LockOK` (where it is, which queue it holds there), `WorkOK` (its
  record and row exist), `JournalOK` (what the journal and the resource say
  while it works), `ClaimOK` (its intent is in the row, and what it confirms is
  in the journal);
- of the stores: `OrderInv` (ids and rows in order), `HistoryInv` (what the
  resource went through in each state of the journal), `OutcomeInv` (the rows'
  outcomes are the journal's).

The proof is by rely/guarantee, so that 40 actions do not meet every process:
`Undisturbed(q)` is what the step of another process leaves alone, because
whoever writes a record or a status holds the queue for it. `Rely`: `ProcOK(q)`
survives any step that leaves `q` undisturbed. `Guarantee(p)`: each action of `p`
keeps the stores, places `p` well and leaves all others undisturbed. `Compose`
puts the two together. Deaths idle every process, so only the stores matter.

The step properties and the refinement rest on one more lemma, `JournalLife`:
with `PipelineInv`, every step leaves the journal and the resource alone, takes
one record along one of the 13 edges in `Lawful`, or is an effect. No edge
leaves `uncertain`, which is `NoRetry` for the journal. Its counterpart for the
rows is `RowsLive`: a row is added together with the record of a submission, and
moves only by claims and by decisions that say what the journal says. `EffectKnown` says which effects there are, and that
one that applies has every earlier action decided, which is `InOrder`. Mapped by
`Fate`, each edge is a step of the ledger or leaves the fate open (`MoveMaps`),
and each effect is its `Apply` or `Revert` (`EffectMaps`).

What operators and agents are shown needs more: `IndInv` adds
three parts to `PipelineInv`, and `ViewOK` to each process.

- `IntentInv`: the row of a deferred action carries the intent from the moment the
  driver saves `applying`, whatever becomes of the record afterwards. `IntentFirst`
  is not inductive: the effect comes two steps after the claim, and it is the record
  in between that rules out a row that is still pending.
- `QueueInv`: a record past `submitting` is listed. The kernel's row is written while
  the record still says `submitting`, and only the caller that got the row back
  (`accepted`) makes it pending. Both follow from `JournalLife` and `RowsLive`,
  without a case for each action.
- `OverlayInv`: while some session is live, no decided record has an entry, and every
  pending one has its own or a caller who is about to add it (`Simulating`). It speaks
  of states in which records are unsettled too, because a live session and a recovery
  can come to be while another caller is half way. The overlay is written only by who
  holds the driver's queue, so this part is again by rely/guarantee: `Mine(p)` is a
  step that moves only `p` and touches the driver's files only with that queue.

### The other components

Each module's assumption (bounds are natural numbers; names that must differ do)
is stated where the constants are declared, and TLC evaluates it in the run.

| Module | Theorem | States |
|---|---|---|
| `KernelAuthorityProofs` | `TypeCorrect` | `Spec => []TypeOK` |
| | `EndedForeverHolds` | `Spec => EndedForever`, a step property |
| | `RevokedMeansOverHolds` | `Spec => []RevokedMeansOver` |
| | `RequestSettlesOnceHolds` | `Spec => RequestSettlesOnce`, a step property |
| | `ClaimHasOwnerHolds` | `Spec => []ClaimHasOwner` |
| `FsDirectoryProofs` | `TypeCorrect` | `Spec => []TypeOK` |
| | `ReceiptMeansCasHolds` | `Spec => []ReceiptMeansCas` |
| | `LostOnlyByRenameHolds` | `Spec => []LostOnlyByRename` |
| | `SettledIsCleanHolds` | `Spec => []SettledIsClean` |
| | `RevertRestoresHolds` | `Spec => []RevertRestores` |
| `UpdateTransactionProofs` | `TypeCorrect` | `Spec => []TypeOK` |
| | `AdmissionAfterCommitHolds` | `Spec => []AdmissionAfterCommit` |
| | `CommitKeepsGrantsHolds` | `Spec => []CommitKeepsGrants` |
| | `OldNeverOnNewStateHolds` | `Spec => []OldNeverOnNewState` |
| | `SettledConsistentHolds` | `Spec => []SettledConsistent` |
| | `RestoreKeepsRevocationsHolds` | `Spec => RestoreKeepsRevocations`, a step property |
| `CellConfigProofs` | `TypeCorrect` | `Spec => []TypeOK` |
| | `ForeignEditsSurviveHolds` | `Spec => ForeignEditsSurvive`, a step property |
| | `InSyncIsInSyncHolds` | `Spec => []InSyncIsInSync` |
| | `PinLostOnlyByOverlapHolds` | `Spec => []PinLostOnlyByOverlap` |
| | `SettledServiceHolds` | `Spec => []SettledService` |
| `AccountRoutingProofs` | `TypeCorrect` | `Spec => []TypeOK` |
| | `SingleUseHolds` | `Spec => []SingleUse` |
| | `RevokedStaysRevokedHolds` | `Spec => RevokedStaysRevoked`, a step property |
| | `SilentAfterTimeoutHolds` | `Spec => []SilentAfterTimeout` |

The arguments:

- **Authority.** `CallInv`: a call that is under way has a resource and a session name
  of its own, so that no other call can open its session again. `RevokedMeansOver`
  is then inductive: only `Exec` brings a call to `running`, and it looks at the grant; a revocation keeps its operator until no
  session of the grant is left. `RequestStep` says which of four things a step
  does to the requests; with `OwnerInv` (an operator at a row finds it `resolving`,
  and is alone there) it gives both properties of requests.
- **Filesystem writes.** `JobInv` says for each place of a transaction what its
  records are and that what an exchange put aside lies untouched under the stage's
  name; `NameInv` that the file's name leads to a transaction's inode only if that
  one published. An editor may change the file in between, so these speak of what an
  editor cannot reach. They give `ReceiptMeansCas`. For `LostOnlyByRename`, nothing an
  editor owes may be overwritten: `StageInv` says that stages and their inodes are
  empty until they are written, and that what is unlinked is the swapped-out
  baseline, which the preimage holds; `PreimageInv` that a preimage is sealed once;
  `FreshInv` that no stage has an inode that an editor has still to create.
  For `SettledIsClean`, `CleanInv` relates the four places in which a write leaves
  something in every order in which it can break off: `RecordInv` (no receipt before
  the transaction's record; a record that says applied means stage gone, preimage
  and receipt there), `PlaceInv` (what is done by each label), `JournalInv` (the
  kit's status of the action says how far both of its transactions are). For
  `RevertRestores`, `RevertInv`: preimages and receipts are written once
  (`WrittenOnce`), the action of a revert stays what it was while the revert runs
  (`JobStays`), and so a revert is decided against what its action published, even
  if writes stacked on it were reverted before.
- **Updates.** Eight named parts: `PlaceInv` (what the process knows at each
  label), `MirrorInv` (memory and journal agree, or the label says how not),
  `JournalInv` (step and state belong together), `KernelInv`, `BarrierInv` (paused
  between the drain and the commit), `VersionInv` (lock, drop-in and archive in each
  state of the journal), `TouchInv` (which runtimes have written to the directory and
  the archive), `GrantInv` (what was withdrawn is not active in the archive as long
  as nobody can revoke; afterwards the digest differs). What `BarrierInv` and `GrantInv`
  say of the barrier and of revocations is under `~lifted`; `VersionInv` and `TouchInv`
  need none of it. One lemma for each group of actions.
- **Configuration.** `CheckpointInv`: wherever a fingerprint and a digest are
  recorded, in the lockfile, in the stash and in what a command remembers, the digest
  has everything that the fingerprint asks for (`Has`; `Merging`: what a merge publishes
  has its patch); so a run that finds both as it wants them has found a live file with
  all it asks for. It also says that who is about to patch has found its owned paths as
  recorded, or was told to go on, which is `ForeignEditsSurvive`. `PinInv`: after an
  update that met nobody at work, no install gets past its preflight, and what an apply
  remembers of the lockfile has the pin.
  `SettledService` needs what a command owes when it finds that nothing changed.
  `ArmedInv`: whoever gets as far as a lockfile has derived, published and started
  something. `ServiceInv`: as long as nothing was disturbed, one command is at work at
  most; what was recorded last has what was generated last, unless a checkpoint is just
  being written; and the service runs what was recorded last wherever the live file
  holds it, unless a restart is still to come (`Debt`). `Runs` is what a command knows
  that works alone: one that owes no restart found, and leaves, what was generated
  last. The attempt at this proof, with fragments that only ever changed to something
  new, is what showed that they must be able to come back.
- **Accounts.** `NonceInv`: of one connect at most one nonce is pending, and none once
  it was gone through with. `AccountInv`: a refresh of the running driver that may
  still store finds a credential; its provisioning, one at a time and before there
  is an account, writes nothing where it began after a revocation.
  `SilentAfterTimeout` is inductive with the types alone.

### Only model-checked

Liveness: `EveryoneFinishes`, `DrainProgress` and `CommandsEnd`, which need fairness
and ENABLED and so are out of the prover's reach. Every invariant and every action
property that a passing run checks is also the subject of a theorem above, and so is
the refinement. The four runs that find a violation check what does not hold.

## Not modelled

- **Audit log**: an append-only file that no decision reads.
- **Upstream hand-off and channel authority**: adapters to the host's plugin API,
  whose behaviour is outside the repository.
- **GitHub gatekeeper**: requests to a remote service. Its use of the kit is any
  driver's in `ActionPipeline`.
- **Cache mutation store, JSON5, redaction, the merges of trees** beyond what
  `CellConfig` keeps of them: sequential algorithms on text and trees with their own
  tests; the models take their result.
- **Types, schemas, blueprints, conformance, installer, doctor, status**: no state
  that two steps could disagree on.
- **Disk errors in a process that lives on** (`atomic-json.ts:14`): a write that took
  effect and throws leaves memory and file apart.
- **Several kernel objects** in one process, between which runs are counted twice or
  not at all: which one a hook reaches is the host's choice.
- **Notifications**: at most one attempt each; nothing depends on one.

## Plan

Done: the action pipeline with its ledger; authority and calls; filesystem
transactions; update, rollback and backup; configuration; accounts; and proofs about
each.

Left, in the order of what a mistake would cost:

1. Abstract specifications for the filesystem (a compare-and-swap register with a
   receipt) and the update (an atomic switch of versions), and the refinements.
2. A composition of `KernelAuthority` with `ActionPipeline`, in place of the one
   variable `authority`.
3. Disk errors in a live process; a second file, and transactions in both.
4. Merge of fragments and the replay of cached mutations against reference
   definitions.
