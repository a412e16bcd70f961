----------------------------- MODULE CellConfig -----------------------------
(* gkos config apply and gkos install on one cell (gkos-cli/src/commands/      *)
(* config-apply.ts, install.ts): fragments and catalog are reconciled into the  *)
(* live configuration, which others edit too, and checkpointed in three files,  *)
(* while an update may commit its pin.  Of a configuration the model keeps what  *)
(* its scalars and arrays say, as one value named for what it is derived from,   *)
(* and the keys under its objects; a revision is the file's content.             *)
EXTENDS Naturals, FiniteSets

CONSTANTS MaxFragments, \* bound: other contents of the fragments in os/config.d
          MaxBundles,   \* bound: newer distributions of gkos that are installed
          MaxEdits,     \* bound: edits of openclaw.json by others
          MaxRuns       \* bound: commands that are begun

ASSUME ConfigAssumption == {MaxFragments, MaxBundles, MaxEdits, MaxRuns} \subseteq Nat

Procs == {"install", "apply"}
Edited == <<"edited", 0, 0>>
Nothing == <<"unset", 0, 0>>
Values == ({"os"} \X (0..MaxFragments) \X (0..MaxBundles)) \cup {Edited, Nothing}
Keys == 1..MaxFragments  \* one of each content of the fragments but the first
Owned == [value : Values, keys : SUBSET Keys]
Unset == [value |-> Nothing, keys |-> {}]
Live == [owned : Owned, other : 0..MaxEdits]

NoCatalog == MaxBundles + 1
NoLock == [pin |-> 0, fingerprint |-> Unset, digests |-> Unset]
Checkpoint(d, o) == [fingerprint |-> d, digests |-> o]
NoStash == Checkpoint(Unset, Unset)

VARIABLES
  fragments,  \* os/config.d, as the operator left it
  bundle,     \* the distribution that the next install projects
  catalog,    \* os/gatekeepers.json and the fragment that goes with it
  live,       \* openclaw.json
  applied,    \* gatekeepers.applied.sha256
  generated,  \* config.generated.json
  lock,       \* gkos.lock.json; pin is 1 with a verified update runtime
  stash,      \* config.state.json
  loaded,     \* what the service was started with, or Unset: it is down
  job,        \* the commands that run
  runs, edits,
  disturbed,   \* history: two commands overlapped, one broke off between its patch and its
               \* checkpoint or restart, or an edit was taken back
  update       \* history: an update committed, alone or while a command was at work

files == <<live, applied, generated, lock, stash>>
inputs == <<fragments, bundle, catalog, edits>>
vars == <<files, inputs, loaded, job, runs, disturbed, update>>

Idle == [pc |-> "idle", force |-> FALSE, catalog |-> NoCatalog, desired |-> Unset, changes |-> FALSE,
         revision |-> [owned |-> Unset, other |-> 0], lock |-> NoLock, owed |-> FALSE]

Init ==
  /\ fragments = 0 /\ bundle = 0 /\ catalog = NoCatalog /\ edits = 0
  /\ live = [owned |-> Unset, other |-> 0]
  /\ applied = NoCatalog /\ generated = Unset /\ lock = NoLock /\ stash = NoStash
  /\ loaded = Unset
  /\ job = [p \in Procs |-> Idle] /\ runs = 0
  /\ disturbed = FALSE /\ update = "none"

-----------------------------------------------------------------------------
Step(p, from, to) == job[p].pc = from /\ job' = [job EXCEPT ![p].pc = to]
Set(p, from, j) == job[p].pc = from /\ job' = [job EXCEPT ![p] = j]
Quiet == UNCHANGED <<loaded, runs, disturbed, update>>

Begin(p, to, force) ==
  /\ runs < MaxRuns /\ runs' = runs + 1
  /\ Set(p, "idle", [Idle EXCEPT !.pc = to, !.force = force])
  /\ disturbed' = (disturbed \/ \E q \in Procs : job[q].pc # "idle")
  /\ UNCHANGED <<files, inputs, loaded, update>>

\* A dry run is one that goes no further than the guard.
ConfigApply == \E force \in BOOLEAN : Begin("apply", "derive", force)

Install == Begin("install", "preflight", FALSE)

\* Mutant: an updated cell is not told from any other.
PreflightAny ==
  /\ Step("install", "preflight", "setup")
  /\ UNCHANGED <<files, inputs>> /\ Quiet

\* Step 2: a cell with a verified update runtime is refused.
Preflight ==
  /\ lock.pin = 0 /\ Step("install", "preflight", "setup")
  /\ UNCHANGED <<files, inputs>> /\ Quiet

\* Steps 3 to 5: directories, keys, a minimal configuration and templates are made
\* where there are none; what is there stays.
SetUp ==
  /\ Step("install", "setup", "project")
  /\ UNCHANGED <<files, inputs>> /\ Quiet

\* Step 6, projectPlugins(): "changed" is remembered in memory only.
Project ==
  /\ job["install"].pc = "project"
  /\ job' = [job EXCEPT !["install"].pc = "derive", !["install"].owed = catalog # bundle]
  /\ catalog' = bundle
  /\ UNCHANGED <<files, fragments, bundle, edits>> /\ Quiet

\* mergeAll(): the fragments, among them the one that comes with the catalog.
Merged == [value |-> <<"os", fragments, catalog>>, keys |-> {fragments} \cap Keys]

\* The plugins are those that the catalog of this moment admits, whatever was merged.
Derived == [Merged EXCEPT !.value[3] = catalog]

\* diffPaths(): against what the last run generated; a new catalog is a change too.
Changes == generated # Derived \/ applied # catalog

Derive(p) ==
  /\ catalog # NoCatalog
  /\ Set(p, "derive", [job[p] EXCEPT !.pc = "read", !.catalog = catalog, !.desired = Derived,
                                     !.changes = Changes])
  /\ UNCHANGED <<files, inputs>> /\ Quiet

\* The revision, then the owned paths.
ReadOwned(p) ==
  /\ Set(p, "read", [job[p] EXCEPT !.pc = "guard", !.revision = live])
  /\ UNCHANGED <<files, inputs>> /\ Quiet

\* By content: nothing but the owned paths counts.
Digests(l) == l.owned

\* detectConflicts(): no recorded digests, nothing to conflict with.
Adopted(p) == lock.digests = Unset
Conflict(p) == ~Adopted(p) /\ Digests(job[p].revision) # lock.digests

\* Mutant: a forced run past a conflict is taken for a run with nothing to do.
InSyncForced(p) == ~job[p].changes /\ lock.fingerprint = job[p].desired

InSync(p) == ~job[p].changes /\ lock.fingerprint = job[p].desired /\ ~Adopted(p) /\ ~Conflict(p)

\* Where a reconciliation returns to, and what it owes the service.
Leave(p, from, changed) ==
  Set(p, from, IF p = "install" THEN [Idle EXCEPT !.pc = "service", !.owed = job[p].owed \/ changed] ELSE Idle)

GuardInSync(p) ==
  /\ Leave(p, "guard", FALSE) /\ live = job[p].revision /\ InSync(p)
  /\ UNCHANGED <<files, inputs>> /\ Quiet

\* The lock read here is the one rewritten at the end.
GuardPasses(p) ==
  /\ Set(p, "guard", [job[p] EXCEPT !.pc = "recheck", !.lock = lock,
                       !.owed = IF p = "apply" THEN job[p].changes \/ Conflict(p) ELSE @])
  /\ live = job[p].revision /\ (~Conflict(p) \/ job[p].force) /\ ~InSync(p)
  /\ UNCHANGED <<files, inputs>> /\ Quiet

RecheckCatalog(p) ==
  /\ Step(p, "recheck", "patch") /\ catalog = job[p].catalog
  /\ UNCHANGED <<files, inputs>> /\ Quiet

\* Scalars and arrays are replaced; objects are merged, and keep what they had.
Merge(base, patch) == [value |-> patch.value, keys |-> base.keys \cup patch.keys]

Patched(p) == [live EXCEPT !.owned = Merge(@, job[p].desired)]

\* Mutant: the revision is not handed to the transaction.
PatchBlindly(p) ==
  /\ Set(p, "patch", [job[p] EXCEPT !.pc = "lint", !.revision = Patched(p)])
  /\ live' = Patched(p)
  /\ UNCHANGED <<applied, generated, lock, stash, inputs>> /\ Quiet

\* transactionalPatch(): compare the revision and publish, in one upstream transaction.
Patch(p) ==
  /\ Set(p, "patch", [job[p] EXCEPT !.pc = "lint", !.revision = Patched(p)])
  /\ live = job[p].revision /\ live' = Patched(p)
  /\ UNCHANGED <<applied, generated, lock, stash, inputs>> /\ Quiet

\* The committed revision is read back, and linted.
Lint(p) ==
  /\ Step(p, "lint", "restart") /\ live = job[p].revision
  /\ UNCHANGED <<files, inputs>> /\ Quiet

\* Mutant: only a conflict is worth a restart.
RestartConflicts(p) == p = "apply" /\ job[p].owed /\ ~job[p].changes

\* An install leaves the restart to its ninth step.
RestartNeeded(p) == p = "apply" /\ job[p].owed

Restart(p) ==
  /\ Step(p, "restart", "check") /\ (RestartNeeded(p) => loaded # Unset)
  /\ loaded' = IF RestartNeeded(p) THEN live.owned ELSE loaded
  /\ UNCHANGED <<files, inputs, runs, disturbed, update>>

\* The last rechecks and the first of three writes.
WriteApplied(p) ==
  /\ Step(p, "check", "generated") /\ live = job[p].revision /\ catalog = job[p].catalog
  /\ applied' = job[p].catalog
  /\ UNCHANGED <<live, generated, lock, stash, inputs>> /\ Quiet

WriteGenerated(p) ==
  /\ Step(p, "generated", "checkpoint") /\ generated' = job[p].desired
  /\ UNCHANGED <<live, applied, lock, stash, inputs>> /\ Quiet

WriteCheckpoint(p) ==
  LET j == job[p] IN
  /\ Leave(p, "checkpoint", TRUE)
  /\ IF j.lock # NoLock
       THEN /\ lock' = [j.lock EXCEPT !.fingerprint = j.desired, !.digests = Digests(j.revision)]
            /\ UNCHANGED stash
       ELSE stash' = Checkpoint(j.desired, Digests(j.revision)) /\ UNCHANGED lock
  /\ UNCHANGED <<live, applied, generated, inputs>> /\ Quiet

\* Step 9: enable --now, and a restart when this run changed something.
Service ==
  /\ Step("install", "service", "finish")
  /\ loaded' = IF loaded = Unset \/ job["install"].owed THEN live.owned ELSE loaded
  /\ UNCHANGED <<files, inputs, runs, disturbed, update>>

\* Steps 10 to 12: a lockfile at the distribution's pin; the stash arms a first one.
Finish ==
  /\ Set("install", "finish", Idle)
  /\ lock' = [pin |-> 0,
              fingerprint |-> IF lock = NoLock THEN stash.fingerprint ELSE lock.fingerprint,
              digests |-> IF lock = NoLock THEN stash.digests ELSE lock.digests]
  /\ UNCHANGED <<live, applied, generated, stash, inputs>> /\ Quiet

\* Every step may fail, and the process may die; a command leaves what it has written.
Publishing == {"lint", "restart", "check", "generated", "checkpoint"}
Owes(p) == \/ job[p].pc \in Publishing
           \/ p = "install" /\ job[p].pc # "finish" /\ job[p].owed
Fail(p) ==
  /\ job[p].pc # "idle" /\ job' = [job EXCEPT ![p] = Idle]
  /\ disturbed' = (disturbed \/ Owes(p))
  /\ UNCHANGED <<files, inputs, loaded, runs, update>>

-----------------------------------------------------------------------------
\* Everybody else.

\* An edit may also bring an earlier content back.
EditFragments ==
  /\ fragments' \in (0..MaxFragments) \ {fragments}
  /\ UNCHANGED <<files, bundle, catalog, edits, loaded, job, runs, disturbed, update>>

Distribute ==
  /\ bundle < MaxBundles /\ bundle' = bundle + 1
  /\ UNCHANGED <<files, fragments, catalog, edits, loaded, job, runs, disturbed, update>>

\* An edit that brings back what is recorded, or what a command has published: no
\* digest and no revision tells it from no edit at all.
TakenBack(o) == o # live.owned /\ o \in {lock.digests, stash.digests} \cup {job[p].revision.owned : p \in Procs}

EditLive ==
  /\ edits < MaxEdits /\ edits' = edits + 1
  /\ \/ live' = [live EXCEPT !.owned.value = Edited]
     \/ \E k \in Keys : live' = [live EXCEPT !.owned.keys = IF k \in @ THEN @ \ {k} ELSE @ \cup {k}]
     \/ live' = [live EXCEPT !.other = edits + 1]
  /\ disturbed' = (disturbed \/ TakenBack(live'.owned))
  /\ UNCHANGED <<applied, generated, lock, stash, fragments, bundle, catalog, loaded, job, runs, update>>

\* Mutant: an update takes whatever pin it finds.
CommitAny ==
  /\ lock # NoLock /\ lock' = [lock EXCEPT !.pin = @ + 1] /\ UNCHANGED update
  /\ UNCHANGED <<live, applied, generated, stash, inputs, loaded, job, runs, disturbed>>

\* updateEffects().commit: an update sets the pin and the runtime in the lockfile.
HasRead(p) == job[p].pc \notin (IF p = "install" THEN {"idle", "preflight"}
                                ELSE {"idle", "derive", "read", "guard"})
CommitUpdate ==
  /\ lock # NoLock /\ update = "none" /\ lock' = [lock EXCEPT !.pin = 1]
  /\ update' = IF \E p \in Procs : HasRead(p) THEN "overlapped" ELSE "alone"
  /\ UNCHANGED <<live, applied, generated, stash, inputs, loaded, job, runs, disturbed>>

Reconcile(p) == \/ Derive(p) \/ ReadOwned(p) \/ GuardInSync(p) \/ GuardPasses(p) \/ RecheckCatalog(p)
                \/ Patch(p) \/ Lint(p) \/ Restart(p) \/ WriteApplied(p) \/ WriteGenerated(p) \/ WriteCheckpoint(p)
Next == \/ ConfigApply \/ Install \/ \E p \in Procs : Reconcile(p) \/ Fail(p)
        \/ Preflight \/ SetUp \/ Project \/ Service \/ Finish
        \/ EditFragments \/ Distribute \/ EditLive \/ CommitUpdate

Spec == Init /\ [][Next]_vars

-----------------------------------------------------------------------------
Labels == {"idle", "preflight", "setup", "project", "derive", "read", "guard", "recheck", "patch",
           "service", "finish"} \cup Publishing
Locks == [pin : 0..1, fingerprint : Owned, digests : Owned]
Jobs == [pc : Labels, force : BOOLEAN, catalog : 0..NoCatalog, desired : Owned, changes : BOOLEAN,
         revision : Live, lock : Locks, owed : BOOLEAN]

\* Every variable holds what its file or command can hold.
TypeOK ==
  /\ fragments \in 0..MaxFragments /\ bundle \in 0..MaxBundles /\ catalog \in 0..NoCatalog
  /\ live \in Live /\ applied \in 0..NoCatalog /\ generated \in Owned /\ loaded \in Owned
  /\ lock \in Locks /\ stash \in [fingerprint : Owned, digests : Owned] /\ job \in [Procs -> Jobs]
  /\ runs \in 0..MaxRuns /\ edits \in 0..MaxEdits
  /\ disturbed \in BOOLEAN /\ update \in {"none", "alone", "overlapped"}

\* Once a checkpoint is there, owned paths that are not as recorded are patched only
\* by a run that was told to: between the ownership guard and the commit there is no
\* gap for an editor or for another command (reconcile, transactionalPatch).
ForeignEditsSurvive ==
  [][\A p \in Procs : job[p].pc = "patch" /\ job'[p].pc = "lint" /\ live.owned # job[p].lock.digests
        => job[p].force \/ job[p].lock.digests = Unset]_vars

\* A patch with d would change nothing: everything that d asks for is there.
Has(o, d) == Merge(o, d) = o

\* "already in sync": whatever earlier runs left half written, everything that
\* fragments and catalog ask for is in the live file, and one more patch would
\* change nothing of it (reconcile).  Keys that nobody asks for may be there too.
InSyncIsInSync ==
  \A p \in Procs : job[p].pc = "guard" /\ live = job[p].revision /\ InSync(p) => Has(live.owned, job[p].desired)

\* "removed" in the diff that is shown to the operator is what the patch removes: the
\* generated file is a faithful preview of it (diffPaths, transactionalPatch).
RemovedIsRemoved ==
  \A p \in Procs : job[p].pc \in {"lint", "restart", "check", "generated"} /\ ~disturbed
    => job[p].revision.owned.keys \cap (generated.keys \ job[p].desired.keys) = {}

\* When nobody is at work and the checkpoint describes the live file, the service
\* was started with it, unless commands overlapped, one broke off between its patch
\* and its checkpoint or the restart it owed, or an edit was taken back (reconcile;
\* install, step nine).  What is worth a restart is told by comparison with the file
\* that was generated last, and not with the live one: after two commands that broke
\* off there, the second with the fragments taken back, the same change is patched a
\* third time and no longer restarted for.
SettledService ==
  (\A p \in Procs : job[p].pc = "idle") /\ lock # NoLock /\ live.owned = lock.digests /\ ~disturbed
    => loaded = live.owned

\* The pin of a committed update is lost only to a command that was already at work
\* when it committed (reconcile's last write, install's last step).
PinLostOnlyByOverlap == update = "alone" => lock.pin = 1
=============================================================================
