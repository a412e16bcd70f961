-------------------------- MODULE UpdateTransaction --------------------------
(* gkos update and gkos rollback (gkos-cli/src/commands/update.ts,             *)
(* util/update-transaction.ts): nine journaled steps that replace the runtime   *)
(* of a running cell, and the restoration of its archive, while operators,      *)
(* agents and reboots go on.  A runtime is the number of its version.           *)
EXTENDS Naturals, FiniteSets

CONSTANTS MaxVersion,   \* bound: the newest version there is
          Grants,       \* the resources an operator may introduce
          MaxEdits,     \* bound: edits of the cell's configuration
          MaxCrashes,   \* bound: deaths of the updating process, and reboots
          Settings,     \* bound: what administrators set the barrier to, of TRUE and FALSE
          Backups       \* bound: the states of the cell that gkos backup create archives

ASSUME UpdateAssumption == MaxVersion \in Nat /\ MaxEdits \in Nat /\ MaxCrashes \in Nat /\ Settings \subseteq BOOLEAN

Versions == 0..MaxVersion
Stopped == MaxVersion + 1

\* What an archive holds of the state directory: the lockfile's version, the
\* grants, the barrier, the newest runtime that wrote to it, the configuration.
States == [lock : Versions, active : SUBSET Grants, revoked : SUBSET Grants, maint : BOOLEAN,
           touched : Versions, config : 0..MaxEdits]
NoState == [lock |-> 0, active |-> {}, revoked |-> {}, maint |-> TRUE, touched |-> 0, config |-> MaxEdits + 1]

Terminal == {"committed", "rolled-back", "blocked"}
JournalStates == Terminal \cup {"none", "preparing", "staged", "maintenance", "activating",
                                "verifying", "rolling-back", "recovery-required"}
NoJournal == [state |-> "none", step |-> 1, from |-> 0, target |-> 0, dropIn |-> 0,
              archive |-> NoState, digest |-> <<{}, {}>>, config |-> 0]

VARIABLES
  journal,     \* ~/.gkos/updates/<cell>/current.json, outside the restored state
  guard,       \* current.json.running exists
  state,       \* the cell's state directory
  dropIn,      \* the runtime that the service unit selects
  running,     \* the runtime that is up, or Stopped
  runs,        \* agent runs the kernel has admitted and not yet seen end
  introducing, \* introductions that wait for the vendor inside the kernel
  pc,          \* where the updating process is
  mem,         \* its journal in memory
  before,      \* rollback(): the state it found
  crashes,
  kept,        \* an archive of gkos backup create
  withdrawn,   \* history: the grants revoked when the update began, or since
  lifted,      \* history: an administrator lifted the barrier of an unfinished update
  foreign      \* history: gkos backup restore has moved the state directory away

disk == <<state, dropIn>>
kernel == <<running, runs, introducing>>
proc == <<pc, mem, before>>
archives == <<kept, foreign>>
vars == <<journal, guard, disk, kernel, proc, crashes, withdrawn, lifted, archives>>

Init ==
  /\ journal = NoJournal /\ guard = FALSE
  /\ state = [NoState EXCEPT !.maint = FALSE, !.config = 0]
  /\ dropIn = 0 /\ running = 0 /\ runs = 0 /\ introducing = {}
  /\ pc = "idle" /\ mem = NoJournal /\ before = "none"
  /\ crashes = 0 /\ withdrawn = {} /\ lifted = FALSE /\ kept = NoState /\ foreign = FALSE

Up == running # Stopped
Digest == <<state.active, state.revoked>>
Drained == runs = 0

-----------------------------------------------------------------------------
\* executeUpdate(): the state a step is entered with, saved before it begins.

StateOf(step, was) == CASE step = 5 -> "staged" [] step = 6 -> "maintenance"
                        [] step = 7 -> "activating" [] step = 8 -> "verifying" [] OTHER -> was
Entering(step, j) == [j EXCEPT !.step = step, !.state = StateOf(step, j.state)]
Save(j) == mem' = j /\ journal' = j
Label(step) == CASE step < 6 -> "prepare" [] step = 6 -> "pause" [] step = 7 -> "select"
                 [] step = 8 -> "verify" [] step = 9 -> "pin"
EnterNext(j) == Save(Entering(mem.step + 1, j)) /\ pc' = Label(mem.step + 1)

Goto(from, to) == pc = from /\ pc' = to

\* Commands that are not the updater's wait until the journal says which runtime it is.
CommittedRuntime == journal.state \notin {"activating", "verifying", "rolling-back", "recovery-required"}

\* A downgrade needs the archive.
ForwardVersion(v) == v > state.lock

StartUpdate ==
  /\ Goto("idle", "prepare") /\ ~guard
  /\ journal.state \in Terminal \cup {"none"}
  /\ state # NoState
  /\ guard' = TRUE
  /\ \E v \in Versions : ForwardVersion(v) /\
       Save([NoJournal EXCEPT !.state = "preparing", !.from = state.lock, !.target = v, !.dropIn = dropIn])
  /\ withdrawn' = state.revoked /\ lifted' = FALSE
  /\ UNCHANGED <<disk, kernel, before, crashes>>

\* The first five steps leave the cell as it is.
Preparation(step, j) ==
  /\ pc = "prepare" /\ mem.step = step /\ EnterNext(j)
  /\ UNCHANGED <<guard, disk, kernel, before, crashes, withdrawn>>

Resolve == Preparation(1, mem)

\* The ranges of the pinned plugins, and a kernel that can be drained.
PluginCompatibility == Up /\ Preparation(2, mem)

\* One archive of the state directory as it is at this moment.
Snapshot(j) == [j EXCEPT !.archive = state]

Backup == Preparation(3, Snapshot(mem))
Stage == Preparation(4, mem)

\* Counts only as the report of this very run on this version, live and complete.
Reports == [own : BOOLEAN, live : BOOLEAN, complete : BOOLEAN, passed : BOOLEAN]
Verdict(report) == report.own /\ report.live /\ report.complete /\ report.passed

\* The staged runtime, on a state of its own, writes the report.
Conformance == \E report \in Reports : Verdict(report) /\ Preparation(5, mem)

SetMaintenance(on) == Up /\ state' = [state EXCEPT !.maint = on] /\ UNCHANGED dropIn

\* Step 6, in the order of the code: barrier, drain, digest, second archive, stop.
Pause ==
  /\ Goto("pause", "drain") /\ SetMaintenance(TRUE)
  /\ UNCHANGED <<journal, guard, kernel, mem, before, crashes, withdrawn>>

Drain ==
  /\ Goto("drain", "digest") /\ Up /\ state.maint /\ Drained
  /\ UNCHANGED <<journal, guard, disk, kernel, mem, before, crashes, withdrawn>>

TakeDigest ==
  /\ Goto("digest", "archive") /\ Up
  /\ mem' = [mem EXCEPT !.digest = Digest, !.config = state.config]
  /\ UNCHANGED <<journal, guard, disk, kernel, before, crashes, withdrawn>>

Archive ==
  /\ Goto("archive", "stop") /\ Save(Snapshot(mem))
  /\ UNCHANGED <<guard, disk, kernel, before, crashes, withdrawn>>

StopService == running' = Stopped /\ runs' = 0 /\ introducing' = {}

StopGateway ==
  /\ Goto("stop", "completed") /\ StopService
  /\ UNCHANGED <<journal, guard, disk, mem, before, crashes, withdrawn>>

\* The effect is there before the journal knows.
Completed ==
  /\ pc = "completed" /\ EnterNext(mem)
  /\ UNCHANGED <<guard, disk, kernel, before, crashes, withdrawn>>

\* The selected runtime comes up on the state it finds, and writes to it.
StartService(v, s) ==
  /\ s # NoState /\ running' = v /\ runs' = 0 /\ introducing' = {}
  /\ state' = [s EXCEPT !.touched = IF v > @ THEN v ELSE @]

Select ==
  /\ Goto("select", "start") /\ dropIn' = mem.target
  /\ UNCHANGED <<journal, guard, state, kernel, mem, before, crashes, withdrawn>>

Start ==
  /\ Goto("start", "completed") /\ StartService(dropIn, state)
  /\ UNCHANGED <<journal, guard, dropIn, mem, before, crashes, withdrawn>>

\* The gateway is up and names its version.
Answers(v) == running = v

\* Mutant: the grants are not compared.
VerifiedUncompared(v) == Answers(v) /\ dropIn = v /\ state.maint

Verified(v) == Answers(v) /\ dropIn = v /\ state.maint /\ Digest = mem.digest

Verify ==
  /\ pc = "verify" /\ Verified(mem.target) /\ EnterNext(mem)
  /\ UNCHANGED <<guard, disk, kernel, before, crashes, withdrawn>>

Pin ==
  /\ Goto("pin", "commit") /\ state.lock = mem.from
  /\ state' = [state EXCEPT !.lock = mem.target]
  /\ UNCHANGED <<journal, guard, dropIn, kernel, mem, before, crashes, withdrawn>>

\* Mutant: admission opens before the commit is recorded.
CommitResumed ==
  /\ Goto("commit", "resume") /\ SetMaintenance(FALSE)
  /\ UNCHANGED <<journal, guard, kernel, mem, before, crashes, withdrawn>>

\* Mutant: the step is counted up once more after the last action.
CommitPastTheEnd ==
  /\ Goto("commit", "resume") /\ Save([mem EXCEPT !.state = "committed", !.step = 10])
  /\ UNCHANGED <<guard, disk, kernel, before, crashes, withdrawn>>

Commit ==
  /\ Goto("commit", "resume") /\ Save([mem EXCEPT !.state = "committed"])
  /\ UNCHANGED <<guard, disk, kernel, before, crashes, withdrawn>>

Finish == pc' = "idle" /\ guard' = FALSE /\ mem' = NoJournal /\ before' = "none"

\* A failure to reopen leaves a committed, paused cell.
Resume ==
  /\ pc = "resume" /\ Finish
  /\ SetMaintenance(FALSE) \/ UNCHANGED disk
  /\ UNCHANGED <<journal, kernel, crashes, withdrawn>>

Forward == {"prepare", "pause", "drain", "digest", "archive", "stop", "select", "start",
            "completed", "verify", "pin", "commit"}

\* Any step may fail.  From the seventh on the target may be active: roll back.
FailActive ==
  /\ pc \in Forward /\ mem.step >= 7 /\ pc' = "restore"
  /\ Save([mem EXCEPT !.state = "rolling-back"])
  /\ UNCHANGED <<guard, disk, kernel, before, crashes, withdrawn>>

FailEarly ==
  /\ pc \in Forward /\ mem.step < 7 /\ Finish
  /\ \/ /\ mem.step < 6 /\ UNCHANGED <<disk, kernel>>
        /\ journal' = [mem EXCEPT !.state = "blocked"]
     \/ /\ mem.step = 6 /\ SetMaintenance(FALSE) /\ UNCHANGED kernel
        /\ journal' = [mem EXCEPT !.state = "blocked"]
     \/ /\ mem.step = 6 /\ (UNCHANGED kernel \/ (pc = "stop" /\ StopService)) /\ UNCHANGED disk
        /\ journal' = [mem EXCEPT !.state = "recovery-required"]
  /\ UNCHANGED <<crashes, withdrawn>>

-----------------------------------------------------------------------------
\* restoreRuntime(): put the archive back in the place of the failed state.

CheckRestore ==
  /\ Goto("restore", "halt")
  /\ mem.archive # NoState /\ state # NoState /\ state.config = mem.config
  /\ UNCHANGED <<journal, guard, disk, kernel, mem, before, crashes, withdrawn>>

\* Mutant: the old runtime is selected before the state is replaced.
HaltReselected ==
  /\ Goto("halt", "aside") /\ StopService /\ dropIn' = mem.dropIn
  /\ UNCHANGED <<journal, guard, state, mem, before, crashes, withdrawn>>

Halt ==
  /\ Goto("halt", "aside") /\ StopService
  /\ UNCHANGED <<journal, guard, disk, mem, before, crashes, withdrawn>>

MoveAside ==
  /\ Goto("aside", "replace") /\ mem.archive.lock = mem.from /\ state' = NoState
  /\ UNCHANGED <<journal, guard, dropIn, kernel, mem, before, crashes, withdrawn>>

Replace ==
  /\ Goto("replace", "reselect") /\ state' = mem.archive
  /\ UNCHANGED <<journal, guard, dropIn, kernel, mem, before, crashes, withdrawn>>

Reselect ==
  /\ Goto("reselect", "restart") /\ dropIn' = mem.dropIn
  /\ UNCHANGED <<journal, guard, state, kernel, mem, before, crashes, withdrawn>>

Restart ==
  /\ Goto("restart", "reverify") /\ StartService(dropIn, state)
  /\ UNCHANGED <<journal, guard, dropIn, mem, before, crashes, withdrawn>>

Reverify ==
  /\ Goto("reverify", "reopen") /\ Verified(mem.from)
  /\ UNCHANGED <<journal, guard, disk, kernel, mem, before, crashes, withdrawn>>

Reopen ==
  /\ Goto("reopen", "restored") /\ SetMaintenance(FALSE)
  /\ UNCHANGED <<journal, guard, kernel, mem, before, crashes, withdrawn>>

Restored ==
  /\ pc = "restored" /\ Finish
  /\ journal' = [mem EXCEPT !.state = "rolled-back"]
  /\ UNCHANGED <<disk, kernel, crashes, withdrawn>>

Restoring == {"restore", "halt", "aside", "replace", "reselect", "restart", "reverify", "reopen"}

\* Mutant: a restoration that failed is booked as done.
FailAsRolledBack ==
  /\ pc \in Restoring /\ Finish
  /\ journal' = [mem EXCEPT !.state = "rolled-back"]
  /\ UNCHANGED <<disk, kernel, crashes, withdrawn>>

\* The call that reopens admission may fail after it took effect.
FailRestore ==
  /\ pc \in Restoring /\ Finish
  /\ journal' = [mem EXCEPT !.state = "recovery-required"]
  /\ \/ UNCHANGED disk
     \/ /\ pc = "reopen" /\ SetMaintenance(FALSE)
  /\ UNCHANGED <<kernel, crashes, withdrawn>>

-----------------------------------------------------------------------------
\* rollback(): takes over the guard of a process that is gone.

StartRollback ==
  /\ pc = "idle" /\ journal.state \in JournalStates \ {"none", "rolled-back", "blocked"}
  /\ guard' = TRUE /\ mem' = journal /\ before' = journal.state
  /\ pc' = IF journal.step < 7 THEN "reset" ELSE IF journal.state = "committed" THEN "repause" ELSE "recover"
  /\ UNCHANGED <<journal, disk, kernel, crashes, withdrawn>>

\* Not activated: the old runtime, stopped in the sixth step, is started again.
Reset ==
  /\ pc = "reset"
  /\ IF mem.step = 6 THEN pc' = "unpause" /\ (IF Up THEN UNCHANGED <<state, kernel>> ELSE StartService(dropIn, state))
                     ELSE pc' = "cancelled" /\ UNCHANGED <<state, kernel>>
  /\ UNCHANGED <<journal, guard, dropIn, mem, before, crashes, withdrawn>>

Unpause ==
  /\ Goto("unpause", "cancelled") /\ SetMaintenance(FALSE)
  /\ UNCHANGED <<journal, guard, kernel, mem, before, crashes, withdrawn>>

Cancelled ==
  /\ pc = "cancelled" /\ Finish
  /\ journal' = [mem EXCEPT !.state = "blocked"]
  /\ UNCHANGED <<disk, kernel, crashes, withdrawn>>

\* A committed update is paused again, and undone only if no grant has changed since.
Repause ==
  /\ Goto("repause", "quiesce") /\ SetMaintenance(TRUE)
  /\ UNCHANGED <<journal, guard, kernel, mem, before, crashes, withdrawn>>

Quiesce ==
  /\ Goto("quiesce", "compare") /\ Up /\ state.maint /\ Drained
  /\ UNCHANGED <<journal, guard, disk, kernel, mem, before, crashes, withdrawn>>

\* Mutant: grants changed after the commit are not looked at.
CompareNothing ==
  /\ Goto("compare", "recover") /\ Up
  /\ UNCHANGED <<journal, guard, disk, kernel, mem, before, crashes, withdrawn>>

Compare ==
  /\ Goto("compare", "recover") /\ Up /\ Digest = mem.digest
  /\ UNCHANGED <<journal, guard, disk, kernel, mem, before, crashes, withdrawn>>

Recover ==
  /\ Goto("recover", "restore") /\ Save([mem EXCEPT !.state = "rolling-back"])
  /\ UNCHANGED <<guard, disk, kernel, before, crashes, withdrawn>>

\* Refused before anything was moved: the journal keeps the state it had.
Refuse ==
  /\ pc \in {"reset", "unpause", "repause", "quiesce", "compare", "recover"} /\ Finish
  /\ journal' = [mem EXCEPT !.state = before]
  /\ \/ /\ before = "committed" /\ SetMaintenance(FALSE)
     \/ UNCHANGED disk
  /\ UNCHANGED <<kernel, crashes, withdrawn>>

-----------------------------------------------------------------------------
\* gkos backup create and restore, while no update or rollback is at work; every
\* call of openclaw on the way asks committedRuntime() anew.

BackupCreate ==
  /\ pc = "idle" /\ CommittedRuntime /\ state \in Backups \ {NoState} /\ kept = NoState
  /\ kept' = state
  /\ UNCHANGED <<journal, guard, disk, kernel, proc, crashes, withdrawn, foreign>>

\* Verified and extracted beside the cell before anything is touched.  Bound: once,
\* and again when the first attempt left no state directory.
BackupRestore ==
  /\ Goto("idle", "unload") /\ CommittedRuntime /\ kept # NoState
  /\ foreign => state = NoState
  /\ UNCHANGED <<journal, guard, disk, kernel, mem, before, crashes, withdrawn, archives>>

RestoreStop ==
  /\ Goto("unload", "swap") /\ CommittedRuntime /\ StopService
  /\ UNCHANGED <<journal, guard, disk, mem, before, crashes, withdrawn, archives>>

\* The state directory is kept under another name.
RestoreAside ==
  /\ Goto("swap", "place") /\ mem' = Snapshot(mem) /\ state' = NoState /\ foreign' = TRUE
  /\ UNCHANGED <<journal, guard, dropIn, kernel, before, crashes, withdrawn, kept>>

RestorePlace ==
  /\ Goto("place", "load") /\ state' = kept /\ mem' = NoJournal
  /\ UNCHANGED <<journal, guard, dropIn, kernel, before, crashes, withdrawn, archives>>

\* If it cannot be moved into place the cell is put back as it was.
RestorePutBack ==
  /\ Goto("place", "idle") /\ mem' = NoJournal
  /\ IF mem.archive = NoState THEN UNCHANGED <<state, kernel>> ELSE StartService(dropIn, mem.archive)
  /\ UNCHANGED <<journal, guard, dropIn, before, crashes, withdrawn, archives>>

RestoreStart ==
  /\ Goto("load", "idle") /\ CommittedRuntime /\ StartService(dropIn, state)
  /\ UNCHANGED <<journal, guard, dropIn, mem, before, crashes, withdrawn, archives>>

RestoreFails ==
  /\ pc \in {"unload", "swap", "load"} /\ pc' = "idle"
  /\ UNCHANGED <<journal, guard, disk, kernel, mem, before, crashes, withdrawn, archives>>

-----------------------------------------------------------------------------
\* The cell goes on: agents, operators, death of the updater, reboot.

BeginRun ==
  /\ Up /\ ~state.maint /\ runs = 0 /\ runs' = 1
  /\ UNCHANGED <<journal, guard, disk, running, introducing, proc, crashes, withdrawn>>

EndRun ==
  /\ runs = 1 /\ runs' = 0
  /\ UNCHANGED <<journal, guard, disk, running, introducing, proc, crashes, withdrawn>>

\* An introduction looks at the barrier once, then waits for the vendor.
Introduce(g) ==
  /\ Up /\ ~state.maint /\ g \notin state.active \cup state.revoked \cup introducing
  /\ introducing' = introducing \cup {g}
  /\ UNCHANGED <<journal, guard, disk, running, runs, proc, crashes, withdrawn>>

Introduced(g) ==
  /\ g \in introducing /\ introducing' = introducing \ {g}
  /\ state' = [state EXCEPT !.active = @ \cup ({g} \ state.revoked)]
  /\ UNCHANGED <<journal, guard, dropIn, running, runs, proc, crashes, withdrawn>>

Revoke(g) ==
  /\ Up /\ ~state.maint /\ g \in state.active
  /\ state' = [state EXCEPT !.active = @ \ {g}, !.revoked = @ \cup {g}]
  /\ withdrawn' = withdrawn \cup {g}
  /\ UNCHANGED <<journal, guard, dropIn, kernel, proc, crashes>>

EditConfig ==
  /\ state # NoState /\ state.config < MaxEdits
  /\ state' = [state EXCEPT !.config = @ + 1]
  /\ UNCHANGED <<journal, guard, dropIn, kernel, proc, crashes, withdrawn>>

\* From the pause of the cell until the update, or its undoing, is over.
Unfinished == \/ journal.state \in {"maintenance", "activating", "verifying", "rolling-back", "recovery-required"}
              \/ pc \in {"quiesce", "compare", "recover"}

\* os.maintenance.set: an administrator pauses or opens the cell whenever it is up, also
\* under an update.  gkos kernel maintenance asks committedRuntime() before it sends the
\* call, which may land later; other clients with operator.admin ask nobody.
AdminMaintenance(on) ==
  /\ SetMaintenance(on) /\ lifted' = (lifted \/ (~on /\ Unfinished))
  /\ UNCHANGED <<journal, guard, kernel, proc, crashes, withdrawn>>

\* Somebody starts the service unit.  Assumed of the host: nobody but the updater and
\* a boot does so while an update, a rollback or a restore is at work.
StartUnit ==
  /\ pc = "idle" /\ ~Up /\ StartService(dropIn, state)
  /\ UNCHANGED <<journal, guard, dropIn, proc, crashes, withdrawn>>

Die == crashes < MaxCrashes /\ crashes' = crashes + 1 /\ pc' = "idle" /\ mem' = NoJournal /\ before' = "none"

Kill ==
  /\ pc # "idle" /\ Die
  /\ UNCHANGED <<journal, guard, disk, kernel, withdrawn>>

\* The service unit is started with the host.
Reboot ==
  /\ Die
  /\ \/ StartService(dropIn, state)
     \/ /\ state = NoState /\ StopService /\ UNCHANGED state
  /\ UNCHANGED <<journal, guard, dropIn, withdrawn>>

Update == \/ Resolve \/ PluginCompatibility \/ Backup \/ Stage \/ Conformance
          \/ Pause \/ Drain \/ TakeDigest \/ Archive \/ StopGateway \/ Completed \/ Select \/ Start
          \/ Verify \/ Pin \/ Commit \/ Resume \/ FailActive \/ FailEarly
Restore == \/ CheckRestore \/ Halt \/ MoveAside \/ Replace \/ Reselect \/ Restart
           \/ Reverify \/ Reopen \/ Restored \/ FailRestore
Rollback == \/ StartRollback \/ Reset \/ Unpause \/ Cancelled \/ Repause \/ Quiesce \/ Compare \/ Recover \/ Refuse
Cell == \/ BeginRun \/ EndRun \/ EditConfig \/ StartUnit \/ Kill \/ Reboot
        \/ \E g \in Grants : Introduce(g) \/ Introduced(g) \/ Revoke(g)

BackupCommand == \/ BackupCreate \/ BackupRestore \/ RestoreStop \/ RestoreAside \/ RestorePlace
                 \/ RestorePutBack \/ RestoreStart \/ RestoreFails

Next == \/ (Update \/ Restore \/ Rollback \/ Cell) /\ UNCHANGED <<archives, lifted>>
        \/ (StartUpdate \/ \E on \in Settings : AdminMaintenance(on)) /\ UNCHANGED archives
        \/ BackupCommand /\ UNCHANGED lifted

Spec == Init /\ [][Next]_vars

-----------------------------------------------------------------------------
\* The journal stays readable for a later rollback: readUpdate() refuses any other.
Journals == [state : JournalStates, step : 1..9, from : Versions, target : Versions, dropIn : Versions,
             archive : States \cup {NoState}, digest : (SUBSET Grants) \X (SUBSET Grants), config : 0..MaxEdits]
TypeOK ==
  /\ journal \in Journals /\ mem \in Journals
  /\ guard \in BOOLEAN
  /\ state \in States \cup {NoState} /\ dropIn \in Versions
  /\ running \in Versions \cup {Stopped} /\ runs \in 0..1 /\ introducing \subseteq Grants
  /\ pc \in Forward \cup Restoring \cup {"idle", "resume", "restored", "reset", "unpause",
                                         "cancelled", "repause", "quiesce", "compare", "recover",
                                         "unload", "swap", "place", "load"}
  /\ before \in JournalStates /\ crashes \in 0..MaxCrashes /\ withdrawn \subseteq Grants
  /\ kept \in States \cup {NoState} /\ foreign \in BOOLEAN /\ lifted \in BOOLEAN

\* "Admission opens only after the verified commit is durably recorded"
\* (executeUpdate): the target takes no work before that, through every failure,
\* death, reboot and rollback, unless an administrator has lifted the barrier.
AdmissionAfterCommit ==
  journal.target # journal.dropIn /\ running = journal.target /\ ~state.maint /\ ~lifted
    => journal.state = "committed"

\* An update commits under the grants that its digest names: a grant that an
\* introduction inserts after that, having waited for its vendor while the cell was
\* drained, stops the commit, and none is begun behind the barrier (updateEffects,
\* verifyRuntime).  An administrator who lifts the barrier may change grants.
CommitKeepsGrants == pc \in {"pin", "commit"} /\ ~lifted => Digest = journal.digest

\* An older runtime is never started on a state directory that a newer one has
\* written to (restoreRuntime, committedRuntime), as long as no gkos backup restore
\* has put another directory there: that command compares no versions.
OldNeverOnNewState == Up /\ ~foreign => running >= state.touched

\* When the journal says that an update is over and nobody works on the cell, the
\* pin, the unit's selection and the runtime that is up are all of one version
\* (executeUpdate, rollback); a directory restored from a backup brings its own pin.
SettledConsistent ==
  pc = "idle" /\ journal.state \in Terminal /\ ~foreign =>
    LET v == IF journal.state = "committed" THEN journal.target ELSE journal.from IN
      /\ state # NoState /\ state.lock = v /\ dropIn = v
      /\ running \in {v, Stopped}

\* "This prevents a stale archive from reactivating revoked capabilities"
\* (docs/updating.md): what somebody revoked is never active again on a cell that
\* is up, whatever a rollback restored in between; gkos backup restore promises no such
\* thing and is left out, as is a barrier that an administrator has lifted.  Violated by
\* what the code does.
RevokedStaysRevoked == Up /\ ~foreign /\ ~lifted => state.active \cap withdrawn = {}

\* The first restoration of an update, also of a committed one, brings no revoked
\* grant back: barrier, second archive and comparison leave no gap (updateEffects,
\* rollback), on a cell that no gkos backup restore has been through, and as long as no
\* administrator lifts the barrier on the way: what is revoked then comes back.
RestoreKeepsRevocations ==
  [][pc = "replace" /\ pc' = "reselect" /\ before \notin {"rolling-back", "recovery-required"} /\ ~foreign /\ ~lifted
       => state'.active \cap withdrawn = {}]_vars
=============================================================================
