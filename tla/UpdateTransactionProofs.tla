----------------------- MODULE UpdateTransactionProofs -----------------------
(* Type correctness, admission, versions and revocations of an update and its   *)
(* rollback, for any number of versions, resources, edits, deaths and reboots.  *)
EXTENDS UpdateTransaction, TLAPS

\* No update and no rollback is at work.
Outside == {"idle", "unload", "swap", "place", "load"}
Activation == {"activating", "verifying", "rolling-back", "recovery-required"}
Rolled == {"rolling-back", "recovery-required"}

\* Each place of the updating process goes with one part of its journal.
PlaceInv ==
  /\ pc = "prepare" => mem.step \in 1..5
  /\ pc \in {"pause", "drain", "digest", "archive", "stop"} => mem.step = 6
  /\ pc \in Forward /\ mem.step = 6 => mem.state = "maintenance"
  /\ pc = "completed" => mem.step \in {6, 7}
  /\ pc \in {"select", "start"} => mem.step = 7
  /\ pc = "verify" => mem.step = 8
  /\ pc \in {"pin", "commit", "resume"} => mem.step = 9
  /\ pc \in Restoring \cup {"restored", "repause", "quiesce", "compare", "recover"} => mem.step >= 7
  /\ pc \in {"reset", "unpause", "cancelled"} => mem.step < 7
  /\ pc \in Forward /\ mem.step < 7 => mem.state \in {"preparing", "staged", "maintenance"}
  /\ pc \in Forward /\ mem.step = 7 => mem.state = "activating"
  /\ pc \in Forward /\ mem.step > 7 => mem.state = "verifying"
  /\ pc = "resume" => mem.state = "committed"
  /\ pc \in Restoring \cup {"restored"} => mem.state = "rolling-back"
  /\ pc \in {"reset", "unpause", "cancelled", "repause", "quiesce", "compare", "recover"} => before = mem.state /\ before # "none"
  /\ pc \in {"repause", "quiesce", "compare"} => before = "committed"
  /\ pc \in Forward \cup Outside => before = "none"

\* The file is what the process works with; only the digest waits for the archive.
MirrorInv ==
  pc \notin Outside =>
    /\ journal.state = mem.state /\ journal.step = mem.step /\ journal.from = mem.from
    /\ journal.target = mem.target /\ journal.dropIn = mem.dropIn /\ journal.archive = mem.archive
    /\ pc # "archive" => journal.digest = mem.digest

JournalInv ==
  /\ journal.state # "none" => journal.from < journal.target
  /\ journal.state = "blocked" => journal.step < 7
  /\ journal.state \in {"committed", "rolled-back", "activating", "verifying"} => journal.step >= 7
  /\ journal.step >= 7 => journal.state \notin {"preparing", "staged", "maintenance"}
  /\ pc \in {"unload", "swap", "place", "load"} => CommittedRuntime
  /\ pc \in {"place", "load"} => foreign

\* What is up is what the unit selects, and it has a state directory.
KernelInv ==
  /\ running \in {dropIn, Stopped}
  /\ Up => state # NoState
  /\ ~Up => runs = 0 /\ introducing = {}
  /\ pc \in {"select", "start", "aside", "replace", "reselect", "restart", "swap", "place"} => ~Up
  /\ pc = "completed" /\ mem.step = 6 => ~Up
  /\ pc \in {"reopen", "restored"} => dropIn = mem.from

\* From the pause to the commit the barrier is up, in the archive too, and no grant
\* changes after the comparison, unless an administrator lifts it on the way.
BarrierInv ==
  /\ journal.target # journal.dropIn /\ journal.state # "committed" /\ dropIn = journal.target
       => journal.step >= 7 /\ journal.state \in Activation
  /\ ~lifted =>
       /\ pc \in {"drain", "digest", "archive", "stop", "completed", "select", "start", "verify", "pin", "commit",
                  "quiesce", "compare"} => state.maint
       /\ pc = "recover" /\ before = "committed" => state.maint
       /\ journal.step >= 7 \/ pc \in {"stop", "completed"} => journal.archive.maint
       /\ journal.target # journal.dropIn /\ journal.state # "committed" /\ dropIn = journal.target => state.maint
       /\ pc \in {"completed", "verify", "pin", "commit"} => introducing = {}
       /\ pc \in {"pin", "commit"} => mem.digest = <<state.active, state.revoked>>

\* The pin and the selection go together whenever the update is not between the two.
VersionInv ==
  /\ pc \in Forward => state # NoState
  /\ pc \in {"halt", "aside", "replace"} => mem.archive # NoState
  /\ pc = "replace" => mem.archive.lock = mem.from
  /\ pc \in {"reselect", "restart", "reverify", "reopen", "restored"} => state # NoState /\ state.lock = mem.from
  /\ ~foreign =>
       /\ journal.state = "none" => state # NoState /\ state.lock = dropIn
       /\ journal.state # "none" /\ journal.step < 7 =>
            state # NoState /\ state.lock = journal.from /\ dropIn = journal.from /\ journal.dropIn = journal.from
       /\ pc = "select" => dropIn = mem.from
       /\ pc \in {"start", "verify", "pin", "commit"} => dropIn = mem.target
       /\ pc = "completed" /\ mem.step = 7 => dropIn = mem.target
       /\ pc = "commit" => state.lock = mem.target
       /\ journal.state = "committed" => state # NoState /\ state.lock = journal.target /\ dropIn = journal.target
       /\ journal.state = "rolled-back" => state # NoState /\ state.lock = journal.from /\ dropIn = journal.from

\* No directory that may come up, and no archive, has seen a newer runtime than the unit selects.
TouchInv ==
  ~foreign =>
    /\ state.touched <= dropIn /\ journal.dropIn <= dropIn
    /\ journal.archive.touched <= journal.dropIn
    /\ pc = "reselect" => state.touched <= mem.dropIn

\* The archive that a first restoration brings back knows of every revocation, unless
\* one was made behind a barrier that an administrator had lifted.
GrantInv ==
  ~foreign =>
    /\ state.active \cap state.revoked = {} /\ journal.archive.active \cap journal.archive.revoked = {}
    /\ journal.state \notin Rolled \cup {"none", "blocked", "rolled-back"} => withdrawn \subseteq state.revoked
    /\ pc = "archive" => mem.digest[2] \subseteq state.revoked
    /\ journal.step >= 7 \/ pc \in {"stop", "completed"} => journal.digest[2] \subseteq journal.archive.revoked
    /\ ~lifted =>
         /\ journal.state \in {"activating", "verifying"} => state.maint
         /\ journal.state \in {"activating", "verifying"} \/ pc \in {"stop", "completed"}
              => withdrawn \subseteq journal.archive.revoked
         /\ pc \in {"recover", "restore", "halt"} /\ before \notin Rolled => state.maint
         /\ pc \in {"recover", "restore", "halt", "aside", "replace"} /\ before \notin Rolled
              => withdrawn \subseteq mem.archive.revoked

Inv == /\ TypeOK /\ PlaceInv /\ MirrorInv /\ JournalInv /\ KernelInv
       /\ BarrierInv /\ VersionInv /\ TouchInv /\ GrantInv

-----------------------------------------------------------------------------
LEMMA Apart ==
  /\ NoState \notin States /\ NoState.maint /\ NoState.lock = 0 /\ NoState.touched = 0
  /\ NoState.active = {} /\ NoState.revoked = {}
  /\ Stopped \notin Versions /\ Versions \subseteq Nat /\ Stopped \in Nat
<1>1. NoState \notin States
  <2>1. NoState.config = MaxEdits + 1 /\ MaxEdits + 1 \notin 0..MaxEdits
    BY UpdateAssumption DEF NoState
  <2>2. \A s \in States : s.config \in 0..MaxEdits
    BY DEF States
  <2> QED BY <2>1, <2>2
<1>2. /\ NoState.maint /\ NoState.lock = 0 /\ NoState.touched = 0
      /\ NoState.active = {} /\ NoState.revoked = {}
  BY DEF NoState
<1>3. Stopped \notin Versions /\ Versions \subseteq Nat /\ Stopped \in Nat
  BY UpdateAssumption DEF Versions, Stopped
<1> QED BY <1>1, <1>2, <1>3

LEMMA StateFields ==
  ASSUME NEW s \in States \cup {NoState}
  PROVE  /\ s.lock \in Versions /\ s.active \subseteq Grants /\ s.revoked \subseteq Grants
         /\ s.maint \in BOOLEAN /\ s.touched \in Versions /\ (s # NoState => s \in States)
<1>1. CASE s \in States
  BY <1>1 DEF States
<1>2. CASE s = NoState
  BY <1>2, Apart, UpdateAssumption DEF Versions
<1> QED BY <1>1, <1>2

\* A journal with another state, or another archive, is otherwise the same.
LEMMA Restated ==
  ASSUME NEW j \in Journals, NEW s \in JournalStates
  PROVE  LET k == [j EXCEPT !.state = s] IN
         /\ k \in Journals /\ k.state = s /\ k.step = j.step /\ k.from = j.from /\ k.target = j.target
         /\ k.dropIn = j.dropIn /\ k.archive = j.archive /\ k.digest = j.digest /\ k.config = j.config
BY DEF Journals

LEMMA Snapshotted ==
  ASSUME NEW j \in Journals, state \in States \cup {NoState}
  PROVE  LET k == Snapshot(j) IN
         /\ k \in Journals /\ k.archive = state /\ k.state = j.state /\ k.step = j.step /\ k.from = j.from
         /\ k.target = j.target /\ k.dropIn = j.dropIn /\ k.digest = j.digest /\ k.config = j.config
BY DEF Journals, Snapshot

LEMMA Entered ==
  ASSUME NEW j \in Journals, mem.step \in 1..8, EnterNext(j)
  PROVE  /\ mem' \in Journals /\ journal' = mem' /\ mem'.step = mem.step + 1
         /\ mem'.state = StateOf(mem.step + 1, j.state) /\ pc' = Label(mem.step + 1)
         /\ mem'.from = j.from /\ mem'.target = j.target /\ mem'.dropIn = j.dropIn
         /\ mem'.archive = j.archive /\ mem'.digest = j.digest /\ mem'.config = j.config
<1> DEFINE next == mem.step + 1
<1>1. next \in 1..9 /\ StateOf(next, j.state) \in JournalStates
  BY DEF StateOf, JournalStates, Journals
<1> HIDE DEF next
<1>2. mem' = [j EXCEPT !.step = next, !.state = StateOf(next, j.state)] /\ journal' = mem' /\ pc' = Label(next)
  BY DEF EnterNext, Save, Entering, next
<1>3. mem' \in Journals /\ mem'.step = next /\ mem'.state = StateOf(next, j.state)
  BY <1>1, <1>2 DEF Journals
<1>4. /\ mem'.from = j.from /\ mem'.target = j.target /\ mem'.dropIn = j.dropIn
      /\ mem'.archive = j.archive /\ mem'.digest = j.digest /\ mem'.config = j.config
  BY <1>2 DEF Journals
<1> QED BY <1>2, <1>3, <1>4 DEF next

LEMMA EmptyJournal ==
  /\ NoJournal \in Journals /\ NoJournal.state = "none" /\ NoJournal.step = 1 /\ NoJournal.from = 0
  /\ NoJournal.target = 0 /\ NoJournal.dropIn = 0 /\ NoJournal.archive = NoState /\ NoJournal.digest = <<{}, {}>>
BY UpdateAssumption DEF NoJournal, Journals, JournalStates, Terminal, Versions

\* A service that starts runs what it was told to, on a directory that is there.
LEMMA Started ==
  ASSUME NEW v \in Versions, NEW s \in States \cup {NoState}, StartService(v, s)
  PROVE  /\ s # NoState /\ running' = v /\ runs' = 0 /\ introducing' = {} /\ Up'
         /\ state' \in States /\ state' # NoState /\ state'.lock = s.lock /\ state'.maint = s.maint
         /\ state'.active = s.active /\ state'.revoked = s.revoked
         /\ (s.touched <= v => state'.touched = v)
<1>1. s \in States /\ s.touched \in Versions
  BY StateFields DEF StartService
<1>2. state' = [s EXCEPT !.touched = IF v > s.touched THEN v ELSE s.touched]
  BY <1>1 DEF StartService
<1>3. state' \in States /\ state'.lock = s.lock /\ state'.maint = s.maint /\ state'.active = s.active /\ state'.revoked = s.revoked
  BY <1>1, <1>2 DEF States
<1>4. s.touched <= v => state'.touched = v
  BY <1>1, <1>2, Apart DEF States
<1> QED BY <1>3, <1>4, Apart DEF StartService, Up

LEMMA Switched ==
  ASSUME state \in States \cup {NoState}, Up => state # NoState, NEW on \in BOOLEAN, SetMaintenance(on)
  PROVE  /\ Up /\ dropIn' = dropIn /\ state # NoState /\ state' \in States /\ state' # NoState /\ state'.maint = on
         /\ state'.lock = state.lock /\ state'.touched = state.touched
         /\ state'.active = state.active /\ state'.revoked = state.revoked
BY Apart DEF SetMaintenance, States

-----------------------------------------------------------------------------
LEMMA Init0 == Init => Inv
<1> SUFFICES ASSUME Init PROVE Inv
  OBVIOUS
<1>0. NoState \in States \cup {NoState} /\ 0 \in Versions /\ 0 \in 0..MaxCrashes /\ 0 \in 0..MaxEdits
  BY UpdateAssumption DEF Versions
<1>s. /\ state \in States /\ state # NoState /\ state.lock = 0 /\ state.maint = FALSE /\ state.touched = 0
      /\ state.active = {} /\ state.revoked = {}
  <2>1. state = [lock |-> 0, active |-> {}, revoked |-> {}, maint |-> FALSE, touched |-> 0, config |-> 0]
    BY DEF Init, NoState
  <2>2. state \in States
    BY <1>0, <2>1 DEF States
  <2> QED BY <2>1, <2>2, Apart
<1>i. /\ journal = NoJournal /\ mem = NoJournal /\ guard = FALSE /\ dropIn = 0 /\ running = 0 /\ runs = 0
      /\ introducing = {} /\ pc = "idle" /\ before = "none" /\ crashes = 0 /\ withdrawn = {} /\ kept = NoState
      /\ foreign = FALSE /\ lifted = FALSE
  BY DEF Init
<1>1. TypeOK
  <2>1. journal \in Journals /\ mem \in Journals /\ before \in JournalStates
    BY <1>i, EmptyJournal DEF JournalStates
  <2>2. dropIn \in Versions /\ running \in Versions /\ runs \in 0..1 /\ crashes \in 0..MaxCrashes
    BY <1>0, <1>i
  <2>3. guard \in BOOLEAN /\ foreign \in BOOLEAN /\ lifted \in BOOLEAN /\ introducing \subseteq Grants /\ withdrawn \subseteq Grants
        /\ kept \in States \cup {NoState}
    BY <1>i
  <2> QED BY <1>s, <1>i, <2>1, <2>2, <2>3 DEF TypeOK
<1>2. PlaceInv /\ MirrorInv /\ JournalInv
  BY EmptyJournal DEF Init, PlaceInv, MirrorInv, JournalInv, Forward, Restoring, Outside
<1>3. KernelInv /\ BarrierInv
  BY <1>s, Apart, <1>0, EmptyJournal DEF Init, KernelInv, BarrierInv, Up
<1>4. VersionInv /\ TouchInv /\ GrantInv
  BY <1>s, EmptyJournal, Apart, <1>0 DEF Init, VersionInv, TouchInv, GrantInv, Forward, Rolled
<1> QED BY <1>1, <1>2, <1>3, <1>4 DEF Inv

-----------------------------------------------------------------------------
\* The steps of the update.

LEMMA StartNext == ASSUME Inv, StartUpdate, UNCHANGED archives PROVE Inv'
<1>0. mem \in Journals /\ journal \in Journals /\ state \in States /\ state.lock \in Versions /\ dropIn \in Versions
      /\ state.revoked \subseteq Grants
  BY StateFields DEF Inv, TypeOK, StartUpdate
<1>1. PICK v \in Versions : ForwardVersion(v) /\
        Save([NoJournal EXCEPT !.state = "preparing", !.from = state.lock, !.target = v, !.dropIn = dropIn])
  BY DEF StartUpdate
<1>2. /\ mem' \in Journals /\ journal' = mem' /\ mem'.state = "preparing" /\ mem'.from = state.lock /\ mem'.target = v
      /\ mem'.dropIn = dropIn /\ mem'.step = 1 /\ mem'.archive = NoState
  BY <1>0, <1>1, EmptyJournal DEF Save, Journals, JournalStates
<1>3. TypeOK'
  BY <1>0, <1>2 DEF StartUpdate, Goto, Inv, TypeOK, disk, kernel, archives, Forward
<1>4. pc' = "prepare" /\ before' = "none" /\ state' = state /\ dropIn' = dropIn /\ foreign' = foreign /\ withdrawn' = state.revoked
      /\ lifted' = FALSE
  BY DEF StartUpdate, Goto, disk, archives, Inv, PlaceInv, Outside
<1>5. PlaceInv' /\ MirrorInv' /\ JournalInv'
  BY <1>0, <1>1, <1>2, <1>4 DEF PlaceInv, MirrorInv, JournalInv, Forward, Restoring, Outside, ForwardVersion
<1>6. KernelInv' /\ BarrierInv'
  BY <1>0, <1>2, <1>4, Apart DEF Inv, KernelInv, BarrierInv, StartUpdate, kernel, Up
<1>7. ~foreign => state.lock = dropIn
  BY DEF Inv, VersionInv, JournalInv, StartUpdate, Terminal
<1>8. VersionInv'
  BY <1>0, <1>2, <1>4, <1>7 DEF VersionInv, StartUpdate, Forward
<1>9. TouchInv' /\ GrantInv'
  BY <1>0, <1>2, <1>4, Apart DEF Inv, TouchInv, GrantInv, Rolled
<1> QED BY <1>3, <1>5, <1>6, <1>8, <1>9 DEF Inv

\* The first five steps: the journal only.
LEMMA PreparationNext ==
  ASSUME Inv, NEW step \in 1..5, NEW j \in {mem, Snapshot(mem)}, Preparation(step, j), UNCHANGED <<archives, lifted>>
  PROVE  Inv'
<1>0. /\ mem \in Journals /\ journal \in Journals /\ state \in States \cup {NoState} /\ pc = "prepare" /\ mem.step = step
      /\ mem.step \in 1..8
  BY DEF Inv, TypeOK, Preparation
<1>1. /\ j \in Journals /\ j.state = mem.state /\ j.step = mem.step /\ j.from = mem.from /\ j.target = mem.target
      /\ j.dropIn = mem.dropIn /\ j.digest = mem.digest /\ j.archive \in {mem.archive, state}
  BY <1>0, Snapshotted
<1>2. /\ mem' \in Journals /\ journal' = mem' /\ mem'.step = step + 1 /\ mem'.state = StateOf(step + 1, mem.state)
      /\ pc' = Label(step + 1) /\ mem'.from = mem.from /\ mem'.target = mem.target /\ mem'.dropIn = mem.dropIn
      /\ mem'.digest = mem.digest /\ mem'.archive \in {mem.archive, state}
  BY <1>0, <1>1, Entered DEF Preparation
<1>3. /\ (pc' = "prepare" /\ step < 5) \/ (pc' = "pause" /\ step = 5)
      /\ mem'.state \in {"preparing", "staged", "maintenance"} /\ (step = 5 => mem'.state = "maintenance")
  <2>1. mem.state \in {"preparing", "staged", "maintenance"}
    BY <1>0 DEF Inv, PlaceInv, Forward
  <2> QED BY <1>2, <2>1 DEF Label, StateOf
<1>4. state' = state /\ dropIn' = dropIn /\ foreign' = foreign /\ lifted' = lifted /\ withdrawn' = withdrawn /\ before' = before
      /\ running' = running /\ runs' = runs /\ introducing' = introducing
  BY DEF Preparation, disk, kernel, archives
<1>m. journal.step = step /\ journal.archive = mem.archive /\ journal.state = mem.state /\ journal.from = mem.from
      /\ journal.target = mem.target /\ journal.dropIn = mem.dropIn /\ mem.state \in {"preparing", "staged", "maintenance"}
  BY <1>0 DEF Inv, MirrorInv, Outside, PlaceInv, Forward
<1>5. TypeOK'
  BY <1>2, <1>3, <1>4 DEF Inv, TypeOK, Preparation, archives, Forward
<1>6. PlaceInv' /\ MirrorInv' /\ JournalInv'
  BY <1>0, <1>2, <1>3, <1>4, <1>m DEF Inv, PlaceInv, MirrorInv, JournalInv, Forward, Restoring, Outside
<1>7. KernelInv' /\ BarrierInv'
  BY <1>0, <1>2, <1>3, <1>4, <1>m DEF Inv, KernelInv, BarrierInv, Up
<1>8. VersionInv'
  BY <1>0, <1>2, <1>3, <1>4, <1>m DEF Inv, VersionInv, Forward
<1>9. TouchInv' /\ GrantInv'
  <2>1. ~foreign => mem'.archive.touched <= mem'.dropIn /\ mem'.archive.active \cap mem'.archive.revoked = {}
    BY <1>0, <1>2, <1>m DEF Inv, TouchInv, GrantInv, VersionInv
  <2> QED BY <1>0, <1>2, <1>3, <1>4, <1>m, <2>1 DEF Inv, TouchInv, GrantInv, Rolled
<1> QED BY <1>5, <1>6, <1>7, <1>8, <1>9 DEF Inv

\* From the barrier to the commit.
LEMMA ForwardNext ==
  ASSUME Inv, UNCHANGED <<archives, lifted>>,
         \/ Pause \/ Drain \/ TakeDigest \/ Archive \/ StopGateway \/ Completed
         \/ Select \/ Start \/ Verify \/ Pin \/ Commit
  PROVE  Inv'
<1>0. /\ mem \in Journals /\ journal \in Journals /\ state \in States \cup {NoState} /\ dropIn \in Versions
      /\ foreign' = foreign /\ kept' = kept /\ lifted' = lifted /\ Versions \subseteq Nat /\ mem.step \in 1..9
  BY Apart DEF Inv, TypeOK, archives, Journals
<1>1. ASSUME Pause PROVE Inv'
  <2>1. pc = "pause" /\ pc' = "drain" /\ journal' = journal /\ mem' = mem /\ before' = before /\ crashes' = crashes /\ withdrawn' = withdrawn /\ guard' = guard /\ running' = running /\ runs' = runs /\ introducing' = introducing
    BY <1>1 DEF Pause, Goto, kernel
  <2>2. dropIn' = dropIn /\ state' \in States /\ state' # NoState /\ state'.maint
        /\ state'.lock = state.lock /\ state'.touched = state.touched /\ state'.active = state.active /\ state'.revoked = state.revoked
    BY <1>0, <1>1, Switched DEF Pause, Inv, KernelInv
  <2>3. TypeOK'
    BY <1>0, <1>1, <2>1, <2>2 DEF Inv, TypeOK, Forward, Restoring
  <2>4. PlaceInv' /\ MirrorInv' /\ JournalInv'
    BY <1>0, <1>1, <2>1, <2>2 DEF Inv, PlaceInv, MirrorInv, JournalInv, Forward, Restoring, Outside, CommittedRuntime
  <2>5. KernelInv' /\ BarrierInv'
    BY <1>0, <1>1, <2>1, <2>2 DEF Inv, KernelInv, BarrierInv, Up, Activation
  <2>6. VersionInv'
    BY <1>0, <1>1, <2>1, <2>2 DEF Inv, VersionInv, Forward
  <2>7. TouchInv' /\ GrantInv'
    BY <1>0, <1>1, <2>1, <2>2 DEF Inv, TouchInv, GrantInv, Rolled
  <2> QED BY <2>3, <2>4, <2>5, <2>6, <2>7 DEF Inv
<1>2. ASSUME Drain PROVE Inv'
  <2>1. pc = "drain" /\ pc' = "digest" /\ journal' = journal /\ mem' = mem /\ before' = before /\ crashes' = crashes /\ withdrawn' = withdrawn /\ guard' = guard
        /\ dropIn' = dropIn /\ running' = running /\ runs' = runs /\ introducing' = introducing /\ state' = state
    BY <1>2 DEF Drain, Goto, kernel, disk
  <2>2. TypeOK'
    BY <1>0, <1>2, <2>1 DEF Inv, TypeOK, Forward, Restoring
  <2>3. PlaceInv' /\ MirrorInv' /\ JournalInv'
    BY <1>0, <1>2, <2>1 DEF Inv, PlaceInv, MirrorInv, JournalInv, Forward, Restoring, Outside, CommittedRuntime
  <2>4. KernelInv' /\ BarrierInv'
    BY <1>0, <1>2, <2>1 DEF Inv, KernelInv, BarrierInv, Up, Activation
  <2>5. VersionInv'
    BY <1>0, <1>2, <2>1 DEF Inv, VersionInv, Forward
  <2>6. TouchInv' /\ GrantInv'
    BY <1>0, <1>2, <2>1 DEF Inv, TouchInv, GrantInv, Rolled
  <2> QED BY <2>2, <2>3, <2>4, <2>5, <2>6 DEF Inv
<1>3. ASSUME TakeDigest PROVE Inv'
  <2>1. pc = "digest" /\ pc' = "archive" /\ journal' = journal /\ before' = before /\ crashes' = crashes /\ withdrawn' = withdrawn /\ guard' = guard
        /\ dropIn' = dropIn /\ running' = running /\ runs' = runs /\ introducing' = introducing /\ state' = state
    BY <1>3 DEF TakeDigest, Goto, kernel, disk
  <2>2. state \in States /\ state.config \in 0..MaxEdits /\ state.active \subseteq Grants /\ state.revoked \subseteq Grants
    BY <1>0, <1>3 DEF TakeDigest, Inv, KernelInv, States
  <2>3. /\ mem' \in Journals /\ mem'.state = mem.state /\ mem'.step = mem.step /\ mem'.from = mem.from
        /\ mem'.target = mem.target /\ mem'.dropIn = mem.dropIn /\ mem'.archive = mem.archive /\ mem'.digest = <<state.active, state.revoked>>
    BY <1>0, <1>3, <2>2 DEF TakeDigest, Digest, Journals
  <2>4. TypeOK'
    BY <1>0, <1>3, <2>1, <2>2, <2>3 DEF Inv, TypeOK, Forward, Restoring
  <2>5. PlaceInv' /\ MirrorInv' /\ JournalInv'
    BY <1>0, <1>3, <2>1, <2>2, <2>3 DEF Inv, PlaceInv, MirrorInv, JournalInv, Forward, Restoring, Outside, CommittedRuntime
  <2>6. KernelInv' /\ BarrierInv'
    BY <1>0, <1>3, <2>1, <2>2, <2>3 DEF Inv, KernelInv, BarrierInv, Up, Activation
  <2>7. VersionInv'
    BY <1>0, <1>3, <2>1, <2>2, <2>3 DEF Inv, VersionInv, Forward
  <2>8. TouchInv' /\ GrantInv'
    BY <1>0, <1>3, <2>1, <2>2, <2>3 DEF Inv, TouchInv, GrantInv, Rolled
  <2> QED BY <2>4, <2>5, <2>6, <2>7, <2>8 DEF Inv
<1>4. ASSUME Archive PROVE Inv'
  <2>1. pc = "archive" /\ pc' = "stop" /\ journal' = mem' /\ before' = before /\ crashes' = crashes /\ withdrawn' = withdrawn /\ guard' = guard
        /\ dropIn' = dropIn /\ running' = running /\ runs' = runs /\ introducing' = introducing /\ state' = state
    BY <1>4 DEF Archive, Goto, Save, kernel, disk
  <2>2. /\ mem' \in Journals /\ mem'.state = mem.state /\ mem'.step = mem.step /\ mem'.from = mem.from
        /\ mem'.target = mem.target /\ mem'.dropIn = mem.dropIn /\ mem'.archive = state /\ mem'.digest = mem.digest
    BY <1>0, <1>4, Snapshotted DEF Archive, Save
  <2>3. /\ journal.state = mem.state /\ journal.step = mem.step /\ journal.from = mem.from /\ journal.target = mem.target
        /\ journal.dropIn = mem.dropIn /\ journal.archive = mem.archive /\ mem.step = 6 /\ mem.state \in {"preparing", "staged", "maintenance"}
    BY <1>0, <2>1 DEF Inv, MirrorInv, PlaceInv, Outside, Forward
  <2>4. ~foreign => state.touched <= mem.dropIn /\ withdrawn \subseteq state.revoked
    BY <1>0, <2>3 DEF Inv, TouchInv, VersionInv, GrantInv, Rolled
  <2>5. TypeOK'
    BY <1>0, <1>4, <2>1, <2>2, <2>3, <2>4 DEF Inv, TypeOK, Forward, Restoring
  <2>6. PlaceInv' /\ MirrorInv' /\ JournalInv'
    BY <1>0, <1>4, <2>1, <2>2, <2>3, <2>4 DEF Inv, PlaceInv, MirrorInv, JournalInv, Forward, Restoring, Outside, CommittedRuntime
  <2>7. KernelInv' /\ BarrierInv'
    BY <1>0, <1>4, <2>1, <2>2, <2>3, <2>4 DEF Inv, KernelInv, BarrierInv, Up, Activation
  <2>8. VersionInv'
    BY <1>0, <1>4, <2>1, <2>2, <2>3, <2>4 DEF Inv, VersionInv, Forward
  <2>9. TouchInv' /\ GrantInv'
    BY <1>0, <1>4, <2>1, <2>2, <2>3, <2>4 DEF Inv, TouchInv, GrantInv, Rolled
  <2> QED BY <2>5, <2>6, <2>7, <2>8, <2>9 DEF Inv
<1>5. ASSUME StopGateway PROVE Inv'
  <2>1. pc = "stop" /\ pc' = "completed" /\ journal' = journal /\ mem' = mem /\ before' = before /\ crashes' = crashes /\ withdrawn' = withdrawn /\ guard' = guard
        /\ dropIn' = dropIn /\ state' = state
    BY <1>5 DEF StopGateway, Goto, disk
  <2>2. running' = Stopped /\ runs' = 0 /\ introducing' = {} /\ mem.step = 6
    BY <1>5, <2>1 DEF StopGateway, StopService, Inv, PlaceInv
  <2>3. TypeOK'
    BY <1>0, <1>5, <2>1, <2>2 DEF Inv, TypeOK, Forward, Restoring
  <2>4. PlaceInv' /\ MirrorInv' /\ JournalInv'
    BY <1>0, <1>5, <2>1, <2>2 DEF Inv, PlaceInv, MirrorInv, JournalInv, Forward, Restoring, Outside, CommittedRuntime
  <2>5. KernelInv' /\ BarrierInv'
    BY <1>0, <1>5, <2>1, <2>2 DEF Inv, KernelInv, BarrierInv, Up, Activation
  <2>6. VersionInv'
    BY <1>0, <1>5, <2>1, <2>2 DEF Inv, VersionInv, Forward
  <2>7. TouchInv' /\ GrantInv'
    BY <1>0, <1>5, <2>1, <2>2 DEF Inv, TouchInv, GrantInv, Rolled
  <2> QED BY <2>3, <2>4, <2>5, <2>6, <2>7 DEF Inv
<1>6. ASSUME Completed PROVE Inv'
  <2>1. pc = "completed" /\ before' = before /\ crashes' = crashes /\ withdrawn' = withdrawn /\ guard' = guard /\ dropIn' = dropIn /\ running' = running /\ runs' = runs /\ introducing' = introducing /\ state' = state /\ mem.step \in {6, 7}
    BY <1>6 DEF Completed, kernel, disk, Inv, PlaceInv
  <2>2. /\ journal.state = mem.state /\ journal.step = mem.step /\ journal.from = mem.from /\ journal.target = mem.target
        /\ journal.dropIn = mem.dropIn /\ journal.archive = mem.archive /\ journal.digest = mem.digest
    BY <1>0, <2>1 DEF Inv, MirrorInv, PlaceInv, Outside, Forward
  <2>3. /\ mem' \in Journals /\ journal' = mem' /\ mem'.from = mem.from /\ mem'.target = mem.target /\ mem'.dropIn = mem.dropIn
        /\ mem'.archive = mem.archive /\ mem'.digest = mem.digest /\ mem'.step = mem.step + 1
        /\ mem'.state = StateOf(mem.step + 1, mem.state) /\ pc' = Label(mem.step + 1)
    BY <1>0, <1>6, <2>1, Entered DEF Completed
  <2>4. \/ mem.step = 6 /\ pc' = "select" /\ mem'.state = "activating" /\ mem'.step = 7
        \/ mem.step = 7 /\ pc' = "verify" /\ mem'.state = "verifying" /\ mem'.step = 8
    BY <2>1, <2>3 DEF Label, StateOf
  <2>5. mem.step = 6 => mem.state \in {"preparing", "staged", "maintenance"}
    BY <2>1 DEF Inv, PlaceInv, Forward
  <2>6. TypeOK'
    BY <1>0, <1>6, <2>1, <2>2, <2>3, <2>4, <2>5 DEF Inv, TypeOK, Forward, Restoring
  <2>7. PlaceInv' /\ MirrorInv' /\ JournalInv'
    BY <1>0, <1>6, <2>1, <2>2, <2>3, <2>4, <2>5 DEF Inv, PlaceInv, MirrorInv, JournalInv, Forward, Restoring, Outside, CommittedRuntime
  <2>8. KernelInv' /\ BarrierInv'
    BY <1>0, <1>6, <2>1, <2>2, <2>3, <2>4, <2>5 DEF Inv, KernelInv, BarrierInv, Up, Activation
  <2>9. VersionInv'
    BY <1>0, <1>6, <2>1, <2>2, <2>3, <2>4, <2>5 DEF Inv, VersionInv, Forward
  <2>10. TouchInv'
    BY <1>0, <2>1, <2>2, <2>3, <2>4 DEF Inv, TouchInv
  <2>11. GrantInv'
    <3>1. /\ ~lifted => state.maint
          /\ ~foreign => withdrawn \subseteq state.revoked /\ mem.digest[2] \subseteq mem.archive.revoked
          /\ ~foreign /\ ~lifted => withdrawn \subseteq mem.archive.revoked
      <4>1. pc = "completed" /\ journal.state = mem.state /\ journal.archive = mem.archive /\ journal.digest = mem.digest
            /\ journal.state \notin Rolled \cup {"none", "blocked", "rolled-back"}
        BY <1>6, <2>1, <2>2, <2>5 DEF Completed, Inv, PlaceInv, Forward, Rolled
      <4> QED BY <4>1 DEF Inv, BarrierInv, GrantInv
    <3> QED BY <1>0, <2>1, <2>2, <2>3, <2>4, <3>1 DEF Inv, GrantInv, Rolled
  <2> QED BY <2>6, <2>7, <2>8, <2>9, <2>10, <2>11 DEF Inv
<1>7. ASSUME Select PROVE Inv'
  <2>1. pc = "select" /\ pc' = "start" /\ journal' = journal /\ mem' = mem /\ before' = before /\ crashes' = crashes /\ withdrawn' = withdrawn /\ guard' = guard
        /\ state' = state /\ running' = running /\ runs' = runs /\ introducing' = introducing
    BY <1>7 DEF Select, Goto, kernel
  <2>2. /\ journal.state = mem.state /\ journal.step = mem.step /\ journal.from = mem.from /\ journal.target = mem.target
        /\ journal.dropIn = mem.dropIn /\ journal.archive = mem.archive /\ mem.step = 7 /\ mem.state = "activating"
    BY <1>0, <2>1 DEF Inv, MirrorInv, PlaceInv, Outside, Forward
  <2>3. dropIn' = mem.target /\ mem.target \in Versions /\ mem.dropIn \in Versions /\ mem.from \in Versions /\ mem.from < mem.target
        /\ running = Stopped /\ state.touched \in Versions
    BY <1>0, <1>7, <2>1, <2>2, StateFields DEF Select, Inv, JournalInv, KernelInv, Up, Journals
  <2>4. ~foreign => dropIn = mem.from /\ state.touched <= dropIn
    BY <2>1 DEF Inv, VersionInv, TouchInv
  <2>5. ~foreign => state.touched <= dropIn'
    <3>1. state.touched \in Nat /\ dropIn \in Nat /\ mem.target \in Nat
      BY <1>0, <2>3
    <3> QED BY <2>3, <2>4, <3>1
  <2>6. (~lifted => state.maint) /\ state # NoState
    BY <2>1 DEF Inv, BarrierInv, VersionInv, Forward
  <2>7. TypeOK'
    BY <1>0, <1>7, <2>1, <2>2, <2>3, <2>4, <2>5, <2>6 DEF Inv, TypeOK, Forward, Restoring
  <2>8. PlaceInv' /\ MirrorInv' /\ JournalInv'
    BY <1>0, <1>7, <2>1, <2>2, <2>3, <2>4, <2>5, <2>6 DEF Inv, PlaceInv, MirrorInv, JournalInv, Forward, Restoring, Outside, CommittedRuntime
  <2>9. KernelInv' /\ BarrierInv'
    BY <1>0, <1>7, <2>1, <2>2, <2>3, <2>4, <2>5, <2>6 DEF Inv, KernelInv, BarrierInv, Up, Activation
  <2>10. VersionInv'
    BY <1>0, <1>7, <2>1, <2>2, <2>3, <2>4, <2>5, <2>6 DEF Inv, VersionInv, Forward
  <2>11. TouchInv'
    <3>1. mem.dropIn \in Nat /\ mem.from \in Nat /\ mem.target \in Nat
      BY <1>0, <2>3
    <3>2. ~foreign => mem.dropIn <= mem.target
      BY <2>2, <2>3, <2>4, <3>1 DEF Inv, TouchInv
    <3> QED BY <1>0, <2>1, <2>2, <2>3, <2>5, <3>2 DEF Inv, TouchInv
  <2>12. GrantInv'
    BY <1>0, <2>1, <2>2, <2>6 DEF Inv, GrantInv, Rolled
  <2> QED BY <2>7, <2>8, <2>9, <2>10, <2>11, <2>12 DEF Inv
<1>8. ASSUME Start PROVE Inv'
  <2>1. pc = "start" /\ pc' = "completed" /\ journal' = journal /\ mem' = mem /\ before' = before /\ crashes' = crashes /\ withdrawn' = withdrawn /\ guard' = guard /\ dropIn' = dropIn
    BY <1>8 DEF Start, Goto
  <2>2. /\ running' = dropIn /\ runs' = 0 /\ introducing' = {} /\ Up' /\ state' \in States /\ state' # NoState
        /\ state'.lock = state.lock /\ state'.maint = state.maint /\ state'.active = state.active /\ state'.revoked = state.revoked
        /\ (state.touched <= dropIn => state'.touched = dropIn)
    BY <1>0, <1>8, Started DEF Start
  <2>3. /\ journal.state = mem.state /\ journal.step = mem.step /\ journal.from = mem.from /\ journal.target = mem.target
        /\ journal.dropIn = mem.dropIn /\ journal.archive = mem.archive /\ mem.step = 7
    BY <1>0, <2>1 DEF Inv, MirrorInv, PlaceInv, Outside, Forward
  <2>4. TypeOK'
    BY <1>0, <1>8, <2>1, <2>2, <2>3 DEF Inv, TypeOK, Forward, Restoring
  <2>5. PlaceInv' /\ MirrorInv' /\ JournalInv'
    BY <1>0, <1>8, <2>1, <2>2, <2>3 DEF Inv, PlaceInv, MirrorInv, JournalInv, Forward, Restoring, Outside, CommittedRuntime
  <2>6. KernelInv' /\ BarrierInv'
    BY <1>0, <1>8, <2>1, <2>2, <2>3 DEF Inv, KernelInv, BarrierInv, Up, Activation
  <2>7. VersionInv'
    BY <1>0, <1>8, <2>1, <2>2, <2>3 DEF Inv, VersionInv, Forward
  <2>8. TouchInv'
    <3>1. dropIn \in Nat
      BY <1>0
    <3> QED BY <1>0, <2>1, <2>2, <2>3, <3>1 DEF Inv, TouchInv
  <2>9. GrantInv'
    <3> SUFFICES ASSUME ~foreign PROVE GrantInv'
      BY <1>0 DEF GrantInv
    <3>1. state'.active \cap state'.revoked = {} /\ journal'.archive.active \cap journal'.archive.revoked = {}
      BY <2>1, <2>2 DEF Inv, GrantInv
    <3>2. withdrawn' \subseteq state'.revoked /\ (~lifted => state'.maint)
      BY <2>1, <2>2, <2>3 DEF Inv, GrantInv, Rolled, PlaceInv, Forward
    <3>3. (~lifted => withdrawn' \subseteq journal'.archive.revoked) /\ journal'.digest[2] \subseteq journal'.archive.revoked
      BY <2>1, <2>3 DEF Inv, GrantInv, PlaceInv, Forward
    <3> QED BY <1>0, <2>1, <3>1, <3>2, <3>3 DEF GrantInv, Rolled
  <2> QED BY <2>4, <2>5, <2>6, <2>7, <2>8, <2>9 DEF Inv
<1>9. ASSUME Verify PROVE Inv'
  <2>1. pc = "verify" /\ before' = before /\ crashes' = crashes /\ withdrawn' = withdrawn /\ guard' = guard /\ dropIn' = dropIn /\ running' = running /\ runs' = runs /\ introducing' = introducing /\ state' = state /\ mem.step = 8 /\ mem.state = "verifying"
    BY <1>9 DEF Verify, kernel, disk, Inv, PlaceInv, Forward
  <2>2. /\ journal.state = mem.state /\ journal.step = mem.step /\ journal.from = mem.from /\ journal.target = mem.target
        /\ journal.dropIn = mem.dropIn /\ journal.archive = mem.archive /\ journal.digest = mem.digest
    BY <1>0, <2>1 DEF Inv, MirrorInv, PlaceInv, Outside, Forward
  <2>3. /\ mem' \in Journals /\ journal' = mem' /\ mem'.from = mem.from /\ mem'.target = mem.target /\ mem'.dropIn = mem.dropIn
        /\ mem'.archive = mem.archive /\ mem'.digest = mem.digest /\ mem'.step = 9
        /\ mem'.state = "verifying" /\ pc' = "pin" /\ mem.digest = <<state.active, state.revoked>>
    BY <1>0, <1>9, <2>1, Entered DEF Verify, Verified, Digest, Label, StateOf
  <2>4. TypeOK'
    BY <1>0, <1>9, <2>1, <2>2, <2>3 DEF Inv, TypeOK, Forward, Restoring
  <2>5. PlaceInv' /\ MirrorInv' /\ JournalInv'
    BY <1>0, <1>9, <2>1, <2>2, <2>3 DEF Inv, PlaceInv, MirrorInv, JournalInv, Forward, Restoring, Outside, CommittedRuntime
  <2>6. KernelInv' /\ BarrierInv'
    BY <1>0, <1>9, <2>1, <2>2, <2>3 DEF Inv, KernelInv, BarrierInv, Up, Activation
  <2>7. VersionInv'
    BY <1>0, <1>9, <2>1, <2>2, <2>3 DEF Inv, VersionInv, Forward
  <2>8. TouchInv' /\ GrantInv'
    BY <1>0, <1>9, <2>1, <2>2, <2>3 DEF Inv, TouchInv, GrantInv, Rolled
  <2> QED BY <2>4, <2>5, <2>6, <2>7, <2>8 DEF Inv
<1>10. ASSUME Pin PROVE Inv'
  <2>1. pc = "pin" /\ pc' = "commit" /\ journal' = journal /\ mem' = mem /\ before' = before /\ crashes' = crashes /\ withdrawn' = withdrawn /\ guard' = guard /\ dropIn' = dropIn /\ running' = running /\ runs' = runs /\ introducing' = introducing
    BY <1>10 DEF Pin, Goto, kernel
  <2>2. /\ journal.state = mem.state /\ journal.step = mem.step /\ journal.from = mem.from /\ journal.target = mem.target
        /\ journal.dropIn = mem.dropIn /\ journal.archive = mem.archive /\ mem.step = 9 /\ mem.state = "verifying"
    BY <1>0, <2>1 DEF Inv, MirrorInv, PlaceInv, Outside, Forward
  <2>3. state \in States /\ mem.target \in Versions
    BY <1>0, <2>1 DEF Inv, VersionInv, Forward, Journals
  <2>4. state' \in States /\ state'.lock = mem.target /\ state'.maint = state.maint /\ state'.active = state.active
        /\ state'.revoked = state.revoked /\ state'.touched = state.touched /\ state' # NoState
    BY <1>10, <2>3, Apart DEF Pin, States
  <2>5. TypeOK'
    BY <1>0, <1>10, <2>1, <2>2, <2>3, <2>4 DEF Inv, TypeOK, Forward, Restoring
  <2>6. PlaceInv' /\ MirrorInv' /\ JournalInv'
    BY <1>0, <1>10, <2>1, <2>2, <2>3, <2>4 DEF Inv, PlaceInv, MirrorInv, JournalInv, Forward, Restoring, Outside, CommittedRuntime
  <2>7. KernelInv' /\ BarrierInv'
    BY <1>0, <1>10, <2>1, <2>2, <2>3, <2>4 DEF Inv, KernelInv, BarrierInv, Up, Activation
  <2>8. VersionInv'
    BY <1>0, <1>10, <2>1, <2>2, <2>3, <2>4 DEF Inv, VersionInv, Forward
  <2>9. TouchInv' /\ GrantInv'
    BY <1>0, <1>10, <2>1, <2>2, <2>3, <2>4 DEF Inv, TouchInv, GrantInv, Rolled
  <2> QED BY <2>5, <2>6, <2>7, <2>8, <2>9 DEF Inv
<1>11. ASSUME Commit PROVE Inv'
  <2>1. pc = "commit" /\ pc' = "resume" /\ journal' = mem' /\ before' = before /\ crashes' = crashes /\ withdrawn' = withdrawn /\ guard' = guard /\ dropIn' = dropIn /\ running' = running /\ runs' = runs /\ introducing' = introducing /\ state' = state
    BY <1>11 DEF Commit, Goto, Save, kernel, disk
  <2>2. /\ journal.state = mem.state /\ journal.step = mem.step /\ journal.from = mem.from /\ journal.target = mem.target
        /\ journal.dropIn = mem.dropIn /\ journal.archive = mem.archive /\ mem.step = 9 /\ mem.state = "verifying" /\ journal.digest = mem.digest
    BY <1>0, <2>1 DEF Inv, MirrorInv, PlaceInv, Outside, Forward
  <2>3. /\ mem' \in Journals /\ mem'.state = "committed" /\ mem'.step = mem.step /\ mem'.from = mem.from /\ mem'.target = mem.target
        /\ mem'.dropIn = mem.dropIn /\ mem'.archive = mem.archive /\ mem'.digest = mem.digest
    <3>1. mem \in Journals /\ "committed" \in JournalStates
      BY <1>0 DEF Inv, TypeOK, JournalStates, Terminal
    <3>2. mem' = [mem EXCEPT !.state = "committed"]
      BY <1>11 DEF Commit, Save
    <3> QED BY <3>1, <3>2, Restated
  <2>4. TypeOK'
    BY <1>0, <1>11, <2>1, <2>2, <2>3 DEF Inv, TypeOK, Forward, Restoring
  <2>5. PlaceInv' /\ MirrorInv' /\ JournalInv'
    BY <1>0, <1>11, <2>1, <2>2, <2>3 DEF Inv, PlaceInv, MirrorInv, JournalInv, Forward, Restoring, Outside, CommittedRuntime
  <2>6. KernelInv' /\ BarrierInv'
    BY <1>0, <1>11, <2>1, <2>2, <2>3 DEF Inv, KernelInv, BarrierInv, Up, Activation
  <2>7. VersionInv'
    BY <1>0, <1>11, <2>1, <2>2, <2>3 DEF Inv, VersionInv, Forward
  <2>8. TouchInv' /\ GrantInv'
    BY <1>0, <1>11, <2>1, <2>2, <2>3 DEF Inv, TouchInv, GrantInv, Rolled
  <2> QED BY <2>4, <2>5, <2>6, <2>7, <2>8 DEF Inv
<1> QED BY <1>1, <1>2, <1>3, <1>4, <1>5, <1>6, <1>7, <1>8, <1>9, <1>10, <1>11

\* Nobody is at work any more.
LEMMA Idle ==
  ASSUME pc' = "idle", mem' = NoJournal, before' = "none"
  PROVE  PlaceInv' /\ MirrorInv' /\ mem' \in Journals /\ before' \in JournalStates
BY EmptyJournal DEF PlaceInv, MirrorInv, Outside, Forward, Restoring, JournalStates

\* The update ends: reopened, or failed before or after the target could be active.
LEMMA EndNext ==
  ASSUME Inv, UNCHANGED <<archives, lifted>>, Resume \/ FailActive \/ FailEarly
  PROVE  Inv'
<1>0. /\ mem \in Journals /\ journal \in Journals /\ state \in States \cup {NoState} /\ dropIn \in Versions
      /\ foreign' = foreign /\ kept' = kept /\ lifted' = lifted /\ Versions \subseteq Nat /\ mem.step \in 1..9
      /\ crashes' = crashes /\ withdrawn' = withdrawn
  BY Apart DEF Inv, TypeOK, archives, Journals, Resume, FailActive, FailEarly
\* Whatever becomes of the barrier.
<1>s. /\ dropIn' = dropIn
      /\ state' \in States \cup {NoState} /\ (state # NoState => state' # NoState) /\ state'.lock = state.lock
      /\ state'.touched = state.touched /\ state'.active = state.active /\ state'.revoked = state.revoked
      /\ (state'.maint = state.maint \/ Resume \/ (FailEarly /\ mem.step = 6))
  <2>1. CASE UNCHANGED disk
    BY <1>0, <2>1 DEF disk
  <2>2. CASE SetMaintenance(FALSE) /\ (Resume \/ (FailEarly /\ mem.step = 6))
    BY <1>0, <2>2, Switched DEF Inv, KernelInv
  <2> QED BY <2>1, <2>2 DEF Resume, FailActive, FailEarly
<1>1. ASSUME Resume PROVE Inv'
  <2>1. pc' = "idle" /\ mem' = NoJournal /\ before' = "none" /\ guard' = FALSE /\ pc = "resume" /\ journal' = journal /\ running' = running /\ runs' = runs /\ introducing' = introducing
    BY <1>1 DEF Resume, Finish, kernel
  <2>2. journal.state = "committed"
    BY <2>1 DEF Inv, MirrorInv, PlaceInv, Outside
  <2>3. TypeOK'
    BY <1>0, <1>1, <2>1, <2>2, <1>s, Idle, EmptyJournal DEF Inv, TypeOK, Forward, Restoring
  <2>4. PlaceInv' /\ MirrorInv' /\ JournalInv'
    BY <1>0, <1>1, <2>1, <2>2, <1>s, Idle, EmptyJournal DEF Inv, PlaceInv, MirrorInv, JournalInv, Forward, Restoring, Outside, CommittedRuntime
  <2>5. KernelInv' /\ BarrierInv'
    BY <1>0, <1>1, <2>1, <2>2, <1>s, Idle, EmptyJournal DEF Inv, KernelInv, BarrierInv, Up, Activation
  <2>6. VersionInv'
    BY <1>0, <1>1, <2>1, <2>2, <1>s, Idle, EmptyJournal DEF Inv, VersionInv, Forward
  <2>7. TouchInv'
    BY <1>0, <1>1, <2>1, <2>2, <1>s, Idle, EmptyJournal DEF Inv, TouchInv
  <2>8. GrantInv'
    <3> SUFFICES ASSUME ~foreign PROVE GrantInv'
      BY <1>0 DEF GrantInv
    <3> QED BY <1>0, <1>1, <2>1, <2>2, <1>s, Idle, EmptyJournal DEF Inv, GrantInv, Rolled
  <2> QED BY <2>3, <2>4, <2>5, <2>6, <2>7, <2>8 DEF Inv
<1>2. ASSUME FailActive PROVE Inv'
  <2>1. pc \in Forward /\ pc' = "restore" /\ journal' = mem' /\ before' = before /\ guard' = guard /\ mem.step >= 7 /\ state' = state /\ running' = running /\ runs' = runs /\ introducing' = introducing
    BY <1>2 DEF FailActive, Save, kernel, disk
  <2>2. /\ mem' \in Journals /\ mem'.state = "rolling-back" /\ mem'.step = mem.step /\ mem'.from = mem.from /\ mem'.target = mem.target
        /\ mem'.dropIn = mem.dropIn /\ mem'.archive = mem.archive /\ mem'.digest = mem.digest
    BY <1>0, <1>2, Restated DEF FailActive, Save, JournalStates
  <2>3. /\ journal.state = mem.state /\ journal.step = mem.step /\ journal.from = mem.from /\ journal.target = mem.target
        /\ journal.dropIn = mem.dropIn /\ journal.archive = mem.archive /\ journal.digest = mem.digest
        /\ mem.state \in {"activating", "verifying"} /\ before = "none"
    BY <1>0, <2>1 DEF Inv, MirrorInv, PlaceInv, Outside, Forward
  <2>4. TypeOK'
    BY <1>0, <1>2, <2>1, <2>2, <2>3, <1>s DEF Inv, TypeOK, Forward, Restoring
  <2>5. PlaceInv' /\ MirrorInv' /\ JournalInv'
    BY <1>0, <1>2, <2>1, <2>2, <2>3, <1>s DEF Inv, PlaceInv, MirrorInv, JournalInv, Forward, Restoring, Outside, CommittedRuntime
  <2>6. KernelInv' /\ BarrierInv'
    BY <1>0, <1>2, <2>1, <2>2, <2>3, <1>s DEF Inv, KernelInv, BarrierInv, Up, Activation
  <2>7. VersionInv'
    BY <1>0, <1>2, <2>1, <2>2, <2>3, <1>s DEF Inv, VersionInv, Forward
  <2>8. TouchInv'
    BY <1>0, <1>2, <2>1, <2>2, <2>3, <1>s DEF Inv, TouchInv
  <2>9. GrantInv'
    <3> SUFFICES ASSUME ~foreign PROVE GrantInv'
      BY <1>0 DEF GrantInv
    <3> QED BY <1>0, <1>2, <2>1, <2>2, <2>3, <1>s DEF Inv, GrantInv, Rolled
  <2> QED BY <2>4, <2>5, <2>6, <2>7, <2>8, <2>9 DEF Inv
<1>3. ASSUME FailEarly PROVE Inv'
  <2>1. pc' = "idle" /\ mem' = NoJournal /\ before' = "none" /\ guard' = FALSE /\ pc \in Forward /\ mem.step < 7
    BY <1>3 DEF FailEarly, Finish
  <2>2. /\ journal' \in Journals /\ journal'.state \in {"blocked", "recovery-required"} /\ journal'.step = mem.step /\ journal'.from = mem.from
        /\ journal'.target = mem.target /\ journal'.dropIn = mem.dropIn /\ journal'.archive = mem.archive
    <3>1. PICK k \in {"blocked", "recovery-required"} : journal' = [mem EXCEPT !.state = k]
      BY <1>3 DEF FailEarly
    <3>2. k \in JournalStates
      BY DEF JournalStates, Terminal
    <3> QED BY <1>0, <3>1, <3>2, Restated
  <2>3. /\ journal.state = mem.state /\ journal.step = mem.step /\ journal.from = mem.from /\ journal.target = mem.target
        /\ journal.dropIn = mem.dropIn /\ journal.archive = mem.archive /\ mem.state \in {"preparing", "staged", "maintenance"}
    BY <1>0, <2>1 DEF Inv, MirrorInv, PlaceInv, Outside, Forward
  <2>4. \/ running' = running /\ runs' = runs /\ introducing' = introducing
        \/ running' = Stopped /\ runs' = 0 /\ introducing' = {}
    BY <1>3 DEF FailEarly, kernel, StopService
  <2>5. TypeOK'
    <3>1. running' \in Versions \cup {Stopped} /\ runs' \in 0..1 /\ introducing' \subseteq Grants
      BY <2>4 DEF Inv, TypeOK
    <3>2. mem' \in Journals /\ before' \in JournalStates
      BY <2>1, Idle
    <3> QED BY <1>0, <1>s, <2>1, <2>2, <3>1, <3>2 DEF Inv, TypeOK
  <2>6. PlaceInv' /\ MirrorInv' /\ JournalInv'
    BY <1>0, <1>3, <2>1, <2>2, <2>3, <2>4, <1>s, Idle, EmptyJournal DEF Inv, PlaceInv, MirrorInv, JournalInv, Forward, Restoring, Outside, CommittedRuntime
  <2>7. KernelInv' /\ BarrierInv'
    <3>1. KernelInv'
      BY <1>s, <2>1, <2>4 DEF Inv, KernelInv, Up
    <3>2. ~(journal.target # journal.dropIn /\ dropIn = journal.target)
      BY <2>1, <2>3 DEF Inv, BarrierInv, Activation
    <3> QED BY <1>0, <1>s, <2>1, <2>2, <2>3, <3>1, <3>2 DEF BarrierInv
  <2>8. VersionInv'
    BY <1>0, <1>3, <2>1, <2>2, <2>3, <2>4, <1>s, Idle, EmptyJournal DEF Inv, VersionInv, Forward
  <2>9. TouchInv'
    BY <1>0, <1>3, <2>1, <2>2, <2>3, <2>4, <1>s, Idle, EmptyJournal DEF Inv, TouchInv
  <2>10. GrantInv'
    <3> SUFFICES ASSUME ~foreign PROVE GrantInv'
      BY <1>0 DEF GrantInv
    <3> QED BY <1>0, <1>3, <2>1, <2>2, <2>3, <2>4, <1>s, Idle, EmptyJournal DEF Inv, GrantInv, Rolled
  <2> QED BY <2>5, <2>6, <2>7, <2>8, <2>9, <2>10 DEF Inv
<1> QED BY <1>1, <1>2, <1>3

\* The archive goes back to its place.
LEMMA RestoreNext ==
  ASSUME Inv, UNCHANGED <<archives, lifted>>, Restore
  PROVE  Inv'
<1>0. /\ mem \in Journals /\ journal \in Journals /\ state \in States \cup {NoState} /\ dropIn \in Versions
      /\ foreign' = foreign /\ kept' = kept /\ lifted' = lifted /\ Versions \subseteq Nat /\ mem.step \in 7..9
      /\ crashes' = crashes /\ withdrawn' = withdrawn
      /\ mem.from \in Nat /\ mem.target \in Nat /\ mem.dropIn \in Versions /\ mem.archive \in States \cup {NoState}
      /\ mem.dropIn \in Nat /\ dropIn \in Nat /\ state.touched \in Nat /\ mem.archive.touched \in Nat
  <2>1. mem \in Journals /\ mem.step >= 7
    BY DEF Inv, TypeOK, PlaceInv, Restore, CheckRestore, Halt, MoveAside, Replace, Reselect, Restart, Reverify, Reopen,
           Restored, FailRestore, Goto, Restoring
  <2>2. crashes' = crashes /\ withdrawn' = withdrawn
    BY DEF Restore, CheckRestore, Halt, MoveAside, Replace, Reselect, Restart, Reverify, Reopen, Restored, FailRestore
  <2>3. mem.from \in Versions /\ mem.target \in Versions /\ mem.dropIn \in Versions /\ mem.step \in 1..9
        /\ mem.archive \in States \cup {NoState}
    BY <2>1 DEF Journals
  <2>4. state.touched \in Versions /\ mem.archive.touched \in Versions
    BY <2>3, StateFields DEF Inv, TypeOK
  <2>5. journal \in Journals /\ state \in States \cup {NoState} /\ dropIn \in Versions
    BY DEF Inv, TypeOK
  <2>6. Versions \subseteq Nat /\ foreign' = foreign /\ kept' = kept /\ lifted' = lifted
    BY Apart DEF archives
  <2>7. mem.step \in 7..9
    BY <2>1, <2>3
  <2> QED BY <2>1, <2>2, <2>3, <2>4, <2>5, <2>6, <2>7
<1>m. /\ pc \in Restoring \cup {"restored"} /\ mem.state = "rolling-back" /\ journal.state = mem.state /\ journal.step = mem.step
      /\ journal.from = mem.from /\ journal.target = mem.target /\ journal.dropIn = mem.dropIn
      /\ journal.archive = mem.archive /\ journal.digest = mem.digest /\ mem.from < mem.target
  <2>1. pc \in Restoring \cup {"restored"}
    BY DEF Restore, CheckRestore, Halt, MoveAside, Replace, Reselect, Restart, Reverify, Reopen,
           Restored, FailRestore, Goto, Restoring
  <2> QED BY <2>1 DEF Inv, PlaceInv, MirrorInv, JournalInv, Outside, Restoring
<1>1. ASSUME CheckRestore PROVE Inv'
  <2>1. pc = "restore" /\ pc' = "halt" /\ journal' = journal /\ mem' = mem /\ before' = before /\ guard' = guard /\ running' = running /\ runs' = runs /\ introducing' = introducing
        /\ state' = state /\ dropIn' = dropIn /\ mem.archive # NoState
    BY <1>1 DEF CheckRestore, Goto, kernel, disk
  <2>2. TypeOK'
    BY <1>0, <1>1, <2>1, <1>m DEF Inv, TypeOK, Forward, Restoring
  <2>3. PlaceInv' /\ MirrorInv' /\ JournalInv'
    BY <1>0, <1>1, <2>1, <1>m DEF Inv, PlaceInv, MirrorInv, JournalInv, Forward, Restoring, Outside, CommittedRuntime
  <2>4. KernelInv' /\ BarrierInv'
    BY <1>0, <1>1, <2>1, <1>m DEF Inv, KernelInv, BarrierInv, Up, Activation
  <2>5. VersionInv'
    BY <1>0, <1>1, <2>1, <1>m DEF Inv, VersionInv, Forward
  <2>6. TouchInv'
    BY <1>0, <1>1, <2>1, <1>m DEF Inv, TouchInv
  <2>7. GrantInv'
    <3> SUFFICES ASSUME ~foreign PROVE GrantInv'
      BY <1>0 DEF GrantInv
    <3> QED BY <1>0, <1>1, <2>1, <1>m DEF Inv, GrantInv, Rolled
  <2> QED BY <2>2, <2>3, <2>4, <2>5, <2>6, <2>7 DEF Inv
<1>2. ASSUME Halt PROVE Inv'
  <2>1. pc = "halt" /\ pc' = "aside" /\ journal' = journal /\ mem' = mem /\ before' = before /\ guard' = guard /\ state' = state /\ dropIn' = dropIn
        /\ running' = Stopped /\ runs' = 0 /\ introducing' = {}
    BY <1>2 DEF Halt, Goto, StopService, disk
  <2>2. TypeOK'
    BY <1>0, <1>2, <2>1, <1>m DEF Inv, TypeOK, Forward, Restoring
  <2>3. PlaceInv' /\ MirrorInv' /\ JournalInv'
    BY <1>0, <1>2, <2>1, <1>m DEF Inv, PlaceInv, MirrorInv, JournalInv, Forward, Restoring, Outside, CommittedRuntime
  <2>4. KernelInv' /\ BarrierInv'
    BY <1>0, <1>2, <2>1, <1>m DEF Inv, KernelInv, BarrierInv, Up, Activation
  <2>5. VersionInv'
    BY <1>0, <1>2, <2>1, <1>m DEF Inv, VersionInv, Forward
  <2>6. TouchInv'
    BY <1>0, <1>2, <2>1, <1>m DEF Inv, TouchInv
  <2>7. GrantInv'
    <3> SUFFICES ASSUME ~foreign PROVE GrantInv'
      BY <1>0 DEF GrantInv
    <3> QED BY <1>0, <1>2, <2>1, <1>m DEF Inv, GrantInv, Rolled
  <2> QED BY <2>2, <2>3, <2>4, <2>5, <2>6, <2>7 DEF Inv
<1>3. ASSUME MoveAside PROVE Inv'
  <2>1. pc = "aside" /\ pc' = "replace" /\ journal' = journal /\ mem' = mem /\ before' = before /\ guard' = guard /\ state' = NoState /\ dropIn' = dropIn /\ running' = running /\ runs' = runs /\ introducing' = introducing
        /\ mem.archive.lock = mem.from
    BY <1>3 DEF MoveAside, Goto, kernel
  <2>2. TypeOK'
    BY <1>0, <1>3, <2>1, <1>m, Apart DEF Inv, TypeOK, Forward, Restoring
  <2>3. PlaceInv' /\ MirrorInv' /\ JournalInv'
    BY <1>0, <1>3, <2>1, <1>m, Apart DEF Inv, PlaceInv, MirrorInv, JournalInv, Forward, Restoring, Outside, CommittedRuntime
  <2>4. KernelInv' /\ BarrierInv'
    BY <1>0, <1>3, <2>1, <1>m, Apart DEF Inv, KernelInv, BarrierInv, Up, Activation
  <2>5. VersionInv'
    BY <1>0, <1>3, <2>1, <1>m, Apart DEF Inv, VersionInv, Forward
  <2>6. TouchInv'
    BY <1>0, <1>3, <2>1, <1>m, Apart DEF Inv, TouchInv
  <2>7. GrantInv'
    <3> SUFFICES ASSUME ~foreign PROVE GrantInv'
      BY <1>0 DEF GrantInv
    <3> QED BY <1>0, <1>3, <2>1, <1>m, Apart DEF Inv, GrantInv, Rolled
  <2> QED BY <2>2, <2>3, <2>4, <2>5, <2>6, <2>7 DEF Inv
<1>4. ASSUME Replace PROVE Inv'
  <2>1. pc = "replace" /\ pc' = "reselect" /\ journal' = journal /\ mem' = mem /\ before' = before /\ guard' = guard /\ state' = mem.archive /\ dropIn' = dropIn /\ running' = running /\ runs' = runs /\ introducing' = introducing
    BY <1>4 DEF Replace, Goto, kernel
  <2>2. ~lifted => state'.maint
    BY <1>0, <1>m, <2>1 DEF Inv, BarrierInv
  <2>3. TypeOK'
    BY <1>0, <1>4, <2>1, <2>2, <1>m DEF Inv, TypeOK, Forward, Restoring
  <2>4. PlaceInv' /\ MirrorInv' /\ JournalInv'
    BY <1>0, <1>4, <2>1, <2>2, <1>m DEF Inv, PlaceInv, MirrorInv, JournalInv, Forward, Restoring, Outside, CommittedRuntime
  <2>5. KernelInv' /\ BarrierInv'
    BY <1>0, <1>4, <2>1, <2>2, <1>m DEF Inv, KernelInv, BarrierInv, Up, Activation
  <2>6. VersionInv'
    BY <1>0, <1>4, <2>1, <2>2, <1>m DEF Inv, VersionInv, Forward
  <2>7. TouchInv'
    BY <1>0, <1>4, <2>1, <2>2, <1>m DEF Inv, TouchInv
  <2>8. GrantInv'
    <3> SUFFICES ASSUME ~foreign PROVE GrantInv'
      BY <1>0 DEF GrantInv
    <3> QED BY <1>0, <1>4, <2>1, <2>2, <1>m DEF Inv, GrantInv, Rolled
  <2> QED BY <2>3, <2>4, <2>5, <2>6, <2>7, <2>8 DEF Inv
<1>5. ASSUME Reselect PROVE Inv'
  <2>1. pc = "reselect" /\ pc' = "restart" /\ journal' = journal /\ mem' = mem /\ before' = before /\ guard' = guard /\ state' = state /\ dropIn' = mem.dropIn /\ running' = running /\ runs' = runs /\ introducing' = introducing
    BY <1>5 DEF Reselect, Goto, kernel
  <2>2. running = Stopped
    BY <2>1 DEF Inv, KernelInv, Up
  <2>3. TypeOK'
    BY <1>0, <1>5, <2>1, <2>2, <1>m DEF Inv, TypeOK, Forward, Restoring
  <2>4. PlaceInv' /\ MirrorInv' /\ JournalInv'
    BY <1>0, <1>5, <2>1, <2>2, <1>m DEF Inv, PlaceInv, MirrorInv, JournalInv, Forward, Restoring, Outside, CommittedRuntime
  <2>5. KernelInv' /\ BarrierInv'
    BY <1>0, <1>5, <2>1, <2>2, <1>m DEF Inv, KernelInv, BarrierInv, Up, Activation
  <2>6. VersionInv'
    BY <1>0, <1>5, <2>1, <2>2, <1>m DEF Inv, VersionInv, Forward
  <2>7. TouchInv'
    BY <1>0, <1>5, <2>1, <2>2, <1>m DEF Inv, TouchInv
  <2>8. GrantInv'
    <3> SUFFICES ASSUME ~foreign PROVE GrantInv'
      BY <1>0 DEF GrantInv
    <3> QED BY <1>0, <1>5, <2>1, <2>2, <1>m DEF Inv, GrantInv, Rolled
  <2> QED BY <2>3, <2>4, <2>5, <2>6, <2>7, <2>8 DEF Inv
<1>6. ASSUME Restart PROVE Inv'
  <2>1. pc = "restart" /\ pc' = "reverify" /\ journal' = journal /\ mem' = mem /\ before' = before /\ guard' = guard /\ dropIn' = dropIn
    BY <1>6 DEF Restart, Goto
  <2>2. /\ running' = dropIn /\ runs' = 0 /\ introducing' = {} /\ Up' /\ state' \in States /\ state' # NoState
        /\ state'.lock = state.lock /\ state'.maint = state.maint /\ state'.active = state.active /\ state'.revoked = state.revoked
        /\ (state.touched <= dropIn => state'.touched = dropIn)
    BY <1>0, <1>6, Started DEF Restart
  <2>3. dropIn \in Nat
    BY <1>0
  <2>4. TypeOK'
    BY <1>0, <1>6, <2>1, <2>2, <2>3, <1>m DEF Inv, TypeOK, Forward, Restoring
  <2>5. PlaceInv' /\ MirrorInv' /\ JournalInv'
    BY <1>0, <1>6, <2>1, <2>2, <2>3, <1>m DEF Inv, PlaceInv, MirrorInv, JournalInv, Forward, Restoring, Outside, CommittedRuntime
  <2>6. KernelInv' /\ BarrierInv'
    BY <1>0, <1>6, <2>1, <2>2, <2>3, <1>m DEF Inv, KernelInv, BarrierInv, Up, Activation
  <2>7. VersionInv'
    BY <1>0, <1>6, <2>1, <2>2, <2>3, <1>m DEF Inv, VersionInv, Forward
  <2>8. TouchInv'
    BY <1>0, <1>6, <2>1, <2>2, <2>3, <1>m DEF Inv, TouchInv
  <2>9. GrantInv'
    <3> SUFFICES ASSUME ~foreign PROVE GrantInv'
      BY <1>0 DEF GrantInv
    <3> QED BY <1>0, <1>6, <2>1, <2>2, <2>3, <1>m DEF Inv, GrantInv, Rolled
  <2> QED BY <2>4, <2>5, <2>6, <2>7, <2>8, <2>9 DEF Inv
<1>7. ASSUME Reverify PROVE Inv'
  <2>1. pc = "reverify" /\ pc' = "reopen" /\ journal' = journal /\ mem' = mem /\ before' = before /\ guard' = guard /\ state' = state /\ dropIn' = dropIn /\ running' = running /\ runs' = runs /\ introducing' = introducing
        /\ dropIn = mem.from
    BY <1>7 DEF Reverify, Verified, Goto, kernel, disk
  <2>2. TypeOK'
    BY <1>0, <1>7, <2>1, <1>m DEF Inv, TypeOK, Forward, Restoring
  <2>3. PlaceInv' /\ MirrorInv' /\ JournalInv'
    BY <1>0, <1>7, <2>1, <1>m DEF Inv, PlaceInv, MirrorInv, JournalInv, Forward, Restoring, Outside, CommittedRuntime
  <2>4. KernelInv' /\ BarrierInv'
    BY <1>0, <1>7, <2>1, <1>m DEF Inv, KernelInv, BarrierInv, Up, Activation
  <2>5. VersionInv'
    BY <1>0, <1>7, <2>1, <1>m DEF Inv, VersionInv, Forward
  <2>6. TouchInv'
    BY <1>0, <1>7, <2>1, <1>m DEF Inv, TouchInv
  <2>7. GrantInv'
    <3> SUFFICES ASSUME ~foreign PROVE GrantInv'
      BY <1>0 DEF GrantInv
    <3> QED BY <1>0, <1>7, <2>1, <1>m DEF Inv, GrantInv, Rolled
  <2> QED BY <2>2, <2>3, <2>4, <2>5, <2>6, <2>7 DEF Inv
<1>8. ASSUME Reopen PROVE Inv'
  <2>1. pc = "reopen" /\ pc' = "restored" /\ journal' = journal /\ mem' = mem /\ before' = before /\ guard' = guard /\ running' = running /\ runs' = runs /\ introducing' = introducing
    BY <1>8 DEF Reopen, Goto, kernel
  <2>2. /\ dropIn' = dropIn /\ state' \in States /\ state' # NoState /\ state'.lock = state.lock /\ state'.touched = state.touched
        /\ state'.active = state.active /\ state'.revoked = state.revoked
    BY <1>0, <1>8, Switched DEF Reopen, Inv, KernelInv
  <2>3. dropIn = mem.from /\ dropIn # mem.target
    BY <1>0, <1>m, <2>1 DEF Inv, KernelInv
  <2>4. TypeOK'
    BY <1>0, <1>8, <2>1, <2>2, <2>3, <1>m DEF Inv, TypeOK, Forward, Restoring
  <2>5. PlaceInv' /\ MirrorInv' /\ JournalInv'
    BY <1>0, <1>8, <2>1, <2>2, <2>3, <1>m DEF Inv, PlaceInv, MirrorInv, JournalInv, Forward, Restoring, Outside, CommittedRuntime
  <2>6. KernelInv' /\ BarrierInv'
    BY <1>0, <1>8, <2>1, <2>2, <2>3, <1>m DEF Inv, KernelInv, BarrierInv, Up, Activation
  <2>7. VersionInv'
    BY <1>0, <1>8, <2>1, <2>2, <2>3, <1>m DEF Inv, VersionInv, Forward
  <2>8. TouchInv'
    BY <1>0, <1>8, <2>1, <2>2, <2>3, <1>m DEF Inv, TouchInv
  <2>9. GrantInv'
    <3> SUFFICES ASSUME ~foreign PROVE GrantInv'
      BY <1>0 DEF GrantInv
    <3> QED BY <1>0, <1>8, <2>1, <2>2, <2>3, <1>m DEF Inv, GrantInv, Rolled
  <2> QED BY <2>4, <2>5, <2>6, <2>7, <2>8, <2>9 DEF Inv
<1>9. ASSUME Restored PROVE Inv'
  <2>1. pc = "restored" /\ pc' = "idle" /\ mem' = NoJournal /\ before' = "none" /\ guard' = FALSE /\ state' = state /\ dropIn' = dropIn /\ running' = running /\ runs' = runs /\ introducing' = introducing
    BY <1>9 DEF Restored, Finish, kernel, disk
  <2>2. /\ journal' \in Journals /\ journal'.state = "rolled-back" /\ journal'.step = mem.step /\ journal'.from = mem.from /\ journal'.target = mem.target
        /\ journal'.dropIn = mem.dropIn /\ journal'.archive = mem.archive /\ journal'.digest = mem.digest
    <3>1. mem \in Journals /\ "rolled-back" \in JournalStates
      BY <1>0 DEF Inv, TypeOK, JournalStates, Terminal
    <3>2. journal' = [mem EXCEPT !.state = "rolled-back"]
      BY <1>9 DEF Restored
    <3> QED BY <3>1, <3>2, Restated
  <2>3. dropIn = mem.from /\ dropIn # mem.target
    BY <1>0, <1>m, <2>1 DEF Inv, KernelInv
  <2>4. TypeOK'
    BY <1>0, <1>9, <2>1, <2>2, <2>3, <1>m, Idle DEF Inv, TypeOK, Forward, Restoring
  <2>5. PlaceInv' /\ MirrorInv' /\ JournalInv'
    BY <1>0, <1>9, <2>1, <2>2, <2>3, <1>m, Idle DEF Inv, PlaceInv, MirrorInv, JournalInv, Forward, Restoring, Outside, CommittedRuntime
  <2>6. KernelInv' /\ BarrierInv'
    BY <1>0, <1>9, <2>1, <2>2, <2>3, <1>m, Idle DEF Inv, KernelInv, BarrierInv, Up, Activation
  <2>7. VersionInv'
    BY <1>0, <1>9, <2>1, <2>2, <2>3, <1>m, Idle DEF Inv, VersionInv, Forward
  <2>8. TouchInv'
    BY <1>0, <1>9, <2>1, <2>2, <2>3, <1>m, Idle DEF Inv, TouchInv
  <2>9. GrantInv'
    <3> SUFFICES ASSUME ~foreign PROVE GrantInv'
      BY <1>0 DEF GrantInv
    <3> QED BY <1>0, <1>9, <2>1, <2>2, <2>3, <1>m, Idle DEF Inv, GrantInv, Rolled
  <2> QED BY <2>4, <2>5, <2>6, <2>7, <2>8, <2>9 DEF Inv
<1>10. ASSUME FailRestore PROVE Inv'
  <2>1. pc \in Restoring /\ pc' = "idle" /\ mem' = NoJournal /\ before' = "none" /\ guard' = FALSE /\ running' = running /\ runs' = runs /\ introducing' = introducing
    BY <1>10 DEF FailRestore, Finish, kernel
  <2>2. /\ journal' \in Journals /\ journal'.state = "recovery-required" /\ journal'.step = mem.step /\ journal'.from = mem.from /\ journal'.target = mem.target
        /\ journal'.dropIn = mem.dropIn /\ journal'.archive = mem.archive /\ journal'.digest = mem.digest
    BY <1>0, <1>10, Restated DEF FailRestore, JournalStates
  <2>3. /\ dropIn' = dropIn /\ state' \in States \cup {NoState} /\ (state # NoState => state' # NoState)
        /\ state'.lock = state.lock /\ state'.touched = state.touched /\ state'.active = state.active /\ state'.revoked = state.revoked
    BY <1>0, <1>10, Switched DEF FailRestore, Inv, KernelInv, disk
  <2>4. (state'.maint = state.maint) \/ dropIn # mem.target
    <3>1. state' = state \/ pc = "reopen"
      BY <1>10 DEF FailRestore, disk
    <3>2. pc = "reopen" => dropIn = mem.from
      BY DEF Inv, KernelInv
    <3>3. mem.from # mem.target
      BY <1>0, <1>m
    <3> QED BY <3>1, <3>2, <3>3
  <2>5. TypeOK'
    BY <1>0, <1>10, <2>1, <2>2, <2>3, <2>4, <1>m, Idle DEF Inv, TypeOK, Forward, Restoring
  <2>6. PlaceInv' /\ MirrorInv' /\ JournalInv'
    BY <1>0, <1>10, <2>1, <2>2, <2>3, <2>4, <1>m, Idle DEF Inv, PlaceInv, MirrorInv, JournalInv, Forward, Restoring, Outside, CommittedRuntime
  <2>7. KernelInv' /\ BarrierInv'
    BY <1>0, <1>10, <2>1, <2>2, <2>3, <2>4, <1>m, Idle DEF Inv, KernelInv, BarrierInv, Up, Activation
  <2>8. VersionInv'
    BY <1>0, <1>10, <2>1, <2>2, <2>3, <2>4, <1>m, Idle DEF Inv, VersionInv, Forward
  <2>9. TouchInv'
    BY <1>0, <1>10, <2>1, <2>2, <2>3, <2>4, <1>m, Idle DEF Inv, TouchInv
  <2>10. GrantInv'
    <3> SUFFICES ASSUME ~foreign PROVE GrantInv'
      BY <1>0 DEF GrantInv
    <3> QED BY <1>0, <1>10, <2>1, <2>2, <2>3, <2>4, <1>m, Idle DEF Inv, GrantInv, Rolled
  <2> QED BY <2>5, <2>6, <2>7, <2>8, <2>9, <2>10 DEF Inv
<1> QED BY <1>1, <1>2, <1>3, <1>4, <1>5, <1>6, <1>7, <1>8, <1>9, <1>10 DEF Restore

\* The command that undoes an update, until the archive's turn.
LEMMA RollbackNext ==
  ASSUME Inv, UNCHANGED <<archives, lifted>>, Rollback
  PROVE  Inv'
<1>0. /\ mem \in Journals /\ journal \in Journals /\ state \in States \cup {NoState} /\ dropIn \in Versions
      /\ foreign' = foreign /\ kept' = kept /\ lifted' = lifted /\ Versions \subseteq Nat /\ mem.step \in 1..9 /\ journal.step \in 1..9
      /\ crashes' = crashes /\ withdrawn' = withdrawn
  <2>1. crashes' = crashes /\ withdrawn' = withdrawn
    BY DEF Rollback, StartRollback, Reset, Unpause, Cancelled, Repause, Quiesce, Compare, Recover, Refuse
  <2>2. mem \in Journals /\ journal \in Journals /\ state \in States \cup {NoState} /\ dropIn \in Versions
    BY DEF Inv, TypeOK
  <2> QED BY <2>1, <2>2, Apart DEF archives, Journals
\* Once it has begun, it works with what the journal said.
<1>m. ASSUME pc \in {"reset", "unpause", "cancelled", "repause", "quiesce", "compare", "recover"}
      PROVE  /\ journal.state = mem.state /\ journal.step = mem.step /\ journal.from = mem.from /\ journal.target = mem.target
             /\ journal.dropIn = mem.dropIn /\ journal.archive = mem.archive /\ journal.digest = mem.digest
             /\ before = mem.state /\ before # "none"
  BY <1>m DEF Inv, PlaceInv, MirrorInv, Outside
<1>1. ASSUME StartRollback PROVE Inv'
  <2>1. pc = "idle" /\ journal' = journal /\ mem' = journal /\ before' = journal.state /\ guard' = TRUE
        /\ state' = state /\ dropIn' = dropIn /\ running' = running /\ runs' = runs /\ introducing' = introducing
    BY <1>1 DEF StartRollback, kernel, disk
  <2>2. journal.state \in JournalStates \ {"none", "rolled-back", "blocked"}
    BY <1>1 DEF StartRollback
  <2>3. \/ journal.step < 7 /\ pc' = "reset"
        \/ journal.step >= 7 /\ journal.state = "committed" /\ pc' = "repause"
        \/ journal.step >= 7 /\ journal.state \in Activation /\ pc' = "recover"
    BY <1>0, <1>1, <2>2 DEF StartRollback, Inv, JournalInv, JournalStates, Terminal, Activation
  <2>4. TypeOK'
    BY <1>0, <1>1, <2>1, <2>2, <2>3 DEF Inv, TypeOK, Forward, Restoring
  <2>5. PlaceInv' /\ MirrorInv' /\ JournalInv'
    BY <1>0, <1>1, <2>1, <2>2, <2>3 DEF Inv, PlaceInv, MirrorInv, JournalInv, Forward, Restoring, Outside, CommittedRuntime
  <2>6. KernelInv' /\ BarrierInv'
    BY <1>0, <1>1, <2>1, <2>2, <2>3 DEF Inv, KernelInv, BarrierInv, Up, Activation
  <2>7. VersionInv'
    BY <1>0, <1>1, <2>1, <2>2, <2>3 DEF Inv, VersionInv, Forward
  <2>8. TouchInv'
    BY <1>0, <1>1, <2>1, <2>2, <2>3 DEF Inv, TouchInv
  <2>9. GrantInv'
    <3> SUFFICES ASSUME ~foreign PROVE GrantInv'
      BY <1>0 DEF GrantInv
    <3> QED BY <1>0, <1>1, <2>1, <2>2, <2>3 DEF Inv, GrantInv, Rolled, Activation
  <2> QED BY <2>4, <2>5, <2>6, <2>7, <2>8, <2>9 DEF Inv
<1>2. ASSUME Reset PROVE Inv'
  <2>1. pc = "reset" /\ pc' \in {"unpause", "cancelled"} /\ journal' = journal /\ mem' = mem /\ before' = before /\ guard' = guard /\ dropIn' = dropIn /\ mem.step < 7
    BY <1>2 DEF Reset, Inv, PlaceInv
  <2>2. \/ state' = state /\ running' = running /\ runs' = runs /\ introducing' = introducing
        \/ StartService(dropIn, state)
    BY <1>2 DEF Reset, kernel
  <2>3. /\ state' \in States \cup {NoState} /\ (state # NoState => state' # NoState) /\ state'.lock = state.lock
        /\ state'.maint = state.maint /\ state'.active = state.active /\ state'.revoked = state.revoked
        /\ (state.touched <= dropIn => state'.touched <= dropIn)
    BY <1>0, <2>2, Started
  <2>4. \/ running' = running /\ runs' = runs /\ introducing' = introducing /\ state' = state
        \/ running' = dropIn /\ runs' = 0 /\ introducing' = {} /\ Up' /\ state' # NoState
    BY <1>0, <2>2, Started
  <2>5. TypeOK'
    BY <1>0, <1>2, <2>1, <2>2, <2>3, <2>4, <1>m DEF Inv, TypeOK, Forward, Restoring
  <2>6. PlaceInv' /\ MirrorInv' /\ JournalInv'
    BY <1>0, <1>2, <2>1, <2>2, <2>3, <2>4, <1>m DEF Inv, PlaceInv, MirrorInv, JournalInv, Forward, Restoring, Outside, CommittedRuntime
  <2>7. KernelInv' /\ BarrierInv'
    BY <1>0, <1>2, <2>1, <2>2, <2>3, <2>4, <1>m DEF Inv, KernelInv, BarrierInv, Up, Activation
  <2>8. VersionInv'
    BY <1>0, <1>2, <2>1, <2>2, <2>3, <2>4, <1>m DEF Inv, VersionInv, Forward
  <2>9. TouchInv'
    BY <1>0, <1>2, <2>1, <2>2, <2>3, <2>4, <1>m DEF Inv, TouchInv
  <2>10. GrantInv'
    <3> SUFFICES ASSUME ~foreign PROVE GrantInv'
      BY <1>0 DEF GrantInv
    <3> QED BY <1>0, <1>2, <2>1, <2>2, <2>3, <2>4, <1>m DEF Inv, GrantInv, Rolled
  <2> QED BY <2>5, <2>6, <2>7, <2>8, <2>9, <2>10 DEF Inv
<1>3. ASSUME Unpause PROVE Inv'
  <2>1. pc = "unpause" /\ pc' = "cancelled" /\ journal' = journal /\ mem' = mem /\ before' = before /\ guard' = guard /\ running' = running /\ runs' = runs /\ introducing' = introducing /\ mem.step < 7
    BY <1>3 DEF Unpause, Goto, kernel, Inv, PlaceInv
  <2>2. /\ dropIn' = dropIn /\ state' \in States /\ state' # NoState /\ state'.lock = state.lock /\ state'.touched = state.touched
        /\ state'.active = state.active /\ state'.revoked = state.revoked
    BY <1>0, <1>3, Switched DEF Unpause, Inv, KernelInv
  <2>3. TypeOK'
    BY <1>0, <1>3, <2>1, <2>2, <1>m DEF Inv, TypeOK, Forward, Restoring
  <2>4. PlaceInv' /\ MirrorInv' /\ JournalInv'
    BY <1>0, <1>3, <2>1, <2>2, <1>m DEF Inv, PlaceInv, MirrorInv, JournalInv, Forward, Restoring, Outside, CommittedRuntime
  <2>5. KernelInv' /\ BarrierInv'
    BY <1>0, <1>3, <2>1, <2>2, <1>m DEF Inv, KernelInv, BarrierInv, Up, Activation
  <2>6. VersionInv'
    BY <1>0, <1>3, <2>1, <2>2, <1>m DEF Inv, VersionInv, Forward
  <2>7. TouchInv'
    BY <1>0, <1>3, <2>1, <2>2, <1>m DEF Inv, TouchInv
  <2>8. GrantInv'
    <3> SUFFICES ASSUME ~foreign PROVE GrantInv'
      BY <1>0 DEF GrantInv
    <3>1. journal.state \notin {"activating", "verifying"}
      BY <1>0, <1>m, <2>1 DEF Inv, JournalInv
    <3> QED BY <1>0, <2>1, <2>2, <3>1 DEF Inv, GrantInv, Rolled
  <2> QED BY <2>3, <2>4, <2>5, <2>6, <2>7, <2>8 DEF Inv
<1>4. ASSUME Cancelled PROVE Inv'
  <2>1. pc = "cancelled" /\ pc' = "idle" /\ mem' = NoJournal /\ before' = "none" /\ guard' = FALSE /\ state' = state /\ dropIn' = dropIn
        /\ running' = running /\ runs' = runs /\ introducing' = introducing /\ mem.step < 7
    BY <1>4 DEF Cancelled, Finish, kernel, disk, Inv, PlaceInv
  <2>2. /\ journal' \in Journals /\ journal'.state = "blocked" /\ journal'.step = mem.step /\ journal'.from = mem.from /\ journal'.target = mem.target
        /\ journal'.dropIn = mem.dropIn /\ journal'.archive = mem.archive /\ journal'.digest = mem.digest
    <3>1. mem \in Journals /\ "blocked" \in JournalStates
      BY <1>0 DEF Inv, TypeOK, JournalStates, Terminal
    <3>2. journal' = [mem EXCEPT !.state = "blocked"]
      BY <1>4 DEF Cancelled
    <3> QED BY <3>1, <3>2, Restated
  <2>3. TypeOK'
    BY <1>0, <1>4, <2>1, <2>2, <1>m, Idle DEF Inv, TypeOK, Forward, Restoring
  <2>4. PlaceInv' /\ MirrorInv' /\ JournalInv'
    BY <1>0, <1>4, <2>1, <2>2, <1>m, Idle DEF Inv, PlaceInv, MirrorInv, JournalInv, Forward, Restoring, Outside, CommittedRuntime
  <2>5. KernelInv' /\ BarrierInv'
    <3>1. ~(mem.target # mem.dropIn /\ dropIn = mem.target)
      BY <1>0, <1>m, <2>1 DEF Inv, BarrierInv, JournalInv
    <3> QED BY <1>0, <2>1, <2>2, <3>1 DEF Inv, KernelInv, BarrierInv, Up
  <2>6. VersionInv'
    BY <1>0, <1>4, <2>1, <2>2, <1>m, Idle DEF Inv, VersionInv, Forward
  <2>7. TouchInv'
    BY <1>0, <1>4, <2>1, <2>2, <1>m, Idle DEF Inv, TouchInv
  <2>8. GrantInv'
    <3> SUFFICES ASSUME ~foreign PROVE GrantInv'
      BY <1>0 DEF GrantInv
    <3> QED BY <1>0, <1>4, <2>1, <2>2, <1>m, Idle DEF Inv, GrantInv, Rolled
  <2> QED BY <2>3, <2>4, <2>5, <2>6, <2>7, <2>8 DEF Inv
<1>5. ASSUME Repause PROVE Inv'
  <2>1. pc = "repause" /\ pc' = "quiesce" /\ journal' = journal /\ mem' = mem /\ before' = before /\ guard' = guard /\ running' = running /\ runs' = runs /\ introducing' = introducing /\ before = "committed" /\ mem.step >= 7
    BY <1>5 DEF Repause, Goto, kernel, Inv, PlaceInv
  <2>2. /\ dropIn' = dropIn /\ state' \in States /\ state' # NoState /\ state'.lock = state.lock /\ state'.touched = state.touched
        /\ state'.active = state.active /\ state'.revoked = state.revoked /\ state'.maint
    BY <1>0, <1>5, Switched DEF Repause, Inv, KernelInv
  <2>3. TypeOK'
    BY <1>0, <1>5, <2>1, <2>2, <1>m DEF Inv, TypeOK, Forward, Restoring
  <2>4. PlaceInv' /\ MirrorInv' /\ JournalInv'
    BY <1>0, <1>5, <2>1, <2>2, <1>m DEF Inv, PlaceInv, MirrorInv, JournalInv, Forward, Restoring, Outside, CommittedRuntime
  <2>5. KernelInv' /\ BarrierInv'
    BY <1>0, <1>5, <2>1, <2>2, <1>m DEF Inv, KernelInv, BarrierInv, Up, Activation
  <2>6. VersionInv'
    BY <1>0, <1>5, <2>1, <2>2, <1>m DEF Inv, VersionInv, Forward
  <2>7. TouchInv'
    BY <1>0, <1>5, <2>1, <2>2, <1>m DEF Inv, TouchInv
  <2>8. GrantInv'
    <3> SUFFICES ASSUME ~foreign PROVE GrantInv'
      BY <1>0 DEF GrantInv
    <3> QED BY <1>0, <1>5, <2>1, <2>2, <1>m DEF Inv, GrantInv, Rolled
  <2> QED BY <2>3, <2>4, <2>5, <2>6, <2>7, <2>8 DEF Inv
<1>6. ASSUME Quiesce PROVE Inv'
  <2>1. pc = "quiesce" /\ pc' = "compare" /\ journal' = journal /\ mem' = mem /\ before' = before /\ guard' = guard /\ state' = state /\ dropIn' = dropIn
        /\ running' = running /\ runs' = runs /\ introducing' = introducing /\ before = "committed" /\ mem.step >= 7
    BY <1>6 DEF Quiesce, Goto, kernel, disk, Inv, PlaceInv
  <2>2. state.maint
    BY <1>6 DEF Quiesce
  <2>3. TypeOK'
    BY <1>0, <1>6, <2>1, <2>2, <1>m DEF Inv, TypeOK, Forward, Restoring
  <2>4. PlaceInv' /\ MirrorInv' /\ JournalInv'
    BY <1>0, <1>6, <2>1, <2>2, <1>m DEF Inv, PlaceInv, MirrorInv, JournalInv, Forward, Restoring, Outside, CommittedRuntime
  <2>5. KernelInv' /\ BarrierInv'
    BY <1>0, <1>6, <2>1, <2>2, <1>m DEF Inv, KernelInv, BarrierInv, Up, Activation
  <2>6. VersionInv'
    BY <1>0, <1>6, <2>1, <2>2, <1>m DEF Inv, VersionInv, Forward
  <2>7. TouchInv'
    BY <1>0, <1>6, <2>1, <2>2, <1>m DEF Inv, TouchInv
  <2>8. GrantInv'
    <3> SUFFICES ASSUME ~foreign PROVE GrantInv'
      BY <1>0 DEF GrantInv
    <3> QED BY <1>0, <1>6, <2>1, <2>2, <1>m DEF Inv, GrantInv, Rolled
  <2> QED BY <2>3, <2>4, <2>5, <2>6, <2>7, <2>8 DEF Inv
<1>7. ASSUME Compare PROVE Inv'
  <2>1. pc = "compare" /\ pc' = "recover" /\ journal' = journal /\ mem' = mem /\ before' = before /\ guard' = guard /\ state' = state /\ dropIn' = dropIn
        /\ running' = running /\ runs' = runs /\ introducing' = introducing /\ before = "committed" /\ mem.step >= 7
    BY <1>7 DEF Compare, Goto, kernel, disk, Inv, PlaceInv
  <2>2. state.revoked = mem.digest[2]
    BY <1>7 DEF Compare, Digest
  <2>3. ~lifted => state.maint
    BY <2>1 DEF Inv, BarrierInv
  <2>4. TypeOK'
    BY <1>0, <1>7, <2>1, <2>2, <2>3, <1>m DEF Inv, TypeOK, Forward, Restoring
  <2>5. PlaceInv' /\ MirrorInv' /\ JournalInv'
    BY <1>0, <1>7, <2>1, <2>2, <2>3, <1>m DEF Inv, PlaceInv, MirrorInv, JournalInv, Forward, Restoring, Outside, CommittedRuntime
  <2>6. KernelInv' /\ BarrierInv'
    BY <1>0, <1>7, <2>1, <2>2, <2>3, <1>m DEF Inv, KernelInv, BarrierInv, Up, Activation
  <2>7. VersionInv'
    BY <1>0, <1>7, <2>1, <2>2, <2>3, <1>m DEF Inv, VersionInv, Forward
  <2>8. TouchInv'
    BY <1>0, <1>7, <2>1, <2>2, <2>3, <1>m DEF Inv, TouchInv
  <2>9. GrantInv'
    <3> SUFFICES ASSUME ~foreign PROVE GrantInv'
      BY <1>0 DEF GrantInv
    <3> QED BY <1>0, <1>7, <2>1, <2>2, <2>3, <1>m DEF Inv, GrantInv, Rolled
  <2> QED BY <2>4, <2>5, <2>6, <2>7, <2>8, <2>9 DEF Inv
<1>8. ASSUME Recover PROVE Inv'
  <2>1. pc = "recover" /\ pc' = "restore" /\ journal' = mem' /\ before' = before /\ guard' = guard /\ state' = state /\ dropIn' = dropIn /\ running' = running /\ runs' = runs /\ introducing' = introducing /\ mem.step >= 7
    BY <1>8 DEF Recover, Goto, Save, kernel, disk, Inv, PlaceInv
  <2>2. /\ mem' \in Journals /\ mem'.state = "rolling-back" /\ mem'.step = mem.step /\ mem'.from = mem.from /\ mem'.target = mem.target
        /\ mem'.dropIn = mem.dropIn /\ mem'.archive = mem.archive /\ mem'.digest = mem.digest
    BY <1>0, <1>8, Restated DEF Recover, Save, JournalStates
  <2>3. TypeOK'
    BY <1>0, <1>8, <2>1, <2>2, <1>m DEF Inv, TypeOK, Forward, Restoring
  <2>4. PlaceInv' /\ MirrorInv' /\ JournalInv'
    BY <1>0, <1>8, <2>1, <2>2, <1>m DEF Inv, PlaceInv, MirrorInv, JournalInv, Forward, Restoring, Outside, CommittedRuntime
  <2>5. KernelInv' /\ BarrierInv'
    BY <1>0, <1>8, <2>1, <2>2, <1>m DEF Inv, KernelInv, BarrierInv, Up, Activation
  <2>6. VersionInv'
    BY <1>0, <1>8, <2>1, <2>2, <1>m DEF Inv, VersionInv, Forward
  <2>7. TouchInv'
    BY <1>0, <1>8, <2>1, <2>2, <1>m DEF Inv, TouchInv
  <2>8. GrantInv'
    <3> SUFFICES ASSUME ~foreign PROVE GrantInv'
      BY <1>0 DEF GrantInv
    <3> QED BY <1>0, <1>8, <2>1, <2>2, <1>m DEF Inv, GrantInv, Rolled
  <2> QED BY <2>3, <2>4, <2>5, <2>6, <2>7, <2>8 DEF Inv
<1>9. ASSUME Refuse PROVE Inv'
  <2>1. /\ pc \in {"reset", "unpause", "repause", "quiesce", "compare", "recover"}
        /\ pc' = "idle" /\ mem' = NoJournal /\ before' = "none" /\ guard' = FALSE /\ running' = running /\ runs' = runs /\ introducing' = introducing
    BY <1>9 DEF Refuse, Finish, kernel
  <2>2. before \in JournalStates
    BY DEF Inv, TypeOK
  <2>3. /\ journal' \in Journals /\ journal'.state = journal.state /\ journal'.step = mem.step /\ journal'.from = mem.from /\ journal'.target = mem.target
        /\ journal'.dropIn = mem.dropIn /\ journal'.archive = mem.archive /\ journal'.digest = mem.digest
    BY <1>0, <1>9, <1>m, <2>1, <2>2, Restated DEF Refuse
  <2>4. /\ dropIn' = dropIn /\ state' \in States \cup {NoState} /\ (state # NoState => state' # NoState)
        /\ state'.lock = state.lock /\ state'.touched = state.touched /\ state'.active = state.active /\ state'.revoked = state.revoked
    BY <1>0, <1>9, Switched DEF Refuse, Inv, KernelInv, disk
  <2>5. (state'.maint = state.maint) \/ journal.state = "committed"
    BY <1>9, <1>m, <2>1 DEF Refuse, disk
  <2>6. TypeOK'
    BY <1>0, <1>9, <2>1, <2>2, <2>3, <2>4, <2>5, <1>m, Idle DEF Inv, TypeOK, Forward, Restoring
  <2>7. PlaceInv' /\ MirrorInv' /\ JournalInv'
    BY <1>0, <1>9, <2>1, <2>2, <2>3, <2>4, <2>5, <1>m, Idle DEF Inv, PlaceInv, MirrorInv, JournalInv, Forward, Restoring, Outside, CommittedRuntime
  <2>8. KernelInv' /\ BarrierInv'
    BY <1>0, <1>9, <2>1, <2>2, <2>3, <2>4, <2>5, <1>m, Idle DEF Inv, KernelInv, BarrierInv, Up, Activation
  <2>9. VersionInv'
    BY <1>0, <1>9, <2>1, <2>2, <2>3, <2>4, <2>5, <1>m, Idle DEF Inv, VersionInv, Forward
  <2>10. TouchInv'
    BY <1>0, <1>9, <2>1, <2>2, <2>3, <2>4, <2>5, <1>m, Idle DEF Inv, TouchInv
  <2>11. GrantInv'
    <3> SUFFICES ASSUME ~foreign PROVE GrantInv'
      BY <1>0 DEF GrantInv
    <3> QED BY <1>0, <1>9, <2>1, <2>2, <2>3, <2>4, <2>5, <1>m, Idle DEF Inv, GrantInv, Rolled
  <2> QED BY <2>6, <2>7, <2>8, <2>9, <2>10, <2>11 DEF Inv
<1> QED BY <1>1, <1>2, <1>3, <1>4, <1>5, <1>6, <1>7, <1>8, <1>9 DEF Rollback

\* The cell goes on beside the updating process, which may die.
LEMMA CellNext ==
  ASSUME Inv, UNCHANGED <<archives, lifted>>, Cell
  PROVE  Inv'
<1>0. /\ mem \in Journals /\ journal \in Journals /\ state \in States \cup {NoState} /\ dropIn \in Versions
      /\ foreign' = foreign /\ kept' = kept /\ lifted' = lifted /\ Versions \subseteq Nat /\ dropIn \in Nat /\ runs \in 0..1
  BY Apart DEF Inv, TypeOK, archives
<1>1. ASSUME BeginRun \/ EndRun PROVE Inv'
  <2>1. pc' = pc /\ journal' = journal /\ mem' = mem /\ before' = before /\ guard' = guard /\ state' = state /\ dropIn' = dropIn /\ running' = running /\ introducing' = introducing
        /\ crashes' = crashes /\ withdrawn' = withdrawn /\ runs' \in 0..1 /\ (~Up => runs' = runs)
    BY <1>0, <1>1 DEF BeginRun, EndRun, disk, proc, Inv, KernelInv
  <2>2. TypeOK'
    BY <1>0, <1>1, <2>1 DEF Inv, TypeOK, Forward, Restoring
  <2>3. PlaceInv' /\ MirrorInv' /\ JournalInv'
    BY <1>0, <1>1, <2>1 DEF Inv, PlaceInv, MirrorInv, JournalInv, Forward, Restoring, Outside, CommittedRuntime
  <2>4. KernelInv' /\ BarrierInv'
    BY <1>0, <1>1, <2>1 DEF Inv, KernelInv, BarrierInv, Up, Activation
  <2>5. VersionInv'
    BY <1>0, <1>1, <2>1 DEF Inv, VersionInv, Forward
  <2>6. TouchInv'
    BY <1>0, <1>1, <2>1 DEF Inv, TouchInv
  <2>7. GrantInv'
    <3> SUFFICES ASSUME ~foreign PROVE GrantInv'
      BY <1>0 DEF GrantInv
    <3> QED BY <1>0, <1>1, <2>1 DEF Inv, GrantInv, Rolled
  <2> QED BY <2>2, <2>3, <2>4, <2>5, <2>6, <2>7 DEF Inv
<1>2. ASSUME NEW g \in Grants, Introduce(g) PROVE Inv'
  <2>1. pc' = pc /\ journal' = journal /\ mem' = mem /\ before' = before /\ guard' = guard /\ state' = state /\ dropIn' = dropIn /\ running' = running /\ runs' = runs
        /\ crashes' = crashes /\ withdrawn' = withdrawn /\ introducing' \subseteq Grants /\ Up /\ ~state.maint
    BY <1>0, <1>2 DEF Introduce, disk, proc, Inv, TypeOK
  <2>2. TypeOK'
    BY <1>0, <1>2, <2>1 DEF Inv, TypeOK, Forward, Restoring
  <2>3. PlaceInv' /\ MirrorInv' /\ JournalInv'
    BY <1>0, <1>2, <2>1 DEF Inv, PlaceInv, MirrorInv, JournalInv, Forward, Restoring, Outside, CommittedRuntime
  <2>4. KernelInv' /\ BarrierInv'
    BY <1>0, <1>2, <2>1 DEF Inv, KernelInv, BarrierInv, Up, Activation
  <2>5. VersionInv'
    BY <1>0, <1>2, <2>1 DEF Inv, VersionInv, Forward
  <2>6. TouchInv'
    BY <1>0, <1>2, <2>1 DEF Inv, TouchInv
  <2>7. GrantInv'
    <3> SUFFICES ASSUME ~foreign PROVE GrantInv'
      BY <1>0 DEF GrantInv
    <3> QED BY <1>0, <1>2, <2>1 DEF Inv, GrantInv, Rolled
  <2> QED BY <2>2, <2>3, <2>4, <2>5, <2>6, <2>7 DEF Inv
<1>3. ASSUME NEW g \in Grants, Introduced(g) PROVE Inv'
  <2>1. pc' = pc /\ journal' = journal /\ mem' = mem /\ before' = before /\ guard' = guard /\ dropIn' = dropIn /\ running' = running /\ runs' = runs
        /\ crashes' = crashes /\ withdrawn' = withdrawn /\ introducing' \subseteq Grants /\ introducing # {} /\ introducing' \subseteq introducing
    BY <1>0, <1>3 DEF Introduced, proc, Inv, TypeOK
  <2>2. Up /\ state \in States
    BY <1>0, <1>3 DEF Introduced, Inv, KernelInv
  <2>3. /\ state' \in States /\ state' # NoState /\ state'.lock = state.lock /\ state'.maint = state.maint /\ state'.touched = state.touched
        /\ state'.active = state.active \cup ({g} \ state.revoked) /\ state'.revoked = state.revoked
    BY <1>3, <2>2, Apart DEF Introduced, States
  <2>4. state.active \cap state.revoked = {} => state'.active \cap state'.revoked = {}
    BY <2>3
  <2>5. TypeOK'
    BY <1>0, <1>3, <2>1, <2>2, <2>3, <2>4 DEF Inv, TypeOK, Forward, Restoring
  <2>6. PlaceInv' /\ MirrorInv' /\ JournalInv'
    BY <1>0, <1>3, <2>1, <2>2, <2>3, <2>4 DEF Inv, PlaceInv, MirrorInv, JournalInv, Forward, Restoring, Outside, CommittedRuntime
  <2>7. KernelInv' /\ BarrierInv'
    BY <1>0, <1>3, <2>1, <2>2, <2>3, <2>4 DEF Inv, KernelInv, BarrierInv, Up, Activation
  <2>8. VersionInv'
    BY <1>0, <1>3, <2>1, <2>2, <2>3, <2>4 DEF Inv, VersionInv, Forward
  <2>9. TouchInv'
    BY <1>0, <1>3, <2>1, <2>2, <2>3, <2>4 DEF Inv, TouchInv
  <2>10. GrantInv'
    <3> SUFFICES ASSUME ~foreign PROVE GrantInv'
      BY <1>0 DEF GrantInv
    <3> QED BY <1>0, <1>3, <2>1, <2>2, <2>3, <2>4 DEF Inv, GrantInv, Rolled
  <2> QED BY <2>5, <2>6, <2>7, <2>8, <2>9, <2>10 DEF Inv
<1>4. ASSUME NEW g \in Grants, Revoke(g) PROVE Inv'
  <2>1. pc' = pc /\ journal' = journal /\ mem' = mem /\ before' = before /\ guard' = guard /\ dropIn' = dropIn /\ running' = running /\ runs' = runs /\ introducing' = introducing
        /\ crashes' = crashes /\ withdrawn' = withdrawn \cup {g} /\ Up /\ ~state.maint /\ withdrawn' \subseteq Grants
    BY <1>0, <1>4 DEF Revoke, proc, kernel, Inv, TypeOK
  <2>2. state \in States
    BY <1>0, <2>1 DEF Inv, KernelInv
  <2>3. /\ state' \in States /\ state' # NoState /\ state'.lock = state.lock /\ state'.maint = state.maint /\ state'.touched = state.touched
        /\ state'.active = state.active \ {g} /\ state'.revoked = state.revoked \cup {g}
    BY <1>4, <2>2, Apart DEF Revoke, States
  <2>4. ~lifted => /\ pc \notin {"stop", "completed", "aside", "replace", "pin", "commit"}
                   /\ ~foreign => journal.state \notin {"activating", "verifying"}
                   /\ ~foreign /\ pc \in {"recover", "restore", "halt"} => before \in Rolled
    BY <2>1 DEF Inv, BarrierInv, KernelInv, GrantInv
  <2>5. state.active \cap state.revoked = {} => state'.active \cap state'.revoked = {}
    BY <2>3
  <2>6. TypeOK'
    BY <1>0, <1>4, <2>1, <2>2, <2>3, <2>4, <2>5 DEF Inv, TypeOK, Forward, Restoring
  <2>7. PlaceInv' /\ MirrorInv' /\ JournalInv'
    BY <1>0, <1>4, <2>1, <2>2, <2>3, <2>4, <2>5 DEF Inv, PlaceInv, MirrorInv, JournalInv, Forward, Restoring, Outside, CommittedRuntime
  <2>8. KernelInv' /\ BarrierInv'
    BY <1>0, <1>4, <2>1, <2>2, <2>3, <2>4, <2>5 DEF Inv, KernelInv, BarrierInv, Up, Activation
  <2>9. VersionInv'
    BY <1>0, <1>4, <2>1, <2>2, <2>3, <2>4, <2>5 DEF Inv, VersionInv, Forward
  <2>10. TouchInv'
    BY <1>0, <1>4, <2>1, <2>2, <2>3, <2>4, <2>5 DEF Inv, TouchInv
  <2>11. GrantInv'
    <3> SUFFICES ASSUME ~foreign PROVE GrantInv'
      BY <1>0 DEF GrantInv
    <3> QED BY <1>0, <1>4, <2>1, <2>2, <2>3, <2>4, <2>5 DEF Inv, GrantInv, Rolled
  <2> QED BY <2>6, <2>7, <2>8, <2>9, <2>10, <2>11 DEF Inv
<1>5. ASSUME EditConfig PROVE Inv'
  <2>1. pc' = pc /\ journal' = journal /\ mem' = mem /\ before' = before /\ guard' = guard /\ dropIn' = dropIn /\ running' = running /\ runs' = runs /\ introducing' = introducing
        /\ crashes' = crashes /\ withdrawn' = withdrawn /\ state \in States
    BY <1>0, <1>5 DEF EditConfig, proc, kernel
  <2>2. state.config + 1 \in 0..MaxEdits
    BY <1>5, <2>1, UpdateAssumption DEF EditConfig, States
  <2>3. /\ state' \in States /\ state' # NoState /\ state'.lock = state.lock /\ state'.maint = state.maint /\ state'.touched = state.touched
        /\ state'.active = state.active /\ state'.revoked = state.revoked
    BY <1>5, <2>1, <2>2, Apart DEF EditConfig, States
  <2>4. TypeOK'
    BY <1>0, <1>5, <2>1, <2>2, <2>3 DEF Inv, TypeOK, Forward, Restoring
  <2>5. PlaceInv' /\ MirrorInv' /\ JournalInv'
    BY <1>0, <1>5, <2>1, <2>2, <2>3 DEF Inv, PlaceInv, MirrorInv, JournalInv, Forward, Restoring, Outside, CommittedRuntime
  <2>6. KernelInv' /\ BarrierInv'
    BY <1>0, <1>5, <2>1, <2>2, <2>3 DEF Inv, KernelInv, BarrierInv, Up, Activation
  <2>7. VersionInv'
    BY <1>0, <1>5, <2>1, <2>2, <2>3 DEF Inv, VersionInv, Forward
  <2>8. TouchInv'
    BY <1>0, <1>5, <2>1, <2>2, <2>3 DEF Inv, TouchInv
  <2>9. GrantInv'
    <3> SUFFICES ASSUME ~foreign PROVE GrantInv'
      BY <1>0 DEF GrantInv
    <3> QED BY <1>0, <1>5, <2>1, <2>2, <2>3 DEF Inv, GrantInv, Rolled
  <2> QED BY <2>4, <2>5, <2>6, <2>7, <2>8, <2>9 DEF Inv
<1>6. ASSUME StartUnit PROVE Inv'
  <2>1. pc' = pc /\ journal' = journal /\ mem' = mem /\ before' = before /\ guard' = guard /\ dropIn' = dropIn
        /\ crashes' = crashes /\ withdrawn' = withdrawn /\ pc = "idle"
    BY <1>6 DEF StartUnit, proc
  <2>2. /\ running' = dropIn /\ runs' = 0 /\ introducing' = {} /\ Up' /\ state' \in States /\ state' # NoState
        /\ state'.lock = state.lock /\ state'.maint = state.maint /\ state'.active = state.active /\ state'.revoked = state.revoked
        /\ (state.touched <= dropIn => state'.touched = dropIn) /\ state # NoState
    BY <1>0, <1>6, Started DEF StartUnit
  <2>3. TypeOK'
    BY <1>0, <1>6, <2>1, <2>2 DEF Inv, TypeOK, Forward, Restoring
  <2>4. PlaceInv' /\ MirrorInv' /\ JournalInv'
    BY <1>0, <1>6, <2>1, <2>2 DEF Inv, PlaceInv, MirrorInv, JournalInv, Forward, Restoring, Outside, CommittedRuntime
  <2>5. KernelInv' /\ BarrierInv'
    BY <1>0, <1>6, <2>1, <2>2 DEF Inv, KernelInv, BarrierInv, Up, Activation
  <2>6. VersionInv'
    BY <1>0, <1>6, <2>1, <2>2 DEF Inv, VersionInv, Forward
  <2>7. TouchInv'
    BY <1>0, <1>6, <2>1, <2>2 DEF Inv, TouchInv
  <2>8. GrantInv'
    <3> SUFFICES ASSUME ~foreign PROVE GrantInv'
      BY <1>0 DEF GrantInv
    <3> QED BY <1>0, <1>6, <2>1, <2>2 DEF Inv, GrantInv, Rolled
  <2> QED BY <2>3, <2>4, <2>5, <2>6, <2>7, <2>8 DEF Inv
<1>7. ASSUME Kill \/ Reboot PROVE Inv'
  <2>1. pc' = "idle" /\ mem' = NoJournal /\ before' = "none" /\ journal' = journal /\ guard' = guard /\ dropIn' = dropIn
        /\ withdrawn' = withdrawn /\ crashes' \in 0..MaxCrashes
    BY <1>7, UpdateAssumption DEF Kill, Reboot, Die, disk, Inv, TypeOK
  <2>2. \/ state' = state /\ running' = running /\ runs' = runs /\ introducing' = introducing
        \/ StartService(dropIn, state)
        \/ state' = state /\ state = NoState /\ running' = Stopped /\ runs' = 0 /\ introducing' = {}
    BY <1>7 DEF Kill, Reboot, disk, kernel, StopService
  <2>3. /\ state' \in States \cup {NoState} /\ (state # NoState => state' # NoState) /\ state'.lock = state.lock
        /\ state'.maint = state.maint /\ state'.active = state.active /\ state'.revoked = state.revoked
        /\ (state.touched <= dropIn => state'.touched <= dropIn)
    BY <1>0, <2>2, Started
  <2>4. \/ running' = running /\ runs' = runs /\ introducing' = introducing /\ state' = state
        \/ running' = dropIn /\ runs' = 0 /\ introducing' = {} /\ Up' /\ state' # NoState
        \/ running' = Stopped /\ runs' = 0 /\ introducing' = {} /\ state' = state
    BY <1>0, <2>2, Started
  <2>5. TypeOK'
    BY <1>0, <1>7, <2>1, <2>2, <2>3, <2>4, Idle DEF Inv, TypeOK, Forward, Restoring
  <2>6. PlaceInv' /\ MirrorInv' /\ JournalInv'
    BY <1>0, <1>7, <2>1, <2>2, <2>3, <2>4, Idle DEF Inv, PlaceInv, MirrorInv, JournalInv, Forward, Restoring, Outside, CommittedRuntime
  <2>7. KernelInv' /\ BarrierInv'
    BY <1>0, <1>7, <2>1, <2>2, <2>3, <2>4, Idle DEF Inv, KernelInv, BarrierInv, Up, Activation
  <2>8. VersionInv'
    BY <1>0, <1>7, <2>1, <2>2, <2>3, <2>4, Idle DEF Inv, VersionInv, Forward
  <2>9. TouchInv'
    BY <1>0, <1>7, <2>1, <2>2, <2>3, <2>4, Idle DEF Inv, TouchInv
  <2>10. GrantInv'
    <3> SUFFICES ASSUME ~foreign PROVE GrantInv'
      BY <1>0 DEF GrantInv
    <3> QED BY <1>0, <1>7, <2>1, <2>2, <2>3, <2>4, Idle DEF Inv, GrantInv, Rolled
  <2> QED BY <2>5, <2>6, <2>7, <2>8, <2>9, <2>10 DEF Inv
<1> QED BY <1>1, <1>2, <1>3, <1>4, <1>5, <1>6, <1>7 DEF Cell

\* An administrator pauses the cell, or opens it: unlifted, only where nothing depends on it.
LEMMA AdminNext ==
  ASSUME Inv, UNCHANGED archives, NEW on \in BOOLEAN, AdminMaintenance(on)
  PROVE  Inv'
<1>0. /\ mem \in Journals /\ journal \in Journals /\ state \in States \cup {NoState} /\ dropIn \in Versions
      /\ foreign' = foreign /\ kept' = kept
  BY DEF Inv, TypeOK, archives
<1>1. /\ pc' = pc /\ journal' = journal /\ mem' = mem /\ before' = before /\ guard' = guard /\ running' = running /\ runs' = runs
      /\ introducing' = introducing /\ crashes' = crashes /\ withdrawn' = withdrawn
      /\ lifted' \in BOOLEAN /\ (~lifted' => ~lifted /\ (on \/ ~Unfinished))
  BY DEF AdminMaintenance, proc, kernel, Inv, TypeOK
<1>2. /\ dropIn' = dropIn /\ state' \in States /\ state' # NoState /\ state'.maint = on
      /\ state'.lock = state.lock /\ state'.touched = state.touched
      /\ state'.active = state.active /\ state'.revoked = state.revoked
  BY <1>0, Switched DEF AdminMaintenance, Inv, KernelInv
<1>3. ASSUME ~lifted', ~on
      PROVE  /\ journal.state \notin Activation
             /\ pc \notin {"drain", "digest", "archive", "stop", "completed", "select", "start", "verify", "pin", "commit",
                           "quiesce", "compare", "recover", "restore", "halt", "aside", "replace"}
  <2>1. ~Unfinished
    BY <1>1, <1>3
  <2>2. journal.state \notin Activation \cup {"maintenance"} /\ pc \notin {"quiesce", "compare", "recover"}
    BY <2>1 DEF Unfinished, Activation
  <2>3. pc \in Forward \cup Restoring => journal.state = mem.state
    BY DEF Inv, MirrorInv, Outside, Forward, Restoring
  <2>4. pc \notin Restoring
    BY <2>2, <2>3 DEF Inv, PlaceInv, Activation
  <2>5. pc \in Forward => mem.step < 6
    <3>1. mem.step \in 1..9
      BY <1>0 DEF Journals
    <3> QED BY <2>2, <2>3, <3>1 DEF Inv, PlaceInv, Activation
  <2> QED BY <2>2, <2>4, <2>5 DEF Inv, PlaceInv, Forward, Restoring
<1>4. TypeOK'
  BY <1>0, <1>1, <1>2 DEF Inv, TypeOK
<1>5. PlaceInv' /\ MirrorInv' /\ JournalInv'
  BY <1>0, <1>1, <1>2 DEF Inv, PlaceInv, MirrorInv, JournalInv, CommittedRuntime
<1>6. KernelInv'
  BY <1>0, <1>1, <1>2 DEF Inv, KernelInv, Up
<1>7. BarrierInv'
  BY <1>0, <1>1, <1>2, <1>3 DEF Inv, BarrierInv
<1>8. VersionInv' /\ TouchInv'
  BY <1>0, <1>1, <1>2 DEF Inv, VersionInv, TouchInv
<1>9. GrantInv'
  BY <1>0, <1>1, <1>2, <1>3 DEF Inv, GrantInv, Activation
<1> QED BY <1>4, <1>5, <1>6, <1>7, <1>8, <1>9 DEF Inv

\* A backup is taken, or put in the place of the state directory.
LEMMA BackupNext ==
  ASSUME Inv, UNCHANGED lifted, BackupCommand
  PROVE  Inv'
<1>0. /\ mem \in Journals /\ journal \in Journals /\ state \in States \cup {NoState} /\ dropIn \in Versions
      /\ kept \in States \cup {NoState} /\ mem.archive \in States \cup {NoState}
      /\ journal' = journal /\ guard' = guard /\ before' = before /\ crashes' = crashes /\ withdrawn' = withdrawn /\ dropIn' = dropIn /\ lifted' = lifted
  <2>1. mem \in Journals /\ journal \in Journals /\ state \in States \cup {NoState} /\ dropIn \in Versions
        /\ kept \in States \cup {NoState}
    BY DEF Inv, TypeOK
  <2> QED BY <2>1 DEF Journals, BackupCommand, BackupCreate, BackupRestore, RestoreStop, RestoreAside, RestorePlace,
                      RestorePutBack, RestoreStart, RestoreFails, disk, proc
\* The journal names no runtime that is not committed.
<1>c. ASSUME pc \in {"unload", "swap", "place", "load"}
      PROVE  journal.state \notin Activation /\ before = "none" /\ (pc \in {"place", "load"} => foreign)
  BY <1>c DEF Inv, JournalInv, CommittedRuntime, Activation, PlaceInv, Outside
<1>1. ASSUME BackupCreate PROVE Inv'
  <2>1. pc' = pc /\ mem' = mem /\ state' = state /\ dropIn' = dropIn /\ running' = running /\ runs' = runs /\ introducing' = introducing /\ kept' = state /\ foreign' = foreign
    BY <1>1 DEF BackupCreate, disk, kernel, proc
  <2>2. TypeOK'
    BY <1>0, <1>1, <2>1 DEF Inv, TypeOK, Forward, Restoring
  <2>3. PlaceInv' /\ MirrorInv' /\ JournalInv'
    BY <1>0, <1>1, <2>1 DEF Inv, PlaceInv, MirrorInv, JournalInv, Forward, Restoring, Outside, CommittedRuntime
  <2>4. KernelInv' /\ BarrierInv'
    BY <1>0, <1>1, <2>1 DEF Inv, KernelInv, BarrierInv, Up, Activation
  <2>5. VersionInv'
    BY <1>0, <1>1, <2>1 DEF Inv, VersionInv, Forward
  <2>6. TouchInv'
    BY <1>0, <1>1, <2>1 DEF Inv, TouchInv
  <2>7. GrantInv'
    <3> SUFFICES ASSUME ~foreign' PROVE GrantInv'
      BY DEF GrantInv
    <3> QED BY <1>0, <1>1, <2>1 DEF Inv, GrantInv, Rolled
  <2> QED BY <2>2, <2>3, <2>4, <2>5, <2>6, <2>7 DEF Inv
<1>2. ASSUME BackupRestore PROVE Inv'
  <2>1. pc = "idle" /\ pc' = "unload" /\ mem' = mem /\ state' = state /\ dropIn' = dropIn /\ running' = running /\ runs' = runs /\ introducing' = introducing /\ kept' = kept /\ foreign' = foreign
        /\ CommittedRuntime
    BY <1>2 DEF BackupRestore, Goto, disk, kernel, archives
  <2>2. TypeOK'
    BY <1>0, <1>2, <2>1 DEF Inv, TypeOK, Forward, Restoring
  <2>3. PlaceInv' /\ MirrorInv' /\ JournalInv'
    BY <1>0, <1>2, <2>1 DEF Inv, PlaceInv, MirrorInv, JournalInv, Forward, Restoring, Outside, CommittedRuntime
  <2>4. KernelInv' /\ BarrierInv'
    BY <1>0, <1>2, <2>1 DEF Inv, KernelInv, BarrierInv, Up, Activation
  <2>5. VersionInv'
    BY <1>0, <1>2, <2>1 DEF Inv, VersionInv, Forward
  <2>6. TouchInv'
    BY <1>0, <1>2, <2>1 DEF Inv, TouchInv
  <2>7. GrantInv'
    <3> SUFFICES ASSUME ~foreign' PROVE GrantInv'
      BY DEF GrantInv
    <3> QED BY <1>0, <1>2, <2>1 DEF Inv, GrantInv, Rolled
  <2> QED BY <2>2, <2>3, <2>4, <2>5, <2>6, <2>7 DEF Inv
<1>3. ASSUME RestoreStop PROVE Inv'
  <2>1. pc = "unload" /\ pc' = "swap" /\ mem' = mem /\ state' = state /\ dropIn' = dropIn /\ kept' = kept /\ foreign' = foreign
        /\ running' = Stopped /\ runs' = 0 /\ introducing' = {}
    BY <1>3 DEF RestoreStop, Goto, StopService, disk, archives
  <2>2. TypeOK'
    BY <1>0, <1>3, <2>1 DEF Inv, TypeOK, Forward, Restoring
  <2>3. PlaceInv' /\ MirrorInv' /\ JournalInv'
    BY <1>0, <1>3, <2>1 DEF Inv, PlaceInv, MirrorInv, JournalInv, Forward, Restoring, Outside, CommittedRuntime
  <2>4. KernelInv' /\ BarrierInv'
    BY <1>0, <1>3, <2>1 DEF Inv, KernelInv, BarrierInv, Up, Activation
  <2>5. VersionInv'
    BY <1>0, <1>3, <2>1 DEF Inv, VersionInv, Forward
  <2>6. TouchInv'
    BY <1>0, <1>3, <2>1 DEF Inv, TouchInv
  <2>7. GrantInv'
    <3> SUFFICES ASSUME ~foreign' PROVE GrantInv'
      BY DEF GrantInv
    <3> QED BY <1>0, <1>3, <2>1 DEF Inv, GrantInv, Rolled
  <2> QED BY <2>2, <2>3, <2>4, <2>5, <2>6, <2>7 DEF Inv
<1>4. ASSUME RestoreAside PROVE Inv'
  <2>1. pc = "swap" /\ pc' = "place" /\ state' = NoState /\ kept' = kept /\ foreign' = TRUE /\ running' = running /\ runs' = runs /\ introducing' = introducing
    BY <1>4 DEF RestoreAside, Goto, kernel
  <2>2. mem' \in Journals
    BY <1>0, <1>4, Snapshotted DEF RestoreAside
  <2>3. TypeOK'
    BY <1>0, <1>4, <2>1, <2>2, <1>c, Apart DEF Inv, TypeOK, Forward, Restoring, Activation
  <2>4. PlaceInv' /\ MirrorInv' /\ JournalInv'
    BY <1>0, <1>4, <2>1, <2>2, <1>c, Apart DEF Inv, PlaceInv, MirrorInv, JournalInv, Forward, Restoring, Outside, CommittedRuntime, Activation
  <2>5. KernelInv' /\ BarrierInv'
    BY <1>0, <1>4, <2>1, <2>2, <1>c, Apart DEF Inv, KernelInv, BarrierInv, Up, Activation
  <2>6. VersionInv'
    BY <1>0, <1>4, <2>1, <2>2, <1>c, Apart DEF Inv, VersionInv, Forward, Activation
  <2>7. TouchInv'
    BY <1>0, <1>4, <2>1, <2>2, <1>c, Apart DEF Inv, TouchInv, Activation
  <2>8. GrantInv'
    <3> SUFFICES ASSUME ~foreign' PROVE GrantInv'
      BY DEF GrantInv
    <3> QED BY <1>0, <1>4, <2>1, <2>2, <1>c, Apart DEF Inv, GrantInv, Rolled, Activation
  <2> QED BY <2>3, <2>4, <2>5, <2>6, <2>7, <2>8 DEF Inv
<1>5. ASSUME RestorePlace PROVE Inv'
  <2>1. pc = "place" /\ pc' = "load" /\ state' = kept /\ mem' = NoJournal /\ kept' = kept /\ foreign' = foreign /\ running' = running /\ runs' = runs /\ introducing' = introducing
    BY <1>5 DEF RestorePlace, Goto, kernel, archives
  <2>2. foreign /\ ~Up
    BY <1>c, <2>1 DEF Inv, KernelInv
  <2>3. TypeOK'
    BY <1>0, <1>5, <2>1, <2>2, <1>c, EmptyJournal DEF Inv, TypeOK, Forward, Restoring, Activation
  <2>4. PlaceInv' /\ MirrorInv' /\ JournalInv'
    BY <1>0, <1>5, <2>1, <2>2, <1>c, EmptyJournal DEF Inv, PlaceInv, MirrorInv, JournalInv, Forward, Restoring, Outside, CommittedRuntime, Activation
  <2>5. KernelInv' /\ BarrierInv'
    BY <1>0, <1>5, <2>1, <2>2, <1>c, EmptyJournal DEF Inv, KernelInv, BarrierInv, Up, Activation
  <2>6. VersionInv'
    BY <1>0, <1>5, <2>1, <2>2, <1>c, EmptyJournal DEF Inv, VersionInv, Forward, Activation
  <2>7. TouchInv'
    BY <1>0, <1>5, <2>1, <2>2, <1>c, EmptyJournal DEF Inv, TouchInv, Activation
  <2>8. GrantInv'
    <3> SUFFICES ASSUME ~foreign' PROVE GrantInv'
      BY DEF GrantInv
    <3> QED BY <1>0, <1>5, <2>1, <2>2, <1>c, EmptyJournal DEF Inv, GrantInv, Rolled, Activation
  <2> QED BY <2>3, <2>4, <2>5, <2>6, <2>7, <2>8 DEF Inv
<1>6. ASSUME RestorePutBack PROVE Inv'
  <2>1. pc = "place" /\ pc' = "idle" /\ mem' = NoJournal /\ kept' = kept /\ foreign' = foreign
    BY <1>6 DEF RestorePutBack, Goto, archives
  <2>2. foreign /\ ~Up
    BY <1>c, <2>1 DEF Inv, KernelInv
  <2>3. \/ state' = state /\ running' = running /\ runs' = runs /\ introducing' = introducing
        \/ StartService(dropIn, mem.archive)
    BY <1>6 DEF RestorePutBack, kernel
  <2>4. \/ running' = running /\ runs' = runs /\ introducing' = introducing /\ state' = state
        \/ running' = dropIn /\ runs' = 0 /\ introducing' = {} /\ Up' /\ state' \in States /\ state' # NoState
    BY <1>0, <2>3, Started
  <2>5. TypeOK'
    BY <1>0, <1>6, <2>1, <2>2, <2>3, <2>4, <1>c, EmptyJournal DEF Inv, TypeOK, Forward, Restoring, Activation
  <2>6. PlaceInv' /\ MirrorInv' /\ JournalInv'
    BY <1>0, <1>6, <2>1, <2>2, <2>3, <2>4, <1>c, EmptyJournal DEF Inv, PlaceInv, MirrorInv, JournalInv, Forward, Restoring, Outside, CommittedRuntime, Activation
  <2>7. KernelInv' /\ BarrierInv'
    BY <1>0, <1>6, <2>1, <2>2, <2>3, <2>4, <1>c, EmptyJournal DEF Inv, KernelInv, BarrierInv, Up, Activation
  <2>8. VersionInv'
    BY <1>0, <1>6, <2>1, <2>2, <2>3, <2>4, <1>c, EmptyJournal DEF Inv, VersionInv, Forward, Activation
  <2>9. TouchInv'
    BY <1>0, <1>6, <2>1, <2>2, <2>3, <2>4, <1>c, EmptyJournal DEF Inv, TouchInv, Activation
  <2>10. GrantInv'
    <3> SUFFICES ASSUME ~foreign' PROVE GrantInv'
      BY DEF GrantInv
    <3> QED BY <1>0, <1>6, <2>1, <2>2, <2>3, <2>4, <1>c, EmptyJournal DEF Inv, GrantInv, Rolled, Activation
  <2> QED BY <2>5, <2>6, <2>7, <2>8, <2>9, <2>10 DEF Inv
<1>7. ASSUME RestoreStart PROVE Inv'
  <2>1. pc = "load" /\ pc' = "idle" /\ mem' = mem /\ kept' = kept /\ foreign' = foreign
    BY <1>7 DEF RestoreStart, Goto, archives
  <2>2. running' = dropIn /\ runs' = 0 /\ introducing' = {} /\ Up' /\ state' \in States /\ state' # NoState
    BY <1>0, <1>7, Started DEF RestoreStart
  <2>3. TypeOK'
    BY <1>0, <1>7, <2>1, <2>2, <1>c DEF Inv, TypeOK, Forward, Restoring, Activation
  <2>4. PlaceInv' /\ MirrorInv' /\ JournalInv'
    BY <1>0, <1>7, <2>1, <2>2, <1>c DEF Inv, PlaceInv, MirrorInv, JournalInv, Forward, Restoring, Outside, CommittedRuntime, Activation
  <2>5. KernelInv' /\ BarrierInv'
    BY <1>0, <1>7, <2>1, <2>2, <1>c DEF Inv, KernelInv, BarrierInv, Up, Activation
  <2>6. VersionInv'
    BY <1>0, <1>7, <2>1, <2>2, <1>c DEF Inv, VersionInv, Forward, Activation
  <2>7. TouchInv'
    BY <1>0, <1>7, <2>1, <2>2, <1>c DEF Inv, TouchInv, Activation
  <2>8. GrantInv'
    <3> SUFFICES ASSUME ~foreign' PROVE GrantInv'
      BY DEF GrantInv
    <3> QED BY <1>0, <1>7, <2>1, <2>2, <1>c DEF Inv, GrantInv, Rolled, Activation
  <2> QED BY <2>3, <2>4, <2>5, <2>6, <2>7, <2>8 DEF Inv
<1>8. ASSUME RestoreFails PROVE Inv'
  <2>1. pc \in {"unload", "swap", "load"} /\ pc' = "idle" /\ mem' = mem /\ state' = state /\ dropIn' = dropIn /\ running' = running /\ runs' = runs /\ introducing' = introducing /\ kept' = kept /\ foreign' = foreign
    BY <1>8 DEF RestoreFails, disk, kernel, archives
  <2>2. TypeOK'
    BY <1>0, <1>8, <2>1, <1>c DEF Inv, TypeOK, Forward, Restoring
  <2>3. PlaceInv' /\ MirrorInv' /\ JournalInv'
    BY <1>0, <1>8, <2>1, <1>c DEF Inv, PlaceInv, MirrorInv, JournalInv, Forward, Restoring, Outside, CommittedRuntime
  <2>4. KernelInv' /\ BarrierInv'
    BY <1>0, <1>8, <2>1, <1>c DEF Inv, KernelInv, BarrierInv, Up, Activation
  <2>5. VersionInv'
    BY <1>0, <1>8, <2>1, <1>c DEF Inv, VersionInv, Forward
  <2>6. TouchInv'
    BY <1>0, <1>8, <2>1, <1>c DEF Inv, TouchInv
  <2>7. GrantInv'
    <3> SUFFICES ASSUME ~foreign' PROVE GrantInv'
      BY DEF GrantInv
    <3> QED BY <1>0, <1>8, <2>1, <1>c DEF Inv, GrantInv, Rolled
  <2> QED BY <2>2, <2>3, <2>4, <2>5, <2>6, <2>7 DEF Inv
<1> QED BY <1>1, <1>2, <1>3, <1>4, <1>5, <1>6, <1>7, <1>8 DEF BackupCommand

LEMMA InvNext == ASSUME Inv, [Next]_vars PROVE Inv'
<1>1. CASE UNCHANGED vars
  BY <1>1 DEF vars, disk, kernel, proc, archives, Inv, TypeOK, PlaceInv, MirrorInv, JournalInv, KernelInv, BarrierInv,
              VersionInv, TouchInv, GrantInv, Up, CommittedRuntime
<1>2. ASSUME NEW step \in 1..5, NEW j \in {mem, Snapshot(mem)}, Preparation(step, j), UNCHANGED <<archives, lifted>> PROVE Inv'
  BY <1>2, PreparationNext
<1>3. CASE Update /\ UNCHANGED <<archives, lifted>>
  BY <1>2, <1>3, ForwardNext, EndNext
     DEF Update, Resolve, PluginCompatibility, Backup, Stage, Conformance
<1>4. CASE (StartUpdate \/ \E on \in Settings : AdminMaintenance(on)) /\ UNCHANGED archives
  BY <1>4, StartNext, AdminNext, UpdateAssumption
<1> QED BY <1>1, <1>3, <1>4, RestoreNext, RollbackNext, CellNext, BackupNext DEF Next

\* The invariants that the theorems share.
LEMMA Inductive == Spec => []Inv
BY Init0, InvNext, PTL DEF Spec

-----------------------------------------------------------------------------
\* The journal and everything it is about stay within their schemas, so that a later
\* rollback can read them (readUpdate, saveUpdate).
THEOREM TypeCorrect == Spec => []TypeOK
<1>1. Inv => TypeOK
  BY DEF Inv
<1> QED BY <1>1, Inductive, PTL

\* The target runtime takes no work before its verified commit is in the journal,
\* for any number of failures, deaths, reboots and rollbacks, unless an administrator
\* lifted the barrier on the way (executeUpdate, os.maintenance.set).
THEOREM AdmissionAfterCommitHolds == Spec => []AdmissionAfterCommit
<1>1. Inv => AdmissionAfterCommit
  <2> SUFFICES ASSUME Inv, journal.target # journal.dropIn, running = journal.target, ~state.maint,
                      ~lifted, journal.state # "committed"
               PROVE  FALSE
    BY DEF AdmissionAfterCommit
  <2>1. journal.target \in Versions
    BY DEF Inv, TypeOK, Journals
  <2>2. dropIn = journal.target
    BY <2>1, Apart DEF Inv, KernelInv
  <2> QED BY <2>2 DEF Inv, BarrierInv
<1> QED BY <1>1, Inductive, PTL

\* A grant that comes in while the cell is drained stops the commit, for any resources:
\* behind the barrier nothing changes the grants between the comparison and the commit
\* (updateEffects, verifyRuntime).
THEOREM CommitKeepsGrantsHolds == Spec => []CommitKeepsGrants
<1>1. Inv => CommitKeepsGrants
  <2> SUFFICES ASSUME Inv, pc \in {"pin", "commit"}, ~lifted PROVE Digest = journal.digest
    BY DEF CommitKeepsGrants
  <2>1. journal.digest = mem.digest
    BY DEF Inv, MirrorInv, Outside
  <2>2. mem.digest = <<state.active, state.revoked>>
    BY DEF Inv, BarrierInv
  <2> QED BY <2>1, <2>2 DEF Digest
<1> QED BY <1>1, Inductive, PTL

\* No runtime is ever up on a state directory that a newer one has written to, as
\* long as no backup was put in its place (restoreRuntime, committedRuntime).
THEOREM OldNeverOnNewStateHolds == Spec => []OldNeverOnNewState
<1>1. Inv => OldNeverOnNewState
  <2> SUFFICES ASSUME Inv, Up, ~foreign PROVE running >= state.touched
    BY DEF OldNeverOnNewState
  <2>1. running = dropIn /\ state.touched <= dropIn
    BY DEF Inv, KernelInv, TouchInv, Up
  <2>2. dropIn \in Nat /\ state.touched \in Nat
    BY Apart, StateFields DEF Inv, TypeOK
  <2> QED BY <2>1, <2>2
<1> QED BY <1>1, Inductive, PTL

\* A journal that says an update is over is right about the pin, the selection and
\* the runtime, whatever went wrong on the way (executeUpdate, rollback).
THEOREM SettledConsistentHolds == Spec => []SettledConsistent
<1>1. Inv => SettledConsistent
  <2> SUFFICES ASSUME Inv, pc = "idle", journal.state \in Terminal, ~foreign PROVE SettledConsistent
    BY DEF SettledConsistent
  <2>1. CASE journal.state = "committed"
    BY <2>1 DEF Inv, VersionInv, KernelInv, SettledConsistent
  <2>2. CASE journal.state = "rolled-back"
    BY <2>2 DEF Inv, VersionInv, KernelInv, SettledConsistent
  <2>3. CASE journal.state = "blocked"
    BY <2>3 DEF Inv, JournalInv, VersionInv, KernelInv, SettledConsistent
  <2> QED BY <2>1, <2>2, <2>3 DEF Terminal
<1> QED BY <1>1, Inductive, PTL

\* The first restoration of an update brings no revoked grant back (updateEffects,
\* rollback): barrier, digest and second archive leave no gap, for any resources, as
\* long as no administrator opens one by lifting the barrier.
THEOREM RestoreKeepsRevocationsHolds == Spec => RestoreKeepsRevocations
<1>1. Inv /\ [Next]_vars =>
        [pc = "replace" /\ pc' = "reselect" /\ before \notin {"rolling-back", "recovery-required"} /\ ~foreign /\ ~lifted
           => state'.active \cap withdrawn = {}]_vars
  <2> SUFFICES ASSUME Inv, [Next]_vars, pc = "replace", pc' = "reselect", before \notin Rolled, ~foreign, ~lifted
               PROVE  state'.active \cap withdrawn = {}
    BY DEF Rolled
  <2>1. /\ ~Update /\ ~Rollback /\ ~Cell /\ ~BackupCommand /\ ~UNCHANGED vars
        /\ ~StartUpdate /\ ~\E on \in Settings : AdminMaintenance(on)
    <3>1. ~Update
      BY DEF Update, Resolve, PluginCompatibility, Backup, Stage, Conformance, Preparation, Pause, Drain,
             TakeDigest, Archive, StopGateway, Completed, Select, Start, Verify, Pin, Commit, Resume, FailActive,
             FailEarly, Goto, Forward
    <3>2. ~Rollback
      BY DEF Rollback, StartRollback, Reset, Unpause, Cancelled, Repause, Quiesce, Compare, Recover, Refuse, Goto
    <3>3. ~Cell
      BY DEF Cell, BeginRun, EndRun, EditConfig, StartUnit, Kill, Reboot, Die, Introduce, Introduced,
             Revoke, proc
    <3>4. ~BackupCommand
      BY DEF BackupCommand, BackupCreate, BackupRestore, RestoreStop, RestoreAside, RestorePlace, RestorePutBack,
             RestoreStart, RestoreFails, Goto, proc
    <3>5. ~UNCHANGED vars
      BY DEF vars, proc
    <3>6. ~StartUpdate /\ ~\E on \in Settings : AdminMaintenance(on)
      BY DEF StartUpdate, AdminMaintenance, Goto, proc
    <3> QED BY <3>1, <3>2, <3>3, <3>4, <3>5, <3>6
  <2>2. Restore
    BY <2>1 DEF Next
  <2>3. Replace
    BY <2>2 DEF Restore, CheckRestore, Halt, MoveAside, Reselect, Restart, Reverify, Reopen, Restored, FailRestore, Finish, Goto
  <2>4. journal.archive = mem.archive
    BY DEF Inv, MirrorInv, Outside
  <2>5. mem.archive.active \cap mem.archive.revoked = {} /\ withdrawn \subseteq mem.archive.revoked
    BY <2>4 DEF Inv, GrantInv
  <2> QED BY <2>3, <2>5 DEF Replace
<1> QED BY <1>1, Inductive, PTL DEF Spec, RestoreKeepsRevocations
=============================================================================
