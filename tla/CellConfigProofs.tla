-------------------------- MODULE CellConfigProofs --------------------------
(* Type correctness, edits that are not overwritten, "in sync" that is true,     *)
(* pins that only an overlap loses, and a service that runs with its             *)
(* configuration once the commands are done, for any number of edits,            *)
(* distributions and commands.                                                   *)
EXTENDS CellConfig, TLAPS

\* A checkpoint has what was asked for when it was written; a command that is about to
\* publish, or has published, knows what it may overwrite.
CheckpointInv ==
  /\ Has(lock.digests, lock.fingerprint) /\ Has(stash.digests, stash.fingerprint)
  /\ \A p \in Procs :
       /\ job[p].pc \in Publishing => Has(job[p].revision.owned, job[p].desired)
       /\ job[p].pc \in {"recheck", "patch"} =>
            job[p].force \/ job[p].lock.digests = Unset \/ job[p].revision.owned = job[p].lock.digests

\* After an update that met nobody at work, installs go no further than their
\* preflight, and whatever config apply will write back holds the pin.
PinInv ==
  update = "alone" =>
    /\ lock.pin = 1 /\ ~HasRead("install")
    /\ HasRead("apply") => job["apply"].lock.pin = 1

-----------------------------------------------------------------------------
LEMMA Constants ==
  /\ Edited \in Values /\ Nothing \in Values /\ Edited # Nothing
  /\ Unset \in Owned /\ Unset.value = Nothing
  /\ NoLock \in Locks /\ NoLock.pin = 0 /\ NoLock.digests = Unset /\ NoLock.fingerprint = Unset
  /\ NoStash \in [fingerprint : Owned, digests : Owned] /\ NoStash.digests = Unset /\ NoStash.fingerprint = Unset
  /\ NoCatalog \in 0..NoCatalog
  /\ [owned |-> Unset, other |-> 0] \in Live
<1>1. Edited \in Values /\ Nothing \in Values /\ Edited # Nothing
  BY DEF Values, Edited, Nothing
<1>2. NoCatalog \in 0..NoCatalog /\ 0 \in 0..MaxEdits /\ 0 \in 0..1
  BY ConfigAssumption DEF NoCatalog
<1>3. Unset \in Owned /\ Unset.value = Nothing
  BY <1>1 DEF Owned, Unset
<1> QED BY <1>1, <1>2, <1>3 DEF NoLock, Locks, NoStash, Checkpoint, Live

LEMMA Derivation ==
  ASSUME TypeOK, catalog # NoCatalog
  PROVE  Derived \in Owned /\ Derived.value # Nothing
<1> DEFINE v == <<"os", fragments, catalog>>
<1>1. Merged = [value |-> v, keys |-> {fragments} \cap Keys] /\ [v EXCEPT ![3] = catalog] = v
  BY DEF Merged
<1>2. Derived = [value |-> v, keys |-> {fragments} \cap Keys]
  BY <1>1 DEF Derived
<1>3. catalog \in 0..MaxBundles /\ fragments \in 0..MaxFragments
  BY ConfigAssumption DEF TypeOK, NoCatalog
<1>4. v \in Values /\ v # Nothing
  BY <1>3 DEF Values, Nothing
<1>5. {fragments} \cap Keys \subseteq Keys
  OBVIOUS
<1> HIDE DEF v
<1> QED BY <1>2, <1>4, <1>5 DEF Owned

\* What the transaction publishes has what it was asked for, and one more patch changes
\* nothing of it.
LEMMA Merging ==
  ASSUME NEW o \in Owned, NEW d \in Owned
  PROVE  /\ Merge(o, d) \in Owned /\ Merge(o, d).value = d.value
         /\ Has(Merge(o, d), d) /\ Has(Unset, Unset)
<1>1. Merge(o, d) \in Owned /\ Merge(o, d).value = d.value
  BY DEF Merge, Owned
<1>2. Has(Merge(o, d), d)
  BY DEF Has, Merge
<1>3. Has(Unset, Unset)
  BY DEF Has, Merge, Unset
<1> QED BY <1>1, <1>2, <1>3

LEMMA Having == ASSUME NEW o, NEW d, Has(o, d) PROVE o.value = d.value
BY DEF Has, Merge

LEMMA IdleJob ==
  /\ Idle \in Jobs /\ Idle.pc = "idle" /\ Idle.desired = Unset /\ Idle.lock = NoLock
  /\ \A to \in {"derive", "preflight"}, force \in BOOLEAN :
       LET j == [Idle EXCEPT !.pc = to, !.force = force]
       IN j \in Jobs /\ j.pc = to /\ j.desired = Unset /\ j.lock = NoLock
BY Constants DEF Idle, Jobs, Labels

\* What a command is after a step of its own.
LEMMA JobFields ==
  ASSUME NEW j \in Jobs
  PROVE  /\ \A to \in Labels : [j EXCEPT !.pc = to] \in Jobs
         /\ \A owed \in BOOLEAN : [j EXCEPT !.pc = "derive", !.owed = owed] \in Jobs
         /\ \A c \in 0..NoCatalog, d \in Owned, b \in BOOLEAN :
              [j EXCEPT !.pc = "read", !.catalog = c, !.desired = d, !.changes = b] \in Jobs
         /\ \A l \in Live, to \in {"guard", "lint"} : [j EXCEPT !.pc = to, !.revision = l] \in Jobs
         /\ \A l \in Locks, owed \in BOOLEAN : [j EXCEPT !.pc = "recheck", !.lock = l, !.owed = owed] \in Jobs
         /\ \A owed \in BOOLEAN : [j EXCEPT !.pc = "service", !.owed = owed] \in Jobs
<1>1. \A to \in Labels : [j EXCEPT !.pc = to] \in Jobs
  BY DEF Jobs
<1>2. {"derive", "read", "guard", "lint", "recheck", "service"} \subseteq Labels
  BY DEF Labels, Publishing
<1>3. \A owed \in BOOLEAN : [j EXCEPT !.pc = "derive", !.owed = owed] \in Jobs
  BY <1>2 DEF Jobs
<1>4. \A c \in 0..NoCatalog, d \in Owned, b \in BOOLEAN :
        [j EXCEPT !.pc = "read", !.catalog = c, !.desired = d, !.changes = b] \in Jobs
  BY <1>2 DEF Jobs
<1>5. \A l \in Live, to \in {"guard", "lint"} : [j EXCEPT !.pc = to, !.revision = l] \in Jobs
  BY <1>2 DEF Jobs
<1>6. \A l \in Locks, owed \in BOOLEAN : [j EXCEPT !.pc = "recheck", !.lock = l, !.owed = owed] \in Jobs
  BY <1>2 DEF Jobs
<1>7. \A owed \in BOOLEAN : [j EXCEPT !.pc = "service", !.owed = owed] \in Jobs
  BY <1>2 DEF Jobs
<1> QED BY <1>1, <1>3, <1>4, <1>5, <1>6, <1>7

LEMMA Init0 == Init => TypeOK /\ CheckpointInv /\ PinInv
<1> SUFFICES ASSUME Init PROVE TypeOK /\ CheckpointInv /\ PinInv
  OBVIOUS
<1>1. 0 \in 0..MaxFragments /\ 0 \in 0..MaxBundles /\ 0 \in 0..MaxRuns /\ 0 \in 0..MaxEdits
  BY ConfigAssumption
<1>2. TypeOK
  BY <1>1, Constants, IdleJob DEF Init, TypeOK
<1>3. CheckpointInv /\ PinInv
  BY Constants, Merging, IdleJob DEF Init, CheckpointInv, PinInv, Publishing
<1> QED BY <1>2, <1>3

LEMMA TypeNext == ASSUME TypeOK, [Next]_vars PROVE TypeOK'
<1> USE ConfigAssumption
<1>j. job \in [Procs -> Jobs] /\ lock \in Locks /\ live \in Live /\ DOMAIN job = Procs
      /\ \A p \in Procs : job[p].owed \in BOOLEAN /\ job[p].changes \in BOOLEAN
  BY DEF TypeOK, Jobs
<1>c. "install" \in Procs /\ "apply" \in Procs
  BY DEF Procs
<1>s. ASSUME NEW p \in Procs, NEW from, NEW j \in Jobs, Set(p, from, j) PROVE job' \in [Procs -> Jobs]
  BY <1>s, <1>j DEF Set
<1>t. ASSUME NEW p \in Procs, NEW from, NEW to \in Labels, Step(p, from, to) PROVE job' \in [Procs -> Jobs]
  <2>1. [job[p] EXCEPT !.pc = to] \in Jobs
    BY <1>j, JobFields
  <2>2. job' = [job EXCEPT ![p] = [job[p] EXCEPT !.pc = to]]
    BY <1>t, <1>j DEF Step
  <2> QED BY <1>j, <2>1, <2>2
<1>l. ASSUME NEW p \in Procs, NEW from, NEW changed \in BOOLEAN, Leave(p, from, changed) PROVE job' \in [Procs -> Jobs]
  <2>1. [Idle EXCEPT !.pc = "service", !.owed = job[p].owed \/ changed] \in Jobs
    BY <1>j, IdleJob, JobFields
  <2> QED BY <1>l, <1>s, <2>1, IdleJob DEF Leave
<1>1. ASSUME NEW p \in Procs, NEW to \in {"derive", "preflight"}, NEW force \in BOOLEAN, Begin(p, to, force) PROVE TypeOK'
  <2>1. job' \in [Procs -> Jobs]
    BY <1>1, <1>s, IdleJob DEF Begin
  <2> QED BY <1>1, <2>1 DEF Begin, TypeOK, files, inputs
<1>2. ASSUME ConfigApply \/ Install PROVE TypeOK'
  BY <1>1, <1>2, <1>c DEF ConfigApply, Install
<1>3. ASSUME Preflight \/ SetUp PROVE TypeOK'
  <2>1. job' \in [Procs -> Jobs]
    BY <1>3, <1>t, <1>c DEF Preflight, SetUp, Labels
  <2> QED BY <1>3, <2>1 DEF Preflight, SetUp, Quiet, TypeOK, files, inputs
<1>4. ASSUME Project PROVE TypeOK'
  <2>1. [job["install"] EXCEPT !.pc = "derive", !.owed = catalog # bundle] \in Jobs
    BY <1>j, <1>c, JobFields
  <2>2. job' = [job EXCEPT !["install"] = [job["install"] EXCEPT !.pc = "derive", !.owed = catalog # bundle]]
    BY <1>4, <1>j DEF Project
  <2>3. job' \in [Procs -> Jobs]
    BY <1>j, <2>1, <2>2
  <2>4. bundle \in 0..NoCatalog
    BY DEF TypeOK, NoCatalog
  <2> QED BY <1>4, <2>3, <2>4 DEF Project, Quiet, TypeOK, files
<1>5. ASSUME NEW p \in Procs, Derive(p) PROVE TypeOK'
  <2>1. Derived \in Owned /\ catalog \in 0..NoCatalog /\ Changes \in BOOLEAN
    BY <1>5, Derivation DEF Derive, TypeOK, Changes
  <2>2. [job[p] EXCEPT !.pc = "read", !.catalog = catalog, !.desired = Derived, !.changes = Changes] \in Jobs
    BY <1>j, <2>1, JobFields
  <2>3. job' \in [Procs -> Jobs]
    BY <1>5, <1>s, <2>2 DEF Derive
  <2> QED BY <1>5, <2>3 DEF Derive, Quiet, TypeOK, files, inputs
<1>6. ASSUME NEW p \in Procs, ReadOwned(p) PROVE TypeOK'
  <2>1. [job[p] EXCEPT !.pc = "guard", !.revision = live] \in Jobs
    BY <1>j, JobFields
  <2>2. job' \in [Procs -> Jobs]
    BY <1>6, <1>s, <2>1 DEF ReadOwned
  <2> QED BY <1>6, <2>2 DEF ReadOwned, Quiet, TypeOK, files, inputs
<1>7. ASSUME NEW p \in Procs, GuardInSync(p) PROVE TypeOK'
  <2>1. job' \in [Procs -> Jobs]
    BY <1>7, <1>l DEF GuardInSync
  <2> QED BY <1>7, <2>1 DEF GuardInSync, Quiet, TypeOK, files, inputs
<1>8. ASSUME NEW p \in Procs, GuardPasses(p) PROVE TypeOK'
  <2>1. (IF p = "apply" THEN job[p].changes \/ Conflict(p) ELSE job[p].owed) \in BOOLEAN
    BY <1>j DEF Conflict
  <2>2. [job[p] EXCEPT !.pc = "recheck", !.lock = lock,
                       !.owed = IF p = "apply" THEN job[p].changes \/ Conflict(p) ELSE @] \in Jobs
    BY <1>j, <2>1, JobFields
  <2>3. job' \in [Procs -> Jobs]
    BY <1>8, <1>s, <2>2 DEF GuardPasses
  <2> QED BY <1>8, <2>3 DEF GuardPasses, Quiet, TypeOK, files, inputs
<1>9. ASSUME NEW p \in Procs, RecheckCatalog(p) \/ Lint(p) PROVE TypeOK'
  <2>1. job' \in [Procs -> Jobs]
    BY <1>9, <1>t DEF RecheckCatalog, Lint, Labels, Publishing
  <2> QED BY <1>9, <2>1 DEF RecheckCatalog, Lint, Quiet, TypeOK, files, inputs
<1>10. ASSUME NEW p \in Procs, Patch(p) PROVE TypeOK'
  <2>1. Patched(p) \in Live
    <3>1. Merge(live.owned, job[p].desired) \in Owned
      BY <1>j, Merging DEF Jobs, Live
    <3> QED BY <1>j, <3>1 DEF Patched, Live
  <2>2. [job[p] EXCEPT !.pc = "lint", !.revision = Patched(p)] \in Jobs
    BY <1>j, <2>1, JobFields
  <2>3. job' \in [Procs -> Jobs]
    BY <1>10, <1>s, <2>2 DEF Patch
  <2> QED BY <1>10, <2>1, <2>3 DEF Patch, Quiet, TypeOK, inputs
<1>11. ASSUME NEW p \in Procs, Restart(p) PROVE TypeOK'
  <2>1. job' \in [Procs -> Jobs]
    BY <1>11, <1>t DEF Restart, Labels, Publishing
  <2>2. loaded' \in Owned
    BY <1>11 DEF Restart, TypeOK, Live
  <2> QED BY <1>11, <2>1, <2>2 DEF Restart, TypeOK, files, inputs
<1>12. ASSUME NEW p \in Procs, WriteApplied(p) \/ WriteGenerated(p) PROVE TypeOK'
  <2>1. job' \in [Procs -> Jobs]
    BY <1>12, <1>t DEF WriteApplied, WriteGenerated, Labels, Publishing
  <2>2. job[p].catalog \in 0..NoCatalog /\ job[p].desired \in Owned
    BY <1>j DEF Jobs
  <2> QED BY <1>12, <2>1, <2>2 DEF WriteApplied, WriteGenerated, Quiet, TypeOK, inputs
<1>13. ASSUME NEW p \in Procs, WriteCheckpoint(p) PROVE TypeOK'
  <2>1. job' \in [Procs -> Jobs]
    BY <1>13, <1>l DEF WriteCheckpoint
  <2>2. job[p].lock \in Locks /\ job[p].desired \in Owned /\ job[p].revision.owned \in Owned
    BY <1>j DEF Jobs, Live
  <2>3. [job[p].lock EXCEPT !.fingerprint = job[p].desired, !.digests = Digests(job[p].revision)] \in Locks
    BY <2>2 DEF Locks, Digests
  <2>4. Checkpoint(job[p].desired, Digests(job[p].revision)) \in [fingerprint : Owned, digests : Owned]
    BY <2>2 DEF Checkpoint, Digests
  <2>5. lock' \in Locks /\ stash' \in [fingerprint : Owned, digests : Owned]
    BY <1>13, <2>3, <2>4 DEF WriteCheckpoint, TypeOK
  <2> QED BY <1>13, <2>1, <2>5 DEF WriteCheckpoint, Quiet, TypeOK, inputs
<1>14. ASSUME Service PROVE TypeOK'
  <2>1. job' \in [Procs -> Jobs]
    BY <1>14, <1>t, <1>c DEF Service, Labels
  <2>2. loaded' \in Owned
    BY <1>14 DEF Service, TypeOK, Live
  <2> QED BY <1>14, <2>1, <2>2 DEF Service, TypeOK, files, inputs
<1>15. ASSUME Finish PROVE TypeOK'
  <2>1. job' \in [Procs -> Jobs]
    BY <1>15, <1>s, <1>c, IdleJob DEF Finish
  <2>2. lock' \in Locks
    BY <1>15 DEF Finish, TypeOK, Locks
  <2> QED BY <1>15, <2>1, <2>2 DEF Finish, Quiet, TypeOK, inputs
<1>16. ASSUME NEW p \in Procs, Fail(p) PROVE TypeOK'
  <2>1. job' \in [Procs -> Jobs]
    BY <1>16, <1>j, IdleJob DEF Fail
  <2> QED BY <1>16, <2>1 DEF Fail, TypeOK, files, inputs
<1>17. ASSUME EditFragments \/ Distribute PROVE TypeOK'
  BY <1>17 DEF EditFragments, Distribute, TypeOK, files
<1>18. ASSUME EditLive PROVE TypeOK'
  <2>1. edits' = edits + 1 /\ edits + 1 \in 0..MaxEdits
    BY <1>18 DEF EditLive, TypeOK
  <2>2. [live EXCEPT !.owned.value = Edited] \in Live /\ [live EXCEPT !.other = edits + 1] \in Live
    BY <1>j, <2>1, Constants DEF Live, Owned
  <2>3. ASSUME NEW k \in Keys PROVE [live EXCEPT !.owned.keys = IF k \in @ THEN @ \ {k} ELSE @ \cup {k}] \in Live
    BY <1>j, <2>3 DEF Live, Owned
  <2>4. live' \in Live
    BY <1>18, <2>2, <2>3 DEF EditLive
  <2>5. disturbed' \in BOOLEAN
    BY <1>18 DEF EditLive, TypeOK, TakenBack
  <2> QED BY <1>18, <2>1, <2>4, <2>5 DEF EditLive, TypeOK
<1>19. ASSUME CommitUpdate PROVE TypeOK'
  <2>1. [lock EXCEPT !.pin = 1] \in Locks
    BY <1>j DEF Locks
  <2> QED BY <1>19, <2>1 DEF CommitUpdate, TypeOK, inputs
<1>20. ASSUME UNCHANGED vars PROVE TypeOK'
  BY <1>20 DEF vars, files, inputs, TypeOK
<1> QED
  BY <1>2, <1>3, <1>4, <1>5, <1>6, <1>7, <1>8, <1>9, <1>10, <1>11, <1>12, <1>13, <1>14, <1>15, <1>16, <1>17, <1>18,
     <1>19, <1>20 DEF Next, Reconcile

\* Every variable holds what its file or command can hold, in every state.
THEOREM TypeCorrect == Spec => []TypeOK
BY Init0, TypeNext, PTL DEF Spec

-----------------------------------------------------------------------------
\* What a command may be at its label.
Knows(j) ==
  /\ j.pc \in Publishing => Has(j.revision.owned, j.desired)
  /\ j.pc \in {"recheck", "patch"} => j.force \/ j.lock.digests = Unset \/ j.revision.owned = j.lock.digests

LEMMA Known == CheckpointInv <=> /\ Has(lock.digests, lock.fingerprint) /\ Has(stash.digests, stash.fingerprint)
                                 /\ \A p \in Procs : Knows(job[p])
BY DEF CheckpointInv, Knows

LEMMA CheckpointNext == ASSUME TypeOK, CheckpointInv, [Next]_vars PROVE CheckpointInv'
<1> USE ConfigAssumption
<1>j. DOMAIN job = Procs /\ \A p \in Procs : job[p] \in Jobs /\ Knows(job[p])
  BY Known DEF TypeOK
<1>c. "install" \in Procs /\ "apply" \in Procs
  BY DEF Procs
<1>i. Knows(Idle)
  BY IdleJob DEF Knows, Publishing
\* A step of one command that writes no checkpoint.
<1>s. ASSUME NEW p \in Procs, NEW j, job' = [job EXCEPT ![p] = j], Knows(j), UNCHANGED <<lock, stash>> PROVE CheckpointInv'
  <2>1. \A q \in Procs : Knows(job'[q])
    BY <1>j, <1>s
  <2> QED BY <1>s, <2>1, Known DEF CheckpointInv, Knows
<1>t. ASSUME NEW p \in Procs, NEW from, NEW to, Step(p, from, to), UNCHANGED <<lock, stash>>,
             to \in Publishing => from \in Publishing,
             to \in {"recheck", "patch"} => from \in {"recheck", "patch"}
      PROVE CheckpointInv'
  <2>1. job' = [job EXCEPT ![p] = [job[p] EXCEPT !.pc = to]] /\ job[p].pc = from
    BY <1>t, <1>j DEF Step
  <2>2. LET j == [job[p] EXCEPT !.pc = to]
        IN j.pc = to /\ j.desired = job[p].desired /\ j.lock = job[p].lock /\ j.revision = job[p].revision /\ j.force = job[p].force
    BY <1>j DEF Jobs
  <2>3. Knows([job[p] EXCEPT !.pc = to])
    BY <1>t, <1>j, <2>1, <2>2 DEF Knows
  <2> QED BY <1>s, <1>t, <2>1, <2>3
<1>k. ASSUME NEW p \in Procs, NEW changed
      PROVE Knows([Idle EXCEPT !.pc = "service", !.owed = job[p].owed \/ changed])
  <2>1. [Idle EXCEPT !.pc = "service", !.owed = job[p].owed \/ changed].pc = "service"
    BY DEF Idle
  <2> QED BY <2>1 DEF Knows, Publishing
<1>1. ASSUME ConfigApply \/ Install PROVE CheckpointInv'
  <2>1. PICK p \in Procs, to \in {"derive", "preflight"}, force \in BOOLEAN : Begin(p, to, force)
    BY <1>1, <1>c DEF ConfigApply, Install
  <2>2. Knows([Idle EXCEPT !.pc = to, !.force = force])
    BY IdleJob DEF Knows, Publishing
  <2> QED BY <1>s, <2>1, <2>2 DEF Begin, Set, files
<1>2. ASSUME Preflight \/ SetUp \/ Service PROVE CheckpointInv'
  BY <1>2, <1>t, <1>c DEF Preflight, SetUp, Service, Publishing, files
<1>3. ASSUME Project PROVE CheckpointInv'
  <2>1. job' = [job EXCEPT !["install"] = [job["install"] EXCEPT !.pc = "derive", !.owed = catalog # bundle]]
    BY <1>3, <1>j DEF Project
  <2>2. LET j == [job["install"] EXCEPT !.pc = "derive", !.owed = catalog # bundle]
        IN j.pc = "derive"
    BY <1>j, <1>c DEF Jobs
  <2>3. Knows([job["install"] EXCEPT !.pc = "derive", !.owed = catalog # bundle])
    BY <1>j, <1>c, <2>2 DEF Knows, Publishing
  <2> QED BY <1>3, <1>s, <1>c, <2>1, <2>3 DEF Project, files
<1>4. ASSUME NEW p \in Procs, Derive(p) PROVE CheckpointInv'
  <2>1. [job[p] EXCEPT !.pc = "read", !.catalog = catalog, !.desired = Derived, !.changes = Changes].pc = "read"
    BY <1>j DEF Jobs
  <2>2. Knows([job[p] EXCEPT !.pc = "read", !.catalog = catalog, !.desired = Derived, !.changes = Changes])
    BY <2>1 DEF Knows, Publishing
  <2> QED BY <1>4, <1>s, <2>2 DEF Derive, Set, files
<1>5. ASSUME NEW p \in Procs, ReadOwned(p) PROVE CheckpointInv'
  <2>1. [job[p] EXCEPT !.pc = "guard", !.revision = live].pc = "guard"
    BY <1>j DEF Jobs
  <2>2. Knows([job[p] EXCEPT !.pc = "guard", !.revision = live])
    BY <2>1 DEF Knows, Publishing
  <2> QED BY <1>5, <1>s, <2>2 DEF ReadOwned, Set, files
<1>6. ASSUME NEW p \in Procs, GuardInSync(p) PROVE CheckpointInv'
  BY <1>6, <1>s, <1>i, <1>k DEF GuardInSync, Leave, Set, files
<1>7. ASSUME NEW p \in Procs, GuardPasses(p) PROVE CheckpointInv'
  <2> DEFINE o == IF p = "apply" THEN job[p].changes \/ Conflict(p) ELSE job[p].owed
             j == [job[p] EXCEPT !.pc = "recheck", !.lock = lock,
                       !.owed = IF p = "apply" THEN job[p].changes \/ Conflict(p) ELSE @]
  <2>1. j.pc = "recheck" /\ j.desired = job[p].desired /\ j.lock = lock /\ j.revision = job[p].revision /\ j.force = job[p].force
    BY <1>j DEF Jobs
  <2>2. lock.digests = Unset \/ job[p].revision.owned = lock.digests \/ job[p].force
    BY <1>7 DEF GuardPasses, Conflict, Adopted, Digests
  <2>3. job' = [job EXCEPT ![p] = j] /\ UNCHANGED <<lock, stash>>
    BY <1>7 DEF GuardPasses, Set, files
  <2> HIDE DEF j
  <2>4. Knows(j)
    BY <1>j, <2>1, <2>2 DEF Knows, Publishing, CheckpointInv
  <2> QED BY <1>s, <2>3, <2>4
<1>8. ASSUME NEW p \in Procs, RecheckCatalog(p) \/ Lint(p) \/ Restart(p) PROVE CheckpointInv'
  BY <1>8, <1>t DEF RecheckCatalog, Lint, Restart, Publishing, files
<1>9. ASSUME NEW p \in Procs, WriteApplied(p) \/ WriteGenerated(p) PROVE CheckpointInv'
  BY <1>9, <1>t DEF WriteApplied, WriteGenerated, Publishing
<1>10. ASSUME NEW p \in Procs, Patch(p) PROVE CheckpointInv'
  <2>1. Patched(p).owned = Merge(live.owned, job[p].desired) /\ Has(Patched(p).owned, job[p].desired)
    BY <1>j, Merging DEF Patched, TypeOK, Live, Jobs
  <2>2. LET j == [job[p] EXCEPT !.pc = "lint", !.revision = Patched(p)]
        IN j.pc = "lint" /\ j.desired = job[p].desired /\ j.lock = job[p].lock /\ j.revision = Patched(p)
    BY <1>j DEF Jobs
  <2>3. Knows([job[p] EXCEPT !.pc = "lint", !.revision = Patched(p)])
    BY <1>j, <2>1, <2>2 DEF Knows, Publishing
  <2> QED BY <1>10, <1>s, <2>3 DEF Patch, Set
<1>11. ASSUME NEW p \in Procs, WriteCheckpoint(p) PROVE CheckpointInv'
  <2>1. \A q \in Procs : Knows(job'[q])
    BY <1>11, <1>j, <1>i, <1>k DEF WriteCheckpoint, Leave, Set
  <2>2. job[p].pc = "checkpoint"
    BY <1>11 DEF WriteCheckpoint, Leave, Set
  <2>3. Has(Digests(job[p].revision), job[p].desired)
    BY <1>j, <2>2 DEF Knows, Publishing, Digests
  <2>4. LET l == [job[p].lock EXCEPT !.fingerprint = job[p].desired, !.digests = Digests(job[p].revision)]
        IN l.fingerprint = job[p].desired /\ l.digests = Digests(job[p].revision)
    BY <1>j DEF Jobs, Locks
  <2>5. LET c == Checkpoint(job[p].desired, Digests(job[p].revision))
        IN c.fingerprint = job[p].desired /\ c.digests = Digests(job[p].revision)
    BY DEF Checkpoint
  <2>6. /\ lock' = lock \/ (lock'.fingerprint = job[p].desired /\ lock'.digests = Digests(job[p].revision))
        /\ stash' = stash \/ (stash'.fingerprint = job[p].desired /\ stash'.digests = Digests(job[p].revision))
    BY <1>11, <2>4, <2>5 DEF WriteCheckpoint
  <2>7. Has(lock'.digests, lock'.fingerprint) /\ Has(stash'.digests, stash'.fingerprint)
    BY <2>3, <2>6 DEF CheckpointInv
  <2> QED BY <2>1, <2>7 DEF CheckpointInv, Knows
<1>12. ASSUME Finish PROVE CheckpointInv'
  <2>1. \A q \in Procs : Knows(job'[q])
    BY <1>12, <1>j, <1>i DEF Finish, Set
  <2>2. /\ stash' = stash
        /\ \/ lock'.fingerprint = stash.fingerprint /\ lock'.digests = stash.digests
           \/ lock'.fingerprint = lock.fingerprint /\ lock'.digests = lock.digests
    BY <1>12 DEF Finish
  <2> QED BY <2>1, <2>2 DEF CheckpointInv, Knows
<1>13. ASSUME NEW p \in Procs, Fail(p) PROVE CheckpointInv'
  BY <1>13, <1>s, <1>i DEF Fail, files
<1>14. ASSUME EditFragments \/ Distribute \/ EditLive \/ UNCHANGED vars PROVE CheckpointInv'
  BY <1>14 DEF EditFragments, Distribute, EditLive, vars, files, CheckpointInv
<1>15. ASSUME CommitUpdate PROVE CheckpointInv'
  <2>1. lock'.fingerprint = lock.fingerprint /\ lock'.digests = lock.digests
    BY <1>15 DEF CommitUpdate, TypeOK, Locks
  <2> QED BY <1>15, <2>1 DEF CommitUpdate, CheckpointInv
<1> QED
  BY <1>1, <1>2, <1>3, <1>4, <1>5, <1>6, <1>7, <1>8, <1>9, <1>10, <1>11, <1>12, <1>13, <1>14, <1>15 DEF Next, Reconcile

\* Owned paths that are not as recorded are patched only by a run that was told to, or
\* before there was a checkpoint (reconcile, transactionalPatch).
THEOREM ForeignEditsSurviveHolds == Spec => ForeignEditsSurvive
<1>1. ASSUME TypeOK, CheckpointInv, [Next]_vars, NEW p \in Procs, job[p].pc = "patch", job'[p].pc = "lint",
             live.owned # job[p].lock.digests
      PROVE job[p].force \/ job[p].lock.digests = Unset
  <2>j. DOMAIN job = Procs /\ \A q \in Procs : job[q] \in Jobs
    BY <1>1 DEF TypeOK
  <2>c. "install" \in Procs
    BY DEF Procs
  <2>s. ASSUME NEW q \in Procs, NEW from, NEW j, Set(q, from, j), from # "patch" PROVE FALSE
    BY <1>1, <2>j, <2>s DEF Set
  <2>t. ASSUME NEW q \in Procs, NEW from, NEW to, Step(q, from, to), from # "patch" PROVE FALSE
    BY <1>1, <2>j, <2>t DEF Step
  <2>1. PICK q \in Procs : Patch(q) \/ Fail(q)
    <3>1. job' # job
      BY <1>1
    <3>2. ~ConfigApply /\ ~Install /\ ~Preflight /\ ~SetUp /\ ~Service /\ ~Finish
      BY <2>s, <2>t, <2>c DEF ConfigApply, Install, Begin, Preflight, SetUp, Service, Finish, Procs
    <3>3. ~Project
      BY <1>1, <2>j DEF Project
    <3>4. ~EditFragments /\ ~Distribute /\ ~EditLive /\ ~CommitUpdate /\ ~UNCHANGED vars
      BY <3>1 DEF EditFragments, Distribute, EditLive, CommitUpdate, vars
    <3>5. ASSUME NEW q \in Procs
          PROVE /\ ~Derive(q) /\ ~ReadOwned(q) /\ ~GuardInSync(q) /\ ~GuardPasses(q) /\ ~RecheckCatalog(q) /\ ~Lint(q)
                /\ ~Restart(q) /\ ~WriteApplied(q) /\ ~WriteGenerated(q) /\ ~WriteCheckpoint(q)
      BY <2>s, <2>t DEF Derive, ReadOwned, GuardInSync, GuardPasses, RecheckCatalog, Lint, Restart, WriteApplied,
         WriteGenerated, WriteCheckpoint, Leave
    <3> QED BY <1>1, <3>2, <3>3, <3>4, <3>5 DEF Next, Reconcile
  <2>2. ~Fail(q)
    BY <1>1, <2>j, IdleJob DEF Fail
  <2>3. q = p
    BY <1>1, <2>1, <2>2, <2>j DEF Patch, Set
  <2>4. job[p].revision.owned # job[p].lock.digests
    BY <1>1, <2>1, <2>2, <2>3 DEF Patch
  <2> QED BY <1>1, <2>4 DEF CheckpointInv
<1>2. TypeOK /\ CheckpointInv /\ [Next]_vars =>
        \A p \in Procs : job[p].pc = "patch" /\ job'[p].pc = "lint" /\ live.owned # job[p].lock.digests
          => job[p].force \/ job[p].lock.digests = Unset
  BY <1>1
<1> QED BY <1>2, Init0, TypeNext, CheckpointNext, PTL DEF Spec, ForeignEditsSurvive

\* "already in sync" is said only when the live file holds everything that fragments
\* and catalog ask for, so that one more patch would change nothing (reconcile).
THEOREM InSyncIsInSyncHolds == Spec => []InSyncIsInSync
<1>1. CheckpointInv => InSyncIsInSync
  BY DEF CheckpointInv, InSyncIsInSync, InSync, Adopted, Conflict, Digests
<1> QED BY <1>1, Init0, TypeNext, CheckpointNext, PTL DEF Spec

-----------------------------------------------------------------------------
LEMMA PinNext == ASSUME TypeOK, PinInv, [Next]_vars PROVE PinInv'
<1>j. DOMAIN job = Procs /\ \A q \in Procs : job[q] \in Jobs
  BY DEF TypeOK
<1>c. "install" \in Procs /\ "apply" \in Procs
  BY DEF Procs
<1>a. CASE CommitUpdate
  <2>1. lock'.pin = 1 /\ UNCHANGED job
    BY <1>a DEF CommitUpdate, TypeOK, Locks
  <2> QED BY <1>a, <1>c, <2>1 DEF CommitUpdate, PinInv, HasRead
<1>u. ASSUME update = "alone" PROVE PinInv' \/ CommitUpdate
  <2>0. lock.pin = 1 /\ job["install"].pc \in {"idle", "preflight"}
        /\ (HasRead("apply") => job["apply"].lock.pin = 1)
    BY <1>u DEF PinInv, HasRead
  \* An install that is idle, or refused.
  <2>i. ASSUME UNCHANGED <<lock, update>>, job'["install"].pc \in {"idle", "preflight"}, job'["apply"] = job["apply"] PROVE PinInv'
    BY <1>u, <2>0, <2>i DEF PinInv, HasRead
  \* A config apply that keeps the lock it has read, or has not read it.
  <2>p. ASSUME UNCHANGED <<lock, update>>, job'["install"] = job["install"],
               job'["apply"].pc \in {"idle", "derive", "read", "guard"} \/ job'["apply"].lock.pin = 1
        PROVE PinInv'
    BY <1>u, <2>0, <2>p DEF PinInv, HasRead
  <2>n. ASSUME UNCHANGED <<lock, update, job>> PROVE PinInv'
    BY <1>u, <2>n DEF PinInv, HasRead
  <2>1. ASSUME ConfigApply PROVE PinInv'
    <3>1. PICK force \in BOOLEAN : job' = [job EXCEPT !["apply"] = [Idle EXCEPT !.pc = "derive", !.force = force]]
      BY <2>1 DEF ConfigApply, Begin, Set
    <3>2. job'["apply"].pc = "derive" /\ job'["install"] = job["install"]
      BY <1>j, <1>c, <3>1, IdleJob
    <3> QED BY <2>1, <2>p, <3>2 DEF ConfigApply, Begin, files
  <2>2. ASSUME Install PROVE PinInv'
    <3>1. job' = [job EXCEPT !["install"] = [Idle EXCEPT !.pc = "preflight", !.force = FALSE]]
      BY <2>2 DEF Install, Begin, Set
    <3>2. job'["install"].pc = "preflight" /\ job'["apply"] = job["apply"]
      BY <1>j, <1>c, <3>1, IdleJob
    <3> QED BY <2>2, <2>i, <3>2 DEF Install, Begin, files
  <2>3. ~Preflight /\ ~SetUp /\ ~Project /\ ~Service /\ ~Finish /\ ~Reconcile("install")
    BY <2>0 DEF Preflight, SetUp, Project, Service, Finish, Step, Set, Reconcile, Derive, ReadOwned, GuardInSync, GuardPasses,
       RecheckCatalog, Patch, Lint, Restart, WriteApplied, WriteGenerated, WriteCheckpoint, Leave
  <2>4. ASSUME Reconcile("apply") PROVE PinInv'
    <3> DEFINE a == job["apply"]
    <3>a. a \in Jobs
      BY <1>j, <1>c
    <3>r. a.pc \notin {"idle", "derive", "read", "guard"} => a.lock.pin = 1
      BY <2>0 DEF HasRead
    <3>s. ASSUME NEW from, NEW j, Set("apply", from, j), UNCHANGED <<lock, update>>,
                 j.pc \in {"idle", "derive", "read", "guard"} \/ j.lock.pin = 1
          PROVE PinInv'
      BY <1>j, <1>c, <2>p, <3>s DEF Set
    <3>t. ASSUME NEW from, NEW to, Step("apply", from, to), UNCHANGED <<lock, update>>,
                 from \notin {"idle", "derive", "read", "guard"}
          PROVE PinInv'
      <4>1. job'["apply"].lock = a.lock /\ job'["install"] = job["install"] /\ a.pc = from
        BY <1>j, <1>c, <3>a, <3>t DEF Step, Jobs
      <4> QED BY <2>p, <3>r, <3>t, <4>1
    <3>1. CASE Derive("apply") \/ ReadOwned("apply")
      <4>1. /\ [a EXCEPT !.pc = "read", !.catalog = catalog, !.desired = Derived, !.changes = Changes].pc = "read"
            /\ [a EXCEPT !.pc = "guard", !.revision = live].pc = "guard"
        BY <3>a DEF Jobs
      <4> QED BY <3>1, <3>s, <4>1 DEF Derive, ReadOwned, Quiet, files
    <3>2. CASE GuardInSync("apply")
      BY <3>2, <3>s, IdleJob DEF GuardInSync, Leave, Quiet, files
    <3>3. CASE GuardPasses("apply")
      <4>1. [a EXCEPT !.pc = "recheck", !.lock = lock,
               !.owed = IF "apply" = "apply" THEN a.changes \/ Conflict("apply") ELSE @].lock = lock
        BY <3>a DEF Jobs
      <4> QED BY <2>0, <3>3, <3>s, <4>1 DEF GuardPasses, Quiet, files
    <3>4. CASE RecheckCatalog("apply") \/ Lint("apply") \/ Restart("apply") \/ WriteApplied("apply") \/ WriteGenerated("apply")
      BY <3>4, <3>t DEF RecheckCatalog, Lint, Restart, WriteApplied, WriteGenerated, Quiet, files
    <3>5. CASE Patch("apply")
      <4>1. [a EXCEPT !.pc = "lint", !.revision = Patched("apply")].lock = a.lock /\ a.pc = "patch"
        BY <3>a, <3>5 DEF Jobs, Patch, Set
      <4> QED BY <3>5, <3>r, <3>s, <4>1 DEF Patch, Quiet
    <3>6. CASE WriteCheckpoint("apply")
      <4>1. a.pc = "checkpoint" /\ job' = [job EXCEPT !["apply"] = Idle] /\ UNCHANGED update
        BY <3>6 DEF WriteCheckpoint, Leave, Set, Quiet
      <4>2. a.lock.pin = 1 /\ a.lock # NoLock
        BY <3>r, <4>1, Constants
      <4>3. lock'.pin = 1
        BY <3>6, <3>a, <4>2 DEF WriteCheckpoint, Jobs, Locks
      <4>4. job'["apply"].pc = "idle" /\ job'["install"] = job["install"]
        BY <1>j, <1>c, <4>1, IdleJob
      <4> QED BY <1>u, <2>0, <4>1, <4>3, <4>4 DEF PinInv, HasRead
    <3> QED BY <2>4, <3>1, <3>2, <3>3, <3>4, <3>5, <3>6 DEF Reconcile
  <2>5. ASSUME Fail("install") PROVE PinInv'
    BY <1>j, <1>c, <2>5, <2>i, IdleJob DEF Fail, files
  <2>6. ASSUME Fail("apply") PROVE PinInv'
    BY <1>j, <1>c, <2>6, <2>p, IdleJob DEF Fail, files
  <2>7. ASSUME EditFragments \/ Distribute \/ EditLive \/ UNCHANGED vars PROVE PinInv'
    BY <2>7, <2>n DEF EditFragments, Distribute, EditLive, vars, files
  <2> QED BY <2>1, <2>2, <2>3, <2>4, <2>5, <2>6, <2>7 DEF Next, Procs
<1>b. ASSUME update # "alone" PROVE PinInv' \/ CommitUpdate
  <2>1. CommitUpdate \/ UNCHANGED update
    <3>1. ASSUME NEW p \in Procs, Reconcile(p) \/ Fail(p) PROVE UNCHANGED update
      BY <3>1 DEF Reconcile, Fail, Derive, ReadOwned, GuardInSync, GuardPasses, RecheckCatalog, Patch, Lint, Restart,
         WriteApplied, WriteGenerated, WriteCheckpoint, Quiet
    <3> QED BY <3>1 DEF Next, ConfigApply, Install, Begin, Preflight, SetUp, Project, Service, Finish, EditFragments,
           Distribute, EditLive, Quiet, vars
  <2> QED BY <1>b, <2>1 DEF PinInv
<1> QED BY <1>a, <1>u, <1>b

\* The pin of a committed update is lost only to a command that was already at work
\* when it committed (reconcile's last write, install's last step).
THEOREM PinLostOnlyByOverlapHolds == Spec => []PinLostOnlyByOverlap
<1>1. PinInv => PinLostOnlyByOverlap
  BY DEF PinInv, PinLostOnlyByOverlap
<1> QED BY <1>1, Init0, TypeNext, PinNext, PTL DEF Spec

-----------------------------------------------------------------------------
\* What the service was started with.

\* The latest checkpoint: before there is a lockfile it is in the stash.
Recorded == IF lock = NoLock THEN stash.digests ELSE lock.digests

Asked == {"read", "guard", "recheck", "patch"} \cup Publishing
Guarded == {"recheck", "patch"} \cup Publishing

\* Whoever gets as far as a lockfile has derived, published and started something.
ArmedInv ==
  /\ lock # NoLock => lock.digests.value # Nothing /\ loaded # Unset
  /\ job["install"].pc \in {"service", "finish"} => Recorded.value # Nothing
  /\ job["install"].pc = "finish" => loaded # Unset
  /\ \A p \in Procs :
       /\ job[p].lock # NoLock => lock # NoLock /\ job[p].lock.digests.value # Nothing
       /\ job[p].pc \in Asked => job[p].desired.value # Nothing
       /\ job[p].pc \in Publishing \cup {"service", "finish"} => live.owned.value # Nothing

\* If that is what the live file holds, the service was started with it, or is down.
ServedWith(o) == live.owned = o => loaded \in {o, Unset}

\* A restart is still to come.
Debt(p) == IF p = "install" THEN job[p].pc \in Publishing \/ (job[p].pc = "service" /\ job[p].owed)
                            ELSE job[p].pc \in {"lint", "restart"} /\ job[p].owed

\* Until the first install is through with its service, nobody has promised anything.
Unarmed == lock = NoLock /\ job["install"].pc \notin {"service", "finish"}

Alone == \A p, q \in Procs : p = q \/ job[p].pc = "idle" \/ job[q].pc = "idle"

\* What a command that works alone knows: a config apply that owes no restart finds
\* what was generated last, has found what was recorded, and publishes nothing new.
Runs(p) ==
  /\ job[p].pc \in Guarded => job[p].lock.digests = lock.digests
  /\ job[p].pc = "checkpoint" => generated = job[p].desired
  /\ p = "apply" /\ job[p].pc \in {"read", "guard"} /\ ~job[p].changes => generated = job[p].desired
  /\ p = "apply" /\ job[p].pc \in {"recheck", "patch"} /\ ~job[p].owed =>
       generated = job[p].desired /\ (lock.digests = Unset \/ job[p].revision.owned = lock.digests)
  /\ p = "apply" /\ lock # NoLock =>
       /\ job[p].pc \in {"lint", "restart"} => job[p].owed \/ ServedWith(job[p].revision.owned)
       /\ job[p].pc \in {"check", "generated", "checkpoint"} => ServedWith(job[p].revision.owned)

\* As long as nothing was disturbed, what was recorded last has what was generated last,
\* and the service runs it wherever the live file still holds it.
ServiceInv ==
  ~disturbed =>
    /\ Alone
    /\ \A p \in Procs : Runs(p)
    /\ Has(Recorded, generated) \/ \E p \in Procs : job[p].pc = "checkpoint"
    /\ ServedWith(Recorded) \/ Unarmed \/ \E p \in Procs : Debt(p)

\* What a step leaves of the fields of a command.
LEMMA FieldsAfter ==
  ASSUME NEW j \in Jobs
  PROVE  /\ \A to : LET k == [j EXCEPT !.pc = to]
                    IN k.pc = to /\ k.desired = j.desired /\ k.lock = j.lock /\ k.revision = j.revision
                       /\ k.owed = j.owed /\ k.changes = j.changes
         /\ \A o : LET k == [j EXCEPT !.pc = "derive", !.owed = o] IN k.pc = "derive" /\ k.lock = j.lock
         /\ \A c, d, b : LET k == [j EXCEPT !.pc = "read", !.catalog = c, !.desired = d, !.changes = b]
                         IN k.pc = "read" /\ k.desired = d /\ k.lock = j.lock /\ k.changes = b
         /\ \A l, to : LET k == [j EXCEPT !.pc = to, !.revision = l]
                       IN k.pc = to /\ k.desired = j.desired /\ k.lock = j.lock /\ k.revision = l
                          /\ k.owed = j.owed /\ k.changes = j.changes
         /\ \A l, o : LET k == [j EXCEPT !.pc = "recheck", !.lock = l, !.owed = o]
                      IN k.pc = "recheck" /\ k.desired = j.desired /\ k.lock = l /\ k.revision = j.revision /\ k.owed = o
         /\ \A o : LET k == [j EXCEPT !.pc = "service", !.owed = o] IN k.pc = "service" /\ k.lock = j.lock /\ k.owed = o
BY DEF Jobs

\* The command that takes the step, as it is afterwards; the other one stays.
LEMMA StepFacts ==
  ASSUME TypeOK, NEW p \in Procs
  PROVE  /\ \A from, j : Set(p, from, j) => job[p].pc = from /\ job'[p] = j /\ \A q \in Procs : q # p => job'[q] = job[q]
         /\ \A from, to : Step(p, from, to) =>
              /\ job[p].pc = from /\ job'[p].pc = to /\ job'[p].desired = job[p].desired /\ job'[p].lock = job[p].lock
              /\ job'[p].revision = job[p].revision /\ job'[p].owed = job[p].owed /\ job'[p].changes = job[p].changes
              /\ \A q \in Procs : q # p => job'[q] = job[q]
<1>j. DOMAIN job = Procs /\ job[p] \in Jobs
  BY DEF TypeOK
<1>1. ASSUME NEW from, NEW j, Set(p, from, j) PROVE job[p].pc = from /\ job'[p] = j /\ \A q \in Procs : q # p => job'[q] = job[q]
  BY <1>1, <1>j DEF Set
<1>2. ASSUME NEW from, NEW to, Step(p, from, to)
      PROVE  /\ job[p].pc = from /\ job'[p].pc = to /\ job'[p].desired = job[p].desired /\ job'[p].lock = job[p].lock
             /\ job'[p].revision = job[p].revision /\ job'[p].owed = job[p].owed /\ job'[p].changes = job[p].changes
             /\ \A q \in Procs : q # p => job'[q] = job[q]
  <2>1. job' = [job EXCEPT ![p] = [job[p] EXCEPT !.pc = to]] /\ job[p].pc = from
    BY <1>2, <1>j DEF Step
  <2>2. job'[p] = [job[p] EXCEPT !.pc = to] /\ \A q \in Procs : q # p => job'[q] = job[q]
    BY <1>j, <2>1
  <2> QED BY <1>j, <2>1, <2>2, FieldsAfter
<1> QED BY <1>1, <1>2

LEMMA LeaveFacts ==
  ASSUME TypeOK, NEW p \in Procs, NEW from, NEW changed, Leave(p, from, changed)
  PROVE  /\ job[p].pc = from /\ \A q \in Procs : q # p => job'[q] = job[q]
         /\ p = "install" => /\ job'[p].pc = "service" /\ job'[p].lock = NoLock
                             /\ job'[p].owed = (job[p].owed \/ changed)
         /\ p # "install" => job'[p] = Idle
<1> DEFINE o == job[p].owed \/ changed
<1>1. CASE p = "install"
  <2>1. Set(p, from, [Idle EXCEPT !.pc = "service", !.owed = o])
    BY <1>1 DEF Leave
  <2>2. job[p].pc = from /\ job'[p] = [Idle EXCEPT !.pc = "service", !.owed = o]
        /\ \A q \in Procs : q # p => job'[q] = job[q]
    BY <2>1, StepFacts
  <2>3. LET k == [Idle EXCEPT !.pc = "service", !.owed = o] IN k.pc = "service" /\ k.lock = NoLock /\ k.owed = o
    BY DEF Idle
  <2> QED BY <1>1, <2>2, <2>3
<1>2. CASE p # "install"
  <2>1. Set(p, from, Idle)
    BY <1>2 DEF Leave
  <2> QED BY <1>2, <2>1, StepFacts
<1> QED BY <1>1, <1>2

\* A command that begins has read nothing.
LEMMA BeginFacts ==
  ASSUME TypeOK, NEW p \in Procs, NEW to \in {"derive", "preflight"}, NEW force \in BOOLEAN, Begin(p, to, force)
  PROVE  /\ job[p].pc = "idle" /\ job'[p].pc = to /\ job'[p].lock = NoLock
         /\ \A q \in Procs : q # p => job'[q] = job[q]
<1> DEFINE j == [Idle EXCEPT !.pc = to, !.force = force]
<1>1. j.pc = to /\ j.lock = NoLock
  BY IdleJob
<1>2. Set(p, "idle", j)
  BY DEF Begin
<1> HIDE DEF j
<1> QED BY <1>1, <1>2, StepFacts

\* The labels, one by one.
LEMMA Places ==
  /\ Asked = {"read", "guard", "recheck", "patch", "lint", "restart", "check", "generated", "checkpoint"}
  /\ Guarded = {"recheck", "patch", "lint", "restart", "check", "generated", "checkpoint"}
  /\ Publishing = {"lint", "restart", "check", "generated", "checkpoint"}
BY DEF Asked, Guarded, Publishing

LEMMA ArmedNext == ASSUME TypeOK, CheckpointInv, ArmedInv, [Next]_vars PROVE ArmedInv'
<1>j. DOMAIN job = Procs /\ \A p \in Procs : job[p] \in Jobs
  BY DEF TypeOK
<1>c. "install" \in Procs /\ "apply" \in Procs
  BY DEF Procs
<1>i. Idle.pc = "idle" /\ Idle.lock = NoLock
  BY IdleJob
\* A step of one command that writes no checkpoint.
<1>s. ASSUME NEW p \in Procs, \A q \in Procs : q # p => job'[q] = job[q], lock' = lock, stash' = stash,
             loaded' = loaded \/ loaded' # Unset, live'.owned = live.owned \/ live'.owned.value # Nothing,
             job'[p].lock = NoLock \/ job'[p].lock = job[p].lock \/ job'[p].lock = lock,
             job'[p].pc \in Asked => job'[p].desired.value # Nothing,
             job'[p].pc \in Publishing \cup {"service", "finish"} => live'.owned.value # Nothing,
             p = "install" /\ job'[p].pc \in {"service", "finish"} => Recorded.value # Nothing,
             p = "install" /\ job'[p].pc = "finish" => loaded' # Unset
      PROVE  ArmedInv'
  <2>1. Recorded' = Recorded
    BY <1>s DEF Recorded
  <2>2. lock' # NoLock => lock'.digests.value # Nothing /\ loaded' # Unset
    BY <1>s DEF ArmedInv
  <2>3. /\ job'["install"].pc \in {"service", "finish"} => Recorded'.value # Nothing
        /\ job'["install"].pc = "finish" => loaded' # Unset
    BY <1>s, <1>c, <2>1 DEF ArmedInv
  <2>4. ASSUME NEW q \in Procs
        PROVE  /\ job'[q].lock # NoLock => lock' # NoLock /\ job'[q].lock.digests.value # Nothing
               /\ job'[q].pc \in Asked => job'[q].desired.value # Nothing
               /\ job'[q].pc \in Publishing \cup {"service", "finish"} => live'.owned.value # Nothing
    <3>1. CASE q = p
      BY <1>s, <3>1 DEF ArmedInv
    <3>2. CASE q # p
      <4>1. job'[q] = job[q]
        BY <1>s, <3>2
      <4> QED BY <1>s, <4>1 DEF ArmedInv
    <3> QED BY <3>1, <3>2
  <2> QED BY <2>2, <2>3, <2>4 DEF ArmedInv
<1>1. ASSUME ConfigApply \/ Install PROVE ArmedInv'
  <2>1. PICK p \in Procs, to \in {"derive", "preflight"}, force \in BOOLEAN : Begin(p, to, force)
    BY <1>1, <1>c DEF ConfigApply, Install
  <2>2. job'[p].pc = to /\ job'[p].lock = NoLock /\ \A q \in Procs : q # p => job'[q] = job[q]
    BY <2>1, BeginFacts
  <2> QED BY <1>s, <2>1, <2>2, Places DEF Begin, files
<1>2. ASSUME Preflight \/ SetUp PROVE ArmedInv'
  BY <1>2, <1>s, <1>c, StepFacts, Places DEF Preflight, SetUp, files, Quiet
<1>3. ASSUME Project PROVE ArmedInv'
  <2>1. job'["install"] = [job["install"] EXCEPT !.pc = "derive", !.owed = catalog # bundle]
        /\ \A q \in Procs : q # "install" => job'[q] = job[q]
    BY <1>3, <1>j, <1>c DEF Project
  <2>2. job'["install"].pc = "derive" /\ job'["install"].lock = job["install"].lock
    BY <1>j, <1>c, <2>1, FieldsAfter
  <2>3. UNCHANGED <<lock, stash, live, loaded>>
    BY <1>3 DEF Project, files, Quiet
  <2>4. "derive" \notin Asked \cup Publishing \cup {"service", "finish"}
    BY Places
  <2> QED BY <1>s, <1>c, <2>1, <2>2, <2>3, <2>4
<1>4. ASSUME NEW p \in Procs, Derive(p) PROVE ArmedInv'
  <2>1. job'[p] = [job[p] EXCEPT !.pc = "read", !.catalog = catalog, !.desired = Derived, !.changes = Changes]
        /\ \A q \in Procs : q # p => job'[q] = job[q]
    BY <1>4, StepFacts DEF Derive
  <2>2. job'[p].pc = "read" /\ job'[p].lock = job[p].lock /\ job'[p].desired = Derived
    BY <1>j, <2>1, FieldsAfter
  <2>3. Derived.value # Nothing
    BY <1>4, Derivation DEF Derive
  <2> QED BY <1>4, <1>s, <2>1, <2>2, <2>3, Places DEF Derive, files, Quiet
<1>5. ASSUME NEW p \in Procs, ReadOwned(p) PROVE ArmedInv'
  <2>1. job'[p] = [job[p] EXCEPT !.pc = "guard", !.revision = live] /\ job[p].pc = "read"
        /\ \A q \in Procs : q # p => job'[q] = job[q]
    BY <1>5, StepFacts DEF ReadOwned
  <2>2. job'[p].pc = "guard" /\ job'[p].lock = job[p].lock /\ job'[p].desired = job[p].desired
    BY <1>j, <2>1, FieldsAfter
  <2> QED BY <1>5, <1>s, <2>1, <2>2, Places DEF ReadOwned, files, Quiet, ArmedInv
<1>6. ASSUME NEW p \in Procs, GuardInSync(p) PROVE ArmedInv'
  <2>1. live.owned = lock.digests /\ lock.digests # Unset
    BY <1>6 DEF GuardInSync, InSync, Conflict, Adopted, Digests
  <2>2. Recorded.value # Nothing /\ live.owned.value # Nothing
    BY <2>1, Constants DEF Recorded, ArmedInv
  <2>3. job'[p].pc \in {"idle", "service"} /\ (job'[p].lock = NoLock \/ job'[p].lock = job[p].lock)
        /\ \A q \in Procs : q # p => job'[q] = job[q]
    BY <1>6, <1>i, LeaveFacts DEF GuardInSync
  <2> QED BY <1>6, <1>s, <2>1, <2>2, <2>3, Places DEF GuardInSync, files, Quiet
<1>7. ASSUME NEW p \in Procs, GuardPasses(p) PROVE ArmedInv'
  <2> DEFINE o == IF p = "apply" THEN job[p].changes \/ Conflict(p) ELSE job[p].owed
  <2>1. job'[p] = [job[p] EXCEPT !.pc = "recheck", !.lock = lock, !.owed = o] /\ job[p].pc = "guard"
        /\ \A q \in Procs : q # p => job'[q] = job[q]
    BY <1>7, StepFacts DEF GuardPasses
  <2>2. job'[p].pc = "recheck" /\ job'[p].lock = lock /\ job'[p].desired = job[p].desired
    BY <1>j, <2>1, FieldsAfter
  <2> QED BY <1>7, <1>s, <2>1, <2>2, Places DEF GuardPasses, files, Quiet, ArmedInv
<1>8. ASSUME NEW p \in Procs, RecheckCatalog(p) PROVE ArmedInv'
  BY <1>8, <1>s, StepFacts, Places DEF RecheckCatalog, files, Quiet, ArmedInv
<1>9. ASSUME NEW p \in Procs, Patch(p) PROVE ArmedInv'
  <2>1. job'[p] = [job[p] EXCEPT !.pc = "lint", !.revision = Patched(p)] /\ job[p].pc = "patch"
        /\ \A q \in Procs : q # p => job'[q] = job[q]
    BY <1>9, StepFacts DEF Patch
  <2>2. job'[p].pc = "lint" /\ job'[p].lock = job[p].lock /\ job'[p].desired = job[p].desired
    BY <1>j, <2>1, FieldsAfter
  <2>3. live'.owned.value = job[p].desired.value /\ job[p].desired.value # Nothing
    BY <1>9, <2>1, Places DEF Patch, Patched, Merge, TypeOK, Live, ArmedInv
  <2> QED BY <1>9, <1>s, <2>1, <2>2, <2>3, Places DEF Patch, Quiet
<1>10. ASSUME NEW p \in Procs, Lint(p) \/ Restart(p) \/ WriteApplied(p) \/ WriteGenerated(p) PROVE ArmedInv'
  <2>1. job[p].pc \in Publishing /\ job'[p].pc \in Publishing /\ job'[p].lock = job[p].lock /\ job'[p].desired = job[p].desired
        /\ \A q \in Procs : q # p => job'[q] = job[q]
    BY <1>10, StepFacts, Places DEF Lint, Restart, WriteApplied, WriteGenerated
  <2>2. live.owned.value # Nothing /\ job[p].desired.value # Nothing
    BY <2>1, Places DEF ArmedInv
  <2>3. live' = live /\ lock' = lock /\ stash' = stash /\ (loaded' = loaded \/ loaded' # Unset)
    BY <1>10, <2>2, Constants DEF Lint, Restart, WriteApplied, WriteGenerated, files, Quiet
  <2> QED BY <1>s, <2>1, <2>2, <2>3, Places
<1>11. ASSUME NEW p \in Procs, WriteCheckpoint(p) PROVE ArmedInv'
  <2>1. job[p].pc = "checkpoint" /\ job'[p].pc \in {"idle", "service"}
        /\ (job'[p].lock = NoLock \/ job'[p].lock = job[p].lock) /\ (job'[p].pc = "service" => p = "install")
        /\ \A q \in Procs : q # p => job'[q] = job[q]
    BY <1>11, <1>i, LeaveFacts DEF WriteCheckpoint
  <2>2. job[p].revision.owned.value # Nothing /\ live.owned.value # Nothing
    BY <2>1, Having, Places DEF ArmedInv, CheckpointInv
  <2>3. live' = live /\ loaded' = loaded
    BY <1>11 DEF WriteCheckpoint, Quiet
  <2>4. CASE job[p].lock # NoLock
    <3>1. lock # NoLock /\ stash' = stash
      BY <1>11, <2>4 DEF WriteCheckpoint, ArmedInv
    <3>2. lock'.digests = job[p].revision.owned
      BY <1>11, <1>j, <2>4 DEF WriteCheckpoint, Jobs, Locks, Digests
    <3>3. lock' # NoLock /\ loaded' # Unset
      BY <2>2, <2>3, <3>1, <3>2, Constants DEF ArmedInv
    <3>4. Recorded'.value # Nothing
      BY <2>2, <3>2, <3>3 DEF Recorded
    <3>5. ASSUME NEW q \in Procs
          PROVE  /\ job'[q].lock # NoLock => lock' # NoLock /\ job'[q].lock.digests.value # Nothing
                 /\ job'[q].pc \in Asked => job'[q].desired.value # Nothing
                 /\ job'[q].pc \in Publishing \cup {"service", "finish"} => live'.owned.value # Nothing
      <4>1. CASE q = p
        BY <2>1, <2>2, <2>3, <3>3, <4>1, Places DEF ArmedInv
      <4>2. CASE q # p
        <5>1. job'[q] = job[q]
          BY <2>1, <4>2
        <5> QED BY <2>3, <3>3, <5>1 DEF ArmedInv
      <4> QED BY <4>1, <4>2
    <3> QED BY <2>2, <3>2, <3>3, <3>4, <3>5 DEF ArmedInv
  <2>5. CASE job[p].lock = NoLock
    <3>1. lock' = lock /\ stash'.digests = job[p].revision.owned
      BY <1>11, <2>5 DEF WriteCheckpoint, Checkpoint, Digests
    <3>2. Recorded'.value # Nothing
      BY <2>2, <3>1 DEF Recorded, ArmedInv
    <3>3. job'["install"].pc = "finish" => loaded' # Unset
      BY <2>1, <2>3, <1>c DEF ArmedInv
    <3>5. ASSUME NEW q \in Procs
          PROVE  /\ job'[q].lock # NoLock => lock' # NoLock /\ job'[q].lock.digests.value # Nothing
                 /\ job'[q].pc \in Asked => job'[q].desired.value # Nothing
                 /\ job'[q].pc \in Publishing \cup {"service", "finish"} => live'.owned.value # Nothing
      <4>1. CASE q = p
        BY <2>1, <2>2, <2>3, <2>5, <3>1, <4>1, Places DEF ArmedInv
      <4>2. CASE q # p
        <5>1. job'[q] = job[q]
          BY <2>1, <4>2
        <5> QED BY <2>3, <3>1, <5>1 DEF ArmedInv
      <4> QED BY <4>1, <4>2
    <3> QED BY <2>3, <3>1, <3>2, <3>3, <3>5 DEF ArmedInv
  <2> QED BY <2>4, <2>5
<1>12. ASSUME Service PROVE ArmedInv'
  <2>1. job["install"].pc = "service" /\ job'["install"].pc = "finish" /\ job'["install"].lock = job["install"].lock
        /\ \A q \in Procs : q # "install" => job'[q] = job[q]
    BY <1>12, <1>c, StepFacts DEF Service
  <2>2. live.owned.value # Nothing /\ Recorded.value # Nothing
    BY <1>c, <2>1 DEF ArmedInv
  <2>3. loaded' # Unset /\ live' = live /\ lock' = lock /\ stash' = stash
    BY <1>12, <2>2, Constants DEF Service, files
  <2> QED BY <1>s, <1>c, <2>1, <2>2, <2>3, Places
<1>13. ASSUME Finish PROVE ArmedInv'
  <2>1. job["install"].pc = "finish" /\ job'["install"] = Idle /\ \A q \in Procs : q # "install" => job'[q] = job[q]
    BY <1>13, <1>c, StepFacts DEF Finish
  <2>2. Recorded.value # Nothing /\ loaded # Unset /\ loaded' = loaded /\ live' = live
    BY <1>13, <2>1 DEF Finish, Quiet, ArmedInv
  <2>3. lock'.digests = Recorded
    BY <1>13 DEF Finish, Recorded
  <2>4. lock' # NoLock
    BY <2>2, <2>3, Constants
  <2>5. ASSUME NEW q \in Procs
        PROVE  /\ job'[q].lock # NoLock => lock' # NoLock /\ job'[q].lock.digests.value # Nothing
               /\ job'[q].pc \in Asked => job'[q].desired.value # Nothing
               /\ job'[q].pc \in Publishing \cup {"service", "finish"} => live'.owned.value # Nothing
    <3>1. CASE q = "install"
      BY <1>i, <2>1, <3>1, Places
    <3>2. CASE q # "install"
      <4>1. job'[q] = job[q]
        BY <2>1, <3>2
      <4> QED BY <2>2, <2>4, <4>1 DEF ArmedInv
    <3> QED BY <3>1, <3>2
  <2> QED BY <1>i, <2>1, <2>2, <2>3, <2>4, <2>5 DEF ArmedInv
<1>14. ASSUME NEW p \in Procs, Fail(p) PROVE ArmedInv'
  <2>1. job'[p] = Idle /\ \A q \in Procs : q # p => job'[q] = job[q]
    BY <1>14, <1>j DEF Fail
  <2> QED BY <1>14, <1>s, <1>i, <2>1, Places DEF Fail, files
<1>15. ASSUME EditFragments \/ Distribute \/ UNCHANGED vars PROVE ArmedInv'
  BY <1>15 DEF EditFragments, Distribute, vars, files, ArmedInv, Recorded
<1>16. ASSUME EditLive PROVE ArmedInv'
  <2>1. UNCHANGED <<lock, stash, job, loaded>> /\ (live'.owned.value = live.owned.value \/ live'.owned.value = Edited)
    BY <1>16 DEF EditLive, TypeOK, Live, Owned
  <2> QED BY <2>1, Constants DEF ArmedInv, Recorded
<1>17. ASSUME CommitUpdate PROVE ArmedInv'
  <2>1. UNCHANGED <<live, stash, job, loaded>> /\ lock # NoLock /\ lock'.digests = lock.digests
    BY <1>17 DEF CommitUpdate, TypeOK, Locks
  <2>2. lock' # NoLock
    BY <2>1, Constants DEF ArmedInv
  <2> QED BY <2>1, <2>2 DEF ArmedInv, Recorded
<1> QED
  BY <1>1, <1>2, <1>3, <1>4, <1>5, <1>6, <1>7, <1>8, <1>9, <1>10, <1>11, <1>12, <1>13, <1>14, <1>15, <1>16, <1>17
  DEF Next, Reconcile

\* A command at work, when it works alone.
Solo(p) ==
  /\ Runs(p)
  /\ Has(Recorded, generated) \/ job[p].pc = "checkpoint"
  /\ ServedWith(Recorded) \/ Unarmed \/ Debt(p)

LEMMA SoloFacts ==
  ASSUME ServiceInv, ~disturbed, NEW p \in Procs, job[p].pc # "idle"
  PROVE  Solo(p) /\ \A q \in Procs : q # p => job[q].pc = "idle"
<1>1. \A q \in Procs : q # p => job[q].pc = "idle"
  BY DEF ServiceInv, Alone
<1>2. \A q \in Procs : job[q].pc = "checkpoint" => q = p
  BY <1>1
<1>3. \A q \in Procs : Debt(q) => q = p
  BY <1>1, Places DEF Debt
<1> QED BY <1>1, <1>2, <1>3 DEF ServiceInv, Solo

\* While nobody is at work nothing is owed.
LEMMA IdleFacts ==
  ASSUME ServiceInv, ~disturbed, \A q \in Procs : job[q].pc = "idle"
  PROVE  Has(Recorded, generated) /\ (ServedWith(Recorded) \/ Unarmed)
<1>1. \A q \in Procs : ~Debt(q)
  BY Places DEF Debt
<1> QED BY <1>1 DEF ServiceInv

LEMMA ServedFromSolo ==
  ASSUME NEW p \in Procs, Solo(p)', \A q \in Procs : q # p => job'[q].pc = "idle"
  PROVE  ServiceInv'
<1>1. \A q \in Procs : q # p => Runs(q)'
  BY Places DEF Runs
<1>2. Alone'
  BY DEF Alone
<1> QED BY <1>1, <1>2 DEF ServiceInv, Solo

\* The other command does not move while one works alone.
LEMMA ServiceNext == ASSUME TypeOK, CheckpointInv, ArmedInv, ServiceInv, [Next]_vars PROVE ServiceInv'
<1>j. DOMAIN job = Procs /\ \A p \in Procs : job[p] \in Jobs
  BY DEF TypeOK
<1>c. "install" \in Procs /\ "apply" \in Procs /\ \A p \in Procs : p = "install" \/ p = "apply"
  BY DEF Procs
<1>i. Idle.pc = "idle" /\ Idle.lock = NoLock
  BY IdleJob
<1>d. disturbed => disturbed'
  BY DEF Next, Reconcile, ConfigApply, Install, Begin, Preflight, SetUp, Project, Derive, ReadOwned, GuardInSync,
     GuardPasses, RecheckCatalog, Patch, Lint, Restart, WriteApplied, WriteGenerated, WriteCheckpoint, Service, Finish,
     Fail, EditFragments, Distribute, EditLive, CommitUpdate, Quiet, vars
<1> SUFFICES ASSUME ~disturbed, ~disturbed' PROVE ServiceInv'
  BY <1>d DEF ServiceInv
\* A step of one command: what holds of it before, and what is left to show.
<1>s. ASSUME NEW p \in Procs, job[p].pc # "idle", \A q \in Procs : q # p => job'[q] = job[q], Solo(p) => Solo(p)'
      PROVE  ServiceInv'
  BY <1>s, SoloFacts, ServedFromSolo
\* Up to the guard nothing is owed and nothing is written.
<1>e. ASSUME NEW p \in Procs, Solo(p), UNCHANGED <<lock, stash, generated, live, loaded>>,
             job[p].pc \notin Publishing \cup {"service"}, job'[p].pc \notin Guarded, Runs(p)',
             \A q \in Procs : q # p => job'[q] = job[q],
             p = "install" /\ job'[p].pc \in {"service", "finish"} => lock # NoLock
      PROVE  Solo(p)'
  <2>1. Recorded' = Recorded /\ ServedWith(Recorded)' = ServedWith(Recorded)
    BY <1>e DEF Recorded, ServedWith
  <2>2. ~Debt(p) /\ job[p].pc # "checkpoint"
    BY <1>e, Places DEF Debt
  <2>3. Unarmed => Unarmed'
    BY <1>e, <1>c DEF Unarmed
  <2> QED BY <1>e, <2>1, <2>2, <2>3 DEF Solo
\* A step that writes nothing and starts nothing.
<1>h. ASSUME NEW p \in Procs, Solo(p), UNCHANGED <<lock, stash, generated, live, loaded>>, Runs(p)', Debt(p) => Debt(p)',
             job[p].pc # "checkpoint", job'[p].pc \notin {"service", "finish"}, \A q \in Procs : q # p => job'[q] = job[q]
      PROVE  Solo(p)'
  <2>1. Recorded' = Recorded /\ ServedWith(Recorded)' = ServedWith(Recorded)
    BY <1>h DEF Recorded, ServedWith
  <2>2. Unarmed => Unarmed'
    BY <1>h, <1>c DEF Unarmed
  <2> QED BY <1>h, <2>1, <2>2 DEF Solo
<1>1. ASSUME ConfigApply \/ Install PROVE ServiceInv'
  <2>1. PICK p \in Procs, to \in {"derive", "preflight"}, force \in BOOLEAN : Begin(p, to, force)
    BY <1>1, <1>c DEF ConfigApply, Install
  <2>2. job[p].pc = "idle" /\ job'[p].pc = to /\ \A q \in Procs : q # p => job'[q] = job[q]
    BY <2>1, BeginFacts
  <2>3. \A q \in Procs : job[q].pc = "idle"
    BY <2>1 DEF Begin
  <2>4. UNCHANGED <<lock, stash, generated, live, loaded>>
    BY <2>1 DEF Begin, files
  <2>5. Has(Recorded, generated)' /\ (ServedWith(Recorded)' \/ Unarmed')
    BY <1>c, <2>2, <2>3, <2>4, IdleFacts DEF Recorded, ServedWith, Unarmed
  <2>6. Runs(p)'
    BY <2>2, Places DEF Runs
  <2>7. Solo(p)'
    BY <2>5, <2>6 DEF Solo
  <2> QED BY <2>2, <2>3, <2>7, ServedFromSolo
<1>2. ASSUME NEW p \in Procs, Preflight \/ SetUp \/ Project, p = "install" PROVE ServiceInv'
  <2>1. job[p].pc \in {"preflight", "setup", "project"} /\ job'[p].pc \in {"setup", "project", "derive"}
        /\ \A q \in Procs : q # p => job'[q] = job[q]
    <3>1. CASE Preflight \/ SetUp
      BY <1>2, <3>1, StepFacts DEF Preflight, SetUp
    <3>2. CASE Project
      <4>1. job'[p] = [job[p] EXCEPT !.pc = "derive", !.owed = catalog # bundle] /\ job[p].pc = "project"
            /\ \A q \in Procs : q # p => job'[q] = job[q]
        BY <1>2, <1>j, <3>2 DEF Project
      <4>2. job'[p].pc = "derive"
        BY <1>j, <4>1, FieldsAfter
      <4> QED BY <4>1, <4>2
    <3> QED BY <1>2, <3>1, <3>2
  <2>2. UNCHANGED <<lock, stash, generated, live, loaded>>
    BY <1>2 DEF Preflight, SetUp, Project, files, Quiet
  <2>3. Runs(p)'
    BY <2>1, Places DEF Runs
  <2>4. job[p].pc \notin Publishing \cup {"service", "idle"} /\ job'[p].pc \notin Guarded
    BY <2>1, Places
  <2> QED BY <1>e, <1>s, <2>1, <2>2, <2>3, <2>4
<1>3. ASSUME NEW p \in Procs, Derive(p) PROVE ServiceInv'
  <2>1. job'[p] = [job[p] EXCEPT !.pc = "read", !.catalog = catalog, !.desired = Derived, !.changes = Changes]
        /\ job[p].pc = "derive" /\ \A q \in Procs : q # p => job'[q] = job[q]
    BY <1>3, StepFacts DEF Derive
  <2>2. job'[p].pc = "read" /\ job'[p].desired = Derived /\ job'[p].changes = Changes
    BY <1>j, <2>1, FieldsAfter
  <2>3. UNCHANGED <<lock, stash, generated, live, loaded>>
    BY <1>3 DEF Derive, files, Quiet
  <2>4. Runs(p)'
    BY <2>2, <2>3, Places DEF Runs, Changes
  <2>5. job[p].pc \notin Publishing \cup {"service", "idle"} /\ job'[p].pc \notin Guarded
    BY <2>1, <2>2, Places
  <2> QED BY <1>e, <1>s, <2>1, <2>2, <2>3, <2>4, <2>5
<1>4. ASSUME NEW p \in Procs, ReadOwned(p) PROVE ServiceInv'
  <2>1. job'[p] = [job[p] EXCEPT !.pc = "guard", !.revision = live] /\ job[p].pc = "read"
        /\ \A q \in Procs : q # p => job'[q] = job[q]
    BY <1>4, StepFacts DEF ReadOwned
  <2>2. job'[p].pc = "guard" /\ job'[p].desired = job[p].desired /\ job'[p].changes = job[p].changes
    BY <1>j, <2>1, FieldsAfter
  <2>3. UNCHANGED <<lock, stash, generated, live, loaded>>
    BY <1>4 DEF ReadOwned, files, Quiet
  <2>4. Runs(p) => Runs(p)'
    BY <2>1, <2>2, <2>3, Places DEF Runs
  <2>5. job[p].pc \notin Publishing \cup {"service", "idle"} /\ job'[p].pc \notin Guarded
    BY <2>1, <2>2, Places
  <2> QED BY <1>e, <1>s, <2>1, <2>2, <2>3, <2>4, <2>5 DEF Solo
<1>5. ASSUME NEW p \in Procs, GuardInSync(p) PROVE ServiceInv'
  <2>1. job[p].pc = "guard" /\ job'[p].pc \in {"idle", "service"} /\ \A q \in Procs : q # p => job'[q] = job[q]
    BY <1>5, <1>i, LeaveFacts DEF GuardInSync
  <2>2. UNCHANGED <<lock, stash, generated, live, loaded>>
    BY <1>5 DEF GuardInSync, files, Quiet
  <2>3. Runs(p)'
    BY <2>1, Places DEF Runs
  <2>4. job[p].pc \notin Publishing \cup {"service", "idle"} /\ job'[p].pc \notin Guarded
    BY <2>1, Places
  <2>5. lock # NoLock
    BY <1>5, Constants DEF GuardInSync, InSync, Adopted
  <2> QED BY <1>e, <1>s, <2>1, <2>2, <2>3, <2>4, <2>5
\* A config apply that has found no change and no conflict has found the live file
\* to be what was recorded and generated last.
<1>6. ASSUME NEW p \in Procs, GuardPasses(p) PROVE ServiceInv'
  <2> DEFINE o == IF p = "apply" THEN job[p].changes \/ Conflict(p) ELSE job[p].owed
  <2>1. job'[p] = [job[p] EXCEPT !.pc = "recheck", !.lock = lock, !.owed = o] /\ job[p].pc = "guard"
        /\ \A q \in Procs : q # p => job'[q] = job[q]
    BY <1>6, StepFacts DEF GuardPasses
  <2>2. job'[p].pc = "recheck" /\ job'[p].lock = lock /\ job'[p].desired = job[p].desired
        /\ job'[p].revision = job[p].revision /\ job'[p].owed = o
    BY <1>j, <2>1, FieldsAfter
  <2>3. UNCHANGED <<lock, stash, generated, live, loaded>>
    BY <1>6 DEF GuardPasses, files, Quiet
  <2> SUFFICES ASSUME Solo(p) PROVE Solo(p)'
    BY <1>s, <2>1
  <2>4. p = "apply" /\ ~job'[p].owed => ~job[p].changes /\ ~Conflict(p)
    BY <2>2
  <2>5. p = "apply" /\ ~job'[p].owed => generated' = job'[p].desired
    BY <2>1, <2>2, <2>3, <2>4 DEF Solo, Runs
  <2>6. p = "apply" /\ ~job'[p].owed => lock'.digests = Unset \/ job'[p].revision.owned = lock'.digests
    BY <2>2, <2>3, <2>4 DEF Conflict, Adopted, Digests
  <2>7. Runs(p)'
    BY <2>2, <2>3, <2>5, <2>6, Places DEF Runs
  <2>8. ~Debt(p)
    BY <2>1, Places DEF Debt
  <2> QED BY <1>h, <2>1, <2>2, <2>3, <2>7, <2>8
<1>7. ASSUME NEW p \in Procs, RecheckCatalog(p) PROVE ServiceInv'
  <2>1. job[p].pc = "recheck" /\ job'[p].pc = "patch" /\ job'[p].desired = job[p].desired /\ job'[p].lock = job[p].lock
        /\ job'[p].revision = job[p].revision /\ job'[p].owed = job[p].owed /\ \A q \in Procs : q # p => job'[q] = job[q]
    BY <1>7, StepFacts DEF RecheckCatalog
  <2>2. UNCHANGED <<lock, stash, generated, live, loaded>>
    BY <1>7 DEF RecheckCatalog, files, Quiet
  <2> SUFFICES ASSUME Solo(p) PROVE Solo(p)'
    BY <1>s, <2>1
  <2>3. Runs(p)'
    BY <2>1, <2>2, Places DEF Solo, Runs
  <2>4. ~Debt(p)
    BY <2>1, Places DEF Debt
  <2> QED BY <1>h, <2>1, <2>2, <2>3, <2>4
\* Either the restart is owed, or the file holds already what it is patched to.
<1>8. ASSUME NEW p \in Procs, Patch(p) PROVE ServiceInv'
  <2>1. job'[p] = [job[p] EXCEPT !.pc = "lint", !.revision = Patched(p)] /\ job[p].pc = "patch"
        /\ \A q \in Procs : q # p => job'[q] = job[q]
    BY <1>8, StepFacts DEF Patch
  <2>2. job'[p].pc = "lint" /\ job'[p].lock = job[p].lock /\ job'[p].desired = job[p].desired /\ job'[p].owed = job[p].owed
        /\ job'[p].revision = Patched(p)
    BY <1>j, <2>1, FieldsAfter
  <2>3. UNCHANGED <<lock, stash, generated, loaded>> /\ live' = Patched(p) /\ live = job[p].revision
        /\ live'.owned = Merge(live.owned, job[p].desired)
    BY <1>8 DEF Patch, Patched, Quiet, TypeOK, Live
  <2> SUFFICES ASSUME Solo(p) PROVE Solo(p)'
    BY <1>s, <2>1
  <2>4. Has(Recorded, generated)'
    BY <2>1, <2>3 DEF Solo, Recorded
  <2>5. Unarmed => Unarmed'
    BY <1>c, <2>1, <2>2, <2>3 DEF Unarmed
  <2>6. CASE p = "install" \/ job[p].owed
    <3>1. Runs(p)'
      BY <2>1, <2>2, <2>3, <2>6, Places DEF Solo, Runs
    <3>2. Debt(p)'
      BY <1>c, <2>2, <2>6, Places DEF Debt
    <3> QED BY <2>4, <3>1, <3>2 DEF Solo
  <2>7. CASE p = "apply" /\ ~job[p].owed /\ lock = NoLock
    <3>1. Runs(p)'
      BY <2>1, <2>2, <2>3, <2>7, Places DEF Solo, Runs
    <3>2. Unarmed'
      <4>1. job["install"].pc = "idle" \/ Unarmed
        BY <1>8, <2>1, <2>7, <1>c, SoloFacts
      <4> QED BY <1>c, <2>1, <2>3, <2>5, <2>7, <4>1 DEF Unarmed
    <3> QED BY <2>4, <3>1, <3>2 DEF Solo
  <2>8. CASE p = "apply" /\ ~job[p].owed /\ lock # NoLock
    <3>1. generated = job[p].desired /\ live.owned = lock.digests
      BY <2>1, <2>3, <2>8, Constants, Places DEF Solo, Runs, ArmedInv
    <3>2. Has(Recorded, generated) /\ ServedWith(Recorded) /\ Recorded = live.owned
      BY <2>1, <2>8, <3>1, Places DEF Solo, Debt, Unarmed, Recorded
    <3>3. live'.owned = live.owned
      BY <2>3, <3>1, <3>2 DEF Has
    <3>4. ServedWith(Recorded)' /\ ServedWith(live.owned)'
      BY <2>3, <3>2, <3>3 DEF ServedWith, Recorded
    <3>5. job'[p].revision.owned = live.owned
      BY <2>2, <2>3, <3>3
    <3>6. Runs(p)'
      BY <2>1, <2>2, <2>3, <3>4, <3>5, Places DEF Solo, Runs, ServedWith
    <3> QED BY <2>4, <3>4, <3>6 DEF Solo
  <2> QED BY <1>c, <2>6, <2>7, <2>8
<1>9. ASSUME NEW p \in Procs, Lint(p) PROVE ServiceInv'
  <2>1. job[p].pc = "lint" /\ job'[p].pc = "restart" /\ job'[p].desired = job[p].desired /\ job'[p].lock = job[p].lock
        /\ job'[p].revision = job[p].revision /\ job'[p].owed = job[p].owed /\ \A q \in Procs : q # p => job'[q] = job[q]
    BY <1>9, StepFacts DEF Lint
  <2>2. UNCHANGED <<lock, stash, generated, live, loaded>>
    BY <1>9 DEF Lint, files, Quiet
  <2> SUFFICES ASSUME Solo(p) PROVE Solo(p)'
    BY <1>s, <2>1
  <2>3. Runs(p)'
    BY <2>1, <2>2, Places DEF Solo, Runs, ServedWith
  <2>4. Debt(p) => Debt(p)'
    BY <2>1, Places DEF Debt
  <2> QED BY <1>h, <2>1, <2>2, <2>3, <2>4
<1>10. ASSUME NEW p \in Procs, Restart(p) PROVE ServiceInv'
  <2>1. job[p].pc = "restart" /\ job'[p].pc = "check" /\ job'[p].desired = job[p].desired /\ job'[p].lock = job[p].lock
        /\ job'[p].revision = job[p].revision /\ job'[p].owed = job[p].owed /\ \A q \in Procs : q # p => job'[q] = job[q]
    BY <1>10, StepFacts DEF Restart
  <2>2. UNCHANGED <<lock, stash, generated, live>>
    BY <1>10 DEF Restart, files
  <2> SUFFICES ASSUME Solo(p) PROVE Solo(p)'
    BY <1>s, <2>1
  <2>3. Recorded' = Recorded
    BY <2>2 DEF Recorded
  <2>4. CASE p = "install" \/ ~job[p].owed
    <3>1. loaded' = loaded
      BY <1>10, <1>c, <2>4 DEF Restart, RestartNeeded, Procs
    <3>2. Runs(p)'
      BY <2>1, <2>2, <2>4, <3>1, Places DEF Solo, Runs, ServedWith
    <3>3. Debt(p) => Debt(p)'
      BY <2>1, <2>4, Places DEF Debt
    <3> QED BY <1>h, <2>1, <2>2, <3>1, <3>2, <3>3
  <2>5. CASE p = "apply" /\ job[p].owed
    <3>1. loaded' = live'.owned
      BY <1>10, <2>2, <2>5 DEF Restart, RestartNeeded
    <3>2. ServedWith(Recorded)'
      BY <3>1 DEF ServedWith
    <3>3. Runs(p)'
      BY <2>1, <2>2, <3>1, Places DEF Solo, Runs, ServedWith
    <3> QED BY <2>1, <2>2, <2>3, <3>2, <3>3 DEF Solo
  <2> QED BY <1>c, <2>4, <2>5
<1>11. ASSUME NEW p \in Procs, WriteApplied(p) \/ WriteGenerated(p) PROVE ServiceInv'
  <2>1. job[p].pc \in {"check", "generated"} /\ job'[p].pc = (IF job[p].pc = "check" THEN "generated" ELSE "checkpoint")
        /\ job'[p].desired = job[p].desired /\ job'[p].lock = job[p].lock /\ job'[p].revision = job[p].revision
        /\ \A q \in Procs : q # p => job'[q] = job[q]
    BY <1>11, StepFacts DEF WriteApplied, WriteGenerated
  <2>2. UNCHANGED <<lock, stash, live, loaded>> /\ generated' = (IF job[p].pc = "check" THEN generated ELSE job[p].desired)
    BY <1>11, <2>1, StepFacts DEF WriteApplied, WriteGenerated, Quiet
  <2> SUFFICES ASSUME Solo(p) PROVE Solo(p)'
    BY <1>s, <2>1
  <2>3. Runs(p)'
    BY <2>1, <2>2, Places DEF Solo, Runs, ServedWith
  <2>4. Has(Recorded, generated)' \/ job'[p].pc = "checkpoint"
    BY <2>1, <2>2 DEF Solo, Recorded
  <2>5. (ServedWith(Recorded) => ServedWith(Recorded)') /\ (Unarmed => Unarmed') /\ (Debt(p) => Debt(p)')
    BY <1>c, <2>1, <2>2, Places DEF ServedWith, Recorded, Unarmed, Debt
  <2> QED BY <2>3, <2>4, <2>5 DEF Solo
\* The checkpoint is of what has been published, and has what has been generated.
<1>12. ASSUME NEW p \in Procs, WriteCheckpoint(p) PROVE ServiceInv'
  <2>1. job[p].pc = "checkpoint" /\ job'[p].pc \in {"idle", "service"} /\ \A q \in Procs : q # p => job'[q] = job[q]
    BY <1>12, <1>i, LeaveFacts DEF WriteCheckpoint
  <2>2. p = "install" => job'[p].pc = "service" /\ job'[p].owed
    BY <1>12, LeaveFacts DEF WriteCheckpoint
  <2>3. UNCHANGED <<generated, live, loaded>>
    BY <1>12 DEF WriteCheckpoint, Quiet
  <2>4. Has(job[p].revision.owned, job[p].desired) /\ job[p].revision.owned # Unset
    BY <2>1, Having, Constants, Places DEF CheckpointInv, ArmedInv
  <2> SUFFICES ASSUME Solo(p) PROVE Solo(p)'
    BY <1>s, <2>1
  <2>5. generated = job[p].desired /\ job[p].lock.digests = lock.digests
    BY <2>1, Places DEF Solo, Runs
  <2>6. Runs(p)'
    BY <2>1, Places DEF Runs
  <2>7. Recorded' = job[p].revision.owned /\ (lock = NoLock => lock' = NoLock)
    <3>1. CASE job[p].lock # NoLock
      <4>1. lock'.digests = job[p].revision.owned /\ lock # NoLock
        BY <1>12, <1>j, <3>1 DEF WriteCheckpoint, Jobs, Locks, Digests, ArmedInv
      <4>2. lock' # NoLock
        BY <2>4, <4>1, Constants
      <4> QED BY <4>1, <4>2 DEF Recorded
    <3>2. CASE job[p].lock = NoLock
      <4>1. lock' = lock /\ stash'.digests = job[p].revision.owned
        BY <1>12, <3>2 DEF WriteCheckpoint, Checkpoint, Digests
      <4>2. lock = NoLock
        BY <2>5, <3>2, Constants DEF ArmedInv
      <4> QED BY <4>1, <4>2 DEF Recorded
    <3> QED BY <3>1, <3>2
  <2>8. Has(Recorded, generated)'
    BY <2>3, <2>4, <2>5, <2>7
  <2>9. CASE p = "install"
    <3>1. Debt(p)'
      BY <2>2, <2>9 DEF Debt
    <3> QED BY <2>6, <2>8, <3>1 DEF Solo
  <2>10. CASE p = "apply" /\ lock = NoLock
    <3>1. Unarmed'
      BY <1>c, <2>1, <2>7, <2>10, SoloFacts DEF Unarmed
    <3> QED BY <2>6, <2>8, <3>1 DEF Solo
  <2>11. CASE p = "apply" /\ lock # NoLock
    <3>1. ServedWith(job[p].revision.owned)
      BY <2>1, <2>11 DEF Solo, Runs
    <3>2. ServedWith(Recorded)'
      BY <2>3, <2>7, <3>1 DEF ServedWith
    <3> QED BY <2>6, <2>8, <3>2 DEF Solo
  <2> QED BY <1>c, <2>9, <2>10, <2>11
<1>13. ASSUME NEW p \in Procs, p = "install", Service PROVE ServiceInv'
  <2>1. job[p].pc = "service" /\ job'[p].pc = "finish" /\ \A q \in Procs : q # p => job'[q] = job[q]
    BY <1>13, StepFacts DEF Service
  <2>2. UNCHANGED <<lock, stash, generated, live>>
        /\ loaded' = IF loaded = Unset \/ job[p].owed THEN live.owned ELSE loaded
    BY <1>13 DEF Service, files
  <2> SUFFICES ASSUME Solo(p) PROVE Solo(p)'
    BY <1>s, <2>1
  <2>3. Runs(p)'
    BY <2>1, Places DEF Runs
  <2>4. Has(Recorded, generated)'
    BY <2>1, <2>2 DEF Solo, Recorded
  <2>5. ServedWith(Recorded)'
    <3>1. CASE loaded = Unset \/ job[p].owed
      BY <2>2, <3>1 DEF ServedWith
    <3>2. CASE ~(loaded = Unset \/ job[p].owed)
      <4>1. ServedWith(Recorded)
        BY <1>13, <2>1, <3>2, Places DEF Solo, Debt, Unarmed
      <4> QED BY <2>2, <3>2, <4>1 DEF ServedWith, Recorded
    <3> QED BY <3>1, <3>2
  <2> QED BY <2>3, <2>4, <2>5 DEF Solo
<1>14. ASSUME NEW p \in Procs, p = "install", Finish PROVE ServiceInv'
  <2>1. job[p].pc = "finish" /\ job'[p] = Idle /\ \A q \in Procs : q # p => job'[q] = job[q]
    BY <1>14, StepFacts DEF Finish
  <2>2. UNCHANGED <<generated, live, loaded>> /\ lock'.digests = Recorded
    BY <1>14 DEF Finish, Quiet, Recorded
  <2>3. lock' # NoLock
    BY <1>14, <2>1, <2>2, Constants DEF ArmedInv
  <2> SUFFICES ASSUME Solo(p) PROVE Solo(p)'
    BY <1>s, <2>1
  <2>4. Runs(p)'
    BY <1>i, <2>1, Places DEF Runs
  <2>5. Recorded' = Recorded
    BY <2>2, <2>3 DEF Recorded
  <2>6. Has(Recorded, generated)'
    BY <2>1, <2>2, <2>5 DEF Solo
  <2>7. ServedWith(Recorded)'
    BY <1>14, <2>1, <2>2, <2>5, Places DEF Solo, Debt, ServedWith, Unarmed
  <2> QED BY <2>4, <2>6, <2>7 DEF Solo
\* A command that breaks off leaves no debt behind, or the cell is disturbed.
<1>15. ASSUME NEW p \in Procs, Fail(p) PROVE ServiceInv'
  <2>1. job[p].pc # "idle" /\ job'[p] = Idle /\ \A q \in Procs : q # p => job'[q] = job[q]
    BY <1>15, <1>j DEF Fail
  <2>2. UNCHANGED <<lock, stash, generated, live, loaded>> /\ ~Owes(p)
    BY <1>15 DEF Fail, files
  <2> SUFFICES ASSUME Solo(p) PROVE Solo(p)'
    BY <1>s, <2>1
  <2>3. ~Debt(p) /\ job[p].pc # "checkpoint"
    BY <1>c, <2>2, Places DEF Debt, Owes
  <2>4. Runs(p)'
    BY <1>i, <2>1, Places DEF Runs
  <2> QED BY <1>h, <1>i, <2>1, <2>2, <2>3, <2>4
<1>16. ASSUME EditFragments \/ Distribute \/ UNCHANGED vars PROVE ServiceInv'
  <2>1. UNCHANGED <<lock, stash, generated, live, loaded, job, disturbed>>
    BY <1>16 DEF EditFragments, Distribute, vars, files
  <2> QED BY <2>1 DEF ServiceInv, Alone, Runs, Recorded, ServedWith, Debt, Unarmed
\* What others write is what was recorded or published only when an edit is taken back.
<1>17. ASSUME EditLive PROVE ServiceInv'
  <2>1. UNCHANGED <<lock, stash, generated, loaded, job>> /\ ~TakenBack(live'.owned)
    BY <1>17 DEF EditLive
  <2>2. \A o \in {lock.digests, stash.digests} \cup {job[p].revision.owned : p \in Procs} : ServedWith(o) => ServedWith(o)'
    BY <2>1 DEF ServedWith, TakenBack
  <2>3. Recorded' = Recorded /\ (ServedWith(Recorded) => ServedWith(Recorded)')
    BY <2>1, <2>2 DEF Recorded, ServedWith
  <2>4. ASSUME NEW p \in Procs, Runs(p) PROVE Runs(p)'
    <3>1. ServedWith(job[p].revision.owned) => ServedWith(job[p].revision.owned)'
      BY <2>1, <2>2 DEF ServedWith
    <3> QED BY <2>1, <2>4, <3>1 DEF Runs
  <2>5. Alone' /\ Unarmed' = Unarmed /\ \A p \in Procs : Debt(p)' = Debt(p)
    BY <2>1 DEF ServiceInv, Alone, Unarmed, Debt
  <2> QED BY <2>1, <2>3, <2>4, <2>5 DEF ServiceInv
<1>18. ASSUME CommitUpdate PROVE ServiceInv'
  <2>1. UNCHANGED <<live, stash, generated, loaded, job, disturbed>> /\ lock # NoLock /\ lock'.digests = lock.digests
    BY <1>18 DEF CommitUpdate, TypeOK, Locks
  <2>2. lock' # NoLock
    BY <2>1, Constants DEF ArmedInv
  <2>3. Recorded' = Recorded /\ ServedWith(Recorded)' = ServedWith(Recorded) /\ ~Unarmed
        /\ \A p \in Procs : Debt(p)' = Debt(p)
    BY <2>1, <2>2 DEF Recorded, ServedWith, Debt, Unarmed
  <2>4. \A p \in Procs : Runs(p) => Runs(p)'
    BY <2>1 DEF Runs, ServedWith
  <2>5. Alone'
    BY <2>1 DEF ServiceInv, Alone
  <2> QED BY <2>1, <2>3, <2>4, <2>5 DEF ServiceInv
<1> QED
  BY <1>c, <1>1, <1>2, <1>3, <1>4, <1>5, <1>6, <1>7, <1>8, <1>9, <1>10, <1>11, <1>12, <1>13, <1>14, <1>15, <1>16, <1>17, <1>18
  DEF Next, Reconcile

LEMMA Armed0 == Init => ArmedInv /\ ServiceInv
<1> SUFFICES ASSUME Init PROVE ArmedInv /\ ServiceInv
  OBVIOUS
<1>1. \A p \in Procs : job[p] = Idle
  BY DEF Init
<1>2. "install" \in Procs
  BY DEF Procs
<1>3. ArmedInv
  BY <1>1, <1>2, IdleJob, Constants, Places DEF Init, ArmedInv
<1>4. Has(Recorded, generated) /\ ServedWith(Recorded)
  BY Constants, Merging DEF Init, Recorded, ServedWith
<1>5. Alone /\ \A p \in Procs : Runs(p)
  BY <1>1, IdleJob, Places DEF Alone, Runs
<1> QED BY <1>3, <1>4, <1>5 DEF ServiceInv

\* When nobody is at work and the checkpoint describes the live file, the service runs
\* it, whatever was edited and whichever commands failed, up to the interruptions that
\* the property names (reconcile; install, step nine).
THEOREM SettledServiceHolds == Spec => []SettledService
<1>1. ArmedInv /\ ServiceInv => SettledService
  <2> SUFFICES ASSUME ArmedInv, ServiceInv, \A p \in Procs : job[p].pc = "idle", lock # NoLock,
                      live.owned = lock.digests, ~disturbed
      PROVE  loaded = live.owned
    BY DEF SettledService
  <2>1. ServedWith(Recorded)
    BY IdleFacts DEF Unarmed
  <2> QED BY <2>1 DEF ArmedInv, Recorded, ServedWith
<1> QED BY <1>1, Init0, Armed0, TypeNext, CheckpointNext, ArmedNext, ServiceNext, PTL DEF Spec
=============================================================================
