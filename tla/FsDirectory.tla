----------------------------- MODULE FsDirectory -----------------------------
(* One file of a directory granted through the filesystem gatekeeper: writes   *)
(* are queued against the file they saw, applied and reverted by a journaled    *)
(* transaction (gkos-gatekeeper-fs/src/apply.ts, directory.ts), while editors   *)
(* on the host change the file between any two system calls and the process     *)
(* may die there.  One transaction runs at a time: it is synchronous.           *)
EXTENDS Naturals

CONSTANTS MaxId,        \* bound: writes queued
          MaxEdits,     \* bound: changes made by editors of the host
          MaxCrashes,   \* bound: deaths of the process
          Publishers    \* what publisher() may offer: "exchange", "rename"

ASSUME FsAssumption == /\ MaxId \in Nat /\ MaxEdits \in Nat /\ MaxCrashes \in Nat
                       /\ Publishers \subseteq {"exchange", "rename"}

Ids == 1..MaxId
Kinds == {"apply", "revert"}
Tx == Kinds \X Ids                    \* a transaction; also the inode it stages
None == <<"none", 0>>                 \* no inode, no content
Inodes == Tx \cup ({"edit"} \X (0..MaxEdits))
Contents == Inodes \cup {None}        \* named after who first wrote them

\* What inspect() reports of a name; Denied is a state that matches nothing.
Absent == [inode |-> None, data |-> None]
Denied == [inode |-> <<"denied", 0>>, data |-> None]
Files == [inode : Inodes, data : Contents] \cup {Absent, Denied}

Publication == {"exchange", "rename", "link"}
Receipts == [file : Files, publish : Publication \cup {"none"}]
NoReceipt == [file |-> Denied, publish |-> "none"]
Effects == [baseline : Files, after : 0..MaxId, revertible : BOOLEAN]
NoEffect == [baseline |-> Denied, after |-> 0, revertible |-> FALSE]
Phases == {"none", "intent", "staged", "publishing", "published", "applied", "uncertain"}
Statuses == {"none", "pending", "applying", "applied", "rejected",
             "reverting", "reverted", "uncertain"}
Labels == {"idle", "inspect", "intent", "open", "staged", "write", "plan", "recheck",
           "publish", "identify", "fallback", "rename", "check", "unlink", "final",
           "published", "receipt", "applied", "confirm"}

VARIABLES
  target,     \* the inode the file's name leads to
  stage,      \* the inode each transaction's stage name leads to
  data,       \* the content of every inode
  effect,     \* effect-<id>.json
  journal,    \* the kit's actions.json
  phase,      \* <kind>-<id>.tx.json
  publish,    \* the way of publication that record names
  preimage,   \* preimage-<kind>-<id>.json
  receipt,    \* <kind>-<id>.receipt.json
  job,        \* the running transaction, its place and its arguments
  publisher,  \* systemPublisher(): probed once per process
  active,     \* the operator's account is not revoked
  bound,      \* the directory is the one introduced, at its path
  edits, crashes,
  owed,       \* history: contents of editors that no editor took away again
  replaced    \* history: what the publishing system call put aside

host == <<target, stage, data>>
durable == <<effect, journal, phase, publish, preimage, receipt>>
history == <<edits, crashes, owed, replaced>>
process == <<job, publisher, active>>
vars == <<host, bound, durable, process, history>>

Idle == [pc |-> "idle", t |-> None, expected |-> Denied, desired |-> None]

At(name) == [inode |-> name, data |-> IF name = None THEN None ELSE data[name]]
Current == At(target)

\* The descriptors opened on the way down still lead to the same directories.
Anchored == bound
Matches(expected) == Current = expected

Init ==
  /\ \E there \in BOOLEAN :
       /\ target = IF there THEN <<"edit", 0>> ELSE None
       /\ owed = IF there THEN {<<"edit", 0>>} ELSE {}
  /\ stage = [t \in Tx |-> None]
  /\ data = [i \in Inodes |-> IF i = <<"edit", 0>> THEN i ELSE None]
  /\ effect = [i \in Ids |-> NoEffect]
  /\ journal = [i \in Ids |-> "none"]
  /\ phase = [t \in Tx |-> "none"]
  /\ publish = [t \in Tx |-> "none"]
  /\ preimage = [t \in Tx |-> Denied]
  /\ receipt = [t \in Tx |-> NoReceipt]
  /\ job = Idle /\ publisher \in Publishers /\ active = TRUE /\ bound = TRUE
  /\ edits = 0 /\ crashes = 0
  /\ replaced = [t \in Tx |-> Denied]

-----------------------------------------------------------------------------
\* The queue: writes seen by the agent's session, decided by the operator.

TxSettled == \A t \in Tx : phase[t] \in {"none", "applied"}

\* Mutant: only the transactions' own records are looked at.
SettledByTransactions == TxSettled

Settled == /\ TxSettled
           /\ \A i \in Ids : journal[i] \in {"none", "pending", "applied", "rejected", "reverted"}

\* The account is live and every ancestor of the directory is what it was.
Live == active /\ Anchored

\* getGatekeeperFor(): a path leads to its directory only as it was introduced.
GatekeeperFor == Live
SessionOpen == GatekeeperFor /\ Settled

Decided == {"applied", "rejected", "reverted"}
\* What the description promises: only an existing file can be reverted to.
Exists == target # None

Pending == {i \in Ids : journal[i] = "pending"}

\* What the file must still be: the simulated baseline, or what the write below left.
Expected(i) ==
  LET a == effect[i].after IN
    IF a = 0 THEN effect[i].baseline
    ELSE CASE journal[a] = "rejected" -> effect[i].baseline
           [] journal[a] = "applied"  -> receipt[<<"apply", a>>].file
           [] journal[a] = "reverted" -> receipt[<<"revert", a>>].file
           [] OTHER -> Denied

\* The file is looked at again, whatever the cache of snapshots holds.
Refreshed == Current

\* A queued write records the disk as it is and the pending write it is on top of.
Simulate(i) ==
  /\ job = Idle /\ SessionOpen /\ journal[i] = "none" /\ \A k \in 1..(i - 1) : journal[k] # "none"
  /\ journal' = [journal EXCEPT ![i] = "pending"]
  /\ effect' = [effect EXCEPT ![i] =
        [baseline |-> Refreshed,
         after |-> IF Pending = {} THEN 0 ELSE CHOOSE a \in Pending : \A b \in Pending : b <= a,
         revertible |-> Exists]]
  /\ UNCHANGED <<host, bound, publisher, active, phase, publish, preimage, receipt, job, history>>

RejectAction(i) ==
  /\ job = Idle /\ Live /\ journal[i] = "pending"
  /\ journal' = [journal EXCEPT ![i] = "rejected"]
  /\ UNCHANGED <<host, bound, publisher, active, effect, phase, publish, preimage, receipt, job, history>>

Begin(t, expected, desired) ==
  /\ job = Idle /\ Live /\ Settled /\ Matches(expected)
  /\ job' = [pc |-> "inspect", t |-> t, expected |-> expected, desired |-> desired]
  /\ UNCHANGED <<host, bound, publisher, active, effect, phase, publish, preimage, receipt, history>>

\* Checked against the disk first, so that a stale write is refused and stays pending.
ApplyAction(i) ==
  /\ journal[i] = "pending"
  /\ \A k \in 1..(i - 1) : journal[k] \in Decided
  /\ journal' = [journal EXCEPT ![i] = "applying"]
  /\ Begin(<<"apply", i>>, Expected(i), <<"apply", i>>)

\* preimage(): what was there, as it was sealed before the write; not an absence.
Intact(i) == preimage[<<"apply", i>>] \notin {Absent, Denied}

Revertible(i) == /\ effect[i].revertible /\ Intact(i)
                 /\ receipt[<<"apply", i>>] # NoReceipt /\ receipt[<<"revert", i>>] = NoReceipt

\* Mutant: the baseline of the simulation is brought back.
RevertToBaseline(i) ==
  /\ journal[i] = "applied" /\ Revertible(i)
  /\ journal' = [journal EXCEPT ![i] = "reverting"]
  /\ Begin(<<"revert", i>>, receipt[<<"apply", i>>].file, effect[i].baseline.data)

RevertAction(i) ==
  /\ journal[i] = "applied" /\ Revertible(i)
  /\ journal' = [journal EXCEPT ![i] = "reverting"]
  /\ Begin(<<"revert", i>>, receipt[<<"apply", i>>].file, preimage[<<"apply", i>>].data)

-----------------------------------------------------------------------------
\* Transactions.run(), one action per system call that others can come between.

Goto(from, to) == /\ job.pc = from /\ job' = [job EXCEPT !.pc = to]
                  /\ UNCHANGED <<bound, publisher, active>>
Persist(p) == phase' = [phase EXCEPT ![job.t] = p]

Inspect ==
  /\ Goto("inspect", "intent") /\ Anchored
  /\ phase[job.t] = "none" /\ receipt[job.t] = NoReceipt /\ Matches(job.expected)
  /\ preimage' = [preimage EXCEPT ![job.t] = Current]
  /\ UNCHANGED <<host, effect, journal, phase, publish, receipt, history>>

Intent ==
  /\ Goto("intent", "open") /\ Persist("intent")
  /\ UNCHANGED <<host, effect, journal, publish, preimage, receipt, history>>

Open ==
  /\ Goto("open", "staged")
  /\ stage' = [stage EXCEPT ![job.t] = job.t]
  /\ UNCHANGED <<target, data, durable, history>>

Staged ==
  /\ Goto("staged", "write") /\ Persist("staged")
  /\ UNCHANGED <<host, effect, journal, publish, preimage, receipt, history>>

Write ==
  /\ Goto("write", "plan")
  /\ data' = [data EXCEPT ![job.t] = job.desired]
  /\ UNCHANGED <<target, stage, durable, history>>

Plan ==
  /\ Goto("plan", "recheck") /\ Persist("publishing")
  /\ publish' = [publish EXCEPT ![job.t] = IF job.expected = Absent THEN "link" ELSE publisher]
  /\ UNCHANGED <<host, effect, journal, preimage, receipt, history>>

\* The last look at the stage and at the target before the publishing call.
Unchanged == /\ Anchored /\ Matches(job.expected)
             /\ At(stage[job.t]) = [inode |-> job.t, data |-> job.desired]

Recheck ==
  /\ Goto("recheck", IF publish[job.t] = "rename" THEN "fallback" ELSE "publish") /\ Unchanged
  /\ UNCHANGED <<host, durable, history>>

\* link(2) fails on a name in use and never replaces.
Link ==
  /\ Goto("publish", "unlink") /\ publish[job.t] = "link" /\ target = None
  /\ target' = job.t
  /\ replaced' = [replaced EXCEPT ![job.t] = Current]
  /\ UNCHANGED <<stage, data, durable, edits, crashes, owed>>

Exchange ==
  /\ Goto("publish", "identify") /\ publish[job.t] = "exchange" /\ target # None
  /\ target' = stage[job.t] /\ stage' = [stage EXCEPT ![job.t] = target]
  /\ replaced' = [replaced EXCEPT ![job.t] = Current]
  /\ UNCHANGED <<data, durable, edits, crashes, owed>>

\* The tool or the file system refused: nothing moved.
ExchangeRefused ==
  /\ Goto("publish", "identify") /\ publish[job.t] = "exchange"
  /\ UNCHANGED <<host, durable, history>>

\* Identities under a name tell whether it went through, not the answer of the call.
Swapped == target = job.t

\* If it did not, a plain rename after one more check.
Identify ==
  /\ \/ Goto("identify", "check") /\ Swapped
     \/ Goto("identify", "fallback") /\ ~Swapped /\ stage[job.t] = job.t /\ Matches(job.expected)
  /\ UNCHANGED <<host, durable, history>>

Fallback ==
  /\ Goto("fallback", "rename") /\ Persist("publishing")
  /\ publish' = [publish EXCEPT ![job.t] = "rename"]
  /\ UNCHANGED <<host, effect, journal, preimage, receipt, history>>

Rename ==
  /\ Goto("rename", "final")
  /\ target' = stage[job.t] /\ stage' = [stage EXCEPT ![job.t] = None]
  /\ replaced' = [replaced EXCEPT ![job.t] = Current]
  /\ UNCHANGED <<data, durable, edits, crashes, owed>>

\* Mutant: the file swapped out is not looked at.
CheckNothing ==
  /\ Goto("check", "unlink")
  /\ UNCHANGED <<host, durable, history>>

\* The file swapped out must be the baseline; otherwise both are kept.
CheckSwappedOut ==
  /\ Goto("check", "unlink") /\ At(stage[job.t]) = job.expected
  /\ UNCHANGED <<host, durable, history>>

Unlink ==
  /\ Goto("unlink", "final")
  /\ publish[job.t] = "link" => target = job.t
  /\ stage' = [stage EXCEPT ![job.t] = None]
  /\ UNCHANGED <<target, data, durable, history>>

Final ==
  /\ Goto("final", "published") /\ Anchored /\ Current = [inode |-> job.t, data |-> job.desired]
  /\ UNCHANGED <<host, durable, history>>

Published ==
  /\ Goto("published", "receipt") /\ Persist("published")
  /\ UNCHANGED <<host, effect, journal, publish, preimage, receipt, history>>

WriteReceipt ==
  /\ Goto("receipt", "applied")
  /\ receipt' = [receipt EXCEPT ![job.t] =
       [file |-> [inode |-> job.t, data |-> job.desired], publish |-> publish[job.t]]]
  /\ UNCHANGED <<host, effect, journal, phase, publish, preimage, history>>

Applied ==
  /\ Goto("applied", "confirm") /\ Persist("applied")
  /\ UNCHANGED <<host, effect, journal, publish, preimage, receipt, history>>

\* Back in the kit, which writes the outcome into its own journal.
Confirm ==
  /\ job.pc = "confirm" /\ job' = Idle /\ UNCHANGED <<bound, publisher, active>>
  /\ journal' = [journal EXCEPT ![job.t[2]] = IF job.t[1] = "apply" THEN "applied" ELSE "reverted"]
  /\ UNCHANGED <<host, effect, phase, publish, preimage, receipt, history>>

\* Mutant: a failed transaction removes its stage file.
FailCleansUp ==
  /\ job.pc \notin {"idle", "confirm"} /\ job' = Idle
  /\ stage' = [stage EXCEPT ![job.t] = None]
  /\ journal' = [journal EXCEPT ![job.t[2]] = "uncertain"]
  /\ phase' = [phase EXCEPT ![job.t] = IF @ = "none" THEN @ ELSE "uncertain"]
  /\ UNCHANGED <<target, data, bound, publisher, active, effect, publish, preimage, receipt, history>>

\* Mutant: the kit writes the kernel's word for it.
FailUnlisted ==
  /\ job.pc \notin {"idle", "confirm"} /\ job' = Idle
  /\ journal' = [journal EXCEPT ![job.t[2]] = "failed"]
  /\ UNCHANGED <<host, bound, publisher, active, effect, phase, publish, preimage, receipt, history>>

\* Any check or system call may fail at any place: once there is a record it is
\* marked uncertain (or keeps its phase when that write fails too).
Fail ==
  /\ job.pc \notin {"idle", "confirm"} /\ job' = Idle
  /\ journal' = [journal EXCEPT ![job.t[2]] = "uncertain"]
  /\ phase' \in {phase, [phase EXCEPT ![job.t] = IF @ = "none" THEN @ ELSE "uncertain"]}
  /\ UNCHANGED <<host, bound, publisher, active, effect, publish, preimage, receipt, history>>

\* Death, and the next process: the durable files and the host stay as they are.
Crash ==
  /\ crashes < MaxCrashes /\ job # Idle
  /\ crashes' = crashes + 1 /\ job' = Idle /\ publisher' \in Publishers /\ active' = TRUE
  /\ UNCHANGED <<host, bound, durable, edits, owed, replaced>>

\* Between two of the process's own turns: the operator's account goes and comes.
Revoke ==
  /\ job = Idle /\ active /\ active' = FALSE
  /\ UNCHANGED <<host, bound, durable, job, publisher, history>>

CreateAccount ==
  /\ job = Idle /\ ~active /\ active' = TRUE
  /\ UNCHANGED <<host, bound, durable, job, publisher, history>>

-----------------------------------------------------------------------------
\* Editors of the host, at any time: save in place, save by replacing the name,
\* create, delete.  They know the file's own name only.

Edit(inode, new) ==
  /\ edits < MaxEdits /\ edits' = edits + 1
  /\ target' = inode
  /\ data' = IF inode = None THEN data ELSE [data EXCEPT ![inode] = new]
  /\ owed' = (owed \ {Current.data}) \cup (IF inode = None THEN {} ELSE {new})
  /\ UNCHANGED <<stage, bound, durable, process, crashes, replaced>>

SaveInPlace == target # None /\ Edit(target, <<"edit", edits + 1>>)
SaveByName == Edit(<<"edit", edits + 1>>, <<"edit", edits + 1>>)
Delete == target # None /\ Edit(None, None)

\* Somebody moves the directory, or one above it, out of its place or back.
MoveDirectory ==
  /\ edits < MaxEdits /\ edits' = edits + 1
  /\ bound' = ~bound
  /\ UNCHANGED <<host, durable, process, crashes, owed, replaced>>

Transact == \/ Inspect \/ Intent \/ Open \/ Staged \/ Write \/ Plan \/ Recheck
            \/ Link \/ Exchange \/ ExchangeRefused \/ Identify \/ Fallback \/ Rename
            \/ CheckSwappedOut \/ Unlink \/ Final \/ Published \/ WriteReceipt
            \/ Applied \/ Confirm \/ Fail

Next == \/ \E i \in Ids : Simulate(i) \/ ApplyAction(i) \/ RejectAction(i) \/ RevertAction(i)
        \/ Transact \/ Crash \/ Revoke \/ CreateAccount
        \/ SaveInPlace \/ SaveByName \/ Delete \/ MoveDirectory

Spec == Init /\ [][Next]_vars

-----------------------------------------------------------------------------
\* Everything the driver writes down stays within its schemas.
TypeOK ==
  /\ target \in Inodes \cup {None}
  /\ stage \in [Tx -> Inodes \cup {None}]
  /\ data \in [Inodes -> Contents]
  /\ effect \in [Ids -> Effects] /\ journal \in [Ids -> Statuses]
  /\ phase \in [Tx -> Phases] /\ publish \in [Tx -> Publication \cup {"none"}]
  /\ preimage \in [Tx -> Files] /\ receipt \in [Tx -> Receipts]
  /\ job \in [pc : Labels, t : Tx \cup {None}, expected : Files, desired : Contents]
  /\ publisher \in Publishers /\ active \in BOOLEAN /\ bound \in BOOLEAN
  /\ edits \in 0..MaxEdits /\ crashes \in 0..MaxCrashes
  /\ owed \subseteq Contents /\ replaced \in [Tx -> Files]

\* A receipt of an exchange or a link says that the very file the write was decided
\* against was replaced, and that its preimage was kept (apply.ts, run): an editor
\* that came between the last check and the system call leaves no receipt behind.
ReceiptMeansCas ==
  \A t \in Tx : receipt[t] # NoReceipt =>
    /\ replaced[t] # Denied /\ preimage[t] # Denied
    /\ receipt[t].publish # "rename" => replaced[t] = preimage[t]

\* What an editor wrote and no editor removed is still under some name or in a
\* preimage, unless a record says that a plain rename published: the documented
\* window is the only way to lose an edit.
Kept(c) == \/ Current.data = c
           \/ \E t \in Tx : At(stage[t]).data = c
           \/ \E t \in Tx : preimage[t].data = c
LostOnlyByRename ==
  \A c \in owed : Kept(c) \/ \E t \in Tx : publish[t] = "rename" /\ replaced[t] # Denied

\* A resource that is open for the next write carries no trace of a half-done one,
\* whatever failed or died before: each transaction left no stage file, and
\* published exactly when it has a receipt and the journal says so.
SettledIsClean ==
  job = Idle /\ Settled =>
    \A t \in Tx :
      /\ stage[t] = None
      /\ (replaced[t] # Denied) <=> (receipt[t] # NoReceipt)
      /\ (receipt[t] # NoReceipt) <=>
           journal[t[2]] \in (IF t[1] = "apply" THEN {"applied", "reverted"} ELSE {"reverted"})

\* A revert that left a receipt without renaming took away what its action had
\* published, and brought back the content which that action had replaced; a later
\* write on top of it is never reverted along with it.
RevertRestores ==
  \A i \in Ids :
    LET a == <<"apply", i>>
        r == <<"revert", i>> IN
      receipt[r] # NoReceipt /\ receipt[r].publish # "rename" /\ receipt[a].publish # "rename" =>
        /\ replaced[r] = receipt[a].file
        /\ receipt[r].file.data = replaced[a].data
=============================================================================
