------------------------- MODULE FsDirectoryProofs --------------------------
(* Type correctness, receipts that mean a compare-and-swap, edits that are never *)
(* lost unnoticed, clean settlements and reverts that restore, for any number    *)
(* of writes, edits on the host and deaths of the process.                       *)
EXTENDS FsDirectory, WellFoundedInduction, TLAPS

\* From the sealed preimage to the receipt.
Sealed == {"intent", "open", "staged", "write", "plan", "recheck", "publish", "identify", "fallback", "rename",
           "check", "unlink", "final", "published", "receipt"}

\* What an exchange put aside lies untouched under the stage name, which no editor knows.
Aside ==
  /\ replaced[job.t] # Denied /\ replaced[job.t] = At(stage[job.t])
  /\ stage[job.t] \in Inodes /\ stage[job.t] # target /\ stage[job.t] # job.t
  /\ \A n \in Nat : n > edits => stage[job.t] # <<"edit", n>>

\* What the running transaction knows at each of its places.
JobInv ==
  /\ job.pc # "idle" => job.t \in Tx
  /\ job.pc \in Sealed => preimage[job.t] = job.expected /\ job.expected # Denied /\ receipt[job.t] = NoReceipt
  /\ job.pc \in Sealed \ {"intent"} => phase[job.t] # "none"
  /\ job.pc \in Sealed \ {"intent", "open", "staged", "write", "plan"} => (publish[job.t] = "link" => job.expected = Absent)
  /\ job.pc \in {"intent", "open", "staged", "write", "plan", "recheck", "publish", "fallback", "rename"} => replaced[job.t] = Denied
  /\ job.pc \in {"publish", "fallback", "rename"} => stage[job.t] = job.t
  /\ job.pc = "rename" => publish[job.t] = "rename"
  /\ job.pc = "identify" => replaced[job.t] = Denied \/ Aside
  /\ job.pc = "check" => Aside
  /\ job.pc \in {"unlink", "final", "published", "receipt"} =>
       replaced[job.t] # Denied /\ (publish[job.t] # "rename" => replaced[job.t] = job.expected)

\* Only a transaction that published put its inode under the file's name, and it has a record.
NameInv ==
  /\ target \in Tx => replaced[target] # Denied
  /\ \A t \in Tx : phase[t] = "none" => replaced[t] = Denied
  /\ \A n \in Nat : n > edits => target # <<"edit", n>>

-----------------------------------------------------------------------------
LEMMA Names ==
  /\ None \notin Inodes /\ <<"denied", 0>> \notin Inodes /\ <<"denied", 0>> # None /\ Tx \subseteq Inodes
  /\ \A n \in 0..MaxEdits : <<"edit", n>> \in Inodes
  /\ \A n : <<"edit", n>> \notin Tx /\ <<"edit", n>> # None
  /\ \A m, n : <<"edit", m>> = <<"edit", n>> => m = n
BY DEF None, Inodes, Tx, Kinds

LEMMA Constants ==
  /\ Absent \in Files /\ Denied \in Files /\ Absent # Denied /\ Denied.inode = <<"denied", 0>>
  /\ NoReceipt \in Receipts /\ NoEffect \in Effects
  /\ None \in Contents /\ Inodes \subseteq Contents
  /\ Idle \in [pc : Labels, t : Tx \cup {None}, expected : Files, desired : Contents] /\ Idle.pc = "idle"
<1>1. Absent \in Files /\ Denied \in Files /\ None \in Contents /\ Inodes \subseteq Contents
  BY DEF Files, Contents
<1>2. Absent # Denied /\ Denied.inode = <<"denied", 0>>
  BY Names DEF Absent, Denied
<1>3. NoReceipt \in Receipts /\ NoEffect \in Effects
  BY <1>1, FsAssumption DEF NoReceipt, Receipts, NoEffect, Effects
<1> QED BY <1>1, <1>2, <1>3 DEF Idle, Labels

\* What a name leads to is a file, or nothing, and never the state that matches nothing.
LEMMA AtFile ==
  ASSUME TypeOK, NEW name \in Inodes \cup {None}
  PROVE  At(name) \in Files /\ At(name) # Denied /\ At(name).inode = name
         /\ (name = None => At(name) = Absent) /\ (name # None => At(name).data = data[name])
<1>1. At(name).inode = name /\ (name # None => At(name).data = data[name])
  BY DEF At
<1>2. CASE name = None
  BY <1>2, Constants DEF At, Absent
<1>3. CASE name # None
  BY <1>1, <1>3, Names, Constants DEF At, Files, TypeOK, Denied
<1> QED BY <1>1, <1>2, <1>3

LEMMA CurrentFile == TypeOK => Current \in Files /\ Current # Denied
BY AtFile DEF Current, TypeOK

\* Among the pending writes there is a last one.
LEMMA LastPending ==
  ASSUME Pending # {}
  PROVE  \E a \in Pending : \A b \in Pending : b <= a
<1> DEFINE T == {n \in Nat : \E i \in Pending : n = MaxId - i}
<1>1. \A i \in Pending : i \in Nat /\ MaxId - i \in T
  BY FsAssumption DEF Pending, Ids
<1>2. T # {} /\ T \subseteq Nat
  BY <1>1
<1> HIDE DEF T
<1>3. PICK m \in T : \A n \in T : ~(<<n, m>> \in OpToRel(<, Nat))
  BY <1>2, NatLessThanWellFounded, WFMin
<1>4. \A n \in T : ~(n < m)
  BY <1>2, <1>3 DEF OpToRel
<1>5. PICK a \in Pending : m = MaxId - a
  BY <1>3 DEF T
<1>6. \A b \in Pending : b <= a
  BY <1>1, <1>4, <1>5, FsAssumption
<1> QED BY <1>6

LEMMA ExpectedFile == ASSUME TypeOK, NEW i \in Ids PROVE Expected(i) \in Files
<1>1. effect[i].baseline \in Files /\ effect[i].after \in 0..MaxId
  BY DEF TypeOK, Effects
<1>2. effect[i].after # 0 => effect[i].after \in Ids
  BY <1>1, FsAssumption DEF Ids
<1>3. \A a \in Ids : receipt[<<"apply", a>>].file \in Files /\ receipt[<<"revert", a>>].file \in Files
  BY DEF TypeOK, Receipts, Tx, Kinds
<1> QED BY <1>1, <1>2, <1>3, Constants DEF Expected

-----------------------------------------------------------------------------
LEMMA Init0 == Init => TypeOK /\ JobInv /\ NameInv /\ ReceiptMeansCas
<1> SUFFICES ASSUME Init PROVE TypeOK /\ JobInv /\ NameInv /\ ReceiptMeansCas
  OBVIOUS
<1>0. 0 \in 0..MaxEdits /\ 0 \in 0..MaxCrashes /\ <<"edit", 0>> \in Inodes
  BY FsAssumption, Names
<1>1. TypeOK
  <2>1. data \in [Inodes -> Contents]
    BY Constants DEF Init
  <2>2. target \in Inodes \cup {None} /\ owed \subseteq Contents
    BY <1>0, Constants DEF Init
  <2>3. publish \in [Tx -> Publication \cup {"none"}] /\ phase \in [Tx -> Phases] /\ journal \in [Ids -> Statuses]
    BY DEF Init, Phases, Statuses
  <2> QED BY <1>0, <2>1, <2>2, <2>3, Constants DEF Init, TypeOK
<1>2. JobInv /\ NameInv
  BY Names, Constants DEF Init, JobInv, NameInv, Sealed
<1>3. ReceiptMeansCas
  BY DEF Init, ReceiptMeansCas
<1> QED BY <1>1, <1>2, <1>3

LEMMA TypeNext == ASSUME TypeOK, JobInv, [Next]_vars PROVE TypeOK'
<1> DEFINE JobSet == [pc : Labels, t : Tx \cup {None}, expected : Files, desired : Contents]
<1>j. job \in JobSet /\ (job.pc # "idle" => job.t \in Tx)
  BY DEF TypeOK, JobInv
<1>g. ASSUME NEW from, NEW to \in Labels, Goto(from, to) PROVE job' \in JobSet
  <2>1. [job EXCEPT !.pc = to] \in JobSet
    BY <1>j
  <2> QED BY <1>g, <2>1 DEF Goto
<1>p. ASSUME NEW p \in Phases, Persist(p) PROVE phase' \in [Tx -> Phases]
  BY <1>p DEF Persist, TypeOK
<1>f. Current \in Files /\ Current # Denied
  BY CurrentFile
<1>1. ASSUME NEW i \in Ids, Simulate(i) PROVE TypeOK'
  <2> DEFINE a == IF Pending = {} THEN 0 ELSE CHOOSE a \in Pending : \A b \in Pending : b <= a
  <2>1. a \in 0..MaxId
    <3>1. Pending # {} => (CHOOSE b \in Pending : \A c \in Pending : c <= b) \in Pending
      BY LastPending
    <3> QED BY <3>1, FsAssumption DEF Pending, Ids
  <2>2. [baseline |-> Refreshed, after |-> a, revertible |-> Exists] \in Effects
    BY <1>f, <2>1 DEF Refreshed, Effects, Exists
  <2>3. effect' \in [Ids -> Effects] /\ journal' \in [Ids -> Statuses]
    BY <1>1, <2>2 DEF Simulate, TypeOK, Statuses
  <2> QED BY <1>1, <2>3 DEF Simulate, TypeOK, host, history
<1>2. ASSUME NEW i \in Ids, RejectAction(i) PROVE TypeOK'
  <2>1. journal' \in [Ids -> Statuses]
    BY <1>2 DEF RejectAction, TypeOK, Statuses
  <2> QED BY <1>2, <2>1 DEF RejectAction, TypeOK, host, history
<1>b. ASSUME NEW t \in Tx, NEW expected \in Files, NEW desired \in Contents, Begin(t, expected, desired),
             journal' \in [Ids -> Statuses]
      PROVE TypeOK'
  <2>1. job' \in JobSet
    BY <1>b DEF Begin, Labels
  <2> QED BY <1>b, <2>1 DEF Begin, TypeOK, host, history
<1>3. ASSUME NEW i \in Ids, ApplyAction(i) PROVE TypeOK'
  <2>1. <<"apply", i>> \in Tx /\ <<"apply", i>> \in Contents
    BY Names, Constants DEF Tx, Kinds
  <2>2. journal' \in [Ids -> Statuses]
    BY <1>3 DEF ApplyAction, TypeOK, Statuses
  <2> QED BY <1>3, <1>b, <2>1, <2>2, ExpectedFile DEF ApplyAction
<1>4. ASSUME NEW i \in Ids, RevertAction(i) PROVE TypeOK'
  <2>1. <<"revert", i>> \in Tx /\ <<"apply", i>> \in Tx
    BY DEF Tx, Kinds
  <2>2. receipt[<<"apply", i>>].file \in Files
    BY <2>1 DEF TypeOK, Receipts
  <2>3. preimage[<<"apply", i>>].data \in Contents
    BY <1>4, <2>1 DEF RevertAction, Revertible, Intact, TypeOK, Files
  <2>4. journal' \in [Ids -> Statuses]
    BY <1>4 DEF RevertAction, TypeOK, Statuses
  <2> QED BY <1>4, <1>b, <2>1, <2>2, <2>3, <2>4 DEF RevertAction
<1>5. ASSUME Inspect PROVE TypeOK'
  <2>1. job' \in JobSet /\ preimage' \in [Tx -> Files]
    BY <1>5, <1>f, <1>g DEF Inspect, TypeOK, Labels
  <2> QED BY <1>5, <2>1 DEF Inspect, Goto, TypeOK, host, history
<1>6. ASSUME Intent \/ Staged \/ Published \/ Applied PROVE TypeOK'
  <2>1. job' \in JobSet /\ phase' \in [Tx -> Phases]
    BY <1>6, <1>g, <1>p DEF Intent, Staged, Published, Applied, Labels, Phases
  <2> QED BY <1>6, <2>1 DEF Intent, Staged, Published, Applied, Goto, TypeOK, host, history
<1>7. ASSUME Open PROVE TypeOK'
  <2>1. job' \in JobSet /\ stage' \in [Tx -> Inodes \cup {None}]
    BY <1>7, <1>g, <1>j, Names DEF Open, TypeOK, Labels
  <2> QED BY <1>7, <2>1 DEF Open, Goto, TypeOK, durable, history
<1>8. ASSUME Write PROVE TypeOK'
  <2>1. job' \in JobSet /\ data' \in [Inodes -> Contents]
    BY <1>8, <1>g, <1>j DEF Write, TypeOK, Labels
  <2> QED BY <1>8, <2>1 DEF Write, Goto, TypeOK, durable, history
<1>9. ASSUME Plan \/ Fallback PROVE TypeOK'
  <2>1. job' \in JobSet /\ phase' \in [Tx -> Phases]
    BY <1>9, <1>g, <1>p DEF Plan, Fallback, Labels, Phases
  <2>2. publish' \in [Tx -> Publication \cup {"none"}]
    BY <1>9, FsAssumption DEF Plan, Fallback, TypeOK, Publication
  <2> QED BY <1>9, <2>1, <2>2 DEF Plan, Fallback, Goto, TypeOK, host, history
<1>10. ASSUME Recheck \/ ExchangeRefused \/ Identify \/ CheckSwappedOut \/ Final PROVE TypeOK'
  <2>1. job' \in JobSet
    BY <1>10, <1>g DEF Recheck, ExchangeRefused, Identify, CheckSwappedOut, Final, Labels
  <2> QED BY <1>10, <2>1 DEF Recheck, ExchangeRefused, Identify, CheckSwappedOut, Final, Goto, TypeOK, host, durable, history
<1>11. ASSUME Link \/ Exchange \/ Rename PROVE TypeOK'
  <2>1. job' \in JobSet /\ job.t \in Tx
    BY <1>11, <1>g, <1>j DEF Link, Exchange, Rename, Goto, Labels
  <2>2. target' \in Inodes \cup {None} /\ stage' \in [Tx -> Inodes \cup {None}]
    BY <1>11, <2>1, Names DEF Link, Exchange, Rename, TypeOK
  <2>3. replaced' \in [Tx -> Files]
    BY <1>11, <1>f DEF Link, Exchange, Rename, TypeOK
  <2> QED BY <1>11, <2>1, <2>2, <2>3 DEF Link, Exchange, Rename, Goto, TypeOK, durable
<1>12. ASSUME Unlink PROVE TypeOK'
  <2>1. job' \in JobSet /\ stage' \in [Tx -> Inodes \cup {None}]
    BY <1>12, <1>g DEF Unlink, TypeOK, Labels
  <2> QED BY <1>12, <2>1 DEF Unlink, Goto, TypeOK, durable, history
<1>13. ASSUME WriteReceipt PROVE TypeOK'
  <2>1. job' \in JobSet /\ job.t \in Tx
    BY <1>13, <1>g, <1>j DEF WriteReceipt, Goto, Labels
  <2>2. [inode |-> job.t, data |-> job.desired] \in Files
    BY <1>j, <2>1, Names DEF Files
  <2>3. [file |-> [inode |-> job.t, data |-> job.desired], publish |-> publish[job.t]] \in Receipts
    BY <2>1, <2>2 DEF Receipts, TypeOK
  <2>4. receipt' \in [Tx -> Receipts]
    BY <1>13, <2>3 DEF WriteReceipt, TypeOK
  <2> QED BY <1>13, <2>1, <2>4 DEF WriteReceipt, Goto, TypeOK, host, history
<1>14. ASSUME Confirm PROVE TypeOK'
  <2>1. job' \in JobSet /\ journal' \in [Ids -> Statuses]
    BY <1>14, Constants DEF Confirm, TypeOK, Statuses
  <2> QED BY <1>14, <2>1 DEF Confirm, TypeOK, host, history
<1>15. ASSUME Fail PROVE TypeOK'
  <2>1. job' \in JobSet /\ journal' \in [Ids -> Statuses]
    BY <1>15, Constants DEF Fail, TypeOK, Statuses
  <2>2. phase' \in [Tx -> Phases]
    BY <1>15 DEF Fail, TypeOK, Phases
  <2> QED BY <1>15, <2>1, <2>2 DEF Fail, TypeOK, host, history
<1>16. ASSUME Crash PROVE TypeOK'
  <2>1. crashes' \in 0..MaxCrashes /\ job' \in JobSet
    BY <1>16, FsAssumption, Constants DEF Crash, TypeOK
  <2> QED BY <1>16, <2>1 DEF Crash, TypeOK, host, durable
<1>17. ASSUME Revoke \/ CreateAccount PROVE TypeOK'
  BY <1>17 DEF Revoke, CreateAccount, TypeOK, host, durable, history
<1>18. ASSUME SaveInPlace \/ SaveByName \/ Delete PROVE TypeOK'
  <2>1. PICK inode \in Inodes \cup {None}, new \in Contents : Edit(inode, new) /\ edits < MaxEdits
    <3>1. edits < MaxEdits => <<"edit", edits + 1>> \in Inodes
      BY Names, FsAssumption DEF TypeOK
    <3> QED BY <1>18, <3>1, Constants DEF SaveInPlace, SaveByName, Delete, Edit, TypeOK
  <2>2. edits' \in 0..MaxEdits
    BY <2>1, FsAssumption DEF Edit, TypeOK
  <2>3. data' \in [Inodes -> Contents] /\ owed' \subseteq Contents
    BY <2>1 DEF Edit, TypeOK
  <2> QED BY <2>1, <2>2, <2>3 DEF Edit, TypeOK, durable, process
<1>19. ASSUME MoveDirectory PROVE TypeOK'
  <2>1. edits' \in 0..MaxEdits /\ bound' \in BOOLEAN
    BY <1>19, FsAssumption DEF MoveDirectory, TypeOK
  <2> QED BY <1>19, <2>1 DEF MoveDirectory, TypeOK, host, durable, process
<1>20. ASSUME UNCHANGED vars PROVE TypeOK'
  BY <1>20 DEF vars, host, durable, process, history, TypeOK
<1> QED
  BY <1>1, <1>2, <1>3, <1>4, <1>5, <1>6, <1>7, <1>8, <1>9, <1>10, <1>11, <1>12, <1>13, <1>14, <1>15, <1>16, <1>17,
     <1>18, <1>19, <1>20 DEF Next, Transact

-----------------------------------------------------------------------------
\* A job that is over, or only to be confirmed, knows nothing more.
LEMMA IdleJob == job'.pc = "idle" => JobInv'
BY DEF JobInv, Sealed, Aside

LEMMA GotoJob ==
  ASSUME TypeOK, NEW from, NEW to, Goto(from, to)
  PROVE  /\ job.pc = from /\ job'.pc = to
         /\ job'.t = job.t /\ job'.expected = job.expected /\ job'.desired = job.desired
BY DEF Goto, TypeOK

LEMMA InvNext ==
  ASSUME TypeOK, JobInv, NameInv, ReceiptMeansCas, [Next]_vars
  PROVE  JobInv' /\ NameInv' /\ ReceiptMeansCas'
<1>f. Current \in Files /\ Current # Denied
  BY CurrentFile
\* Only the journal, the account or a new transaction: nothing on the host, nothing in a record.
<1>k. ASSUME UNCHANGED <<target, edits, replaced, phase, preimage, receipt>> PROVE NameInv' /\ ReceiptMeansCas'
  BY <1>k DEF NameInv, ReceiptMeansCas
<1>1. ASSUME NEW i \in Ids, Simulate(i) \/ RejectAction(i) PROVE JobInv' /\ NameInv' /\ ReceiptMeansCas'
  <2>1. job.pc = "idle" /\ job' = job
    BY <1>1, Constants DEF Simulate, RejectAction
  <2> QED BY <1>1, <1>k, <2>1, IdleJob DEF Simulate, RejectAction, host, history
<1>2. ASSUME NEW i \in Ids, ApplyAction(i) \/ RevertAction(i) PROVE JobInv' /\ NameInv' /\ ReceiptMeansCas'
  <2>1. <<"apply", i>> \in Tx /\ <<"revert", i>> \in Tx
    BY DEF Tx, Kinds
  <2>2. job'.pc = "inspect" /\ job'.t \in Tx
    BY <1>2, <2>1 DEF ApplyAction, RevertAction, Begin
  <2>3. JobInv'
    BY <2>2 DEF JobInv, Sealed, Aside
  <2> QED BY <1>2, <1>k, <2>3 DEF ApplyAction, RevertAction, Begin, host, history
<1>3. ASSUME Inspect PROVE JobInv' /\ NameInv' /\ ReceiptMeansCas'
  <2>1. job.t \in Tx /\ job'.pc = "intent" /\ job'.t = job.t /\ job'.expected = job.expected
    BY <1>3, GotoJob DEF Inspect, JobInv, Goto
  <2>2. preimage'[job.t] = Current /\ job.expected = Current /\ receipt[job.t] = NoReceipt /\ replaced[job.t] = Denied
    BY <1>3, <2>1 DEF Inspect, TypeOK, Matches, NameInv
  <2>3. JobInv'
    BY <1>3, <1>f, <2>1, <2>2 DEF Inspect, JobInv, Sealed, Aside, history
  <2>4. \A t \in Tx : t # job.t => preimage'[t] = preimage[t]
    BY <1>3 DEF Inspect, TypeOK
  <2> QED BY <1>3, <2>2, <2>3, <2>4 DEF Inspect, NameInv, ReceiptMeansCas, host, history
<1>4. ASSUME Intent \/ Staged \/ Plan \/ Fallback PROVE JobInv' /\ NameInv' /\ ReceiptMeansCas'
  <2>1. job.t \in Tx /\ job'.t = job.t /\ job'.expected = job.expected
    BY <1>4, GotoJob DEF Intent, Staged, Plan, Fallback, JobInv, Goto
  <2>2. phase'[job.t] # "none" /\ \A t \in Tx : t # job.t => phase'[t] = phase[t]
    BY <1>4, <2>1 DEF Intent, Staged, Plan, Fallback, Persist, TypeOK
  <2>3. NameInv' /\ ReceiptMeansCas'
    BY <1>4, <2>2 DEF Intent, Staged, Plan, Fallback, NameInv, ReceiptMeansCas, host, history
  <2>4. CASE Intent \/ Staged
    BY <2>1, <2>2, <2>3, <2>4, GotoJob DEF Intent, Staged, JobInv, Sealed, Aside, host, history
  <2>5. CASE Plan
    <3>1. publish'[job.t] = "link" => job.expected = Absent
      BY <2>1, <2>5, FsAssumption DEF Plan, TypeOK
    <3> QED BY <2>1, <2>2, <2>3, <2>5, <3>1, GotoJob DEF Plan, JobInv, Sealed, Aside, host, history
  <2>6. CASE Fallback
    <3>1. publish'[job.t] = "rename"
      BY <2>1, <2>6 DEF Fallback, TypeOK
    <3> QED BY <2>1, <2>2, <2>3, <2>6, <3>1, GotoJob DEF Fallback, JobInv, Sealed, Aside, host, history
  <2> QED BY <1>4, <2>4, <2>5, <2>6, <2>3
<1>5. ASSUME Open \/ Write PROVE JobInv' /\ NameInv' /\ ReceiptMeansCas'
  <2>1. JobInv'
    BY <1>5, GotoJob DEF Open, Write, JobInv, Sealed, Aside, durable, history
  <2> QED BY <1>5, <1>k, <2>1 DEF Open, Write, durable, history
<1>6. ASSUME Recheck PROVE JobInv' /\ NameInv' /\ ReceiptMeansCas'
  <2>1. job.t \in Tx /\ stage[job.t] = job.t
    BY <1>6 DEF Recheck, Goto, JobInv, Unchanged, At
  <2>2. JobInv'
    BY <1>6, <2>1, GotoJob DEF Recheck, JobInv, Sealed, Aside, host, durable, history
  <2> QED BY <1>6, <1>k, <2>2 DEF Recheck, host, durable, history
<1>7. ASSUME Link \/ Exchange \/ Rename PROVE JobInv' /\ NameInv' /\ ReceiptMeansCas'
  <2>1. job.t \in Tx /\ job'.t = job.t /\ job'.expected = job.expected /\ replaced[job.t] = Denied
        /\ stage[job.t] = job.t /\ preimage[job.t] = job.expected /\ job.expected # Denied
        /\ receipt[job.t] = NoReceipt /\ phase[job.t] # "none"
    BY <1>7, GotoJob DEF Link, Exchange, Rename, Goto, JobInv, Sealed
  <2>2. target # job.t
    BY <2>1 DEF NameInv
  <2>3. replaced'[job.t] = Current /\ \A t \in Tx : t # job.t => replaced'[t] = replaced[t]
    BY <1>7, <2>1 DEF Link, Exchange, Rename, TypeOK
  <2>4. target' = job.t
    BY <1>7, <2>1 DEF Link, Exchange, Rename
  <2>5. NameInv'
    BY <1>7, <1>f, <2>1, <2>3, <2>4, Names DEF Link, Exchange, Rename, NameInv, durable
  <2>6. ReceiptMeansCas'
    BY <1>7, <2>1, <2>3 DEF Link, Exchange, Rename, ReceiptMeansCas, durable
  <2>7. CASE Link
    <3>1. Current = job.expected
      BY <2>1, <2>7, AtFile DEF Link, Goto, JobInv, Sealed, Current
    <3> QED BY <1>f, <2>1, <2>3, <2>5, <2>6, <2>7, <3>1, GotoJob DEF Link, JobInv, Sealed, Aside, durable
  <2>8. CASE Rename
    <3>1. publish[job.t] = "rename"
      BY <2>8 DEF Rename, Goto, JobInv
    <3> QED BY <1>f, <2>1, <2>3, <2>5, <2>6, <2>8, <3>1, GotoJob DEF Rename, JobInv, Sealed, Aside, durable
  <2>9. CASE Exchange
    <3>1. stage'[job.t] = target /\ target # None /\ target \in Inodes /\ data' = data /\ edits' = edits
      BY <2>1, <2>9 DEF Exchange, TypeOK
    <3>2. Aside'
      BY <1>f, <2>1, <2>2, <2>3, <2>4, <3>1 DEF Aside, NameInv, Current, At
    <3> QED BY <2>1, <2>5, <2>6, <2>9, <3>2, GotoJob DEF Exchange, JobInv, Sealed, durable
  <2> QED BY <1>7, <2>7, <2>8, <2>9
<1>8. ASSUME ExchangeRefused PROVE JobInv' /\ NameInv' /\ ReceiptMeansCas'
  <2>1. JobInv'
    BY <1>8, GotoJob DEF ExchangeRefused, JobInv, Sealed, host, durable, history
  <2> QED BY <1>8, <1>k, <2>1 DEF ExchangeRefused, host, durable, history
<1>9. ASSUME Identify PROVE JobInv' /\ NameInv' /\ ReceiptMeansCas'
  <2>1. job.t \in Tx /\ job'.t = job.t /\ job'.expected = job.expected
    BY <1>9, GotoJob DEF Identify, Goto, JobInv
  <2>2. NameInv' /\ ReceiptMeansCas'
    BY <1>9, <1>k DEF Identify, host, durable, history
  <2>3. CASE Goto("identify", "check") /\ Swapped
    <3>1. Aside
      BY <2>1, <2>3, GotoJob DEF Swapped, NameInv, JobInv
    <3>2. Aside'
      BY <1>9, <2>1, <3>1 DEF Identify, host, durable, history, Aside, At
    <3> QED BY <1>9, <2>1, <2>2, <2>3, <3>2, GotoJob DEF Identify, JobInv, Sealed, host, durable, history
  <2>4. CASE Goto("identify", "fallback") /\ ~Swapped /\ stage[job.t] = job.t
    <3>1. replaced[job.t] = Denied
      BY <2>4, GotoJob DEF JobInv, Aside
    <3> QED BY <1>9, <2>1, <2>2, <2>4, <3>1, GotoJob DEF Identify, JobInv, Sealed, host, durable, history
  <2> QED BY <1>9, <2>3, <2>4 DEF Identify
<1>10. ASSUME CheckSwappedOut PROVE JobInv' /\ NameInv' /\ ReceiptMeansCas'
  <2>1. replaced[job.t] # Denied /\ replaced[job.t] = job.expected
    BY <1>10 DEF CheckSwappedOut, Goto, JobInv, Aside
  <2>2. JobInv'
    BY <1>10, <2>1, GotoJob DEF CheckSwappedOut, JobInv, Sealed, host, durable, history
  <2> QED BY <1>10, <1>k, <2>2 DEF CheckSwappedOut, host, durable, history
<1>11. ASSUME Unlink \/ Final PROVE JobInv' /\ NameInv' /\ ReceiptMeansCas'
  <2>1. JobInv'
    BY <1>11, GotoJob DEF Unlink, Final, JobInv, Sealed, host, durable, history
  <2> QED BY <1>11, <1>k, <2>1 DEF Unlink, Final, host, durable, history
<1>12. ASSUME Published \/ Applied PROVE JobInv' /\ NameInv' /\ ReceiptMeansCas'
  <2>1. job.t \in Tx /\ job'.t = job.t /\ job'.expected = job.expected
    BY <1>12, GotoJob DEF Published, Applied, JobInv, Goto
  <2>2. phase'[job.t] # "none" /\ \A t \in Tx : t # job.t => phase'[t] = phase[t]
    BY <1>12, <2>1 DEF Published, Applied, Persist, TypeOK
  <2>3. NameInv' /\ ReceiptMeansCas'
    BY <1>12, <2>2 DEF Published, Applied, NameInv, ReceiptMeansCas, host, history
  <2> QED BY <1>12, <2>1, <2>2, <2>3, GotoJob DEF Published, Applied, JobInv, Sealed, host, history
<1>13. ASSUME WriteReceipt PROVE JobInv' /\ NameInv' /\ ReceiptMeansCas'
  <2>1. job.t \in Tx /\ job'.t = job.t /\ job'.pc = "applied"
        /\ preimage[job.t] # Denied /\ replaced[job.t] # Denied
        /\ (publish[job.t] # "rename" => replaced[job.t] = preimage[job.t])
    BY <1>13, GotoJob DEF WriteReceipt, Goto, JobInv, Sealed
  <2>2. receipt'[job.t].publish = publish[job.t] /\ \A t \in Tx : t # job.t => receipt'[t] = receipt[t]
    BY <1>13, <2>1 DEF WriteReceipt, TypeOK
  <2>3. JobInv'
    BY <2>1 DEF JobInv, Sealed
  <2> QED BY <1>13, <2>1, <2>2, <2>3 DEF WriteReceipt, NameInv, ReceiptMeansCas, host, history
<1>14. ASSUME Confirm PROVE JobInv' /\ NameInv' /\ ReceiptMeansCas'
  BY <1>14, <1>k, IdleJob, Constants DEF Confirm, host, history
<1>15. ASSUME Fail PROVE JobInv' /\ NameInv' /\ ReceiptMeansCas'
  <2>1. \A t \in Tx : phase'[t] = "none" => phase[t] = "none"
    BY <1>15 DEF Fail, TypeOK
  <2> QED BY <1>15, <2>1, IdleJob, Constants DEF Fail, NameInv, ReceiptMeansCas, host, history
<1>16. ASSUME Crash \/ Revoke \/ CreateAccount PROVE JobInv' /\ NameInv' /\ ReceiptMeansCas'
  <2>1. job'.pc = "idle"
    BY <1>16, Constants DEF Crash, Revoke, CreateAccount
  <2> QED BY <1>16, <1>k, <2>1, IdleJob DEF Crash, Revoke, CreateAccount, host, durable, history
<1>17. ASSUME SaveInPlace \/ SaveByName \/ Delete PROVE JobInv' /\ NameInv' /\ ReceiptMeansCas'
  <2>1. PICK inode \in {target, <<"edit", edits + 1>>, None}, new \in {<<"edit", edits + 1>>, None} : Edit(inode, new)
    BY <1>17 DEF SaveInPlace, SaveByName, Delete
  <2>2. edits \in Nat /\ edits' = edits + 1 /\ target' = inode
    BY <2>1, FsAssumption DEF Edit, TypeOK
  <2>3. NameInv'
    BY <2>1, <2>2, Names DEF Edit, NameInv, durable
  <2>4. ReceiptMeansCas'
    BY <2>1 DEF Edit, ReceiptMeansCas, durable
  <2>5. Aside => Aside'
    <3> SUFFICES ASSUME Aside PROVE Aside'
      OBVIOUS
    <3>1. stage[job.t] # inode /\ stage[job.t] # None
      BY <2>1, <2>2, Names DEF Aside
    <3>2. data'[stage[job.t]] = data[stage[job.t]] /\ stage' = stage /\ replaced' = replaced /\ job' = job
      BY <2>1, <3>1 DEF Edit, TypeOK, Aside, process
    <3> QED BY <2>2, <3>1, <3>2 DEF Aside, At
  <2> QED BY <2>1, <2>3, <2>4, <2>5 DEF Edit, JobInv, durable, process
<1>18. ASSUME MoveDirectory PROVE JobInv' /\ NameInv' /\ ReceiptMeansCas'
  <2>1. edits \in Nat /\ edits' = edits + 1
    BY <1>18, FsAssumption DEF MoveDirectory, TypeOK
  <2>2. Aside => Aside'
    BY <1>18, <2>1 DEF MoveDirectory, Aside, At, host, process
  <2> QED BY <1>18, <2>1, <2>2 DEF MoveDirectory, JobInv, NameInv, ReceiptMeansCas, host, durable, process
<1>19. ASSUME UNCHANGED vars PROVE JobInv' /\ NameInv' /\ ReceiptMeansCas'
  BY <1>19 DEF vars, host, durable, process, history, JobInv, Aside, At, NameInv, ReceiptMeansCas
<1> QED
  BY <1>1, <1>2, <1>3, <1>4, <1>5, <1>6, <1>7, <1>8, <1>9, <1>10, <1>11, <1>12, <1>13, <1>14, <1>15, <1>16, <1>17,
     <1>18, <1>19 DEF Next, Transact

-----------------------------------------------------------------------------
\* Nothing an editor owes is overwritten: stages and their inodes are empty until
\* they are written, and a preimage is sealed once.

Lossy == \E t \in Tx : publish[t] = "rename" /\ replaced[t] # Denied

StageInv ==
  /\ \A t \in Tx : phase[t] = "none" => stage[t] = None /\ data[t] = None
  /\ job.pc \in {"intent", "open"} => stage[job.t] = None
  /\ job.pc \in {"intent", "open", "staged", "write"} => data[job.t] = None
  /\ job.pc \in {"identify", "check"} => publish[job.t] = "exchange"
  /\ job.pc = "unlink" => \/ publish[job.t] = "link" /\ stage[job.t] = job.t
                          \/ publish[job.t] = "exchange" /\ Aside

PreimageInv ==
  /\ \A i \in Ids : preimage[<<"apply", i>>] # Denied => journal[i] \in {"applying", "applied", "reverting", "reverted", "uncertain"}
  /\ \A i \in Ids : preimage[<<"revert", i>>] # Denied => journal[i] \in {"reverting", "reverted", "uncertain"}
  /\ job.pc # "idle" => journal[job.t[2]] = IF job.t[1] = "apply" THEN "applying" ELSE "reverting"
  /\ job.pc = "inspect" => preimage[job.t] = Denied
  /\ None \notin owed

LEMMA TxParts ==
  ASSUME NEW t \in Tx
  PROVE  /\ t[2] \in Ids /\ t[1] \in Kinds /\ t = <<t[1], t[2]>>
         /\ (t[1] = "apply" \/ t[1] = "revert")
BY DEF Tx, Kinds

LEMMA PreimageNext ==
  ASSUME TypeOK, JobInv, PreimageInv, [Next]_vars
  PROVE  PreimageInv'
<1>1. ASSUME NEW i \in Ids, Simulate(i) \/ RejectAction(i) PROVE PreimageInv'
  <2>1. journal[i] \in {"none", "pending"} /\ \A k \in Ids : k # i => journal'[k] = journal[k]
    BY <1>1 DEF Simulate, RejectAction, TypeOK
  <2>2. job.pc = "idle" /\ job' = job /\ preimage' = preimage /\ owed' = owed
    BY <1>1, Constants DEF Simulate, RejectAction, history
  <2> QED BY <2>1, <2>2 DEF PreimageInv
<1>2. ASSUME NEW i \in Ids, ApplyAction(i) \/ RevertAction(i) PROVE PreimageInv'
  <2>1. preimage' = preimage /\ owed' = owed /\ \A k \in Ids : k # i => journal'[k] = journal[k]
    BY <1>2 DEF ApplyAction, RevertAction, Begin, TypeOK, history
  <2>2. CASE ApplyAction(i)
    <3>1. job'.pc = "inspect" /\ job'.t = <<"apply", i>> /\ journal[i] = "pending" /\ journal'[i] = "applying"
      BY <2>2 DEF ApplyAction, Begin, TypeOK
    <3> QED BY <2>1, <3>1 DEF PreimageInv
  <2>3. CASE RevertAction(i)
    <3>1. job'.pc = "inspect" /\ job'.t = <<"revert", i>> /\ journal[i] = "applied" /\ journal'[i] = "reverting"
      BY <2>3 DEF RevertAction, Begin, TypeOK
    <3> QED BY <2>1, <3>1 DEF PreimageInv
  <2> QED BY <1>2, <2>2, <2>3
<1>3. ASSUME Inspect PROVE PreimageInv'
  <2>1. job.t \in Tx /\ job.pc = "inspect" /\ job'.pc = "intent" /\ job'.t = job.t /\ journal' = journal /\ owed' = owed
    BY <1>3, GotoJob DEF Inspect, JobInv, Goto, history
  <2>2. \A t \in Tx : t # job.t => preimage'[t] = preimage[t]
    BY <1>3 DEF Inspect, TypeOK
  <2>3. \A i \in Ids : <<"apply", i>> \in Tx /\ <<"revert", i>> \in Tx
    BY DEF Tx, Kinds
  <2>4. CASE job.t[1] = "apply"
    <3>1. job.t = <<"apply", job.t[2]>> /\ journal[job.t[2]] = "applying"
      BY <2>1, <2>4, TxParts DEF PreimageInv
    <3>2. \A i \in Ids : <<"revert", i>> # job.t /\ (<<"apply", i>> = job.t => i = job.t[2])
      BY <3>1
    <3> QED BY <2>1, <2>2, <2>3, <3>1, <3>2 DEF PreimageInv
  <2>5. CASE job.t[1] = "revert"
    <3>1. job.t = <<"revert", job.t[2]>> /\ journal[job.t[2]] = "reverting"
      BY <2>1, <2>5, TxParts DEF PreimageInv
    <3>2. \A i \in Ids : <<"apply", i>> # job.t /\ (<<"revert", i>> = job.t => i = job.t[2])
      BY <3>1
    <3> QED BY <2>1, <2>2, <2>3, <3>1, <3>2 DEF PreimageInv
  <2> QED BY <2>1, <2>4, <2>5, TxParts
<1>4. ASSUME NEW from, NEW to, Goto(from, to), from # "idle", to # "inspect",
             journal' = journal, preimage' = preimage, owed' = owed
      PROVE  PreimageInv'
  BY <1>4, GotoJob DEF PreimageInv
<1>5. ASSUME \/ Intent \/ Open \/ Staged \/ Write \/ Plan \/ Recheck \/ Link \/ Exchange \/ ExchangeRefused
             \/ Identify \/ Fallback \/ Rename \/ CheckSwappedOut \/ Unlink \/ Final \/ Published \/ WriteReceipt \/ Applied
      PROVE  PreimageInv'
  <2>1. journal' = journal /\ preimage' = preimage /\ owed' = owed
    BY <1>5 DEF Intent, Open, Staged, Write, Plan, Recheck, Link, Exchange, ExchangeRefused, Identify, Fallback,
                Rename, CheckSwappedOut, Unlink, Final, Published, WriteReceipt, Applied, durable, history
  <2>2. \E from, to : Goto(from, to) /\ from # "idle" /\ to # "inspect"
    BY <1>5 DEF Intent, Open, Staged, Write, Plan, Recheck, Link, Exchange, ExchangeRefused, Identify, Fallback,
                Rename, CheckSwappedOut, Unlink, Final, Published, WriteReceipt, Applied
  <2> QED BY <1>4, <2>1, <2>2
<1>6. ASSUME Confirm \/ Fail PROVE PreimageInv'
  <2>1. job.t \in Tx /\ job.pc # "idle" /\ job'.pc = "idle" /\ preimage' = preimage /\ owed' = owed
    BY <1>6, Constants DEF Confirm, Fail, JobInv, history
  <2>2. \A k \in Ids : k # job.t[2] => journal'[k] = journal[k]
    BY <1>6 DEF Confirm, Fail, TypeOK
  <2>3. job.t[2] \in Ids /\ journal'[job.t[2]] \in {"uncertain", IF job.t[1] = "apply" THEN "applied" ELSE "reverted"}
    BY <1>6, <2>1, TxParts DEF Confirm, Fail, TypeOK
  <2> QED BY <2>1, <2>2, <2>3 DEF PreimageInv
<1>7. ASSUME Crash \/ Revoke \/ CreateAccount PROVE PreimageInv'
  <2>1. job'.pc = "idle"
    BY <1>7, Constants DEF Crash, Revoke, CreateAccount
  <2> QED BY <1>7, <2>1 DEF Crash, Revoke, CreateAccount, PreimageInv, durable, history
<1>8. ASSUME SaveInPlace \/ SaveByName \/ Delete PROVE PreimageInv'
  <2>1. None \notin owed'
    BY <1>8, Names DEF SaveInPlace, SaveByName, Delete, Edit, PreimageInv
  <2> QED BY <1>8, <2>1 DEF SaveInPlace, SaveByName, Delete, Edit, PreimageInv, durable, process
<1>9. ASSUME MoveDirectory \/ UNCHANGED vars PROVE PreimageInv'
  BY <1>9 DEF MoveDirectory, vars, PreimageInv, durable, process, history
<1> QED
  BY <1>1, <1>2, <1>3, <1>5, <1>6, <1>7, <1>8, <1>9 DEF Next, Transact

LEMMA StageNext ==
  ASSUME TypeOK, JobInv, NameInv, StageInv, [Next]_vars
  PROVE  StageInv'
<1>i. ASSUME job'.pc = "idle", stage' = stage, data' = data, \A t \in Tx : phase'[t] = "none" => phase[t] = "none" PROVE StageInv'
  BY <1>i DEF StageInv, Aside
<1>1. ASSUME NEW i \in Ids, Simulate(i) \/ RejectAction(i) PROVE StageInv'
  BY <1>1, <1>i, Constants DEF Simulate, RejectAction, host
<1>2. ASSUME NEW i \in Ids, ApplyAction(i) \/ RevertAction(i) PROVE StageInv'
  BY <1>2 DEF ApplyAction, RevertAction, Begin, StageInv, Aside, host
<1>3. ASSUME Inspect PROVE StageInv'
  BY <1>3, GotoJob DEF Inspect, JobInv, StageInv, Aside, host
\* A step of the transaction that writes its record.
<1>4. ASSUME Intent \/ Staged \/ Plan \/ Fallback \/ Published \/ Applied PROVE StageInv'
  <2>1. job.t \in Tx /\ job'.t = job.t /\ phase'[job.t] # "none" /\ \A t \in Tx : t # job.t => phase'[t] = phase[t]
    BY <1>4, GotoJob DEF Intent, Staged, Plan, Fallback, Published, Applied, Persist, JobInv, Goto, TypeOK
  <2> QED BY <1>4, <2>1, GotoJob DEF Intent, Staged, Plan, Fallback, Published, Applied, StageInv, host
<1>5. ASSUME Open \/ Write PROVE StageInv'
  <2>1. job.t \in Tx /\ job'.t = job.t /\ phase[job.t] # "none" /\ phase' = phase
    BY <1>5, GotoJob DEF Open, Write, JobInv, Sealed, Goto, durable
  <2>2. CASE Open
    <3>1. data' = data /\ \A t \in Tx : t # job.t => stage'[t] = stage[t]
      BY <2>2 DEF Open, TypeOK
    <3> QED BY <2>1, <2>2, <3>1, GotoJob DEF Open, StageInv
  <2>3. CASE Write
    <3>1. stage' = stage /\ \A t \in Tx : t # job.t => data'[t] = data[t]
      BY <2>3 DEF Write, TypeOK
    <3> QED BY <2>1, <2>3, <3>1, GotoJob DEF Write, StageInv
  <2> QED BY <1>5, <2>2, <2>3
<1>6. ASSUME Recheck \/ ExchangeRefused \/ Final \/ WriteReceipt PROVE StageInv'
  BY <1>6, GotoJob DEF Recheck, ExchangeRefused, Final, WriteReceipt, StageInv, host, durable
<1>7. ASSUME Link \/ Exchange \/ Rename \/ Unlink PROVE StageInv'
  <2>1. job.t \in Tx /\ job'.t = job.t /\ data' = data /\ phase' = phase /\ publish' = publish
        /\ phase[job.t] # "none" /\ (Link => stage[job.t] = job.t)
    BY <1>7, GotoJob DEF Link, Exchange, Rename, Unlink, Goto, JobInv, Sealed, durable
  <2>2. \A t \in Tx : t # job.t => stage'[t] = stage[t]
    BY <1>7 DEF Link, Exchange, Rename, Unlink, TypeOK
  <2>3. CASE Link
    BY <2>1, <2>3, GotoJob DEF Link, StageInv
  <2>4. CASE Exchange \/ Rename \/ Unlink
    BY <2>1, <2>2, <2>4, GotoJob DEF Exchange, Rename, Unlink, StageInv
  <2> QED BY <1>7, <2>3, <2>4
<1>8. ASSUME Identify PROVE StageInv'
  BY <1>8, GotoJob DEF Identify, StageInv, host, durable
<1>9. ASSUME CheckSwappedOut PROVE StageInv'
  <2>1. job'.t = job.t /\ job'.pc = "unlink" /\ publish[job.t] = "exchange" /\ Aside
    BY <1>9, GotoJob DEF CheckSwappedOut, JobInv, StageInv, Goto
  <2>2. Aside'
    BY <1>9, <2>1 DEF CheckSwappedOut, Aside, At, host, durable, history
  <2> QED BY <1>9, <2>1, <2>2 DEF CheckSwappedOut, StageInv, host, durable
<1>10. ASSUME Confirm PROVE StageInv'
  BY <1>10, <1>i, Constants DEF Confirm, host
<1>11. ASSUME Fail PROVE StageInv'
  <2>1. \A t \in Tx : phase'[t] = "none" => phase[t] = "none"
    BY <1>11 DEF Fail, TypeOK
  <2> QED BY <1>11, <1>i, <2>1, Constants DEF Fail, host
<1>12. ASSUME Crash \/ Revoke \/ CreateAccount PROVE StageInv'
  <2>1. job'.pc = "idle"
    BY <1>12, Constants DEF Crash, Revoke, CreateAccount
  <2> QED BY <1>12, <1>i, <2>1 DEF Crash, Revoke, CreateAccount, host, durable
<1>13. ASSUME SaveInPlace \/ SaveByName \/ Delete PROVE StageInv'
  <2>1. PICK inode \in {target, <<"edit", edits + 1>>, None}, new \in {<<"edit", edits + 1>>, None} : Edit(inode, new)
    BY <1>13 DEF SaveInPlace, SaveByName, Delete
  <2>2. edits \in Nat /\ edits' = edits + 1 /\ target' = inode
    BY <2>1, FsAssumption DEF Edit, TypeOK
  <2>3. \A t \in Tx : phase[t] = "none" \/ (t = job.t /\ job.pc \in {"intent", "open", "staged", "write"}) => t # inode
    BY <2>1, Names DEF NameInv, JobInv
  <2>4. \A j \in Inodes : j # inode => data'[j] = data[j]
    BY <2>1 DEF Edit, TypeOK
  <2>5. Aside => Aside'
    <3> SUFFICES ASSUME Aside PROVE Aside'
      OBVIOUS
    <3>1. stage[job.t] # inode /\ stage[job.t] # None /\ stage[job.t] \in Inodes
      BY <2>1, <2>2, Names DEF Aside
    <3>2. data'[stage[job.t]] = data[stage[job.t]] /\ stage' = stage /\ replaced' = replaced /\ job' = job
      BY <2>1, <2>4, <3>1 DEF Edit, process
    <3> QED BY <2>2, <3>1, <3>2 DEF Aside, At
  <2>6. job' = job /\ stage' = stage /\ phase' = phase /\ publish' = publish
    BY <2>1 DEF Edit, durable, process
  <2>7. \A t \in Tx : t \in Inodes
    BY Names
  <2> QED BY <2>3, <2>4, <2>5, <2>6, <2>7 DEF StageInv, JobInv
<1>14. ASSUME MoveDirectory PROVE StageInv'
  <2>1. edits \in Nat /\ edits' = edits + 1
    BY <1>14, FsAssumption DEF MoveDirectory, TypeOK
  <2>2. Aside => Aside'
    BY <1>14, <2>1 DEF MoveDirectory, Aside, At, host, process
  <2> QED BY <1>14, <2>2 DEF MoveDirectory, StageInv, host, durable, process
<1>15. ASSUME UNCHANGED vars PROVE StageInv'
  BY <1>15 DEF vars, host, durable, process, history, StageInv, Aside, At
<1> QED
  BY <1>1, <1>2, <1>3, <1>4, <1>5, <1>6, <1>7, <1>8, <1>9, <1>10, <1>11, <1>12, <1>13, <1>14, <1>15 DEF Next, Transact

\* No stage name leads to a file that an editor has still to create.
FreshInv == \A t \in Tx, n \in Nat : n > edits => stage[t] # <<"edit", n>>

LEMMA FreshNext ==
  ASSUME TypeOK, JobInv, NameInv, FreshInv, [Next]_vars
  PROVE  FreshInv'
<1>1. edits \in Nat /\ (edits' = edits \/ edits' = edits + 1)
  <2>1. edits \in Nat
    BY FsAssumption DEF TypeOK
  <2>2. edits' = edits \/ edits' = edits + 1
    BY DEF Next, Transact, Simulate, ApplyAction, RejectAction, RevertAction, Begin, Inspect, Intent, Open,
            Staged, Write, Plan, Recheck, Link, Exchange, ExchangeRefused, Identify, Fallback, Rename, CheckSwappedOut,
            Unlink, Final, Published, WriteReceipt, Applied, Confirm, Fail, Crash, Revoke, CreateAccount, SaveInPlace,
            SaveByName, Delete, MoveDirectory, Edit, vars, history
  <2> QED BY <2>1, <2>2
<1>2. stage' = stage \/ \E t \in Tx : \E s \in {t, None, target} : stage' = [stage EXCEPT ![t] = s]
  <2>1. CASE stage' = stage
    BY <2>1
  <2>2. CASE Open \/ Exchange \/ Rename \/ Unlink
    <3>1. job.t \in Tx
      BY <2>2 DEF JobInv, Open, Exchange, Rename, Unlink, Goto
    <3>2. \E s \in {job.t, None, target} : stage' = [stage EXCEPT ![job.t] = s]
      BY <2>2 DEF Open, Exchange, Rename, Unlink
    <3> QED BY <3>1, <3>2
  <2>3. stage' = stage \/ Open \/ Exchange \/ Rename \/ Unlink
    BY DEF Next, Transact, Simulate, ApplyAction, RejectAction, RevertAction, Begin, Inspect, Intent,
           Staged, Write, Plan, Recheck, Link, ExchangeRefused, Identify, Fallback, CheckSwappedOut,
           Final, Published, WriteReceipt, Applied, Confirm, Fail, Crash, Revoke, CreateAccount, SaveInPlace,
           SaveByName, Delete, MoveDirectory, Edit, vars, host
  <2> QED BY <2>1, <2>2, <2>3
<1>3. \A t \in Tx : stage'[t] \in {stage[t], t, None, target}
  BY <1>2 DEF TypeOK
<1>4. SUFFICES ASSUME NEW t \in Tx, NEW n \in Nat, n > edits' PROVE stage'[t] # <<"edit", n>>
  BY DEF FreshInv
<1>5. n > edits
  BY <1>1, <1>4
<1> QED BY <1>3, <1>4, <1>5, Names DEF FreshInv, NameInv

LEMMA KeptNext ==
  ASSUME TypeOK, JobInv, NameInv, StageInv, PreimageInv, FreshInv, LostOnlyByRename, [Next]_vars
  PROVE  LostOnlyByRename'
\* Once a plain rename has published, nothing is promised.
<1>l. ASSUME Lossy PROVE Lossy'
  <2>1. PICK t \in Tx : publish[t] = "rename" /\ replaced[t] # Denied
    BY <1>l DEF Lossy
  <2>2. publish'[t] = "rename"
    <3>1. Plan => job.t # t
      BY <2>1 DEF Plan, Goto, JobInv
    <3> QED BY <2>1, <3>1 DEF Next, Transact, Simulate, ApplyAction, RejectAction, RevertAction, Begin, Inspect, Intent, Open,
              Staged, Write, Plan, Recheck, Link, Exchange, ExchangeRefused, Identify, Fallback, Rename, CheckSwappedOut,
              Unlink, Final, Published, WriteReceipt, Applied, Confirm, Fail, Crash, Revoke, CreateAccount, SaveInPlace,
              SaveByName, Delete, MoveDirectory, Edit, vars, durable, TypeOK
  <2>3. replaced' = replaced \/ replaced' = [replaced EXCEPT ![job.t] = Current]
    BY DEF Next, Transact, Simulate, ApplyAction, RejectAction, RevertAction, Begin, Inspect, Intent, Open,
              Staged, Write, Plan, Recheck, Link, Exchange, ExchangeRefused, Identify, Fallback, Rename, CheckSwappedOut,
              Unlink, Final, Published, WriteReceipt, Applied, Confirm, Fail, Crash, Revoke, CreateAccount, SaveInPlace,
              SaveByName, Delete, MoveDirectory, Edit, vars, history
  <2>4. replaced'[t] # Denied
    BY <2>1, <2>3, CurrentFile DEF TypeOK
  <2> QED BY <2>2, <2>4 DEF Lossy
<1>a. ASSUME Lossy' PROVE LostOnlyByRename'
  BY <1>a DEF Lossy, LostOnlyByRename
<1> SUFFICES ASSUME ~Lossy, ~Lossy', NEW c \in owed' PROVE Kept(c)'
  BY <1>l, <1>a DEF LostOnlyByRename
<1>o. c # None /\ (c \in owed => Kept(c))
  BY PreimageNext DEF PreimageInv, LostOnlyByRename, Lossy
\* Names and preimages as they were.
<1>k. ASSUME host' = host, preimage' = preimage, owed' = owed PROVE Kept(c)'
  BY <1>k, <1>o DEF Kept, Current, At, host
\* The step left its place on the host alone.
<1>1. ASSUME NEW i \in Ids, Simulate(i) \/ ApplyAction(i) \/ RejectAction(i) \/ RevertAction(i) PROVE Kept(c)'
  BY <1>1, <1>k DEF Simulate, ApplyAction, RejectAction, RevertAction, Begin, history
<1>2. ASSUME \/ Intent \/ Staged \/ Plan \/ Recheck \/ ExchangeRefused \/ Identify \/ Fallback \/ CheckSwappedOut
             \/ Final \/ Published \/ WriteReceipt \/ Applied \/ Confirm \/ Fail \/ Crash \/ Revoke \/ CreateAccount
             \/ MoveDirectory \/ UNCHANGED vars
      PROVE  Kept(c)'
  BY <1>2, <1>k DEF Intent, Staged, Plan, Recheck, ExchangeRefused, Identify, Fallback, CheckSwappedOut, Final, Published,
                    WriteReceipt, Applied, Confirm, Fail, Crash, Revoke, CreateAccount, MoveDirectory, vars, durable, history
\* The preimage is sealed for the first time.
<1>3. ASSUME Inspect PROVE Kept(c)'
  <2>1. job.t \in Tx /\ preimage[job.t] = Denied /\ host' = host /\ owed' = owed
    BY <1>3 DEF Inspect, Goto, JobInv, PreimageInv, history
  <2>2. \A t \in Tx : t # job.t => preimage'[t] = preimage[t]
    BY <1>3 DEF Inspect, TypeOK
  <2>3. Denied.data = None
    BY DEF Denied
  <2> QED BY <1>o, <2>1, <2>2, <2>3 DEF Kept, Current, At, host
\* The stage and its inode were empty.
<1>4. ASSUME Open PROVE Kept(c)'
  <2>1. job.t \in Tx /\ stage[job.t] = None /\ target' = target /\ data' = data /\ preimage' = preimage /\ owed' = owed
    BY <1>4 DEF Open, Goto, JobInv, StageInv, durable, history
  <2>2. \A t \in Tx : t # job.t => stage'[t] = stage[t]
    BY <1>4 DEF Open, TypeOK
  <2> QED BY <1>o, <2>1, <2>2 DEF Kept, Current, At
<1>5. ASSUME Write PROVE Kept(c)'
  <2>1. job.t \in Tx /\ data[job.t] = None /\ target' = target /\ stage' = stage /\ preimage' = preimage /\ owed' = owed
    BY <1>5 DEF Write, Goto, JobInv, StageInv, durable, history
  <2>2. \A j \in Inodes : j # job.t => data'[j] = data[j]
    BY <1>5 DEF Write, TypeOK
  <2>3. \A name \in Inodes \cup {None} : At(name).data = c => At(name)'.data = c
    BY <1>o, <2>1, <2>2 DEF At
  <2>4. target \in Inodes \cup {None} /\ \A t \in Tx : stage[t] \in Inodes \cup {None}
    BY DEF TypeOK
  <2> QED BY <1>o, <2>1, <2>3, <2>4 DEF Kept, Current, At
\* The two names change places, or the new one joins an empty one.
<1>6. ASSUME Link PROVE Kept(c)'
  <2>1. target = None /\ stage' = stage /\ data' = data /\ preimage' = preimage /\ owed' = owed
    BY <1>6 DEF Link, durable
  <2> QED BY <1>o, <2>1 DEF Kept, Current, At
<1>7. ASSUME Exchange PROVE Kept(c)'
  <2>1. job.t \in Tx /\ target' = stage[job.t] /\ stage'[job.t] = target /\ data' = data /\ preimage' = preimage /\ owed' = owed
    BY <1>7 DEF Exchange, Goto, JobInv, durable, TypeOK
  <2>2. \A t \in Tx : t # job.t => stage'[t] = stage[t]
    BY <1>7 DEF Exchange, TypeOK
  <2> QED BY <1>o, <2>1, <2>2 DEF Kept, Current, At
<1>8. ASSUME Rename PROVE Kept(c)'
  <2>1. job.t \in Tx /\ publish[job.t] = "rename" /\ publish' = publish
    BY <1>8 DEF Rename, Goto, JobInv, durable
  <2>2. replaced'[job.t] # Denied
    BY <1>8, <2>1, CurrentFile DEF Rename, TypeOK
  <2> QED BY <2>1, <2>2 DEF Lossy
\* What the stage name still holds is under the file's name, or in the preimage.
<1>9. ASSUME Unlink PROVE Kept(c)'
  <2>1. job.t \in Tx /\ target' = target /\ data' = data /\ preimage' = preimage /\ owed' = owed
    BY <1>9 DEF Unlink, Goto, JobInv, durable, history
  <2>2. \A t \in Tx : t # job.t => stage'[t] = stage[t]
    BY <1>9 DEF Unlink, TypeOK
  <2>3. At(stage[job.t]).data = c => Current.data = c \/ preimage[job.t].data = c
    <3>1. CASE publish[job.t] = "link" /\ stage[job.t] = job.t
      BY <1>9, <3>1 DEF Unlink, Current
    <3>2. CASE publish[job.t] = "exchange" /\ Aside
      BY <1>9, <3>2 DEF Unlink, Goto, JobInv, Sealed, Aside
    <3> QED BY <1>9, <3>1, <3>2 DEF Unlink, Goto, StageInv
  <2> QED BY <1>o, <2>1, <2>2, <2>3 DEF Kept, Current, At
\* An editor takes away what the name led to, wherever else that inode is named.
<1>10. ASSUME NEW inode \in {target, <<"edit", edits + 1>>, None}, NEW new, Edit(inode, new),
              inode # None => inode \in Inodes
       PROVE  Kept(c)'
  <2>1. target' = inode /\ stage' = stage /\ preimage' = preimage
        /\ owed' = (owed \ {Current.data}) \cup (IF inode = None THEN {} ELSE {new})
    BY <1>10 DEF Edit, durable
  <2>2. \A j \in Inodes : j # inode => data'[j] = data[j]
    BY <1>10 DEF Edit, TypeOK
  <2>3. CASE inode # None /\ c = new
    <3>1. data'[inode] = new
      BY <1>10, <2>3 DEF Edit, TypeOK
    <3> QED BY <2>1, <2>3, <3>1 DEF Kept, Current, At
  <2>4. CASE c \in owed /\ c # Current.data
    <3>1. ASSUME NEW t \in Tx, At(stage[t]).data = c PROVE At(stage[t])'.data = c
      <4>1. stage[t] \in Inodes
        BY <1>o, <3>1 DEF At, TypeOK
      <4>2. stage[t] # None /\ data[stage[t]] = c
        BY <3>1, <4>1, Names DEF At
      <4>3. CASE stage[t] # inode
        BY <2>1, <2>2, <4>1, <4>2, <4>3 DEF At
      <4>4. CASE stage[t] = inode
        <5>1. inode # <<"edit", edits + 1>>
          BY <4>4, FsAssumption DEF FreshInv, TypeOK
        <5>2. inode = target
          BY <1>10, <4>2, <4>4, <5>1
        <5> QED BY <2>4, <4>2, <4>4, <5>2 DEF Current, At
      <4> QED BY <4>3, <4>4
    <3> QED BY <1>o, <2>1, <2>4, <3>1 DEF Kept, Current
  <2> QED BY <2>1, <2>3, <2>4
<1>11. ASSUME SaveInPlace \/ SaveByName \/ Delete PROVE Kept(c)'
  <2>1. edits < MaxEdits => <<"edit", edits + 1>> \in Inodes
    BY Names, FsAssumption DEF TypeOK
  <2> QED BY <1>10, <1>11, <2>1 DEF SaveInPlace, SaveByName, Delete, Edit, TypeOK
<1> QED
  BY <1>1, <1>2, <1>3, <1>4, <1>5, <1>6, <1>7, <1>8, <1>9, <1>11 DEF Next, Transact

-----------------------------------------------------------------------------
\* What is left behind by a transaction that is over.

\* From the intent to the record that says the write is done.
Working == Sealed \cup {"applied"}

\* No receipt before a record; once the record says so, all of it is done.
RecordInv ==
  \A t \in Tx :
    /\ phase[t] = "none" => receipt[t] = NoReceipt
    /\ phase[t] = "applied" => stage[t] = None /\ replaced[t] # Denied /\ receipt[t] # NoReceipt

\* What the places of a transaction add to its record.
PlaceInv ==
  /\ job.pc = "inspect" => phase[job.t] = "none"
  /\ job.pc \in Working => phase[job.t] # "applied"
  /\ job.pc \in {"final", "published", "receipt", "applied"} => stage[job.t] = None
  /\ job.pc = "applied" => replaced[job.t] # Denied /\ receipt[job.t] # NoReceipt
  /\ job.pc = "confirm" => phase[job.t] = "applied"

\* The kit's journal and the records of the transactions tell one story.
JournalInv ==
  \A i \in Ids :
    /\ journal[i] \in {"none", "pending", "rejected"} => phase[<<"apply", i>>] = "none"
    /\ journal[i] \in {"none", "pending", "rejected", "applying", "applied"} => phase[<<"revert", i>>] = "none"
    /\ journal[i] \in {"applied", "reverting", "reverted"} => phase[<<"apply", i>>] = "applied"
    /\ journal[i] = "reverted" => phase[<<"revert", i>>] = "applied"

CleanInv == RecordInv /\ PlaceInv /\ JournalInv

LEMMA BothTx == \A i \in Ids : <<"apply", i>> \in Tx /\ <<"revert", i>> \in Tx
BY DEF Tx, Kinds

\* The phase of the running transaction only, and never of one that is over, changes.
LEMMA PhaseMove ==
  ASSUME TypeOK, JobInv, PreimageInv, JournalInv, job.t \in Tx, job.pc # "idle", journal' = journal,
         \A t \in Tx : t # job.t => phase'[t] = phase[t],
         phase[job.t] # "applied"
  PROVE  JournalInv'
<1>1. job.t[2] \in Ids /\ job.t = <<job.t[1], job.t[2]>> /\ (job.t[1] = "apply" \/ job.t[1] = "revert")
      /\ journal[job.t[2]] = IF job.t[1] = "apply" THEN "applying" ELSE "reverting"
  BY TxParts DEF PreimageInv
<1>2. SUFFICES ASSUME NEW i \in Ids
      PROVE  /\ journal[i] \in {"none", "pending", "rejected"} => phase'[<<"apply", i>>] = "none"
             /\ journal[i] \in {"none", "pending", "rejected", "applying", "applied"} => phase'[<<"revert", i>>] = "none"
             /\ journal[i] \in {"applied", "reverting", "reverted"} => phase'[<<"apply", i>>] = "applied"
             /\ journal[i] = "reverted" => phase'[<<"revert", i>>] = "applied"
  BY DEF JournalInv
<1>3. CASE i # job.t[2]
  <2>1. <<"apply", i>> # job.t /\ <<"revert", i>> # job.t
    BY <1>1, <1>3
  <2>2. phase'[<<"apply", i>>] = phase[<<"apply", i>>] /\ phase'[<<"revert", i>>] = phase[<<"revert", i>>]
    BY <2>1, BothTx
  <2> QED BY <2>2 DEF JournalInv
<1>4. CASE i = job.t[2] /\ job.t[1] = "apply"
  <2>1. <<"revert", i>> # job.t /\ journal[i] = "applying"
    BY <1>1, <1>4
  <2> QED BY <2>1, BothTx DEF JournalInv
<1>5. CASE i = job.t[2] /\ job.t[1] = "revert"
  <2>1. <<"apply", i>> # job.t /\ journal[i] = "reverting"
    BY <1>1, <1>5
  <2> QED BY <2>1, BothTx DEF JournalInv
<1> QED BY <1>1, <1>3, <1>4, <1>5

LEMMA CleanNext ==
  ASSUME TypeOK, JobInv, NameInv, PreimageInv, CleanInv, [Next]_vars
  PROVE  CleanInv'
<1>t. \A t \in Tx : phase[t] \in Phases /\ (phase[t] = "none" => replaced[t] = Denied)
  BY DEF TypeOK, NameInv
\* The records stand still.
<1>r. ASSUME UNCHANGED <<phase, receipt, stage, replaced>> PROVE RecordInv'
  BY <1>r DEF CleanInv, RecordInv
<1>j. ASSUME UNCHANGED <<phase, journal>> PROVE JournalInv'
  BY <1>j DEF CleanInv, JournalInv
<1>1. ASSUME NEW i \in Ids, Simulate(i) \/ RejectAction(i) PROVE CleanInv'
  <2>1. job'.pc = "idle" /\ UNCHANGED <<phase, receipt, stage, replaced>>
        /\ journal[i] \in {"none", "pending"} /\ journal'[i] \in {"pending", "rejected"}
        /\ \A k \in Ids : k # i => journal'[k] = journal[k]
    BY <1>1, Constants DEF Simulate, RejectAction, host, history, TypeOK
  <2>2. PlaceInv'
    BY <2>1 DEF PlaceInv, Working, Sealed
  <2>3. JournalInv'
    BY <2>1 DEF CleanInv, JournalInv
  <2> QED BY <2>1, <2>2, <2>3, <1>r DEF CleanInv
<1>2. ASSUME NEW i \in Ids, ApplyAction(i) PROVE CleanInv'
  <2>1. job'.pc = "inspect" /\ job'.t = <<"apply", i>> /\ UNCHANGED <<phase, receipt, stage, replaced>>
        /\ journal[i] = "pending" /\ journal'[i] = "applying"
        /\ \A k \in Ids : k # i => journal'[k] = journal[k]
    BY <1>2 DEF ApplyAction, Begin, host, history, TypeOK
  <2>2. PlaceInv'
    BY <2>1 DEF CleanInv, JournalInv, PlaceInv, Working, Sealed
  <2>3. JournalInv'
    BY <2>1 DEF CleanInv, JournalInv
  <2> QED BY <2>1, <2>2, <2>3, <1>r DEF CleanInv
<1>3. ASSUME NEW i \in Ids, RevertAction(i) PROVE CleanInv'
  <2>1. job'.pc = "inspect" /\ job'.t = <<"revert", i>> /\ UNCHANGED <<phase, receipt, stage, replaced>>
        /\ journal[i] = "applied" /\ journal'[i] = "reverting"
        /\ \A k \in Ids : k # i => journal'[k] = journal[k]
    BY <1>3 DEF RevertAction, Begin, host, history, TypeOK
  <2>2. PlaceInv'
    BY <2>1 DEF CleanInv, JournalInv, PlaceInv, Working, Sealed
  <2>3. JournalInv'
    BY <2>1 DEF CleanInv, JournalInv
  <2> QED BY <2>1, <2>2, <2>3, <1>r DEF CleanInv
\* A step that writes the record of the transaction.
<1>4. ASSUME Intent \/ Staged \/ Plan \/ Fallback \/ Published PROVE CleanInv'
  <2>1. job.t \in Tx /\ job'.t = job.t /\ job.pc \in Sealed /\ job'.pc \in Working
        /\ job'.pc \notin {"final", "published", "applied"} /\ (job'.pc = "receipt" => job.pc = "published")
        /\ UNCHANGED <<receipt, stage, replaced, journal>>
    BY <1>4, GotoJob DEF Intent, Staged, Plan, Fallback, Published, JobInv, Goto, Sealed, Working, host, history
  <2>2. phase'[job.t] \notin {"none", "applied"} /\ \A t \in Tx : t # job.t => phase'[t] = phase[t]
    BY <1>4, <2>1 DEF Intent, Staged, Plan, Fallback, Published, Persist, TypeOK
  <2>3. phase[job.t] # "applied" /\ job.pc # "idle"
    BY <2>1 DEF CleanInv, PlaceInv, Working, Sealed
  <2>4. RecordInv'
    BY <2>1, <2>2 DEF CleanInv, RecordInv
  <2>5. PlaceInv'
    BY <2>1, <2>2 DEF CleanInv, PlaceInv, Working, Sealed
  <2>6. JournalInv'
    BY <2>1, <2>2, <2>3, PhaseMove DEF CleanInv
  <2> QED BY <2>4, <2>5, <2>6 DEF CleanInv
<1>5. ASSUME Applied PROVE CleanInv'
  <2>1. job.t \in Tx /\ job'.t = job.t /\ job.pc = "applied" /\ job'.pc = "confirm"
        /\ UNCHANGED <<receipt, stage, replaced, journal>>
    BY <1>5, GotoJob DEF Applied, JobInv, Goto, host, history
  <2>2. phase'[job.t] = "applied" /\ \A t \in Tx : t # job.t => phase'[t] = phase[t]
    BY <1>5, <2>1 DEF Applied, Persist, TypeOK
  <2>3. phase[job.t] # "applied" /\ stage[job.t] = None /\ replaced[job.t] # Denied /\ receipt[job.t] # NoReceipt
    BY <2>1 DEF CleanInv, PlaceInv, Working
  <2>4. RecordInv'
    BY <2>1, <2>2, <2>3 DEF CleanInv, RecordInv
  <2>5. PlaceInv'
    BY <2>1, <2>2 DEF PlaceInv, Working, Sealed
  <2>6. JournalInv'
    BY <2>1, <2>2, <2>3, PhaseMove DEF CleanInv
  <2> QED BY <2>4, <2>5, <2>6 DEF CleanInv
\* A step on the host: the stage's name, or the publication.
<1>6. ASSUME Open \/ Link \/ Exchange \/ Rename \/ Unlink PROVE CleanInv'
  <2>1. job.t \in Tx /\ job'.t = job.t /\ job.pc \in Sealed \ {"intent"} /\ job'.pc \in Working
        /\ job'.pc \notin {"published", "receipt", "applied"} /\ (job'.pc = "final" => Rename \/ Unlink)
        /\ UNCHANGED <<phase, receipt, journal>>
    BY <1>6, GotoJob DEF Open, Link, Exchange, Rename, Unlink, JobInv, Goto, Sealed, Working, durable
  <2>2. \A t \in Tx : t # job.t => stage'[t] = stage[t] /\ replaced'[t] = replaced[t]
    BY <1>6 DEF Open, Link, Exchange, Rename, Unlink, TypeOK, history
  <2>3. phase[job.t] \notin {"none", "applied"}
    BY <2>1 DEF CleanInv, PlaceInv, JobInv, Working
  <2>4. RecordInv'
    BY <2>1, <2>2, <2>3 DEF CleanInv, RecordInv
  <2>5. Rename \/ Unlink => stage'[job.t] = None
    BY <2>1 DEF Rename, Unlink, TypeOK
  <2>6. PlaceInv'
    BY <2>1, <2>3, <2>5 DEF PlaceInv, Working, Sealed
  <2> QED BY <2>1, <2>4, <2>6, <1>j DEF CleanInv
\* A step that writes nothing but what RecordInv does not speak of.
<1>7. ASSUME Inspect \/ Write \/ Recheck \/ ExchangeRefused \/ Identify \/ CheckSwappedOut \/ Final PROVE CleanInv'
  <2>1. job'.t = job.t /\ job'.pc \in Working /\ (job.pc = "inspect" \/ job.pc \in Working)
        /\ job'.pc \notin {"final", "receipt", "applied"} /\ (job'.pc = "published" => job.pc = "final")
        /\ UNCHANGED <<phase, receipt, stage, replaced, journal>>
    BY <1>7, GotoJob DEF Inspect, Write, Recheck, ExchangeRefused, Identify, CheckSwappedOut, Final, Goto, Sealed,
                         Working, host, durable, history
  <2>2. PlaceInv'
    BY <2>1 DEF CleanInv, PlaceInv, Working, Sealed
  <2> QED BY <2>1, <2>2, <1>r, <1>j DEF CleanInv
<1>8. ASSUME WriteReceipt PROVE CleanInv'
  <2>1. job.t \in Tx /\ job'.t = job.t /\ job.pc = "receipt" /\ job'.pc = "applied"
        /\ UNCHANGED <<phase, stage, replaced, journal>>
    BY <1>8, GotoJob DEF WriteReceipt, JobInv, Goto, host, history
  <2>2. receipt'[job.t].file.inode = job.t /\ \A t \in Tx : t # job.t => receipt'[t] = receipt[t]
    BY <1>8, <2>1 DEF WriteReceipt, TypeOK
  <2>3. receipt'[job.t] # NoReceipt
    BY <2>1, <2>2, Names DEF NoReceipt, Denied
  <2>4. phase[job.t] \notin {"none", "applied"} /\ stage[job.t] = None /\ replaced[job.t] # Denied
    BY <2>1 DEF CleanInv, PlaceInv, JobInv, Working, Sealed
  <2>5. RecordInv'
    BY <2>1, <2>2, <2>4 DEF CleanInv, RecordInv
  <2>6. PlaceInv'
    BY <2>1, <2>3, <2>4 DEF PlaceInv, Working, Sealed
  <2> QED BY <2>1, <2>5, <2>6, <1>j DEF CleanInv
<1>9. ASSUME Confirm PROVE CleanInv'
  <2>1. job.t \in Tx /\ job.pc = "confirm" /\ job'.pc = "idle" /\ UNCHANGED <<phase, receipt, stage, replaced>>
    BY <1>9, Constants DEF Confirm, JobInv, host, history
  <2>2. job.t[2] \in Ids /\ job.t = <<job.t[1], job.t[2]>> /\ (job.t[1] = "apply" \/ job.t[1] = "revert")
        /\ journal[job.t[2]] = (IF job.t[1] = "apply" THEN "applying" ELSE "reverting")
        /\ phase[job.t] = "applied"
    BY <2>1, TxParts DEF PreimageInv, CleanInv, PlaceInv
  <2>3. journal'[job.t[2]] = (IF job.t[1] = "apply" THEN "applied" ELSE "reverted")
        /\ \A k \in Ids : k # job.t[2] => journal'[k] = journal[k]
    BY <1>9, <2>2 DEF Confirm, TypeOK
  <2>4. PlaceInv'
    BY <2>1 DEF PlaceInv, Working, Sealed
  <2>5. CASE job.t[1] = "apply"
    <3>1. journal'[job.t[2]] = "applied" /\ phase[<<"apply", job.t[2]>>] = "applied" /\ phase[<<"revert", job.t[2]>>] = "none"
      BY <2>2, <2>3, <2>5 DEF CleanInv, JournalInv
    <3>2. JournalInv'
      <4>1. ASSUME NEW i \in Ids, i # job.t[2]
            PROVE  journal'[i] = journal[i] /\ phase' = phase
        BY <2>1, <2>3, <4>1
      <4>2. JournalInv
        BY DEF CleanInv
      <4> QED BY <2>1, <2>2, <3>1, <4>1, <4>2 DEF JournalInv
    <3> QED BY <2>1, <2>4, <3>2, <1>r DEF CleanInv
  <2>6. CASE job.t[1] = "revert"
    <3>1. journal'[job.t[2]] = "reverted" /\ phase[<<"revert", job.t[2]>>] = "applied" /\ phase[<<"apply", job.t[2]>>] = "applied"
      BY <2>2, <2>3, <2>6 DEF CleanInv, JournalInv
    <3>2. JournalInv'
      <4>1. ASSUME NEW i \in Ids, i # job.t[2]
            PROVE  journal'[i] = journal[i] /\ phase' = phase
        BY <2>1, <2>3, <4>1
      <4>2. JournalInv
        BY DEF CleanInv
      <4> QED BY <2>1, <2>2, <3>1, <4>1, <4>2 DEF JournalInv
    <3> QED BY <2>1, <2>4, <3>2, <1>r DEF CleanInv
  <2> QED BY <2>2, <2>5, <2>6
<1>10. ASSUME Fail PROVE CleanInv'
  <2>1. job.t \in Tx /\ job.pc \notin {"idle", "confirm"} /\ job'.pc = "idle" /\ UNCHANGED <<receipt, stage, replaced>>
    BY <1>10, Constants DEF Fail, JobInv, host, history
  <2>2. job.t[2] \in Ids /\ job.t = <<job.t[1], job.t[2]>> /\ (job.t[1] = "apply" \/ job.t[1] = "revert")
        /\ journal[job.t[2]] = (IF job.t[1] = "apply" THEN "applying" ELSE "reverting")
    BY <2>1, TxParts DEF PreimageInv
  <2>3. journal'[job.t[2]] = "uncertain" /\ \A k \in Ids : k # job.t[2] => journal'[k] = journal[k]
    BY <1>10, <2>2 DEF Fail, TypeOK
  <2>4. phase'[job.t] \in {phase[job.t], "uncertain"} /\ (phase[job.t] = "none" <=> phase'[job.t] = "none")
        /\ \A t \in Tx : t # job.t => phase'[t] = phase[t]
    BY <1>10, <2>1 DEF Fail, TypeOK
  <2>5. RecordInv'
    BY <2>1, <2>4 DEF CleanInv, RecordInv
  <2>6. PlaceInv'
    BY <2>1 DEF PlaceInv, Working, Sealed
  <2>7. JournalInv'
    <3>1. ASSUME NEW i \in Ids, i # job.t[2]
          PROVE  /\ journal'[i] = journal[i]
                 /\ phase'[<<"apply", i>>] = phase[<<"apply", i>>] /\ phase'[<<"revert", i>>] = phase[<<"revert", i>>]
      <4>1. <<"apply", i>> # job.t /\ <<"revert", i>> # job.t
        BY <2>2, <3>1
      <4> QED BY <2>3, <2>4, <3>1, <4>1, BothTx
    <3>2. JournalInv
      BY DEF CleanInv
    <3> QED BY <2>3, <3>1, <3>2 DEF JournalInv
  <2> QED BY <2>5, <2>6, <2>7 DEF CleanInv
<1>11. ASSUME Crash \/ Revoke \/ CreateAccount PROVE CleanInv'
  <2>1. job'.pc = "idle" /\ UNCHANGED <<phase, receipt, stage, replaced, journal>>
    BY <1>11, Constants DEF Crash, Revoke, CreateAccount, host, durable, history
  <2>2. PlaceInv'
    BY <2>1 DEF PlaceInv, Working, Sealed
  <2> QED BY <2>1, <2>2, <1>r, <1>j DEF CleanInv
<1>12. ASSUME SaveInPlace \/ SaveByName \/ Delete \/ MoveDirectory \/ UNCHANGED vars PROVE CleanInv'
  <2>1. UNCHANGED <<job, phase, receipt, stage, replaced, journal>>
    BY <1>12 DEF SaveInPlace, SaveByName, Delete, Edit, MoveDirectory, vars, host, durable, process, history
  <2>2. PlaceInv'
    BY <2>1 DEF CleanInv, PlaceInv
  <2> QED BY <2>1, <2>2, <1>r, <1>j DEF CleanInv
<1> QED
  BY <1>1, <1>2, <1>3, <1>4, <1>5, <1>6, <1>7, <1>8, <1>9, <1>10, <1>11, <1>12 DEF Next, Transact

\* A revert is decided against what its action published, and writes what that replaced.
RevertInv ==
  \A i \in Ids :
    LET a == <<"apply", i>>
        r == <<"revert", i>> IN
    /\ job.pc # "idle" /\ job.t = r =>
         /\ receipt[a] # NoReceipt
         /\ job.expected = receipt[a].file /\ job.desired = preimage[a].data
    /\ receipt[r] # NoReceipt =>
         /\ receipt[a] # NoReceipt
         /\ preimage[r] = receipt[a].file /\ receipt[r].file.data = preimage[a].data

\* Preimages and receipts are written once.
LEMMA WrittenOnce ==
  ASSUME TypeOK, JobInv, ReceiptMeansCas, PreimageInv, [Next]_vars, NEW t \in Tx, receipt[t] # NoReceipt
  PROVE  receipt'[t] = receipt[t] /\ preimage'[t] = preimage[t]
<1>1. receipt' = receipt \/ WriteReceipt
  BY DEF Next, Transact, Simulate, ApplyAction, RejectAction, RevertAction, Begin, Inspect, Intent, Open,
         Staged, Write, Plan, Recheck, Link, Exchange, ExchangeRefused, Identify, Fallback, Rename, CheckSwappedOut,
         Unlink, Final, Published, Applied, Confirm, Fail, Crash, Revoke, CreateAccount, SaveInPlace,
         SaveByName, Delete, MoveDirectory, Edit, vars, durable
<1>2. preimage' = preimage \/ Inspect
  BY DEF Next, Transact, Simulate, ApplyAction, RejectAction, RevertAction, Begin, WriteReceipt, Intent, Open,
         Staged, Write, Plan, Recheck, Link, Exchange, ExchangeRefused, Identify, Fallback, Rename, CheckSwappedOut,
         Unlink, Final, Published, Applied, Confirm, Fail, Crash, Revoke, CreateAccount, SaveInPlace,
         SaveByName, Delete, MoveDirectory, Edit, vars, durable
<1>3. WriteReceipt => job.t # t
  BY DEF WriteReceipt, Goto, JobInv, Sealed
<1>4. Inspect => job.t # t
  BY DEF Inspect
<1>5. receipt'[t] = receipt[t]
  BY <1>1, <1>3 DEF WriteReceipt, TypeOK
<1>6. preimage'[t] = preimage[t]
  BY <1>2, <1>4 DEF Inspect, TypeOK
<1> QED BY <1>5, <1>6

\* What a running transaction was given stays with it.
LEMMA JobStays ==
  ASSUME TypeOK, [Next]_vars, job'.pc # "idle"
  PROVE  \/ job'.t = job.t /\ job'.expected = job.expected /\ job'.desired = job.desired /\ job.pc # "idle"
         \/ \E i \in Ids : ApplyAction(i) \/ RevertAction(i)
<1>1. ASSUME NEW from, NEW to, Goto(from, to), from # "idle"
      PROVE  job'.t = job.t /\ job'.expected = job.expected /\ job'.desired = job.desired /\ job.pc # "idle"
  BY <1>1, GotoJob
<1>2. ASSUME job' = job
      PROVE  job'.t = job.t /\ job'.expected = job.expected /\ job'.desired = job.desired /\ job.pc # "idle"
  BY <1>2
<1>3. CASE \/ Inspect \/ Intent \/ Open \/ Staged \/ Write \/ Plan \/ Recheck \/ Link \/ Exchange \/ ExchangeRefused
           \/ Identify \/ Fallback \/ Rename \/ CheckSwappedOut \/ Unlink \/ Final \/ Published \/ WriteReceipt \/ Applied
  <2>1. \E from, to : Goto(from, to) /\ from # "idle"
    BY <1>3 DEF Inspect, Intent, Open, Staged, Write, Plan, Recheck, Link, Exchange, ExchangeRefused, Identify, Fallback,
                Rename, CheckSwappedOut, Unlink, Final, Published, WriteReceipt, Applied
  <2> QED BY <1>1, <2>1
<1>4. CASE Confirm \/ Fail \/ Crash
  BY <1>4, Constants DEF Confirm, Fail, Crash
<1>5. CASE \/ \E i \in Ids : Simulate(i) \/ RejectAction(i)
           \/ Revoke \/ CreateAccount \/ SaveInPlace \/ SaveByName \/ Delete \/ MoveDirectory \/ UNCHANGED vars
  <2>1. job' = job
    BY <1>5 DEF Simulate, RejectAction, Revoke, CreateAccount, SaveInPlace, SaveByName, Delete, Edit, MoveDirectory,
                vars, process
  <2> QED BY <1>2, <2>1
<1>6. CASE \E i \in Ids : ApplyAction(i) \/ RevertAction(i)
  BY <1>6
<1> QED BY <1>3, <1>4, <1>5, <1>6 DEF Next, Transact

LEMMA RevertNext ==
  ASSUME TypeOK, JobInv, ReceiptMeansCas, PreimageInv, RevertInv, [Next]_vars
  PROVE  RevertInv'
<1> SUFFICES ASSUME NEW i \in Ids, NEW a \in Tx, NEW r \in Tx, a = <<"apply", i>>, r = <<"revert", i>>
    PROVE  /\ job'.pc # "idle" /\ job'.t = r =>
                /\ receipt'[a] # NoReceipt
                /\ job'.expected = receipt'[a].file /\ job'.desired = preimage'[a].data
           /\ receipt'[r] # NoReceipt =>
                /\ receipt'[a] # NoReceipt
                /\ preimage'[r] = receipt'[a].file /\ receipt'[r].file.data = preimage'[a].data
  BY BothTx DEF RevertInv
<1>i. /\ job.pc # "idle" /\ job.t = r =>
           receipt[a] # NoReceipt /\ job.expected = receipt[a].file /\ job.desired = preimage[a].data
      /\ receipt[r] # NoReceipt =>
           receipt[a] # NoReceipt /\ preimage[r] = receipt[a].file /\ receipt[r].file.data = preimage[a].data
  BY DEF RevertInv
<1>1. ASSUME job'.pc # "idle", job'.t = r
      PROVE  receipt'[a] # NoReceipt /\ job'.expected = receipt'[a].file /\ job'.desired = preimage'[a].data
  <2>1. CASE job'.t = job.t /\ job'.expected = job.expected /\ job'.desired = job.desired /\ job.pc # "idle"
    <3>1. receipt[a] # NoReceipt /\ job.expected = receipt[a].file /\ job.desired = preimage[a].data
      BY <1>1, <1>i, <2>1
    <3>2. receipt'[a] = receipt[a] /\ preimage'[a] = preimage[a]
      BY <3>1, WrittenOnce
    <3> QED BY <2>1, <3>1, <3>2
  <2>2. ASSUME NEW k \in Ids, ApplyAction(k) PROVE FALSE
    <3>1. job'.t = <<"apply", k>>
      BY <2>2 DEF ApplyAction, Begin
    <3> QED BY <1>1, <3>1
  <2>3. ASSUME NEW k \in Ids, RevertAction(k)
        PROVE  receipt'[a] # NoReceipt /\ job'.expected = receipt'[a].file /\ job'.desired = preimage'[a].data
    <3>1. job'.t = <<"revert", k>> /\ job'.expected = receipt[<<"apply", k>>].file
          /\ job'.desired = preimage[<<"apply", k>>].data /\ receipt[<<"apply", k>>] # NoReceipt
          /\ receipt' = receipt /\ preimage' = preimage
      BY <2>3 DEF RevertAction, Begin, Revertible
    <3>2. k = i
      BY <1>1, <3>1
    <3> QED BY <3>1, <3>2
  <2> QED BY <1>1, <2>1, <2>2, <2>3, JobStays
<1>2. ASSUME receipt'[r] # NoReceipt
      PROVE  receipt'[a] # NoReceipt /\ preimage'[r] = receipt'[a].file /\ receipt'[r].file.data = preimage'[a].data
  <2>1. CASE receipt[r] # NoReceipt
    <3>1. receipt'[a] = receipt[a] /\ preimage'[a] = preimage[a] /\ receipt'[r] = receipt[r] /\ preimage'[r] = preimage[r]
      BY <1>i, <2>1, WrittenOnce
    <3> QED BY <1>i, <2>1, <3>1
  <2>2. CASE receipt[r] = NoReceipt
    <3>1. WriteReceipt
      BY <1>2, <2>2
      DEF Next, Transact, Simulate, ApplyAction, RejectAction, RevertAction, Begin, Inspect, Intent, Open,
         Staged, Write, Plan, Recheck, Link, Exchange, ExchangeRefused, Identify, Fallback, Rename, CheckSwappedOut,
         Unlink, Final, Published, Applied, Confirm, Fail, Crash, Revoke, CreateAccount, SaveInPlace,
         SaveByName, Delete, MoveDirectory, Edit, vars, durable
    <3>2. job.pc = "receipt" /\ job.t = r /\ preimage' = preimage
      BY <1>2, <2>2, <3>1 DEF WriteReceipt, Goto, TypeOK
    <3>3. receipt'[r].file.data = job.desired
      BY <3>1, <3>2 DEF WriteReceipt, TypeOK
    <3>4. preimage[r] = job.expected
      BY <3>2 DEF JobInv, Sealed
    <3>5. receipt[a] # NoReceipt /\ job.expected = receipt[a].file /\ job.desired = preimage[a].data
      BY <1>i, <3>2
    <3>6. receipt'[a] = receipt[a]
      BY <3>5, WrittenOnce
    <3> QED BY <3>2, <3>3, <3>4, <3>5, <3>6
  <2> QED BY <2>1, <2>2
<1> QED BY <1>1, <1>2

-----------------------------------------------------------------------------
Inv == /\ TypeOK /\ JobInv /\ NameInv /\ ReceiptMeansCas /\ StageInv /\ PreimageInv /\ FreshInv /\ LostOnlyByRename
       /\ CleanInv /\ RevertInv

LEMMA Inductive == Spec => []Inv
<1>1. Init => Inv
  <2>1. ASSUME Init PROVE StageInv /\ PreimageInv /\ FreshInv /\ LostOnlyByRename
    <3>1. \A t \in Tx : t \in Inodes /\ t # <<"edit", 0>>
      BY Names
    <3>2. StageInv
      BY <2>1, <3>1, Constants DEF Init, StageInv
    <3>3. PreimageInv
      <4>1. \A i \in Ids : <<"apply", i>> \in Tx /\ <<"revert", i>> \in Tx
        BY DEF Tx, Kinds
      <4> QED BY <2>1, <4>1, Names, Constants DEF Init, PreimageInv
    <3>4. FreshInv
      BY <2>1, Names DEF Init, FreshInv
    <3>5. \A c \in owed : Current.data = c
      BY <2>1, Names, FsAssumption DEF Init, Current, At
    <3> QED BY <3>2, <3>3, <3>4, <3>5 DEF LostOnlyByRename, Kept
  <2>2. Init => CleanInv
    BY BothTx, Constants DEF Init, CleanInv, RecordInv, PlaceInv, JournalInv, Working, Sealed
  <2>3. Init => RevertInv
    BY BothTx, Constants DEF Init, RevertInv
  <2> QED BY <2>1, <2>2, <2>3, Init0 DEF Inv
<1>2. Inv /\ [Next]_vars => Inv'
  <2>1. Inv /\ [Next]_vars => CleanInv' /\ RevertInv'
    BY CleanNext, RevertNext DEF Inv
  <2> QED BY <2>1, TypeNext, InvNext, StageNext, PreimageNext, FreshNext, KeptNext DEF Inv
<1> QED BY <1>1, <1>2, PTL DEF Spec

\* What the driver writes down is always what its schemas allow, whichever editors
\* and deaths come between the steps of a transaction (apply.ts, directory.ts).
THEOREM TypeCorrect == Spec => []TypeOK
<1>1. Inv => TypeOK
  BY DEF Inv
<1> QED BY <1>1, Inductive, PTL

\* A receipt that does not name a plain rename proves that nothing but the file the
\* write was decided against was replaced, for any number of edits (apply.ts, run).
THEOREM ReceiptMeansCasHolds == Spec => []ReceiptMeansCas
<1>1. Inv => ReceiptMeansCas
  BY DEF Inv
<1> QED BY <1>1, Inductive, PTL

\* No edit is lost but by a plain rename that a record names, for any number of
\* writes, reverts, edits, deaths and failures (apply.ts, publish.ts).
THEOREM LostOnlyByRenameHolds == Spec => []LostOnlyByRename
<1>1. Inv => LostOnlyByRename
  BY DEF Inv
<1> QED BY <1>1, Inductive, PTL

\* A directory that is open for the next write carries no trace of a half-done one:
\* for any number of writes, failures, deaths and edits, no stage file is left, and
\* publication, receipt and the kit's journal agree (apply.ts, run; directory.ts).
THEOREM SettledIsCleanHolds == Spec => []SettledIsClean
<1>1. Inv => SettledIsClean
  <2> SUFFICES ASSUME Inv, job = Idle, Settled, NEW t \in Tx
      PROVE  /\ stage[t] = None
             /\ (replaced[t] # Denied) <=> (receipt[t] # NoReceipt)
             /\ (receipt[t] # NoReceipt) <=>
                  journal[t[2]] \in (IF t[1] = "apply" THEN {"applied", "reverted"} ELSE {"reverted"})
    BY DEF SettledIsClean
  <2>1. phase[t] \in {"none", "applied"} /\ t[2] \in Ids
        /\ journal[t[2]] \in {"none", "pending", "applied", "rejected", "reverted"}
    BY TxParts DEF Settled, TxSettled
  <2>2. /\ phase[t] = "none" => stage[t] = None /\ replaced[t] = Denied /\ receipt[t] = NoReceipt
        /\ phase[t] = "applied" => stage[t] = None /\ replaced[t] # Denied /\ receipt[t] # NoReceipt
    BY DEF Inv, StageInv, NameInv, CleanInv, RecordInv
  <2>3. phase[t] = "applied" <=> journal[t[2]] \in (IF t[1] = "apply" THEN {"applied", "reverted"} ELSE {"reverted"})
    <3>1. PICK i \in Ids : i = t[2]
      BY <2>1
    <3>2. journal[i] \in {"none", "pending", "applied", "rejected", "reverted"}
      BY <2>1, <3>1
    <3>3. CASE t[1] = "apply"
      <4>1. phase[t] = phase[<<"apply", i>>]
        BY <3>1, <3>3, TxParts
      <4>2. phase[<<"apply", i>>] = "applied" <=> journal[i] \in {"applied", "reverted"}
        BY <3>2 DEF Inv, CleanInv, JournalInv
      <4> QED BY <3>1, <3>3, <4>1, <4>2
    <3>4. CASE t[1] = "revert"
      <4>1. phase[t] = phase[<<"revert", i>>]
        BY <3>1, <3>4, TxParts
      <4>2. phase[<<"revert", i>>] = "applied" <=> journal[i] \in {"reverted"}
        BY <3>2 DEF Inv, CleanInv, JournalInv
      <4> QED BY <3>1, <3>4, <4>1, <4>2
    <3> QED BY <3>3, <3>4, TxParts
  <2> QED BY <2>1, <2>2, <2>3
<1> QED BY <1>1, Inductive, PTL

\* A revert that left a receipt without a plain rename took away what its action had
\* published and brought back the content that action had replaced, for any number of
\* writes on top, edits, deaths and failures (directory.ts, revert; apply.ts, run).
THEOREM RevertRestoresHolds == Spec => []RevertRestores
<1>1. Inv => RevertRestores
  <2> SUFFICES ASSUME Inv, NEW i \in Ids, NEW a \in Tx, NEW r \in Tx, a = <<"apply", i>>, r = <<"revert", i>>,
                      receipt[r] # NoReceipt, receipt[r].publish # "rename", receipt[a].publish # "rename"
      PROVE  replaced[r] = receipt[a].file /\ receipt[r].file.data = replaced[a].data
    BY BothTx DEF RevertRestores
  <2>1. receipt[a] # NoReceipt /\ preimage[r] = receipt[a].file /\ receipt[r].file.data = preimage[a].data
    BY DEF Inv, RevertInv
  <2>2. replaced[r] = preimage[r] /\ replaced[a] = preimage[a]
    BY <2>1 DEF Inv, ReceiptMeansCas
  <2> QED BY <2>1, <2>2
<1> QED BY <1>1, Inductive, PTL
=============================================================================
