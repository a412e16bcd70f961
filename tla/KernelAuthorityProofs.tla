----------------------- MODULE KernelAuthorityProofs ------------------------
(* Type correctness, revocation that is over when it returns and for ever, and  *)
(* requests that are settled once by one operator, for any number of resources, *)
(* requests, calls and operators.                                               *)
EXTENDS KernelAuthority, FiniteSetTheorems, TLAPS

RequestSet == {Nobody} \cup [state : {"pending", "resolving", "granted", "rejected", "failed"}, resource : Resources]
CallSet == [pc : Phases, resource : Resources \cup {"none"}, n : 0..MaxCalls, act : BOOLEAN, stash : BOOLEAN]
OpSet == [pc : {"idle", "introducing", "claim", "revoking"} \cup Requests,
          resource : Resources \cup {"none"}, todo : SUBSET Requests, allow : BOOLEAN]

\* A call that is under way has a session name of its own and a resource.
CallInv ==
  /\ \A c \in Calls : calls[c].pc # "none" => calls[c].n \in 1..begun /\ calls[c].resource \in Resources
  /\ \A c, d \in Calls : calls[c].pc # "none" /\ calls[d].pc # "none" /\ calls[c].n = calls[d].n => c = d

\* Who holds a claimed request, and what a settled one says.
OwnerInv ==
  /\ \A o \in Operators, q \in Requests :
       ops[o].pc = q => requests[q].state = "resolving" /\ ops[o].resource = requests[q].resource
  /\ \A o, p \in Operators, q \in Requests : ops[o].pc = q /\ ops[p].pc = q => o = p
  /\ \A q \in Requests : requests[q].state = "resolving" => crashes > 0 \/ \E o \in Operators : ops[o].pc = q
  /\ \A q \in Requests : requests[q].state = "granted" => grants[requests[q].resource] # "none"

-----------------------------------------------------------------------------
\* What the small operators return.

LEMMA Constants ==
  /\ NoCall \in CallSet /\ NoCall.pc = "none" /\ NoOp \in OpSet /\ NoOp.pc = "idle"
  /\ Nobody \in RequestSet /\ Nobody.state = "none" /\ Nobody.resource = "none"
BY AuthorityAssumption DEF NoCall, NoOp, Nobody, CallSet, OpSet, RequestSet, Phases

LEMMA CallFields ==
  ASSUME NEW call \in CallSet
  PROVE  /\ \A pc \in Phases : [call EXCEPT !.pc = pc] \in CallSet
         /\ \A pc \in Phases, stash \in BOOLEAN : [call EXCEPT !.pc = pc, !.stash = stash] \in CallSet
         /\ [call EXCEPT !.stash = FALSE] \in CallSet
BY DEF CallSet

LEMMA OpFields ==
  ASSUME NEW op \in OpSet
  PROVE  /\ \A q \in Requests, r \in Resources :
              [op EXCEPT !.pc = q, !.resource = r, !.todo = @ \ {q}] \in OpSet
         /\ \A q \in Requests : [op EXCEPT !.todo = @ \ {q}] \in OpSet
         /\ [op EXCEPT !.pc = "claim", !.resource = "none"] \in OpSet
BY DEF OpSet

\* TypeOK, with the sets of this module.
LEMMA TypeShape ==
  TypeOK <=>
    /\ grants \in [Resources -> {"none", "active", "revoked", "lockdown"}] /\ requests \in [Requests -> RequestSet]
    /\ approvals \subseteq Calls /\ observed \in BOOLEAN /\ maint \in BOOLEAN
    /\ calls \in [Calls -> CallSet] /\ open \subseteq [n : 1..MaxCalls, resource : Resources]
    /\ ops \in [Operators -> OpSet]
    /\ begun \in 0..MaxCalls /\ revokes \in 0..MaxRevokes /\ crashes \in 0..MaxCrashes
BY DEF TypeOK, RequestSet, CallSet, OpSet

LEMMA SettleKeeps ==
  ASSUME TypeOK, NEW q \in Requests, NEW s \in {"resolving", "granted", "rejected", "failed"},
         requests[q].state \in {"pending", "resolving"}, Settle(q, s)
  PROVE  /\ requests' \in [Requests -> RequestSet]
         /\ requests[q].resource \in Resources
         /\ requests'[q].state = s /\ requests'[q].resource = requests[q].resource
         /\ \A r \in Requests : r # q => requests'[r] = requests[r]
<1>1. requests[q] \in [state : {"pending", "resolving", "granted", "rejected", "failed"}, resource : Resources]
  BY Constants DEF TypeOK
<1>2. [requests[q] EXCEPT !.state = s] \in RequestSet
  BY <1>1 DEF RequestSet
<1>3. requests' = [requests EXCEPT ![q] = [requests[q] EXCEPT !.state = s]]
  BY DEF Settle
<1> QED BY <1>1, <1>2, <1>3 DEF TypeOK, RequestSet

LEMMA InsertKeeps ==
  ASSUME TypeOK, NEW r, InsertGrant(r)
  PROVE  /\ grants' \in [Resources -> {"none", "active", "revoked", "lockdown"}]
         /\ \A s \in Resources : grants[s] # "none" => grants'[s] = grants[s]
         /\ r \in Resources => grants'[r] # "none"
BY DEF TypeOK, InsertGrant

-----------------------------------------------------------------------------
LEMMA TypeInit == Init => TypeOK /\ CallInv /\ OwnerInv
<1> SUFFICES ASSUME Init PROVE TypeOK /\ CallInv /\ OwnerInv
  OBVIOUS
<1>1. TypeOK
  <2>1. 0 \in 0..MaxCalls /\ 0 \in 0..MaxRevokes /\ 0 \in 0..MaxCrashes
    BY AuthorityAssumption
  <2>2. /\ grants \in [Resources -> {"none", "active", "revoked", "lockdown"}] /\ requests \in [Requests -> RequestSet]
        /\ calls \in [Calls -> CallSet] /\ ops \in [Operators -> OpSet]
    BY Constants DEF Init
  <2> QED BY <2>1, <2>2, TypeShape DEF Init
<1>2. CallInv
  BY Constants DEF Init, CallInv
<1>3. OwnerInv
  BY Constants, AuthorityAssumption DEF Init, OwnerInv
<1> QED BY <1>1, <1>2, <1>3

LEMMA TypeNext == ASSUME TypeOK, CallInv, [Next]_vars PROVE TypeOK'
<1> USE AuthorityAssumption
<1>o. ASSUME NEW o \in Operators, NEW op \in OpSet, GoOp(o, op) PROVE ops' \in [Operators -> OpSet]
  BY <1>o DEF TypeOK, GoOp, OpSet
<1>c. ASSUME NEW c \in Calls, NEW call \in CallSet, calls' = [calls EXCEPT ![c] = call] PROVE calls' \in [Calls -> CallSet]
  BY <1>c DEF TypeOK, CallSet
<1>g. ASSUME NEW c \in Calls, NEW pc \in Phases, GoCall(c, pc) PROVE calls' \in [Calls -> CallSet]
  <2>1. calls \in [Calls -> CallSet]
    BY TypeShape
  <2>2. [calls[c] EXCEPT !.pc = pc] \in CallSet
    BY <2>1, CallFields
  <2>3. calls' = [calls EXCEPT ![c] = [calls[c] EXCEPT !.pc = pc]]
    BY <1>g, <2>1 DEF GoCall
  <2> QED BY <2>2, <2>3, <1>c
<1>e. ASSUME NEW c \in Calls, EndCall(c) PROVE calls' \in [Calls -> CallSet]
  BY <1>e, <1>c, Constants DEF EndCall
<1>1. ASSUME NEW q \in Requests, NEW r \in Resources, RequestAccess(q, r) PROVE TypeOK'
  BY <1>1 DEF RequestAccess, TypeOK, memory, counts
<1>2. ASSUME NEW o \in Operators, NEW r \in Resources, Introduce(o, r) PROVE TypeOK'
  <2>1. [NoOp EXCEPT !.pc = "introducing", !.resource = r] \in OpSet
    BY DEF NoOp, OpSet
  <2> QED BY <1>2, <1>o, <2>1 DEF Introduce, TypeOK, OpSet, durable, counts
<1>3. ASSUME NEW o \in Operators, NEW r \in Resources, Revoke(o, r) PROVE TypeOK'
  <2>1. [NoOp EXCEPT !.pc = "revoking", !.resource = r] \in OpSet
    BY DEF NoOp, OpSet
  <2>2. calls' \in [Calls -> CallSet]
    <3>1. calls \in [Calls -> CallSet]
      BY TypeShape
    <3>2. \A c \in Calls : [calls[c] EXCEPT !.stash = FALSE] \in CallSet
      BY <3>1, CallFields
    <3> QED BY <1>3, <3>1, <3>2 DEF Revoke, Unstashed
  <2>3. ops' \in [Operators -> OpSet]
    BY <1>3, <1>o, <2>1 DEF Revoke
  <2>4. grants' \in [Resources -> {"none", "active", "revoked", "lockdown"}] /\ revokes' \in 0..MaxRevokes
    BY <1>3 DEF Revoke, TypeOK
  <2> QED BY <1>3, <2>2, <2>3, <2>4 DEF Revoke, TypeOK, CallSet, OpSet
<1>4. ASSUME NEW o \in Operators, Introduced(o) PROVE TypeOK'
  BY <1>4, <1>o, InsertKeeps, Constants DEF Introduced, TypeOK, OpSet, counts
<1>5. ASSUME NEW o \in Operators, DecideRequests(o) PROVE TypeOK'
  <2>1. \A ids \in SUBSET Requests, allow \in BOOLEAN :
          [NoOp EXCEPT !.pc = "claim", !.todo = ids, !.allow = allow] \in OpSet
    BY DEF NoOp, OpSet
  <2>2. ops' \in [Operators -> OpSet]
    BY <1>5, <1>o, <2>1 DEF DecideRequests
  <2> QED BY <1>5, <2>2 DEF DecideRequests, TypeOK, OpSet, durable, counts
<1>6. ASSUME NEW o \in Operators, OpEnds(o) \/ Revoked(o) PROVE TypeOK'
  <2>1. ops' \in [Operators -> OpSet]
    BY <1>6, <1>o, Constants DEF OpEnds, Revoked
  <2> QED BY <1>6, <2>1 DEF OpEnds, Revoked, TypeOK, OpSet, durable, counts
<1>7. ASSUME NEW o \in Operators, NEW q \in Requests, Claim(o, q) PROVE TypeOK'
  <2>1. requests[q].state = "pending"
    BY <1>7 DEF Claim, Claims
  <2>2. requests' \in [Requests -> RequestSet] /\ requests[q].resource \in Resources
    BY <1>7, <2>1, SettleKeeps DEF Claim
  <2>3. [ops[o] EXCEPT !.pc = q, !.resource = requests[q].resource, !.todo = @ \ {q}] \in OpSet
    BY <2>2, TypeShape, OpFields
  <2>4. [ops[o] EXCEPT !.todo = @ \ {q}] \in OpSet
    BY TypeShape, OpFields
  <2>5. ops' \in [Operators -> OpSet]
    BY <1>7, <1>o, <2>3, <2>4, Constants DEF Claim
  <2> QED BY <1>7, <2>2, <2>5 DEF Claim, TypeOK, OpSet, RequestSet, counts
<1>8. ASSUME NEW o \in Operators, NEW q \in Requests, Granted(o, q) PROVE TypeOK'
  <2>1. requests' \in [Requests -> RequestSet]
    BY <1>8, SettleKeeps DEF Granted, Granting
  <2>2. [ops[o] EXCEPT !.pc = "claim", !.resource = "none"] \in OpSet
    BY TypeShape, OpFields
  <2>3. ops' \in [Operators -> OpSet]
    BY <1>8, <1>o, <2>2 DEF Granted
  <2> QED BY <1>8, <2>1, <2>3, InsertKeeps DEF Granted, TypeOK, OpSet, RequestSet, counts
<1>9. ASSUME NEW o \in Operators, NEW q \in Requests, GrantFails(o, q) PROVE TypeOK'
  <2>1. requests' \in [Requests -> RequestSet] /\ ops' \in [Operators -> OpSet]
    BY <1>9, <1>o, Constants, SettleKeeps DEF GrantFails, Granting
  <2> QED BY <1>9, <2>1 DEF GrantFails, TypeOK, OpSet, RequestSet, counts
<1>10. ASSUME NEW o \in Operators, NEW s \in open, CloseRevoked(o, s) PROVE TypeOK'
  BY <1>10 DEF CloseRevoked, TypeOK, durable, counts
<1>11. ASSUME NEW c \in Calls, NEW r \in Resources, BeforeToolCall(c, r) PROVE TypeOK'
  <2>1. begun' = begun + 1 /\ begun + 1 \in 1..MaxCalls
    BY <1>11 DEF BeforeToolCall, TypeOK
  <2>2. \A act \in BOOLEAN : [NoCall EXCEPT !.pc = "resolving", !.resource = r, !.n = begun + 1, !.act = act] \in CallSet
    <3>1. 0 \in Nat /\ begun + 1 \in 0..MaxCalls /\ "resolving" \in Phases
      BY <2>1 DEF Phases
    <3> QED BY <3>1 DEF NoCall, CallSet
  <2>3. calls' \in [Calls -> CallSet]
    BY <1>11, <1>c, <2>2 DEF BeforeToolCall
  <2> QED BY <1>11, <2>1, <2>3 DEF BeforeToolCall, TypeOK, CallSet, durable
<1>12. ASSUME NEW c \in Calls, SessionOpened(c) PROVE TypeOK'
  <2>1. SessionOf(c) \in [n : 1..MaxCalls, resource : Resources]
    BY <1>12 DEF SessionOpened, SessionOf, CallInv, TypeOK
  <2>2. calls' \in [Calls -> CallSet]
    BY <1>12, <1>g DEF SessionOpened, Phases
  <2> QED BY <1>12, <2>1, <2>2 DEF SessionOpened, TypeOK, CallSet, durable, counts
<1>13. ASSUME NEW c \in Calls, DryRun(c) PROVE TypeOK'
  <2>1. calls' \in [Calls -> CallSet]
    BY <1>13, <1>g DEF DryRun, Phases
  <2> QED BY <1>13, <2>1 DEF DryRun, TypeOK, CallSet, durable, counts
<1>14. ASSUME NEW c \in Calls, Stash(c) PROVE TypeOK'
  <2>1. [calls[c] EXCEPT !.pc = IF calls[c].act THEN "asked" ELSE "ready", !.stash = TRUE] \in CallSet
    BY TypeShape, CallFields DEF Phases
  <2>2. calls' = [calls EXCEPT ![c] = [calls[c] EXCEPT !.pc = IF calls[c].act THEN "asked" ELSE "ready", !.stash = TRUE]]
    BY <1>14 DEF Stash, TypeOK
  <2>3. calls' \in [Calls -> CallSet]
    BY <1>c, <2>1, <2>2
  <2> QED BY <1>14, <2>3 DEF Stash, TypeOK, CallSet, durable, counts
<1>15. ASSUME NEW c \in Calls, PreflightFails(c) \/ Return(c) \/ CallFails(c) PROVE TypeOK'
  <2>1. calls' \in [Calls -> CallSet]
    BY <1>15, <1>e DEF PreflightFails, Return, CallFails
  <2> QED BY <1>15, <2>1 DEF PreflightFails, Return, CallFails, TypeOK, CallSet, durable, counts
<1>16. ASSUME NEW c \in Calls, Decide(c) PROVE TypeOK'
  <2>1. calls' \in [Calls -> CallSet]
    BY <1>16, <1>e, <1>g DEF Decide, Phases
  <2> QED BY <1>16, <2>1 DEF Decide, TypeOK, CallSet, counts
<1>17. ASSUME NEW c \in Calls, StashExpires(c) PROVE TypeOK'
  <2>1. calls \in [Calls -> CallSet]
    BY TypeShape
  <2>2. [calls[c] EXCEPT !.stash = FALSE] \in CallSet
    BY <2>1, CallFields
  <2>3. calls' = [calls EXCEPT ![c] = [calls[c] EXCEPT !.stash = FALSE]]
    BY <1>17, <2>1 DEF StashExpires
  <2>4. calls' \in [Calls -> CallSet]
    BY <2>2, <2>3, <1>c
  <2> QED BY <1>17, <2>4 DEF StashExpires, TypeOK, CallSet, durable, counts
<1>18. ASSUME NEW c \in Calls, Exec(c) PROVE TypeOK'
  <2>1. [calls[c] EXCEPT !.pc = "running", !.stash = FALSE] \in CallSet
    BY TypeShape, CallFields DEF Phases
  <2>2. calls' = [calls EXCEPT ![c] = [calls[c] EXCEPT !.pc = "running", !.stash = FALSE]]
    BY <1>18 DEF Exec, TypeOK
  <2>3. calls' \in [Calls -> CallSet]
    BY <1>c, <2>1, <2>2
  <2> QED BY <1>18, <2>3 DEF Exec, TypeOK, CallSet, counts
<1>19. ASSUME NEW c \in Calls, ExecDenied(c) PROVE TypeOK'
  <2>1. calls' \in [Calls -> CallSet]
    BY <1>19, <1>e DEF ExecDenied
  <2> QED BY <1>19, <2>1 DEF ExecDenied, TypeOK, CallSet, counts
<1>20. ASSUME NEW c \in Calls, Queue(c) PROVE TypeOK'
  <2>1. calls' \in [Calls -> CallSet]
    BY <1>20, <1>g DEF Queue, Phases
  <2> QED BY <1>20, <2>1 DEF Queue, TypeOK, CallSet, durable, counts
<1>21. ASSUME NEW c \in Calls, Lockdown(c) PROVE TypeOK'
  <2>1. calls' \in [Calls -> CallSet]
    BY <1>21, <1>e DEF Lockdown
  <2> QED BY <1>21, <2>1 DEF Lockdown, TypeOK, CallSet, counts
<1>22. ASSUME Observe \/ SetMaintenance PROVE TypeOK'
  BY <1>22 DEF Observe, SetMaintenance, TypeOK, memory, counts
<1>23. ASSUME NEW s \in open, SessionEnd(s) PROVE TypeOK'
  BY <1>23 DEF SessionEnd, TypeOK, durable, counts
<1>24. ASSUME Crash PROVE TypeOK'
  BY <1>24, Constants DEF Crash, TypeOK, CallSet, OpSet, durable
<1>25. ASSUME UNCHANGED vars PROVE TypeOK'
  BY <1>25 DEF vars, durable, memory, counts, TypeOK
<1> QED
  BY <1>1, <1>2, <1>3, <1>4, <1>5, <1>6, <1>7, <1>8, <1>9, <1>10, <1>11, <1>12, <1>13, <1>14, <1>15, <1>16,
     <1>17, <1>18, <1>19, <1>20, <1>21, <1>22, <1>23, <1>24, <1>25 DEF Next, OperatorStep, CallStep

-----------------------------------------------------------------------------
LEMMA CallNext == ASSUME TypeOK, CallInv, [Next]_vars PROVE CallInv'
<1> USE AuthorityAssumption
<1>b. begun \in Nat /\ DOMAIN calls = Calls
  BY DEF TypeOK
\* A step that begins no call keeps the numbers of those that go on.
<1>k. ASSUME begun' = begun,
             \A c \in Calls : calls'[c].pc # "none" => /\ calls[c].pc # "none" /\ calls'[c].n = calls[c].n
                                                       /\ calls'[c].resource = calls[c].resource
      PROVE CallInv'
  BY <1>k DEF CallInv
<1>u. ASSUME UNCHANGED <<calls, begun>> PROVE CallInv'
  BY <1>u, <1>k
<1>e. ASSUME NEW c \in Calls, EndCall(c), begun' = begun PROVE CallInv'
  BY <1>e, <1>k, <1>b, Constants DEF EndCall
<1>g. ASSUME NEW c \in Calls, NEW pc, calls[c].pc # "none", GoCall(c, pc), begun' = begun PROVE CallInv'
  BY <1>g, <1>k DEF GoCall, TypeOK
<1>1. ASSUME NEW c \in Calls, NEW r \in Resources, BeforeToolCall(c, r) PROVE CallInv'
  <2>1. PICK act \in BOOLEAN :
          calls' = [calls EXCEPT ![c] = [NoCall EXCEPT !.pc = "resolving", !.resource = r, !.n = begun + 1, !.act = act]]
    BY <1>1 DEF BeforeToolCall
  <2>2. calls'[c].n = begun + 1 /\ calls'[c].resource = r /\ \A d \in Calls : d # c => calls'[d] = calls[d]
    BY <2>1, <1>b DEF NoCall
  <2>3. begun' = begun + 1
    BY <1>1 DEF BeforeToolCall
  <2>4. \A d \in Calls : calls[d].n \in Nat
    BY DEF TypeOK
  <2> QED BY <2>2, <2>3, <2>4, <1>b DEF CallInv
<1>2. ASSUME NEW c \in Calls, SessionOpened(c) \/ DryRun(c) \/ Queue(c) PROVE CallInv'
  BY <1>2, <1>g DEF SessionOpened, DryRun, Queue, counts
<1>3. ASSUME NEW c \in Calls, Stash(c) \/ StashExpires(c) \/ Exec(c) PROVE CallInv'
  <2>1. UNCHANGED counts /\ (calls[c].pc # "none" \/ calls'[c].pc = calls[c].pc)
    BY <1>3 DEF Stash, StashExpires, Exec, TypeOK
  <2>2. \A d \in Calls : calls'[d].n = calls[d].n /\ calls'[d].resource = calls[d].resource /\ (d # c => calls'[d] = calls[d])
    BY <1>3 DEF Stash, StashExpires, Exec, TypeOK
  <2> QED BY <2>1, <2>2, <1>k DEF counts
<1>4. ASSUME NEW c \in Calls, PreflightFails(c) \/ ExecDenied(c) \/ Lockdown(c) \/ Return(c) \/ CallFails(c) PROVE CallInv'
  BY <1>4, <1>e DEF PreflightFails, ExecDenied, Lockdown, Return, CallFails, counts
<1>5. ASSUME NEW c \in Calls, Decide(c) PROVE CallInv'
  BY <1>5, <1>e, <1>g DEF Decide, counts
<1>6. ASSUME NEW o \in Operators, NEW r \in Resources, Revoke(o, r) PROVE CallInv'
  <2>1. \A c \in Calls : calls'[c].pc = calls[c].pc /\ calls'[c].n = calls[c].n /\ calls'[c].resource = calls[c].resource
    BY <1>6 DEF Revoke, Unstashed, TypeOK
  <2> QED BY <1>6, <2>1, <1>k DEF Revoke
<1>7. ASSUME NEW o \in Operators,
             \/ \E r \in Resources : Introduce(o, r)
             \/ Introduced(o) \/ DecideRequests(o) \/ OpEnds(o) \/ Revoked(o)
             \/ \E q \in Requests : Claim(o, q) \/ Granted(o, q) \/ GrantFails(o, q)
             \/ \E s \in open : CloseRevoked(o, s)
      PROVE CallInv'
  BY <1>7, <1>u DEF Introduce, Introduced, DecideRequests, OpEnds, Revoked, Claim, Granted, GrantFails, CloseRevoked,
     counts
<1>8. ASSUME \/ \E q \in Requests, r \in Resources : RequestAccess(q, r)
             \/ Observe \/ SetMaintenance \/ (\E s \in open : SessionEnd(s)) \/ UNCHANGED vars
      PROVE CallInv'
  BY <1>8, <1>u DEF RequestAccess, Observe, SetMaintenance, SessionEnd, vars, memory, counts
<1>9. ASSUME Crash PROVE CallInv'
  BY <1>9, <1>k, Constants DEF Crash
<1> QED
  BY <1>1, <1>2, <1>3, <1>4, <1>5, <1>6, <1>7, <1>8, <1>9 DEF Next, OperatorStep, CallStep

\* Every variable holds what its table, map or file can hold, in every state.
THEOREM TypeCorrect == Spec => []TypeOK
BY TypeInit, TypeNext, CallNext, PTL DEF Spec

-----------------------------------------------------------------------------
\* Grants.  What each step does to a grant.
LEMMA GrantSteps ==
  ASSUME TypeOK, [Next]_vars, NEW r \in Resources
  PROVE  \/ grants'[r] = grants[r]
         \/ grants[r] = "none" /\ grants'[r] = "active"
         \/ grants[r] = "active" /\ grants'[r] = "lockdown"
         \/ grants'[r] = "revoked" /\ \E o \in Operators : Revoke(o, r)
<1>i. ASSUME NEW s, InsertGrant(s) PROVE grants'[r] = grants[r] \/ (grants[r] = "none" /\ grants'[r] = "active")
  BY <1>i DEF InsertGrant, TypeOK
<1>1. ASSUME NEW o \in Operators, Introduced(o) \/ \E q \in Requests : Granted(o, q)
      PROVE grants'[r] = grants[r] \/ (grants[r] = "none" /\ grants'[r] = "active")
  BY <1>1, <1>i DEF Introduced, Granted
<1>2. ASSUME NEW o \in Operators, NEW s \in Resources, Revoke(o, s)
      PROVE grants'[r] = grants[r] \/ (grants'[r] = "revoked" /\ s = r)
  BY <1>2 DEF Revoke, TypeOK
<1>3. ASSUME NEW c \in Calls, Lockdown(c) PROVE grants'[r] = grants[r] \/ (grants[r] = "active" /\ grants'[r] = "lockdown")
  BY <1>3 DEF Lockdown, TypeOK
<1>4. ASSUME NEW o \in Operators,
             \/ \E s \in Resources : Introduce(o, s)
             \/ DecideRequests(o) \/ OpEnds(o) \/ Revoked(o)
             \/ \E q \in Requests : Claim(o, q) \/ GrantFails(o, q)
             \/ \E s \in open : CloseRevoked(o, s)
      PROVE UNCHANGED grants
  BY <1>4 DEF Introduce, DecideRequests, OpEnds, Revoked, Claim, GrantFails, CloseRevoked, durable
<1>5. ASSUME NEW c \in Calls,
             \/ \E s \in Resources : BeforeToolCall(c, s)
             \/ SessionOpened(c) \/ DryRun(c) \/ Stash(c) \/ PreflightFails(c) \/ Decide(c) \/ StashExpires(c)
             \/ Exec(c) \/ ExecDenied(c) \/ Queue(c) \/ Return(c) \/ CallFails(c)
      PROVE UNCHANGED grants
  BY <1>5 DEF BeforeToolCall, SessionOpened, DryRun, Stash, PreflightFails, Decide, StashExpires, Exec, ExecDenied,
     Queue, Return, CallFails, durable
<1>6. ASSUME \/ \E q \in Requests, s \in Resources : RequestAccess(q, s)
             \/ Observe \/ SetMaintenance \/ Crash \/ (\E s \in open : SessionEnd(s)) \/ UNCHANGED vars
      PROVE UNCHANGED grants
  BY <1>6 DEF RequestAccess, Observe, SetMaintenance, Crash, SessionEnd, vars, durable
<1> QED
  BY <1>1, <1>2, <1>3, <1>4, <1>5, <1>6 DEF Next, OperatorStep, CallStep

\* A grant that was ended stays ended, whatever was under way when it was
\* (kernel.ts, insertGrant() of store.ts).
THEOREM EndedForeverHolds == Spec => EndedForever
<1>1. ASSUME TypeOK, [Next]_vars
      PROVE \A r \in Resources : /\ grants[r] = "revoked" => grants'[r] = "revoked"
                                 /\ grants[r] = "lockdown" => grants'[r] \in {"lockdown", "revoked"}
  BY <1>1, GrantSteps
<1> QED BY <1>1, TypeInit, TypeNext, CallNext, PTL DEF Spec, EndedForever

-----------------------------------------------------------------------------
\* Sessions.  Who is revoking what.
Revoking(r) == \E o \in Operators : ops[o].pc = "revoking" /\ ops[o].resource = r

LEMMA OverNext ==
  ASSUME TypeOK, CallInv, RevokedMeansOver, [Next]_vars PROVE RevokedMeansOver'
<1> USE AuthorityAssumption
<1> SUFFICES ASSUME NEW c \in Calls, calls'[c].pc \in {"running", "using"},
                    grants'[calls'[c].resource] = "revoked",
                    \A o \in Operators : ~(ops'[o].pc = "revoking" /\ ops'[o].resource = calls'[c].resource)
             PROVE  ~Live(c)'
  BY DEF RevokedMeansOver
<1> DEFINE r == calls[c].resource
\* The call had its resource and its session before the step, and was or is being admitted.
           Known == /\ calls[c].pc \in {"ready", "running", "using"} /\ calls[c].n \in Nat /\ r \in Resources
                    /\ calls'[c].resource = r /\ calls'[c].n = calls[c].n
                    /\ calls[c].pc = "ready" => grants[r] = "active" /\ UNCHANGED grants
\* No step opens a session for a call that has passed its checks.
           NoneOpened == SessionOf(c) \in open' => SessionOf(c) \in open
<1>1. Known
  <2>c. calls[c].pc # "none" => r \in Resources /\ calls[c].n \in Nat
    BY DEF CallInv, TypeOK
  <2>0. ASSUME UNCHANGED calls PROVE Known
    BY <2>0, <2>c
  <2>1. ASSUME NEW d \in Calls, d # c, UNCHANGED calls[c] PROVE Known
    BY <2>1, <2>c
  <2>2. ASSUME NEW d \in Calls, EndCall(d) PROVE Known
    BY <2>1, <2>2, Constants DEF EndCall, TypeOK
  <2>3. ASSUME NEW d \in Calls, NEW pc \in Phases \ {"running", "using"}, GoCall(d, pc) PROVE Known
    BY <2>1, <2>3 DEF GoCall, TypeOK
  <2>4. ASSUME NEW d \in Calls, Exec(d) PROVE Known
    BY <2>1, <2>4, <2>c DEF Exec, MayExec, Authorized, TypeOK
  <2>5. ASSUME NEW d \in Calls, Queue(d) PROVE Known
    BY <2>1, <2>5, <2>c DEF Queue, GoCall, TypeOK
  <2>6. ASSUME NEW d \in Calls, Stash(d) \/ StashExpires(d) PROVE Known
    BY <2>1, <2>6, <2>c DEF Stash, StashExpires, TypeOK
  <2>7. ASSUME NEW d \in Calls, NEW s \in Resources, BeforeToolCall(d, s) PROVE Known
    BY <2>1, <2>7 DEF BeforeToolCall, NoCall, TypeOK
  <2>8. ASSUME NEW o \in Operators, NEW s \in Resources, Revoke(o, s) PROVE Known
    BY <2>8, <2>c DEF Revoke, Unstashed, TypeOK
  <2>9. ASSUME Crash PROVE Known
    BY <2>9, Constants DEF Crash
  <2>10. ASSUME NEW d \in Calls, SessionOpened(d) \/ DryRun(d) PROVE Known
    BY <2>3, <2>10 DEF SessionOpened, DryRun, Phases
  <2>11. ASSUME NEW d \in Calls, PreflightFails(d) \/ ExecDenied(d) \/ Lockdown(d) \/ Return(d) \/ CallFails(d) PROVE Known
    BY <2>2, <2>11 DEF PreflightFails, ExecDenied, Lockdown, Return, CallFails
  <2>12. ASSUME NEW d \in Calls, Decide(d) PROVE Known
    BY <2>2, <2>3, <2>12 DEF Decide, Phases
  <2>13. ASSUME NEW o \in Operators,
                \/ \E s \in Resources : Introduce(o, s)
                \/ Introduced(o) \/ DecideRequests(o) \/ OpEnds(o) \/ Revoked(o)
                \/ \E q \in Requests : Claim(o, q) \/ Granted(o, q) \/ GrantFails(o, q)
                \/ \E s \in open : CloseRevoked(o, s)
         PROVE Known
    BY <2>0, <2>13 DEF Introduce, Introduced, DecideRequests, OpEnds, Revoked, Claim, Granted, GrantFails, CloseRevoked
  <2>14. ASSUME \/ \E q \in Requests, s \in Resources : RequestAccess(q, s)
                \/ Observe \/ SetMaintenance \/ (\E s \in open : SessionEnd(s)) \/ UNCHANGED vars
         PROVE Known
    BY <2>0, <2>14 DEF RequestAccess, Observe, SetMaintenance, SessionEnd, vars, memory
  <2> QED BY <2>4, <2>5, <2>6, <2>7, <2>8, <2>9, <2>10, <2>11, <2>12, <2>13, <2>14 DEF Next, OperatorStep, CallStep
<1>2. calls[c].pc \in {"running", "using"}
  BY <1>1
<1>3. SessionOf(c)' = SessionOf(c)
  BY <1>1 DEF SessionOf
<1>4. NoneOpened
  <2>1. ASSUME NEW d \in Calls, SessionOpened(d), SessionOf(d) = SessionOf(c) PROVE FALSE
    <3>1. calls[d].pc = "resolving" /\ calls[d].n = calls[c].n
      BY <2>1 DEF SessionOpened, SessionOf
    <3> QED BY <3>1, <1>2 DEF CallInv
  <2>2. ASSUME NEW d \in Calls, SessionOpened(d) PROVE NoneOpened
    BY <2>1, <2>2 DEF SessionOpened
  <2>3. ASSUME ~\E d \in Calls : SessionOpened(d) PROVE open' \subseteq open
    <3>1. ASSUME NEW o \in Operators, OperatorStep(o) PROVE open' \subseteq open
      BY <3>1 DEF OperatorStep, Introduce, Introduced, DecideRequests, OpEnds, Revoked, Revoke, Claim, Granted, GrantFails,
         CloseRevoked
    <3>2. ASSUME NEW d \in Calls, CallStep(d) PROVE open' \subseteq open
      BY <2>3, <3>2 DEF CallStep, BeforeToolCall, DryRun, Stash, PreflightFails, Decide, StashExpires, Exec, ExecDenied,
         Queue, Lockdown, Return, CallFails
    <3> QED BY <3>1, <3>2 DEF Next, RequestAccess, Observe, SetMaintenance, SessionEnd, Crash, vars, memory
  <2> QED BY <2>2, <2>3
\* Either its end is old news, or nobody waits for it any more, or it comes now.
<1>5. CASE grants[r] # "revoked"
  <2>1. PICK o \in Operators : Revoke(o, r)
    BY <1>1, <1>5, GrantSteps
  <2>2. ops'[o].pc = "revoking" /\ ops'[o].resource = r
    BY <2>1 DEF Revoke, GoOp, NoOp, TypeOK
  <2> QED BY <1>1, <2>2 DEF Revoking
<1>6. CASE grants[r] = "revoked" /\ ~Revoking(r)
  <2>1. ~Live(c)
    BY <1>2, <1>6 DEF RevokedMeansOver, Revoking
  <2> QED BY <1>3, <1>4, <2>1 DEF Live
<1>7. CASE Revoking(r)
  <2>1. PICK o \in Operators : ops[o].pc = "revoking" /\ ops[o].resource = r
    BY <1>7 DEF Revoking
  <2>2. ops'[o] # ops[o]
    BY <1>1, <2>1 DEF Revoking
  <2>3. Revoked(o) \/ Crash
    <3>1. ASSUME NEW p \in Operators, NEW op, GoOp(p, op) PROVE p = o
      BY <2>2, <3>1 DEF GoOp, TypeOK
    <3>2. ASSUME NEW p \in Operators, OperatorStep(p) PROVE Revoked(o)
      <4>1. p = o
        <5>1. \E op : GoOp(p, op)
          BY <2>2, <3>2 DEF OperatorStep, Introduce, Introduced, DecideRequests, OpEnds, Revoked, Revoke, Claim, Granted,
             GrantFails, CloseRevoked
        <5> QED BY <3>1, <5>1
      <4>2. ops[o].pc = "revoking" /\ ops[o] # NoOp
        BY <2>1, Constants
      <4> QED BY <2>2, <3>2, <4>1, <4>2 DEF OperatorStep, Introduce, Introduced, DecideRequests, OpEnds, Revoke, Claim,
             Granted, GrantFails, Granting, CloseRevoked
    <3>3. ASSUME NEW d \in Calls, CallStep(d) PROVE UNCHANGED ops
      BY <3>3 DEF CallStep, BeforeToolCall, SessionOpened, DryRun, Stash, PreflightFails, Decide, StashExpires, Exec,
         ExecDenied, Queue, Lockdown, Return, CallFails
    <3> QED BY <2>2, <3>2, <3>3 DEF Next, RequestAccess, Observe, SetMaintenance, SessionEnd, vars, memory
  <2>4. CASE Revoked(o)
    <3>1. SessionOf(c) \notin open
      BY <2>1, <2>4 DEF Revoked, NothingLeft, SessionOf
    <3> QED BY <1>3, <1>4, <3>1 DEF Live
  <2>5. CASE Crash
    BY <2>5 DEF Crash, Live
  <2> QED BY <2>3, <2>4, <2>5
<1> QED BY <1>5, <1>6, <1>7

\* Once revoke() has returned, no call that had passed its checks has a session
\* left in which to go on (revoke() of kernel.ts).
THEOREM RevokedMeansOverHolds == Spec => []RevokedMeansOver
<1>1. Init => RevokedMeansOver
  BY Constants DEF Init, RevokedMeansOver
<1> QED BY <1>1, TypeInit, TypeNext, CallNext, OverNext, PTL DEF Spec

-----------------------------------------------------------------------------
\* Requests.  Each step leaves the requests and who holds them alone, or adds one
\* that was not there, or an operator claims one that is pending, or settles one.
Untouched == UNCHANGED requests /\ crashes' = crashes
Added(q) == requests[q] = Nobody /\ UNCHANGED <<ops, crashes>>
            /\ requests'[q].state = "pending" /\ \A r \in Requests : r # q => requests'[r] = requests[r]
Moves(q, s) == /\ requests'[q].state = s /\ requests'[q].resource = requests[q].resource
               /\ \A r \in Requests : r # q => requests'[r] = requests[r]
               /\ crashes' = crashes
Only(o) == \A p \in Operators : p # o => ops'[p] = ops[p]

\* What a step does to requests and to who holds them.
RequestStep ==
  \/ /\ Untouched
     /\ \A o \in Operators : ops'[o].pc \in Requests => ops'[o] = ops[o]
     /\ \A o \in Operators : ops[o].pc \in Requests => ops'[o] = ops[o]
  \/ \E q \in Requests : Added(q)
  \/ \E q \in Requests, o \in Operators :
       /\ requests[q].state = "pending" /\ Moves(q, "resolving") /\ Only(o) /\ ops[o].pc = "claim"
       /\ ops'[o].pc = q /\ ops'[o].resource = requests[q].resource
  \/ \E q \in Requests, o \in Operators, s \in {"failed", "rejected"} :
       /\ requests[q].state = "pending" /\ Moves(q, s) /\ Only(o) /\ ops[o].pc = "claim" /\ ops'[o].pc \in {"claim", "idle"}
  \/ \E q \in Requests, o \in Operators, s \in {"failed", "granted"} :
       /\ ops[o].pc = q /\ requests[q].state = "resolving" /\ Moves(q, s) /\ Only(o) /\ ops'[o].pc \in {"claim", "idle"}
       /\ s = "granted" => InsertGrant(ops[o].resource) /\ requests[q].resource \in Resources
  \/ UNCHANGED requests /\ crashes' > 0 /\ ops' = [o \in Operators |-> NoOp]

LEMMA RequestSteps == ASSUME TypeOK, CallInv, [Next]_vars PROVE RequestStep
<1> USE AuthorityAssumption
<1>o. DOMAIN ops = Operators /\ crashes \in Nat /\ DOMAIN requests = Requests
  BY DEF TypeOK
<1>u. ASSUME Untouched, UNCHANGED ops PROVE RequestStep
  BY <1>u DEF RequestStep
<1>g. ASSUME Untouched, NEW o \in Operators, NEW op, GoOp(o, op), ops[o].pc \notin Requests, op.pc \notin Requests PROVE RequestStep
  BY <1>g, <1>o DEF RequestStep, GoOp
<1>n. \A o \in Operators, q \in Requests : NoOp.pc # q /\ (ops[o] = NoOp => ops[o].pc \notin Requests)
  BY Constants
<1>1. ASSUME NEW q \in Requests, NEW r \in Resources, RequestAccess(q, r) PROVE RequestStep
  <2>1. Added(q)
    BY <1>1, <1>o DEF RequestAccess, Added, memory, counts
  <2> QED BY <2>1 DEF RequestStep
<1>2. ASSUME NEW o \in Operators, NEW r \in Resources, Introduce(o, r) \/ Revoke(o, r) PROVE RequestStep
  <2>1. ops[o].pc \notin Requests /\ Untouched
    BY <1>2, <1>n DEF Introduce, Revoke, Untouched, durable, counts
  <2>2. [NoOp EXCEPT !.pc = "introducing", !.resource = r].pc \notin Requests
        /\ [NoOp EXCEPT !.pc = "revoking", !.resource = r].pc \notin Requests
    BY DEF NoOp
  <2> QED BY <1>2, <2>1, <2>2, <1>g DEF Introduce, Revoke
<1>3. ASSUME NEW o \in Operators, Introduced(o) \/ OpEnds(o) \/ Revoked(o) PROVE RequestStep
  <2>1. ops[o].pc \notin Requests /\ Untouched
    BY <1>3 DEF Introduced, OpEnds, Revoked, Untouched, durable, counts
  <2> QED BY <1>3, <2>1, <1>g, <1>n DEF Introduced, OpEnds, Revoked
<1>4. ASSUME NEW o \in Operators, DecideRequests(o) PROVE RequestStep
  <2>1. ops[o].pc \notin Requests /\ Untouched
    BY <1>4, <1>n DEF DecideRequests, Untouched, durable, counts
  <2>2. \A ids, allow : [NoOp EXCEPT !.pc = "claim", !.todo = ids, !.allow = allow].pc \notin Requests
    BY DEF NoOp
  <2> QED BY <1>4, <2>1, <2>2, <1>g DEF DecideRequests
<1>5. ASSUME NEW o \in Operators, NEW q \in Requests, Claim(o, q) PROVE RequestStep
  <2>1. requests[q].state = "pending" /\ ops[o].pc = "claim" /\ crashes' = crashes
    BY <1>5 DEF Claim, Claims, counts
  <2>2. \A s \in {"resolving", "failed", "rejected"} : Settle(q, s) => Moves(q, s)
    BY <2>1, SettleKeeps DEF Moves
  <2>3. \A op : GoOp(o, op) => ops'[o] = op /\ Only(o)
    BY <1>o DEF GoOp, Only
  <2>4. DOMAIN ops[o] = {"pc", "resource", "todo", "allow"}
    BY DEF TypeOK
  <2>5. CASE Settle(q, "resolving") /\ GoOp(o, [ops[o] EXCEPT !.pc = q, !.resource = requests[q].resource, !.todo = @ \ {q}])
    <3>1. ops'[o].pc = q /\ ops'[o].resource = requests[q].resource
      <4>1. requests[q].resource \in Resources /\ ops[o] \in OpSet
        BY <2>1, <2>5, SettleKeeps, TypeShape
      <4> DEFINE claimed == [ops[o] EXCEPT !.pc = q, !.resource = requests[q].resource, !.todo = @ \ {q}]
      <4>2. claimed.pc = q /\ claimed.resource = requests[q].resource
        BY <4>1 DEF OpSet
      <4>3. ops'[o] = claimed
        BY <2>3, <2>5
      <4> HIDE DEF claimed
      <4> QED BY <4>2, <4>3
    <3> QED BY <2>1, <2>2, <2>3, <2>5, <3>1 DEF RequestStep
  <2>6. CASE Settle(q, "failed") /\ GoOp(o, NoOp)
    BY <2>1, <2>2, <2>3, <2>6, Constants DEF RequestStep
  <2>7. CASE Settle(q, "rejected") /\ GoOp(o, [ops[o] EXCEPT !.todo = @ \ {q}])
    <3>1. ops'[o].pc = "claim"
      BY <2>1, <2>3, <2>4, <2>7
    <3> QED BY <2>1, <2>2, <2>3, <2>7, <3>1 DEF RequestStep
  <2> QED BY <1>5, <2>5, <2>6, <2>7 DEF Claim
<1>6. ASSUME NEW o \in Operators, NEW q \in Requests, Granted(o, q) \/ GrantFails(o, q) PROVE RequestStep
  <2>1. requests[q].state = "resolving" /\ ops[o].pc = q /\ crashes' = crashes
    BY <1>6 DEF Granted, GrantFails, Granting, counts
  <2>2. \A s \in {"granted", "failed"} : Settle(q, s) => Moves(q, s) /\ requests[q].resource \in Resources
    BY <2>1, SettleKeeps DEF Moves
  <2>3. \A op : GoOp(o, op) => ops'[o] = op /\ Only(o)
    BY <1>o DEF GoOp, Only
  <2>4. CASE Granted(o, q)
    <3>1. [ops[o] EXCEPT !.pc = "claim", !.resource = "none"].pc = "claim"
      BY DEF TypeOK
    <3>2. ops'[o].pc = "claim" /\ Only(o)
      BY <2>3, <2>4, <3>1 DEF Granted
    <3>3. Moves(q, "granted") /\ requests[q].resource \in Resources /\ InsertGrant(ops[o].resource)
      BY <2>2, <2>4 DEF Granted
    <3> QED BY <2>1, <3>2, <3>3 DEF RequestStep
  <2>5. CASE GrantFails(o, q)
    <3>1. ops'[o].pc = "idle" /\ Only(o) /\ Moves(q, "failed")
      BY <2>2, <2>3, <2>5, Constants DEF GrantFails
    <3> QED BY <2>1, <3>1 DEF RequestStep
  <2> QED BY <1>6, <2>4, <2>5
<1>7. ASSUME NEW o \in Operators, NEW s \in open, CloseRevoked(o, s) PROVE RequestStep
  BY <1>7, <1>u DEF CloseRevoked, Untouched, durable, counts
<1>8. ASSUME NEW c \in Calls, CallStep(c) PROVE RequestStep
  BY <1>8, <1>u DEF CallStep, BeforeToolCall, SessionOpened, DryRun, Stash, PreflightFails, Decide, StashExpires, Exec,
     ExecDenied, Queue, Lockdown, Return, CallFails, Untouched, durable, counts
<1>9. ASSUME Observe \/ SetMaintenance \/ (\E s \in open : SessionEnd(s)) \/ UNCHANGED vars PROVE RequestStep
  BY <1>9, <1>u DEF Observe, SetMaintenance, SessionEnd, vars, Untouched, durable, memory, counts
<1>10. ASSUME Crash PROVE RequestStep
  BY <1>10, <1>o DEF Crash, RequestStep, durable
<1> QED
  BY <1>1, <1>2, <1>3, <1>4, <1>5, <1>6, <1>7, <1>8, <1>9, <1>10 DEF Next, OperatorStep

LEMMA OwnerNext == ASSUME TypeOK, CallInv, OwnerInv, [Next]_vars PROVE OwnerInv'
<1> USE AuthorityAssumption
<1>g. \A r \in Resources : grants[r] # "none" => grants'[r] # "none"
  BY GrantSteps
<1>r. \A q \in Requests : requests[q].state = "granted" => requests[q].resource \in Resources
  BY DEF TypeOK, Nobody
<1>0. RequestStep
  BY RequestSteps
<1>1. CASE /\ Untouched
           /\ \A o \in Operators : ops'[o].pc \in Requests => ops'[o] = ops[o]
           /\ \A o \in Operators : ops[o].pc \in Requests => ops'[o] = ops[o]
  BY <1>1, <1>g, <1>r DEF Untouched, OwnerInv
<1>2. ASSUME NEW q \in Requests, Added(q) PROVE OwnerInv'
  BY <1>2, <1>g, <1>r, Constants DEF Added, OwnerInv
<1>3. ASSUME NEW q \in Requests, NEW o \in Operators,
             requests[q].state = "pending", Moves(q, "resolving"), Only(o), ops[o].pc = "claim",
             ops'[o].pc = q, ops'[o].resource = requests[q].resource
      PROVE OwnerInv'
  BY <1>3, <1>g, <1>r DEF Moves, Only, OwnerInv
<1>4. ASSUME NEW q \in Requests, NEW o \in Operators, NEW s \in {"failed", "rejected"},
             requests[q].state = "pending", Moves(q, s), Only(o), ops[o].pc = "claim", ops'[o].pc \in {"claim", "idle"}
      PROVE OwnerInv'
  BY <1>4, <1>g, <1>r DEF Moves, Only, OwnerInv
<1>5. ASSUME NEW q \in Requests, NEW o \in Operators, NEW s \in {"failed", "granted"},
             ops[o].pc = q, requests[q].state = "resolving", Moves(q, s), Only(o), ops'[o].pc \in {"claim", "idle"},
             s = "granted" => InsertGrant(ops[o].resource) /\ requests[q].resource \in Resources
      PROVE OwnerInv'
  <2>1. s = "granted" => grants'[requests'[q].resource] # "none"
    BY <1>5, InsertKeeps DEF OwnerInv, Moves
  <2> QED BY <1>5, <1>g, <1>r, <2>1 DEF Moves, Only, OwnerInv
<1>6. CASE UNCHANGED requests /\ crashes' > 0 /\ ops' = [o \in Operators |-> NoOp]
  BY <1>6, <1>g, <1>r, Constants DEF OwnerInv
<1> QED BY <1>0, <1>1, <1>2, <1>3, <1>4, <1>5, <1>6 DEF RequestStep

\* Overlapping decisions settle a request once, and it is granted only what has a
\* grant (decideRequests() of kernel.ts, claimIntroduction() of store.ts).
THEOREM RequestSettlesOnceHolds == Spec => RequestSettlesOnce
<1>1. ASSUME TypeOK, CallInv, OwnerInv, OwnerInv', [Next]_vars
      PROVE \A q \in Requests : /\ requests[q].state \in {"granted", "rejected", "failed"} => requests'[q] = requests[q]
                                /\ requests'[q].state = "granted" => grants'[requests'[q].resource] # "none"
  <2>1. \A q \in Requests : requests'[q].state = "granted" => grants'[requests'[q].resource] # "none"
    BY <1>1 DEF OwnerInv
  <2>2. RequestStep
    BY <1>1, RequestSteps
  <2>3. \A q \in Requests : requests[q].state \in {"granted", "rejected", "failed"} => requests'[q] = requests[q]
    BY <2>2, Constants DEF RequestStep, Untouched, Added, Moves
  <2> QED BY <2>1, <2>3
<1> QED BY <1>1, TypeInit, TypeNext, CallNext, OwnerNext, PTL DEF Spec, RequestSettlesOnce

\* A claimed request is in the hands of exactly one operator, or the kernel ended
\* since (decideRequests() of kernel.ts).
THEOREM ClaimHasOwnerHolds == Spec => []ClaimHasOwner
<1>1. OwnerInv => ClaimHasOwner
  <2> SUFFICES ASSUME OwnerInv, NEW q \in Requests
               PROVE  /\ Cardinality({o \in Operators : ops[o].pc = q}) <= 1
                      /\ requests[q].state = "resolving" => crashes > 0 \/ \E o \in Operators : ops[o].pc = q
    BY DEF ClaimHasOwner
  <2> DEFINE S == {o \in Operators : ops[o].pc = q}
  <2>1. CASE S = {}
    <3> HIDE DEF S
    <3>1. Cardinality(S) = 0
      BY <2>1, FS_EmptySet
    <3> QED BY <3>1 DEF OwnerInv, S
  <2>2. CASE S # {}
    <3>1. PICK o : o \in S
      BY <2>2
    <3>2. S = {o}
      BY <3>1 DEF OwnerInv
    <3> HIDE DEF S
    <3>3. Cardinality(S) = 1
      BY <3>2, FS_Singleton
    <3> QED BY <3>3 DEF OwnerInv, S
  <2> QED BY <2>1, <2>2
<1> QED BY <1>1, TypeInit, TypeNext, CallNext, OwnerNext, PTL DEF Spec
=============================================================================
