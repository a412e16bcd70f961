--------------------------- MODULE KernelAuthority ---------------------------
(* The kernel between an agent and its grants (gkos-kernel/src/kernel.ts,      *)
(* store.ts, registry.ts, approvals.ts): introductions by operators and on      *)
(* request, the two halves of a tool call with the stash between them, the      *)
(* driver sessions they leave open, observers, lockdown and revocation, for one *)
(* agent in one conversation.  Every step up to an await is one action; a grant *)
(* is named by its resource.  What an action does after it is submitted is      *)
(* ActionPipeline's subject.                                                    *)
EXTENDS Naturals, FiniteSets

CONSTANTS Resources,   \* what can be granted
          Requests,    \* the rows an agent may add with os_request_access
          Calls,       \* tool-call ids, which the model chooses and may use again
          Operators,
          MaxCalls,    \* bound: tool calls that are begun
          MaxRevokes,  \* bound: revocations that are begun
          MaxCrashes   \* bound: ends of the kernel process

ASSUME AuthorityAssumption ==
  /\ {MaxCalls, MaxRevokes, MaxCrashes} \subseteq Nat /\ "none" \notin Resources
  /\ Requests \cap {"idle", "introducing", "claim", "revoking"} = {}

VARIABLES
  grants,    \* table grants: "none", "active", "revoked" or "lockdown"
  requests,  \* table introductions: state and resource of each row
  approvals, \* table approval_decisions: the ids with an allow
  observed,  \* table observers has a row for the conversation
  maint,     \* the maintenance file
  calls,     \* per id: where its call is, and whether the stash holds it
  open,      \* runtime.sessions: the driver sessions that are registered and open
  ops,       \* what each operator's command is doing
  begun, revokes, crashes

durable == <<grants, requests, approvals, observed, maint>>
memory == <<calls, open, ops>>
counts == <<begun, revokes, crashes>>
vars == <<durable, memory, counts>>

\* n: which of the calls this is, so that its session is its own.
NoCall == [pc |-> "none", resource |-> "none", n |-> 0, act |-> FALSE, stash |-> FALSE]
NoOp == [pc |-> "idle", resource |-> "none", todo |-> {}, allow |-> FALSE]
Nobody == [state |-> "none", resource |-> "none"]

Init ==
  /\ grants = [r \in Resources |-> "none"] /\ requests = [q \in Requests |-> Nobody]
  /\ approvals = {} /\ observed = FALSE /\ maint = FALSE
  /\ calls = [c \in Calls |-> NoCall] /\ open = {} /\ ops = [o \in Operators |-> NoOp]
  /\ begun = 0 /\ revokes = 0 /\ crashes = 0

\* authorizeGrant() and the audience check: every grant is owner-only.
Authorized(r) == grants[r] = "active" /\ ~observed

GoOp(o, op) == ops' = [ops EXCEPT ![o] = op]

\* Mutant: the row loses what it asks for.
SettleUnbound(q, s) == requests' = [requests EXCEPT ![q] = [state |-> s, resource |-> "none"]]

Settle(q, s) == requests' = [requests EXCEPT ![q].state = s]

-----------------------------------------------------------------------------
\* os_request_access, os.requests.approve and reject, os.grants.introduce.

RequestAccess(q, r) ==
  /\ requests[q] = Nobody
  /\ requests' = [requests EXCEPT ![q] = [state |-> "pending", resource |-> r]]
  /\ UNCHANGED <<grants, approvals, observed, maint, memory, counts>>

Introduce(o, r) ==
  /\ ~maint /\ ops[o] = NoOp
  /\ GoOp(o, [NoOp EXCEPT !.pc = "introducing", !.resource = r])
  /\ UNCHANGED <<durable, calls, open, counts>>

\* Mutant: a grant that is there already is made active again.
InsertReplace(r) == grants' = [grants EXCEPT ![r] = "active"]

\* insertGrant(): a row of the same identity is left as it is.
InsertGrant(r) == grants' = [grants EXCEPT ![r] = IF @ = "none" THEN "active" ELSE @]

Introduced(o) ==
  /\ ops[o].pc = "introducing" /\ InsertGrant(ops[o].resource) /\ GoOp(o, NoOp)
  /\ UNCHANGED <<requests, approvals, observed, maint, calls, open, counts>>

\* decideRequests(): the pending rows are listed once, for all ids.
DecideRequests(o) ==
  /\ ~maint /\ ops[o] = NoOp
  /\ \E ids \in SUBSET {q \in Requests : requests[q].state = "pending"}, allow \in BOOLEAN :
       ids # {} /\ GoOp(o, [NoOp EXCEPT !.pc = "claim", !.todo = ids, !.allow = allow])
  /\ UNCHANGED <<durable, calls, open, counts>>

\* Mutant: the list that was read is believed.
ClaimListed(o, q) == q \in ops[o].todo

\* claimIntroduction(): only a row that is still pending.
Claims(o, q) == q \in ops[o].todo /\ requests[q].state = "pending"

Claim(o, q) ==
  /\ ops[o].pc = "claim" /\ Claims(o, q)
  /\ \/ /\ ops[o].allow /\ ~observed /\ Settle(q, "resolving")
        /\ GoOp(o, [ops[o] EXCEPT !.pc = q, !.resource = requests[q].resource, !.todo = @ \ {q}])
     \/ ops[o].allow /\ observed /\ Settle(q, "failed") /\ GoOp(o, NoOp)
     \/ ~ops[o].allow /\ Settle(q, "rejected") /\ GoOp(o, [ops[o] EXCEPT !.todo = @ \ {q}])
  /\ UNCHANGED <<grants, approvals, observed, maint, calls, open, counts>>

\* The claimed row q is what the operator waits for.
Granting(o, q) == ops[o].pc = q /\ requests[q].state = "resolving"

Granted(o, q) ==
  /\ Granting(o, q) /\ InsertGrant(ops[o].resource) /\ Settle(q, "granted")
  /\ GoOp(o, [ops[o] EXCEPT !.pc = "claim", !.resource = "none"])
  /\ UNCHANGED <<approvals, observed, maint, calls, open, counts>>

\* Mutant: the failed introduction is not recorded.
FailsUnrecorded(o, q) ==
  /\ Granting(o, q) /\ GoOp(o, NoOp)
  /\ UNCHANGED <<durable, calls, open, counts>>

GrantFails(o, q) ==
  /\ Granting(o, q) /\ Settle(q, "failed") /\ GoOp(o, NoOp)
  /\ UNCHANGED <<grants, approvals, observed, maint, calls, open, counts>>

\* Mutant: a row that somebody else has claimed is waited for.
EndsWhenDone(o) ==
  /\ ops[o].pc = "introducing" \/ (ops[o].pc = "claim" /\ ops[o].todo = {})
  /\ GoOp(o, NoOp)
  /\ UNCHANGED <<durable, calls, open, counts>>

\* A row that is no longer pending, an introduction that fails, or nothing left to do.
OpEnds(o) ==
  /\ \/ ops[o].pc = "introducing"
     \/ ops[o].pc = "claim" /\ (ops[o].todo = {} \/ \E q \in ops[o].todo : requests[q].state # "pending")
  /\ GoOp(o, NoOp)
  /\ UNCHANGED <<durable, calls, open, counts>>

-----------------------------------------------------------------------------
\* revoke(): authority first, then the stash, then one session after the other.

Unstashed(r) == [c \in Calls |-> IF calls[c].resource = r THEN [calls[c] EXCEPT !.stash = FALSE] ELSE calls[c]]

Revoke(o, r) ==
  /\ ~maint /\ ops[o] = NoOp /\ grants[r] # "none"
  /\ revokes < MaxRevokes /\ revokes' = revokes + 1
  /\ grants' = [grants EXCEPT ![r] = "revoked"] /\ calls' = Unstashed(r)
  /\ GoOp(o, [NoOp EXCEPT !.pc = "revoking", !.resource = r])
  /\ UNCHANGED <<requests, approvals, observed, maint, open, begun, crashes>>

CloseRevoked(o, s) ==
  /\ ops[o].pc = "revoking" /\ s.resource = ops[o].resource /\ open' = open \ {s}
  /\ UNCHANGED <<durable, calls, ops, counts>>

NothingLeft(o) == \A s \in open : s.resource # ops[o].resource

Revoked(o) ==
  /\ ops[o].pc = "revoking" /\ NothingLeft(o) /\ GoOp(o, NoOp)
  /\ UNCHANGED <<durable, calls, open, counts>>

-----------------------------------------------------------------------------
\* onBeforeToolCall(): resolve, open, dry run, stash.

SessionOf(c) == [n |-> calls[c].n, resource |-> calls[c].resource]
Live(c) == SessionOf(c) \in open

GoCall(c, pc) == calls' = [calls EXCEPT ![c].pc = pc]
EndCall(c) == calls' = [calls EXCEPT ![c] = NoCall]

BeforeToolCall(c, r) ==
  /\ calls[c] = NoCall /\ begun < MaxCalls /\ begun' = begun + 1
  /\ Authorized(r)
  /\ \E act \in BOOLEAN :
       calls' = [calls EXCEPT ![c] = [NoCall EXCEPT !.pc = "resolving", !.resource = r, !.n = begun + 1, !.act = act]]
  /\ UNCHANGED <<durable, open, ops, revokes, crashes>>

\* The end of resolveGrant(): the grant it was asked for is not looked at again.
SessionOpened(c) ==
  /\ calls[c].pc = "resolving" /\ open' = open \cup {SessionOf(c)} /\ GoCall(c, "opened")
  /\ UNCHANGED <<durable, ops, counts>>

DryRun(c) ==
  /\ calls[c].pc = "opened" /\ Live(c) /\ ~observed /\ GoCall(c, "dry")
  /\ UNCHANGED <<durable, open, ops, counts>>

\* An action asks the owner first; the host runs the tool after the answer.
Stash(c) ==
  /\ calls[c].pc = "dry" /\ Live(c)
  /\ calls' = [calls EXCEPT ![c].pc = IF calls[c].act THEN "asked" ELSE "ready", ![c].stash = TRUE]
  /\ UNCHANGED <<durable, open, ops, counts>>

\* "No such grant.": whatever failed, the session it opened stays.
PreflightFails(c) ==
  /\ calls[c].pc \in {"resolving", "opened", "dry"} /\ EndCall(c)
  /\ UNCHANGED <<durable, open, ops, counts>>

\* recordToolDecision() replaces the row of an earlier call of the same id.
Decide(c) ==
  /\ calls[c].pc = "asked"
  /\ \/ approvals' = approvals \cup {c} /\ GoCall(c, "ready")
     \/ approvals' = approvals \ {c} /\ EndCall(c)
  /\ UNCHANGED <<grants, requests, observed, maint, open, ops, counts>>

StashExpires(c) ==
  /\ calls[c].stash /\ calls' = [calls EXCEPT ![c].stash = FALSE]
  /\ UNCHANGED <<durable, open, ops, counts>>

-----------------------------------------------------------------------------
\* onToolResult(): the stash is consumed, the authority looked at again.

\* Mutant: what the preflight found is trusted.
StashTrusted(c) == calls[c].stash

MayExec(c) == calls[c].stash /\ Authorized(calls[c].resource)

Exec(c) ==
  /\ calls[c].pc = "ready" /\ MayExec(c) /\ Live(c)
  /\ calls[c].act => c \in approvals
  /\ approvals' = approvals \ {c}
  /\ calls' = [calls EXCEPT ![c].pc = "running", ![c].stash = FALSE]
  /\ UNCHANGED <<grants, requests, observed, maint, open, ops, counts>>

\* Denied by exec(), which consumes the decision only once it has the authority.
ExecDenied(c) ==
  /\ calls[c].pc = "ready" /\ EndCall(c)
  /\ \/ ~MayExec(c) /\ UNCHANGED approvals
     \/ MayExec(c) /\ (~Live(c) \/ (calls[c].act /\ c \notin approvals)) /\ approvals' = approvals \ {c}
  /\ UNCHANGED <<grants, requests, observed, maint, open, ops, counts>>

\* authorizeObservation() or submitAction() of the session's queue, in a live session.
Queue(c) ==
  /\ calls[c].pc = "running" /\ Live(c) /\ Authorized(calls[c].resource) /\ GoCall(c, "using")
  /\ UNCHANGED <<durable, open, ops, counts>>

\* Somebody has joined, and the driver says that nothing of the resource may be shared.
Lockdown(c) ==
  /\ calls[c].pc = "running" /\ ~calls[c].act /\ Live(c)
  /\ grants[calls[c].resource] = "active" /\ observed
  /\ grants' = [grants EXCEPT ![calls[c].resource] = "lockdown"] /\ EndCall(c)
  /\ UNCHANGED <<requests, approvals, observed, maint, open, ops, counts>>

\* The value reaches the conversation.
Return(c) ==
  /\ calls[c].pc = "using" /\ Live(c) /\ EndCall(c)
  /\ UNCHANGED <<durable, open, ops, counts>>

CallFails(c) ==
  /\ calls[c].pc \in {"running", "using"} /\ EndCall(c)
  /\ UNCHANGED <<durable, open, ops, counts>>

-----------------------------------------------------------------------------
\* onReplyDispatch() and onBeforeAgentRun(): somebody but the owner takes part.
Observe ==
  /\ ~observed /\ ~maint /\ observed' = TRUE
  /\ UNCHANGED <<grants, requests, approvals, maint, memory, counts>>

SetMaintenance ==
  /\ maint' = ~maint
  /\ UNCHANGED <<grants, requests, approvals, observed, memory, counts>>

\* onSessionEnd() closes the sessions of the conversation one by one.
SessionEnd(s) ==
  /\ s \in open /\ open' = open \ {s}
  /\ UNCHANGED <<durable, calls, ops, counts>>

\* stop(), or a death: what was only in memory is gone.
Crash ==
  /\ crashes < MaxCrashes /\ crashes' = crashes + 1
  /\ calls' = [c \in Calls |-> NoCall] /\ open' = {} /\ ops' = [o \in Operators |-> NoOp]
  /\ UNCHANGED <<durable, begun, revokes>>

OperatorStep(o) ==
  \/ \E r \in Resources : Introduce(o, r) \/ Revoke(o, r)
  \/ Introduced(o) \/ DecideRequests(o) \/ OpEnds(o) \/ Revoked(o)
  \/ \E q \in Requests : Claim(o, q) \/ Granted(o, q) \/ GrantFails(o, q)
  \/ \E s \in open : CloseRevoked(o, s)

CallStep(c) ==
  \/ \E r \in Resources : BeforeToolCall(c, r)
  \/ SessionOpened(c) \/ DryRun(c) \/ Stash(c) \/ PreflightFails(c) \/ Decide(c) \/ StashExpires(c)
  \/ Exec(c) \/ ExecDenied(c) \/ Queue(c) \/ Lockdown(c) \/ Return(c) \/ CallFails(c)

Next ==
  \/ \E q \in Requests, r \in Resources : RequestAccess(q, r)
  \/ \E o \in Operators : OperatorStep(o)
  \/ \E c \in Calls : CallStep(c)
  \/ Observe \/ SetMaintenance \/ Crash
  \/ \E s \in open : SessionEnd(s)

\* A command that was accepted goes on: what it awaits, a driver's answer or the
\* closing of a session, settles either way.
CommandStep(o) ==
  \/ Introduced(o) \/ OpEnds(o) \/ Revoked(o)
  \/ \E q \in Requests : Claim(o, q) \/ Granted(o, q) \/ GrantFails(o, q)
  \/ \E s \in open : CloseRevoked(o, s)

Spec == Init /\ [][Next]_vars /\ \A o \in Operators : WF_vars(CommandStep(o))

-----------------------------------------------------------------------------

Phases == {"none", "resolving", "opened", "dry", "asked", "ready", "running", "using"}

\* Every variable holds what its table, map or file can hold.
TypeOK ==
  /\ grants \in [Resources -> {"none", "active", "revoked", "lockdown"}]
  /\ requests \in [Requests -> {Nobody} \cup
       [state : {"pending", "resolving", "granted", "rejected", "failed"}, resource : Resources]]
  /\ approvals \subseteq Calls /\ observed \in BOOLEAN /\ maint \in BOOLEAN
  /\ calls \in [Calls -> [pc : Phases, resource : Resources \cup {"none"}, n : 0..MaxCalls,
                         act : BOOLEAN, stash : BOOLEAN]]
  /\ open \subseteq [n : 1..MaxCalls, resource : Resources]
  /\ ops \in [Operators -> [pc : {"idle", "introducing", "claim", "revoking"} \cup Requests,
                           resource : Resources \cup {"none"}, todo : SUBSET Requests, allow : BOOLEAN]]
  /\ begun \in 0..MaxCalls /\ revokes \in 0..MaxRevokes /\ crashes \in 0..MaxCrashes

\* A grant that was ended stays ended, whatever introduction, request or other
\* command of an operator was under way when it was (kernel.ts:98, store.ts:36-39).
EndedForever ==
  [][\A r \in Resources :
       /\ grants[r] = "revoked" => grants'[r] = "revoked"
       /\ grants[r] = "lockdown" => grants'[r] \in {"lockdown", "revoked"}]_vars

\* "No retained session may continue using it" (kernel.ts:100): once revoke() has
\* returned, no call that had passed its checks, and none whose session was opened
\* while the grant was revoked, still has a session in which to go on.
RevokedMeansOver ==
  \A c \in Calls :
    /\ calls[c].pc \in {"running", "using"} /\ grants[calls[c].resource] = "revoked"
    /\ \A o \in Operators : ~(ops[o].pc = "revoking" /\ ops[o].resource = calls[c].resource)
    => ~Live(c)

\* Overlapping decisions settle a request once: what was decided is not decided
\* again, and "granted" is said only of a resource that has a grant row.
RequestSettlesOnce ==
  [][\A q \in Requests :
       /\ requests[q].state \in {"granted", "rejected", "failed"} => requests'[q] = requests[q]
       /\ requests'[q].state = "granted" => grants'[requests'[q].resource] # "none"]_vars

\* A claimed request is in the hands of exactly one operator, or the kernel ended
\* since: nothing else leaves it "resolving", where no list shows it any more.
ClaimHasOwner ==
  \A q \in Requests :
    /\ Cardinality({o \in Operators : ops[o].pc = q}) <= 1
    /\ requests[q].state = "resolving" => crashes > 0 \/ \E o \in Operators : ops[o].pc = q

\* Every command of an operator ends, a revocation too, though calls that were on
\* their way open further sessions of the grant while it closes them.
CommandsEnd == \A o \in Operators : ops[o] # NoOp ~> ops[o] = NoOp
=============================================================================
