--------------------------- MODULE AccountRouting ---------------------------
(* How an operator's account of a vendor comes to exist and to end: the         *)
(* kernel's connection router and its nonces (gkos-kernel/src/oauth.ts,         *)
(* gatekeeper-kit/src/oauth-nonce.ts), driver generations (registry.ts, kit     *)
(* driver.ts), the credential record with its provisioning, refresh and         *)
(* tombstone (token-store.ts, gkos-gatekeeper-mcp vendor.ts and account.ts), and *)
(* the bounded exchange with the remote server (transport.ts).  One operator,    *)
(* one vendor, one binding.  A "static" vendor provisions from a configured      *)
(* secret; an "oauth" vendor completes connections itself.                       *)
EXTENDS Naturals, FiniteSets

CONSTANTS Handlers,    \* browser requests that may be in flight
          Exchanges,   \* server operations that may be in flight
          MaxNonces,   \* bound: nonces that are drawn
          MaxGen,      \* bound: starts of the driver
          MaxRevokes   \* bound: revocations of the account

ASSUME RoutingAssumption == MaxNonces \in Nat /\ MaxGen \in Nat \ {0} /\ MaxRevokes \in Nat

VARIABLES
  kind,      \* what the vendor is: "static" or "oauth"
  up, gen,   \* the driver is started; which start this is
  nonces,    \* OAuthNonceMachine.pending of each generation's flow
  issued,    \* nonces drawn so far
  handlers,  \* browser requests: where each is, with which nonce of which generation
  account,   \* per generation: the accounts map has the operator
  record,    \* the operator's credential file: "none", "bearer" or "tombstone"
  refresh,   \* per generation: TokenStore.refreshes, and whether its generation has moved
  exchange,  \* withServer() operations
  revokes,
  used,      \* history: per drawn nonce, how often its connection was gone through with
  ended      \* history: the account was revoked and no operator connected it since

routing == <<nonces, issued, handlers, used>>
credential == <<account, record, refresh, revokes, ended>>
vars == <<kind, up, gen, routing, credential, exchange>>

Gens == 1..MaxGen
NoHandler == [pc |-> "idle", nonce |-> 0, gen |-> 0]
\* A use of "none" is an operation nobody waits for any more.
NoExchange == [pc |-> "free", use |-> "none", gen |-> 0, previous |-> FALSE, expired |-> FALSE]

Init ==
  /\ kind \in {"static", "oauth"} /\ up = TRUE /\ gen = 1
  /\ nonces = {} /\ issued = 0 /\ handlers = [h \in Handlers |-> NoHandler] /\ used = [n \in 1..MaxNonces |-> 0]
  /\ account = [g \in Gens |-> FALSE] /\ record = "none" /\ refresh = [g \in Gens |-> "none"]
  /\ revokes = 0 /\ ended = FALSE /\ exchange = [k \in Exchanges |-> NoExchange]

-----------------------------------------------------------------------------
\* OAuthNonceMachine.

\* The vendor's proxy answers only while its generation is the running one.
Current(g) == up /\ g = gen

\* flow(): another vendor object has other nonces.
Flow(g) == {r \in nonces : r.gen = g}
Found(id, g) == {r \in Flow(g) : r.id = id}
Valid(id, stage, g) == \E r \in Found(id, g) : r.stage = stage /\ ~r.late
From(id, g) == (CHOOSE r \in Found(id, g) : TRUE).from

\* Mutant: a nonce is looked at and left where it is.
Keep(id, g) == nonces

\* take(): whatever is found is deleted, and only then looked at.
Take(id, g) == nonces \ Found(id, g)

\* A nonce that was never drawn before; advancing keeps what the first was bound to.
Nonce(from, stage) == [id |-> issued + 1, from |-> from, stage |-> stage, gen |-> gen, late |-> FALSE]

\* sweep(): what has expired goes when the next one is issued.
Swept == {r \in Flow(gen) : ~r.late}

Connect ==
  /\ up /\ issued < MaxNonces /\ issued' = issued + 1
  /\ nonces' = Swept \cup {Nonce(issued + 1, 1)}
  /\ UNCHANGED <<kind, up, gen, handlers, used, credential, exchange>>

Expire(f) ==
  /\ \E r \in nonces : r.from = f /\ ~r.late
  /\ nonces' = {[r EXCEPT !.late = @ \/ r.from = f] : r \in nonces}
  /\ UNCHANGED <<kind, up, gen, issued, handlers, used, credential, exchange>>

-----------------------------------------------------------------------------
\* OAuthRouter.handle(): a browser may send any nonce, to either end, again.

GoHandler(h, r) == handlers' = [handlers EXCEPT ![h] = r]

Start(h, id) ==
  /\ up /\ handlers[h] = NoHandler /\ id <= issued
  /\ \/ /\ Valid(id, 1, gen) /\ issued < MaxNonces /\ issued' = issued + 1
        /\ nonces' = Take(id, gen) \cup {Nonce(From(id, gen), 2)}
        /\ GoHandler(h, [pc |-> "starting", nonce |-> issued + 1, gen |-> gen])
     \/ ~Valid(id, 1, gen) /\ nonces' = Take(id, gen) /\ UNCHANGED <<issued, handlers>>
  /\ UNCHANGED <<kind, up, gen, used, credential, exchange>>

Spend(id, g) == used' = [used EXCEPT ![From(id, g)] = @ + 1]

\* staticAccount(): the vendor makes accounts by itself and completes no connection.
Static == kind = "static"

\* A static vendor: the advanced nonce is consumed, then the account is asked for.
StartStatic(h) ==
  LET id == handlers[h].nonce g == handlers[h].gen IN
  /\ handlers[h].pc = "starting" /\ Static /\ nonces' = Take(id, g)
  /\ IF Current(g) /\ Valid(id, 2, g)
     THEN Spend(id, g) /\ GoHandler(h, [handlers[h] EXCEPT !.pc = "account"])
     ELSE UNCHANGED used /\ GoHandler(h, NoHandler)
  /\ UNCHANGED <<kind, up, gen, issued, credential, exchange>>

\* connectAccount() of the vendor: a redirect that carries the advanced nonce.
Redirect(h) ==
  /\ handlers[h].pc = "starting" /\ kind = "oauth" /\ GoHandler(h, NoHandler)
  /\ Current(handlers[h].gen)
  /\ UNCHANGED <<kind, up, gen, nonces, issued, used, credential, exchange>>

\* authorizationUrl() will not have the address, or there is none: the nonce is consumed.
RedirectRefused(h) ==
  /\ handlers[h].pc = "starting" /\ kind = "oauth" /\ GoHandler(h, NoHandler)
  /\ nonces' = Take(handlers[h].nonce, handlers[h].gen)
  /\ UNCHANGED <<kind, up, gen, issued, used, credential, exchange>>

Callback(h, id) ==
  /\ up /\ handlers[h] = NoHandler /\ id <= issued /\ nonces' = Take(id, gen)
  /\ IF kind = "oauth" /\ Valid(id, 2, gen)
     THEN Spend(id, gen) /\ GoHandler(h, [pc |-> "completing", nonce |-> id, gen |-> gen])
     ELSE UNCHANGED <<used, handlers>>
  /\ UNCHANGED <<kind, up, gen, issued, credential, exchange>>

-----------------------------------------------------------------------------
\* get(): what is in the file, if it was written for this store and operator.
Bearer == record = "bearer"

\* TokenStore: a put or a remove makes a refresh of the same store stale.

Moved(g) == refresh' = [refresh EXCEPT ![g] = IF @ = "fresh" THEN "stale" ELSE @]

\* completeConnection() of the vendor, with its put().
Complete(h) ==
  LET g == handlers[h].gen IN
  /\ handlers[h].pc = "completing" /\ record' = "bearer" /\ Moved(g) /\ ended' = FALSE
  /\ account' = [account EXCEPT ![g] = TRUE] /\ GoHandler(h, NoHandler)
  /\ UNCHANGED <<kind, up, gen, nonces, issued, used, revokes, exchange>>

CompleteFails(h) ==
  /\ handlers[h].pc = "completing" /\ GoHandler(h, NoHandler)
  /\ UNCHANGED <<kind, up, gen, nonces, issued, used, credential, exchange>>

Refresh(g) ==
  /\ kind = "oauth" /\ Current(g) /\ account[g] /\ Bearer /\ refresh[g] = "none"
  /\ refresh' = [refresh EXCEPT ![g] = "fresh"]
  /\ UNCHANGED <<kind, up, gen, routing, account, record, revokes, ended, exchange>>

\* Mutant: what was fetched is stored whatever happened meanwhile.
StoreAnyway(g) == refresh[g] # "none"

Storable(g) == refresh[g] = "fresh"

Refreshed(g) ==
  /\ refresh[g] # "none" /\ refresh' = [refresh EXCEPT ![g] = "none"]
  /\ record' = IF Storable(g) THEN "bearer" ELSE record
  /\ UNCHANGED <<kind, up, gen, routing, account, revokes, ended, exchange>>

RefreshFails(g) ==
  /\ refresh[g] # "none" /\ refresh' = [refresh EXCEPT ![g] = "none"]
  /\ UNCHANGED <<kind, up, gen, routing, account, record, revokes, ended, exchange>>

\* The account's revoke(): a static vendor leaves a tombstone, an oauth vendor removes.
Revoke ==
  /\ up /\ account[gen] /\ revokes < MaxRevokes /\ revokes' = revokes + 1 /\ ended' = TRUE
  /\ account' = [account EXCEPT ![gen] = FALSE] /\ Moved(gen)
  /\ record' = IF Static THEN "tombstone" ELSE "none"
  /\ UNCHANGED <<kind, up, gen, routing, exchange>>

-----------------------------------------------------------------------------
\* McpVendor.createAccount() and provision(), McpServer's read.

Provisioning(g) == \E k \in Exchanges : exchange[k].use = "provision" /\ exchange[k].gen = g

GoExchange(k, x) == exchange' = [exchange EXCEPT ![k] = x]

\* close(): requests that are under way are destroyed.
Free(k) == GoExchange(k, NoExchange)

\* A record that does not bind this endpoint, a tombstone for one, denies.
Provision(k) ==
  /\ Static /\ up /\ ~account[gen] /\ ~Provisioning(gen) /\ record # "tombstone"
  /\ exchange[k] = NoExchange
  /\ GoExchange(k, [NoExchange EXCEPT !.pc = "lookup", !.use = "provision", !.gen = gen, !.previous = Bearer])
  /\ UNCHANGED <<kind, up, gen, routing, credential>>

Provisioned(k) ==
  /\ exchange[k].pc = "ok" /\ exchange[k].use = "provision" /\ Free(k)
  /\ record' = IF exchange[k].previous THEN record ELSE "bearer"
  /\ account' = [account EXCEPT ![exchange[k].gen] = TRUE]
  /\ IF exchange[k].previous THEN UNCHANGED refresh ELSE Moved(exchange[k].gen)
  /\ UNCHANGED <<kind, up, gen, routing, revokes, ended>>

\* The connection that waits for the account: it is there, or no provisioning is.
AccountAnswer(h) ==
  /\ handlers[h].pc = "account" /\ ~Provisioning(handlers[h].gen) /\ GoHandler(h, NoHandler)
  /\ UNCHANGED <<kind, up, gen, nonces, issued, used, credential, exchange>>

\* credential(): the account is live and the record binds a bearer.
Credential(g) == account[g] /\ Bearer

Use(k, use) ==
  /\ Static /\ up /\ Credential(gen) /\ exchange[k] = NoExchange
  /\ GoExchange(k, [NoExchange EXCEPT !.pc = "lookup", !.use = use, !.gen = gen])
  /\ UNCHANGED <<kind, up, gen, routing, credential>>

\* Looked at again after the exchange, through a proxy that has its own guard; an
\* operation that finds the credential gone ends as one that failed.
Used(k, use) ==
  /\ exchange[k].pc = "ok" /\ exchange[k].use = use /\ Free(k)
  /\ Current(exchange[k].gen) /\ Credential(exchange[k].gen)
  /\ UNCHANGED <<kind, up, gen, routing, credential>>

\* An introduction inspects the inventory once more.
GatekeeperFor(k) == Use(k, "introduce")
Introduced(k) == Used(k, "introduce")

\* A session's call reads one note.
Read(k) == Use(k, "read")
ReadEnds(k) == Used(k, "read")

-----------------------------------------------------------------------------
\* withServer(): lookup, anonymous control, connect, inventory, the one call.

Sent == {"control", "connect", "list", "call"}

\* Mutant: an answer of the resolver is used whenever it comes.
ResolvedInTime(k) == TRUE

InTime(k) == ~exchange[k].expired

Resolved(k) ==
  /\ exchange[k].pc = "lookup"
  /\ IF InTime(k) THEN GoExchange(k, [exchange[k] EXCEPT !.pc = "control"]) ELSE Free(k)
  /\ UNCHANGED <<kind, up, gen, routing, credential>>

\* post(): one request, one bounded answer to it.
Post(k, from, to) ==
  /\ exchange[k].pc = from /\ GoExchange(k, [exchange[k] EXCEPT !.pc = to])
  /\ UNCHANGED <<kind, up, gen, routing, credential>>

\* The server refuses a request without the bearer, or it is no proof of an account.
RequireAuthentication(k) == Post(k, "control", "connect")

Connected(k) == Post(k, "connect", "list")

\* The inventory, page after page; provisioning wants no more.
Listed(k) == Post(k, "list", IF exchange[k].use = "read" THEN "call" ELSE "ok")

\* readServerNote(): the one call, whose answer must not contain the bearer.
Called(k) == Post(k, "call", "ok")

ExchangeFails(k) ==
  /\ exchange[k].pc # "free" /\ Free(k)
  /\ UNCHANGED <<kind, up, gen, routing, credential>>

\* The total timeout closes the transport; a lookup has none yet and cannot be stopped.
Timeout(k) ==
  /\ exchange[k].pc # "free" /\ ~exchange[k].expired
  /\ IF exchange[k].pc = "lookup"
     THEN GoExchange(k, [exchange[k] EXCEPT !.expired = TRUE, !.use = "none"])
     ELSE Free(k)
  /\ UNCHANGED <<kind, up, gen, routing, credential>>

-----------------------------------------------------------------------------
\* Registry.stop() and start(), OAuthRouter.clear(): in the same process, what
\* the old generation awaits goes on.

Stop ==
  /\ up /\ up' = FALSE /\ nonces' = {}
  /\ UNCHANGED <<kind, gen, issued, handlers, used, credential, exchange>>

Restart ==
  /\ ~up /\ gen < MaxGen /\ up' = TRUE /\ gen' = gen + 1
  /\ UNCHANGED <<kind, routing, credential, exchange>>

Crash ==
  /\ up' = FALSE /\ nonces' = {} /\ handlers' = [h \in Handlers |-> NoHandler]
  /\ account' = [g \in Gens |-> FALSE] /\ refresh' = [g \in Gens |-> "none"]
  /\ exchange' = [k \in Exchanges |-> NoExchange]
  /\ UNCHANGED <<kind, gen, issued, used, record, revokes, ended>>

Next ==
  \/ Connect \/ Revoke \/ Stop \/ Restart \/ Crash
  \/ \E n \in 1..MaxNonces : Expire(n) \/ \E h \in Handlers : Start(h, n) \/ Callback(h, n)
  \/ \E h \in Handlers : StartStatic(h) \/ Redirect(h) \/ RedirectRefused(h)
       \/ Complete(h) \/ CompleteFails(h) \/ AccountAnswer(h)
  \/ \E g \in Gens : Refresh(g) \/ Refreshed(g) \/ RefreshFails(g)
  \/ \E k \in Exchanges :
       \/ Provision(k) \/ Provisioned(k) \/ GatekeeperFor(k) \/ Introduced(k) \/ Read(k) \/ ReadEnds(k)
       \/ Resolved(k) \/ RequireAuthentication(k) \/ Connected(k) \/ Listed(k) \/ Called(k)
       \/ ExchangeFails(k) \/ Timeout(k)

Spec == Init /\ [][Next]_vars

-----------------------------------------------------------------------------

NonceRecords == [id : 1..MaxNonces, from : 1..MaxNonces, stage : {1, 2}, gen : Gens, late : BOOLEAN]

\* Every variable holds what its map, file or operation can hold.
TypeOK ==
  /\ kind \in {"static", "oauth"} /\ up \in BOOLEAN /\ gen \in Gens
  /\ nonces \subseteq NonceRecords /\ issued \in 0..MaxNonces
  /\ handlers \in [Handlers -> [pc : {"idle", "starting", "account", "completing"}, nonce : 0..MaxNonces, gen : 0..MaxGen]]
  /\ account \in [Gens -> BOOLEAN] /\ record \in {"none", "bearer", "tombstone"}
  /\ refresh \in [Gens -> {"none", "fresh", "stale"}] /\ revokes \in 0..MaxRevokes /\ ended \in BOOLEAN
  /\ exchange \in [Exchanges -> [pc : {"free", "lookup", "ok"} \cup Sent, use : {"none", "provision", "introduce", "read"},
                                gen : 0..MaxGen, previous : BOOLEAN, expired : BOOLEAN]]

\* "Single-use, ten-minute, operator-bound" (oauth.ts:13): one connect of an operator
\* leads to at most one account or code exchange, however often, in whatever order and
\* to whichever end its two nonces are sent, and across restarts of the driver.
SingleUse == \A n \in 1..MaxNonces : used[n] <= 1

\* "Removed ... so it cannot restore revoked credentials" (token-store.ts:48) and the
\* tombstone (account.ts:48): a revoked credential comes back by an operator's new
\* connection only, or out of an operation that an earlier start of the driver left
\* behind: neither the generations of a TokenStore nor a read tombstone reach those.
RevokedStaysRevoked ==
  [][(ended /\ ended' /\ record # "bearer" /\ record' = "bearer") =>
       \/ \E g \in 1..(gen - 1) : refresh[g] # refresh'[g]
       \/ \E k \in Exchanges : exchange[k].gen < gen /\ exchange[k].use = "provision" /\ exchange[k] # exchange'[k]]_vars

\* "The expiry guard prevents late DNS from initiating requests" (transport.ts:222): an
\* operation that was given up on has no request under way and begins none.
SilentAfterTimeout == \A k \in Exchanges : exchange[k].expired => exchange[k].pc = "lookup"
=============================================================================
