------------------------ MODULE AccountRoutingProofs ------------------------
(* Type correctness, single use of nonces, revocation that lasts and silence    *)
(* after a timeout, for every number of browser requests, operations, nonces,   *)
(* driver starts and revocations.                                               *)
EXTENDS AccountRouting, TLAPS

-----------------------------------------------------------------------------
\* A nonce that is found valid is one of the pending ones, and From() is its first.
LEMMA FromFound ==
  ASSUME NEW id, NEW stage, NEW g, Valid(id, stage, g)
  PROVE  \E r \in nonces : r.id = id /\ r \in Found(id, g) /\ From(id, g) = r.from
<1> DEFINE c == CHOOSE s \in Found(id, g) : TRUE
<1>1. \E r : r \in Found(id, g)
  BY DEF Valid
<1>2. c \in Found(id, g)
  BY <1>1
<1>3. From(id, g) = c.from
  BY DEF From
<1> HIDE DEF c
<1>4. c \in nonces /\ c.id = id
  BY <1>2 DEF Found, Flow
<1> QED BY <1>2, <1>3, <1>4

\* Every variable keeps its type: the type invariant is inductive.
LEMMA TypeInit == Init => TypeOK
<1> SUFFICES ASSUME Init PROVE TypeOK
  OBVIOUS
<1>1. 1 \in Gens /\ 0 \in 0..MaxGen /\ 0 \in 0..MaxNonces /\ 0 \in 0..MaxRevokes
  BY RoutingAssumption DEF Gens
<1>2. NoHandler \in [pc : {"idle", "starting", "account", "completing"}, nonce : 0..MaxNonces, gen : 0..MaxGen]
  BY <1>1 DEF NoHandler
<1>3. NoExchange \in [pc : {"free", "lookup", "ok"} \cup Sent, use : {"none", "provision", "introduce", "read"},
                      gen : 0..MaxGen, previous : BOOLEAN, expired : BOOLEAN]
  BY <1>1 DEF NoExchange
<1> QED BY <1>1, <1>2, <1>3 DEF Init, TypeOK

LEMMA TypeNext == ASSUME TypeOK, [Next]_vars PROVE TypeOK'
<1> USE RoutingAssumption
<1> DEFINE HandlerSet == [pc : {"idle", "starting", "account", "completing"}, nonce : 0..MaxNonces, gen : 0..MaxGen]
           ExchangeSet == [pc : {"free", "lookup", "ok"} \cup Sent, use : {"none", "provision", "introduce", "read"},
                           gen : 0..MaxGen, previous : BOOLEAN, expired : BOOLEAN]
<1>h. ASSUME NEW h \in Handlers, NEW r \in HandlerSet, GoHandler(h, r)
      PROVE handlers' \in [Handlers -> HandlerSet]
  BY <1>h DEF TypeOK, GoHandler
<1>i. NoHandler \in HandlerSet
  BY DEF NoHandler
<1>k. ASSUME NEW k \in Exchanges, NEW x \in ExchangeSet, GoExchange(k, x)
      PROVE exchange' \in [Exchanges -> ExchangeSet]
  BY <1>k DEF TypeOK, GoExchange
<1>l. NoExchange \in ExchangeSet
  BY DEF NoExchange
<1>f. ASSUME NEW k \in Exchanges, Free(k) PROVE exchange' \in [Exchanges -> ExchangeSet]
  BY <1>f, <1>k, <1>l DEF Free
<1>m. ASSUME NEW g, Moved(g) PROVE refresh' \in [Gens -> {"none", "fresh", "stale"}]
  BY <1>m DEF TypeOK, Moved
<1>t. ASSUME NEW id, NEW g PROVE Take(id, g) \subseteq NonceRecords
  BY DEF TypeOK, Take
<1>g. gen \in 0..MaxGen /\ gen \in Gens
  BY DEF TypeOK, Gens
<1>1. ASSUME Connect PROVE TypeOK'
  <2>1. Nonce(issued + 1, 1) \in NonceRecords
    BY <1>1, <1>g DEF Connect, Nonce, NonceRecords, TypeOK
  <2> QED BY <1>1, <2>1 DEF Connect, TypeOK, Swept, Flow, credential
<1>2. ASSUME Revoke PROVE TypeOK'
  BY <1>2, <1>m DEF Revoke, TypeOK, routing
<1>3. ASSUME Stop PROVE TypeOK'
  BY <1>3 DEF Stop, TypeOK, credential
<1>4. ASSUME Restart PROVE TypeOK'
  BY <1>4 DEF Restart, TypeOK, Gens, routing, credential
<1>5. ASSUME Crash PROVE TypeOK'
  <2>1. handlers' \in [Handlers -> HandlerSet] /\ exchange' \in [Exchanges -> ExchangeSet]
    BY <1>5, <1>i, <1>l DEF Crash
  <2>2. account' \in [Gens -> BOOLEAN] /\ refresh' \in [Gens -> {"none", "fresh", "stale"}]
    BY <1>5 DEF Crash
  <2>3. up' \in BOOLEAN /\ nonces' \subseteq NonceRecords
    BY <1>5 DEF Crash
  <2> QED BY <1>5, <2>1, <2>2, <2>3 DEF Crash, TypeOK
<1>6. ASSUME NEW n \in 1..MaxNonces, Expire(n) PROVE TypeOK'
  <2>1. \A r \in NonceRecords : [r EXCEPT !.late = @ \/ r.from = n] \in NonceRecords
    BY DEF NonceRecords
  <2>2. \A r \in nonces : [r EXCEPT !.late = @ \/ r.from = n] \in NonceRecords
    BY <2>1 DEF TypeOK
  <2> QED BY <1>6, <2>2 DEF Expire, TypeOK, credential
<1>7. ASSUME NEW n \in 1..MaxNonces, NEW h \in Handlers, Start(h, n) PROVE TypeOK'
  <2>1. CASE Valid(n, 1, gen) /\ issued < MaxNonces /\ issued' = issued + 1
             /\ nonces' = Take(n, gen) \cup {Nonce(From(n, gen), 2)}
             /\ GoHandler(h, [pc |-> "starting", nonce |-> issued + 1, gen |-> gen])
    <3>1. From(n, gen) \in 1..MaxNonces
      BY <2>1, FromFound DEF TypeOK, NonceRecords
    <3>2. Nonce(From(n, gen), 2) \in NonceRecords
      BY <3>1, <2>1, <1>g DEF Nonce, NonceRecords, TypeOK
    <3>3. nonces' \subseteq NonceRecords
      BY <3>2, <2>1, <1>t
    <3>4. [pc |-> "starting", nonce |-> issued + 1, gen |-> gen] \in HandlerSet
      BY <2>1, <1>g DEF TypeOK
    <3>5. handlers' \in [Handlers -> HandlerSet]
      BY <3>4, <2>1, <1>h
    <3> QED BY <1>7, <2>1, <3>3, <3>5 DEF Start, TypeOK, credential
  <2>2. CASE ~Valid(n, 1, gen) /\ nonces' = Take(n, gen) /\ UNCHANGED <<issued, handlers>>
    BY <1>7, <2>2, <1>t DEF Start, TypeOK, credential
  <2> QED BY <1>7, <2>1, <2>2 DEF Start
<1>8. ASSUME NEW n \in 1..MaxNonces, NEW h \in Handlers, Callback(h, n) PROVE TypeOK'
  <2>1. [pc |-> "completing", nonce |-> n, gen |-> gen] \in HandlerSet
    BY <1>g
  <2>2. handlers' \in [Handlers -> HandlerSet]
    BY <1>8, <2>1, <1>h DEF Callback, TypeOK
  <2> QED BY <1>8, <2>2, <1>t DEF Callback, TypeOK, credential
<1>9. ASSUME NEW h \in Handlers, StartStatic(h) PROVE TypeOK'
  <2>1. [handlers[h] EXCEPT !.pc = "account"] \in HandlerSet
    BY DEF TypeOK
  <2>2. handlers' \in [Handlers -> HandlerSet]
    BY <1>9, <2>1, <1>h, <1>i DEF StartStatic
  <2> QED BY <1>9, <2>2, <1>t DEF StartStatic, TypeOK, credential
<1>10. ASSUME NEW h \in Handlers, Redirect(h) \/ RedirectRefused(h) PROVE TypeOK'
  BY <1>10, <1>h, <1>i, <1>t DEF Redirect, RedirectRefused, TypeOK, credential
<1>11. ASSUME NEW h \in Handlers, Complete(h) PROVE TypeOK'
  BY <1>11, <1>h, <1>i, <1>m DEF Complete, TypeOK
<1>12. ASSUME NEW h \in Handlers, CompleteFails(h) \/ AccountAnswer(h) PROVE TypeOK'
  BY <1>12, <1>h, <1>i DEF CompleteFails, AccountAnswer, TypeOK, credential
<1>13. ASSUME NEW g \in Gens, Refresh(g) \/ Refreshed(g) \/ RefreshFails(g) PROVE TypeOK'
  BY <1>13 DEF Refresh, Refreshed, RefreshFails, TypeOK, routing
<1>14. ASSUME NEW k \in Exchanges, Provision(k) PROVE TypeOK'
  <2>1. [NoExchange EXCEPT !.pc = "lookup", !.use = "provision", !.gen = gen, !.previous = Bearer] \in ExchangeSet
    BY <1>g DEF NoExchange, Bearer
  <2> QED BY <1>14, <2>1, <1>k DEF Provision, TypeOK, routing, credential
<1>15. ASSUME NEW k \in Exchanges, Provisioned(k) PROVE TypeOK'
  BY <1>15, <1>f, <1>m DEF Provisioned, TypeOK, routing
<1>16. ASSUME NEW k \in Exchanges, GatekeeperFor(k) \/ Read(k) PROVE TypeOK'
  <2>1. \A use \in {"introduce", "read"} : [NoExchange EXCEPT !.pc = "lookup", !.use = use, !.gen = gen] \in ExchangeSet
    BY <1>g DEF NoExchange
  <2> QED BY <1>16, <2>1, <1>k DEF GatekeeperFor, Read, Use, TypeOK, routing, credential
<1>17. ASSUME NEW k \in Exchanges, Introduced(k) \/ ReadEnds(k) \/ ExchangeFails(k) PROVE TypeOK'
  BY <1>17, <1>f DEF Introduced, ReadEnds, Used, ExchangeFails, TypeOK, routing, credential
<1>18. ASSUME NEW k \in Exchanges, Resolved(k) PROVE TypeOK'
  <2>1. [exchange[k] EXCEPT !.pc = "control"] \in ExchangeSet
    BY DEF TypeOK, Sent
  <2> QED BY <1>18, <2>1, <1>f, <1>k DEF Resolved, TypeOK, routing, credential
<1>19. ASSUME NEW k \in Exchanges, RequireAuthentication(k) \/ Connected(k) \/ Listed(k) \/ Called(k) PROVE TypeOK'
  <2>1. \A to \in {"connect", "list", "call", "ok"} : [exchange[k] EXCEPT !.pc = to] \in ExchangeSet
    BY DEF TypeOK, Sent
  <2> QED BY <1>19, <2>1, <1>k DEF RequireAuthentication, Connected, Listed, Called, Post, TypeOK, routing, credential
<1>20. ASSUME NEW k \in Exchanges, Timeout(k) PROVE TypeOK'
  <2>0. exchange[k] \in ExchangeSet
    BY DEF TypeOK
  <2>1. [exchange[k] EXCEPT !.expired = TRUE, !.use = "none"] \in ExchangeSet
    BY <2>0
  <2> QED BY <1>20, <2>1, <1>f, <1>k DEF Timeout, TypeOK, routing, credential
<1>21. ASSUME UNCHANGED vars PROVE TypeOK'
  BY <1>21 DEF vars, routing, credential, TypeOK
<1> QED
  BY <1>1, <1>2, <1>3, <1>4, <1>5, <1>6, <1>7, <1>8, <1>9, <1>10, <1>11, <1>12, <1>13, <1>14, <1>15,
     <1>16, <1>17, <1>18, <1>19, <1>20, <1>21 DEF Next

\* Every variable holds what its map, file or operation can hold, in every state.
THEOREM TypeCorrect == Spec => []TypeOK
BY TypeInit, TypeNext, PTL DEF Spec

-----------------------------------------------------------------------------
\* Nonces.  A nonce is drawn once; of one connect there is at most one pending
\* nonce, and none once the connect was gone through with.
NonceInv ==
  /\ used \in [1..MaxNonces -> 0..1]
  /\ \A r \in nonces : r.id <= issued /\ r.from <= issued /\ used[r.from] = 0
  /\ \A r, s \in nonces : r.id = s.id \/ r.from = s.from => r = s
  /\ \A n \in 1..MaxNonces : n > issued => used[n] = 0

LEMMA NonceInit == Init => NonceInv
BY RoutingAssumption DEF Init, NonceInv

\* Consuming a nonce, and marking what it was bound to as gone through with.
LEMMA TakeKeeps ==
  ASSUME TypeOK, NonceInv, NEW id, NEW g, nonces' = Take(id, g), issued' = issued,
         used' = used \/ (Valid(id, 2, g) /\ Spend(id, g))
  PROVE  NonceInv'
<1>1. CASE used' = used
  BY <1>1 DEF NonceInv, Take
<1>2. CASE Valid(id, 2, g) /\ Spend(id, g)
  <2>1. PICK r \in nonces : r \in Found(id, g) /\ From(id, g) = r.from
    BY <1>2, FromFound
  <2>2. r.from \in 1..MaxNonces /\ used[r.from] = 0
    BY DEF TypeOK, NonceRecords, NonceInv
  <2>3. used' = [used EXCEPT ![r.from] = 1]
    BY <1>2, <2>1, <2>2 DEF Spend
  <2>4. \A s \in nonces' : s \in nonces /\ s.from # r.from
    BY <2>1 DEF NonceInv, Take
  <2> QED BY <2>2, <2>3, <2>4 DEF NonceInv, TypeOK, NonceRecords
<1> QED BY <1>1, <1>2

LEMMA NonceNext == ASSUME TypeOK, NonceInv, [Next]_vars PROVE NonceInv'
<1> USE RoutingAssumption
<1>1. ASSUME Connect PROVE NonceInv'
  <2>1. nonces' = Swept \cup {Nonce(issued + 1, 1)} /\ Swept \subseteq nonces
    BY <1>1 DEF Connect, Swept, Flow
  <2>2. issued' = issued + 1 /\ issued + 1 \in 1..MaxNonces /\ used' = used
    BY <1>1 DEF Connect, TypeOK
  <2>3. \A r \in Swept : r.id <= issued /\ r.from <= issued
    BY <2>1 DEF NonceInv
  <2>4. Nonce(issued + 1, 1).id = issued + 1 /\ Nonce(issued + 1, 1).from = issued + 1
    BY DEF Nonce
  <2> QED BY <2>1, <2>2, <2>3, <2>4 DEF NonceInv, TypeOK, NonceRecords
<1>2. ASSUME NEW n \in 1..MaxNonces, Expire(n) PROVE NonceInv'
  <2>1. \A r \in nonces' : \E s \in nonces : r = [s EXCEPT !.late = @ \/ s.from = n]
    BY <1>2 DEF Expire
  <2>2. \A s \in nonces : LET r == [s EXCEPT !.late = @ \/ s.from = n] IN r.id = s.id /\ r.from = s.from
    BY DEF TypeOK, NonceRecords
  <2>3. ASSUME NEW r \in nonces' PROVE \E s \in nonces : r.id = s.id /\ r.from = s.from
    <3>1. PICK s \in nonces : r = [s EXCEPT !.late = @ \/ s.from = n]
      BY <2>1
    <3>2. r.id = s.id /\ r.from = s.from
      BY <2>2, <3>1
    <3> QED BY <3>2
  <2>4. ASSUME NEW r \in nonces', NEW t \in nonces', r.id = t.id \/ r.from = t.from PROVE r = t
    <3>1. PICK s \in nonces : r = [s EXCEPT !.late = @ \/ s.from = n]
      BY <2>1
    <3>2. PICK u \in nonces : t = [u EXCEPT !.late = @ \/ u.from = n]
      BY <2>1
    <3>3. s.id = u.id \/ s.from = u.from
      BY <2>2, <2>4, <3>1, <3>2
    <3> QED BY <3>1, <3>2, <3>3 DEF NonceInv
  <2> QED BY <1>2, <2>3, <2>4 DEF Expire, NonceInv
<1>3. ASSUME NEW n \in 1..MaxNonces, NEW h \in Handlers, Start(h, n) PROVE NonceInv'
  <2>1. CASE Valid(n, 1, gen) /\ issued < MaxNonces /\ issued' = issued + 1
             /\ nonces' = Take(n, gen) \cup {Nonce(From(n, gen), 2)}
    <3>1. PICK r \in nonces : r \in Found(n, gen) /\ From(n, gen) = r.from
      BY <2>1, FromFound
    <3> DEFINE new == Nonce(r.from, 2)
    <3>2. new.id = issued + 1 /\ new.from = r.from
      BY DEF Nonce
    <3>3. \A s \in Take(n, gen) : s \in nonces /\ s.from # r.from /\ s.id <= issued
      BY <3>1 DEF NonceInv, Take
    <3>4. used' = used /\ nonces' = Take(n, gen) \cup {new}
      BY <1>3, <2>1, <3>1 DEF Start
    <3>5. issued \in Nat /\ r.from \in 1..MaxNonces /\ r.from <= issued /\ used[r.from] = 0
      BY DEF TypeOK, NonceInv, NonceRecords
    <3>6. \A s \in nonces : s.id \in Nat /\ s.from \in Nat
      BY DEF TypeOK, NonceRecords
    <3> HIDE DEF new
    <3>7. \A s \in nonces' : s.id <= issued' /\ s.from <= issued' /\ used'[s.from] = 0
      BY <2>1, <3>2, <3>3, <3>4, <3>5, <3>6 DEF NonceInv
    <3>8. \A s, t \in nonces' : s.id = t.id \/ s.from = t.from => s = t
      BY <2>1, <3>2, <3>3, <3>4, <3>5, <3>6 DEF NonceInv
    <3> QED BY <2>1, <3>4, <3>5, <3>7, <3>8 DEF NonceInv
  <2>2. CASE nonces' = Take(n, gen) /\ UNCHANGED <<issued, handlers>>
    BY <1>3, <2>2, TakeKeeps DEF Start
  <2> QED BY <1>3, <2>1, <2>2 DEF Start
<1>4. ASSUME NEW n \in 1..MaxNonces, NEW h \in Handlers, Callback(h, n) PROVE NonceInv'
  BY <1>4, TakeKeeps DEF Callback
<1>5. ASSUME NEW h \in Handlers, StartStatic(h) PROVE NonceInv'
  BY <1>5, TakeKeeps DEF StartStatic
<1>6. ASSUME NEW h \in Handlers, RedirectRefused(h) PROVE NonceInv'
  BY <1>6, TakeKeeps DEF RedirectRefused
<1>7. ASSUME Stop \/ Crash PROVE NonceInv'
  BY <1>7 DEF Stop, Crash, NonceInv
<1>8. ASSUME UNCHANGED <<nonces, issued, used>> PROVE NonceInv'
  BY <1>8 DEF NonceInv
<1>9. ASSUME UNCHANGED routing \/ UNCHANGED vars PROVE NonceInv'
  BY <1>8, <1>9 DEF routing, vars
<1>10. ASSUME NEW h \in Handlers, Redirect(h) \/ Complete(h) \/ CompleteFails(h) \/ AccountAnswer(h) PROVE NonceInv'
  BY <1>8, <1>10 DEF Redirect, Complete, CompleteFails, AccountAnswer
<1>11. ASSUME Revoke \/ Restart PROVE NonceInv'
  BY <1>9, <1>11 DEF Revoke, Restart
<1>12. ASSUME NEW g \in Gens, Refresh(g) \/ Refreshed(g) \/ RefreshFails(g) PROVE NonceInv'
  BY <1>9, <1>12 DEF Refresh, Refreshed, RefreshFails
<1>13. ASSUME NEW k \in Exchanges,
              \/ Provision(k) \/ Provisioned(k) \/ GatekeeperFor(k) \/ Introduced(k) \/ Read(k) \/ ReadEnds(k)
              \/ Resolved(k) \/ ExchangeFails(k) \/ Timeout(k)
       PROVE NonceInv'
  BY <1>9, <1>13 DEF Provision, Provisioned, GatekeeperFor, Introduced, Read, ReadEnds, Use, Used, Resolved,
     ExchangeFails, Timeout
<1>14. ASSUME NEW k \in Exchanges, RequireAuthentication(k) \/ Connected(k) \/ Listed(k) \/ Called(k) PROVE NonceInv'
  BY <1>9, <1>14 DEF RequireAuthentication, Connected, Listed, Called, Post
<1> QED
  BY <1>1, <1>2, <1>3, <1>4, <1>5, <1>6, <1>7, <1>9, <1>10, <1>11, <1>12, <1>13, <1>14 DEF Next

\* One connect leads to at most one account or code exchange (oauth-nonce.ts, oauth.ts).
THEOREM SingleUseHolds == Spec => []SingleUse
<1>1. NonceInv => SingleUse
  BY DEF NonceInv, SingleUse
<1> QED BY <1>1, TypeInit, TypeNext, NonceInit, NonceNext, PTL DEF Spec

-----------------------------------------------------------------------------
\* Credentials.  A refresh of the running generation that may still store finds a
\* credential; no generation is ahead of the running one; only an oauth vendor
\* completes and only a static one provisions, one operation of the running
\* generation at a time, before there is an account, and from what was there
\* before if the account has been revoked.
AccountInv ==
  /\ refresh[gen] = "fresh" => Bearer
  /\ \A g \in Gens : g > gen => refresh[g] = "none"
  /\ \A h \in Handlers : handlers[h].pc = "completing" => kind = "oauth"
  /\ \A k \in Exchanges : exchange[k].use = "provision" => Static /\ exchange[k].gen <= gen
  /\ \A k \in Exchanges : exchange[k].use = "provision" /\ exchange[k].gen = gen
       => ~account[gen] /\ (ended => exchange[k].previous)
  /\ \A k, l \in Exchanges :
       /\ exchange[k].use = "provision" /\ exchange[k].gen = gen
       /\ exchange[l].use = "provision" /\ exchange[l].gen = gen
       => k = l
  /\ Static /\ ended => record # "none"

LEMMA AccountInit == Init => AccountInv
BY RoutingAssumption DEF Init, AccountInv, Gens, NoHandler, NoExchange

\* A step of an exchange that goes on, or is given up on, starts no provisioning.
LEMMA ExchangeKeeps ==
  ASSUME TypeOK, AccountInv, UNCHANGED <<kind, gen, credential, handlers>>,
         NEW k \in Exchanges, NEW x, exchange' = [exchange EXCEPT ![k] = x],
         x.use # "provision" \/ (x.use = exchange[k].use /\ x.gen = exchange[k].gen /\ x.previous = exchange[k].previous)
  PROVE  AccountInv'
<1>1. \A l \in Exchanges : exchange'[l].use = "provision" =>
        exchange[l].use = "provision" /\ exchange'[l].gen = exchange[l].gen /\ exchange'[l].previous = exchange[l].previous
  BY DEF TypeOK
<1> QED BY <1>1 DEF AccountInv, credential, Bearer, Static

LEMMA AccountNext == ASSUME TypeOK, AccountInv, [Next]_vars PROVE AccountInv'
<1> USE RoutingAssumption
<1>g. gen \in Gens /\ gen \in Nat /\ Gens \subseteq Nat
  BY DEF TypeOK, Gens
<1>n. NoExchange.use = "none" /\ NoHandler.pc = "idle"
  BY DEF NoExchange, NoHandler
<1>1. ASSUME UNCHANGED <<kind, gen, credential, exchange, handlers>> PROVE AccountInv'
  BY <1>1 DEF AccountInv, credential, Bearer, Static
<1>2. ASSUME NEW h \in Handlers, NEW r, UNCHANGED <<kind, gen, credential, exchange>>, GoHandler(h, r),
             r.pc = "completing" => kind = "oauth"
      PROVE AccountInv'
  <2>1. \A i \in Handlers : handlers'[i].pc = "completing" => kind = "oauth"
    BY <1>2 DEF GoHandler, AccountInv, TypeOK
  <2> QED BY <1>2, <2>1 DEF AccountInv, credential, Bearer, Static
<1>3. ASSUME Connect \/ Stop \/ UNCHANGED vars PROVE AccountInv'
  BY <1>1, <1>3 DEF Connect, Stop, vars, routing
<1>4. ASSUME NEW n \in 1..MaxNonces, Expire(n) PROVE AccountInv'
  BY <1>1, <1>4 DEF Expire
<1>5. ASSUME NEW n \in 1..MaxNonces, NEW h \in Handlers, Start(h, n) PROVE AccountInv'
  BY <1>1, <1>2, <1>5 DEF Start
<1>6. ASSUME NEW n \in 1..MaxNonces, NEW h \in Handlers, Callback(h, n) PROVE AccountInv'
  BY <1>1, <1>2, <1>6 DEF Callback
<1>7. ASSUME NEW h \in Handlers, StartStatic(h) PROVE AccountInv'
  <2>1. [handlers[h] EXCEPT !.pc = "account"].pc = "account"
    BY DEF TypeOK
  <2> QED BY <1>2, <1>7, <1>n, <2>1 DEF StartStatic
<1>8. ASSUME NEW h \in Handlers, Redirect(h) \/ RedirectRefused(h) \/ CompleteFails(h) \/ AccountAnswer(h)
      PROVE AccountInv'
  BY <1>2, <1>8, <1>n DEF Redirect, RedirectRefused, CompleteFails, AccountAnswer
<1>9. ASSUME NEW h \in Handlers, Complete(h) PROVE AccountInv'
  <2>1. kind = "oauth" /\ ~Static
    BY <1>9 DEF Complete, AccountInv, Static
  <2>2. \A k \in Exchanges : exchange[k].use # "provision"
    BY <2>1 DEF AccountInv
  <2>3. \A i \in Handlers : handlers'[i].pc = "completing" => kind = "oauth"
    BY <2>1
  <2>4. \A g \in Gens : g > gen => refresh'[g] = "none"
    BY <1>9 DEF Complete, Moved, AccountInv, TypeOK
  <2> QED BY <1>9, <2>1, <2>2, <2>3, <2>4 DEF Complete, AccountInv, Bearer, Static
<1>10. ASSUME Revoke PROVE AccountInv'
  <2>1. \A k \in Exchanges : ~(exchange[k].use = "provision" /\ exchange[k].gen = gen)
    BY <1>10 DEF Revoke, AccountInv
  <2>2. refresh'[gen] # "fresh" /\ \A g \in Gens : g > gen => refresh'[g] = "none"
    BY <1>10, <1>g DEF Revoke, Moved, AccountInv, TypeOK
  <2> QED BY <1>10, <2>1, <2>2 DEF Revoke, AccountInv, Static, Bearer, routing
<1>11. ASSUME Restart PROVE AccountInv'
  <2>1. gen' = gen + 1 /\ gen' \in Gens /\ refresh'[gen'] = "none"
    BY <1>11, <1>g DEF Restart, AccountInv, TypeOK, Gens, credential
  <2>2. \A k \in Exchanges : exchange[k].use = "provision" => exchange[k].gen # gen' /\ exchange[k].gen <= gen'
    BY <2>1, <1>g DEF AccountInv, TypeOK
  <2> QED BY <1>11, <1>g, <2>1, <2>2 DEF Restart, AccountInv, Static, Bearer, routing, credential
<1>12. ASSUME Crash PROVE AccountInv'
  BY <1>12, <1>n, <1>g DEF Crash, AccountInv, Static
<1>13. ASSUME NEW g \in Gens, Refresh(g) PROVE AccountInv'
  BY <1>13, <1>g DEF Refresh, Current, AccountInv, TypeOK, Bearer, Static, routing
<1>14. ASSUME NEW g \in Gens, Refreshed(g) \/ RefreshFails(g) PROVE AccountInv'
  <2>1. record' = record \/ record' = "bearer"
    BY <1>14 DEF Refreshed, RefreshFails
  <2>2. \A f \in Gens : refresh'[f] = refresh[f] \/ refresh'[f] = "none"
    BY <1>14 DEF Refreshed, RefreshFails, TypeOK
  <2> QED BY <1>14, <1>g, <2>1, <2>2 DEF Refreshed, RefreshFails, AccountInv, Bearer, Static, routing
<1>15. ASSUME NEW k \in Exchanges, Provision(k) PROVE AccountInv'
  <2> DEFINE x == [NoExchange EXCEPT !.pc = "lookup", !.use = "provision", !.gen = gen, !.previous = Bearer]
  <2>1. x.use = "provision" /\ x.gen = gen /\ x.previous = Bearer
    BY DEF NoExchange
  <2> HIDE DEF x
  <2>2. \A l \in Exchanges : exchange'[l] = IF l = k THEN x ELSE exchange[l]
    BY <1>15 DEF Provision, GoExchange, TypeOK, x
  <2>3. Static /\ ~account[gen] /\ (ended => Bearer)
    BY <1>15 DEF Provision, AccountInv, Bearer, TypeOK
  <2>4. \A l \in Exchanges : ~(exchange[l].use = "provision" /\ exchange[l].gen = gen)
    BY <1>15 DEF Provision, Provisioning
  <2>5. UNCHANGED <<kind, gen, handlers, account, record, refresh, ended>>
    BY <1>15 DEF Provision, routing, credential
  <2>6. ended => x.previous
    BY <2>1, <2>3
  <2>7. \A l \in Exchanges : exchange'[l].use = "provision" => Static /\ exchange'[l].gen <= gen
    BY <1>g, <2>1, <2>2, <2>3 DEF AccountInv
  <2>8. \A l \in Exchanges : exchange'[l].use = "provision" /\ exchange'[l].gen = gen => l = k
    BY <2>2, <2>4
  <2> QED BY <2>2, <2>3, <2>5, <2>6, <2>7, <2>8 DEF AccountInv, Bearer, Static
<1>16. ASSUME NEW k \in Exchanges, Provisioned(k) PROVE AccountInv'
  <2>1. \A l \in Exchanges : exchange'[l] = IF l = k THEN NoExchange ELSE exchange[l]
    BY <1>16 DEF Provisioned, Free, GoExchange, TypeOK
  <2>2. record' = record \/ record' = "bearer"
    BY <1>16 DEF Provisioned
  <2>3. \A f \in Gens : refresh'[f] = refresh[f] \/ (refresh[f] = "fresh" /\ refresh'[f] = "stale")
    BY <1>16 DEF Provisioned, Moved, TypeOK
  <2>4. \A l \in Exchanges : exchange'[l].use = "provision" /\ exchange'[l].gen = gen => ~account'[gen]
    BY <1>16, <1>g, <1>n, <2>1 DEF Provisioned, AccountInv, TypeOK
  <2> QED BY <1>16, <1>g, <1>n, <2>1, <2>2, <2>3, <2>4 DEF Provisioned, AccountInv, Bearer, Static, routing
<1>17. ASSUME NEW k \in Exchanges, Free(k), UNCHANGED <<kind, gen, credential, handlers>> PROVE AccountInv'
  BY <1>17, <1>n, ExchangeKeeps DEF Free, GoExchange
<1>18. ASSUME NEW k \in Exchanges, GatekeeperFor(k) \/ Read(k) PROVE AccountInv'
  <2>1. \A use : [NoExchange EXCEPT !.pc = "lookup", !.use = use, !.gen = gen].use = use
    BY DEF NoExchange
  <2> QED BY <1>18, <2>1, ExchangeKeeps DEF GatekeeperFor, Read, Use, GoExchange, routing
<1>19. ASSUME NEW k \in Exchanges, Introduced(k) \/ ReadEnds(k) \/ ExchangeFails(k) PROVE AccountInv'
  BY <1>17, <1>19 DEF Introduced, ReadEnds, Used, ExchangeFails, routing
<1>20. ASSUME NEW k \in Exchanges, NEW to, GoExchange(k, [exchange[k] EXCEPT !.pc = to]),
              UNCHANGED <<kind, gen, credential, handlers>>
       PROVE AccountInv'
  <2>1. LET x == [exchange[k] EXCEPT !.pc = to]
        IN x.use = exchange[k].use /\ x.gen = exchange[k].gen /\ x.previous = exchange[k].previous
    BY DEF TypeOK
  <2> QED BY <1>20, <2>1, ExchangeKeeps DEF GoExchange
<1>21. ASSUME NEW k \in Exchanges, Resolved(k) PROVE AccountInv'
  BY <1>17, <1>20, <1>21 DEF Resolved, routing
<1>22. ASSUME NEW k \in Exchanges, RequireAuthentication(k) \/ Connected(k) \/ Listed(k) \/ Called(k) PROVE AccountInv'
  BY <1>20, <1>22 DEF RequireAuthentication, Connected, Listed, Called, Post, routing
<1>23. ASSUME NEW k \in Exchanges, Timeout(k) PROVE AccountInv'
  <2>1. [exchange[k] EXCEPT !.expired = TRUE, !.use = "none"].use = "none"
    BY DEF TypeOK
  <2> QED BY <1>17, <1>23, <2>1, ExchangeKeeps DEF Timeout, GoExchange, routing
<1> QED
  BY <1>3, <1>4, <1>5, <1>6, <1>7, <1>8, <1>9, <1>10, <1>11, <1>12, <1>13, <1>14, <1>15, <1>16, <1>18, <1>19,
     <1>21, <1>22, <1>23 DEF Next

\* A revoked credential comes back by an operator's new connection only, or out of
\* what an earlier start of the driver left behind (token-store.ts, account.ts).
THEOREM RevokedStaysRevokedHolds == Spec => RevokedStaysRevoked
<1> DEFINE Returns == ended /\ ended' /\ record # "bearer" /\ record' = "bearer"
           Left == \/ \E g \in 1..(gen - 1) : refresh[g] # refresh'[g]
                   \/ \E k \in Exchanges : exchange[k].gen < gen /\ exchange[k].use = "provision" /\ exchange[k] # exchange'[k]
<1>1. ASSUME TypeOK, AccountInv, [Next]_vars, Returns PROVE Left
  <2>g. gen \in Gens /\ gen \in Nat /\ Gens \subseteq Nat
    BY <1>1, RoutingAssumption DEF TypeOK, Gens
  <2>1. (\E g \in Gens : Refreshed(g)) \/ (\E k \in Exchanges : Provisioned(k))
    <3>1. ~UNCHANGED record /\ ended' # FALSE
      BY <1>1
    <3>2. ~UNCHANGED credential
      BY <3>1 DEF credential
    <3>3. ~Connect /\ ~Revoke /\ ~Stop /\ ~Restart /\ ~Crash /\ ~UNCHANGED vars
      BY <1>1, <3>1, <3>2 DEF Connect, Revoke, Stop, Restart, Crash, vars
    <3>4. ASSUME NEW n \in 1..MaxNonces, NEW h \in Handlers PROVE ~Expire(n) /\ ~Start(h, n) /\ ~Callback(h, n)
      BY <3>2 DEF Expire, Start, Callback
    <3>5. ASSUME NEW n \in 1..MaxNonces PROVE ~Expire(n)
      BY <3>2 DEF Expire
    <3>6. ASSUME NEW h \in Handlers
          PROVE ~StartStatic(h) /\ ~Redirect(h) /\ ~RedirectRefused(h) /\ ~Complete(h) /\ ~CompleteFails(h) /\ ~AccountAnswer(h)
      BY <3>1, <3>2 DEF StartStatic, Redirect, RedirectRefused, Complete, CompleteFails, AccountAnswer
    <3>7. ASSUME NEW g \in Gens PROVE ~Refresh(g) /\ ~RefreshFails(g)
      BY <3>1 DEF Refresh, RefreshFails
    <3>8. ASSUME NEW k \in Exchanges
          PROVE /\ ~Provision(k) /\ ~GatekeeperFor(k) /\ ~Introduced(k) /\ ~Read(k) /\ ~ReadEnds(k) /\ ~Resolved(k)
                /\ ~RequireAuthentication(k) /\ ~Connected(k) /\ ~Listed(k) /\ ~Called(k) /\ ~ExchangeFails(k) /\ ~Timeout(k)
      BY <3>2 DEF Provision, GatekeeperFor, Introduced, Read, ReadEnds, Use, Used, Resolved, RequireAuthentication,
         Connected, Listed, Called, Post, ExchangeFails, Timeout
    <3> QED BY <1>1, <3>3, <3>4, <3>5, <3>6, <3>7, <3>8 DEF Next
  <2>2. ASSUME NEW g \in Gens, Refreshed(g) PROVE Left
    <3>1. refresh[g] = "fresh" /\ refresh'[g] = "none"
      BY <1>1, <2>2 DEF Refreshed, Storable, TypeOK
    <3>2. g # gen /\ ~(g > gen)
      BY <1>1, <3>1 DEF AccountInv, Bearer
    <3>3. g \in 1..(gen - 1)
      BY <2>g, <3>2 DEF Gens
    <3> QED BY <3>1, <3>3
  <2>3. ASSUME NEW k \in Exchanges, Provisioned(k) PROVE Left
    <3>1. exchange[k].use = "provision" /\ ~exchange[k].previous /\ exchange[k].pc = "ok" /\ exchange'[k] = NoExchange
      BY <1>1, <2>3 DEF Provisioned, Free, GoExchange, TypeOK
    <3>2. exchange[k].gen <= gen /\ exchange[k].gen # gen
      BY <1>1, <3>1 DEF AccountInv
    <3>g. exchange[k].gen \in 0..MaxGen
      BY <1>1 DEF TypeOK
    <3>3. exchange[k].gen < gen
      BY <2>g, <3>2, <3>g, RoutingAssumption
    <3>4. exchange[k] # NoExchange
      BY <3>1 DEF NoExchange
    <3> QED BY <3>1, <3>3, <3>4
  <2> QED BY <2>1, <2>2, <2>3
<1>2. TypeOK /\ AccountInv /\ [Next]_vars => [Returns => Left]_vars
  BY <1>1
<1> QED BY <1>2, TypeInit, TypeNext, AccountInit, AccountNext, PTL DEF Spec, RevokedStaysRevoked

-----------------------------------------------------------------------------
\* Exchanges.  An operation that was given up on is at most in the lookup that
\* cannot be stopped, and ends there (transport.ts).
LEMMA SilentInit == Init => SilentAfterTimeout
BY DEF Init, SilentAfterTimeout, NoExchange

LEMMA SilentNext == ASSUME TypeOK, SilentAfterTimeout, [Next]_vars PROVE SilentAfterTimeout'
<1>1. ASSUME UNCHANGED exchange PROVE SilentAfterTimeout'
  BY <1>1 DEF SilentAfterTimeout
<1>2. ASSUME NEW k \in Exchanges, NEW x, GoExchange(k, x), x.expired => x.pc = "lookup" PROVE SilentAfterTimeout'
  BY <1>2 DEF SilentAfterTimeout, GoExchange, TypeOK
<1>3. ASSUME NEW k \in Exchanges, Free(k) PROVE SilentAfterTimeout'
  BY <1>2, <1>3 DEF Free, NoExchange
<1>4. ASSUME NEW k \in Exchanges, exchange[k].pc # "lookup" \/ ~exchange[k].expired, NEW to,
             GoExchange(k, [exchange[k] EXCEPT !.pc = to])
      PROVE SilentAfterTimeout'
  <2>1. ~exchange[k].expired
    BY <1>4 DEF SilentAfterTimeout
  <2>2. ~[exchange[k] EXCEPT !.pc = to].expired
    BY <2>1 DEF TypeOK
  <2> QED BY <1>2, <1>4, <2>2
<1>5. ASSUME Connect \/ Revoke \/ Stop \/ Restart \/ UNCHANGED vars PROVE SilentAfterTimeout'
  BY <1>1, <1>5 DEF Connect, Revoke, Stop, Restart, vars
<1>6. ASSUME Crash PROVE SilentAfterTimeout'
  BY <1>6 DEF Crash, SilentAfterTimeout, NoExchange
<1>7. ASSUME NEW n \in 1..MaxNonces, Expire(n) \/ \E h \in Handlers : Start(h, n) \/ Callback(h, n)
      PROVE SilentAfterTimeout'
  BY <1>1, <1>7 DEF Expire, Start, Callback
<1>8. ASSUME NEW h \in Handlers, StartStatic(h) \/ Redirect(h) \/ RedirectRefused(h) \/ Complete(h) \/ CompleteFails(h) \/ AccountAnswer(h)
      PROVE SilentAfterTimeout'
  BY <1>1, <1>8 DEF StartStatic, Redirect, RedirectRefused, Complete, CompleteFails, AccountAnswer
<1>9. ASSUME NEW g \in Gens, Refresh(g) \/ Refreshed(g) \/ RefreshFails(g) PROVE SilentAfterTimeout'
  BY <1>1, <1>9 DEF Refresh, Refreshed, RefreshFails
<1>10. ASSUME NEW k \in Exchanges, Provision(k) \/ GatekeeperFor(k) \/ Read(k) PROVE SilentAfterTimeout'
  <2>1. ~[NoExchange EXCEPT !.pc = "lookup", !.use = "provision", !.gen = gen, !.previous = Bearer].expired
    BY DEF NoExchange
  <2>2. \A use : ~[NoExchange EXCEPT !.pc = "lookup", !.use = use, !.gen = gen].expired
    BY DEF NoExchange
  <2> QED BY <1>2, <1>10, <2>1, <2>2 DEF Provision, GatekeeperFor, Read, Use
<1>11. ASSUME NEW k \in Exchanges, Provisioned(k) \/ Introduced(k) \/ ReadEnds(k) \/ ExchangeFails(k)
       PROVE SilentAfterTimeout'
  BY <1>3, <1>11 DEF Provisioned, Introduced, ReadEnds, Used, ExchangeFails
<1>12. ASSUME NEW k \in Exchanges, Resolved(k) PROVE SilentAfterTimeout'
  BY <1>3, <1>4, <1>12 DEF Resolved, InTime
<1>13. ASSUME NEW k \in Exchanges, RequireAuthentication(k) \/ Connected(k) \/ Listed(k) \/ Called(k)
       PROVE SilentAfterTimeout'
  BY <1>4, <1>13 DEF RequireAuthentication, Connected, Listed, Called, Post
<1>14. ASSUME NEW k \in Exchanges, Timeout(k) PROVE SilentAfterTimeout'
  <2>1. [exchange[k] EXCEPT !.expired = TRUE, !.use = "none"].pc = exchange[k].pc
    BY DEF TypeOK
  <2> QED BY <1>2, <1>3, <1>14, <2>1 DEF Timeout
<1> QED
  BY <1>5, <1>6, <1>7, <1>8, <1>9, <1>10, <1>11, <1>12, <1>13, <1>14 DEF Next

\* An operation that was given up on has no request under way and begins none.
THEOREM SilentAfterTimeoutHolds == Spec => []SilentAfterTimeout
BY TypeInit, TypeNext, SilentInit, SilentNext, PTL DEF Spec
=============================================================================
