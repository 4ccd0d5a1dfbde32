-------------------------- MODULE AdminPlaneProofs --------------------------
(***************************************************************************)
(* Proofs about AdminPlane: what the role gate, the key cache and the      *)
(* audit log promise, for any number of concurrent requests, keys, tokens, *)
(* overrides and any cache lifetime and fetch timeout.                     *)
(***************************************************************************)
EXTENDS AdminPlane, TLAPS

-----------------------------------------------------------------------------
(* The inductive invariant.                                                *)

CachePlaces == {"age", "fetch", "arrive", "stamp", "reread"}
Places == {"idle", "mw", "gate", "run", "respond", "done", "dropped"} \cup CachePlaces
Principals == [kid : Kids \cup {"none", "dev"}, roles : SUBSET {"Operator", "Admin"}]
Requests ==
  [pc : Places, at : AuthPlaces \cup {"idle"}, kind : Kinds \cup {"none"},
   token : Tokens \cup {NoToken}, since : Nat, doc : SUBSET Kids, failed : BOOLEAN,
   principal : Principals, usedAt : Nat \cup {Never}, usedStale : BOOLEAN, usedGone : BOOLEAN,
   status : Nat]

AuthTypeOK ==
  /\ clock \in Nat
  /\ authMode \in AuthModes
  /\ devReads \in BOOLEAN
  /\ published \subseteq Kids
  /\ withdrawnAt \in [Kids -> Nat \cup {Never}]
  /\ keys \subseteq Kids
  /\ lastRefresh \in Nat \cup {NoRefresh}
  /\ req \in [Reqs -> Requests]

TypeInv == /\ AuthTypeOK /\ AdminTypeOK
           /\ backend \in {"sqlite", "postgres"}
           /\ written \subseteq Reqs /\ unlogged \subseteq Reqs

\* A key the provider publishes, or did once.
Seen(k) == k \in published \/ withdrawnAt[k] # Never

\* A withdrawal is not in the future and is for good.
Withdrawals == \A k \in Kids : withdrawnAt[k] # Never =>
                 withdrawnAt[k] <= clock /\ k \notin published

\* The provider still published the key one fetch timeout before a given time.
Recent(k, time) == withdrawnAt[k] # Never => withdrawnAt[k] >= time - FetchTimeout

\* The cache holds keys of a document that was at most one fetch timeout old
\* when the cache was last stamped, and when the keys were stored after that.
CacheAge ==
  /\ lastRefresh <= clock
  /\ \A k \in keys : Seen(k) /\ Recent(k, lastRefresh)

\* A fetch in flight is younger than its timeout, and the document it brings
\* is one the provider served since it began.
FetchAge(r) ==
  req[r].pc \in {"fetch", "arrive"} =>
    /\ req[r].since <= clock /\ clock - req[r].since <= FetchTimeout
    /\ req[r].pc = "arrive" =>
         \A k \in req[r].doc : /\ Seen(k)
                               /\ withdrawnAt[k] # Never => withdrawnAt[k] >= req[r].since

\* Between a successful refresh, its stamp and the lookup after it no time
\* passes, so the keys it is about to stamp are recent although another
\* request's document may have replaced them.
RereadFresh(r) ==
  /\ req[r].pc = "stamp" => \A k \in keys : Recent(k, clock)
  /\ req[r].pc = "reread" /\ ~req[r].failed => lastRefresh = clock

\* A request whose principal is being extracted knows which place asked; only
\* one with a token looks up and fetches keys or is checked against a key, and
\* the key it holds while the age is checked is the provider's.
HasToken(r) ==
  /\ req[r].pc \in AuthPlaces \cup CachePlaces => req[r].at \in AuthPlaces
  /\ req[r].pc \in CachePlaces => req[r].token # NoToken /\ ~Bypassed(req[r].kind)
  /\ req[r].pc = "age" => Seen(req[r].token.kid)
  /\ req[r].usedAt # Never => req[r].token # NoToken /\ req[r].usedAt <= clock

\* What a request lives by from the gate to its write and after it.
AdminToken(t) == /\ t # NoToken /\ t.valid
                 /\ "admin" \in t.roles \cup t.scp
                 /\ Seen(t.kid)

Allowed(r) ==
  /\ req[r].pc = "run" /\ req[r].kind \in WriteKinds /\ authMode = "enabled"
       => AdminToken(req[r].token)
  /\ r \in written => /\ req[r].pc \in {"respond", "done", "dropped"}
                      /\ authMode = "enabled" => AdminToken(req[r].token)

\* The status a write is answered with says whether it was made, and only a
\* request that is done has its row.
StatusTells(r) ==
  /\ req[r].pc = "respond" /\ req[r].kind \in WriteKinds /\ backend = "sqlite"
       => (r \in written <=> req[r].status \in 200..299)
  /\ (\E row \in audit : row.req = r) => req[r].pc = "done"

Expires(r) ==
  req[r].usedAt # Never /\ ~req[r].usedStale /\ ~req[r].usedGone
      /\ withdrawnAt[req[r].token.kid] # Never
    => req[r].usedAt - withdrawnAt[req[r].token.kid] < TTL + FetchTimeout

Logged(r) ==
  req[r].pc = "done" /\ req[r].kind \in WriteKinds /\ backend = "sqlite" /\ r \notin unlogged
    => (r \in written <=> \E row \in audit : row.req = r /\ row.result = "success")

RequestInv(r) == /\ FetchAge(r) /\ RereadFresh(r) /\ HasToken(r) /\ Allowed(r)
                 /\ StatusTells(r) /\ Expires(r) /\ Logged(r)

IndInv == TypeInv /\ Withdrawals /\ CacheAge /\ \A r \in Reqs : RequestInv(r)

-----------------------------------------------------------------------------
(* Facts about the gate's operators.                                       *)

(* What the extractor can name: the three kinds of principal. *)
LEMMA PrincipalTypes ==
  /\ Anonymous \in Principals /\ DevBypass \in Principals
  /\ \A t \in Tokens : Principal(t) \in Principals
BY AuthAssumption DEF Anonymous, DevBypass, Principal, Principals, ExtractRoles

(* The pooled claims grant the administrator's role only to "admin". *)
LEMMA AdminRole ==
  ASSUME NEW t \in Tokens, HasRole(Principal(t), "Admin")
  PROVE  "admin" \in t.roles \cup t.scp
BY AuthAssumption DEF HasRole, Principal, ExtractRoles

(* The routes that write ask for an administrator. *)
LEMMA WritesNeedAdmin == \A kind \in WriteKinds : Required(kind) = "Admin"
BY DEF WriteKinds, PutKinds, Required

(* A request that moves on with a status is a request. *)
LEMMA AnsweredType ==
  ASSUME NEW q \in Requests, NEW l \in Places, NEW n \in Nat
  PROVE  [q EXCEPT !.pc = l, !.status = n] \in Requests
BY DEF Requests

(* The gate answers for the place that asked and leaves the call alone. *)
LEMMA GateTypes ==
  ASSUME NEW q \in Requests, q.at \in AuthPlaces, NEW p \in Principals
  PROVE  /\ Authorized(q, p) \in Requests /\ Unauthorized(q) \in Requests
         /\ \A a \in {Authorized(q, p), Unauthorized(q)} :
              /\ a.kind = q.kind /\ a.token = q.token
              /\ a.pc \in {"gate", "run", "respond"} /\ a.at = "gate"
              /\ a.usedAt = q.usedAt /\ a.usedStale = q.usedStale /\ a.usedGone = q.usedGone
              /\ a.pc = "respond" => a.status \in {401, 403}
         /\ Authorized(q, p).pc = "run" => HasRole(p, Required(q.kind))
         /\ Unauthorized(q).pc # "run"
<1> DEFINE Fine(a) == /\ a \in Requests /\ a.kind = q.kind /\ a.token = q.token
                      /\ a.pc \in {"gate", "run", "respond"} /\ a.at = "gate"
                      /\ a.usedAt = q.usedAt /\ a.usedStale = q.usedStale /\ a.usedGone = q.usedGone
                      /\ a.pc = "respond" => a.status \in {401, 403}
<1>1. q.at \in {"mw", "gate"}
    BY DEF AuthPlaces
<1>2. Fine(Authorized(q, p)) /\ (Authorized(q, p).pc = "run" => HasRole(p, Required(q.kind)))
  <2>1. CASE q.at = "mw"
    <3>1. Authorized(q, p) = [q EXCEPT !.pc = "gate", !.at = "gate", !.principal = p]
        BY <2>1 DEF Authorized
    <3>2. [q EXCEPT !.pc = "gate", !.at = "gate", !.principal = p] \in Requests
        BY DEF Requests, AuthPlaces, Places, CachePlaces
    <3> QED BY <3>1, <3>2, <2>1 DEF Requests
  <2>2. CASE q.at = "gate" /\ HasRole(p, Required(q.kind))
    <3>1. Authorized(q, p) = [q EXCEPT !.pc = "run"]
        BY <2>2 DEF Authorized, Gate
    <3>2. [q EXCEPT !.pc = "run"] \in Requests
        BY DEF Requests, AuthPlaces, Places, CachePlaces
    <3> QED BY <3>1, <3>2, <2>2 DEF Requests
  <2>3. CASE q.at = "gate" /\ ~HasRole(p, Required(q.kind))
    <3>1. Authorized(q, p) = [q EXCEPT !.pc = "respond", !.status = 403]
        BY <2>3 DEF Authorized, Gate
    <3>2. [q EXCEPT !.pc = "respond", !.status = 403] \in Requests
      <4>1. "respond" \in Places /\ 403 \in Nat
          BY DEF Places
      <4> QED BY <4>1, AnsweredType, Zenon
    <3> QED BY <3>1, <3>2, <2>3 DEF Requests
  <2> QED BY <1>1, <2>1, <2>2, <2>3
<1>3. Fine(Unauthorized(q)) /\ Unauthorized(q).pc # "run"
  <2>1. CASE q.at = "mw"
    <3>1. Unauthorized(q) = [q EXCEPT !.pc = "gate", !.at = "gate"]
        BY <2>1 DEF Unauthorized
    <3>2. [q EXCEPT !.pc = "gate", !.at = "gate"] \in Requests
        BY DEF Requests, AuthPlaces, Places, CachePlaces
    <3> QED BY <3>1, <3>2, <2>1 DEF Requests
  <2>2. CASE q.at = "gate"
    <3>1. Unauthorized(q) = [q EXCEPT !.pc = "respond", !.status = 401]
        BY <2>2 DEF Unauthorized
    <3>2. [q EXCEPT !.pc = "respond", !.status = 401] \in Requests
      <4>1. "respond" \in Places /\ 401 \in Nat
          BY DEF Places
      <4> QED BY <4>1, AnsweredType, Zenon
    <3> QED BY <3>1, <3>2, <2>2 DEF Requests
  <2> QED BY <1>1, <2>1, <2>2
<1> QED BY <1>2, <1>3

(* validate_bearer's answer: the call is left alone, the fetch's state is gone,
   the check is dated when it used a key, and only a verified token runs. *)
LEMMA ValidateTypes ==
  ASSUME AuthTypeOK, NEW q \in Requests, q.at \in AuthPlaces, q.token \in Tokens,
         NEW found \in BOOLEAN
  PROVE  LET a == Validate(q, found) IN
         /\ a \in Requests
         /\ a.kind = q.kind /\ a.token = q.token
         /\ a.pc \in {"gate", "run", "respond"} /\ a.at = "gate"
         /\ a.pc = "respond" => a.status \in {401, 403}
         /\ \/ /\ found /\ a.usedAt = clock
               /\ a.usedStale = q.failed /\ a.usedGone = ~Lookup(q.token.kid)
            \/ a.usedAt = q.usedAt /\ a.usedStale = q.usedStale /\ a.usedGone = q.usedGone
         /\ a.pc = "run" => /\ found /\ q.token.valid
                            /\ HasRole(Principal(q.token), Required(q.kind))
<1> DEFINE local == [q EXCEPT !.since = 0, !.doc = {}, !.failed = FALSE]
           gone == ~Lookup(q.token.kid)
           used == [local EXCEPT !.usedAt = clock, !.usedStale = q.failed, !.usedGone = gone]
<1>1. /\ local \in Requests /\ local.at = q.at /\ local.kind = q.kind /\ local.token = q.token
      /\ local.usedAt = q.usedAt /\ local.usedStale = q.usedStale /\ local.usedGone = q.usedGone
    BY DEF Requests
<1>2. /\ used \in Requests /\ used.at = q.at /\ used.kind = q.kind /\ used.token = q.token
      /\ used.usedAt = clock /\ used.usedStale = q.failed /\ used.usedGone = gone
  <2>1. gone \in BOOLEAN
      BY DEF Lookup
  <2> HIDE DEF gone, local
  <2> QED BY <1>1, <2>1 DEF Requests, AuthTypeOK
<1>3. Principal(q.token) \in Principals
    BY PrincipalTypes
<1>4. CASE found /\ Verifies(q.token)
  <2>1. Validate(q, found) = Authorized(used, Principal(q.token))
      BY <1>4 DEF Validate
  <2>2. q.token.valid
      BY <1>4 DEF Verifies
  <2> HIDE DEF used, local
  <2> QED BY <2>1, <2>2, <1>2, <1>3, <1>4, GateTypes
<1>5. CASE ~(found /\ Verifies(q.token))
  <2>1. Validate(q, found) = Unauthorized(local)
      BY <1>5 DEF Validate
  <2> HIDE DEF used, local
  <2> QED BY <2>1, <1>1, <1>3, GateTypes
<1> QED BY <1>4, <1>5

(* A new request, and what is left of one that is over. *)
LEMMA NewRequestType ==
  ASSUME NEW kind \in Kinds \cup {"none"}, NEW token \in Tokens \cup {NoToken},
         NEW l \in AuthPlaces \cup {"idle"}
  PROVE  NewRequest(kind, token, l) \in Requests
BY PrincipalTypes DEF NewRequest, Requests, Never, Places, AuthPlaces

LEMMA OverType ==
  ASSUME NEW q \in Requests, NEW l \in {"done", "dropped"}
  PROVE  /\ Over(q, l) \in Requests
         /\ Over(q, l).pc = l /\ Over(q, l).kind = q.kind /\ Over(q, l).token = q.token
         /\ Over(q, l).usedAt = Never
BY PrincipalTypes DEF Over, NewRequest, Requests, Never, Places

-----------------------------------------------------------------------------
(* A step of one request.                                                  *)

(* A step of one request keeps the invariant when it keeps what the invariant
   says of that request and of the cache. *)
LEMMA RequestStep ==
  ASSUME IndInv, NEW r \in Reqs,
         UNCHANGED <<clock, authMode, devReads, published, withdrawnAt, backend>>,
         req' \in [Reqs -> Requests],
         \A s \in Reqs : s # r => req'[s] = req[s],
         keys' \subseteq Kids, lastRefresh' \in {lastRefresh, clock}, CacheAge',
         AdminTypeOK', written' \subseteq Reqs, unlogged' \subseteq Reqs,
         \A s \in Reqs : s # r => /\ s \in written' <=> s \in written
                                  /\ s \in unlogged' <=> s \in unlogged,
         \A row : row.req # r => (row \in audit' <=> row \in audit),
         \A k \in keys' : k \in keys \/ Recent(k, clock),
         RequestInv(r)'
  PROVE  IndInv'
<1> USE DEF IndInv
<1>1. TypeInv'
    BY DEF TypeInv, AuthTypeOK, NoRefresh
<1>2. Withdrawals'
    BY DEF Withdrawals
<1>3. ASSUME NEW s \in Reqs, s # r PROVE RequestInv(s)'
  <2>1. req'[s] = req[s] /\ RequestInv(s)
      BY <1>3
  <2>2. FetchAge(s)' /\ HasToken(s)' /\ Expires(s)'
      BY <2>1 DEF RequestInv, FetchAge, HasToken, Expires, Bypassed, Seen
  <2>3. RereadFresh(s)'
      BY <2>1 DEF RequestInv, RereadFresh, Recent
  <2>4. Allowed(s)'
      BY <1>3, <2>1 DEF RequestInv, Allowed, AdminToken, Seen
  <2>5. StatusTells(s)' /\ Logged(s)'
      BY <1>3, <2>1 DEF RequestInv, StatusTells, Logged
  <2> QED BY <2>2, <2>3, <2>4, <2>5 DEF RequestInv
<1> QED BY <1>1, <1>2, <1>3

(* Before the handler has answered, a request is in no history: a step that
   leaves rows and log alone has only the gate's own claims to keep. *)
LEMMA GateStep ==
  ASSUME IndInv, NEW r \in Reqs, NEW a \in Requests,
         req[r].pc \notin {"respond", "done", "dropped"},
         req' = [req EXCEPT ![r] = a],
         UNCHANGED <<clock, authMode, devReads, published, withdrawnAt>>,
         UNCHANGED <<storeVars, adminVars>>,
         keys' \subseteq Kids, lastRefresh' \in {lastRefresh, clock}, CacheAge',
         \A k \in keys' : k \in keys \/ Recent(k, clock),
         a.pc \notin {"done", "dropped"},
         a.pc = "respond" => a.status \notin 200..299,
         a.pc = "run" /\ a.kind \in WriteKinds /\ authMode = "enabled" => AdminToken(a.token),
         FetchAge(r)', RereadFresh(r)', HasToken(r)', Expires(r)'
  PROVE  IndInv'
<1>1. /\ req \in [Reqs -> Requests] /\ AdminTypeOK /\ written \subseteq Reqs
      /\ unlogged \subseteq Reqs /\ RequestInv(r)
    BY DEF IndInv, TypeInv, AuthTypeOK
<1>2. /\ req' \in [Reqs -> Requests] /\ req'[r] = a
      /\ \A s \in Reqs : s # r => req'[s] = req[s]
    BY <1>1
<1>3. r \notin written /\ ~\E row \in audit : row.req = r
    BY <1>1 DEF RequestInv, Allowed, StatusTells
<1>4. AdminTypeOK'
    BY <1>1 DEF AdminTypeOK, StoreTypeOK, storeVars, adminVars
<1>5. Allowed(r)'
    BY <1>2, <1>3 DEF Allowed, adminVars, AdminToken, Seen
<1>6. StatusTells(r)'
    BY <1>2, <1>3 DEF StatusTells, adminVars
<1>7. Logged(r)'
    BY <1>2 DEF Logged
<1>8. RequestInv(r)'
    BY <1>5, <1>6, <1>7 DEF RequestInv
<1> QED BY <1>1, <1>2, <1>4, <1>8, RequestStep DEF adminVars

(* A verified token whose key was found in the cache is an administrator's when
   the gate lets a write pass. *)
LEMMA GateAdmits ==
  ASSUME IndInv, NEW t \in Tokens, Seen(t.kid), t.valid, NEW kind \in WriteKinds,
         HasRole(Principal(t), Required(kind))
  PROVE  AdminToken(t)
<1>1. "admin" \in t.roles \cup t.scp
    BY AdminRole, WritesNeedAdmin
<1>2. t # NoToken
    BY AuthAssumption
<1> QED BY <1>1, <1>2 DEF AdminToken

(* A key the cache still counts as fresh was published less than the cache's
   lifetime and one fetch timeout ago. *)
LEMMA FreshKey ==
  ASSUME IndInv, NEW k \in keys, withdrawnAt[k] # Never,
         clock - lastRefresh < TTL
  PROVE  clock - withdrawnAt[k] < TTL + FetchTimeout
BY AuthAssumption DEF IndInv, CacheAge, Recent, TypeInv, AuthTypeOK, Never, NoRefresh

(* The gate's answer, wherever it comes from: the fetch is over, and a check
   that used a key is dated now and is within the bound. *)
LEMMA SettledStep ==
  ASSUME IndInv, NEW r \in Reqs, NEW a \in Requests,
         req[r].pc \in AuthPlaces \cup {"age", "reread"},
         req' = [req EXCEPT ![r] = a],
         UNCHANGED <<clock, authMode, devReads, published, withdrawnAt, keys, lastRefresh>>,
         UNCHANGED <<storeVars, adminVars>>,
         a.kind = req[r].kind, a.token = req[r].token,
         a.pc \in {"gate", "run", "respond"}, a.at = "gate",
         a.pc = "respond" => a.status \in {401, 403},
         \/ a.usedAt = req[r].usedAt /\ a.usedStale = req[r].usedStale /\ a.usedGone = req[r].usedGone
         \/ /\ a.usedAt = clock /\ a.token # NoToken
            /\ ~a.usedStale /\ ~a.usedGone /\ withdrawnAt[a.token.kid] # Never
                 => clock - withdrawnAt[a.token.kid] < TTL + FetchTimeout,
         a.pc = "run" /\ a.kind \in WriteKinds /\ authMode = "enabled" => AdminToken(a.token)
  PROVE  IndInv'
<1>1. /\ req \in [Reqs -> Requests] /\ RequestInv(r) /\ clock \in Nat
      /\ keys \subseteq Kids /\ CacheAge
    BY DEF IndInv, TypeInv, AuthTypeOK
<1>2. req'[r] = a
    BY <1>1
<1>3. FetchAge(r)' /\ RereadFresh(r)'
    BY <1>2 DEF FetchAge, RereadFresh
<1>4. HasToken(r)' /\ Expires(r)'
    BY <1>1, <1>2 DEF HasToken, Expires, RequestInv, Bypassed, AuthPlaces, CachePlaces
<1>5. CacheAge'
    BY <1>1 DEF CacheAge, Seen, Recent
<1>6. req[r].pc \notin {"respond", "done", "dropped"} /\ a.pc \notin {"done", "dropped"}
    BY DEF AuthPlaces
<1>7. a.pc = "respond" => a.status \notin 200..299
    OBVIOUS
<1> QED BY <1>1, <1>3, <1>4, <1>5, <1>6, <1>7, GateStep

(* The answer of validate_bearer keeps the invariant when the key it found is
   the provider's and, if the cache still holds it, recent enough. *)
LEMMA ValidatedStep ==
  ASSUME IndInv, NEW r \in Reqs, NEW found \in BOOLEAN,
         req[r].pc \in AuthPlaces \cup {"age", "reread"}, req[r].token # NoToken,
         found => Seen(req[r].token.kid),
         found /\ ~req[r].failed /\ req[r].token.kid \in keys /\ withdrawnAt[req[r].token.kid] # Never
           => clock - withdrawnAt[req[r].token.kid] < TTL + FetchTimeout,
         req' = [req EXCEPT ![r] = Validate(req[r], found)],
         UNCHANGED <<clock, authMode, devReads, published, withdrawnAt, keys, lastRefresh>>,
         UNCHANGED <<storeVars, adminVars>>
  PROVE  IndInv'
<1> DEFINE q == req[r]
           a == Validate(q, found)
<1>1. q \in Requests /\ AuthTypeOK /\ q.at \in AuthPlaces
    BY DEF IndInv, TypeInv, AuthTypeOK, RequestInv, HasToken, CachePlaces
<1>2. q.token \in Tokens
    BY <1>1 DEF Requests
<1> HIDE DEF q
<1>3. /\ a \in Requests
      /\ a.kind = q.kind /\ a.token = q.token
      /\ a.pc \in {"gate", "run", "respond"} /\ a.at = "gate"
      /\ a.pc = "respond" => a.status \in {401, 403}
      /\ \/ /\ found /\ a.usedAt = clock
            /\ a.usedStale = q.failed /\ a.usedGone = ~Lookup(q.token.kid)
         \/ a.usedAt = q.usedAt /\ a.usedStale = q.usedStale /\ a.usedGone = q.usedGone
      /\ a.pc = "run" => /\ found /\ q.token.valid
                         /\ HasRole(Principal(q.token), Required(q.kind))
    BY <1>1, <1>2, ValidateTypes
<1> HIDE DEF a
<1>4. a.pc = "run" /\ a.kind \in WriteKinds => AdminToken(a.token)
    BY <1>2, <1>3, GateAdmits DEF q
<1>5. \/ a.usedAt = q.usedAt /\ a.usedStale = q.usedStale /\ a.usedGone = q.usedGone
      \/ /\ a.usedAt = clock /\ a.token # NoToken
         /\ ~a.usedStale /\ ~a.usedGone /\ withdrawnAt[a.token.kid] # Never
              => clock - withdrawnAt[a.token.kid] < TTL + FetchTimeout
    BY <1>3 DEF q, Lookup
<1>6. req' = [req EXCEPT ![r] = a]
    BY DEF a, q
<1>7. /\ a.kind = req[r].kind /\ a.token = req[r].token
      /\ a.pc = "run" /\ a.kind \in WriteKinds /\ authMode = "enabled" => AdminToken(a.token)
      /\ \/ a.usedAt = req[r].usedAt /\ a.usedStale = req[r].usedStale /\ a.usedGone = req[r].usedGone
         \/ /\ a.usedAt = clock /\ a.token # NoToken
            /\ ~a.usedStale /\ ~a.usedGone /\ withdrawnAt[a.token.kid] # Never
                 => clock - withdrawnAt[a.token.kid] < TTL + FetchTimeout
    BY <1>3, <1>4, <1>5 DEF q
<1> QED BY <1>3, <1>6, <1>7, SettledStep, Zenon

(* A refresh begins: the fetch is as old as now. *)
LEMMA RefreshStep ==
  ASSUME IndInv, NEW r \in Reqs, req[r].pc \in AuthPlaces \cup {"age"},
         req[r].token # NoToken, ~Bypassed(req[r].kind),
         req' = [req EXCEPT ![r] = Refreshing(req[r])],
         UNCHANGED <<clock, authMode, devReads, published, withdrawnAt, keys, lastRefresh>>,
         UNCHANGED <<storeVars, adminVars>>
  PROVE  IndInv'
<1> DEFINE q == req[r]
           a == Refreshing(q)
<1>1. /\ q \in Requests /\ q.at \in AuthPlaces /\ AuthTypeOK /\ CacheAge /\ RequestInv(r)
    BY DEF IndInv, TypeInv, AuthTypeOK, RequestInv, HasToken, CachePlaces
<1>2. a \in Requests
    BY <1>1 DEF Refreshing, Requests, AuthTypeOK, Places, CachePlaces
<1>3. /\ req'[r] = a
      /\ a.pc = "fetch" /\ a.since = clock /\ a.token = q.token
      /\ a.kind = q.kind /\ a.at = q.at
      /\ a.usedAt = q.usedAt /\ a.usedStale = q.usedStale /\ a.usedGone = q.usedGone
    BY <1>1 DEF Refreshing, Requests, AuthTypeOK
<1> HIDE DEF a
<1>4. FetchAge(r)' /\ RereadFresh(r)' /\ HasToken(r)' /\ Expires(r)'
    BY <1>1, <1>3, AuthAssumption
       DEF FetchAge, RereadFresh, HasToken, Expires, RequestInv, Bypassed, AuthTypeOK, CachePlaces
<1>5. CacheAge' /\ keys' \subseteq Kids /\ lastRefresh' \in {lastRefresh, clock}
    BY <1>1 DEF CacheAge, Seen, Recent, AuthTypeOK
<1>6. q.pc \notin {"respond", "done", "dropped"}
    BY DEF AuthPlaces
<1>7. req' = [req EXCEPT ![r] = a]
    BY DEF a
<1>8. \A k \in keys' : k \in keys
    OBVIOUS
<1> QED BY <1>2, <1>3, <1>4, <1>5, <1>6, <1>7, <1>8, GateStep

(* The extractor up to the first lookup. *)
LEMMA ExtractStep ==
  ASSUME IndInv, NEW r \in Reqs, Extract(r), UNCHANGED <<storeVars, adminVars>>
  PROVE  IndInv'
<1> DEFINE q == req[r]
<1>1. /\ q \in Requests /\ q.pc \in AuthPlaces /\ q.at \in AuthPlaces
      /\ AuthTypeOK /\ CacheAge /\ RequestInv(r)
    BY DEF IndInv, TypeInv, AuthTypeOK, Extract, RequestInv, HasToken
<1>2. q.token \in Tokens \cup {NoToken}
    BY <1>1 DEF Requests
<1>3. UNCHANGED <<clock, authMode, devReads, published, withdrawnAt, keys, lastRefresh>>
    BY DEF Extract
<1>4. CASE Bypassed(q.kind)
  <2>1. req' = [req EXCEPT ![r] = Authorized(q, DevBypass)]
      BY <1>4 DEF Extract
  <2>2. q.kind \in WriteKinds => authMode # "enabled"
      BY <1>4 DEF Bypassed, WriteKinds, PutKinds
  <2> HIDE DEF q
  <2>3. /\ Authorized(q, DevBypass) \in Requests
        /\ \A a \in {Authorized(q, DevBypass)} :
             /\ a.kind = q.kind /\ a.token = q.token
             /\ a.pc \in {"gate", "run", "respond"} /\ a.at = "gate"
             /\ a.usedAt = q.usedAt /\ a.usedStale = q.usedStale /\ a.usedGone = q.usedGone
             /\ a.pc = "respond" => a.status \in {401, 403}
      BY <1>1, PrincipalTypes, GateTypes
  <2> QED BY <1>1, <1>3, <2>1, <2>2, <2>3, SettledStep DEF q
<1>5. CASE ~Bypassed(q.kind) /\ q.token = NoToken
  <2>1. req' = [req EXCEPT ![r] = Unauthorized(q)]
      BY <1>5 DEF Extract
  <2> HIDE DEF q
  <2>3. /\ Unauthorized(q) \in Requests /\ Unauthorized(q).pc # "run"
        /\ \A a \in {Unauthorized(q)} :
             /\ a.kind = q.kind /\ a.token = q.token
             /\ a.pc \in {"gate", "run", "respond"} /\ a.at = "gate"
             /\ a.usedAt = q.usedAt /\ a.usedStale = q.usedStale /\ a.usedGone = q.usedGone
             /\ a.pc = "respond" => a.status \in {401, 403}
      BY <1>1, PrincipalTypes, GateTypes
  <2> QED BY <1>1, <1>3, <2>1, <2>3, SettledStep DEF q
<1>6. CASE ~Bypassed(q.kind) /\ q.token # NoToken /\ Lookup(q.token.kid)
  <2>1. req' = [req EXCEPT ![r] = [q EXCEPT !.pc = "age"]]
      BY <1>6 DEF Extract
  <2>2. [q EXCEPT !.pc = "age"] \in Requests
      BY <1>1 DEF Requests, Places, CachePlaces
  <2>3. /\ req'[r] = [q EXCEPT !.pc = "age"]
        /\ req'[r].pc = "age" /\ req'[r].token = q.token
        /\ req'[r].kind = q.kind /\ req'[r].at = q.at
        /\ req'[r].usedAt = q.usedAt /\ req'[r].usedStale = q.usedStale
        /\ req'[r].usedGone = q.usedGone
      BY <1>1, <2>1 DEF Requests, AuthTypeOK
  <2>4. Seen(q.token.kid)
      BY <1>1, <1>6 DEF Lookup, CacheAge
  <2>5. FetchAge(r)' /\ RereadFresh(r)' /\ HasToken(r)' /\ Expires(r)'
      BY <1>1, <1>3, <1>6, <2>3, <2>4
         DEF FetchAge, RereadFresh, HasToken, Expires, RequestInv, Bypassed, Seen, CachePlaces
  <2>6. CacheAge' /\ keys' \subseteq Kids /\ lastRefresh' \in {lastRefresh, clock}
      BY <1>1, <1>3 DEF CacheAge, Seen, Recent, AuthTypeOK
  <2>7. q.pc \notin {"respond", "done", "dropped"}
      BY <1>1 DEF AuthPlaces
  <2>8. \A k \in keys' : k \in keys
      BY <1>3
  <2> QED BY <1>3, <2>1, <2>2, <2>3, <2>5, <2>6, <2>7, <2>8, GateStep
<1>7. CASE ~Bypassed(q.kind) /\ q.token # NoToken /\ ~Lookup(q.token.kid)
  <2>1. req' = [req EXCEPT ![r] = Refreshing(q)]
      BY <1>7 DEF Extract
  <2> QED BY <1>1, <1>3, <1>7, <2>1, RefreshStep
<1> QED BY <1>4, <1>5, <1>6, <1>7

(* The age check after a hit: the key in hand is used, or a refresh begins. *)
LEMMA CheckAgeStep ==
  ASSUME IndInv, NEW r \in Reqs, CheckAge(r), UNCHANGED <<storeVars, adminVars>>
  PROVE  IndInv'
<1>1. /\ req[r].pc = "age" /\ req[r] \in Requests /\ AuthTypeOK /\ RequestInv(r)
      /\ UNCHANGED <<clock, authMode, devReads, published, withdrawnAt, keys, lastRefresh>>
    BY DEF IndInv, TypeInv, AuthTypeOK, CheckAge
<1>2. /\ req[r].at \in AuthPlaces /\ req[r].token # NoToken /\ ~Bypassed(req[r].kind)
      /\ Seen(req[r].token.kid)
    BY <1>1 DEF RequestInv, HasToken, CachePlaces
<1>3. CASE IsStale
  <2>1. req' = [req EXCEPT ![r] = Refreshing(req[r])]
      BY <1>3 DEF CheckAge
  <2> QED BY <1>1, <1>2, <2>1, RefreshStep
<1>4. CASE ~IsStale
  <2>1. req' = [req EXCEPT ![r] = Validate(req[r], TRUE)]
      BY <1>4 DEF CheckAge
  <2>2. clock - lastRefresh < TTL
      BY <1>1, <1>4, AuthAssumption DEF IsStale, AuthTypeOK, NoRefresh
  <2>3. req[r].token.kid \in keys /\ withdrawnAt[req[r].token.kid] # Never
          => clock - withdrawnAt[req[r].token.kid] < TTL + FetchTimeout
      BY <2>2, FreshKey
  <2>4. TRUE \in BOOLEAN
      OBVIOUS
  <2> QED BY <1>1, <1>2, <2>1, <2>3, <2>4, ValidatedStep
<1> QED BY <1>3, <1>4

(* The provider's answer is the document of now. *)
LEMMA FetchReplyStep ==
  ASSUME IndInv, NEW r \in Reqs, FetchReply(r), UNCHANGED <<storeVars, adminVars>>
  PROVE  IndInv'
<1> DEFINE a == [req[r] EXCEPT !.pc = "arrive", !.doc = published]
<1>1. /\ req[r] \in Requests /\ AuthTypeOK /\ CacheAge /\ RequestInv(r) /\ Withdrawals
      /\ req[r].pc = "fetch"
      /\ UNCHANGED <<clock, authMode, devReads, published, withdrawnAt, keys, lastRefresh>>
    BY DEF IndInv, TypeInv, AuthTypeOK, FetchReply
<1>2. a \in Requests /\ req' = [req EXCEPT ![r] = a]
    BY <1>1 DEF FetchReply, Requests, AuthTypeOK, Places, CachePlaces
<1>3. /\ req'[r] = a
      /\ req'[r].pc = "arrive" /\ req'[r].since = req[r].since /\ req'[r].doc = published
      /\ req'[r].token = req[r].token /\ req'[r].kind = req[r].kind /\ req'[r].at = req[r].at
      /\ req'[r].usedAt = req[r].usedAt /\ req'[r].usedStale = req[r].usedStale /\ req'[r].usedGone = req[r].usedGone
    BY <1>1, <1>2 DEF Requests, AuthTypeOK
<1>4. FetchAge(r)'
    BY <1>1, <1>3 DEF FetchAge, RequestInv, Seen, Withdrawals, AuthTypeOK
<1>5. RereadFresh(r)' /\ HasToken(r)' /\ Expires(r)'
    BY <1>1, <1>3 DEF RereadFresh, HasToken, Expires, RequestInv, Bypassed, CachePlaces
<1>6. CacheAge' /\ keys' \subseteq Kids /\ lastRefresh' \in {lastRefresh, clock}
    BY <1>1 DEF CacheAge, Seen, Recent, AuthTypeOK
<1> HIDE DEF a
<1> QED BY <1>1, <1>2, <1>3, <1>4, <1>5, <1>6, GateStep

(* The document replaces the keys: it is at most one timeout old. *)
LEMMA StoreKeysStep ==
  ASSUME IndInv, NEW r \in Reqs, StoreKeys(r), UNCHANGED <<storeVars, adminVars>>
  PROVE  IndInv'
<1> DEFINE a == [req[r] EXCEPT !.pc = "stamp", !.doc = {}]
<1>1. /\ req[r] \in Requests /\ AuthTypeOK /\ CacheAge /\ RequestInv(r)
      /\ req[r].pc = "arrive" /\ keys' = req[r].doc
      /\ UNCHANGED <<clock, authMode, devReads, published, withdrawnAt, lastRefresh>>
    BY DEF IndInv, TypeInv, AuthTypeOK, StoreKeys
<1>2. a \in Requests /\ req' = [req EXCEPT ![r] = a]
    BY <1>1 DEF StoreKeys, Requests, AuthTypeOK, Places, CachePlaces
<1>3. /\ req'[r] = a /\ req'[r].pc = "stamp"
      /\ req'[r].token = req[r].token /\ req'[r].kind = req[r].kind /\ req'[r].at = req[r].at
      /\ req'[r].usedAt = req[r].usedAt /\ req'[r].usedStale = req[r].usedStale
      /\ req'[r].usedGone = req[r].usedGone
    BY <1>1, <1>2 DEF Requests, AuthTypeOK
<1>4. keys' \subseteq Kids
    BY <1>1 DEF Requests
<1>5. \A k \in keys' : Seen(k) /\ Recent(k, clock)
  <2>1. /\ req[r].since <= clock /\ clock - req[r].since <= FetchTimeout
        /\ \A k \in req[r].doc : /\ Seen(k)
                                 /\ withdrawnAt[k] # Never => withdrawnAt[k] >= req[r].since
      BY <1>1 DEF RequestInv, FetchAge
  <2>2. clock \in Nat /\ req[r].since \in Nat /\ withdrawnAt \in [Kids -> Nat \cup {Never}]
      BY <1>1 DEF AuthTypeOK, Requests
  <2> QED BY <1>1, <1>4, <2>1, <2>2, AuthAssumption DEF Never, Recent
<1>6. CacheAge'
  <2>1. \A k \in keys' : Recent(k, lastRefresh)
      BY <1>1, <1>4, <1>5, AuthAssumption DEF CacheAge, AuthTypeOK, NoRefresh, Never, Recent
  <2> QED BY <1>1, <1>5, <2>1 DEF CacheAge, Seen, Recent, Recent
<1>7. FetchAge(r)' /\ RereadFresh(r)' /\ HasToken(r)' /\ Expires(r)'
    BY <1>1, <1>3, <1>5
       DEF FetchAge, RereadFresh, HasToken, Expires, RequestInv, Bypassed, Recent, CachePlaces
<1> HIDE DEF a
<1> QED BY <1>1, <1>2, <1>3, <1>4, <1>5, <1>6, <1>7, GateStep

(* The cache is stamped in the tick in which its keys were stored. *)
LEMMA StampRefreshStep ==
  ASSUME IndInv, NEW r \in Reqs, StampRefresh(r), UNCHANGED <<storeVars, adminVars>>
  PROVE  IndInv'
<1> DEFINE a == [req[r] EXCEPT !.pc = "reread"]
<1>1. /\ req[r] \in Requests /\ AuthTypeOK /\ CacheAge /\ RequestInv(r)
      /\ req[r].pc = "stamp" /\ lastRefresh' = clock
      /\ UNCHANGED <<clock, authMode, devReads, published, withdrawnAt, keys>>
    BY DEF IndInv, TypeInv, AuthTypeOK, StampRefresh
<1>2. a \in Requests /\ req' = [req EXCEPT ![r] = a]
    BY <1>1 DEF StampRefresh, Requests, AuthTypeOK, Places, CachePlaces
<1>3. /\ req'[r] = a /\ req'[r].pc = "reread"
      /\ req'[r].token = req[r].token /\ req'[r].kind = req[r].kind /\ req'[r].at = req[r].at
      /\ req'[r].usedAt = req[r].usedAt /\ req'[r].usedStale = req[r].usedStale
      /\ req'[r].usedGone = req[r].usedGone
    BY <1>1, <1>2 DEF Requests, AuthTypeOK
<1>4. FetchAge(r)' /\ RereadFresh(r)' /\ HasToken(r)' /\ Expires(r)'
    BY <1>1, <1>3 DEF FetchAge, RereadFresh, HasToken, Expires, RequestInv, Bypassed, CachePlaces
<1>5. keys' \subseteq Kids /\ \A k \in keys' : k \in keys
    BY <1>1 DEF AuthTypeOK
<1>6. CacheAge'
  <2>1. \A k \in keys : Recent(k, clock)
      BY <1>1 DEF RequestInv, RereadFresh
  <2> QED BY <1>1, <2>1 DEF CacheAge, Seen, Recent, AuthTypeOK
<1> HIDE DEF a
<1> QED BY <1>1, <1>2, <1>3, <1>4, <1>5, <1>6, GateStep

(* A failed refresh leaves the cache. *)
LEMMA FetchFailStep ==
  ASSUME IndInv, NEW r \in Reqs, FetchFail(r), UNCHANGED <<storeVars, adminVars>>
  PROVE  IndInv'
<1> DEFINE a == [req[r] EXCEPT !.pc = "reread", !.doc = {}, !.failed = TRUE]
<1>1. /\ req[r] \in Requests /\ AuthTypeOK /\ CacheAge /\ RequestInv(r)
      /\ req[r].pc \in {"fetch", "arrive"}
      /\ UNCHANGED <<clock, authMode, devReads, published, withdrawnAt, keys, lastRefresh>>
    BY DEF IndInv, TypeInv, AuthTypeOK, FetchFail
<1>2. a \in Requests /\ req' = [req EXCEPT ![r] = a]
    BY <1>1 DEF FetchFail, Requests, AuthTypeOK, Places, CachePlaces
<1>3. /\ req'[r] = a /\ req'[r].pc = "reread" /\ req'[r].failed
      /\ req'[r].token = req[r].token /\ req'[r].kind = req[r].kind /\ req'[r].at = req[r].at
      /\ req'[r].usedAt = req[r].usedAt /\ req'[r].usedStale = req[r].usedStale /\ req'[r].usedGone = req[r].usedGone
    BY <1>1, <1>2 DEF Requests, AuthTypeOK
<1>4. FetchAge(r)' /\ RereadFresh(r)' /\ HasToken(r)' /\ Expires(r)'
    BY <1>1, <1>3 DEF FetchAge, RereadFresh, HasToken, Expires, RequestInv, Bypassed, CachePlaces
<1>6. CacheAge' /\ keys' \subseteq Kids /\ lastRefresh' \in {lastRefresh, clock}
    BY <1>1 DEF CacheAge, Seen, Recent, AuthTypeOK
<1> HIDE DEF a
<1> QED BY <1>1, <1>2, <1>3, <1>4, <1>6, GateStep

(* The second lookup follows a refresh of this very instant, or a failed one. *)
LEMMA RereadStep ==
  ASSUME IndInv, NEW r \in Reqs, Reread(r), UNCHANGED <<storeVars, adminVars>>
  PROVE  IndInv'
<1> DEFINE found == Lookup(req[r].token.kid)
<1>1. /\ RequestInv(r) /\ req[r].pc = "reread" /\ req[r].token # NoToken
      /\ UNCHANGED <<clock, authMode, devReads, published, withdrawnAt, keys, lastRefresh>>
      /\ req' = [req EXCEPT ![r] = Validate(req[r], found)]
    BY DEF IndInv, Reread, RequestInv, HasToken, CachePlaces
<1>2. found \in BOOLEAN /\ (found => req[r].token.kid \in keys)
      /\ (found => Seen(req[r].token.kid))
    BY DEF Lookup, IndInv, CacheAge
<1>3. found /\ ~req[r].failed /\ withdrawnAt[req[r].token.kid] # Never
        => clock - withdrawnAt[req[r].token.kid] < TTL + FetchTimeout
  <2>1. ~req[r].failed => clock - lastRefresh < TTL
      BY <1>1, AuthAssumption DEF RequestInv, RereadFresh, IndInv, TypeInv, AuthTypeOK
  <2> QED BY <1>2, <2>1, FreshKey
<1> HIDE DEF found
<1> QED BY <1>1, <1>2, <1>3, ValidatedStep

-----------------------------------------------------------------------------
(* The routes.                                                             *)

(* A request arrives in a slot that was never used. *)
LEMMA ArriveStep ==
  ASSUME IndInv, NEW r \in Reqs, Arrive(r)
  PROVE  IndInv'
<1>1. PICK c \in Calls : req' = [req EXCEPT ![r] =
          NewRequest(c.kind, c.token, IF c.kind \in AuditedKinds THEN "mw" ELSE "gate")]
    BY DEF Arrive
<1>2. PICK l \in AuthPlaces : req' = [req EXCEPT ![r] = NewRequest(c.kind, c.token, l)]
    BY <1>1 DEF AuthPlaces
<1>3. NewRequest(c.kind, c.token, l) \in Requests
    BY CallsAssumption, NewRequestType
<1>4. /\ req \in [Reqs -> Requests] /\ AuthTypeOK /\ CacheAge /\ req[r].pc = "idle"
      /\ UNCHANGED <<clock, authMode, devReads, published, withdrawnAt, keys, lastRefresh>>
      /\ UNCHANGED <<storeVars, adminVars>>
    BY DEF IndInv, TypeInv, AuthTypeOK, Arrive
<1>5. /\ req'[r] = NewRequest(c.kind, c.token, l)
      /\ req'[r].pc = l /\ req'[r].at = l /\ req'[r].usedAt = Never
    BY <1>2, <1>4 DEF NewRequest
<1>6. FetchAge(r)' /\ RereadFresh(r)' /\ HasToken(r)' /\ Expires(r)'
    BY <1>5 DEF FetchAge, RereadFresh, HasToken, Expires, AuthPlaces, CachePlaces
<1>7. CacheAge' /\ keys' \subseteq Kids /\ lastRefresh' \in {lastRefresh, clock}
    BY <1>4 DEF CacheAge, Seen, Recent, AuthTypeOK
<1>8. l \notin {"done", "dropped", "respond", "run"}
    BY DEF AuthPlaces
<1> QED BY <1>2, <1>3, <1>4, <1>5, <1>6, <1>7, <1>8, GateStep

(* The handler answers: the request keeps its call and what its check used. *)
LEMMA FinishIs ==
  ASSUME IndInv, NEW r \in Reqs, NEW n \in Nat, Finish(r, n)
  PROVE  /\ req' = [req EXCEPT ![r] = [req[r] EXCEPT !.pc = "respond", !.status = n]]
         /\ [req[r] EXCEPT !.pc = "respond", !.status = n] \in Requests
         /\ req' \in [Reqs -> Requests]
         /\ \A s \in Reqs : s # r => req'[s] = req[s]
         /\ req'[r].pc = "respond" /\ req'[r].status = n
         /\ req'[r].token = req[r].token /\ req'[r].kind = req[r].kind
         /\ req'[r].usedAt = req[r].usedAt /\ req'[r].usedStale = req[r].usedStale /\ req'[r].usedGone = req[r].usedGone
<1>1. req \in [Reqs -> Requests] /\ req[r] \in Requests
    BY DEF IndInv, TypeInv, AuthTypeOK
<1>2. req' = [req EXCEPT ![r] = [req[r] EXCEPT !.pc = "respond", !.status = n]]
    BY DEF Finish
<1>3. [req[r] EXCEPT !.pc = "respond", !.status = n] \in Requests
    BY <1>1, AnsweredType DEF Places
<1>4. /\ req' \in [Reqs -> Requests]
      /\ \A s \in Reqs : s # r => req'[s] = req[s]
      /\ req'[r] = [req[r] EXCEPT !.pc = "respond", !.status = n]
    BY <1>1, <1>2, <1>3
<1> QED BY <1>1, <1>2, <1>3, <1>4 DEF Requests

(* An answer that wrote nothing says so, except where nothing is written. *)
LEMMA RefusalStep ==
  ASSUME IndInv, NEW r \in Reqs, NEW n \in Nat, Finish(r, n), req[r].pc = "run",
         req[r].kind \in WriteKinds /\ backend = "sqlite" => n \notin 200..299,
         UNCHANGED <<clock, authMode, devReads, published, withdrawnAt, keys, lastRefresh>>,
         UNCHANGED <<storeVars, adminVars>>
  PROVE  IndInv'
<1>1. /\ RequestInv(r) /\ AuthTypeOK /\ CacheAge /\ AdminTypeOK
      /\ written \subseteq Reqs /\ unlogged \subseteq Reqs
    BY DEF IndInv, TypeInv
<1>2. r \notin written /\ ~\E row \in audit : row.req = r
    BY <1>1 DEF RequestInv, Allowed, StatusTells
<1>3. FetchAge(r)' /\ RereadFresh(r)' /\ HasToken(r)' /\ Expires(r)'
    BY <1>1, FinishIs DEF FetchAge, RereadFresh, HasToken, Expires, RequestInv, AuthPlaces, CachePlaces
<1>4. Allowed(r)' /\ StatusTells(r)' /\ Logged(r)'
    BY <1>2, FinishIs DEF Allowed, StatusTells, Logged, adminVars
<1>5. CacheAge' /\ keys' \subseteq Kids /\ lastRefresh' \in {lastRefresh, clock}
    BY <1>1 DEF CacheAge, Seen, Recent, AuthTypeOK
<1>6. AdminTypeOK'
    BY <1>1 DEF AdminTypeOK, StoreTypeOK, storeVars, adminVars
<1>7. RequestInv(r)'
    BY <1>3, <1>4 DEF RequestInv
<1> QED BY <1>1, <1>5, <1>6, <1>7, FinishIs, RequestStep DEF adminVars

(* The write itself: the row holds a valid body, and 200 or 204 goes with it. *)
LEMMA WriteStep ==
  ASSUME IndInv, NEW r \in Reqs, Write(r),
         UNCHANGED <<clock, authMode, devReads, published, withdrawnAt, keys, lastRefresh>>
  PROVE  IndInv'
<1>1. /\ RequestInv(r) /\ AuthTypeOK /\ CacheAge /\ AdminTypeOK
      /\ written \subseteq Reqs /\ unlogged \subseteq Reqs /\ backend \in {"sqlite", "postgres"}
    BY DEF IndInv, TypeInv
<1>2. PICK n \in 200..299 : Finish(r, n)
    BY DEF Write
<1>3. n \in Nat /\ req[r].pc = "run" /\ req[r].kind \in WriteKinds
    BY DEF Write
<1>4. CASE backend = "postgres"
  <2>1. UNCHANGED <<storeVars, adminVars>>
      BY <1>4 DEF Write, adminVars
  <2> QED BY <1>2, <1>3, <1>4, <2>1, RefusalStep
<1>5. CASE backend = "sqlite"
  <2>1. written' = written \cup {r} /\ UNCHANGED <<backend, audit, unlogged>>
      BY <1>5 DEF Write
  <2>2. AdminTypeOK'
    <3>1. CASE DeleteDeviceConfig
        BY <1>1, <2>1, <3>1 DEF DeleteDeviceConfig, AdminTypeOK, StoreTypeOK
    <3>2. ASSUME NEW body \in Bodies, Valid(body), SetDeviceConfig(body) PROVE AdminTypeOK'
        BY <1>1, <2>1, <3>2, CallsAssumption DEF SetDeviceConfig, AdminTypeOK, StoreTypeOK
    <3>3. ASSUME NEW body \in Bodies, Valid(body), SetDefaultConfig(body) PROVE AdminTypeOK'
        BY <1>1, <2>1, <3>3, CallsAssumption DEF SetDefaultConfig, AdminTypeOK, StoreTypeOK
    <3> QED BY <1>5, <3>1, <3>2, <3>3 DEF Write
  <2>3. FetchAge(r)' /\ RereadFresh(r)' /\ HasToken(r)' /\ Expires(r)'
      BY <1>1, <1>2, <1>3, FinishIs
         DEF FetchAge, RereadFresh, HasToken, Expires, RequestInv, AuthPlaces, CachePlaces
  <2>4. ~\E row \in audit : row.req = r
      BY <1>1, <1>3 DEF RequestInv, StatusTells
  <2>5. Allowed(r)'
      BY <1>1, <1>2, <1>3, <2>1, FinishIs DEF Allowed, RequestInv, AdminToken, Seen
  <2>6. StatusTells(r)' /\ Logged(r)'
      BY <1>2, <1>3, <2>1, <2>4, FinishIs DEF StatusTells, Logged
  <2>7. CacheAge' /\ keys' \subseteq Kids /\ lastRefresh' \in {lastRefresh, clock}
      BY <1>1 DEF CacheAge, Seen, Recent, AuthTypeOK
  <2>8. RequestInv(r)'
      BY <2>3, <2>5, <2>6 DEF RequestInv
  <2> QED BY <1>1, <1>2, <1>3, <2>1, <2>2, <2>7, <2>8, FinishIs, RequestStep
<1> QED BY <1>1, <1>4, <1>5

(* Every way the handler ends. *)
LEMMA HandleStep ==
  ASSUME IndInv, NEW r \in Reqs, Handle(r)
  PROVE  IndInv'
<1>1. UNCHANGED <<clock, authMode, devReads, published, withdrawnAt, keys, lastRefresh>>
    BY DEF Handle
<1>2. CASE RejectBody(r)
  <2>1. PICK n \in Nat : n = 400 /\ Finish(r, n)
      BY <1>2 DEF RejectBody
  <2>2. n \notin 200..299 /\ req[r].pc = "run" /\ UNCHANGED <<storeVars, adminVars>>
      BY <1>2, <2>1 DEF RejectBody
  <2> QED BY <1>1, <2>1, <2>2, RefusalStep
<1>3. CASE Write(r)
    BY <1>1, <1>3, WriteStep
<1>4. CASE WriteFails(r)
  <2>1. PICK n \in Nat : n = 500 /\ Finish(r, n)
      BY <1>4 DEF WriteFails
  <2>2. n \notin 200..299 /\ req[r].pc = "run" /\ UNCHANGED <<storeVars, adminVars>>
      BY <1>4, <2>1 DEF WriteFails
  <2> QED BY <1>1, <2>1, <2>2, RefusalStep
<1>5. CASE Answer(r)
  <2>1. PICK n \in Nat : Finish(r, n)
      BY <1>5 DEF Answer
  <2>2. req[r].kind \notin WriteKinds /\ req[r].pc = "run" /\ UNCHANGED <<storeVars, adminVars>>
      BY <1>5 DEF Answer
  <2> QED BY <1>1, <2>1, <2>2, RefusalStep
<1> QED BY <1>2, <1>3, <1>4, <1>5 DEF Handle

(* A request that is over has no fetch and used no key. *)
LEMMA OverIs ==
  ASSUME IndInv, NEW r \in Reqs, NEW l \in {"done", "dropped"},
         req' = [req EXCEPT ![r] = Over(req[r], l)]
  PROVE  /\ req' \in [Reqs -> Requests]
         /\ \A s \in Reqs : s # r => req'[s] = req[s]
         /\ req'[r].pc = l /\ req'[r].kind = req[r].kind /\ req'[r].token = req[r].token
         /\ FetchAge(r)' /\ RereadFresh(r)' /\ HasToken(r)' /\ Expires(r)'
<1>1. req \in [Reqs -> Requests] /\ req[r] \in Requests
    BY DEF IndInv, TypeInv, AuthTypeOK
<1>2. Over(req[r], l) \in Requests
    BY <1>1, OverType
<1>3. /\ req' \in [Reqs -> Requests] /\ req'[r] = Over(req[r], l)
      /\ \A s \in Reqs : s # r => req'[s] = req[s]
    BY <1>1, <1>2
<1>4. /\ req'[r].pc = l /\ req'[r].kind = req[r].kind /\ req'[r].token = req[r].token
      /\ req'[r].usedAt = Never
    BY <1>1, <1>3, OverType
<1>5. FetchAge(r)' /\ RereadFresh(r)' /\ HasToken(r)' /\ Expires(r)'
    BY <1>4 DEF FetchAge, RereadFresh, HasToken, Expires, AuthPlaces, CachePlaces
<1> QED BY <1>3, <1>4, <1>5

(* The middleware's tail: the row repeats what the status says. *)
LEMMA AuditStep ==
  ASSUME IndInv, NEW r \in Reqs, Audit(r)
  PROVE  IndInv'
<1>1. /\ RequestInv(r) /\ AuthTypeOK /\ CacheAge /\ AdminTypeOK /\ req[r].pc = "respond"
      /\ written \subseteq Reqs /\ unlogged \subseteq Reqs /\ backend \in {"sqlite", "postgres"}
    BY DEF IndInv, TypeInv, Audit
<1>2. /\ UNCHANGED <<clock, authMode, devReads, published, withdrawnAt, keys, lastRefresh>>
      /\ UNCHANGED <<storeVars, backend, written>>
      /\ req' = [req EXCEPT ![r] = Over(req[r], "done")]
    BY DEF Audit
<1>3. /\ req' \in [Reqs -> Requests]
      /\ \A s \in Reqs : s # r => req'[s] = req[s]
      /\ req'[r].pc = "done" /\ req'[r].kind = req[r].kind /\ req'[r].token = req[r].token
      /\ FetchAge(r)' /\ RereadFresh(r)' /\ HasToken(r)' /\ Expires(r)'
    BY <1>2, OverIs
<1>4. CacheAge' /\ keys' \subseteq Kids /\ lastRefresh' \in {lastRefresh, clock}
    BY <1>1, <1>2 DEF CacheAge, Seen, Recent, AuthTypeOK
<1>5. Allowed(r)'
    BY <1>1, <1>2, <1>3 DEF Allowed, RequestInv, AdminToken, Seen
<1>6. /\ AuditRow(r).req = r
      /\ AuditRow(r).result = IF req[r].status \in 200..299 THEN "success" ELSE "failure"
      /\ AuditRow(r) \in [req : Reqs, principal : {"anonymous", "operator", "admin"},
                          result : {"success", "failure"}]
    BY DEF AuditRow, PrincipalKind
<1>7. ~\E row \in audit : row.req = r
    BY <1>1 DEF RequestInv, StatusTells
<1>8. CASE /\ req[r].kind \in AuditedKinds /\ backend = "sqlite"
           /\ audit' = audit \cup {AuditRow(r)} /\ UNCHANGED unlogged
  <2>1. AdminTypeOK'
      BY <1>1, <1>2, <1>6, <1>8 DEF AdminTypeOK, StoreTypeOK, storeVars
  <2>2. StatusTells(r)'
      BY <1>3 DEF StatusTells
  <2>4. (\E row \in audit' : row.req = r /\ row.result = "success")
          <=> AuditRow(r).result = "success"
      BY <1>6, <1>7, <1>8
  <2>5. Logged(r)'
      BY <1>1, <1>2, <1>3, <1>6, <1>8, <2>4 DEF Logged, RequestInv, StatusTells
  <2>6. RequestInv(r)'
      BY <1>3, <1>5, <2>2, <2>5 DEF RequestInv
  <2> QED BY <1>1, <1>2, <1>3, <1>4, <1>6, <1>8, <2>1, <2>6, RequestStep
<1>9. CASE /\ req[r].kind \in AuditedKinds /\ backend = "sqlite"
           /\ unlogged' = unlogged \cup {r} /\ UNCHANGED audit
  <2>1. AdminTypeOK'
      BY <1>1, <1>2, <1>9 DEF AdminTypeOK, StoreTypeOK, storeVars
  <2>2. StatusTells(r)' /\ Logged(r)'
      BY <1>3, <1>9 DEF StatusTells, Logged
  <2>3. RequestInv(r)'
      BY <1>3, <1>5, <2>2 DEF RequestInv
  <2> QED BY <1>1, <1>2, <1>3, <1>4, <1>9, <2>1, <2>3, RequestStep
<1>10. CASE /\ req[r].kind \notin AuditedKinds \/ backend = "postgres"
            /\ UNCHANGED <<audit, unlogged>>
  <2>1. AdminTypeOK'
      BY <1>1, <1>2, <1>10 DEF AdminTypeOK, StoreTypeOK, storeVars
  <2>2. StatusTells(r)' /\ Logged(r)'
      BY <1>2, <1>3, <1>10 DEF StatusTells, Logged, AuditedKinds
  <2>3. RequestInv(r)'
      BY <1>3, <1>5, <2>2 DEF RequestInv
  <2> QED BY <1>1, <1>2, <1>3, <1>4, <1>10, <2>1, <2>3, RequestStep
<1> QED BY <1>8, <1>9, <1>10 DEF Audit

(* A dropped request leaves what it wrote, and no row. *)
LEMMA DisconnectStep ==
  ASSUME IndInv, NEW r \in Reqs, Disconnect(r)
  PROVE  IndInv'
<1>1. /\ RequestInv(r) /\ AuthTypeOK /\ CacheAge /\ AdminTypeOK
      /\ req[r].pc \notin {"idle", "done", "dropped"}
      /\ written \subseteq Reqs /\ unlogged \subseteq Reqs
    BY DEF IndInv, TypeInv, Disconnect
<1>2. /\ UNCHANGED <<clock, authMode, devReads, published, withdrawnAt, keys, lastRefresh>>
      /\ UNCHANGED <<storeVars, adminVars>>
      /\ req' = [req EXCEPT ![r] = Over(req[r], "dropped")]
    BY DEF Disconnect
<1>3. /\ req' \in [Reqs -> Requests]
      /\ \A s \in Reqs : s # r => req'[s] = req[s]
      /\ req'[r].pc = "dropped" /\ req'[r].kind = req[r].kind /\ req'[r].token = req[r].token
      /\ FetchAge(r)' /\ RereadFresh(r)' /\ HasToken(r)' /\ Expires(r)'
    BY <1>2, OverIs
<1>4. CacheAge' /\ keys' \subseteq Kids /\ lastRefresh' \in {lastRefresh, clock}
    BY <1>1, <1>2 DEF CacheAge, Seen, Recent, AuthTypeOK
<1>5. Allowed(r)'
    BY <1>1, <1>2, <1>3 DEF Allowed, RequestInv, AdminToken, Seen, adminVars
<1>6. StatusTells(r)' /\ Logged(r)'
    BY <1>1, <1>2, <1>3 DEF StatusTells, Logged, RequestInv, adminVars
<1>7. AdminTypeOK'
    BY <1>1, <1>2 DEF AdminTypeOK, StoreTypeOK, storeVars, adminVars
<1>8. RequestInv(r)'
    BY <1>3, <1>5, <1>6 DEF RequestInv
<1> QED BY <1>1, <1>2, <1>3, <1>4, <1>7, <1>8, RequestStep DEF adminVars

-----------------------------------------------------------------------------
(* The world outside.                                                      *)

(* A rotation withdraws a key now; no key the server saw is forgotten. *)
LEMMA RotateStep ==
  ASSUME IndInv, Rotate, UNCHANGED <<storeVars, adminVars>>
  PROVE  IndInv'
<1>1. /\ AuthTypeOK /\ AdminTypeOK /\ Withdrawals /\ CacheAge
      /\ written \subseteq Reqs /\ unlogged \subseteq Reqs /\ backend \in {"sqlite", "postgres"}
    BY DEF IndInv, TypeInv
<1>2. UNCHANGED <<clock, authMode, devReads, keys, lastRefresh, req>>
    BY DEF Rotate
<1>3. /\ published' \subseteq Kids /\ withdrawnAt' \in [Kids -> Nat \cup {Never}]
      /\ \A k \in Kids : \/ withdrawnAt'[k] = withdrawnAt[k]
                         \/ withdrawnAt[k] = Never /\ withdrawnAt'[k] = clock
      /\ \A k \in Kids : k \in published => k \in published' \/ withdrawnAt'[k] # Never
      /\ \A k \in Kids : k \in published' => k \in published \/ withdrawnAt'[k] = Never
      /\ \A k \in Kids : withdrawnAt'[k] # withdrawnAt[k] => k \notin published'
  <2>1. PICK k \in Kids :
          /\ withdrawnAt[k] = Never
          /\ \/ k \notin published /\ published' = published \cup {k} /\ UNCHANGED withdrawnAt
             \/ k \in published /\ published' = published \ {k}
                /\ withdrawnAt' = [withdrawnAt EXCEPT ![k] = clock]
      BY DEF Rotate
  <2>2. clock # Never
      BY <1>1 DEF AuthTypeOK, Never
  <2> QED BY <1>1, <2>1, <2>2 DEF AuthTypeOK
<1>4. AuthTypeOK'
    BY <1>1, <1>2, <1>3 DEF AuthTypeOK
<1>5. AdminTypeOK'
    BY <1>1 DEF AdminTypeOK, StoreTypeOK, storeVars, adminVars
<1>6. Withdrawals'
    BY <1>1, <1>2, <1>3 DEF Withdrawals, AuthTypeOK
<1>7. \A k \in Kids : Seen(k) => Seen(k)'
    BY <1>1, <1>3 DEF Seen, AuthTypeOK, Never
<1>8. CacheAge'
    BY <1>1, <1>2, <1>3, <1>7, AuthAssumption DEF CacheAge, Recent, AuthTypeOK, Never, NoRefresh
<1>9. ASSUME NEW r \in Reqs PROVE RequestInv(r)'
  <2>1. RequestInv(r) /\ req[r] \in Requests
      BY <1>1 DEF IndInv, AuthTypeOK
  <2>2. FetchAge(r)'
      BY <1>1, <1>2, <1>3, <1>7, <2>1 DEF RequestInv, FetchAge, AuthTypeOK, Requests, Never
  <2>3. RereadFresh(r)'
      BY <1>1, <1>2, <1>3, <2>1, AuthAssumption
         DEF RequestInv, RereadFresh, Recent, AuthTypeOK, Never
  <2>8. HasToken(r)'
    <3>1. req[r].token # NoToken => req[r].token.kid \in Kids
        BY <2>1, AuthAssumption DEF Requests
    <3> QED BY <1>2, <1>7, <2>1, <3>1 DEF RequestInv, HasToken, Bypassed, CachePlaces
  <2>4. \A t \in Tokens \cup {NoToken} : AdminToken(t) => AdminToken(t)'
      BY <1>7, AuthAssumption DEF AdminToken
  <2>5. Allowed(r)'
      BY <1>2, <2>1, <2>4 DEF RequestInv, Allowed, Requests, adminVars
  <2>6. StatusTells(r)' /\ Logged(r)'
      BY <1>2, <2>1 DEF RequestInv, StatusTells, Logged, adminVars
  <2>7. Expires(r)'
    <3>1. CASE req[r].usedAt = Never
        BY <1>2, <3>1 DEF Expires
    <3>2. CASE req[r].usedAt # Never
      <4>1. req[r].token \in Tokens /\ req[r].token.kid \in Kids /\ req[r].usedAt \in Nat
            /\ req[r].usedAt <= clock /\ clock \in Nat
          BY <1>1, <2>1, <3>2, AuthAssumption DEF RequestInv, HasToken, Requests, AuthTypeOK
      <4> QED BY <1>2, <1>3, <2>1, <4>1, AuthAssumption DEF RequestInv, Expires
    <3> QED BY <3>1, <3>2
  <2> QED BY <2>2, <2>3, <2>8, <2>5, <2>6, <2>7 DEF RequestInv
<1>10. TypeInv'
    BY <1>1, <1>4, <1>5 DEF TypeInv, adminVars
<1> QED BY <1>6, <1>8, <1>9, <1>10 DEF IndInv

(* Time passes only while every fetch is within its timeout. *)
LEMMA TickStep ==
  ASSUME IndInv, Tick, UNCHANGED <<storeVars, adminVars>>
  PROVE  IndInv'
<1>1. /\ AuthTypeOK /\ AdminTypeOK /\ Withdrawals /\ CacheAge
      /\ written \subseteq Reqs /\ unlogged \subseteq Reqs /\ backend \in {"sqlite", "postgres"}
    BY DEF IndInv, TypeInv
<1>2. /\ UNCHANGED <<authMode, devReads, published, withdrawnAt, keys, lastRefresh, req>>
      /\ clock' = clock + 1 /\ clock \in Nat
      /\ \A r \in Reqs : /\ req[r].pc \in {"fetch", "arrive"} => clock - req[r].since < FetchTimeout
                         /\ req[r].pc \notin {"stamp", "reread"}
    BY <1>1 DEF Tick, AuthTypeOK
<1>3. TypeInv'
    BY <1>1, <1>2 DEF TypeInv, AuthTypeOK, AdminTypeOK, StoreTypeOK, storeVars, adminVars
<1>4. Withdrawals'
    BY <1>1, <1>2 DEF Withdrawals, AuthTypeOK, Never
<1>5. CacheAge'
    BY <1>1, <1>2 DEF CacheAge, Seen, Recent, AuthTypeOK, NoRefresh
<1>6. ASSUME NEW r \in Reqs PROVE RequestInv(r)'
  <2>1. RequestInv(r) /\ req[r] \in Requests
      BY <1>1 DEF IndInv, AuthTypeOK
  <2>2. FetchAge(r)'
      BY <1>2, <2>1, AuthAssumption DEF RequestInv, FetchAge, Requests, Seen
  <2>3. RereadFresh(r)'
      BY <1>2 DEF RereadFresh
  <2>4. HasToken(r)' /\ Expires(r)'
      BY <1>2, <2>1 DEF RequestInv, HasToken, Bypassed, Expires, Requests, Never, Seen, CachePlaces
  <2>5. Allowed(r)'
      BY <1>2, <2>1 DEF RequestInv, Allowed, AdminToken, Seen, adminVars
  <2>6. StatusTells(r)' /\ Logged(r)'
      BY <1>2, <2>1 DEF RequestInv, StatusTells, Logged, adminVars
  <2> QED BY <2>2, <2>3, <2>4, <2>5, <2>6 DEF RequestInv
<1> QED BY <1>3, <1>4, <1>5, <1>6 DEF IndInv

-----------------------------------------------------------------------------
(* The theorems.                                                           *)

(* When the server starts nothing is cached, written or logged. *)
LEMMA InitStep == AdminInit => IndInv
<1> SUFFICES ASSUME AdminInit PROVE IndInv
    OBVIOUS
<1> USE DEF AdminInit, AuthInit, StoreInit
<1>1. Idle \in Requests /\ Idle.pc = "idle" /\ Idle.usedAt = Never
    BY NewRequestType DEF Idle, NewRequest
<1>2. AuthTypeOK
    BY <1>1, AuthAssumption DEF AuthTypeOK
<1>3. TypeInv
    BY <1>2 DEF TypeInv, AdminTypeOK, StoreTypeOK
<1>4. Withdrawals /\ CacheAge
    BY DEF Withdrawals, CacheAge, NoRefresh
<1>5. ASSUME NEW r \in Reqs PROVE RequestInv(r)
  <2>1. req[r].pc = "idle" /\ req[r].usedAt = Never
      BY <1>1
  <2> QED BY <2>1 DEF RequestInv, FetchAge, RereadFresh, HasToken, Allowed, StatusTells,
                      Expires, Logged, AuthPlaces, CachePlaces
<1> QED BY <1>3, <1>4, <1>5 DEF IndInv

(* The invariant of the administrative plane: the cache's age, what a request
   may still do at the place it is, and what its status and row say. *)
THEOREM AdminInductive == Spec => []IndInv
<1>1. AdminInit => IndInv
    BY InitStep
<1>2. IndInv /\ [Next]_vars => IndInv'
  <2> SUFFICES ASSUME IndInv, [Next]_vars PROVE IndInv'
      OBVIOUS
  <2>1. CASE Outside
      BY <2>1, RotateStep, TickStep DEF Outside
  <2>2. ASSUME NEW r \in Reqs, Authenticate(r) PROVE IndInv'
      BY <2>2, ExtractStep, CheckAgeStep, FetchReplyStep, StoreKeysStep,
             StampRefreshStep, FetchFailStep, RereadStep
         DEF Authenticate, AuthStep
  <2>3. ASSUME NEW r \in Reqs, Arrive(r) \/ Handle(r) \/ Audit(r) \/ Disconnect(r) PROVE IndInv'
      BY <2>3, ArriveStep, HandleStep, AuditStep, DisconnectStep
  <2>4. CASE UNCHANGED vars
      BY <2>4 DEF vars, authVars, storeVars, adminVars, IndInv, TypeInv, AuthTypeOK, AdminTypeOK,
                  StoreTypeOK, Withdrawals, CacheAge, Seen, Recent, RequestInv, FetchAge, RereadFresh,
                  HasToken, Allowed, AdminToken, StatusTells, Expires, Logged, Bypassed
  <2> QED BY <2>1, <2>2, <2>3, <2>4 DEF Next
<1> QED BY <1>1, <1>2, PTL DEF Spec

(* The rows and the log keep their types, and an override row, tenant-wide or
   of a device, is always one that validate() accepted. *)
THEOREM AdminTypeCorrect == Spec => []AdminTypeOK
<1>1. IndInv => AdminTypeOK
    BY DEF IndInv, TypeInv
<1> QED BY <1>1, AdminInductive, PTL

(* JwksCache: whatever refreshes overlap, although one that began earlier may
   overwrite the keys of one that began later, and although the keys and their
   age are read and written in separate steps, a key the provider withdrew opens
   nothing once the cache lifetime and one fetch timeout have passed, unless the
   refresh failed and the stale cache was used knowingly, or another request's
   refresh took the key out of the cache between the lookup and the age check. *)
THEOREM KeysExpire == Spec => []WithdrawnKeyExpires
<1>1. IndInv => WithdrawnKeyExpires
    BY DEF IndInv, RequestInv, Expires, WithdrawnKeyExpires
<1> QED BY <1>1, AdminInductive, PTL

(* audit.rs: a request that ran to its end and whose insert did not fail has a
   success row exactly when its write is in the override rows, under every
   interleaving of requests, disconnects and store errors. *)
THEOREM LogTruth == Spec => []AuditTruth
<1>1. IndInv => AuditTruth
    BY DEF IndInv, RequestInv, Logged, AuditTruth
<1> QED BY <1>1, AdminInductive, PTL

(* RequireRole: with authentication enabled every override that was written
   came with a valid administrator's token signed by a key the provider
   published at some time. *)
THEOREM WritesAuthorized == Spec => []WriteNeedsAdmin
<1>1. IndInv => WriteNeedsAdmin
    BY DEF IndInv, TypeInv, RequestInv, Allowed, AdminToken, Seen, WriteNeedsAdmin
<1> QED BY <1>1, AdminInductive, PTL
=============================================================================
