---------------------------- MODULE OperatorAuth ----------------------------
(* Operator authentication of the API server (auth/mod.rs): the JWKS cache   *)
(* and its refresh over the network, the validation of a bearer token, and   *)
(* the role gate in front of a handler.                                      *)
(*                                                                           *)
(* A request is a slot of Reqs that lives once.  Validation is split where   *)
(* the code awaits or changes locks: the key is looked up, the age of the    *)
(* cache is checked, the key document is snapshotted by the identity         *)
(* provider, it arrives and replaces the keys, the cache is stamped, and the *)
(* key is looked up again; requests interleave between these steps.          *)
EXTENDS Integers, FiniteSets

CONSTANTS
  Reqs,          \* request slots, each used once
  Kids,          \* signing keys the identity provider may publish
  FirstKids,     \* the ones it publishes when the server starts
  Tokens,        \* the bearer tokens callers may hold
  NoToken,       \* no, or a malformed, Authorization header
  TTL,           \* DEFAULT_JWKS_TTL
  FetchTimeout,  \* the HTTP client's timeout for one key fetch
  MaxClock       \* bound on the clock

ASSUME AuthAssumption ==
  /\ FirstKids \subseteq Kids
  /\ TTL \in Nat \ {0} /\ FetchTimeout \in Nat /\ MaxClock \in Nat
  /\ \A t \in Tokens : /\ t.kid \in Kids
                       /\ t.valid \in BOOLEAN
                       /\ t.scp \subseteq {"query", "admin"}
                       /\ t.roles \subseteq {"operator", "admin"}
  /\ NoToken \notin Tokens

VARIABLES
  clock,        \* Instant::now, in coarse units
  authMode,     \* CMTRACE_AUTH_MODE, fixed at start
  devReads,     \* CMTRACE_DEV_UNAUTH_READS, fixed at start
  published,    \* the provider's current key document
  withdrawnAt,  \* when a key left the document (history)
  keys,         \* JwksCache.keys
  lastRefresh,  \* JwksCache.last_refresh
  req           \* the requests in flight

authVars == <<clock, authMode, devReads, published, withdrawnAt, keys, lastRefresh, req>>

Never == -1
NoRefresh == -1
Anonymous == [kid |-> "none", roles |-> {}]

\* "mw" and "gate" are the two places that extract the principal; each may
\* then have an age to check, a fetch in flight, a reply on the wire, a cache
\* to stamp and a key to look up again.
AuthPlaces == {"mw", "gate"}

\* AuthMode::from_env_str
AuthModes == {"enabled", "disabled"}

\* DevUnauthReads: CMTRACE_DEV_UNAUTH_READS opens the query routes only.
Bypassed(kind) == authMode = "disabled" \/ (devReads /\ kind = "query")

NewRequest(kind, token, place) ==
  [pc |-> place, at |-> place, kind |-> kind, token |-> token,
   since |-> 0, doc |-> {}, failed |-> FALSE,
   principal |-> Anonymous, usedAt |-> Never, usedStale |-> FALSE, usedGone |-> FALSE,
   status |-> 0]

\* A request that is over: what is left of it is history.
Over(q, pc) == [NewRequest(q.kind, q.token, pc) EXCEPT !.at = "idle"]

Idle == NewRequest("none", NoToken, "idle")

AuthInit ==
  /\ clock = 0
  /\ authMode \in AuthModes
  /\ devReads \in BOOLEAN
  /\ published = FirstKids
  /\ withdrawnAt = [k \in Kids |-> Never]
  /\ keys = {}
  /\ lastRefresh = NoRefresh
  /\ req = [r \in Reqs |-> Idle]

-----------------------------------------------------------------------------
(* Roles.                                                                    *)

\* extract_roles: the two claims are pooled before they are matched.
ExtractRoles(scp, roles) ==
  LET scopes == scp \cup roles
  IN  (IF scopes \cap {"query", "operator"} # {} THEN {"Operator"} ELSE {})
        \cup (IF "admin" \in scopes THEN {"Admin"} ELSE {})

\* Mutant: the implication between the roles is turned round.
HasRoleInverted(p, role) ==
  \/ role \in p.roles
  \/ role = "Admin" /\ "Operator" \in p.roles

\* OperatorPrincipal::has_role: an administrator is an operator too.
HasRole(p, role) ==
  \/ role \in p.roles
  \/ role = "Operator" /\ "Admin" \in p.roles

\* OperatorPrincipal::dev_bypass
DevBypass == [kid |-> "dev", roles |-> {"Operator", "Admin"}]

-----------------------------------------------------------------------------
(* The JWKS cache.                                                           *)

Lookup(kid) == kid \in keys

\* Mutant: a cache that was loaded once never expires.
NeverStale == lastRefresh = NoRefresh

\* JwksCache::is_stale
IsStale == lastRefresh = NoRefresh \/ clock - lastRefresh >= TTL

\* verify_token and the role check of validate_bearer, once a key is at hand
Principal(t) == [kid |-> t.kid, roles |-> ExtractRoles(t.scp, t.roles)]
Verifies(t) == t.valid /\ ExtractRoles(t.scp, t.roles) # {}

\* What the place that asked does with the answer: the audit middleware keeps
\* the principal or nothing, the gate admits the request or answers 401 / 403.
Required(kind) == IF kind = "query" THEN "Operator" ELSE "Admin"
Gate(q, p) == IF HasRole(p, Required(q.kind))
              THEN [q EXCEPT !.pc = "run"]
              ELSE [q EXCEPT !.pc = "respond", !.status = 403]
Unauthorized(q) == IF q.at = "mw" THEN [q EXCEPT !.pc = "gate", !.at = "gate"]
                   ELSE [q EXCEPT !.pc = "respond", !.status = 401]
Authorized(q, p) ==
  IF q.at = "mw" THEN [q EXCEPT !.pc = "gate", !.at = "gate", !.principal = p]
  ELSE Gate(q, p)

\* validate_bearer after JwksCache::get has returned; the fetch's own state is
\* gone, and what the check used is kept as history: when, whether the refresh
\* had failed, and whether the cache had let the key go since it was found.
Validate(q, found) ==
  LET local == [q EXCEPT !.since = 0, !.doc = {}, !.failed = FALSE] IN
  IF found /\ Verifies(q.token)
  THEN Authorized([local EXCEPT !.usedAt = clock, !.usedStale = q.failed,
                                !.usedGone = ~Lookup(q.token.kid)],
                  Principal(q.token))
  ELSE Unauthorized(local)

\* The refresh begins: the request goes out.
Refreshing(q) == [q EXCEPT !.pc = "fetch", !.since = clock]

\* The extractor up to the first lookup of JwksCache::get, under the lock of
\* the keys: the bypass, the header, a hit whose age is still to be checked,
\* or a miss, which starts a refresh.
Extract(r) ==
  LET q == req[r] IN
  /\ q.pc \in AuthPlaces
  /\ req' = [req EXCEPT ![r] =
       IF Bypassed(q.kind) THEN Authorized(q, DevBypass)
       ELSE IF q.token = NoToken THEN Unauthorized(q)
       ELSE IF Lookup(q.token.kid) THEN [q EXCEPT !.pc = "age"]
       ELSE Refreshing(q)]
  /\ UNCHANGED <<clock, authMode, devReads, published, withdrawnAt, keys, lastRefresh>>

\* JwksCache::get after a hit: the age is read under a lock of its own, and the
\* key in hand is returned if the cache is fresh by then.
CheckAge(r) ==
  /\ req[r].pc = "age"
  /\ req' = [req EXCEPT ![r] = IF IsStale THEN Refreshing(req[r]) ELSE Validate(req[r], TRUE)]
  /\ UNCHANGED <<clock, authMode, devReads, published, withdrawnAt, keys, lastRefresh>>

\* The provider answers the fetch with the document of this moment.
FetchReply(r) ==
  /\ req[r].pc = "fetch"
  /\ req' = [req EXCEPT ![r].pc = "arrive", ![r].doc = published]
  /\ UNCHANGED <<clock, authMode, devReads, published, withdrawnAt, keys, lastRefresh>>

\* JwksCache::refresh succeeds: the document replaces the keys, whatever was
\* stored meanwhile, ...
StoreKeys(r) ==
  /\ req[r].pc = "arrive"
  /\ keys' = req[r].doc
  /\ req' = [req EXCEPT ![r].pc = "stamp", ![r].doc = {}]
  /\ UNCHANGED <<clock, authMode, devReads, published, withdrawnAt, lastRefresh>>

\* ... and, under the other lock, the cache counts as fresh from now.
StampRefresh(r) ==
  /\ req[r].pc = "stamp"
  /\ lastRefresh' = clock
  /\ req' = [req EXCEPT ![r].pc = "reread"]
  /\ UNCHANGED <<clock, authMode, devReads, published, withdrawnAt, keys>>

\* JwksCache::refresh fails (network, status, document): the cache stays.
FetchFail(r) ==
  /\ req[r].pc \in {"fetch", "arrive"}
  /\ req' = [req EXCEPT ![r].pc = "reread", ![r].doc = {}, ![r].failed = TRUE]
  /\ UNCHANGED <<clock, authMode, devReads, published, withdrawnAt, keys, lastRefresh>>

\* The second lookup of JwksCache::get, and the rest of validate_bearer.
Reread(r) ==
  /\ req[r].pc = "reread"
  /\ req' = [req EXCEPT ![r] = Validate(req[r], Lookup(req[r].token.kid))]
  /\ UNCHANGED <<clock, authMode, devReads, published, withdrawnAt, keys, lastRefresh>>

AuthStep(r) == \/ Extract(r) \/ CheckAge(r) \/ FetchReply(r) \/ StoreKeys(r)
               \/ StampRefresh(r) \/ FetchFail(r) \/ Reread(r)

-----------------------------------------------------------------------------
(* The world outside.                                                        *)

\* The provider rotates its keys: it adds one, or withdraws one for good.
Rotate ==
  \E k \in Kids :
    /\ withdrawnAt[k] = Never
    /\ \/ k \notin published /\ published' = published \cup {k} /\ UNCHANGED withdrawnAt
       \/ k \in published /\ published' = published \ {k}
          /\ withdrawnAt' = [withdrawnAt EXCEPT ![k] = clock]
    /\ UNCHANGED <<clock, authMode, devReads, keys, lastRefresh, req>>

\* Time passes; a fetch ends by its timeout, and no thread sits for a tick
\* between storing a document and the stamp and the lookup that follow it.
Tick ==
  /\ clock < MaxClock
  /\ \A r \in Reqs : /\ req[r].pc \in {"fetch", "arrive"} => clock - req[r].since < FetchTimeout
                     /\ req[r].pc \notin {"stamp", "reread"}
  /\ clock' = clock + 1
  /\ UNCHANGED <<authMode, devReads, published, withdrawnAt, keys, lastRefresh, req>>

-----------------------------------------------------------------------------
(* Properties.                                                               *)

\* A key the provider withdrew is accepted for less than the cache lifetime
\* plus one fetch timeout, although overlapping refreshes may store an older
\* document over a newer one and restart its lifetime, and although keys and
\* their age are read and written under two locks.  Two things stretch it: a
\* refresh that failed (the documented "stale cache" fallback), and a refresh by
\* another request that took the key out of the cache while this one held it.
WithdrawnKeyExpires ==
  \A r \in Reqs : LET q == req[r] IN
    q.usedAt # Never /\ ~q.usedStale /\ ~q.usedGone /\ withdrawnAt[q.token.kid] # Never
      => q.usedAt - withdrawnAt[q.token.kid] < TTL + FetchTimeout

\* "Get a key for `kid`, refreshing from the JWKS URI if missing or stale"
\* (JwksCache::get): a key from a cache that is past its lifetime is used only
\* after a refresh, or after one that failed.
StaleIsRefreshed ==
  \A r \in Reqs : LET q == req[r] IN
    q.usedAt # Never /\ ~q.usedStale /\ withdrawnAt[q.token.kid] # Never
      => q.usedAt - withdrawnAt[q.token.kid] < TTL + FetchTimeout
=============================================================================
