----------------------------- MODULE FrontDoor ------------------------------
(* The server from start-up to the handler (main.rs, lib.rs): configuration, *)
(* the CRL cache primed before the listener binds and refreshed behind it,   *)
(* the limiters in front of the routes, and the identity of ingest requests. *)
EXTENDS ServerConfig, RateLimiter, DeviceIdentity

CONSTANTS
  Deployments,  \* environments with the limits and CRL URLs they set
  Requests,     \* the requests clients send
  Threads,      \* requests in flight at once
  MaxFaults     \* bound on restarts and on outages of a CRL URL

ASSUME FrontAssumption ==
  /\ \A d \in Deployments :
       /\ d.env \in Environments /\ FromEnv(d.env) # Refused
       /\ d.urls \in Seq(AllUrls) /\ d.limits \in [Scopes -> Nat]
       /\ \A r \in Requests : {ResolveDeviceId(r, FromEnv(d.env).tls),
                               ExtractIp(r, FromEnv(d.env).tls, d.trustsProxy)} \subseteq Keys
  /\ Scopes = {"device", "ip", "query"}
  /\ IsFiniteSet(Threads) /\ MaxFaults \in Nat

VARIABLES
  phase,   \* "down", "priming" or "serving"
  deploy,  \* the deployment, fixed for the run
  req,     \* the request each thread is working on
  faults   \* faults left

frontVars == <<phase, deploy, req, faults>>
vars == <<limiterVars, crlVars, frontVars>>

Idle == [stage |-> "idle"]
Config == FromEnv(deploy.env)
Limit(s) == deploy.limits[s]

FrontInit == /\ LimiterInit /\ CrlInit
             /\ phase = "down" /\ deploy \in Deployments
             /\ req = [t \in Threads |-> Idle] /\ faults = MaxFaults

-----------------------------------------------------------------------------
(* The process.                                                              *)

\* main up to the CRL cache: with anything configured as a URL there is a
\* cache, and start_refresh_task is awaited before the listener binds.
Boot ==
  /\ phase = "down"
  /\ urls' = deploy.urls
  /\ refresh' = deploy.urls
  /\ phase' = "priming"
  /\ UNCHANGED <<limiterVars, published, up, entries, seen, deploy, req, faults>>

\* The initial pass is over, whatever became of its fetches: the listener binds.
Serve ==
  /\ phase = "priming" /\ refresh = <<>>
  /\ phase' = "serving"
  /\ UNCHANGED <<limiterVars, crlVars, deploy, req, faults>>

\* The process goes away with its caches, counters and requests.
Restart ==
  /\ phase # "down" /\ faults > 0
  /\ faults' = faults - 1
  /\ phase' = "down"
  /\ req' = [t \in Threads |-> Idle]
  /\ ForgetCrls
  /\ windows' = [s \in Scopes |-> [k \in Keys |-> None]]
  /\ spent' = [s \in Scopes |-> [k \in Keys |-> [a \in 0..(Window - 1) |-> 0]]]
  /\ UNCHANGED <<urls, published, up, deploy>>

\* The refresh task, and the pass before the listener binds
RefreshTick ==
  /\ phase = "serving" /\ urls # <<>>
  /\ StartRefresh
  /\ UNCHANGED <<limiterVars, urls, published, up, entries, seen, frontVars>>

RefreshStep ==
  /\ phase # "down"
  /\ RefreshUrl
  /\ UNCHANGED <<limiterVars, urls, published, up, frontVars>>

\* The GC task sweeps one limiter after the other.
Gc(s) ==
  /\ phase = "serving" /\ Limit(s) > 0
  /\ PurgeExpired(s)
  /\ UNCHANGED <<spent, crlVars, frontVars>>

-----------------------------------------------------------------------------
(* A request.                                                                *)

\* The TLS handshake admits certificates of the CA bundle, and their absence
\* unless they are required; the other modes see none.
Handshake(r) ==
  IF Config.tls.mode = "tls"
  THEN IF r.tlsCert = Nobody THEN ~Config.tls.require ELSE r.tlsCert.trusted
  ELSE r.tlsCert = Nobody

\* The ingest routes have the device limiter outermost, then the IP limiter;
\* the query routes have an IP limiter.
FirstStage(r) == IF r.kind = "ingest" THEN "device" ELSE "query"
NextStage(s) == IF s = "device" THEN "ip" ELSE "handler"

Key(s, r) == IF s = "device" THEN ResolveDeviceId(r, Config.tls)
             ELSE ExtractIp(r, Config.tls, deploy.trustsProxy)

At(t, s, r) == [stage |-> s, r |-> r, counting |-> FALSE, result |-> Rejected("pending")]
Done(r, result) == [stage |-> "done", r |-> r, counting |-> FALSE, result |-> result]

Arrive(t, r) ==
  /\ phase = "serving" /\ req[t] = Idle
  /\ Handshake(r)
  /\ req' = [req EXCEPT ![t] = At(t, FirstStage(r), r)]
  /\ UNCHANGED <<limiterVars, crlVars, phase, deploy, faults>>

\* The middleware of a scope: no limiter, or the first half of check.
Guard(t) ==
  LET s == req[t].stage
      r == req[t].r
  IN  /\ s \in Scopes /\ ~req[t].counting
      /\ IF Limit(s) = 0
         THEN req' = [req EXCEPT ![t] = At(t, NextStage(s), r)] /\ UNCHANGED windows
         ELSE /\ CapGuard(s, Key(s, r))
              /\ req' = [req EXCEPT ![t] = IF Uncounted(s, Key(s, r)) THEN At(t, NextStage(s), r)
                                           ELSE [req[t] EXCEPT !.counting = TRUE]]
      /\ UNCHANGED <<spent, crlVars, phase, deploy, faults>>

\* The second half: on to the next layer, or 429.
CountStep(t) ==
  LET s == req[t].stage
      r == req[t].r
  IN  /\ s \in Scopes /\ req[t].counting
      /\ Count(s, Key(s, r), Limit(s))
      /\ req' = [req EXCEPT ![t] = IF Allowed(s, Key(s, r), Limit(s)) THEN At(t, NextStage(s), r)
                                   ELSE Done(r, Rejected("429"))]
      /\ UNCHANGED <<crlVars, phase, deploy, faults>>

\* The extractor of the ingest routes; query routes go on to operator auth.
Extract(t) ==
  /\ req[t].stage = "handler"
  /\ LET r == req[t].r IN
     req' = [req EXCEPT ![t] =
               Done(r, IF r.kind = "ingest" THEN FromRequestParts(r, Config.tls, Config.failOpen)
                       ELSE Identity(Nobody, Nobody, Nobody))]
  /\ UNCHANGED <<limiterVars, crlVars, phase, deploy, faults>>

Leave(t) ==
  /\ req[t].stage = "done"
  /\ req' = [req EXCEPT ![t] = Idle]
  /\ UNCHANGED <<limiterVars, crlVars, phase, deploy, faults>>

-----------------------------------------------------------------------------
(* The outside.                                                              *)

\* A tick of the limiters' clock; a check is instantaneous on that scale.
Tick ==
  /\ phase = "serving" /\ \E s \in Scopes : Limit(s) > 0
  /\ \A t \in Threads : req[t] = Idle
  /\ Age
  /\ UNCHANGED <<crlVars, frontVars>>

\* A configured URL of a CA's list.
Configured(u) == u \notin MalformedUrls /\ \E i \in DOMAIN deploy.urls : deploy.urls[i] = u

Revoke(u, serial) ==
  /\ Configured(u) /\ serial \notin published[u]
  /\ published' = [published EXCEPT ![u] = @ \cup {serial}]
  /\ UNCHANGED <<limiterVars, urls, up, entries, refresh, seen, frontVars>>

Outage(u) ==
  /\ Configured(u)
  /\ \/ u \in up /\ faults > 0 /\ faults' = faults - 1 /\ up' = up \ {u}
     \/ u \notin up /\ up' = up \cup {u} /\ UNCHANGED faults
  /\ UNCHANGED <<limiterVars, urls, published, entries, refresh, seen, phase, deploy, req>>

Next == \/ Boot \/ Serve \/ Restart \/ RefreshTick \/ RefreshStep \/ Tick
        \/ \E s \in Scopes : Gc(s)
        \/ \E t \in Threads : \/ Guard(t) \/ CountStep(t) \/ Extract(t) \/ Leave(t)
                              \/ \E r \in Requests : Arrive(t, r)
        \/ \E u \in AllUrls : Outage(u) \/ \E serial \in Serials : Revoke(u, serial)

\* The start-up and the refresh task go on; fetches end (CRL_FETCH_TIMEOUT).
Fairness == WF_vars(Boot) /\ WF_vars(Serve) /\ WF_vars(RefreshTick) /\ WF_vars(RefreshStep)

Spec == FrontInit /\ [][Next]_vars /\ Fairness

-----------------------------------------------------------------------------
(* Properties.                                                               *)

Accepted(t) == req[t].stage = "done" /\ req[t].result.answer = "ok" /\ req[t].r.kind = "ingest"

\* Whatever the environment from_env let through, an accepted identity taken
\* from a certificate is the one its SAN names, the certificate chains to the
\* CA bundle, and a forwarded one came through the proxy; where certificates
\* are required no identity comes from the plain header.
IdentityTruth ==
  \A t \in Threads : Accepted(t) =>
    LET i == req[t].result IN
    /\ i.cert # Nobody => i.cert.trusted /\ i.device = FromLeaf(i.cert)
    /\ i.source = "PeerCertHeader" => req[t].r.viaProxy
    /\ Config.tls.require => i.cert # Nobody

\* Once this process has fetched a certificate as revoked, no later request
\* gets an identity from that certificate, through failed refreshes and outages
\* of either URL.
RevokedStaysOut ==
  [][\A t \in Threads :
       req[t].stage = "handler" /\ req'[t].stage = "done"
       /\ req'[t].result.source = "ClientCertificate"
         => req'[t].result.cert.serial \notin seen]_vars

\* No key gets more than two windows' worth of counted requests into the span
\* of one window, although sweeps run beside the checks.
BurstBound == \A s \in Scopes, k \in Keys : Spent(s, k) <= 2 * Limit(s)

\* The map outgrows its cap by at most the checks that were between their two
\* halves when it filled up.
CapHeld ==
  \A s \in Scopes : Cardinality(LiveKeys(windows[s])) <= MaxKeys + Cardinality(Threads) - 1

\* A configured list whose URL stays reachable reaches the cache in full,
\* whatever happens to the other URLs or is wrong with them.
RevocationArrives ==
  \A u \in AllUrls :
    <>[](phase = "serving" /\ u \in up /\ \E i \in DOMAIN urls : urls[i] = u)
      => <>[](entries[u] = published[u])

\* "If no successful fetch has ever landed for a URL, the fail-open /
\* fail-closed knob applies" (crl.rs): failing closed, no certificate is
\* accepted while a configured URL has no entry.
UnfetchedFailsClosed ==
  [][\A t \in Threads :
       req[t].stage = "handler" /\ req'[t].stage = "done" /\ ~Config.failOpen
       /\ req'[t].result.source = "ClientCertificate"
         => \A i \in 1..Len(urls) : entries[urls[i]] # Unfetched]_vars

\* "Reject any client cert whose serial appears in either list" (crl.rs): no
\* identity comes from a certificate that a cached list names.
ListedIsRejected ==
  [][\A t \in Threads :
       req[t].stage = "handler" /\ req'[t].stage = "done" /\ req'[t].result.cert # Nobody
         => RevocationStatus(req'[t].result.cert.serial) # "Revoked"]_vars

\* "The device limiter key is resolved in the same priority order as the
\* DeviceIdentity extractor" (rate_limit.rs).
LimiterMirrorsIdentity ==
  \A t \in Threads : Accepted(t) => ResolveDeviceId(req[t].r, Config.tls) = req[t].result.device
=============================================================================
