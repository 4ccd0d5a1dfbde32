-------------------------- MODULE FrontDoorProofs ---------------------------
(***************************************************************************)
(* Proofs about FrontDoor: whose requests reach a handler, what a cached   *)
(* revocation list keeps out, and how far a limiter's map can grow, for    *)
(* any environment from_env accepts, any requests, URLs, serials, keys and *)
(* any number of threads.                                                  *)
(***************************************************************************)
EXTENDS FrontDoor, FiniteSetTheorems, WellFoundedInduction, TLAPS

-----------------------------------------------------------------------------
(* The invariants.                                                         *)

Entries == [age : Nat, count : Nat]

FrontTypeOK ==
  /\ deploy \in Deployments
  /\ windows \in [Scopes -> [Keys -> Entries]]
  /\ published \in [AllUrls -> SUBSET Serials]
  /\ entries \in [AllUrls -> (SUBSET Serials) \cup {Unfetched}]
  /\ urls \in Seq(AllUrls) /\ refresh \in Seq(AllUrls) /\ seen \subseteq Serials
  /\ req = [t \in Threads |-> req[t]]

\* A request past the handshake, where it is.
IsRequest(q) == q = [stage |-> q.stage, r |-> q.r, counting |-> q.counting, result |-> q.result]
Admitted(t) ==
  req[t] # Idle => /\ req[t].r \in Requests /\ Handshake(req[t].r) /\ IsRequest(req[t])
                   /\ req[t].stage \in Scopes \cup {"handler", "done"}

\* The identity of one accepted request.
Identified(t) ==
  Accepted(t) =>
    LET i == req[t].result IN
    /\ i.cert # Nobody => i.cert.trusted /\ i.device = FromLeaf(i.cert)
    /\ i.source = "PeerCertHeader" => req[t].r.viaProxy
    /\ Config.tls.require => i.cert # Nobody

\* A cached list is a part of what its CA has published by now, and every
\* serial fetched so far is in some cached list.
CrlInv ==
  /\ \A u \in AllUrls : entries[u] # Unfetched => entries[u] \subseteq published[u]
  /\ \A serial \in seen : \E u \in AllUrls : entries[u] # Unfetched /\ serial \in entries[u]
  /\ refresh # <<>> \/ seen # {} => urls # <<>>
  /\ urls # <<>> => urls = deploy.urls
  /\ phase = "down" => refresh = <<>>

\* The keys of a scope's map, with those that checks between their two halves
\* may still put into it.
Counting(s) == {t \in Threads : req[t].stage = s /\ req[t].counting}
Claimed(s) == LiveKeys(windows[s]) \cup {Key(s, req[t].r) : t \in Counting(s)}

CapInv == \A s \in Scopes :
            /\ IsFiniteSet(Claimed(s))
            /\ Cardinality(Claimed(s)) <= MaxKeys + Cardinality(Threads) - 1

FrontInv == FrontTypeOK /\ CrlInv /\ CapInv
            /\ \A t \in Threads : Admitted(t) /\ Identified(t)

-----------------------------------------------------------------------------
(* The configuration and the extractor.                                    *)

(* Config::from_env never takes the proxy's header without a CA bundle. *)
LEMMA HeaderNeedsBundle ==
  ASSUME NEW env \in Environments, FromEnv(env) # Refused, FromEnv(env).tls.mode = "header"
  PROVE  FromEnv(env).tls.bundle
<1> DEFINE enabled == ~env.header /\ ParseBool(env.tlsEnabled, FALSE) = TRUE
           require == ParseBool(env.requireIngest, enabled)
           mode == IF env.header THEN "header" ELSE IF enabled THEN "tls" ELSE "plain"
           bundle == env.caBundle # Unset
           gated == env.cidr # Unset
           tls == [mode |-> mode, require |-> require, bundle |-> bundle, gated |-> gated]
<1>1. TlsFromEnv(env) # Refused /\ FromEnv(env).tls = TlsFromEnv(env)
    BY DEF FromEnv
<1>2. TlsFromEnv(env) = tls /\ (env.header => env.caBundle # Unset)
  <2>1. CASE \/ Malformed \in {env.tlsEnabled, env.cidr, require}
             \/ env.header /\ env.cidr = Unset
             \/ enabled /\ Unset \in {env.serverFiles, env.caBundle}
             \/ env.header /\ env.caBundle = Unset
      BY <1>1, <2>1, Zenon DEF TlsFromEnv
  <2>2. CASE ~ (\/ Malformed \in {env.tlsEnabled, env.cidr, require}
                \/ env.header /\ env.cidr = Unset
                \/ enabled /\ Unset \in {env.serverFiles, env.caBundle}
                \/ env.header /\ env.caBundle = Unset)
      BY <2>2, Zenon DEF TlsFromEnv
  <2> QED BY <2>1, <2>2
<1>3. mode = "header"
  <2> HIDE DEF mode, require, bundle, gated
  <2> QED BY <1>1, <1>2
<1>4. bundle
  <2> HIDE DEF enabled
  <2> QED BY <1>2, <1>3
<1> HIDE DEF mode, require, bundle, gated
<1> QED BY <1>1, <1>2, <1>4

(* DeviceIdentity::from_request_parts: which sources an accepted identity can
   come from, and what was checked about its certificate. *)
LEMMA AcceptedIdentity ==
  ASSUME NEW r, NEW cfg, NEW failOpen,
         cfg.mode = "header" => cfg.bundle,
         cfg.mode = "tls" /\ r.tlsCert # Nobody => r.tlsCert.trusted,
         FromRequestParts(r, cfg, failOpen).answer = "ok"
  PROVE  LET i == FromRequestParts(r, cfg, failOpen) IN
         /\ i.cert # Nobody => i.cert.trusted /\ i.device = FromLeaf(i.cert)
         /\ i.source = "PeerCertHeader" => r.viaProxy
         /\ cfg.require => i.cert # Nobody
         /\ i.source = "ClientCertificate" => CheckRevocation(i.cert, failOpen) = "accept"
<1> DEFINE viaHeader == HeaderPath(r, cfg)
           leaf == IF cfg.mode = "tls" THEN r.tlsCert ELSE Nobody
           i == FromRequestParts(r, cfg, failOpen)
<1>1. CheckRevocation(leaf, failOpen) \in {"accept", "401", "503"}
    BY DEF CheckRevocation
<1>2. CASE viaHeader # Nobody
  <2>1. i = Identity(viaHeader, "PeerCertHeader", r.certHeader.cert)
      BY <1>2 DEF FromRequestParts
  <2>2. /\ cfg.mode = "header" /\ r.viaProxy /\ Decode(r.certHeader) # Nobody
        /\ ValidateCert(Decode(r.certHeader), cfg)
        /\ viaHeader = FromLeaf(Decode(r.certHeader))
      BY <1>2 DEF HeaderPath
  <2>3. Decode(r.certHeader) = r.certHeader.cert
      BY <2>2 DEF Decode
  <2>4. r.certHeader.cert.trusted
      BY <2>2, <2>3 DEF ValidateCert
  <2> HIDE DEF viaHeader, i
  <2> QED BY <2>1, <2>2, <2>3, <2>4 DEF Identity, i
<1>3. CASE viaHeader = Nobody /\ leaf # Nobody /\ CheckRevocation(leaf, failOpen) # "accept"
  <2>1. i = Rejected(CheckRevocation(leaf, failOpen))
      BY <1>3 DEF FromRequestParts
  <2>2. i.answer # "ok"
      BY <1>1, <2>1 DEF Rejected
  <2> QED BY <2>2
<1>4. CASE /\ viaHeader = Nobody /\ leaf # Nobody /\ CheckRevocation(leaf, failOpen) = "accept"
           /\ FromLeaf(leaf) # Nobody
  <2>1. i = Identity(FromLeaf(leaf), "ClientCertificate", leaf)
      BY <1>4 DEF FromRequestParts
  <2>2. leaf.trusted
      BY <1>4
  <2> HIDE DEF leaf, i, viaHeader
  <2> QED BY <1>4, <2>1, <2>2 DEF Identity, i
<1>5. CASE viaHeader = Nobody /\ (leaf = Nobody \/ (CheckRevocation(leaf, failOpen) = "accept"
                                                    /\ FromLeaf(leaf) = Nobody))
  <2>1. i = DeviceHeader(r, cfg)
      BY <1>5 DEF FromRequestParts
  <2>2. i = Identity(r.deviceHeader, "HeaderTemp", Nobody) /\ ~cfg.require
    <3>1. Rejected("401").answer # "ok" /\ Rejected("400").answer # "ok"
        BY DEF Rejected
    <3> QED BY <2>1, <3>1, Zenon DEF DeviceHeader
  <2> HIDE DEF i
  <2> QED BY <2>2 DEF Identity, i
<1> QED BY <1>2, <1>3, <1>4, <1>5

-----------------------------------------------------------------------------
(* Counting keys.                                                          *)

\* The elements of U are of L, or k, or what f gives some member of C.
MadeOf(U, L, k, C, f) == \A x \in U : x \in L \/ x = k \/ \E u \in C : x = f[u]

(* The map of a scope below its cap, a key more, and the keys of the other
   threads' checks. *)
LEMMA GrowthBound ==
  ASSUME NEW L, IsFiniteSet(L), Cardinality(L) < MaxKeys,
         NEW t \in Threads, NEW C \in SUBSET (Threads \ {t}),
         NEW f, NEW k, NEW U, MadeOf(U, L, k, C, f)
  PROVE  IsFiniteSet(U) /\ Cardinality(U) <= MaxKeys + Cardinality(Threads) - 1
<1> DEFINE P == {f[u] : u \in C}
           g == [u \in C |-> f[u]]
<1>1. IsFiniteSet(Threads) /\ Cardinality(Threads) \in Nat /\ MaxKeys \in Nat
    BY FrontAssumption, LimiterAssumption, FS_CardinalityType
<1>2. /\ IsFiniteSet(Threads \ {t}) /\ Cardinality(Threads \ {t}) = Cardinality(Threads) - 1
    BY <1>1, FS_RemoveElement
<1>3. IsFiniteSet(C) /\ Cardinality(C) <= Cardinality(Threads) - 1 /\ Cardinality(C) \in Nat
    BY <1>2, FS_Subset, FS_CardinalityType
<1>4. g \in Surjection(C, P)
    BY DEF Surjection
<1>5. IsFiniteSet(P) /\ Cardinality(P) <= Cardinality(C) /\ Cardinality(P) \in Nat
    BY <1>3, <1>4, FS_Surjection, FS_CardinalityType
<1>6. /\ IsFiniteSet(L \cup {k}) /\ Cardinality(L) \in Nat /\ Cardinality(L \cup {k}) \in Nat
      /\ Cardinality(L \cup {k}) <= Cardinality(L) + 1
  <2>1. Cardinality(L) \in Nat
      BY FS_CardinalityType
  <2>2. /\ IsFiniteSet(L \cup {k})
        /\ Cardinality(L \cup {k}) = IF k \in L THEN Cardinality(L) ELSE Cardinality(L) + 1
      BY FS_AddElement, Zenon
  <2> QED BY <2>1, <2>2
<1> HIDE DEF P
<1>7. /\ IsFiniteSet((L \cup {k}) \cup P)
      /\ Cardinality((L \cup {k}) \cup P) <= Cardinality(L \cup {k}) + Cardinality(P)
      /\ Cardinality((L \cup {k}) \cup P) \in Nat
  <2>1. IsFiniteSet((L \cup {k}) \cap P) /\ Cardinality((L \cup {k}) \cap P) \in Nat
      BY <1>5, FS_Subset, FS_CardinalityType
  <2>2. /\ IsFiniteSet((L \cup {k}) \cup P)
        /\ Cardinality((L \cup {k}) \cup P)
             = Cardinality(L \cup {k}) + Cardinality(P) - Cardinality((L \cup {k}) \cap P)
      BY <1>5, <1>6, FS_Union, Zenon
  <2>3. Cardinality((L \cup {k}) \cup P) \in Nat
      BY <2>2, FS_CardinalityType, Zenon
  <2> QED BY <1>5, <1>6, <2>1, <2>2, <2>3
<1>8. U \in SUBSET ((L \cup {k}) \cup P)
    BY DEF P, MadeOf
<1>9. IsFiniteSet(U) /\ Cardinality(U) <= Cardinality((L \cup {k}) \cup P) /\ Cardinality(U) \in Nat
    BY <1>7, <1>8, FS_Subset, FS_CardinalityType
<1> QED BY <1>1, <1>3, <1>5, <1>6, <1>7, <1>9

(* A scope that claims no new key stays within the bound. *)
LEMMA ClaimShrinks ==
  ASSUME CapInv, NEW s \in Scopes, NEW U \in SUBSET Claimed(s)
  PROVE  IsFiniteSet(U) /\ Cardinality(U) <= MaxKeys + Cardinality(Threads) - 1
<1>1. IsFiniteSet(Claimed(s)) /\ Cardinality(Claimed(s)) <= MaxKeys + Cardinality(Threads) - 1
    BY DEF CapInv
<1>2. /\ Cardinality(Claimed(s)) \in Nat /\ Cardinality(Threads) \in Nat /\ MaxKeys \in Nat
      /\ IsFiniteSet(U) /\ Cardinality(U) \in Nat /\ Cardinality(U) <= Cardinality(Claimed(s))
    BY <1>1, FS_Subset, FS_CardinalityType, FrontAssumption, LimiterAssumption
<1> QED BY <1>1, <1>2

-----------------------------------------------------------------------------
(* The steps of one thread.                                                *)

(* Assigning one thread's request. *)
LEMMA ReqUpdate ==
  ASSUME FrontTypeOK, NEW t \in Threads, NEW v, req' = [req EXCEPT ![t] = v]
  PROVE  /\ req' = [u \in Threads |-> req'[u]] /\ req'[t] = v
         /\ \A u \in Threads : u # t => req'[u] = req[u]
BY DEF FrontTypeOK

(* A step of one thread keeps the invariant when it keeps what that says of the
   thread, and the bound on the claimed keys. *)
LEMMA ThreadStep ==
  ASSUME FrontInv, NEW t \in Threads, NEW v, req' = [req EXCEPT ![t] = v],
         UNCHANGED <<crlVars, phase, deploy>>,
         windows' \in [Scopes -> [Keys -> Entries]],
         Admitted(t)', Identified(t)', CapInv'
  PROVE  FrontInv'
<1>1. /\ req' = [u \in Threads |-> req'[u]]
      /\ \A u \in Threads : u # t => req'[u] = req[u]
    BY ReqUpdate DEF FrontInv
<1>2. FrontTypeOK'
    BY <1>1 DEF FrontInv, FrontTypeOK, crlVars
<1>3. CrlInv'
    BY DEF FrontInv, CrlInv, crlVars
<1>4. ASSUME NEW u \in Threads, u # t PROVE Admitted(u)' /\ Identified(u)'
  <2>1. Config' = Config
      BY DEF Config
  <2>2. Admitted(u)'
      BY <1>1, <1>4, <2>1 DEF FrontInv, Admitted, Handshake
  <2>3. Identified(u)'
      BY <1>1, <1>4, <2>1 DEF FrontInv, Identified, Accepted
  <2> QED BY <2>2, <2>3
<1> QED BY <1>2, <1>3, <1>4 DEF FrontInv

(* A thread that is not between the two halves of a check afterwards claims
   nothing; what is in the maps was claimed before. *)
LEMMA Unclaimed ==
  ASSUME FrontInv, NEW t \in Threads, NEW v, req' = [req EXCEPT ![t] = v],
         UNCHANGED deploy,
         \A s \in Scopes : ~(v.stage = s /\ v.counting),
         \A s \in Scopes : LiveKeys(windows'[s]) \subseteq Claimed(s)
  PROVE  CapInv'
<1>1. req'[t] = v /\ \A u \in Threads : u # t => req'[u] = req[u]
    BY ReqUpdate DEF FrontInv
<1>2. ASSUME NEW s \in Scopes
      PROVE  IsFiniteSet(Claimed(s)') /\ Cardinality(Claimed(s)') <= MaxKeys + Cardinality(Threads) - 1
  <2>1. Counting(s)' \subseteq Counting(s) \ {t}
      BY <1>1, <1>2 DEF Counting
  <2>2. \A u \in Counting(s)' : Key(s, req[u].r)' = Key(s, req[u].r)
      BY <1>1, <2>1 DEF Counting, Key, Config
  <2>3. Claimed(s)' \in SUBSET Claimed(s)
      BY <2>1, <2>2 DEF Claimed
  <2> QED BY <2>3, ClaimShrinks DEF FrontInv
<1> QED BY <1>2 DEF CapInv

(* The handshake has passed: the request is at its first limiter. *)
LEMMA ArriveStep ==
  ASSUME FrontInv, NEW t \in Threads, NEW r \in Requests, Arrive(t, r)
  PROVE  FrontInv'
<1> DEFINE v == At(t, FirstStage(r), r)
<1>1. /\ req' = [req EXCEPT ![t] = v] /\ Handshake(r)
      /\ UNCHANGED <<crlVars, phase, deploy>> /\ UNCHANGED windows
    BY DEF Arrive, limiterVars
<1>2. /\ v.stage \in {"device", "query"} /\ v.counting = FALSE /\ v.r = r /\ IsRequest(v)
    BY DEF At, FirstStage, IsRequest
<1> HIDE DEF v
<1>3. req'[t] = v
    BY <1>1, ReqUpdate DEF FrontInv
<1>4. Admitted(t)'
    BY <1>1, <1>2, <1>3, FrontAssumption DEF Admitted, Handshake, Config
<1>5. Identified(t)'
    BY <1>2, <1>3 DEF Identified, Accepted
<1>6. \A s \in Scopes : LiveKeys(windows'[s]) \subseteq Claimed(s)
    BY <1>1 DEF Claimed
<1>7. CapInv'
    BY <1>1, <1>2, <1>6, Unclaimed
<1> QED BY <1>1, <1>4, <1>5, <1>7, ThreadStep DEF FrontInv, FrontTypeOK

(* The response is sent. *)
LEMMA LeaveStep ==
  ASSUME FrontInv, NEW t \in Threads, Leave(t)
  PROVE  FrontInv'
<1>1. /\ req' = [req EXCEPT ![t] = Idle]
      /\ UNCHANGED <<crlVars, phase, deploy>> /\ UNCHANGED windows
    BY DEF Leave, limiterVars
<1>2. Idle.stage \notin Scopes /\ Idle.stage # "done"
    BY FrontAssumption DEF Idle
<1>3. req'[t] = Idle
    BY <1>1, ReqUpdate DEF FrontInv
<1>4. Admitted(t)'
    BY <1>3 DEF Admitted
<1>5. Identified(t)'
    BY <1>2, <1>3 DEF Identified, Accepted
<1>6. \A s \in Scopes : LiveKeys(windows'[s]) \subseteq Claimed(s)
    BY <1>1 DEF Claimed
<1>7. CapInv'
    BY <1>1, <1>2, <1>6, Unclaimed
<1> QED BY <1>1, <1>4, <1>5, <1>7, ThreadStep DEF FrontInv, FrontTypeOK

(* The extractor's answer is an identity the certificate vouches for. *)
LEMMA ExtractStep ==
  ASSUME FrontInv, NEW t \in Threads, Extract(t)
  PROVE  FrontInv'
<1> DEFINE r == req[t].r
           i == IF r.kind = "ingest" THEN FromRequestParts(r, Config.tls, Config.failOpen)
                ELSE Identity(Nobody, Nobody, Nobody)
           v == Done(r, i)
<1>1. /\ req' = [req EXCEPT ![t] = v] /\ req[t].stage = "handler"
      /\ UNCHANGED <<crlVars, phase, deploy>> /\ UNCHANGED windows
    BY DEF Extract, limiterVars
<1>2. /\ v.stage = "done" /\ v.counting = FALSE /\ v.r = r /\ v.result = i /\ IsRequest(v)
  <2> HIDE DEF i, r
  <2> QED BY DEF Done, IsRequest
<1>3. req'[t] = v /\ Config' = Config
    BY <1>1, ReqUpdate DEF FrontInv, Config
<1>4. r \in Requests /\ Handshake(r)
    BY <1>1 DEF FrontInv, Admitted, Idle
<1>5. Admitted(t)'
  <2> HIDE DEF v, r
  <2> QED BY <1>2, <1>3, <1>4 DEF Admitted, Handshake
<1>6. r.kind = "ingest" /\ i.answer = "ok" =>
        /\ i.cert # Nobody => i.cert.trusted /\ i.device = FromLeaf(i.cert)
        /\ i.source = "PeerCertHeader" => r.viaProxy
        /\ Config.tls.require => i.cert # Nobody
  <2> SUFFICES ASSUME r.kind = "ingest", FromRequestParts(r, Config.tls, Config.failOpen).answer = "ok"
               PROVE  LET j == FromRequestParts(r, Config.tls, Config.failOpen) IN
                      /\ j.cert # Nobody => j.cert.trusted /\ j.device = FromLeaf(j.cert)
                      /\ j.source = "PeerCertHeader" => r.viaProxy
                      /\ Config.tls.require => j.cert # Nobody
      OBVIOUS
  <2>1. deploy.env \in Environments /\ FromEnv(deploy.env) # Refused
      BY FrontAssumption DEF FrontInv, FrontTypeOK
  <2>2. Config.tls.mode = "header" => Config.tls.bundle
      BY <2>1, HeaderNeedsBundle DEF Config
  <2>3. Config.tls.mode = "tls" /\ r.tlsCert # Nobody => r.tlsCert.trusted
      BY <1>4 DEF Handshake
  <2> HIDE DEF r
  <2> QED BY <2>2, <2>3, AcceptedIdentity
<1>7. Identified(t)'
  <2> HIDE DEF i, v, r
  <2> QED BY <1>2, <1>3, <1>6 DEF Identified, Accepted
<1>8. \A s \in Scopes : LiveKeys(windows'[s]) \subseteq Claimed(s)
    BY <1>1 DEF Claimed
<1> HIDE DEF v
<1>9. CapInv'
    BY <1>1, <1>2, <1>8, Unclaimed
<1> QED BY <1>1, <1>5, <1>7, <1>9, ThreadStep DEF FrontInv, FrontTypeOK

(* Sweeping a map only removes keys. *)
LEMMA Sweep ==
  ASSUME FrontTypeOK, NEW s \in Scopes, PurgeExpired(s)
  PROVE  /\ windows' \in [Scopes -> [Keys -> Entries]]
         /\ LiveKeys(windows'[s]) = LiveKeys(Retain(windows[s]))
         /\ \A z \in Scopes : LiveKeys(windows'[z]) \subseteq LiveKeys(windows[z])
<1>1. windows[s] \in [Keys -> Entries] /\ None \in Entries
    BY DEF FrontTypeOK, None, Entries
<1>2. Retain(windows[s]) \in [Keys -> Entries]
    BY <1>1 DEF Retain
<1>3. windows' = [windows EXCEPT ![s] = Retain(windows[s])]
    BY DEF PurgeExpired
<1>4. LiveKeys(Retain(windows[s])) \subseteq LiveKeys(windows[s])
    BY <1>1 DEF LiveKeys, Retain
<1>5. windows' \in [Scopes -> [Keys -> Entries]] /\ windows'[s] = Retain(windows[s])
      /\ \A z \in Scopes : z # s => windows'[z] = windows[z]
    BY <1>2, <1>3 DEF FrontTypeOK
<1> QED BY <1>4, <1>5

(* The first half of a check that will count only marks its request. *)
LEMMA MarkedRequest ==
  ASSUME NEW q, IsRequest(q), NEW mark
  PROVE  LET v == [q EXCEPT !.counting = mark] IN
         v.stage = q.stage /\ v.counting = mark /\ v.r = q.r /\ IsRequest(v)
<1>1. PICK a, b, c, d : q = [stage |-> a, r |-> b, counting |-> c, result |-> d]
    BY DEF IsRequest
<1>2. [q EXCEPT !.counting = mark] = [stage |-> a, r |-> b, counting |-> mark, result |-> d]
    BY <1>1
<1> QED BY <1>1, <1>2 DEF IsRequest

(* The first half of a check: a key that is counted is in the map, or the map
   has room for it. *)
LEMMA GuardStep ==
  ASSUME FrontInv, NEW t \in Threads, Guard(t)
  PROVE  FrontInv'
<1>0. PICK s \in Scopes : s = req[t].stage
    BY DEF Guard
<1> DEFINE r == req[t].r
           k == Key(s, r)
<1>1. /\ FrontTypeOK /\ CapInv /\ s = req[t].stage /\ ~req[t].counting
      /\ UNCHANGED <<crlVars, phase, deploy>>
    BY <1>0 DEF FrontInv, Guard
<1>2. r \in Requests /\ Handshake(r) /\ IsRequest(req[t])
    BY <1>1, FrontAssumption DEF FrontInv, Admitted, Idle
<1>3. /\ Config' = Config
      /\ \A q : Handshake(q)' = Handshake(q)
    BY <1>1 DEF Config, Handshake
<1>4. CapGuard(s, k) \/ UNCHANGED windows
    BY <1>0 DEF Guard
<1>5. /\ windows' \in [Scopes -> [Keys -> Entries]]
      /\ \A z \in Scopes : LiveKeys(windows'[z]) \subseteq LiveKeys(windows[z])
    BY <1>1, <1>4, Sweep DEF CapGuard, FrontTypeOK
<1>6. ASSUME req' = [req EXCEPT ![t] = At(t, NextStage(s), r)] PROVE FrontInv'
  <2> DEFINE v == At(t, NextStage(s), r)
  <2>1. /\ v.stage \in {"ip", "handler"} /\ v.counting = FALSE /\ v.r = r /\ IsRequest(v)
    <3> HIDE DEF r
    <3> QED BY DEF At, NextStage, IsRequest
  <2> HIDE DEF v
  <2>2. req' = [req EXCEPT ![t] = v]
      BY <1>6 DEF v
  <2>3. req'[t] = v
      BY <1>1, <2>2, ReqUpdate
  <2>4. Admitted(t)' /\ Identified(t)'
      BY <1>2, <1>3, <2>1, <2>3, FrontAssumption DEF Admitted, Identified, Accepted
  <2>5. \A z \in Scopes : LiveKeys(windows'[z]) \subseteq Claimed(z)
      BY <1>5 DEF Claimed
  <2>6. CapInv'
      BY <1>1, <2>1, <2>2, <2>5, Unclaimed
  <2> QED BY <1>1, <1>5, <2>2, <2>4, <2>6, ThreadStep
<1>7. ASSUME CapGuard(s, k), ~Uncounted(s, k),
             req' = [req EXCEPT ![t] = [req[t] EXCEPT !.counting = TRUE]]
      PROVE  FrontInv'
  <2> DEFINE v == [req[t] EXCEPT !.counting = TRUE]
  <2>1. v.stage = s /\ v.counting = TRUE /\ v.r = r /\ IsRequest(v)
      BY <1>1, <1>2, MarkedRequest
  <2> HIDE DEF v
  <2>2. req' = [req EXCEPT ![t] = v]
      BY <1>7 DEF v
  <2>3. req'[t] = v /\ \A u \in Threads : u # t => req'[u] = req[u]
      BY <1>1, <2>2, ReqUpdate
  <2>4. Admitted(t)' /\ Identified(t)'
      BY <1>1, <1>2, <1>3, <2>1, <2>3, FrontAssumption DEF Admitted, Identified, Accepted
  <2>5. CapInv'
    <3>1. \A z \in Scopes : \A u \in Threads :
            u # t => (u \in Counting(z)' <=> u \in Counting(z)) /\ Key(z, req[u].r)' = Key(z, req[u].r)
        BY <1>3, <1>1, <2>3 DEF Counting, Key
    <3>2. /\ t \notin Counting(s)
          /\ \A z \in Scopes : z # s => t \notin Counting(z) /\ t \notin Counting(z)'
          /\ Key(s, req[t].r)' = k
        BY <1>1, <1>3, <2>1, <2>3 DEF Counting, Key
    <3>3. ASSUME NEW z \in Scopes, z # s
          PROVE  Claimed(z)' \in SUBSET Claimed(z)
        BY <1>5, <3>1, <3>2, <3>3 DEF Claimed, Counting
    <3>4. Claimed(s)' \subseteq LiveKeys(windows'[s]) \cup {k} \cup {Key(s, req[u].r) : u \in Counting(s)}
        BY <3>1, <3>2 DEF Claimed, Counting
    <3>5. /\ IsFiniteSet(Claimed(s)')
          /\ Cardinality(Claimed(s)') <= MaxKeys + Cardinality(Threads) - 1
      <4>1. CASE windows[s][k] # None
        <5>1. k \in LiveKeys(windows[s])
          <6>1. k \in Keys
              BY <1>1, <1>2, FrontAssumption DEF Key, Config, FrontTypeOK
          <6> QED BY <4>1, <6>1 DEF LiveKeys
        <5>2. Claimed(s)' \in SUBSET Claimed(s)
            BY <1>5, <3>4, <5>1, <1>1 DEF Claimed
        <5> QED BY <1>1, <5>2, ClaimShrinks
      <4>2. CASE windows[s][k] = None
        <5> DEFINE L == IF AtCap(s, k) THEN LiveKeys(Retain(windows[s])) ELSE LiveKeys(windows[s])
        <5>1. LiveKeys(windows'[s]) \subseteq L /\ L \subseteq LiveKeys(windows[s])
          <6>1. CASE AtCap(s, k)
            <7>1. PurgeExpired(s)
                BY <1>7, <6>1 DEF CapGuard
            <7> QED BY <1>1, <6>1, <7>1, Sweep
          <6>2. CASE ~AtCap(s, k)
              BY <1>7, <6>2 DEF CapGuard
          <6> QED BY <6>1, <6>2
        <5>2. IsFiniteSet(L)
          <6>1. L \in SUBSET Claimed(s)
              BY <5>1 DEF Claimed
          <6> HIDE DEF L
          <6> QED BY <1>1, <6>1, ClaimShrinks
        <5>3. Cardinality(L) < MaxKeys
          <6>1. Cardinality(L) \in Nat /\ MaxKeys \in Nat
            <7> HIDE DEF L
            <7> QED BY <5>2, FS_CardinalityType, LimiterAssumption
          <6>2. ~(Cardinality(L) >= MaxKeys)
              BY <1>7, <4>2 DEF Uncounted, AtCap
          <6> HIDE DEF L
          <6> QED BY <6>1, <6>2
        <5> HIDE DEF L
        <5> DEFINE f == [u \in Threads |-> Key(s, req[u].r)]
        <5>4. Counting(s) \in SUBSET (Threads \ {t})
            BY <3>2 DEF Counting
        <5>5. MadeOf(Claimed(s)', L, k, Counting(s), f)
            BY <3>4, <5>1, <5>4 DEF MadeOf
        <5> HIDE DEF f, k
        <5> QED BY <5>2, <5>3, <5>4, <5>5, GrowthBound
      <4> QED BY <4>1, <4>2
    <3> QED BY <1>1, <3>3, <3>5, ClaimShrinks DEF CapInv
  <2> QED BY <1>1, <1>5, <2>2, <2>4, <2>5, ThreadStep
<1> QED BY <1>0, <1>6, <1>7 DEF Guard

(* The second half: the key it puts into the map was claimed by this check. *)
LEMMA CountedStep ==
  ASSUME FrontInv, NEW t \in Threads, CountStep(t)
  PROVE  FrontInv'
<1>0. PICK s \in Scopes : s = req[t].stage
    BY DEF CountStep
<1> DEFINE r == req[t].r
           k == Key(s, r)
           e == windows[s][k]
<1>1. /\ FrontTypeOK /\ CapInv /\ s = req[t].stage /\ req[t].counting
      /\ UNCHANGED <<crlVars, phase, deploy>> /\ Count(s, k, Limit(s))
    BY <1>0 DEF FrontInv, CountStep
<1>2. r \in Requests /\ Handshake(r) /\ IsRequest(req[t])
    BY <1>1, FrontAssumption DEF FrontInv, Admitted, Idle
<1>3. /\ Config' = Config
      /\ \A q : Handshake(q)' = Handshake(q)
    BY <1>1 DEF Config, Handshake
<1>4. k \in Keys /\ e \in Entries
    BY <1>1, <1>2, FrontAssumption DEF Key, Config, FrontTypeOK
<1>5. PICK n \in Entries : windows' = [windows EXCEPT ![s][k] = n]
  <2>1. [age |-> 0, count |-> 1] \in Entries
      BY DEF Entries
  <2>2. [e EXCEPT !.count = @ + 1] \in Entries
      BY <1>4 DEF Entries
  <2> HIDE DEF e
  <2> QED BY <1>1, <1>4, <2>1, <2>2 DEF Count, e
<1>6. /\ windows' \in [Scopes -> [Keys -> Entries]]
      /\ \A z \in Scopes : LiveKeys(windows'[z]) \subseteq Claimed(z)
  <2> HIDE DEF k
  <2>1. /\ windows' \in [Scopes -> [Keys -> Entries]]
        /\ \A z \in Scopes : z # s => windows'[z] = windows[z]
        /\ \A x \in Keys : x # k => windows'[s][x] = windows[s][x]
      BY <1>1, <1>4, <1>5 DEF FrontTypeOK
  <2>2. t \in Counting(s)
      BY <1>1 DEF Counting
  <2>3. k \in Claimed(s)
      BY <2>2 DEF Claimed, k
  <2>4. \A z \in Scopes : z # s => LiveKeys(windows'[z]) \subseteq Claimed(z)
      BY <2>1 DEF Claimed
  <2>5. LiveKeys(windows'[s]) \subseteq Claimed(s)
      BY <2>1, <2>3 DEF LiveKeys, Claimed
  <2> QED BY <2>1, <2>4, <2>5
<1>7. ASSUME NEW v, req' = [req EXCEPT ![t] = v], v.counting = FALSE, v.r = r, IsRequest(v),
             v.stage \in {"ip", "handler", "done"}, v.stage = "done" => v.result.answer = "429"
      PROVE  FrontInv'
  <2>1. req'[t] = v
      BY <1>1, <1>7, ReqUpdate
  <2>2. Admitted(t)' /\ Identified(t)'
      BY <1>2, <1>3, <1>7, <2>1, FrontAssumption DEF Admitted, Identified, Accepted
  <2>3. CapInv'
      BY <1>1, <1>6, <1>7, Unclaimed
  <2> QED BY <1>1, <1>6, <1>7, <2>2, <2>3, ThreadStep
<1>8. CASE Allowed(s, k, Limit(s))
  <2> DEFINE v == At(t, NextStage(s), r)
  <2>1. req' = [req EXCEPT ![t] = v]
      BY <1>0, <1>8 DEF CountStep
  <2>2. /\ v.counting = FALSE /\ v.r = r /\ IsRequest(v) /\ v.stage \in {"ip", "handler"}
    <3> HIDE DEF r
    <3> QED BY DEF At, NextStage, IsRequest
  <2> HIDE DEF v
  <2> QED BY <1>7, <2>1, <2>2
<1>9. CASE ~Allowed(s, k, Limit(s))
  <2> DEFINE v == Done(r, Rejected("429"))
  <2>1. req' = [req EXCEPT ![t] = v]
      BY <1>0, <1>9 DEF CountStep
  <2>2. /\ v.counting = FALSE /\ v.r = r /\ IsRequest(v) /\ v.stage = "done"
        /\ v.result.answer = "429"
    <3> HIDE DEF r
    <3> QED BY DEF Done, IsRequest, Rejected
  <2> HIDE DEF v
  <2> QED BY <1>7, <2>1, <2>2
<1> QED BY <1>8, <1>9

-----------------------------------------------------------------------------
(* The process and the outside.                                            *)

(* What no thread and no limiter took part in leaves the requests' claims. *)
LEMMA ThreadsUnchanged ==
  ASSUME FrontInv, UNCHANGED <<windows, req, deploy>>
  PROVE  /\ CapInv' /\ \A t \in Threads : Admitted(t)' /\ Identified(t)'
         /\ deploy' \in Deployments /\ windows' \in [Scopes -> [Keys -> Entries]]
         /\ req' = [t \in Threads |-> req'[t]]
<1>1. Config' = Config
    BY DEF Config
<1>2. \A s \in Scopes : Claimed(s)' = Claimed(s)
    BY <1>1 DEF Claimed, Counting, Key
<1>3. CapInv'
    BY <1>2 DEF FrontInv, CapInv
<1>4. \A t \in Threads : Admitted(t)' /\ Identified(t)'
    BY <1>1 DEF FrontInv, Admitted, Identified, Accepted, Handshake
<1> QED BY <1>3, <1>4 DEF FrontInv, FrontTypeOK

(* Start-up, the refresh task and the CAs. *)
LEMMA CrlSteps ==
  ASSUME FrontInv,
         \/ Boot \/ Serve \/ RefreshTick \/ RefreshStep
         \/ \E u \in AllUrls : Outage(u) \/ \E serial \in Serials : Revoke(u, serial)
  PROVE  FrontInv'
<1>1. FrontTypeOK /\ CrlInv
    BY DEF FrontInv
<1>2. UNCHANGED <<windows, req, deploy>>
    BY DEF Boot, Serve, RefreshTick, RefreshStep, Outage, Revoke, limiterVars, frontVars
<1>3. deploy.urls \in Seq(AllUrls)
    BY <1>1, FrontAssumption DEF FrontTypeOK
<1>4. FrontTypeOK' /\ CrlInv'
  <2> USE ThreadsUnchanged, <1>2
  <2>1. CASE Boot
    <3>1. FrontTypeOK'
        BY <1>1, <1>3, <2>1 DEF Boot, FrontTypeOK
    <3>2. CrlInv'
        BY <1>1, <2>1 DEF Boot, CrlInv
    <3> QED BY <3>1, <3>2
  <2>2. CASE Serve
      BY <1>1, <2>2 DEF Serve, FrontTypeOK, CrlInv, crlVars
  <2>3. CASE RefreshTick
      BY <1>1, <2>3 DEF RefreshTick, StartRefresh, FrontTypeOK, CrlInv, frontVars
  <2>4. CASE RefreshStep
    <3> DEFINE u == Head(refresh)
    <3>1. /\ refresh # <<>> /\ refresh' = Tail(refresh) /\ UNCHANGED <<urls, published, up, phase>>
          /\ phase # "down"
        BY <2>4 DEF RefreshStep, RefreshUrl, frontVars
    <3>2. u \in AllUrls /\ refresh' \in Seq(AllUrls) /\ urls # <<>>
        BY <1>1, <3>1 DEF FrontTypeOK, CrlInv
    <3>3. CASE u \in up
      <4>1. entries' = [entries EXCEPT ![u] = published[u]] /\ seen' = seen \cup published[u]
          BY <2>4, <3>3 DEF RefreshStep, RefreshUrl
      <4>2. published[u] \in SUBSET Serials /\ published[u] # Unfetched
          BY <1>1, <3>2, UnfetchedAssumption DEF FrontTypeOK
      <4> HIDE DEF u
      <4>3. FrontTypeOK'
          BY <1>1, <3>1, <3>2, <4>1, <4>2 DEF FrontTypeOK
      <4>4. \A w \in AllUrls : entries'[w] # Unfetched => entries'[w] \subseteq published'[w]
          BY <1>1, <3>1, <3>2, <4>1 DEF FrontTypeOK, CrlInv
      <4>5. \A serial \in seen' : \E w \in AllUrls : entries'[w] # Unfetched /\ serial \in entries'[w]
        <5>1. entries'[u] = published[u] /\ \A w \in AllUrls : w # u => entries'[w] = entries[w]
            BY <1>1, <3>2, <4>1 DEF FrontTypeOK
        <5>2. ASSUME NEW serial \in seen
              PROVE  \E w \in AllUrls : entries'[w] # Unfetched /\ serial \in entries'[w]
          <6>1. PICK w \in AllUrls : entries[w] # Unfetched /\ serial \in entries[w]
              BY <1>1 DEF CrlInv
          <6>2. CASE w = u
              BY <1>1, <3>2, <4>2, <5>1, <6>1, <6>2 DEF CrlInv
          <6>3. CASE w # u
              BY <5>1, <6>1, <6>3
          <6> QED BY <6>2, <6>3
        <5> QED BY <3>2, <4>1, <4>2, <5>1, <5>2
      <4> QED BY <1>1, <1>2, <3>1, <3>2, <4>3, <4>4, <4>5 DEF CrlInv
    <3>4. CASE u \notin up
      <4>1. UNCHANGED <<entries, seen>>
          BY <2>4, <3>4 DEF RefreshStep, RefreshUrl
      <4> HIDE DEF u
      <4> QED BY <1>1, <3>1, <3>2, <4>1 DEF FrontTypeOK, CrlInv
    <3> QED BY <3>3, <3>4
  <2>5. ASSUME NEW u \in AllUrls, Outage(u) PROVE FrontTypeOK' /\ CrlInv'
      BY <1>1, <2>5 DEF Outage, FrontTypeOK, CrlInv
  <2>6. ASSUME NEW u \in AllUrls, NEW serial \in Serials, Revoke(u, serial)
        PROVE  FrontTypeOK' /\ CrlInv'
    <3>1. /\ published' = [published EXCEPT ![u] = @ \cup {serial}]
          /\ UNCHANGED <<urls, entries, refresh, seen, phase>>
        BY <2>6 DEF Revoke, frontVars
    <3>2. FrontTypeOK'
        BY <1>1, <3>1 DEF FrontTypeOK
    <3>3. \A w \in AllUrls : published[w] \subseteq published'[w]
        BY <1>1, <3>1 DEF FrontTypeOK
    <3> QED BY <1>1, <1>2, <3>1, <3>2, <3>3 DEF CrlInv
  <2> QED BY <2>1, <2>2, <2>3, <2>4, <2>5, <2>6
<1> QED BY <1>2, <1>4, ThreadsUnchanged DEF FrontInv

(* An empty process: no list, no key, no request. *)
LEMMA EmptyMaps ==
  ASSUME FrontAssumption, windows = [s \in Scopes |-> [k \in Keys |-> None]],
         req = [t \in Threads |-> Idle]
  PROVE  /\ CapInv /\ \A t \in Threads : Admitted(t) /\ Identified(t)
         /\ windows \in [Scopes -> [Keys -> Entries]] /\ req = [t \in Threads |-> req[t]]
<1>1. None \in Entries
    BY DEF None, Entries
<1>2. Idle.stage = "idle"
    BY DEF Idle
<1>3. \A s \in Scopes : Claimed(s) = {}
    BY <1>2, FrontAssumption DEF Claimed, Counting, LiveKeys
<1>4. \A t \in Threads : Admitted(t) /\ Identified(t)
    BY <1>2 DEF Admitted, Identified, Accepted
<1>5. IsFiniteSet({}) /\ Cardinality({}) = 0 /\ Cardinality(Threads) \in Nat /\ MaxKeys \in Nat \ {0}
    BY FS_EmptySet, FS_CardinalityType, LimiterAssumption, FrontAssumption
<1>6. 0 <= MaxKeys + Cardinality(Threads) - 1
    BY <1>5
<1>7. CapInv
    BY <1>3, <1>5, <1>6 DEF CapInv
<1> QED BY <1>1, <1>4, <1>7

(* A restart forgets them all. *)
LEMMA RestartStep ==
  ASSUME FrontInv, Restart
  PROVE  FrontInv'
<1>1. /\ windows' = [s \in Scopes |-> [k \in Keys |-> None]] /\ req' = [t \in Threads |-> Idle]
      /\ entries' = NoEntries /\ refresh' = <<>> /\ seen' = {} /\ phase' = "down"
      /\ UNCHANGED <<urls, published, deploy>>
    BY DEF Restart, ForgetCrls
<1>2. /\ CapInv' /\ \A t \in Threads : Admitted(t)' /\ Identified(t)'
      /\ windows' \in [Scopes -> [Keys -> Entries]] /\ req' = [t \in Threads |-> req'[t]]
  <2>1. None \in Entries /\ Idle.stage = "idle"
      BY DEF None, Entries, Idle
  <2>2. \A s \in Scopes : Claimed(s)' = {}
      BY <1>1, <2>1, FrontAssumption DEF Claimed, Counting, LiveKeys
  <2>3. \A t \in Threads : Admitted(t)' /\ Identified(t)'
      BY <1>1, <2>1 DEF Admitted, Identified, Accepted
  <2>4. /\ IsFiniteSet({}) /\ Cardinality({}) = 0 /\ Cardinality(Threads) \in Nat
        /\ MaxKeys \in Nat \ {0}
      BY FS_EmptySet, FS_CardinalityType, LimiterAssumption, FrontAssumption
  <2>5. CapInv'
      BY <2>2, <2>4 DEF CapInv
  <2> QED BY <1>1, <2>1, <2>3, <2>5
<1>3. FrontTypeOK'
  <2>1. NoEntries \in [AllUrls -> (SUBSET Serials) \cup {Unfetched}] /\ <<>> \in Seq(AllUrls)
      BY DEF NoEntries
  <2> QED BY <1>1, <1>2, <2>1 DEF FrontInv, FrontTypeOK
<1>4. CrlInv'
    BY <1>1 DEF FrontInv, CrlInv, NoEntries
<1> QED BY <1>2, <1>3, <1>4 DEF FrontInv

(* The GC task's sweep, and the limiters' clock, add no key. *)
LEMMA LimiterSteps ==
  ASSUME FrontInv, Tick \/ \E s \in Scopes : Gc(s)
  PROVE  FrontInv'
<1>1. FrontTypeOK /\ CrlInv /\ CapInv /\ UNCHANGED <<crlVars, frontVars>>
    BY DEF FrontInv, Tick, Gc
<1>2. /\ windows' \in [Scopes -> [Keys -> Entries]]
      /\ \A s \in Scopes : LiveKeys(windows'[s]) \subseteq LiveKeys(windows[s])
  <2>1. ASSUME NEW s \in Scopes, Gc(s)
        PROVE  /\ windows' \in [Scopes -> [Keys -> Entries]]
               /\ \A z \in Scopes : LiveKeys(windows'[z]) \subseteq LiveKeys(windows[z])
      BY <1>1, <2>1, Sweep DEF Gc
  <2>2. CASE Tick
    <3>1. \A s \in Scopes, k \in Keys :
            /\ windows[s][k] \in Entries
            /\ [windows[s][k] EXCEPT !.age = @ + 1] \in Entries
      <4>1. \A e \in Entries : [e EXCEPT !.age = @ + 1] \in Entries
          BY DEF Entries
      <4> QED BY <1>1, <4>1 DEF FrontTypeOK
    <3>2. windows' = [s \in Scopes |-> [k \in Keys |->
            IF windows[s][k] = None \/ Expired(windows[s][k]) THEN windows[s][k]
            ELSE [windows[s][k] EXCEPT !.age = @ + 1]]]
        BY <2>2 DEF Tick, Age
    <3>3. windows' \in [Scopes -> [Keys -> Entries]]
        BY <3>1, <3>2
    <3>4. \A s \in Scopes, k \in Keys : windows[s][k] = None => windows'[s][k] = None
        BY <3>2
    <3> QED BY <3>3, <3>4 DEF LiveKeys
  <2> QED BY <2>1, <2>2
<1>3. Config' = Config
    BY <1>1 DEF Config, frontVars
<1>4. CapInv'
  <2>1. \A s \in Scopes : Claimed(s)' \in SUBSET Claimed(s)
      BY <1>1, <1>2, <1>3 DEF Claimed, Counting, Key, frontVars
  <2> QED BY <1>1, <2>1, ClaimShrinks DEF CapInv
<1>5. FrontTypeOK' /\ CrlInv'
    BY <1>1, <1>2 DEF FrontTypeOK, CrlInv, crlVars, frontVars
<1>6. \A t \in Threads : Admitted(t)' /\ Identified(t)'
    BY <1>1, <1>3 DEF FrontInv, Admitted, Identified, Accepted, Handshake, frontVars
<1> QED BY <1>4, <1>5, <1>6 DEF FrontInv

-----------------------------------------------------------------------------
(* The theorems.                                                           *)

(* Every step of the front door keeps its invariant. *)
LEMMA FrontStep ==
  ASSUME FrontInv, [Next]_vars PROVE FrontInv'
<1>1. ASSUME NEW t \in Threads, Guard(t) \/ CountStep(t) \/ Extract(t) \/ Leave(t) PROVE FrontInv'
    BY <1>1, GuardStep, CountedStep, ExtractStep, LeaveStep
<1>2. ASSUME NEW t \in Threads, NEW r \in Requests, Arrive(t, r) PROVE FrontInv'
    BY <1>2, ArriveStep
<1>3. CASE UNCHANGED vars
  <2>1. UNCHANGED <<windows, req, deploy, crlVars, phase>>
      BY <1>3 DEF vars, limiterVars, frontVars
  <2>2. FrontTypeOK' /\ CrlInv'
      BY <2>1 DEF FrontInv, FrontTypeOK, CrlInv, crlVars
  <2> QED BY <2>1, <2>2, ThreadsUnchanged DEF FrontInv
<1> QED BY <1>1, <1>2, <1>3, CrlSteps, RestartStep, LimiterSteps DEF Next

(* The invariant of the front door: what was checked about a request that got
   past the handshake, what the cached lists cover, which keys are claimed. *)
THEOREM FrontInductive == Spec => []FrontInv
<1>1. FrontInit => FrontInv
  <2> SUFFICES ASSUME FrontInit PROVE FrontInv
      OBVIOUS
  <2>1. /\ CapInv /\ \A t \in Threads : Admitted(t) /\ Identified(t)
        /\ windows \in [Scopes -> [Keys -> Entries]] /\ req = [t \in Threads |-> req[t]]
      BY EmptyMaps, FrontAssumption DEF FrontInit, LimiterInit
  <2>2. FrontTypeOK
    <3>1. NoEntries \in [AllUrls -> (SUBSET Serials) \cup {Unfetched}] /\ <<>> \in Seq(AllUrls)
          /\ [u \in AllUrls |-> {}] \in [AllUrls -> SUBSET Serials]
        BY DEF NoEntries
    <3> QED BY <2>1, <3>1 DEF FrontTypeOK, FrontInit, CrlInit
  <2>3. CrlInv
      BY DEF CrlInv, FrontInit, CrlInit, NoEntries
  <2> QED BY <2>1, <2>2, <2>3 DEF FrontInv
<1>2. FrontInv /\ [Next]_vars => FrontInv'
    BY FrontStep
<1> QED BY <1>1, <1>2, PTL DEF Spec

(* device_identity.rs and config.rs: under every environment from_env accepts,
   an accepted identity from a certificate is the one its SAN names and the
   certificate chains to the CA bundle, a forwarded one came through the proxy,
   and where certificates are required none comes from the plain header. *)
THEOREM IdentitiesTrue == Spec => []IdentityTruth
<1>1. FrontInv => IdentityTruth
    BY DEF FrontInv, Identified, IdentityTruth
<1> QED BY <1>1, FrontInductive, PTL

(* state.rs: the map of a limiter outgrows RATE_LIMIT_MAX_KEYS by at most the
   checks that were between their two halves when it filled up. *)
THEOREM MapsBounded == Spec => []CapHeld
<1>1. FrontInv => CapHeld
  <2> SUFFICES ASSUME FrontInv, NEW s \in Scopes
               PROVE  Cardinality(LiveKeys(windows[s])) <= MaxKeys + Cardinality(Threads) - 1
      BY DEF CapHeld
  <2>1. LiveKeys(windows[s]) \in SUBSET Claimed(s)
      BY DEF Claimed
  <2> QED BY <2>1, ClaimShrinks DEF FrontInv
<1> QED BY <1>1, FrontInductive, PTL

(* crl.rs: once this process has fetched a serial as revoked, the TLS path
   yields no identity from a certificate with that serial, through failed
   refreshes and outages of either URL. *)
THEOREM RevokedOut == Spec => RevokedStaysOut
<1> DEFINE KeptOut == \A t \in Threads :
             req[t].stage = "handler" /\ req'[t].stage = "done"
             /\ req'[t].result.source = "ClientCertificate"
               => req'[t].result.cert.serial \notin seen
<1>1. ASSUME FrontInv, Next PROVE KeptOut
  <2> SUFFICES ASSUME NEW t \in Threads, req[t].stage = "handler", req'[t].stage = "done",
                      req'[t].result.source = "ClientCertificate"
               PROVE  req'[t].result.cert.serial \notin seen
      OBVIOUS
  <2> USE <1>1
  <2>1. req'[t] # req[t]
      OBVIOUS
  <2>2. Extract(t)
    <3>1. ASSUME NEW u \in Threads, u # t,
                 \/ Guard(u) \/ CountStep(u) \/ Extract(u) \/ Leave(u)
                 \/ \E r \in Requests : Arrive(u, r)
          PROVE  FALSE
      <4>1. PICK v : req' = [req EXCEPT ![u] = v]
          BY <3>1, Zenon DEF Guard, CountStep, Extract, Leave, Arrive
      <4> QED BY <2>1, <3>1, <4>1, ReqUpdate DEF FrontInv
    <3>2. ~Restart
      <4> SUFFICES ASSUME Restart PROVE FALSE
          OBVIOUS
      <4>1. req'[t].stage = "idle"
          BY DEF Restart, Idle
      <4> QED BY <4>1
    <3>3. UNCHANGED req => FALSE
        BY <2>1
    <3>4. ~(Guard(t) \/ CountStep(t) \/ Leave(t) \/ \E r \in Requests : Arrive(t, r))
        BY FrontAssumption DEF Guard, CountStep, Leave, Arrive, Idle
    <3> QED BY <3>1, <3>2, <3>3, <3>4
            DEF Next, Boot, Serve, RefreshTick, RefreshStep, Tick, Gc, Outage, Revoke, frontVars
  <2> DEFINE r == req[t].r
             i == IF r.kind = "ingest" THEN FromRequestParts(r, Config.tls, Config.failOpen)
                  ELSE Identity(Nobody, Nobody, Nobody)
  <2>3. req'[t].result = i
    <3>1. req' = [req EXCEPT ![t] = Done(r, i)]
        BY <2>2 DEF Extract
    <3>2. req'[t] = Done(r, i)
        BY <3>1, ReqUpdate DEF FrontInv
    <3> HIDE DEF r, i
    <3> QED BY <3>2 DEF Done
  <2>4. r.kind = "ingest"
    <3>1. Identity(Nobody, Nobody, Nobody).source = Nobody
        BY DEF Identity
    <3> QED BY <2>3, <3>1, NobodyAssumption
  <2>5. i = FromRequestParts(r, Config.tls, Config.failOpen) /\ i.source = "ClientCertificate"
      BY <2>3, <2>4
  <2> HIDE DEF i
  <2>6. CheckRevocation(i.cert, Config.failOpen) = "accept"
    <3>1. Handshake(r)
        BY DEF FrontInv, Admitted, Idle
    <3>2. Config.tls.mode = "tls" /\ r.tlsCert # Nobody => r.tlsCert.trusted
        BY <3>1 DEF Handshake
    <3>3. Config.tls.mode = "header" => Config.tls.bundle
        BY HeaderNeedsBundle, FrontAssumption DEF FrontInv, FrontTypeOK, Config
    <3>4. i.answer = "ok"
      <4> HIDE DEF r
      <4>1. \A a : Rejected(a).source # "ClientCertificate"
          BY NobodyAssumption DEF Rejected
      <4>2. \A d, src, c : Identity(d, src, c).answer = "ok"
          BY DEF Identity
      <4> QED BY <2>5, <4>1, <4>2, Zenon DEF FromRequestParts, DeviceHeader
    <3> HIDE DEF r
    <3> QED BY <2>5, <3>2, <3>3, <3>4, AcceptedIdentity
  <2>7. CASE urls = <<>>
      BY <2>7 DEF FrontInv, CrlInv
  <2>8. CASE urls # <<>>
    <3>1. RevocationStatus(i.cert.serial) # "Revoked"
        BY <2>6, <2>8 DEF CheckRevocation
    <3>2. \A u \in AllUrls : entries[u] # Unfetched => i.cert.serial \notin entries[u]
        BY <3>1 DEF RevocationStatus
    <3>3. i.cert.serial \notin seen
        BY <3>2 DEF FrontInv, CrlInv
    <3> QED BY <2>3, <3>3 DEF i
  <2> QED BY <2>7, <2>8
<1>2. FrontInv /\ [Next]_vars => [KeptOut]_vars
    BY <1>1
<1>3. Spec => [][KeptOut]_vars
    BY <1>2, FrontInductive, PTL DEF Spec
<1> QED BY <1>3 DEF RevokedStaysOut

-----------------------------------------------------------------------------
(* What a key can spend within the span of one window.                     *)

\* p[n] is what was spent in the last n ticks.
IsSum(p, f) == /\ p \in [0 .. Window -> Nat] /\ p[0] = 0
               /\ \A n \in 0 .. Window - 1 : p[n + 1] = p[n] + f[n]

\* A live entry's count is what was spent since its window began, and before
\* that there is room for what one earlier window allowed.  Without a live
\* entry only one window's worth is left, and none of it is of this tick.
Stale(e) == e = None \/ Expired(e)
Fits(e, f, limit) ==
  /\ f \in [0 .. Window - 1 -> Nat]
  /\ \E p : /\ IsSum(p, f)
            /\ Stale(e) => p[Window] <= limit /\ f[0] = 0
            /\ ~Stale(e) => /\ e.count \in 1 .. limit
                            /\ p[e.age + 1] = e.count
                            /\ p[Window] <= e.count + limit

Budgeted(s, k) == Fits(windows[s][k], spent[s][k], Limit(s))

\* Only a scope with a limit counts.
Metered(t) == req[t] # Idle /\ req[t].counting /\ req[t].stage \in Scopes => Limit(req[t].stage) > 0

BurstInv == /\ spent = [s \in Scopes |-> [k \in Keys |-> spent[s][k]]]
            /\ \A s \in Scopes, k \in Keys : Budgeted(s, k)
            /\ \A t \in Threads : Metered(t)

(* Induction over the naturals, for a property given as a set. *)
LEMMA SetInduction ==
  ASSUME NEW S, 0 \in S, \A n \in Nat : n \in S => n + 1 \in S
  PROVE  Nat \subseteq S
<1> SUFFICES ASSUME Nat \ S # {} PROVE FALSE
    OBVIOUS
<1>1. IsWellFoundedOn(OpToRel(<, Nat), Nat)
    BY NatLessThanWellFounded
<1>2. PICK x \in Nat \ S : \A y \in Nat \ S : <<y, x>> \notin OpToRel(<, Nat)
    BY <1>1, WFMin
<1>3. \A y \in Nat \ S : ~(y < x)
    BY <1>2 DEF OpToRel
<1>4. x # 0
    OBVIOUS
<1>5. x - 1 \in Nat /\ x - 1 < x /\ (x - 1) + 1 = x
    BY <1>4
<1> QED BY <1>3, <1>5

(* The recursive sum of RateLimiter is the one the invariant speaks of. *)
LEMMA SpentIsSum ==
  ASSUME NEW s, NEW k, NEW p, IsSum(p, spent[s][k])
  PROVE  Spent(s, k) = p[Window]
<1>0. PICK f : f = spent[s][k]
    OBVIOUS
<1>1. PICK g : g = CHOOSE h : h = [a \in 0 .. Window |-> IF a = 0 THEN 0 ELSE h[a - 1] + f[a - 1]]
    OBVIOUS
<1>2. Spent(s, k) = g[Window]
    BY <1>0, <1>1 DEF Spent
<1>3. Window \in Nat
    BY LimiterAssumption
<1>4. p \in [0 .. Window -> Nat] /\ p[0] = 0 /\ \A n \in 0 .. Window - 1 : p[n + 1] = p[n] + f[n]
    BY <1>0 DEF IsSum
<1>5. p = [a \in 0 .. Window |-> IF a = 0 THEN 0 ELSE p[a - 1] + f[a - 1]]
  <2>1. \A a \in 0 .. Window : a # 0 => a - 1 \in 0 .. Window - 1 /\ (a - 1) + 1 = a
      BY <1>3
  <2>2. \A a \in 0 .. Window : p[a] = IF a = 0 THEN 0 ELSE p[a - 1] + f[a - 1]
      BY <1>4, <2>1
  <2> QED BY <1>4, <2>2
<1>6. g = [a \in 0 .. Window |-> IF a = 0 THEN 0 ELSE g[a - 1] + f[a - 1]]
    BY <1>1, <1>5
<1>7. \A a \in 0 .. Window : g[a] = IF a = 0 THEN 0 ELSE g[a - 1] + f[a - 1]
    BY <1>6
<1> DEFINE S == {n \in Nat : n <= Window => g[n] = p[n]}
<1>8. 0 \in S
    BY <1>3, <1>4, <1>7
<1>9. \A n \in Nat : n \in S => n + 1 \in S
  <2> SUFFICES ASSUME NEW n \in Nat, n \in S, n + 1 <= Window  PROVE g[n + 1] = p[n + 1]
      OBVIOUS
  <2>1. n <= Window /\ n \in 0 .. Window - 1 /\ n + 1 \in 0 .. Window /\ (n + 1) - 1 = n /\ n + 1 # 0
      BY <1>3
  <2>2. g[n] = p[n]
      BY <2>1
  <2>3. g[n + 1] = g[n] + f[n]
      BY <1>7, <2>1
  <2> QED BY <1>4, <2>1, <2>2, <2>3
<1>10. Nat \subseteq S
  <2> HIDE DEF S
  <2> QED BY <1>8, <1>9, SetInduction
<1>11. g[Window] = p[Window]
    BY <1>3, <1>10
<1> QED BY <1>2, <1>11

(* What nobody has spent. *)
LEMMA NothingSpent ==
  ASSUME NEW f, f = [a \in 0 .. (Window - 1) |-> 0]
  PROVE  /\ f \in [0 .. Window - 1 -> Nat] /\ f[0] = 0
         /\ \E p : IsSum(p, f) /\ p[Window] = 0
<1>1. Window \in Nat \ {0} /\ 0 \in 0 .. Window - 1
    BY LimiterAssumption
<1>2. IsSum([n \in 0 .. Window |-> 0], f) /\ [n \in 0 .. Window |-> 0][Window] = 0
    BY <1>1 DEF IsSum
<1> QED BY <1>1, <1>2

\* One more admission in this tick.
Counted(g, f) == g = [f EXCEPT ![0] = f[0] + 1]

(* It adds one to every sum. *)
LEMMA OneMore ==
  ASSUME NEW f \in [0 .. Window - 1 -> Nat], NEW p, IsSum(p, f),
         NEW g, Counted(g, f)
  PROVE  /\ g \in [0 .. Window - 1 -> Nat]
         /\ \E q : IsSum(q, g) /\ \A n \in 1 .. Window : q[n] = p[n] + 1
<1>1. Window \in Nat \ {0} /\ 0 \in 0 .. Window - 1
    BY LimiterAssumption
<1>2. PICK q : q = [n \in 0 .. Window |-> IF n = 0 THEN 0 ELSE p[n] + 1]
    OBVIOUS
<1>3. /\ p \in [0 .. Window -> Nat] /\ p[0] = 0
      /\ \A n \in 0 .. Window - 1 : p[n + 1] = p[n] + f[n]
    BY DEF IsSum
<1>4. q \in [0 .. Window -> Nat] /\ q[0] = 0 /\ \A n \in 1 .. Window : q[n] = p[n] + 1
    BY <1>1, <1>2, <1>3
<1>5. g \in [0 .. Window - 1 -> Nat] /\ g[0] = f[0] + 1 /\ \A n \in 1 .. Window - 1 : g[n] = f[n]
    BY <1>1 DEF Counted
<1>6. ASSUME NEW n \in 0 .. Window - 1  PROVE q[n + 1] = q[n] + g[n]
  <2>1. n + 1 \in 1 .. Window /\ q[n + 1] = p[n + 1] + 1 /\ p[n + 1] = p[n] + f[n]
        /\ p[n] \in Nat /\ f[n] \in Nat
      BY <1>1, <1>3, <1>4
  <2>2. CASE n = 0
      BY <1>3, <1>4, <1>5, <2>1, <2>2
  <2>3. CASE n # 0
    <3>1. n \in 1 .. Window /\ n \in 1 .. Window - 1
        BY <1>1, <2>3
    <3> QED BY <1>4, <1>5, <2>1, <3>1
  <2> QED BY <2>2, <2>3
<1>7. IsSum(q, g)
    BY <1>4, <1>6 DEF IsSum
<1> QED BY <1>4, <1>5, <1>7

(* A tick of the clock. *)
LEMMA OneLater ==
  ASSUME NEW f \in [0 .. Window - 1 -> Nat], NEW p, IsSum(p, f),
         NEW g, g = [a \in 0 .. (Window - 1) |-> IF a = 0 THEN 0 ELSE f[a - 1]]
  PROVE  /\ g \in [0 .. Window - 1 -> Nat] /\ g[0] = 0
         /\ \E q : /\ IsSum(q, g) /\ \A n \in 0 .. Window - 1 : q[n + 1] = p[n]
                   /\ q[Window] <= p[Window]
<1>1. Window \in Nat \ {0} /\ 0 \in 0 .. Window - 1
    BY LimiterAssumption
<1>2. PICK q : q = [n \in 0 .. Window |-> IF n = 0 THEN 0 ELSE p[n - 1]]
    OBVIOUS
<1>3. /\ p \in [0 .. Window -> Nat] /\ p[0] = 0
      /\ \A n \in 0 .. Window - 1 : p[n + 1] = p[n] + f[n]
    BY DEF IsSum
<1>4. \A n \in 1 .. Window : n - 1 \in 0 .. Window - 1 /\ n - 1 \in 0 .. Window /\ (n - 1) + 1 = n
    BY <1>1
<1>5. q \in [0 .. Window -> Nat] /\ q[0] = 0 /\ \A n \in 0 .. Window - 1 : q[n + 1] = p[n]
    BY <1>1, <1>2, <1>3, <1>4
<1>6. /\ g \in [0 .. Window - 1 -> Nat] /\ g[0] = 0
      /\ \A n \in 0 .. Window - 1 : n # 0 => g[n] = f[n - 1]
    BY <1>1, <1>4
<1>7. ASSUME NEW n \in 0 .. Window - 1  PROVE q[n + 1] = q[n] + g[n]
  <2>1. q[n + 1] = p[n]
      BY <1>5
  <2>2. CASE n = 0
      BY <1>3, <1>5, <1>6, <2>1, <2>2
  <2>3. CASE n # 0
    <3>1. n - 1 \in 0 .. Window - 1 /\ (n - 1) + 1 = n
        BY <1>1, <2>3
    <3>2. q[n] = p[n - 1] /\ g[n] = f[n - 1] /\ p[n] = p[n - 1] + f[n - 1]
        BY <1>3, <1>5, <1>6, <2>3, <3>1
    <3> QED BY <2>1, <3>2
  <2> QED BY <2>2, <2>3
<1>8. IsSum(q, g)
    BY <1>5, <1>7 DEF IsSum
<1>9. q[Window] <= p[Window]
  <2>1. Window - 1 \in 0 .. Window - 1 /\ (Window - 1) + 1 = Window
      BY <1>1
  <2>2. q[Window] = p[Window - 1] /\ p[Window] = p[Window - 1] + f[Window - 1]
        /\ p[Window - 1] \in Nat /\ f[Window - 1] \in Nat
      BY <1>3, <1>5, <2>1
  <2> QED BY <2>2
<1> QED BY <1>5, <1>6, <1>8, <1>9

\* The entry a key opens its window with.
Opening(e) == e.age = 0 /\ e.count = 1

(* A key without a live entry opens a window. *)
LEMMA FitsOpen ==
  ASSUME NEW e \in Entries, NEW f, NEW limit \in Nat, Fits(e, f, limit), Stale(e), limit > 0,
         NEW g, Counted(g, f),
         NEW e2 \in Entries, Opening(e2)
  PROVE  Fits(e2, g, limit)
<1>1. f \in [0 .. Window - 1 -> Nat] /\ Window \in Nat \ {0} /\ 0 \in 0 .. Window - 1 /\ 1 \in 1 .. Window
    BY LimiterAssumption DEF Fits
<1>2. PICK p : IsSum(p, f) /\ p[Window] <= limit /\ f[0] = 0
    BY DEF Fits
<1>3. g \in [0 .. Window - 1 -> Nat] /\ \E q : IsSum(q, g) /\ \A n \in 1 .. Window : q[n] = p[n] + 1
  <2>1. f \in [0 .. Window - 1 -> Nat] /\ IsSum(p, f)
      BY <1>1, <1>2
  <2> QED BY <2>1, OneMore, Zenon
<1>4. PICK q : IsSum(q, g) /\ \A n \in 1 .. Window : q[n] = p[n] + 1
    BY <1>3
<1>5. p[0 + 1] = p[0] + f[0] /\ p[0] = 0 /\ p[Window] \in Nat
    BY <1>1, <1>2 DEF IsSum
<1>6. q[1] = 1 /\ q[Window] <= 1 + limit
    BY <1>1, <1>2, <1>4, <1>5
<1>7. ~Stale(e2)
    BY <1>1 DEF Opening, Stale, Expired, None
<1> QED BY <1>3, <1>4, <1>6, <1>7 DEF Fits, Opening

(* A key with a live entry below the limit. *)
LEMMA FitsMore ==
  ASSUME NEW e \in Entries, NEW f, NEW limit \in Nat, Fits(e, f, limit), ~Stale(e), e.count < limit,
         NEW g, Counted(g, f),
         NEW e2 \in Entries, e2.age = e.age, e2.count = e.count + 1
  PROVE  Fits(e2, g, limit)
<1>1. /\ f \in [0 .. Window - 1 -> Nat] /\ Window \in Nat \ {0} /\ e.age \in Nat /\ e.count \in Nat
      /\ e.age < Window /\ e.age + 1 \in 1 .. Window /\ Window \in 1 .. Window
    BY LimiterAssumption DEF Fits, Entries, Stale, Expired
<1>2. PICK p : IsSum(p, f) /\ p[e.age + 1] = e.count /\ p[Window] <= e.count + limit
    BY DEF Fits
<1>3. g \in [0 .. Window - 1 -> Nat] /\ \E q : IsSum(q, g) /\ \A n \in 1 .. Window : q[n] = p[n] + 1
    BY <1>1, <1>2, OneMore, Zenon
<1>4. PICK q : IsSum(q, g) /\ \A n \in 1 .. Window : q[n] = p[n] + 1
    BY <1>3
<1>5. p[Window] \in Nat
    BY <1>1, <1>2 DEF IsSum
<1>6. q[e2.age + 1] = e2.count /\ q[Window] <= e2.count + limit
  <2>1. q[e.age + 1] = p[e.age + 1] + 1 /\ q[Window] = p[Window] + 1
      BY <1>1, <1>4
  <2>2. q[e.age + 1] = e.count + 1
      BY <1>2, <2>1, Zenon
  <2>3. q[Window] <= (e.count + 1) + limit
      BY <1>1, <1>2, <1>5, <2>1
  <2>4. q[e2.age + 1] = q[e.age + 1]
      OBVIOUS
  <2> QED BY <2>2, <2>3, <2>4
<1>7. ~Stale(e2) /\ e2.count \in 1 .. limit
    BY <1>1 DEF Stale, Expired, None
<1> QED BY <1>3, <1>4, <1>6, <1>7 DEF Fits

(* A sweep turns an expired entry into none. *)
LEMMA FitsSwept ==
  ASSUME NEW e, NEW f, NEW limit, Fits(e, f, limit), Expired(e)
  PROVE  Fits(None, f, limit)
<1>1. Stale(e) /\ Stale(None)
    BY DEF Stale
<1> QED BY <1>1 DEF Fits

(* A tick: the entry stays, ages, or expires with its window. *)
LEMMA FitsLater ==
  ASSUME NEW e \in Entries, NEW f, NEW limit \in Nat, Fits(e, f, limit),
         NEW g, g = [a \in 0 .. (Window - 1) |-> IF a = 0 THEN 0 ELSE f[a - 1]],
         NEW e2 \in Entries, Stale(e) => e2 = e,
         ~Stale(e) => e2.age = e.age + 1 /\ e2.count = e.count
  PROVE  Fits(e2, g, limit)
<1>1. /\ f \in [0 .. Window - 1 -> Nat] /\ Window \in Nat \ {0} /\ e.age \in Nat /\ e.count \in Nat
    BY LimiterAssumption DEF Fits, Entries
<1>2. PICK p : /\ IsSum(p, f)
               /\ Stale(e) => p[Window] <= limit
               /\ ~Stale(e) => /\ e.count \in 1 .. limit /\ p[e.age + 1] = e.count
                               /\ p[Window] <= e.count + limit
    BY DEF Fits
<1>3. /\ g \in [0 .. Window - 1 -> Nat] /\ g[0] = 0
      /\ \E q : /\ IsSum(q, g) /\ \A n \in 0 .. Window - 1 : q[n + 1] = p[n]
                /\ q[Window] <= p[Window]
    BY <1>1, <1>2, OneLater
<1>4. PICK q : /\ IsSum(q, g) /\ \A n \in 0 .. Window - 1 : q[n + 1] = p[n]
               /\ q[Window] <= p[Window]
    BY <1>3
<1>5. p[Window] \in Nat /\ q[Window] \in Nat
    BY <1>1, <1>2, <1>4 DEF IsSum
<1>6. CASE Stale(e)
  <2>1. q[Window] <= limit
      BY <1>2, <1>4, <1>5, <1>6
  <2> QED BY <1>3, <1>4, <1>6, <2>1 DEF Fits
<1>7. CASE ~Stale(e)
  <2>0. e.age < Window
      BY <1>1, <1>7 DEF Stale, Expired
  <2>1. CASE e.age + 1 = Window
    <3>1. q[Window] <= limit
        BY <1>2, <1>4, <1>5, <1>7, <2>1
    <3>2. Stale(e2)
        BY <1>1, <1>7, <2>1 DEF Stale, Expired
    <3> QED BY <1>3, <1>4, <3>1, <3>2 DEF Fits
  <2>2. CASE e.age + 1 # Window
    <3>1. e.age + 1 \in 0 .. Window - 1
        BY <1>1, <2>0, <2>2
    <3>2. q[e2.age + 1] = e2.count /\ q[Window] <= e2.count + limit /\ e2.count \in 1 .. limit
      <4>1. e2.age = e.age + 1 /\ e2.count = e.count /\ e.count \in 1 .. limit
            /\ p[e.age + 1] = e.count /\ p[Window] <= e.count + limit
          BY <1>2, <1>7
      <4>2. q[(e.age + 1) + 1] = p[e.age + 1]
          BY <1>4, <3>1
      <4>3. q[Window] <= e.count + limit
          BY <1>1, <1>4, <1>5, <4>1
      <4> QED BY <4>1, <4>2, <4>3
    <3>3. ~Stale(e2)
      <4>1. e2.age < Window /\ e2.age \in Nat
          BY <1>1, <1>7, <3>1
      <4>2. e2.count # 0
          BY <3>2
      <4>3. ~Expired(e2)
          BY <1>1, <4>1 DEF Expired
      <4>4. None.count = 0
          BY DEF None
      <4> QED BY <4>2, <4>3, <4>4 DEF Stale
    <3> QED BY <1>3, <1>4, <3>2, <3>3 DEF Fits
  <2> QED BY <2>1, <2>2
<1> QED BY <1>6, <1>7

(* The scopes' limits do not change while the deployment does not. *)
LEMMA SameLimits ==
  ASSUME FrontTypeOK
  PROVE  /\ \A s \in Scopes : Limit(s) \in Nat
         /\ UNCHANGED deploy => \A s \in Scopes : Limit(s)' = Limit(s)
BY FrontAssumption DEF FrontTypeOK, Limit

(* A key whose entry and whose admissions a step leaves alone. *)
LEMMA BudgetKept ==
  ASSUME FrontTypeOK, UNCHANGED deploy, NEW s \in Scopes, NEW k \in Keys, Budgeted(s, k),
         windows'[s][k] = windows[s][k], spent'[s][k] = spent[s][k]
  PROVE  Budgeted(s, k)'
BY SameLimits DEF Budgeted

(* A sweep keeps every budget. *)
LEMMA BudgetSwept ==
  ASSUME FrontTypeOK, UNCHANGED <<spent, deploy>>, \A s \in Scopes, k \in Keys : Budgeted(s, k),
         UNCHANGED windows \/ \E z \in Scopes : PurgeExpired(z)
  PROVE  \A s \in Scopes, k \in Keys : Budgeted(s, k)'
<1>1. CASE UNCHANGED windows
    BY <1>1, BudgetKept
<1>2. ASSUME NEW z \in Scopes, PurgeExpired(z), NEW s \in Scopes, NEW k \in Keys
      PROVE  Budgeted(s, k)'
  <2>1. windows'[s][k] = windows[s][k] \/ (Expired(windows[s][k]) /\ windows'[s][k] = None)
      BY <1>2 DEF FrontTypeOK, PurgeExpired, Retain
  <2>2. CASE windows'[s][k] = windows[s][k]
      BY <2>2, BudgetKept
  <2>3. CASE Expired(windows[s][k]) /\ windows'[s][k] = None
    <3>1. Fits(windows[s][k], spent[s][k], Limit(s))
        BY DEF Budgeted
    <3>2. Fits(None, spent[s][k], Limit(s))
        BY <2>3, <3>1, FitsSwept
    <3> QED BY <2>3, <3>2, SameLimits DEF Budgeted
  <2> QED BY <2>1, <2>2, <2>3
<1> QED BY <1>1, <1>2

(* The clock keeps every budget. *)
LEMMA BudgetLater ==
  ASSUME FrontTypeOK, FrontTypeOK', UNCHANGED deploy,
         \A s \in Scopes, k \in Keys : Budgeted(s, k), Age
  PROVE  \A s \in Scopes, k \in Keys : Budgeted(s, k)'
<1> SUFFICES ASSUME NEW s \in Scopes, NEW k \in Keys PROVE Budgeted(s, k)'
    OBVIOUS
<1>1. PICK e \in Entries, e2 \in Entries : e = windows[s][k] /\ e2 = windows'[s][k]
    BY DEF FrontTypeOK
<1>2. PICK f, g : f = spent[s][k] /\ g = spent'[s][k]
    OBVIOUS
<1>3. g = [a \in 0 .. (Window - 1) |-> IF a = 0 THEN 0 ELSE f[a - 1]]
    BY <1>2 DEF Age
<1>4. e2 = IF Stale(e) THEN e ELSE [e EXCEPT !.age = @ + 1]
    BY <1>1 DEF Age, Stale
<1>5. Stale(e) => e2 = e
    BY <1>4
<1>6. ~Stale(e) => e2.age = e.age + 1 /\ e2.count = e.count
    BY <1>4 DEF Entries
<1>7. Fits(e, f, Limit(s)) /\ Limit(s) \in Nat
    BY <1>1, <1>2, SameLimits DEF Budgeted
<1>8. Fits(e2, g, Limit(s))
    BY <1>3, <1>5, <1>6, <1>7, FitsLater, Zenon
<1> QED BY <1>1, <1>2, <1>8, SameLimits DEF Budgeted

(* The second half of a check keeps every budget. *)
LEMMA BudgetCounted ==
  ASSUME FrontTypeOK, FrontTypeOK', UNCHANGED deploy,
         spent = [s \in Scopes |-> [k \in Keys |-> spent[s][k]]],
         \A s \in Scopes, k \in Keys : Budgeted(s, k),
         NEW s \in Scopes, NEW k \in Keys, Limit(s) > 0, Count(s, k, Limit(s))
  PROVE  /\ spent' = [z \in Scopes |-> [x \in Keys |-> spent'[z][x]]]
         /\ \A z \in Scopes, x \in Keys : Budgeted(z, x)'
<1>1. PICK e \in Entries, e2 \in Entries : e = windows[s][k] /\ e2 = windows'[s][k]
    BY DEF FrontTypeOK
<1>2. PICK f : f = spent[s][k]
    OBVIOUS
<1>3. Fits(e, f, Limit(s)) /\ Limit(s) \in Nat
    BY <1>1, <1>2, SameLimits DEF Budgeted
<1>4. /\ \A z \in Scopes, x \in Keys : z # s \/ x # k => windows'[z][x] = windows[z][x]
      /\ e2 = IF Stale(e) THEN [age |-> 0, count |-> 1]
              ELSE IF e.count < Limit(s) THEN [e EXCEPT !.count = @ + 1] ELSE e
    BY <1>1 DEF Count, FrontTypeOK, Stale
<1>5. CASE ~(Stale(e) \/ e.count < Limit(s))
  <2>1. spent' = spent /\ e2 = e
      BY <1>1, <1>4, <1>5 DEF Count, Allowed, Stale
  <2> QED BY <1>1, <1>4, <2>1, BudgetKept
<1>6. CASE Stale(e) \/ e.count < Limit(s)
  <2>1. spent' = [spent EXCEPT ![s][k][0] = @ + 1]
      BY <1>1, <1>6 DEF Count, Allowed, Stale
  <2>2. PICK g : g = [f EXCEPT ![0] = f[0] + 1]
      OBVIOUS
  <2>3. /\ spent' = [z \in Scopes |-> [x \in Keys |-> spent'[z][x]]] /\ spent'[s][k] = g
        /\ \A z \in Scopes, x \in Keys : z # s \/ x # k => spent'[z][x] = spent[z][x]
      BY <1>2, <2>1, <2>2
  <2>4. Fits(e2, g, Limit(s))
    <3>0. Counted(g, f)
        BY <2>2 DEF Counted
    <3>1. CASE Stale(e)
      <4>1. e2 = [age |-> 0, count |-> 1]
          BY <1>4, <3>1
      <4>2. Opening(e2)
          BY <4>1 DEF Opening
      <4> QED BY <1>3, <3>0, <3>1, <4>2, FitsOpen, Zenon
    <3>2. CASE ~Stale(e)
      <4>1. e2 = [e EXCEPT !.count = @ + 1] /\ e.count < Limit(s)
          BY <1>4, <1>6, <3>2
      <4>2. e2.age = e.age /\ e2.count = e.count + 1
          BY <4>1 DEF Entries
      <4> QED BY <1>3, <3>0, <3>2, <4>1, <4>2, FitsMore
    <3> QED BY <3>1, <3>2
  <2>5. Budgeted(s, k)'
      BY <1>1, <2>3, <2>4, SameLimits DEF Budgeted
  <2> QED BY <1>4, <2>3, <2>5, BudgetKept
<1> QED BY <1>5, <1>6

(* Nobody has spent anything in an empty process. *)
LEMMA EmptyBudgets ==
  ASSUME NEW limit \in Nat, NEW f, f = [a \in 0 .. (Window - 1) |-> 0]
  PROVE  Fits(None, f, limit)
<1>1. f \in [0 .. Window - 1 -> Nat] /\ f[0] = 0 /\ \E p : IsSum(p, f) /\ p[Window] = 0
    BY NothingSpent
<1>2. Stale(None)
    BY DEF Stale
<1> QED BY <1>1, <1>2 DEF Fits

(* Where only scopes with a limit counted, a step of one thread that counts
   in such a scope, or not at all, leaves it so. *)
LEMMA MeteredStep ==
  ASSUME FrontTypeOK, UNCHANGED deploy, NEW t \in Threads, NEW v, req' = [req EXCEPT ![t] = v],
         v.counting => v.stage \in Scopes /\ Limit(v.stage) > 0,
         \A u \in Threads : Metered(u)
  PROVE  \A u \in Threads : Metered(u)'
<1>1. req'[t] = v /\ \A u \in Threads : u # t => req'[u] = req[u]
    BY ReqUpdate
<1> QED BY <1>1, SameLimits DEF Metered

(* Every step keeps the budgets. *)
LEMMA BurstStep ==
  ASSUME FrontInv, FrontInv', BurstInv, [Next]_vars
  PROVE  BurstInv'
<1>0. FrontTypeOK /\ FrontTypeOK'
    BY DEF FrontInv
<1>1. ASSUME UNCHANGED <<spent, deploy>>, \A t \in Threads : Metered(t)',
             UNCHANGED windows \/ \E z \in Scopes : PurgeExpired(z)
      PROVE  BurstInv'
    BY <1>0, <1>1, BudgetSwept DEF BurstInv
<1>2. UNCHANGED <<req, deploy>> => \A t \in Threads : Metered(t)'
    BY <1>0, SameLimits DEF BurstInv, Metered
<1>3. ASSUME NEW t \in Threads, Guard(t) PROVE BurstInv'
  <2>1. PICK s \in Scopes : s = req[t].stage
      BY <1>3 DEF Guard
  <2>2. IsRequest(req[t])
      BY <2>1, FrontAssumption DEF FrontInv, Admitted, Idle
  <2>3. \E v : /\ req' = [req EXCEPT ![t] = v]
               /\ v.counting => v.stage \in Scopes /\ Limit(v.stage) > 0
    <3> DEFINE r == req[t].r
               pass == At(t, NextStage(s), r)
               mark == [req[t] EXCEPT !.counting = TRUE]
    <3>1. ~pass.counting
        BY DEF At
    <3>2. mark.stage = s
        BY <2>1, <2>2, MarkedRequest
    <3>3. Limit(s) # 0 => Limit(s) > 0
        BY <1>0, SameLimits
    <3>4. req' = [req EXCEPT ![t] = pass] \/ (Limit(s) # 0 /\ req' = [req EXCEPT ![t] = mark])
        BY <1>3, <2>1 DEF Guard
    <3> HIDE DEF pass, mark
    <3> QED BY <3>1, <3>2, <3>3, <3>4
  <2>4. UNCHANGED <<spent, deploy>> /\ (UNCHANGED windows \/ PurgeExpired(s))
      BY <1>3, <2>1 DEF Guard, CapGuard
  <2>5. \A u \in Threads : Metered(u)'
      BY <1>0, <2>3, <2>4, MeteredStep DEF BurstInv
  <2> QED BY <1>1, <2>4, <2>5
<1>4. ASSUME NEW t \in Threads, CountStep(t) PROVE BurstInv'
  <2>1. PICK s \in Scopes : s = req[t].stage
      BY <1>4 DEF CountStep
  <2>2. req[t] # Idle /\ req[t].counting /\ req[t].r \in Requests
      BY <1>4, <2>1, FrontAssumption DEF CountStep, FrontInv, Admitted, Idle
  <2>3. Limit(s) > 0
      BY <2>1, <2>2 DEF BurstInv, Metered
  <2>4. PICK k \in Keys : k = Key(s, req[t].r)
      BY <1>0, <2>2, FrontAssumption DEF Key, Config, FrontTypeOK
  <2>5. Count(s, k, Limit(s)) /\ UNCHANGED deploy
      BY <1>4, <2>1, <2>4 DEF CountStep
  <2>6. /\ spent' = [z \in Scopes |-> [x \in Keys |-> spent'[z][x]]]
        /\ \A z \in Scopes, x \in Keys : Budgeted(z, x)'
      BY <1>0, <2>3, <2>5, BudgetCounted DEF BurstInv
  <2>7. \E v : req' = [req EXCEPT ![t] = v] /\ ~v.counting
    <3> DEFINE r == req[t].r
               pass == At(t, NextStage(s), r)
               stop == Done(r, Rejected("429"))
    <3>1. ~pass.counting /\ ~stop.counting
        BY DEF At, Done
    <3>2. req' = [req EXCEPT ![t] = pass] \/ req' = [req EXCEPT ![t] = stop]
        BY <1>4, <2>1 DEF CountStep
    <3> HIDE DEF pass, stop
    <3> QED BY <3>1, <3>2
  <2>8. \A u \in Threads : Metered(u)'
      BY <1>0, <2>5, <2>7, MeteredStep DEF BurstInv
  <2> QED BY <2>6, <2>8 DEF BurstInv
<1>5. ASSUME NEW t \in Threads, Extract(t) PROVE BurstInv'
  <2>1. \E v : req' = [req EXCEPT ![t] = v] /\ ~v.counting
    <3>1. PICK r, i : req' = [req EXCEPT ![t] = Done(r, i)]
        BY <1>5 DEF Extract
    <3>2. ~Done(r, i).counting
        BY DEF Done
    <3> QED BY <3>1, <3>2
  <2>2. UNCHANGED <<spent, deploy, windows>>
      BY <1>5 DEF Extract, limiterVars
  <2> QED BY <1>0, <1>1, <2>1, <2>2, MeteredStep DEF BurstInv
<1>6. ASSUME NEW t \in Threads, NEW r \in Requests, Arrive(t, r) PROVE BurstInv'
  <2>1. \E v : req' = [req EXCEPT ![t] = v] /\ ~v.counting
    <3>1. PICK s : req' = [req EXCEPT ![t] = At(t, s, r)]
        BY <1>6 DEF Arrive
    <3>2. ~At(t, s, r).counting
        BY DEF At
    <3> QED BY <3>1, <3>2
  <2>2. UNCHANGED <<spent, deploy, windows>>
      BY <1>6 DEF Arrive, limiterVars
  <2> QED BY <1>0, <1>1, <2>1, <2>2, MeteredStep DEF BurstInv
<1>7. ASSUME NEW t \in Threads, Leave(t) PROVE BurstInv'
  <2>1. req' = [req EXCEPT ![t] = Idle] /\ UNCHANGED <<spent, deploy, windows>>
      BY <1>7 DEF Leave, limiterVars
  <2>2. req'[t] = Idle /\ \A u \in Threads : u # t => req'[u] = req[u]
      BY <1>0, <2>1, ReqUpdate
  <2>3. \A u \in Threads : Metered(u)'
      BY <1>0, <2>1, <2>2, SameLimits DEF BurstInv, Metered
  <2> QED BY <1>1, <2>1, <2>3
<1>8. CASE Restart
  <2>1. /\ req' = [t \in Threads |-> Idle] /\ UNCHANGED deploy
        /\ windows' = [s \in Scopes |-> [k \in Keys |-> None]]
        /\ spent' = [s \in Scopes |-> [k \in Keys |-> [a \in 0..(Window - 1) |-> 0]]]
      BY <1>8 DEF Restart
  <2>2. \A s \in Scopes, k \in Keys : windows'[s][k] = None /\ spent'[s][k] = [a \in 0..(Window - 1) |-> 0]
      BY <2>1
  <2>3. \A s \in Scopes, k \in Keys : Budgeted(s, k)'
      BY <1>0, <2>1, <2>2, SameLimits, EmptyBudgets DEF Budgeted
  <2>4. \A t \in Threads : Metered(t)'
      BY <2>1 DEF Metered
  <2>5. spent' = [s \in Scopes |-> [k \in Keys |-> spent'[s][k]]]
      BY <2>1
  <2> QED BY <2>3, <2>4, <2>5 DEF BurstInv
<1>9. CASE Tick
  <2>1. Age /\ UNCHANGED <<req, deploy>>
      BY <1>9 DEF Tick, frontVars
  <2>2. spent' = [s \in Scopes |-> [k \in Keys |-> spent'[s][k]]]
      BY <2>1 DEF Age
  <2> QED BY <1>0, <1>2, <2>1, <2>2, BudgetLater DEF BurstInv
<1>10. ASSUME NEW s \in Scopes, Gc(s) PROVE BurstInv'
    BY <1>1, <1>2, <1>10 DEF Gc, frontVars
<1>11. CASE \/ Boot \/ Serve \/ RefreshTick \/ RefreshStep \/ UNCHANGED vars
            \/ \E u \in AllUrls : Outage(u) \/ \E serial \in Serials : Revoke(u, serial)
  <2>1. UNCHANGED <<windows, spent, req, deploy>>
      BY <1>11 DEF Boot, Serve, RefreshTick, RefreshStep, Outage, Revoke, vars, limiterVars, frontVars
  <2> QED BY <1>1, <1>2, <2>1
<1> QED BY <1>3, <1>4, <1>5, <1>6, <1>7, <1>8, <1>9, <1>10, <1>11 DEF Next

(* No key gets more than two windows' worth of counted requests into the span
   of one window, for every limit, window, number of keys and of threads,
   although the sweeps of the GC task and of a full map run between the two
   halves of the checks. *)
THEOREM BurstsBounded == Spec => []BurstBound
<1>1. FrontInit => BurstInv
  <2> SUFFICES ASSUME FrontInit PROVE BurstInv
      OBVIOUS
  <2>1. /\ req = [t \in Threads |-> Idle] /\ deploy \in Deployments
        /\ windows = [s \in Scopes |-> [k \in Keys |-> None]]
        /\ spent = [s \in Scopes |-> [k \in Keys |-> [a \in 0..(Window - 1) |-> 0]]]
      BY DEF FrontInit, LimiterInit
  <2>2. \A s \in Scopes, k \in Keys : windows[s][k] = None /\ spent[s][k] = [a \in 0..(Window - 1) |-> 0]
      BY <2>1
  <2>3. \A s \in Scopes : Limit(s) \in Nat
      BY <2>1, FrontAssumption DEF Limit
  <2>4. \A s \in Scopes, k \in Keys : Budgeted(s, k)
      BY <2>2, <2>3, EmptyBudgets DEF Budgeted
  <2>5. \A t \in Threads : Metered(t)
      BY <2>1 DEF Metered
  <2>6. spent = [s \in Scopes |-> [k \in Keys |-> spent[s][k]]]
      BY <2>1
  <2> QED BY <2>4, <2>5, <2>6 DEF BurstInv
<1>2. FrontInv /\ FrontInv' /\ BurstInv /\ [Next]_vars => BurstInv'
    BY BurstStep
<1>3. FrontInv /\ BurstInv => BurstBound
  <2> SUFFICES ASSUME FrontInv, BurstInv, NEW s \in Scopes, NEW k \in Keys
               PROVE  Spent(s, k) <= 2 * Limit(s)
      BY DEF BurstBound
  <2>1. Limit(s) \in Nat /\ Fits(windows[s][k], spent[s][k], Limit(s))
      BY SameLimits DEF FrontInv, BurstInv, Budgeted
  <2>2. PICK p : /\ IsSum(p, spent[s][k])
                 /\ \/ p[Window] <= Limit(s)
                    \/ \E c \in 1 .. Limit(s) : p[Window] <= c + Limit(s)
      BY <2>1 DEF Fits
  <2>3. Spent(s, k) = p[Window]
      BY <2>2, SpentIsSum
  <2>4. p[Window] \in Nat
      BY <2>2, LimiterAssumption DEF IsSum
  <2>5. p[Window] <= 2 * Limit(s)
      BY <2>1, <2>2, <2>4
  <2> QED BY <2>3, <2>5
<1> QED BY <1>1, <1>2, <1>3, FrontInductive, PTL DEF Spec
=============================================================================
