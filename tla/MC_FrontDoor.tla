---------------------------- MODULE MC_FrontDoor ----------------------------
(* Small instances of FrontDoor: a deployment has either a CRL cache or a    *)
(* limiter, so that their state does not multiply.                           *)
EXTENDS FrontDoor

Cert(serial, device, trusted) ==
  [serial |-> serial, trusted |-> trusted,
   uris |-> <<[scheme |-> "other", parts |-> <<"t", "x">>],
              [scheme |-> "device", parts |-> IF device = Nobody THEN <<"t", "">>
                                              ELSE <<"t", device, "">>]>>]
GoodCert == Cert("s1", "d1", TRUE)
BlankCert == Cert("s2", Nobody, TRUE)  \* its SAN names no device
ForeignCert == Cert("s1", "d2", FALSE)

Request(kind, proxied, forwarded, header, cert, device) ==
  [kind |-> kind, peer |-> IF proxied THEN "proxy" ELSE "client", viaProxy |-> proxied,
   forwarded |-> forwarded, certHeader |-> header, tlsCert |-> cert, deviceHeader |-> device]
Pem(cert) == [form |-> "pem", cert |-> cert]

MCRequests ==
  {Request("ingest", FALSE, Nobody, Nobody, GoodCert, Nobody),
   Request("ingest", FALSE, Nobody, Nobody, BlankCert, "d2"),
   Request("ingest", FALSE, Nobody, Nobody, Nobody, "d1"),
   Request("ingest", FALSE, Nobody, Nobody, Nobody, "invalid"),
   Request("ingest", TRUE, "f1", Pem(GoodCert), Nobody, Nobody),
   Request("ingest", TRUE, "f1", Pem(ForeignCert), Nobody, "d2"),
   Request("ingest", FALSE, Nobody, Pem(GoodCert), Nobody, "d2"),
   Request("query", TRUE, "f1", Nobody, Nobody, Nobody),
   Request("query", FALSE, "f1", Nobody, Nobody, Nobody)}

Env(tls, header, files, bundle, require, failOpen) ==
  [tlsEnabled |-> tls, header |-> header, cidr |-> IF header THEN "cidr" ELSE Unset,
   serverFiles |-> files, caBundle |-> bundle, requireIngest |-> require,
   auth |-> "enabled", entra |-> "all", failOpen |-> failOpen,
   blob |-> "local", azureKey |-> FALSE, azureIdentity |-> Unset, numbers |-> Unset]

MCEnvs == {e \in {Env(tls, h, f, b, r, o) : tls \in Flags, h \in BOOLEAN, f \in Paths, b \in Paths,
                                            r \in Flags, o \in {Unset, TRUE}} :
             FromEnv(e) # Refused}

\* One environment for each configuration from_env can produce.
MCChosen == {CHOOSE e \in MCEnvs : FromEnv(e) = c : c \in {FromEnv(e) : e \in MCEnvs}}

NoLimits == [s \in Scopes |-> 0]
MCDeployments ==
  {[env |-> e, limits |-> NoLimits, urls |-> u, trustsProxy |-> FALSE] :
     e \in {e \in MCChosen : FromEnv(e).tls.mode = "tls"},
     u \in {<<"typo">>, <<"root", "typo", "issuing">>}}
  \cup
  {[env |-> e, limits |-> [NoLimits EXCEPT ![l.scope] = 1], urls |-> <<>>, trustsProxy |-> l.proxy] :
     e \in {e \in MCChosen : LET c == FromEnv(e) IN
                             ~c.failOpen /\ (c.tls.mode = "header" \/ (c.tls.require <=> c.tls.mode = "tls"))},
     l \in {l \in [scope : Scopes, proxy : BOOLEAN] : l.scope = "device" => ~l.proxy}}

\* Revocation lists behind a proxy that forwards the certificates
MCForwarded ==
  {[env |-> e, limits |-> NoLimits, urls |-> <<"root", "issuing">>, trustsProxy |-> FALSE] :
     e \in {e \in MCChosen : FromEnv(e).tls.mode = "header"}}
=============================================================================
