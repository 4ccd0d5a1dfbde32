---------------------------- MODULE ServerConfig ----------------------------
(* What Config::from_env makes of the environment (config.rs).  A variable   *)
(* is Unset, a well formed value, or Malformed; Refused stands for every     *)
(* ConfigError, after which the process exits.                               *)
EXTENDS Naturals

CONSTANTS Unset, Malformed, Refused

Flags == {Unset, Malformed, TRUE, FALSE}  \* what parse_bool tells apart
Paths == {Unset, "path"}

\* The variables of TlsConfig::from_env, the Entra triple, CRL_FAIL_OPEN, the
\* blob backend (Azure without account and container is incomplete) with its
\* credentials, and the numbers: listen address, TTL, intervals, limits.
Environments == [tlsEnabled : Flags, header : BOOLEAN, cidr : {Unset, Malformed, "cidr"},
                 serverFiles : Paths, caBundle : Paths, requireIngest : Flags,
                 auth : {"enabled", "disabled"}, entra : {"all", "none", "some"},
                 failOpen : Flags,
                 blob : {"local", "azure", "incomplete"}, azureKey : BOOLEAN, azureIdentity : Flags,
                 numbers : {Unset, Malformed, "set"}]

ParseBool(flag, default) == IF flag = Unset THEN default ELSE flag

\* Mutant: the proxy header does not need a CA bundle.
TlsFromEnvNoBundle(env) ==
  LET enabled == ~env.header /\ ParseBool(env.tlsEnabled, FALSE) = TRUE
      require == ParseBool(env.requireIngest, enabled)
  IN  IF \/ Malformed \in {env.tlsEnabled, env.cidr, require}
         \/ env.header /\ env.cidr = Unset
         \/ enabled /\ Unset \in {env.serverFiles, env.caBundle}
      THEN Refused
      ELSE [mode |-> IF env.header THEN "header" ELSE IF enabled THEN "tls" ELSE "plain",
            require |-> require, bundle |-> env.caBundle # Unset, gated |-> env.cidr # Unset]

\* TlsConfig::from_env: the proxy header turns in-process TLS off and needs a
\* trusted range and a CA bundle; TLS needs its three files; requiring client
\* certificates is the default exactly under in-process TLS.
TlsFromEnv(env) ==
  LET enabled == ~env.header /\ ParseBool(env.tlsEnabled, FALSE) = TRUE
      require == ParseBool(env.requireIngest, enabled)
  IN  IF \/ Malformed \in {env.tlsEnabled, env.cidr, require}
         \/ env.header /\ env.cidr = Unset
         \/ enabled /\ Unset \in {env.serverFiles, env.caBundle}
         \/ env.header /\ env.caBundle = Unset
      THEN Refused
      ELSE [mode |-> IF env.header THEN "header" ELSE IF enabled THEN "tls" ELSE "plain",
            require |-> require, bundle |-> env.caBundle # Unset, gated |-> env.cidr # Unset]

\* The operator-auth part: all three Entra variables or none, and all of them
\* when auth is on.
EntraOK(env) == env.entra = "all" \/ (env.entra = "none" /\ env.auth = "disabled")

\* The blob backend: Azure wants exactly one way to authenticate.
AzureOK(env) ==
  /\ env.azureIdentity # Malformed
  /\ env.blob # "incomplete"
  /\ env.blob = "azure" => (env.azureKey # (ParseBool(env.azureIdentity, FALSE) = TRUE))

\* Config::from_env
FromEnv(env) ==
  LET tls == TlsFromEnv(env)
      failOpen == ParseBool(env.failOpen, FALSE)
  IN  IF tls = Refused \/ Malformed \in {failOpen, env.numbers} \/ ~EntraOK(env) \/ ~AzureOK(env) THEN Refused
      ELSE [tls |-> tls, failOpen |-> failOpen]
=============================================================================
