--------------------------- MODULE MC_AdminPlane ----------------------------
(* A small instance of AdminPlane: two keys of which one is published later, *)
(* an administrator's token on each key, an operator's on the first, and one *)
(* that names the first key and does not verify.                             *)
EXTENDS AdminPlane, TLC

CONSTANTS r1, r2

MCReqs == {r1, r2}
Symmetric == Permutations(MCReqs)

AdminOn(k) == [kid |-> k, valid |-> TRUE, scp |-> {}, roles |-> {"admin"}]
Operator == [kid |-> "k1", valid |-> TRUE, scp |-> {"query"}, roles |-> {}]
Forged == [AdminOn("k1") EXCEPT !.valid = FALSE]
MCTokens == {AdminOn("k1"), AdminOn("k2"), Operator, Forged}

MCCalls ==
  {[kind |-> "put_device", token |-> Forged],
   [kind |-> "put_default", token |-> AdminOn("k2")],
   [kind |-> "delete_device", token |-> Operator],
   [kind |-> "disable", token |-> NoToken],
   [kind |-> "list_audit", token |-> AdminOn("k1")],
   [kind |-> "query", token |-> Operator]}

\* The deployments checked: at most one of the three switches is turned.
MCInit ==
  /\ AdminInit
  /\ <<backend, authMode, devReads>> \in {<<"sqlite", "enabled", FALSE>>, <<"postgres", "enabled", FALSE>>,
                                          <<"sqlite", "disabled", FALSE>>, <<"sqlite", "enabled", TRUE>>}

MCSpec == MCInit /\ [][Next]_vars

\* One administrator's call, extracted by the middleware and by the gate, on
\* the default deployment.
MCOneCall == {[kind |-> "disable", token |-> AdminOn("k1")]}
MCOneSpec ==
  /\ MCInit /\ backend = "sqlite" /\ authMode = "enabled" /\ ~devReads
  /\ [][Next]_vars

MCBodies == {[f \in Fields |-> 1], [f \in Fields |-> 0]}
=============================================================================
