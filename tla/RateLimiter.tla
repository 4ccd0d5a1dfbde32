---------------------------- MODULE RateLimiter -----------------------------
(* The fixed-window limiters of state.rs, one per scope.  A key has a window *)
(* entry or none; entries carry their age instead of their start, so that    *)
(* time needs no bound.  Looking up the key and the size of the map, and     *)
(* taking the entry, are two steps: other requests come in between.          *)
EXTENDS Naturals, FiniteSets

CONSTANTS
  Scopes,   \* device_ingest, ip_ingest, ip_query
  Keys,     \* what requests are counted by
  Window,   \* length of a window in ticks
  MaxKeys   \* RATE_LIMIT_MAX_KEYS

ASSUME LimiterAssumption == Window \in Nat \ {0} /\ MaxKeys \in Nat \ {0}

VARIABLES
  windows,  \* RateLimiter.windows of each scope
  spent     \* history: counted admissions of the last Window ticks, by age

limiterVars == <<windows, spent>>

None == [age |-> 0, count |-> 0]  \* no entry: a real one has counted something

LimiterInit == /\ windows = [s \in Scopes |-> [k \in Keys |-> None]]
               /\ spent = [s \in Scopes |-> [k \in Keys |-> [a \in 0..(Window - 1) |-> 0]]]

LiveKeys(w) == {k \in Keys : w[k] # None}
Expired(entry) == entry.age >= Window
Retain(w) == [k \in Keys |-> IF Expired(w[k]) THEN None ELSE w[k]]

\* Mutant: the sweep clears the map.
PurgeExpiredAll(s) == windows' = [windows EXCEPT ![s] = [k \in Keys |-> None]]

\* purge_expired, which the GC task of main.rs calls on every scope
PurgeExpired(s) == windows' = [windows EXCEPT ![s] = Retain(@)]

\* check, first half: a new key in a full map triggers a sweep, and goes
\* uncounted if that freed nothing.
AtCap(s, k) == windows[s][k] = None /\ Cardinality(LiveKeys(windows[s])) >= MaxKeys
\* Mutant: a new key is counted however full the map is.
UncountedNever(s, k) == FALSE

Uncounted(s, k) == AtCap(s, k) /\ Cardinality(LiveKeys(Retain(windows[s]))) >= MaxKeys
CapGuard(s, k) == IF AtCap(s, k) THEN PurgeExpired(s) ELSE UNCHANGED windows

\* check, second half, under the entry's lock
Allowed(s, k, limit) ==
  LET e == windows[s][k] IN e = None \/ Expired(e) \/ e.count < limit

Count(s, k, limit) ==
  LET e == windows[s][k] IN
  /\ windows' = [windows EXCEPT ![s][k] =
                   IF e = None \/ Expired(e) THEN [age |-> 0, count |-> 1]
                   ELSE IF e.count < limit THEN [e EXCEPT !.count = @ + 1] ELSE e]
  /\ spent' = IF Allowed(s, k, limit) THEN [spent EXCEPT ![s][k][0] = @ + 1] ELSE spent

\* The clock moves on for every entry.
Age ==
  /\ windows' = [s \in Scopes |-> [k \in Keys |->
       IF windows[s][k] = None \/ Expired(windows[s][k]) THEN windows[s][k]
       ELSE [windows[s][k] EXCEPT !.age = @ + 1]]]
  /\ spent' = [s \in Scopes |-> [k \in Keys |-> [a \in 0..(Window - 1) |->
       IF a = 0 THEN 0 ELSE spent[s][k][a - 1]]]]

\* Requests let through and counted in the last Window ticks.
Spent(s, k) == LET sum[a \in 0..Window] == IF a = 0 THEN 0 ELSE sum[a - 1] + spent[s][k][a - 1]
               IN  sum[Window]
=============================================================================
