------------------------------ MODULE CrlCache ------------------------------
(* The cache of certificate revocation lists (auth/crl.rs): one entry per    *)
(* configured URL, replaced by a successful fetch and kept by a failed one.  *)
(* A URL that does not parse is dropped when the cache is built; here it is  *)
(* one whose fetch never succeeds, which leaves the same entries.            *)
EXTENDS Naturals, Sequences, FiniteSets

CONSTANTS
  AllUrls,  \* what CMTRACE_CRL_URLS may list: the URLs of the CAs' lists,
  MalformedUrls,  \* and strings that are no URL
  Serials,  \* serial numbers of client certificates
  Unfetched \* a URL without an entry

ASSUME UnfetchedAssumption == \A list \in SUBSET Serials : list # Unfetched

VARIABLES
  urls,       \* Config.crl_urls, in order; none: no cache at all
  published,  \* what each CA has published: revocations are never taken back
  up,         \* the URLs whose fetches succeed
  entries,    \* CrlCache.entries
  refresh,    \* the URLs refresh_all has still to fetch
  seen        \* history: serials this process has fetched as revoked

crlVars == <<urls, published, up, entries, refresh, seen>>

NoEntries == [u \in AllUrls |-> Unfetched]

CrlInit == /\ urls = <<>>
           /\ published = [u \in AllUrls |-> {}]
           /\ up = AllUrls \ MalformedUrls
           /\ entries = NoEntries /\ refresh = <<>> /\ seen = {}

\* start_refresh_task and every later tick begin a pass over the URLs.
StartRefresh == refresh = <<>> /\ refresh' = urls

\* Mutant: a failed fetch drops the entry.
RefreshUrlDrops ==
  /\ refresh # <<>>
  /\ refresh' = Tail(refresh)
  /\ LET u == Head(refresh) IN
     IF u \in up THEN /\ entries' = [entries EXCEPT ![u] = published[u]]
                      /\ seen' = seen \cup published[u]
     ELSE entries' = [entries EXCEPT ![u] = Unfetched] /\ UNCHANGED seen

\* Mutant: the first failure ends the pass.
RefreshUrlStops ==
  /\ refresh # <<>>
  /\ LET u == Head(refresh) IN
     IF u \in up THEN /\ entries' = [entries EXCEPT ![u] = published[u]]
                      /\ seen' = seen \cup published[u]
                      /\ refresh' = Tail(refresh)
     ELSE refresh' = <<>> /\ UNCHANGED <<entries, seen>>

\* One turn of refresh_all: fetch_and_parse (which gives up on an error status,
\* an oversized body or bytes that are no CRL) replaces the entry, or the
\* previous one stays.
RefreshUrl ==
  /\ refresh # <<>>
  /\ refresh' = Tail(refresh)
  /\ LET u == Head(refresh) IN
     IF u \in up THEN /\ entries' = [entries EXCEPT ![u] = published[u]]
                      /\ seen' = seen \cup published[u]
     ELSE UNCHANGED <<entries, seen>>

\* revocation_status
RevocationStatus(serial) ==
  LET cached == {u \in AllUrls : entries[u] # Unfetched} IN
  IF cached = {} THEN "Unknown"
  ELSE IF \E u \in cached : serial \in entries[u] THEN "Revoked" ELSE "NotRevoked"

\* The cache is memory: a restart begins with none of it.
ForgetCrls == entries' = NoEntries /\ refresh' = <<>> /\ seen' = {}
=============================================================================
