# TLA+ development of cmtraceopen-web

cmtraceopen-web collects diagnostic bundles on Windows endpoints, ships them to a
server, parses them and shows them in a viewer. These modules model the agent (its
collection, queue, uploader, config sync and task loop) and the server: the front
door every request passes, resumable ingest, the parse worker and the retention
sweeper, the administrative routes and the query API. TLC checks them on small
instances; TLAPS proves their safety properties for every instance.

    tlc -workers 2 -config MC_Ingest.cfg MC_Ingest      # any run of PROJECT.json
    tlapm IngestProofs.tla                              # the proofs of any *Proofs module

`PROJECT.json` lists components, runs, the source lines behind every definition,
the seeded fault that each property catches, the findings and the hazards.

## The system

| part | state | operations | talks to |
|---|---|---|---|
| ingest routes (`routes/ingest.rs`) | none of their own; handler locals across awaits | `init`, `put_chunk`, `finalize` | metadata store, blob store, parse semaphore |
| metadata store (`storage/meta_sqlite.rs`) | tables devices, uploads, sessions, files, entries, audit, config | one statement or transaction per call | everything on the server |
| blob store (`storage/blob_object_store.rs`) | staging files, blobs | create, put_chunk, hash, finalize, discard, head, read, delete | ingest, worker, sweeper |
| parse worker (`pipeline/parse_worker.rs`) | a permit, a producer task, a bounded channel | extract, parse, insert, set `parse_state` | blob store, metadata store |
| retention sweeper (`pipeline/retention.rs`) | its batch | scan, delete blob, delete session | blob store, metadata store |
| agent queue (`agent/src/queue.rs`) | one zip and one sidecar per bundle | enqueue, next_pending, mark_*, recover | disk |
| agent uploader (`agent/src/uploader.rs`) | offset and attempts of the current upload | init, chunks, finalize, retries | ingest routes |
| agent task loop (`agent/src/runtime.rs`) | tick intervals | collect, drain, config, stop | queue, uploader, config sync |
| config sync (`agent/src/config_sync.rs`) | override, failure clock, persisted clock | sync, record, rollback | config route |
| admin, config and audit routes | config and audit tables | put/delete/get, list | metadata store |
| JWKS cache, CRL cache | keys, revoked serials, times | get/refresh, refresh_all/status | identity providers |
| device identity, rate limit, proxy | limiter buckets | per request | ingest and query routes |
| query routes | cursors held by clients | keyset pages | metadata store |
| viewer (`src/src`), WASM parser | browser state | user interface | query routes |

What is hard, and the properties that make each part correct:

* **Ingest.** A handler is an async function over a database and a file: any other
  request can run between two awaits, and the handler can end at each of them, by a
  storage error, a dropped connection or a crash. Correct means that concurrent PUTs
  never share bytes, that a session always points at the bytes it was declared with
  although the staging path is read three times, that what a client was told stays
  true, and that permits are not lost.
* **Agent and server.** Requests and answers are lost, a handler runs on after its
  client gave up, both sides restart. Correct means that the agent lets go of its copy
  only when the server holds exactly those bytes, and that delivery happens once the
  faults are over.
* **Worker and sweeper.** The two run beside each other on the same rows. Correct
  means no orphaned rows, no lost blob, "ok" only when complete, no deadlock between
  consumer and producer, and a sweep that ends.
* **Agent process.** One loop runs collection, drain and config sync one at a time; a
  stop has to wait for a body. Correct means that the service manager is told the
  truth, and that a stop is honoured and the configuration converges to the server's -
  which the code achieves only while none of the awaits that have no timeout hangs.
* **Collection pass.** Four collectors write side by side, copies and exports fail half
  way, names coincide, and the redactor rewrites in place. Correct means that the
  manifest lists what is there and that no text leaves unredacted unnoticed.
* **Front door.** Configuration, limiter layers, identity and revocation are decided by
  different code on the same request, beside a refresh task and a sweep. Correct means
  that an accepted identity is the certificate's, that a revocation once fetched holds,
  and that the limiter's bounds survive its races.
* **Administration.** A request is authenticated twice, against a key set that other
  requests refresh, and logged after it acted. Correct means that a withdrawn key stops
  working, that only admins write, and that the log tells the truth.
* **Queries.** A client holds a cursor into tables that change. Correct means that a
  walk neither skips nor repeats, that text comes back as it was stored, and that a
  search finds what contains the text.

## Modules

| module | what it is |
|---|---|
| `Ingest` | the three handlers, one action per await; tables, staging files, blobs, semaphore |
| `IngestProofs` | the theorems about `Ingest` |
| `UploadSystemProofs` | extends it: the theorems about agent and server, and the refinement of `Delivery` |
| `Agent` | queue, uploader and drain, as operators over the agent's variables; the other end of the connection is open |
| `UploadSystem` | extends `Ingest`, instantiates `Agent`; connection, faults, fairness, end-to-end properties |
| `Delivery` | the abstract specification: bytes held, stored, settled |
| `Lifecycle` | parse worker and retention sweeper over sessions, files, entries and blobs |
| `ConfigStore`, `ConfigSync` | the override rows with validation and merge; the agent's fetch, sync and rollback clock |
| `Evidence` | one collection pass: the four collectors file by file, manifest, redaction, zip |
| `AgentHost` | extends `ConfigSync`: service start and stop, task loop, drain, awaits that hang |
| `OperatorAuth`, `AdminPlane` | bearer tokens, roles and the JWKS cache; the admin routes over `ConfigStore` with the audit middleware around them |
| `ServerConfig` | what `Config::from_env` makes of the environment |
| `RateLimiter`, `CrlCache`, `DeviceIdentity` | fixed-window limiters; revocation lists; who a request is from |
| `FrontDoor` | composes the four: start-up, request layers, background tasks |
| `SearchText`, `QueryApi` | LIKE patterns and COPY text; the five listings over both stores |
| `SearchTextProofs`, `QueryApiProofs` | what matching and decoding compute for every text; the theorems about the listings |
| `LifecycleProofs`, `AdminPlaneProofs`, `AgentHostProofs`, `FrontDoorProofs` | the theorems about the module they are named for |
| `MC_*` | values for TLC |

**State and code.** In `Ingest`, `uploads[u]`, `sessions[s]` and `devices` are table
rows, `staging[u]` and `blobs[s]` files. A handler's place `pc[r]` is the await it is
at, `req`, `up`, `snap`, `sid` and `handle` are its locals (`snap` is the uploads row
it read, which may be stale). A file is a function from slots to the content that
wrote them, `Hole` where nobody did; SHA-256 is taken to be free of collisions, so a
hash is the file itself. `StorageFailure` lets any awaited call fail, `PutWriteFails`
leaves a prefix, `Disconnect` drops a handler, `Crash` restarts the process. Upload
and session ids are UUIDs: `FreshUpload` and `FreshSession` pick one that nothing
refers to any more.

In `Agent`, the task loop is one task, so its place `at` is a single variable; only
`zip` and `sidecar` survive `Restart`. In `UploadSystem`, `conn` is the handler whose
answer the agent waits for. A handler the agent gave up on keeps running.

In `Lifecycle`, `w[s]` is a worker: the consumer's place, the producer's, the channel
between them. `Commit` stands for all of finalize after the copy (module `Ingest` has
its steps). `OlderThan` models the comparison of an RFC 3339 text with SQLite's
`datetime` text: on the cutoff's date 'T' sorts after the blank, so a session is old
from the next date on.

In `AgentHost`, `proc` is what the single task is doing, `svc` what the service manager
was last told. The uploads behind a drain are module `Agent`'s; here they succeed or
fail as a whole, by the server's reach and by whether the running override breaks them.
`reply` carries the two queries of `get_device_config`, between which a write may fall.
`failed` and `trial` are history: how many config ticks in a row saw only failing
uploads. A fetch (`reply.pc = "silent"`) or a collection (`proc = "hung"`) may come to
an await that does not end: the config client has no timeout (`build_reqwest_client`),
nor have the child processes; `AwaitEnds` may end it, but need not.

`Evidence` is the pass behind `AgentHost`'s "collect"; the two share no state but the
bundle that comes out, so they are checked apart. `staged` is the staging directory: at
each path (directory, name, the hash `safe_copy_name` may prepend, the redactor's
suffix) a file with its source, whether it is whole, has bytes that are not UTF-8, is
above the streaming threshold, and is still as collected. The collectors' steps
interleave as under `tokio::join!`: `CollectLog` is one glob entry, `CommandExits` one
child process, `CollectOwnLog` one of the agent's own logs. Each either completes and
lists its file, or fails and may leave part of one. `WalkStep` is the redactor at one
file, by `redact_file_whole` or `redact_file_streaming`; a pass that fails leaves its
directory.

In `AdminPlane`, a request's `pc` is the await it is at: the middleware's own
extraction, the handler's, the write, the audit insert. Times are ticks of a clock that
drives the cache's lifetime and the fetch timeout. The keys and the time of the last
refresh are under two locks: a hit is looked up in one step (`Extract`) and its age
checked in a later one (`CheckAge`), a refresh stores the keys (`StoreKeys`) before it
stamps them (`StampRefresh`), and others run in between. With Postgres the config and
audit stores are the no-op ones. In `FrontDoor`, a request carries what the extractor
and the limiters look at; a CRL URL that does not parse is one that is never fetched; a
certificate is a serial, its SAN URIs and whether it chains to the bundle. Windows hold
ages, so the limiter's clock needs no bound. `check` is two steps: the cap (look-up,
size, sweep) and the entry.

In `QueryApi`, tables are sets of rows and a walk is a client's run through a listing:
its cursor, the rows it got, the rows there at its first request. `Select` is the
statement's order and limit, `Page` the route's "one more than asked for". A text is a
sequence of characters; `Like` is the engines' matching with their different backslash.

Operators marked *Mutant* are seeded faults: plausible mistakes in a definition, used
to show that a property notices them. No specification uses them.

## Runs

| run | checks | shows |
|---|---|---|
| `ingest` | TypeOK, ReservationsDisjoint, SessionIntact, FinalizedStored, AckedDurable, PermitsConserved, BytesWriteOnce | two requests in flight, one device, two payloads under one bundle id, every failure |
| `ingest_devices` | IndInv, OnlyOwner | two devices with the same bundle id; the proofs' invariant |
| `upload_system` | SysTypeOK, DoneMeansStored, QueuedHasZip, ImplementsDelivery | agent and server, any three of twelve kinds of faults |
| `upload_live` | EventuallyDone | delivery after lost requests and broken bodies |
| `lifecycle` | TypeOK, NoOrphans, OkIsComplete, NoLeakedBlob, NothingEarly, WorkersEnd, OwnSwept | every form of bundle, two faults, a sweeper beside the worker and a row of an earlier backend |
| `admin_plane` | AdminTypeOK, WithdrawnKeyExpires, AuditTruth, WriteNeedsAdmin | requests, rotations, overlapping refreshes, errors and disconnects, on both backends |
| `agent_host` | StatusTruth, StopHonoured, ConfigConverges | service and single pass, crash, outage, torn reads, awaits that hang |
| `evidence` | ManifestTruth, RawIsAccounted | one pass: logs of one name, a log matched twice, every copy, export and rewrite failing or cut short |
| `front_door` | IdentityTruth, BurstBound, CapHeld, RevokedStaysOut, RevocationArrives | every accepted configuration, two requests in flight, refresh, sweep, restart |
| `query_api` | WalkExact, NoFileBehind, SearchIsSubstring, StoredVerbatim | walks over each listing of both stores while rows come and go |
| `upload_crash` | StoredGetsDone (violated) | a stored bundle that fails for ever on the agent |
| `config_rollback` | OverrideOnTrial (violated) | an override that breaks uploads is never rolled back |

Further configurations document behaviour a comment or document denies; each ends in
a counterexample and is not part of the regular runs:

| configuration | module | property | shows |
|---|---|---|---|
| `MC_IngestLength.cfg` | `MC_Ingest` | ReportedAsShipped | finalize's re-hash is not tied to its copy |
| `MC_UploadStorage.cfg` | `MC_UploadSystem` | EventuallyDone | one failed write blocks a bundle for ever |
| `MC_ChunkConflict.cfg` | `MC_UploadSystem` | ConflictReinits | a 409 on a chunk ends the attempt |
| `MC_JwksTorn.cfg` | `MC_AdminPlane` | StaleIsRefreshed | a withdrawn key from an expired cache passes as fresh |
| `MC_AgentStop.cfg` | `MC_AgentHost` | StopAlwaysHonoured | an await without a timeout keeps the loop from the stop channel |
| `MC_AgentLogs.cfg` | `MC_Evidence` | NewestShipped | an older copy of a log replaces the newer one in the bundle |
| `MC_SearchLiteral.cfg` | `MC_QueryApi` | SearchIsSubstring | on SQLite a text with a metacharacter is not found |
| `MC_LifecycleLegacy.cfg` | `MC_Lifecycle` | SweptEventually | rows of an earlier backend are never swept |
| `MC_LifecyclePending.cfg` | `MC_Lifecycle` | PendingSettles | a restart leaves sessions pending |
| `MC_AuditAttribution.cfg` | `MC_AdminPlane` | SuccessAttributed | a success logged as anonymous |
| `MC_AuditPageCap.cfg` | `MC_QueryApi` | WalkExact | the largest audit page has no successor |
| `MC_FrontDoor.cfg` with the PROPERTY | `MC_FrontDoor` | UnfetchedFailsClosed | one loaded list hides one that never was |
| `MC_CrlForwarded.cfg` | `MC_FrontDoor` | ListedIsRejected | forwarded certificates are not looked up |
| `MC_FrontDoor.cfg` with the INVARIANT | `MC_FrontDoor` | LimiterMirrorsIdentity | the limiter's key is not the identity |

**Bounds.** Two handlers are enough for every pairwise race (the properties relate at
most two handlers); two slots and chunks of one slot give a first and a last chunk and
a cursor between them; chunks of length 0 and MaxChunk + 1 and offsets up to MaxSize
reach every check. Two upload ids and two session ids allow two uploads of one bundle
and two finalizes at once; an id is free again only when nothing refers to it, and
`UploadSystem` has three of each. `Times = {1}` gives created_utc ties, the worst case
for "newest". One parse slot makes permits scarce. `MaxFaults` bounds faults so that
"after the faults" exists; each kind can still strike at every step. In `Lifecycle`,
three files and a channel of one place make the producer wait while one file is being
inserted; days of two readings and five readings pass the cutoff of the oldest
sessions on either side of a date. Symmetry is used only where no liveness property
is checked, over handlers, ids and payloads the model never orders; `MC_View` leaves
out `reply`, which no step of `Ingest` reads.

`AgentHost`: two pushable bodies that set a field each, one of which breaks uploads,
and three operator writes, so that a read torn between two of them yields a merge that
never was and a later one repairs it; two faults (crash, outage or an await that
hangs), a queue of one bundle; the rollback threshold is one config tick instead of
four. `Evidence`: two logs of one name, small and large, one of them matched by two
patterns; one event-log channel and dsregcmd; three own logs, two of which share a name
in the bundle, with a cap that not all fit under; anything may fail anywhere. Three
devices have a part of this each, which keeps every pair of steps that share a path.
`AdminPlane`: two requests overlap their extractions and refreshes; two keys allow one
rotation; times run past the cache's lifetime plus a fetch. `FrontDoor`: one
environment for each configuration `from_env` can produce; a deployment has a CRL cache
or one limiter of limit 1, since neither reads the other's state; two threads make both
halves of `check` race, a cap of one key is reached at once, windows of two ticks let
requests fall on either side of an edge; two URLs and one that does not parse, one
serial, one fault. `QueryApi`: times with ties and NULL, three rows of the table
walked, pages of one and two rows and at the maximum; messages and texts hold the
characters LIKE and COPY treat specially.

Deadlock checking is off where the system may rightly stop: when every bundle is
settled, the clock is at its bound and the ids or faults are used up. It is on in
`ingest`, where requests can always arrive.

**Fairness.** `UploadSystem`: the task loop's ticks keep coming and its own steps run
(AgentLocal), time passes every `retry_at` (RetryDue), a request goes out and its
outcome is noticed (SendTo, Receive, with `request_timeout` behind it), tokio polls
every handler (ServerStep) and workers end (ServerParse). All are weak; no fault and no
disconnect is ever required. `Lifecycle`: tokio polls workers and producers, the
sweeper's sleep ends, the clock advances. `AgentHost`: a body moves on as long as it is
not at an await that hangs, the three intervals elapse again and again and `select!`
polls its branches in random order, hence strong fairness of each branch and of the
stop channel; no start, crash or write is required. That a hanging await ends is not
assumed: nothing in the code bounds the config fetch or the child processes.
StopHonoured and ConfigConverges therefore say `[]<>~Hung =>` in front, and
`MC_AgentStop.cfg` shows that without it a stop may never be honoured. `FrontDoor`:
start-up goes on and the refresh loop ticks and finishes its fetches
(CRL_FETCH_TIMEOUT); nothing is assumed of clients or of the URLs. `AdminPlane` and
`QueryApi` state no liveness.

## Findings

Each is quoted with its lines in `PROJECT.json`.

* `upload_crash`: `init` answers for a stored bundle with the session id in place of
  an upload id; the agent finalizes that id, gets 404 and fails at every retry.
* `MC_UploadStorage`: a chunk write that fails after the reservation leaves an upload
  row every later `init` resumes and no `finalize` accepts. A chunk request that times
  out does the same when its handler is dropped between reservation and write.
* `MC_ChunkConflict`: the uploader's header says that a 409 on a chunk leads to a new
  `init`; `with_retries` returns it as fatal.
* `MC_JwksTorn`: `JwksCache::get` looks a key up and then asks for the cache's age, under
  two locks; another request's refresh in between makes an expired key look fresh.
* `MC_AgentStop`: the config client has no timeout and child processes are awaited without
  one; the loop polls the stop channel only between its bodies.
* `MC_AgentLogs`: `agent.log.DATE` and a hand copy `agent-DATE.log` get one name
  in the bundle, and the older is copied last.
* `config_rollback`: the drain tick resets the rollback clock whatever the upload did,
  and nothing starts it.
* `MC_SearchLiteral`: patterns are escaped for an ESCAPE clause SQLite is not given.
* `MC_LifecycleLegacy`: after "deleting metadata row only" the sweeper calls
  `delete_blob`, which refuses the URI, and the row stays at the head of the batch.
* On Postgres the sweeper's two statements use UUIDs on TEXT columns and always fail.
* `MC_AuditPageCap`: the route asks for one row more than the store will give.
* `MC_LifecyclePending`: nothing resumes the workers a restart ended.
* `MC_IngestLength`: size, hash and copy are taken from three opens of the path. It
  matters only when a client declares more bytes than it hashed.
* UnfetchedFailsClosed, `MC_CrlForwarded`, LimiterMirrorsIdentity, `MC_AuditAttribution`:
  comments in `crl.rs`, `rate_limit.rs` and `audit.rs` promise more than the code does.
* `fetch_override` says callers keep the effective config after a failure; `sync`
  clears it. `lib.rs` calls the outermost limiter the innermost. `extract_roles` pools
  `scp` and `roles`, its comment says admin comes from `roles` only.

## Proofs

Every safety property that a passing run checks is also a theorem, proved for all
values of the constants that satisfy the named assumptions of the modules: any
numbers of handlers, threads, devices, bundles, keys and sessions, all sizes, limits
and times, and any number of faults. `PROJECT.json` lists the theorems; each says in
its comment what it is about.

| module | inductive invariant | theorems |
|---|---|---|
| `IngestProofs` | `IndInv` of `Ingest` | TypeCorrect, SessionsIntact, NoSharedReservation, ReportedStays, MarkedIsStored, PermitsStay; action properties WriteOnce, OwnersOnly |
| `UploadSystemProofs` | `SysInv` (contains `IndInv`) | SystemTypes, QueueHasItsZips, DoneIsStored; Delivers, the refinement of `Delivery` |
| `LifecycleProofs` | `IndInv` | LifecycleTypes, NothingOrphaned, OkMeansComplete, BlobsGoFirst; action property NothingGoesEarly |
| `AdminPlaneProofs` | `IndInv` | AdminTypeCorrect, KeysExpire, LogTruth, WritesAuthorized |
| `AgentHostProofs` | `HostInv` of `AgentHost`, `PassInv` of `Evidence` | StatusIsTrue; ManifestIsTrue, RawAccounted |
| `FrontDoorProofs` | `FrontInv`, `BurstInv` | IdentitiesTrue, MapsBounded, BurstsBounded; action property RevokedOut |
| `QueryApiProofs` | `QueryInv`, with `Asked`, `EntriesInv`, `Found` | NoFileIsMissed, WalksExact, TextsVerbatim, SearchesExact |
| `SearchTextProofs` | | CopyRoundTrip, LikeIsSubstring |

`Ingest`'s `IndInv` is checked by TLC in the run `ingest_devices`. The other
inductive invariants stand in the proof modules; each was checked by TLC on the
instance of its module's run before it was proved, where they quantify over an unbounded
set (`Fits` over sums, `Placed` over sequences) with a bounded one in its place.

**Assumptions.** The ASSUMEs of the modules type the constants; TLC evaluates them in
every run. Four hypotheses are more than typing:

* `HonestDecls` (`IngestProofs`): clients declare the length of the bytes they hash.
  The agent does, since it takes both from the zip, and the server cannot check it.
  `MC_IngestLength.cfg` shows that the hypothesis is needed. In `UploadSystem` it
  follows from `SystemAssumption`: the agent is the only client and declares by DeclOf.
* `AuditPagesFit` (WalksExact): no client asks the audit log for pages of the largest
  size; `MC_AuditPageCap.cfg` shows the walk that ends early otherwise.
* `SearchesPlain` (SearchesExact): SQLite is searched for texts without `%`, `_` and
  the backslash; `MC_SearchLiteral.cfg` shows what happens otherwise. On Postgres
  the theorem holds for every text.
* `FrontAssumption`: the set of threads is finite, every environment is one
  `from_env` accepts, and the limiter's keys are those the requests produce.

**Ingest.** `SessionIntact` alone is not inductive: a step from "finalize has
copied" to "row inserted" must know that the copy was of the declared bytes. That
comes from `VerifiedStable`: between the hash check and the copy the staged file is
the declared bytes or gone. It is stable because a PUT that could still write holds a
reservation of unwritten slots (`ReservedUnwritten`) below the cursor
(`CursorBound`), while a file equal to its declared image has no unwritten slot below
the declared size, which is where honest declarations come in; so no PUT can hold a
reservation. `Shape` says what a handler's locals are at each place and ties its stale
row to the current one, `MintedOnce` that a session id belongs to one handler until it
is committed, `UniqueSession` is the table's UNIQUE constraint. `NextInv` has one
lemma per action. `WriteOnce` follows from `ReservedUnwritten`; `OwnersOnly` from
`Shape`, whose ownership check a handler passed before it holds an upload; `PermitsStay`
uses `PermitInv`, which adds that a session waiting for its permit has no worker.

**Agent and server.** Each step of the system is a step of `Ingest` or leaves the
server alone, so `IndInv` carries over. `OnlyAgent` says that every row and request is
the agent's and declares what the bundle's zip contains; `Answered` that the answer
waited for is the one to the agent's own request, although handlers it gave up on run
on; `LoopPlace` and `QueueTruth` tie the task loop's place to the sidecar and to the
server's sessions. `TableStep` sums up what any server step does to the tables:
uploads and sessions keep device and bundle, blobs their bytes, and a new row is that
of the handler that inserts it. DoneIsStored then needs
`SessionIntact` for the bytes. For Delivers, `InitRefines` maps the initial state and
`StepRefines` each step to a step of `Delivery` or a stutter.

**Worker and sweeper.** `Accounted` says that as long as nothing went wrong every
readable file is still to be parsed, in the channel or with the consumer; `Stored`
that what the consumer took is in the tables, but for the file in hand; together they
give `Truthful` at the moment the outcome is computed. `Sweeping` and `Once` say what the
sweeper holds and that a deleted session never comes back, which is why a worker that
still inserts meets the missing row.

**Administration.** WithdrawnKeyExpires needs the age of what a refresh brings:
`CacheAge` and `FetchAge` say that a stored document was at most one fetch timeout old
when it was stored, even if an overlapping refresh stored it over a newer one. A
request between lookup and age check holds a key that may have left the cache; if it is
still there the cache's age is the key's, otherwise the property makes no claim. `Allowed`
carries the admin's token from the gate to the write, `StatusTells` the result of the
write to the middleware's audit row.

**Agent process.** `Reported` ties what the service manager was told to the process,
`OneBody` says that a config request belongs to the one body at work.

**Collection pass.** `PassInv` relates what is listed to what is staged while both grow
and while the redactor rewrites: a listed path holds a file of the source it was made
of and is whole or named by a warning (`Kept`), which paths a collector may list is
fixed by `Owned`, and what is still as collected is yet to be walked, warned about, or
was left alone by the rule for small files that are not UTF-8 (`Accounted`).
`CollectorStep` and `RedactorStep` sum up what any collector and any rewrite may do.

**Front door.** `CapInv` counts live keys together with the keys that checks between
their two halves may still insert. `BurstInv` compares each entry with the history of
what the key spent in the last ticks (`Fits`): the count is what was spent since the
window began, and what was spent before it fits into one earlier window. `CrlInv` keeps
every serial fetched in some cached list.

**Queries.** `Ranked` numbers the rows of a listing in its order; a page is the
interval of ranks behind the cursor, cut off at the limit. `Placed` says that a walk's
cursor is the place of the last row it got, `Covered` that the rows there at the first
request are got already or still to come in the order; of the files this includes rows
inserted meanwhile. `EntriesInv` and `Found` do the same for stored and for found texts.

**Texts.** `Like` and `CopyField` are recursive functions. That such a function
exists at all, and with it its equation, is `Recursion`: an equation that reads only
points of smaller measure has a fixed point. `IndexInduction` is induction over a set
of naturals, an instance of well-founded minimality that needs no operator parameter.
With the two, LikeMatches and CopyReads say what the functions compute for sequences of
every length, and LikeIsSubstring and CopyRoundTrip follow by matching the escaped
pattern piece by piece.

**Only model-checked.** Liveness and ENABLED are beyond the prover: EventuallyDone,
WorkersEnd, OwnSwept, StopHonoured, ConfigConverges and RevocationArrives are checked
by TLC under the fairness stated above, on the runs' instances only. The two runs
that expect a violation refute StoredGetsDone and OverrideOnTrial, the further
configurations the properties in their table. The run of EventuallyDone has the faults
the code recovers from (lost requests, broken bodies of init and chunk); after a failed
chunk write, or a timed-out chunk whose handler is dropped half way, it does not hold.

## Not modelled, and why

The upload and session statements of the Postgres store (those of SQLite are modelled);
certificate, CRL and token cryptography and parsing, PEM loading and the rustls set-up
(libraries and one-time I/O); the values of numeric settings and the agent's TOML file;
what glob patterns match and the regular expressions of the redactor;
the shutdown grace period (a restart may cut any request); metrics, status page and
health (read-only rendering); the collection scheduler (only its tests use it); the
viewer, the KQL lexer and the load harness. Formats, hashes and log contents are
abstracted: a bundle's bytes are slots, a log file is the kind of result its parse
gives. The rate limiter's 429 is treated by the agent like a 5xx and is covered by the
retry path of a lost request. The drain's order over many bundles against their backoff
needs real time and is listed as a hazard without a property.

## Plan

1. Done: `Ingest` and its proofs, `Agent`, `Delivery`, `UploadSystem`, `Lifecycle`,
   `AdminPlane`, `AgentHost`, `Evidence`, `FrontDoor`, `QueryApi` and their parts.
2. Done: the proofs of every safety property that a run checks, the refinement of
   `Delivery` and the lemmas about matching and decoding.
3. Next proofs: laws of `ConfigStore` (a write replaces a row as a whole, a merge never
   yields what validation refuses), an abstract specification of the limiter and of the
   audited write with their refinements, monotonicity of the lifecycle of a session.
4. Possible extensions: a timed queue (drain interval against backoff), the status
   page's counters, the viewer's workspace reducer.
