------------------------------ MODULE QueryApi ------------------------------
(* The listing routes (devices.rs, sessions.rs, files.rs, entries.rs and the *)
(* audit log of admin.rs) over the rows of the metadata stores               *)
(* (meta_sqlite.rs, meta_postgres.rs, audit_sqlite.rs).  A client walks one  *)
(* listing page by page, by the cursors it is given, while uploads, the      *)
(* parse worker, the sweeper and the audit middleware change the rows.       *)
EXTENDS SearchText, FiniteSets

CONSTANTS
  Backends,      \* subset of {"sqlite", "postgres"}
  Null,          \* SQL's NULL, an absent parameter, no cursor
  Devices,       \* device ids, as numbers in the order of their text
  Times,         \* values of ts_ms, ingested_utc and ts_utc
  Batches,       \* the sequences of entries a worker may insert for a file
  Budgets,       \* bounds on the sessions, files, entries and audit rows made
  Walks(_),      \* the walks clients start on a backend
  DefaultLimit, MaxLimit  \* 200 and 500, 50 and 500, 100 and 1000

Listings == {"devices", "sessions", "files", "entries", "audit"}

IsText(text) == text \in Seq(Range(text))

\* Walks begin at the first page, or with a cursor that does not decode.
ASSUME QueryAssumption ==
  /\ Backends \subseteq {"sqlite", "postgres"}
  /\ Null \notin Nat \cup [text : Seq(Nat), id : Nat] \cup [ts : Nat \cup {Null}, id : Nat]
  /\ Budgets \subseteq [{"sessions", "files", "entries", "audit"} -> Nat]
  /\ MaxLimit \in Nat /\ DefaultLimit \in 1..MaxLimit /\ Times \subseteq Nat /\ Devices \subseteq Nat
  /\ \A batch \in Batches :
       /\ Len(batch) \in Nat
       /\ \A i \in 1..Len(batch) :
            /\ batch[i].ts \in Nat \cup {Null} /\ IsText(batch[i].message)
            /\ batch[i].component = Null \/ IsText(batch[i].component)
  /\ \A b \in Backends : \A w \in Walks(b) :
       /\ w.list \in Listings /\ w.limit \in Nat \cup {Null}
       /\ w.cursor # Null => w.cursor.id = Null
       /\ w.filter.q = Null \/ IsText(w.filter.q)

VARIABLES
  backend,                                   \* the configured store
  devices, sessions, files, entries, audit,  \* tables, as sets of rows
  ids,                                       \* ids given out, by table
  budget,                                    \* rows this behaviour may make
  walk                                       \* the client's walk

tables == <<devices, sessions, files, entries, audit, ids>>
vars == <<backend, budget, tables, walk>>

NoWalk == [stage |-> "none"]

Init == /\ backend \in Backends
        /\ devices = {} /\ sessions = {} /\ files = {} /\ entries = {} /\ audit = {}
        /\ ids = [sessions |-> 0, files |-> 0, entries |-> 0, audit |-> 0]
        /\ budget \in Budgets
        /\ walk = NoWalk

-----------------------------------------------------------------------------
(* The writers.                                                              *)

\* upsert_device
UpsertDevice(d) ==
  /\ d \notin devices
  /\ devices' = devices \cup {d}
  /\ UNCHANGED <<backend, budget, sessions, files, entries, audit, ids, walk>>

\* insert_session: ingested_utc was read before the insert commits, so rows do
\* not appear in its order.
InsertSession(d, ts) ==
  /\ d \in devices /\ ids.sessions < budget.sessions
  /\ ids' = [ids EXCEPT !.sessions = @ + 1]
  /\ sessions' = sessions \cup {[id |-> ids.sessions + 1, device |-> d, ts |-> ts]}
  /\ UNCHANGED <<backend, budget, devices, files, entries, audit, walk>>

\* Mutant: file ids that are not in the order of insertion.
InsertFileAnyId(s) ==
  /\ ids.files < budget.files
  /\ ids' = [ids EXCEPT !.files = @ + 1]
  /\ files' = files \cup {[id |-> budget.files - ids.files, session |-> s.id]}
  /\ UNCHANGED <<backend, budget, devices, sessions, entries, audit, walk>>

\* insert_file, with a UUIDv7 the consumer of the worker has just made
InsertFile(s) ==
  /\ ids.files < budget.files
  /\ ids' = [ids EXCEPT !.files = @ + 1]
  /\ files' = files \cup {[id |-> ids.files + 1, session |-> s.id]}
  /\ UNCHANGED <<backend, budget, devices, sessions, entries, audit, walk>>

\* What insert_entries_batch stores of a text column: the bound value, or what
\* COPY makes of it.
Stored(text) == IF backend = "sqlite" THEN text ELSE CopyField(PushTextOrNull(text, Null), Null)

\* insert_entries_batch: all rows of the batch, with consecutive ids
InsertEntries(f, batch) ==
  /\ \A e \in entries : e.file # f.id
  /\ ids.entries + Len(batch) <= budget.entries
  /\ ids' = [ids EXCEPT !.entries = @ + Len(batch)]
  /\ entries' = entries \cup
       {[id |-> ids.entries + i, session |-> f.session, file |-> f.id, ts |-> batch[i].ts,
         severity |-> batch[i].severity, message |-> Stored(batch[i].message),
         component |-> Stored(batch[i].component), parsed |-> batch[i]] : i \in 1..Len(batch)}
  /\ UNCHANGED <<backend, budget, devices, sessions, files, audit, walk>>

\* The Postgres store decodes and binds session_id as a UUID where the column
\* is TEXT, so there the sweeper gets errors only.
Sweepable == backend = "sqlite"

\* delete_session
DeleteSession(s) ==
  /\ Sweepable
  /\ sessions' = sessions \ {s}
  /\ files' = {f \in files : f.session # s.id}
  /\ entries' = {e \in entries : e.session # s.id}
  /\ UNCHANGED <<backend, budget, devices, audit, ids, walk>>

\* insert_audit_row; the Postgres factory falls back to NoopAuditStore.
InsertAuditRow(ts) ==
  /\ ids.audit < budget.audit
  /\ ids' = [ids EXCEPT !.audit = @ + 1]
  /\ audit' = IF backend = "postgres" THEN audit
              ELSE audit \cup {[id |-> ids.audit + 1, ts |-> ts]}
  /\ UNCHANGED <<backend, budget, devices, sessions, files, entries, walk>>

-----------------------------------------------------------------------------
(* The queries: which rows, in which order.                                  *)

\* ORDER BY (ts_ms IS NULL) ASC, ts_ms ASC, entry_id ASC; NULLS LAST
EntryBefore(a, b) ==
  IF a.ts = Null \/ b.ts = Null
  THEN (a.ts # Null /\ b.ts = Null) \/ (a.ts = b.ts /\ a.id < b.id)
  ELSE a.ts < b.ts \/ (a.ts = b.ts /\ a.id < b.id)

\* ORDER BY ts DESC, id DESC: RFC 3339 text in UTC sorts by time.
NewestFirst(a, b) == a.ts > b.ts \/ (a.ts = b.ts /\ a.id > b.id)

\* Mutant: the cursor compares timestamps only.
EntriesAfterByTime(rows, c) ==
  IF c = Null THEN rows
  ELSE IF c.ts = Null THEN {e \in rows : e.ts = Null /\ e.id > c.id}
  ELSE {e \in rows : e.ts = Null \/ e.ts > c.ts}

\* The two cursor cases of query_entries
EntriesAfter(rows, c) ==
  IF c = Null THEN rows
  ELSE IF c.ts = Null THEN {e \in rows : e.ts = Null /\ e.id > c.id}
  ELSE {e \in rows : \/ e.ts # Null /\ (e.ts > c.ts \/ (e.ts = c.ts /\ e.id > c.id))
                     \/ e.ts = Null}

\* list_sessions_for_device and list_audit_rows: strictly older than the cursor
OlderThanCursor(rows, c) ==
  IF c = Null THEN rows
  ELSE {r \in rows : r.ts < c.ts \/ (r.ts = c.ts /\ r.id < c.id)}

\* The other conditions of query_entries
Matches(e, filter) ==
  /\ filter.file = Null \/ e.file = filter.file
  /\ filter.severity = Null \/ e.severity >= filter.severity
  /\ filter.after = Null \/ (e.ts # Null /\ e.ts >= filter.after)
  /\ filter.before = Null \/ (e.ts # Null /\ e.ts < filter.before)
  /\ filter.q = Null \/ Like(backend, BuildLikePattern(filter.q), e.message)

\* The rows of a listing, without its cursor
Rows(w) ==
  CASE w.list = "devices"  -> {[id |-> d] : d \in devices}
    [] w.list = "sessions" -> {s \in sessions : s.device = w.of}
    [] w.list = "files"    -> {f \in files : f.session = w.of}
    [] w.list = "entries"  -> {e \in entries : e.session = w.of /\ Matches(e, w.filter)}
    [] w.list = "audit"    -> audit

RowsAfter(w) ==
  CASE w.list \in {"devices", "files"}  ->
         {r \in Rows(w) : w.cursor = Null \/ r.id > w.cursor.id}
    [] w.list \in {"sessions", "audit"} -> OlderThanCursor(Rows(w), w.cursor)
    [] w.list = "entries"               -> EntriesAfter(Rows(w), w.cursor)

Before(w, a, b) ==
  CASE w.list \in {"devices", "files"}  -> a.id < b.id
    [] w.list \in {"sessions", "audit"} -> NewestFirst(a, b)
    [] w.list = "entries"               -> EntryBefore(a, b)

\* LIMIT n, which list_audit_rows caps once more
StoreLimit(w, n) == IF w.list = "audit" /\ n > MaxLimit THEN MaxLimit ELSE n

Select(w, n) ==
  LET rows == RowsAfter(w)
      rank(r) == Cardinality({x \in rows : Before(w, x, r)})
      size == Min({StoreLimit(w, n), Cardinality(rows)})
  IN  [i \in 1..size |-> CHOOSE r \in rows : rank(r) = i - 1]

-----------------------------------------------------------------------------
(* The routes.                                                               *)

\* clamp_limit
ClampLimit(limit) == IF limit = Null THEN DefaultLimit
                     ELSE IF limit < 1 THEN 1 ELSE IF limit > MaxLimit THEN MaxLimit ELSE limit

\* Only list_entries refuses a limit over the maximum; every listing refuses a
\* cursor that does not decode: one without an id.
BadLimit(w) == w.list = "entries" /\ w.limit # Null /\ w.limit > MaxLimit
BadCursor(w) == w.cursor # Null /\ w.cursor.id = Null

\* The cursors of devices and files carry an id.  encode_entry_cursor leaves the
\* time of a NULL row empty, and decode_entry_cursor reads that back; the other
\* listings carry times and ids as they are.
EncodeCursor(w, r) ==
  [text |-> IF w.list \in {"devices", "files"} THEN <<>> ELSE IF r.ts = Null THEN <<>> ELSE <<r.ts>>,
   id   |-> r.id]
DecodeCursor(c) == IF c = Null THEN Null
                   ELSE [ts |-> IF c.text = <<>> THEN Null ELSE c.text[1], id |-> c.id]

\* A client begins at the first page.
Start(w) ==
  /\ walk = NoWalk
  /\ walk' = [list |-> w.list, of |-> w.of, filter |-> w.filter, limit |-> w.limit,
              cursor |-> w.cursor, stage |-> "request", got |-> <<>>, base |-> Rows(w),
              upTo |-> ids.entries]
  /\ UNCHANGED <<backend, budget, tables>>

\* The part of a handler before its query: the session of files and entries
\* must exist.
Request ==
  /\ walk.stage = "request"
  /\ walk' = [walk EXCEPT !.stage =
       IF BadLimit(walk) THEN "400"
       ELSE IF walk.list \in {"files", "entries"} /\ \A s \in sessions : s.id # walk.of THEN "404"
       ELSE IF BadCursor(walk) THEN "400" ELSE "query"]
  /\ UNCHANGED <<backend, budget, tables>>

\* One row more than asked for, cut off again, tells whether there is a next page.
Page(w) ==
  LET limit == ClampLimit(w.limit)
      rows == Select(w, limit + 1)
  IN  IF Len(rows) > limit
      THEN [items |-> SubSeq(rows, 1, limit), next |-> EncodeCursor(w, rows[limit])]
      ELSE [items |-> rows, next |-> Null]

\* The query and the answer, from which the client goes on to the next page.
Query ==
  /\ walk.stage = "query"
  /\ LET page == Page(walk) IN
     walk' = [walk EXCEPT !.got = @ \o page.items,
                          !.cursor = DecodeCursor(page.next),
                          !.stage = IF page.next = Null THEN "done" ELSE "request"]
  /\ UNCHANGED <<backend, budget, tables>>

Next == \/ \E d \in Devices : UpsertDevice(d) \/ \E ts \in Times : InsertSession(d, ts)
        \/ \E s \in sessions : InsertFile(s) \/ DeleteSession(s)
        \/ \E f \in files, batch \in Batches : InsertEntries(f, batch)
        \/ \E ts \in Times : InsertAuditRow(ts)
        \/ \E w \in Walks(backend) : Start(w)
        \/ Request \/ Query

Spec == Init /\ [][Next]_vars

-----------------------------------------------------------------------------
(* Properties.                                                               *)

OnlyText(filter) == {filter.file, filter.severity, filter.after, filter.before} = {Null}
InOrder(w) == \A i, j \in 1..Len(w.got) : i < j => Before(w, w.got[i], w.got[j])

\* Whatever is inserted and deleted between its pages, a walk never goes back
\* or repeats a row, and one that ends without an error has returned every row
\* that was there from its first request to its last.
WalkExact ==
  walk # NoWalk =>
    /\ InOrder(walk)
    /\ walk.stage = "done" => (walk.base \cap Rows(walk)) \subseteq Range(walk.got)

\* No file of a session ever appears behind the cursor of a walk over its
\* files: a viewer that polls the next page while the bundle is being parsed
\* misses none.
NoFileBehind ==
  walk # NoWalk /\ walk.list = "files" /\ walk.got # <<>> =>
    \A f \in Rows(walk) : f.id <= walk.got[Len(walk.got)].id => f \in Range(walk.got)

\* A search returns the entries whose message contains the text, and no others,
\* whatever characters the text is made of.
SearchIsSubstring ==
  walk # NoWalk /\ walk.list = "entries" /\ walk.filter.q # Null =>
    /\ \A e \in Range(walk.got) : HasSubstring(backend, e.message, walk.filter.q)
    /\ walk.stage = "done" /\ OnlyText(walk.filter) =>
         \A e \in entries : e.session = walk.of /\ e.id <= walk.upTo
                            /\ HasSubstring(backend, e.message, walk.filter.q) => e \in Range(walk.got)

\* Both stores give back the text the parser produced, backslashes, tabs and
\* the two characters of the NULL marker included.
StoredVerbatim ==
  \A e \in entries : e.message = e.parsed.message /\ e.component = e.parsed.component
=============================================================================
