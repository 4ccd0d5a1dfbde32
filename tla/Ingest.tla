------------------------------- MODULE Ingest -------------------------------
(***************************************************************************)
(* The api-server's resumable bundle upload: the three handlers of         *)
(* crates/api-server/src/routes/ingest.rs (init, put_chunk, finalize) over *)
(* the metadata store (tables devices, uploads, sessions), the staging     *)
(* directory, the blob store and the parse-worker semaphore.               *)
(*                                                                         *)
(* A handler is an async function: between two of its awaits any other     *)
(* handler may run, so every storage call is an action of its own and a    *)
(* handler keeps its place in pc.  A handler may also end at any await,    *)
(* with a storage error, because its client went away (the server drops    *)
(* the future) or because the process died.  Clients are unconstrained:    *)
(* any request may arrive at any time.                                     *)
(*                                                                         *)
(* Data: a bundle's bytes are a sequence of slots; slot i of content c is  *)
(* the value c, Hole is a slot nobody wrote.  SHA-256 is taken to be free  *)
(* of collisions, so the hash of a file is the file itself.                *)
(***************************************************************************)
EXTENDS Naturals, FiniteSets

CONSTANTS
    Handlers,     \* concurrent requests the server can be working on
    Devices, Bundles,
    Contents,     \* the different payloads clients hold
    Length,       \* Length[c] is the number of slots of content c
    MaxSize,      \* bound: the longest declared bundle, in slots
    MaxChunk,     \* MAX_CHUNK_SIZE, in slots
    Decls,        \* what clients declare at init: sha256, sizeBytes, contentKind
    UploadIds,    \* bound: the upload ids that can be in use at a time
    SessionIds,   \* bound: the session ids that can be in use at a time
    Times,        \* bound: the values created_utc can take
    ParseSlots,   \* permits of parse_semaphore
    NoRow, NoFile, NoId, NoReq, NoReply, Hole

Uuids == UploadIds \cup SessionIds
Offsets == 0 .. MaxSize - 1
Files == [Offsets -> Contents \cup {Hole}]
Image(c) == [i \in Offsets |-> IF i < Length[c] THEN c ELSE Hole]
EmptyFile == [i \in Offsets |-> Hole]
SizeOf(f) == Cardinality({i \in Offsets : \E j \in i .. MaxSize - 1 : f[j] # Hole})

UploadRow == [dev : Devices, bundle : Bundles, decl : Decls,
              offset : 0 .. MaxSize, created : Times, finalized : {0, 1}]
ParseStates == {"pending", "ok", "ok-with-fallbacks", "partial", "failed"}
SessionRow == [dev : Devices, bundle : Bundles, size : 0 .. MaxSize,
               sha : Files, parse : ParseStates]
InitReq == [op : {"init"}, dev : Devices, bundle : Bundles, decl : Decls]
PutReq == [op : {"put"}, dev : Devices, off : 0 .. MaxSize,
           len : 0 .. MaxChunk + 1, body : Contents]
FinReq == [op : {"finalize"}, dev : Devices, claimed : Contents]
Requests == InitReq \cup PutReq \cup FinReq
Handle == [size : 0 .. MaxSize, sha : Files]
ErrorKinds == {"bad_request", "not_found", "conflict", "offset_mismatch",
               "already_finalized", "sha256_mismatch", "internal"}
ReplyKinds == {"upload", "next", "session"} \cup ErrorKinds
Replies == [kind : ReplyKinds, id : Uuids \cup {NoId}, off : 0 .. MaxSize]

ASSUME SizeAssumption == MaxSize \in Nat \ {0} /\ MaxChunk \in Nat \ {0}
ASSUME LengthAssumption == Length \in [Contents -> 1 .. MaxSize]
ASSUME DeclAssumption ==
    Decls \subseteq [sha : Contents, size : 0 .. MaxSize, kind : STRING]
ASSUME UuidAssumption == UploadIds \cap SessionIds = {}
ASSUME TimesAssumption == Times \subseteq Nat
ASSUME SlotsAssumption == ParseSlots \in Nat \ {0}
ASSUME NoneAssumption ==
    /\ NoRow \notin UploadRow \cup SessionRow
    /\ NoFile \notin Files
    /\ NoId \notin Uuids
    /\ NoReq \notin Requests
    /\ NoReply \notin Replies \cup Handle
    /\ Hole \notin Contents

VARIABLES
    devices,      \* table devices
    uploads,      \* table uploads
    sessions,     \* table sessions
    staging,      \* <staging_root>/<upload_id>
    blobs,        \* blobs/<session_id> in the object store
    permits,      \* free permits of parse_semaphore
    parsing,      \* sessions whose spawned parse worker is running
    pc,           \* where each handler is
    req,          \* the request it serves
    up,           \* the upload id it works on
    snap,         \* the uploads row it read
    sid,          \* the session id it minted
    handle,       \* the BlobHandle blobs.finalize is building
    reply,        \* the last response, NoReply when there was none
    acked         \* history: sessions reported to a client by finalize

stored == <<devices, uploads, sessions, staging, blobs>>
worker == <<permits, parsing>>
locals == <<up, snap, sid, handle>>
vars == <<devices, uploads, sessions, staging, blobs, permits, parsing,
          pc, req, up, snap, sid, handle, reply, acked>>

InitLabels == {"init.find_session", "init.find_resumable",
               "init.create_staging", "init.insert_upload"}
PutLabels == {"put.reserve", "put.reread", "put.write"}
FinLabels == {"fin.find_session", "fin.hash", "fin.discard", "fin.rehash",
              "fin.copy", "fin.remove", "fin.mark", "fin.insert",
              "fin.find_winner", "fin.permit"}
Running == InitLabels \cup PutLabels \cup FinLabels

(* The invariant every variable's type is read from. *)
TypeOK ==
    /\ devices \subseteq Devices
    /\ uploads \in [Uuids -> UploadRow \cup {NoRow}]
    /\ sessions \in [Uuids -> SessionRow \cup {NoRow}]
    /\ staging \in [Uuids -> Files \cup {NoFile}]
    /\ blobs \in [Uuids -> Files \cup {NoFile}]
    /\ permits \in Nat
    /\ parsing \subseteq Uuids
    /\ pc \in [Handlers -> Running \cup {"idle"}]
    /\ req \in [Handlers -> Requests \cup {NoReq}]
    /\ up \in [Handlers -> Uuids \cup {NoId}]
    /\ snap \in [Handlers -> UploadRow \cup {NoRow}]
    /\ sid \in [Handlers -> Uuids \cup {NoId}]
    /\ handle \in [Handlers -> Handle \cup {NoReply}]
    /\ reply \in [Handlers -> Replies \cup {NoReply}]
    /\ acked \subseteq [dev : Devices, bundle : Bundles, id : Uuids]

Init ==
    /\ devices = {}
    /\ uploads = [u \in Uuids |-> NoRow]
    /\ sessions = [s \in Uuids |-> NoRow]
    /\ staging = [u \in Uuids |-> NoFile]
    /\ blobs = [s \in Uuids |-> NoFile]
    /\ permits = ParseSlots
    /\ parsing = {}
    /\ pc = [r \in Handlers |-> "idle"]
    /\ req = [r \in Handlers |-> NoReq]
    /\ up = [r \in Handlers |-> NoId]
    /\ snap = [r \in Handlers |-> NoRow]
    /\ sid = [r \in Handlers |-> NoId]
    /\ handle = [r \in Handlers |-> NoReply]
    /\ reply = [r \in Handlers |-> NoReply]
    /\ acked = {}

-----------------------------------------------------------------------------
(* Helpers.                                                                *)

(* Uuid::now_v7 never returns an id that anything still refers to. *)
FreshUpload == {u \in UploadIds : /\ uploads[u] = NoRow /\ staging[u] = NoFile
                                  /\ \A r \in Handlers : up[r] # u}
FreshSession == {s \in SessionIds : /\ sessions[s] = NoRow /\ blobs[s] = NoFile
                                    /\ \A r \in Handlers : sid[r] # s}

SessionsOf(d, b) == {s \in Uuids : /\ sessions[s] # NoRow
                                   /\ sessions[s].dev = d
                                   /\ sessions[s].bundle = b}
OpenUploads(d, b) == {u \in Uuids : /\ uploads[u] # NoRow
                                    /\ uploads[u].dev = d
                                    /\ uploads[u].bundle = b
                                    /\ uploads[u].finalized = 0}
Resumable(d, b) == {u \in OpenUploads(d, b) :
                       \A v \in OpenUploads(d, b) : uploads[v].created <= uploads[u].created}

(* write_all of slots off .. off + k - 1 of content c into an open file. *)
Written(f, off, k, c) == [i \in Offsets |-> IF i >= off /\ i < off + k THEN c ELSE f[i]]

Rep(kind, id, off) == [kind |-> kind, id |-> id, off |-> off]
Err(kind) == Rep(kind, NoId, 0)

Goto(r, label) == /\ pc' = [pc EXCEPT ![r] = label]
                  /\ UNCHANGED <<req, reply, acked>>

Begin(r, label) == /\ pc' = [pc EXCEPT ![r] = label]
                   /\ reply' = [reply EXCEPT ![r] = NoReply]
                   /\ UNCHANGED acked

(* The handler ends; its locals go out of scope. *)
Leave(r) == /\ req' = [req EXCEPT ![r] = NoReq]
            /\ up' = [up EXCEPT ![r] = NoId]
            /\ snap' = [snap EXCEPT ![r] = NoRow]
            /\ sid' = [sid EXCEPT ![r] = NoId]
            /\ handle' = [handle EXCEPT ![r] = NoReply]
Answer(r, rep) == /\ pc' = [pc EXCEPT ![r] = "idle"]
                  /\ reply' = [reply EXCEPT ![r] = rep]
                  /\ Leave(r)
Refuse(r, kind) == Answer(r, Err(kind)) /\ UNCHANGED <<stored, worker, acked>>

(* finalize reports session s. *)
Report(r, s) == /\ Answer(r, Rep("session", s, 0))
                /\ acked' = acked \cup
                     {[dev |-> sessions'[s].dev, bundle |-> sessions'[s].bundle, id |-> s]}

-----------------------------------------------------------------------------
(* POST /v1/ingest/bundles                                                 *)

InitStart(r, d, b, decl) ==
    /\ pc[r] = "idle"
    /\ IF decl.size = 0
         THEN /\ Answer(r, Err("bad_request"))
              /\ UNCHANGED <<stored, worker, acked>>
         ELSE /\ devices' = devices \cup {d}
              /\ req' = [req EXCEPT ![r] = [op |-> "init", dev |-> d,
                                            bundle |-> b, decl |-> decl]]
              /\ Begin(r, "init.find_session")
              /\ UNCHANGED <<uploads, sessions, staging, blobs, worker, locals>>

InitFindSession(r) ==
    /\ pc[r] = "init.find_session"
    /\ \/ \E s \in SessionsOf(req[r].dev, req[r].bundle) :
             /\ Answer(r, Rep("upload", s, sessions[s].size))
             /\ UNCHANGED <<stored, worker, acked>>
       \/ /\ SessionsOf(req[r].dev, req[r].bundle) = {}
          /\ Goto(r, "init.find_resumable")
          /\ UNCHANGED <<stored, worker, locals>>

(* Seeded fault: a resumed upload always starts over. *)
InitFindResumable_FromZero(r) ==
    /\ pc[r] = "init.find_resumable"
    /\ \/ \E u \in Resumable(req[r].dev, req[r].bundle) :
             /\ Answer(r, Rep("upload", u, 0))
             /\ UNCHANGED <<stored, worker, acked>>
       \/ /\ OpenUploads(req[r].dev, req[r].bundle) = {}
          /\ Goto(r, "init.create_staging")
          /\ UNCHANGED <<stored, worker, locals>>

InitFindResumable(r) ==
    /\ pc[r] = "init.find_resumable"
    /\ \/ \E u \in Resumable(req[r].dev, req[r].bundle) :
             /\ IF uploads[u].decl = req[r].decl
                  THEN Answer(r, Rep("upload", u, uploads[u].offset))
                  ELSE Answer(r, Err("conflict"))
             /\ UNCHANGED <<stored, worker, acked>>
       \/ /\ OpenUploads(req[r].dev, req[r].bundle) = {}
          /\ Goto(r, "init.create_staging")
          /\ UNCHANGED <<stored, worker, locals>>

InitCreateStaging(r) ==
    /\ pc[r] = "init.create_staging"
    /\ \E u \in FreshUpload :
          /\ staging' = [staging EXCEPT ![u] = EmptyFile]
          /\ up' = [up EXCEPT ![r] = u]
    /\ Goto(r, "init.insert_upload")
    /\ UNCHANGED <<devices, uploads, sessions, blobs, worker, snap, sid, handle>>

(* created_utc is a wall-clock reading, which may repeat or step back. *)
InitInsertUpload(r) ==
    /\ pc[r] = "init.insert_upload"
    /\ \E now \in Times :
          uploads' = [uploads EXCEPT ![up[r]] =
                        [dev |-> req[r].dev, bundle |-> req[r].bundle,
                         decl |-> req[r].decl, offset |-> 0,
                         created |-> now, finalized |-> 0]]
    /\ Answer(r, Rep("upload", up[r], 0))
    /\ UNCHANGED <<devices, sessions, staging, blobs, worker, acked>>

-----------------------------------------------------------------------------
(* PUT /v1/ingest/bundles/{upload_id}/chunks?offset=N                      *)

(* Seeded fault: the chunk is not held against the declared size. *)
PutStart_NoBound(r, d, u, off, len, body) ==
    /\ pc[r] = "idle"
    /\ uploads[u] # NoRow
    /\ uploads[u].dev = d /\ uploads[u].finalized = 0
    /\ len > 0 /\ len <= MaxChunk
    /\ req' = [req EXCEPT ![r] = [op |-> "put", dev |-> d, off |-> off,
                                  len |-> len, body |-> body]]
    /\ up' = [up EXCEPT ![r] = u]
    /\ Begin(r, "put.reserve")
    /\ UNCHANGED <<stored, worker, snap, sid, handle>>

(* Seeded fault: any device may write to any upload. *)
PutStart_AnyDevice(r, d, u, off, len, body) ==
    /\ pc[r] = "idle"
    /\ uploads[u] # NoRow
    /\ uploads[u].finalized = 0
    /\ len > 0 /\ len <= MaxChunk /\ off + len <= uploads[u].decl.size
    /\ req' = [req EXCEPT ![r] = [op |-> "put", dev |-> d, off |-> off,
                                  len |-> len, body |-> body]]
    /\ up' = [up EXCEPT ![r] = u]
    /\ Begin(r, "put.reserve")
    /\ UNCHANGED <<stored, worker, snap, sid, handle>>

PutStart(r, d, u, off, len, body) ==
    /\ pc[r] = "idle"
    /\ \/ /\ uploads[u] = NoRow
          /\ Refuse(r, "not_found")
       \/ /\ uploads[u] # NoRow
          /\ LET row == uploads[u] IN
             \/ row.dev # d /\ Refuse(r, "not_found")
             \/ row.dev = d /\ row.finalized = 1 /\ Refuse(r, "already_finalized")
             \/ /\ row.dev = d /\ row.finalized = 0
                /\ (len = 0 \/ len > MaxChunk \/ off + len > row.decl.size)
                /\ Refuse(r, "bad_request")
             \/ /\ row.dev = d /\ row.finalized = 0
                /\ len > 0 /\ len <= MaxChunk /\ off + len <= row.decl.size
                /\ req' = [req EXCEPT ![r] = [op |-> "put", dev |-> d, off |-> off,
                                              len |-> len, body |-> body]]
                /\ up' = [up EXCEPT ![r] = u]
                /\ Begin(r, "put.reserve")
                /\ UNCHANGED <<stored, worker, snap, sid, handle>>

(* Seeded fault: the UPDATE does not compare the offset. *)
PutReserve_Blind(r) ==
    /\ pc[r] = "put.reserve"
    /\ uploads' = [uploads EXCEPT ![up[r]].offset = req[r].off + req[r].len]
    /\ Goto(r, "put.write")
    /\ UNCHANGED <<devices, sessions, staging, blobs, worker, locals>>

(* UPDATE uploads SET offset_bytes = new WHERE ... AND offset_bytes = off *)
PutReserve(r) ==
    /\ pc[r] = "put.reserve"
    /\ LET u == up[r] IN
       IF uploads[u].offset = req[r].off
         THEN /\ uploads' = [uploads EXCEPT ![u].offset = req[r].off + req[r].len]
              /\ Goto(r, "put.write")
              /\ UNCHANGED <<devices, sessions, staging, blobs, worker, locals>>
         ELSE /\ Goto(r, "put.reread")
              /\ UNCHANGED <<stored, worker, locals>>

PutReread(r) ==
    /\ pc[r] = "put.reread"
    /\ Answer(r, Rep("offset_mismatch", NoId, uploads[up[r]].offset))
    /\ UNCHANGED <<stored, worker, acked>>

PutWrite(r) ==
    /\ pc[r] = "put.write"
    /\ LET u == up[r]  q == req[r] IN
       IF staging[u] = NoFile
         THEN Refuse(r, "internal")
         ELSE /\ staging' = [staging EXCEPT ![u] = Written(@, q.off, q.len, q.body)]
              /\ Answer(r, Rep("next", NoId, q.off + q.len))
              /\ UNCHANGED <<devices, uploads, sessions, blobs, worker, acked>>

(* write_all or flush fails after a prefix of the chunk reached the file. *)
PutWriteFails(r) ==
    /\ pc[r] = "put.write"
    /\ staging[up[r]] # NoFile
    /\ \E k \in 0 .. req[r].len :
          staging' = [staging EXCEPT ![up[r]] = Written(@, req[r].off, k, req[r].body)]
    /\ Answer(r, Err("internal"))
    /\ UNCHANGED <<devices, uploads, sessions, blobs, worker, acked>>

-----------------------------------------------------------------------------
(* POST /v1/ingest/bundles/{upload_id}/finalize                            *)

FinStart(r, d, u, claimed) ==
    /\ pc[r] = "idle"
    /\ \/ /\ uploads[u] = NoRow
          /\ Refuse(r, "not_found")
       \/ /\ uploads[u] # NoRow
          /\ LET row == uploads[u] IN
             \/ row.dev # d /\ Refuse(r, "not_found")
             \/ /\ row.dev = d /\ row.finalized = 0 /\ row.offset # row.decl.size
                /\ Refuse(r, "bad_request")
             \/ /\ row.dev = d /\ (row.finalized = 1 \/ row.offset = row.decl.size)
                /\ req' = [req EXCEPT ![r] = [op |-> "finalize", dev |-> d,
                                              claimed |-> claimed]]
                /\ up' = [up EXCEPT ![r] = u]
                /\ snap' = [snap EXCEPT ![r] = row]
                /\ Begin(r, IF row.finalized = 1 THEN "fin.find_session" ELSE "fin.hash")
                /\ UNCHANGED <<stored, worker, sid, handle>>

(* Already finalized: answer with the session it produced. *)
FinFindSession(r) ==
    /\ pc[r] = "fin.find_session"
    /\ UNCHANGED <<stored, worker>>
    /\ \/ \E s \in SessionsOf(req[r].dev, snap[r].bundle) : Report(r, s)
       \/ /\ SessionsOf(req[r].dev, snap[r].bundle) = {}
          /\ Answer(r, Err("already_finalized"))
          /\ UNCHANGED acked

(* Seeded fault: the hash is compared with finalize's claim only. *)
FinHash_ClaimOnly(r) ==
    /\ pc[r] = "fin.hash"
    /\ staging[up[r]] = Image(req[r].claimed)
    /\ \E s \in FreshSession : sid' = [sid EXCEPT ![r] = s]
    /\ Goto(r, "fin.rehash")
    /\ UNCHANGED <<stored, worker, up, snap, handle>>

FinHash(r) ==
    /\ pc[r] = "fin.hash"
    /\ LET actual == staging[up[r]]
           expected == Image(snap[r].decl.sha)
           claimed == Image(req[r].claimed) IN
       \/ actual = NoFile /\ Refuse(r, "internal")
       \/ /\ actual # NoFile /\ (actual # expected \/ actual # claimed)
          /\ Goto(r, "fin.discard")
          /\ UNCHANGED <<stored, worker, locals>>
       \/ /\ actual # NoFile /\ actual = expected /\ actual = claimed
          /\ \E s \in FreshSession : sid' = [sid EXCEPT ![r] = s]
          /\ Goto(r, "fin.rehash")
          /\ UNCHANGED <<stored, worker, up, snap, handle>>

(* discard_staging; its own failure is logged and swallowed. *)
FinDiscard(r) ==
    /\ pc[r] = "fin.discard"
    /\ staging' \in {[staging EXCEPT ![up[r]] = NoFile], staging}
    /\ Answer(r, Err("sha256_mismatch"))
    /\ UNCHANGED <<devices, uploads, sessions, blobs, worker, acked>>

(* blobs.finalize: size and hash are taken from the path a second time ... *)
FinRehash(r) ==
    /\ pc[r] = "fin.rehash"
    /\ LET f == staging[up[r]] IN
       \/ f = NoFile /\ Refuse(r, "internal")
       \/ /\ f # NoFile
          /\ handle' = [handle EXCEPT ![r] = [size |-> SizeOf(f), sha |-> f]]
          /\ Goto(r, "fin.copy")
          /\ UNCHANGED <<stored, worker, up, snap, sid>>

(* Seeded fault: a failing copy is logged and passed over. *)
FinCopy_Lenient(r) ==
    /\ pc[r] = "fin.copy"
    /\ blobs' = [blobs EXCEPT ![sid[r]] = staging[up[r]]]
    /\ Goto(r, "fin.remove")
    /\ UNCHANGED <<devices, uploads, sessions, staging, worker, locals>>

(* ... then the path is opened a third time and copied to the blob store ... *)
FinCopy(r) ==
    /\ pc[r] = "fin.copy"
    /\ LET f == staging[up[r]] IN
       \/ f = NoFile /\ Refuse(r, "internal")
       \/ /\ f # NoFile
          /\ blobs' = [blobs EXCEPT ![sid[r]] = f]
          /\ Goto(r, "fin.remove")
          /\ UNCHANGED <<devices, uploads, sessions, staging, worker, locals>>

(* ... and the staged file is removed, best effort. *)
FinRemove(r) ==
    /\ pc[r] = "fin.remove"
    /\ staging' \in {[staging EXCEPT ![up[r]] = NoFile], staging}
    /\ Goto(r, "fin.mark")
    /\ UNCHANGED <<devices, uploads, sessions, blobs, worker, locals>>

FinMark(r) ==
    /\ pc[r] = "fin.mark"
    /\ uploads' = [uploads EXCEPT ![up[r]].finalized = 1]
    /\ Goto(r, "fin.insert")
    /\ UNCHANGED <<devices, sessions, staging, blobs, worker, locals>>

(* Seeded fault: sessions has no UNIQUE (device_id, bundle_id). *)
FinInsert_NotUnique(r) ==
    /\ pc[r] = "fin.insert"
    /\ sessions' = [sessions EXCEPT ![sid[r]] =
                      [dev |-> req[r].dev, bundle |-> snap[r].bundle, size |-> handle[r].size,
                       sha |-> handle[r].sha, parse |-> "pending"]]
    /\ Goto(r, "fin.permit")
    /\ UNCHANGED <<devices, uploads, staging, blobs, worker, locals>>

(* INSERT INTO sessions under UNIQUE (device_id, bundle_id) and the foreign
   key on devices. *)
FinInsert(r) ==
    /\ pc[r] = "fin.insert"
    /\ LET d == req[r].dev  b == snap[r].bundle IN
       \/ /\ SessionsOf(d, b) # {}
          /\ Goto(r, "fin.find_winner")
          /\ UNCHANGED <<stored, worker, locals>>
       \/ /\ SessionsOf(d, b) = {} /\ d \in devices
          /\ sessions' = [sessions EXCEPT ![sid[r]] =
                            [dev |-> d, bundle |-> b, size |-> handle[r].size,
                             sha |-> handle[r].sha, parse |-> "pending"]]
          /\ Goto(r, "fin.permit")
          /\ UNCHANGED <<devices, uploads, staging, blobs, worker, locals>>

(* Another finalize of this bundle won: answer with its session. *)
FinFindWinner(r) ==
    /\ pc[r] = "fin.find_winner"
    /\ UNCHANGED <<stored, worker>>
    /\ \/ \E s \in SessionsOf(req[r].dev, snap[r].bundle) : Report(r, s)
       \/ /\ SessionsOf(req[r].dev, snap[r].bundle) = {}
          /\ Answer(r, Err("conflict"))
          /\ UNCHANGED acked

(* The response waits for a permit; the spawned worker takes it along. *)
FinPermit(r) ==
    /\ pc[r] = "fin.permit"
    /\ permits > 0
    /\ permits' = permits - 1
    /\ parsing' = parsing \cup {sid[r]}
    /\ UNCHANGED stored
    /\ Report(r, sid[r])

-----------------------------------------------------------------------------
(* What ends a handler or a worker.                                        *)

(* Seeded fault: the worker forgets its permit. *)
ParseEnd_Leak(s) ==
    /\ s \in parsing
    /\ parsing' = parsing \ {s}
    /\ UNCHANGED <<stored, permits, pc, req, locals, reply, acked>>

(* The parse worker records its outcome and drops its permit; a failing
   update is logged and the row keeps its state. *)
ParseEnd(s) ==
    /\ s \in parsing
    /\ parsing' = parsing \ {s}
    /\ permits' = permits + 1
    /\ \E outcome \in ParseStates :
          sessions' = [sessions EXCEPT ![s].parse = outcome]
    /\ UNCHANGED <<devices, uploads, staging, blobs, pc, req, locals, reply, acked>>

(* The storage call a handler awaits fails: it answers 500 and undoes
   nothing.  Not among them: the calls whose error the handler swallows, and
   the semaphore, which is never closed. *)
StorageFailure(r) ==
    /\ pc[r] \in Running \ {"put.reread", "fin.discard", "fin.remove", "fin.permit"}
    /\ Refuse(r, "internal")

(* The client went away and the server drops the handler at an await. *)
Disconnect(r) ==
    /\ pc[r] \in Running
    /\ Answer(r, NoReply)
    /\ UNCHANGED <<stored, worker, acked>>

(* The process dies and is restarted: tables and files survive. *)
Crash ==
    /\ pc' = [r \in Handlers |-> "idle"]
    /\ req' = [r \in Handlers |-> NoReq]
    /\ up' = [r \in Handlers |-> NoId]
    /\ snap' = [r \in Handlers |-> NoRow]
    /\ sid' = [r \in Handlers |-> NoId]
    /\ handle' = [r \in Handlers |-> NoReply]
    /\ reply' = [r \in Handlers |-> NoReply]
    /\ permits' = ParseSlots
    /\ parsing' = {}
    /\ UNCHANGED <<stored, acked>>

Arrive(r) ==
    \/ \E d \in Devices, b \in Bundles, decl \in Decls : InitStart(r, d, b, decl)
    \/ \E d \in Devices, u \in Uuids, off \in 0 .. MaxSize,
          len \in 0 .. MaxChunk + 1, c \in Contents : PutStart(r, d, u, off, len, c)
    \/ \E d \in Devices, u \in Uuids, c \in Contents : FinStart(r, d, u, c)

Step(r) ==
    \/ InitFindSession(r) \/ InitFindResumable(r)
    \/ InitCreateStaging(r) \/ InitInsertUpload(r)
    \/ PutReserve(r) \/ PutReread(r) \/ PutWrite(r)
    \/ FinFindSession(r) \/ FinHash(r) \/ FinDiscard(r) \/ FinRehash(r)
    \/ FinCopy(r) \/ FinRemove(r) \/ FinMark(r) \/ FinInsert(r)
    \/ FinFindWinner(r) \/ FinPermit(r)

Next ==
    \/ \E r \in Handlers : \/ Arrive(r) \/ Step(r)
                           \/ PutWriteFails(r) \/ StorageFailure(r) \/ Disconnect(r)
    \/ \E s \in Uuids : ParseEnd(s)
    \/ Crash

Spec == Init /\ [][Next]_vars

-----------------------------------------------------------------------------
(* Properties.                                                             *)

Reserved(r) == {i \in Offsets : i >= req[r].off /\ i < req[r].off + req[r].len}

(* Two PUTs that both got past the conditional UPDATE of put_chunk never hold
   the same slot of the same upload, whatever they read before it: "two
   concurrent PUTs at the same offset can't both succeed". *)
ReservationsDisjoint ==
    \A r1, r2 \in Handlers :
        (/\ r1 # r2 /\ up[r1] = up[r2]
         /\ pc[r1] = "put.write" /\ pc[r2] = "put.write")
        => Reserved(r1) \cap Reserved(r2) = {}

KeepsBytes ==
    \A u \in Uuids : staging[u] # NoFile /\ staging'[u] # NoFile =>
        \A i \in Offsets : staging[u][i] # Hole => staging'[u][i] = staging[u][i]

(* A byte that reached a staged file is never overwritten: put_chunk only adds
   slots, and nothing recreates the file of an upload in flight. *)
BytesWriteOnce == [][KeepsBytes]_vars

(* Every sessions row points at a stored blob whose bytes hash to the row's
   sha256, have the row's size, and are exactly the bytes some finalized upload
   of the same device and bundle declared at init.  finalize reads the staging
   path three times (hash, re-hash, copy) while other handlers run. *)
SessionIntact ==
    \A s \in Uuids : sessions[s] # NoRow =>
        /\ blobs[s] = sessions[s].sha
        /\ sessions[s].size = SizeOf(blobs[s])
        /\ \E u \in Uuids : /\ uploads[u] # NoRow /\ uploads[u].finalized = 1
                            /\ uploads[u].dev = sessions[s].dev
                            /\ uploads[u].bundle = sessions[s].bundle
                            /\ blobs[s] = Image(uploads[u].decl.sha)

(* The size and hash recorded in a sessions row are those of the blob that was
   shipped: "Re-hash + size under the same FD so the reported values reflect
   the bytes we're about to ship, not a racing writer". *)
ReportedAsShipped ==
    \A s \in Uuids : sessions[s] # NoRow =>
        sessions[s].sha = blobs[s] /\ sessions[s].size = SizeOf(blobs[s])

(* An upload is marked finalized only once its declared bytes are in the blob
   store, so a crash after the mark never loses them. *)
FinalizedStored ==
    \A u \in Uuids : uploads[u] # NoRow /\ uploads[u].finalized = 1 =>
        \E s \in Uuids : blobs[s] = Image(uploads[u].decl.sha)

(* Whatever finalize reported to a client, by any of its three success paths,
   is a committed session of that device and bundle, before and after crashes,
   and no bundle was ever reported under two session ids. *)
AckedDurable ==
    \A a \in acked : SessionsOf(a.dev, a.bundle) = {a.id}

ChangedByOwner ==
    \A u \in Uuids : uploads[u] # NoRow /\ (uploads'[u] # uploads[u] \/ staging'[u] # staging[u]) =>
        \E r \in Handlers : up[r] = u /\ req[r].dev = uploads[u].dev

(* Only a request of the device that opened an upload ever changes its row or
   its staged bytes, although the upload id is all that PUT and finalize name. *)
OnlyOwner == [][ChangedByOwner]_vars

(* Permits are neither leaked nor duplicated by disconnects and crashes. *)
PermitsConserved == permits + Cardinality(parsing) = ParseSlots

(* What makes it inductive: a session whose finalize still waits for a permit
   has no worker yet. *)
PermitInv ==
    /\ IsFiniteSet(parsing)
    /\ PermitsConserved
    /\ \A r \in Handlers : pc[r] = "fin.permit" => sid[r] \notin parsing
-----------------------------------------------------------------------------
(* The inductive invariant behind SessionIntact.                           *)

(* Clients declare the length of the bytes they hash.  The agent does; the
   server cannot know, and relies on it (see SessionIntact's comment). *)
HonestDecls == \A decl \in Decls : decl.size \in {0, Length[decl.sha]}

AfterVerify == {"fin.rehash", "fin.copy", "fin.remove", "fin.mark", "fin.insert",
                "fin.find_winner", "fin.permit"}
AfterCopy == AfterVerify \ {"fin.rehash", "fin.copy"}
AfterMark == AfterCopy \ {"fin.remove", "fin.mark"}
Declared(r) == Image(snap[r].decl.sha)

(* No upload row declares zero bytes, nor does the init that will insert one. *)
DeclaredNonEmpty ==
    /\ \A u \in Uuids : uploads[u] # NoRow => uploads[u].decl.size # 0
    /\ \A r \in Handlers : pc[r] \in InitLabels => req[r].decl.size # 0

(* What a handler's locals hold at each place, and their tie to the tables. *)
InitShape(r) ==
    /\ pc[r] \in InitLabels => req[r] \in InitReq
    /\ pc[r] = "init.insert_upload" =>
          /\ up[r] \in UploadIds
          /\ uploads[up[r]] = NoRow
          /\ staging[up[r]] = EmptyFile
          /\ \A q \in Handlers : q # r => up[q] # up[r]
PutShape(r) ==
    pc[r] \in PutLabels =>
       /\ req[r] \in PutReq
       /\ up[r] \in Uuids
       /\ uploads[up[r]] # NoRow
       /\ req[r].len > 0
       /\ req[r].off + req[r].len <= uploads[up[r]].decl.size
FinShape(r) ==
    pc[r] \in FinLabels =>
       /\ req[r] \in FinReq
       /\ up[r] \in Uuids
       /\ uploads[up[r]] # NoRow
       /\ snap[r] # NoRow
       /\ snap[r].dev = uploads[up[r]].dev /\ snap[r].dev = req[r].dev
       /\ snap[r].bundle = uploads[up[r]].bundle
       /\ snap[r].decl = uploads[up[r]].decl
       /\ pc[r] \in AfterMark => uploads[up[r]].finalized = 1
Shape == \A r \in Handlers : InitShape(r) /\ PutShape(r) /\ FinShape(r)

(* A minted session id belongs to one handler until its row is committed. *)
MintedOnce ==
    /\ \A r, q \in Handlers : r # q /\ sid[r] # NoId => sid[r] # sid[q]
    /\ \A r \in Handlers : pc[r] \in AfterVerify =>
          /\ sid[r] \in SessionIds
          /\ pc[r] # "fin.permit" => sessions[sid[r]] = NoRow
          /\ pc[r] = "fin.permit" => sessions[sid[r]] # NoRow
          /\ pc[r] \notin AfterCopy => blobs[sid[r]] = NoFile

(* Nothing is staged at or past the cursor, and what a PUT reserved lies
   below the cursor and is still unwritten. *)
CursorBound ==
    \A u \in Uuids : uploads[u] # NoRow /\ staging[u] # NoFile =>
        \A i \in Offsets : i >= uploads[u].offset => staging[u][i] = Hole
ReservedUnwritten ==
    \A r \in Handlers : pc[r] = "put.write" =>
        /\ req[r].off + req[r].len <= uploads[up[r]].offset
        /\ staging[up[r]] # NoFile =>
              \A i \in Offsets : i >= req[r].off /\ i < req[r].off + req[r].len =>
                                   staging[up[r]][i] = Hole

(* From a matching hash to the copy, the staged file is the declared bytes or
   is gone; from the copy on, the blob is the declared bytes. *)
VerifiedStable ==
    \A r \in Handlers :
        /\ pc[r] \in {"fin.rehash", "fin.copy"} => staging[up[r]] \in {NoFile, Declared(r)}
        /\ pc[r] \in AfterVerify \ {"fin.rehash"} =>
              handle[r] = [size |-> SizeOf(Declared(r)), sha |-> Declared(r)]
        /\ pc[r] \in AfterCopy => blobs[sid[r]] = Declared(r)

(* A bundle has one session, and only sessions are parsed. *)
UniqueSession ==
    \A s, t \in Uuids :
        (/\ sessions[s] # NoRow /\ sessions[t] # NoRow
         /\ sessions[s].dev = sessions[t].dev
         /\ sessions[s].bundle = sessions[t].bundle) => s = t
ParsingRows == \A s \in parsing : sessions[s] # NoRow

(* The conjunction, inductive when clients declare honest lengths. *)
IndInv ==
    /\ TypeOK
    /\ DeclaredNonEmpty
    /\ Shape
    /\ MintedOnce
    /\ CursorBound
    /\ ReservedUnwritten
    /\ ReservationsDisjoint
    /\ VerifiedStable
    /\ SessionIntact
    /\ FinalizedStored
    /\ UniqueSession
    /\ ParsingRows
    /\ AckedDurable
=============================================================================
