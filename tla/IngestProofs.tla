---------------------------- MODULE IngestProofs ----------------------------
(***************************************************************************)
(* Proofs about Ingest: IndInv is inductive, hence every sessions row      *)
(* points at exactly the bytes its client declared, for any number of      *)
(* concurrent requests, devices, bundles, payloads, sizes and ids.         *)
(***************************************************************************)
EXTENDS Ingest, FiniteSetTheorems, TLAPS

-----------------------------------------------------------------------------
(* Facts about the data operators.                                         *)

(* Bundle images, fresh staging files and chunk writes are files. *)
LEMMA FileTypes ==
    /\ \A c \in Contents : Image(c) \in Files
    /\ EmptyFile \in Files
    /\ \A f \in Files, off, k \in Nat, c \in Contents : Written(f, off, k, c) \in Files
BY DEF Image, Files, EmptyFile, Written

(* The length of a staged file is between 0 and MaxSize. *)
LEMMA SizeOfType ==
    ASSUME NEW f PROVE SizeOf(f) \in 0 .. MaxSize
<1> DEFINE S == {i \in Offsets : \E j \in i .. MaxSize - 1 : f[j] # Hole}
<1>1. IsFiniteSet(0 .. MaxSize - 1) /\ Cardinality(0 .. MaxSize - 1) = MaxSize
    BY FS_Interval, SizeAssumption
<1>2. S \subseteq 0 .. MaxSize - 1
    BY DEF Offsets
<1>3. IsFiniteSet(S) /\ Cardinality(S) <= MaxSize
    BY <1>1, <1>2, FS_Subset
<1>4. Cardinality(S) \in Nat
    BY <1>3, FS_CardinalityType
<1>5. QED
    BY <1>3, <1>4, SizeAssumption DEF SizeOf

-----------------------------------------------------------------------------
(* A handler that ends without touching the stores preserves IndInv: its
   locals are gone and every conjunct only speaks of running handlers. *)
LEMMA LeaveStep ==
    ASSUME IndInv, NEW r \in Handlers, NEW rep \in Replies \cup {NoReply},
           Answer(r, rep), UNCHANGED <<uploads, sessions, staging, blobs>>,
           devices' \subseteq Devices, permits' \in Nat,
           parsing' \subseteq Uuids, ParsingRows',
           acked' \subseteq [dev : Devices, bundle : Bundles, id : Uuids],
           AckedDurable'
    PROVE  IndInv'
<1> USE DEF IndInv, Answer, Leave
<1>1. TypeOK'
    BY DEF TypeOK
<1>2. \A q \in Handlers : q # r => /\ pc'[q] = pc[q] /\ req'[q] = req[q] /\ up'[q] = up[q]
                                   /\ snap'[q] = snap[q] /\ sid'[q] = sid[q]
                                   /\ handle'[q] = handle[q]
    BY DEF TypeOK
<1>3. /\ pc'[r] = "idle" /\ up'[r] = NoId /\ sid'[r] = NoId
    BY DEF TypeOK
<1>4. DeclaredNonEmpty'
    BY <1>2, <1>3 DEF DeclaredNonEmpty, InitLabels
<1>5. Shape'
  <2> SUFFICES ASSUME NEW q \in Handlers PROVE (InitShape(q) /\ PutShape(q) /\ FinShape(q))'
      BY DEF Shape
  <2>1. CASE q = r
      BY <1>3, <2>1 DEF InitShape, PutShape, FinShape, InitLabels, PutLabels, FinLabels
  <2>2. CASE q # r
    <3>1. InitShape(q)'
        BY <1>2, <1>3, <2>2, NoneAssumption DEF Shape, InitShape, Uuids
    <3>2. PutShape(q)' /\ FinShape(q)'
        BY <1>2, <2>2 DEF Shape, PutShape, FinShape
    <3> QED BY <3>1, <3>2
  <2> QED BY <2>1, <2>2
<1>6. MintedOnce'
    BY <1>2, <1>3 DEF MintedOnce, AfterVerify, AfterCopy
<1>7. CursorBound'
    BY DEF CursorBound
<1>8. ReservedUnwritten'
    BY <1>2, <1>3 DEF ReservedUnwritten
<1>9. ReservationsDisjoint'
    BY <1>2, <1>3 DEF ReservationsDisjoint, Reserved
<1>10. VerifiedStable'
    BY <1>2, <1>3 DEF VerifiedStable, AfterVerify, AfterCopy, Declared
<1>11. SessionIntact' /\ FinalizedStored' /\ UniqueSession'
    BY DEF SessionIntact, FinalizedStored, UniqueSession
<1> QED
    BY <1>1, <1>4, <1>5, <1>6, <1>7, <1>8, <1>9, <1>10, <1>11

(* A handler that only moves on and changes its own locals preserves IndInv
   when what IndInv says of that handler holds at the new place. *)
LEMMA LocalStep ==
    ASSUME IndInv, NEW r \in Handlers, NEW l \in Running,
           l \notin {"init.insert_upload", "put.write", "fin.permit"},
           pc' = [pc EXCEPT ![r] = l],
           \A q \in Handlers : q # r => /\ req'[q] = req[q] /\ up'[q] = up[q]
                                        /\ snap'[q] = snap[q] /\ sid'[q] = sid[q]
                                        /\ handle'[q] = handle[q],
           UNCHANGED <<uploads, sessions, staging, blobs, parsing, acked>>,
           TypeOK',
           l \in InitLabels => req'[r].decl.size # 0,
           InitShape(r)', PutShape(r)', FinShape(r)',
           up'[r] = up[r] \/ uploads[up'[r]] # NoRow,
           sid'[r] = sid[r] \/ sid'[r] \in FreshSession,
           l \in AfterVerify => /\ sid'[r] \in SessionIds
                                /\ sessions[sid'[r]] = NoRow
                                /\ l \notin AfterCopy => blobs[sid'[r]] = NoFile,
           l \in {"fin.rehash", "fin.copy"} => staging[up'[r]] \in {NoFile, Declared(r)'},
           l \in AfterVerify \ {"fin.rehash"} =>
              handle'[r] = [size |-> SizeOf(Declared(r)'), sha |-> Declared(r)'],
           l \in AfterCopy => blobs[sid'[r]] = Declared(r)'
    PROVE  IndInv'
<1> USE DEF IndInv
<1>1. \A q \in Handlers : q # r => pc'[q] = pc[q]
    BY DEF TypeOK
<1>2. pc'[r] = l
    BY DEF TypeOK
<1>3. DeclaredNonEmpty'
    BY <1>1, <1>2 DEF DeclaredNonEmpty
<1>4. Shape'
  <2> SUFFICES ASSUME NEW q \in Handlers, q # r
               PROVE  (InitShape(q) /\ PutShape(q) /\ FinShape(q))'
      BY DEF Shape
  <2>1. InitShape(q)'
      BY <1>1 DEF Shape, InitShape
  <2>2. PutShape(q)' /\ FinShape(q)'
      BY <1>1 DEF Shape, PutShape, FinShape
  <2> QED BY <2>1, <2>2
<1>5. MintedOnce'
  <2>1. \A q, t \in Handlers : q # t /\ sid'[q] # NoId => sid'[q] # sid'[t]
      BY DEF MintedOnce, FreshSession
  <2>2. \A q \in Handlers : pc'[q] \in AfterVerify =>
          /\ sid'[q] \in SessionIds
          /\ pc'[q] # "fin.permit" => sessions'[sid'[q]] = NoRow
          /\ pc'[q] = "fin.permit" => sessions'[sid'[q]] # NoRow
          /\ pc'[q] \notin AfterCopy => blobs'[sid'[q]] = NoFile
      BY <1>1, <1>2 DEF MintedOnce
  <2> QED BY <2>1, <2>2 DEF MintedOnce
<1>6. CursorBound'
    BY DEF CursorBound
<1>7. ReservedUnwritten'
    BY <1>1, <1>2 DEF ReservedUnwritten
<1>8. ReservationsDisjoint'
    BY <1>1, <1>2 DEF ReservationsDisjoint, Reserved
<1>9. VerifiedStable'
    BY <1>1, <1>2 DEF VerifiedStable, Declared
<1>10. SessionIntact' /\ FinalizedStored' /\ UniqueSession' /\ ParsingRows' /\ AckedDurable'
    BY DEF SessionIntact, FinalizedStored, UniqueSession, ParsingRows, AckedDurable, SessionsOf
<1> QED
    BY <1>3, <1>4, <1>5, <1>6, <1>7, <1>8, <1>9, <1>10

-----------------------------------------------------------------------------
(* POST /v1/ingest/bundles                                                 *)

(* A refused request changes nothing. *)
LEMMA RefuseStep ==
    ASSUME IndInv, NEW r \in Handlers, NEW rep \in Replies \cup {NoReply},
           Answer(r, rep), UNCHANGED <<stored, worker, acked>>
    PROVE  IndInv'
<1>1. /\ UNCHANGED <<uploads, sessions, staging, blobs>>
      /\ devices' \subseteq Devices /\ permits' \in Nat /\ parsing' \subseteq Uuids
      /\ acked' \subseteq [dev : Devices, bundle : Bundles, id : Uuids]
    BY DEF IndInv, TypeOK, stored, worker
<1>2. ParsingRows' /\ AckedDurable'
    BY DEF IndInv, ParsingRows, AckedDurable, SessionsOf, stored, worker
<1> QED
    BY <1>1, <1>2, LeaveStep

(* Every error response is a response. *)
LEMMA ErrType == \A kind \in ErrorKinds : Err(kind) \in Replies \cup {NoReply}
BY SizeAssumption DEF Err, Rep, Replies, ReplyKinds

(* init's validation and upsert_device touch only the devices table. *)
LEMMA InitStartInv ==
    ASSUME IndInv, NEW r \in Handlers, NEW d \in Devices, NEW b \in Bundles,
           NEW decl \in Decls, InitStart(r, d, b, decl)
    PROVE  IndInv'
<1>1. CASE decl.size = 0
    BY <1>1, RefuseStep, ErrType DEF InitStart, ErrorKinds
<1>2. CASE decl.size # 0
  <2>0. /\ req' = [req EXCEPT ![r] = [op |-> "init", dev |-> d, bundle |-> b, decl |-> decl]]
        /\ pc' = [pc EXCEPT ![r] = "init.find_session"]
        /\ reply' = [reply EXCEPT ![r] = NoReply]
        /\ devices' = devices \cup {d}
        /\ UNCHANGED <<uploads, sessions, staging, blobs, permits, parsing, up, snap, sid,
                       handle, acked>>
      BY <1>2 DEF InitStart, Begin, locals, worker
  <2>1. TypeOK'
      BY <2>0 DEF IndInv, TypeOK, Requests, InitReq, Running, InitLabels
  <2>2. /\ req'[r] = [op |-> "init", dev |-> d, bundle |-> b, decl |-> decl]
        /\ pc'[r] = "init.find_session"
        /\ \A q \in Handlers : q # r => req'[q] = req[q]
      BY <2>0 DEF IndInv, TypeOK
  <2>3. InitShape(r)' /\ PutShape(r)' /\ FinShape(r)'
      BY <2>2 DEF InitShape, PutShape, FinShape, InitLabels, PutLabels, FinLabels, InitReq
  <2>4. req'[r].decl.size # 0
      BY <1>2, <2>2
  <2> QED
      BY <2>0, <2>1, <2>2, <2>3, <2>4, LocalStep DEF AfterVerify, AfterCopy, Running, InitLabels
<1> QED BY <1>1, <1>2

(* The already-finalized short-circuit of init only answers. *)
LEMMA InitFindSessionInv ==
    ASSUME IndInv, NEW r \in Handlers, InitFindSession(r)
    PROVE  IndInv'
<1>1. ASSUME NEW s \in SessionsOf(req[r].dev, req[r].bundle),
             Answer(r, Rep("upload", s, sessions[s].size)), UNCHANGED <<stored, worker, acked>>
      PROVE  IndInv'
  <2>1. Rep("upload", s, sessions[s].size) \in Replies
      BY <1>1 DEF IndInv, TypeOK, SessionsOf, SessionRow, Rep, Replies, ReplyKinds
  <2> QED BY <1>1, <2>1, RefuseStep
<1>2. CASE Goto(r, "init.find_resumable") /\ UNCHANGED <<stored, worker, locals>>
  <2> USE <1>2 DEF Goto, locals, worker, stored
  <2>1. TypeOK'
      BY DEF IndInv, TypeOK, Running, InitLabels
  <2>2. pc[r] \in InitLabels
      BY DEF InitFindSession, InitLabels
  <2>3. InitShape(r)' /\ PutShape(r)' /\ FinShape(r)'
      BY <2>2 DEF IndInv, TypeOK, Shape, InitShape, PutShape, FinShape, InitLabels, PutLabels, FinLabels
  <2>4. req[r].decl.size # 0
      BY <2>2 DEF IndInv, DeclaredNonEmpty
  <2> QED
      BY <2>1, <2>3, <2>4, LocalStep DEF AfterVerify, AfterCopy, Running, InitLabels
<1> QED BY <1>1, <1>2 DEF InitFindSession

(* Resuming or refusing an open upload only answers. *)
LEMMA InitFindResumableInv ==
    ASSUME IndInv, NEW r \in Handlers, InitFindResumable(r)
    PROVE  IndInv'
<1>1. ASSUME NEW u \in Resumable(req[r].dev, req[r].bundle),
             IF uploads[u].decl = req[r].decl
               THEN Answer(r, Rep("upload", u, uploads[u].offset))
               ELSE Answer(r, Err("conflict")),
             UNCHANGED <<stored, worker, acked>>
      PROVE  IndInv'
  <2>1. Rep("upload", u, uploads[u].offset) \in Replies
      BY <1>1 DEF IndInv, TypeOK, Resumable, OpenUploads, UploadRow, Rep, Replies, ReplyKinds
  <2>2. Err("conflict") \in Replies \cup {NoReply}
      BY ErrType DEF ErrorKinds
  <2>3. CASE uploads[u].decl = req[r].decl
      BY <1>1, <2>1, <2>3, RefuseStep
  <2>4. CASE uploads[u].decl # req[r].decl
      BY <1>1, <2>2, <2>4, RefuseStep
  <2> QED BY <2>3, <2>4
<1>2. CASE Goto(r, "init.create_staging") /\ UNCHANGED <<stored, worker, locals>>
  <2> USE <1>2 DEF Goto, locals, worker, stored
  <2>1. TypeOK'
      BY DEF IndInv, TypeOK, Running, InitLabels
  <2>2. pc[r] \in InitLabels
      BY DEF InitFindResumable, InitLabels
  <2>3. InitShape(r)' /\ PutShape(r)' /\ FinShape(r)'
      BY <2>2 DEF IndInv, TypeOK, Shape, InitShape, PutShape, FinShape, InitLabels, PutLabels, FinLabels
  <2>4. req[r].decl.size # 0
      BY <2>2 DEF IndInv, DeclaredNonEmpty
  <2> QED
      BY <2>1, <2>3, <2>4, LocalStep DEF AfterVerify, AfterCopy, Running, InitLabels
<1> QED BY <1>1, <1>2 DEF InitFindResumable

(* The fresh id is nobody's, so truncating its staging file hurts no upload. *)
LEMMA InitCreateStagingInv ==
    ASSUME IndInv, NEW r \in Handlers, InitCreateStaging(r)
    PROVE  IndInv'
<1> PICK u \in FreshUpload : /\ staging' = [staging EXCEPT ![u] = EmptyFile]
                             /\ up' = [up EXCEPT ![r] = u]
    BY DEF InitCreateStaging
<1>1. /\ pc[r] = "init.create_staging"
      /\ pc' = [pc EXCEPT ![r] = "init.insert_upload"]
      /\ UNCHANGED <<devices, uploads, sessions, blobs, permits, parsing, req, reply, acked,
                     snap, sid, handle>>
    BY DEF InitCreateStaging, Goto, worker
<1>2. /\ u \in Uuids /\ u \in UploadIds /\ uploads[u] = NoRow /\ staging[u] = NoFile
      /\ \A q \in Handlers : up[q] # u
    BY DEF FreshUpload, Uuids
<1>3. TypeOK'
    BY <1>1, <1>2, FileTypes DEF IndInv, TypeOK, Running, InitLabels
<1>4. /\ pc'[r] = "init.insert_upload" /\ up'[r] = u /\ staging'[u] = EmptyFile
      /\ \A q \in Handlers : q # r => pc'[q] = pc[q] /\ up'[q] = up[q]
      /\ \A v \in Uuids : v # u => staging'[v] = staging[v]
    BY <1>1, <1>2 DEF IndInv, TypeOK
<1>5. DeclaredNonEmpty'
    BY <1>1, <1>4 DEF IndInv, DeclaredNonEmpty, InitLabels
<1>6. Shape'
  <2> SUFFICES ASSUME NEW q \in Handlers PROVE (InitShape(q) /\ PutShape(q) /\ FinShape(q))'
      BY DEF Shape
  <2>1. CASE q = r
    <3>1. req[r] \in InitReq
        BY <1>1 DEF IndInv, Shape, InitShape, InitLabels
    <3> QED
        BY <1>1, <1>2, <1>4, <2>1, <3>1
        DEF InitShape, PutShape, FinShape, InitLabels, PutLabels, FinLabels
  <2>2. CASE q # r
    <3>1. InitShape(q)'
        BY <1>1, <1>2, <1>4, <2>2 DEF IndInv, Shape, InitShape, Uuids
    <3>2. PutShape(q)' /\ FinShape(q)'
        BY <1>1, <1>4, <2>2 DEF IndInv, Shape, PutShape, FinShape
    <3> QED BY <3>1, <3>2
  <2> QED BY <2>1, <2>2
<1>7. MintedOnce'
    BY <1>1, <1>4 DEF IndInv, MintedOnce, AfterVerify, AfterCopy
<1>8. CursorBound'
    BY <1>1, <1>2, <1>4 DEF IndInv, CursorBound
<1>9. ReservedUnwritten'
    BY <1>1, <1>2, <1>4 DEF IndInv, ReservedUnwritten, Shape, PutShape, PutLabels
<1>10. ReservationsDisjoint'
    BY <1>1, <1>4 DEF IndInv, ReservationsDisjoint, Reserved
<1>11. VerifiedStable'
    BY <1>1, <1>2, <1>4
    DEF IndInv, VerifiedStable, Declared, Shape, FinShape, AfterVerify, AfterCopy, FinLabels
<1>12. SessionIntact' /\ FinalizedStored' /\ UniqueSession' /\ ParsingRows' /\ AckedDurable'
    BY <1>1 DEF IndInv, SessionIntact, FinalizedStored, UniqueSession, ParsingRows,
                AckedDurable, SessionsOf
<1> QED
    BY <1>3, <1>5, <1>6, <1>7, <1>8, <1>9, <1>10, <1>11, <1>12 DEF IndInv

(* The inserted row is new, its cursor is 0 and its staging file is empty. *)
LEMMA InitInsertUploadInv ==
    ASSUME IndInv, NEW r \in Handlers, InitInsertUpload(r)
    PROVE  IndInv'
<1> DEFINE u == up[r]
<1> PICK now \in Times :
       uploads' = [uploads EXCEPT ![u] = [dev |-> req[r].dev, bundle |-> req[r].bundle,
                                          decl |-> req[r].decl, offset |-> 0,
                                          created |-> now, finalized |-> 0]]
    BY DEF InitInsertUpload
<1>1. /\ pc[r] = "init.insert_upload"
      /\ Answer(r, Rep("upload", u, 0))
      /\ UNCHANGED <<devices, sessions, staging, blobs, permits, parsing, acked>>
    BY DEF InitInsertUpload, worker
<1>2. /\ u \in Uuids /\ uploads[u] = NoRow /\ staging[u] = EmptyFile /\ req[r] \in InitReq
      /\ req[r].decl.size # 0
      /\ \A q \in Handlers : q # r => up[q] # u
    BY <1>1 DEF IndInv, Shape, InitShape, InitLabels, Uuids, DeclaredNonEmpty
<1>3. /\ uploads'[u] = [dev |-> req[r].dev, bundle |-> req[r].bundle, decl |-> req[r].decl,
                        offset |-> 0, created |-> now, finalized |-> 0]
      /\ uploads'[u] \in UploadRow
      /\ \A v \in Uuids : v # u => uploads'[v] = uploads[v]
    BY <1>2, SizeAssumption DEF IndInv, TypeOK, UploadRow, InitReq
<1>4. uploads'[u] # NoRow
    BY <1>3, NoneAssumption
<1>5. /\ pc'[r] = "idle" /\ up'[r] = NoId /\ sid'[r] = NoId
      /\ \A q \in Handlers : q # r => /\ pc'[q] = pc[q] /\ req'[q] = req[q] /\ up'[q] = up[q]
                                      /\ snap'[q] = snap[q] /\ sid'[q] = sid[q]
                                      /\ handle'[q] = handle[q]
    BY <1>1 DEF IndInv, TypeOK, Answer, Leave
<1>6. TypeOK'
  <2>1. Rep("upload", u, 0) \in Replies
      BY <1>2, SizeAssumption DEF Rep, Replies, ReplyKinds
  <2>2. uploads' \in [Uuids -> UploadRow \cup {NoRow}]
      BY <1>2, <1>3 DEF IndInv, TypeOK
  <2> QED BY <1>1, <2>1, <2>2 DEF IndInv, TypeOK, Answer, Leave
<1>7. DeclaredNonEmpty'
    BY <1>2, <1>3, <1>5 DEF IndInv, DeclaredNonEmpty, InitLabels
<1>8. Shape'
  <2> SUFFICES ASSUME NEW q \in Handlers PROVE (InitShape(q) /\ PutShape(q) /\ FinShape(q))'
      BY DEF Shape
  <2>1. CASE q = r
      BY <1>5, <2>1 DEF InitShape, PutShape, FinShape, InitLabels, PutLabels, FinLabels
  <2>2. CASE q # r
    <3>1. InitShape(q)'
        BY <1>1, <1>2, <1>3, <1>5, <2>2, NoneAssumption DEF IndInv, Shape, InitShape, Uuids
    <3>2. PutShape(q)' /\ FinShape(q)'
        BY <1>2, <1>3, <1>5, <2>2 DEF IndInv, Shape, PutShape, FinShape
    <3> QED BY <3>1, <3>2
  <2> QED BY <2>1, <2>2
<1>9. MintedOnce'
    BY <1>1, <1>5 DEF IndInv, MintedOnce, AfterVerify, AfterCopy
<1>10. CursorBound'
    BY <1>1, <1>2, <1>3 DEF IndInv, CursorBound, EmptyFile
<1>11. ReservedUnwritten'
    BY <1>1, <1>2, <1>3, <1>5 DEF IndInv, ReservedUnwritten, Shape, PutShape, PutLabels
<1>12. ReservationsDisjoint'
    BY <1>5 DEF IndInv, ReservationsDisjoint, Reserved
<1>13. VerifiedStable'
    BY <1>1, <1>5 DEF IndInv, VerifiedStable, Declared, AfterVerify, AfterCopy
<1>14. SessionIntact' /\ FinalizedStored'
    BY <1>1, <1>2, <1>3 DEF IndInv, SessionIntact, FinalizedStored
<1>15. UniqueSession' /\ ParsingRows' /\ AckedDurable'
    BY <1>1 DEF IndInv, UniqueSession, ParsingRows, AckedDurable, SessionsOf
<1> QED
    BY <1>6, <1>7, <1>8, <1>9, <1>10, <1>11, <1>12, <1>13, <1>14, <1>15 DEF IndInv

-----------------------------------------------------------------------------
(* PUT /v1/ingest/bundles/{upload_id}/chunks                               *)

(* put_chunk's checks put only a chunk inside the declared size on its way. *)
LEMMA PutStartInv ==
    ASSUME IndInv, NEW r \in Handlers, NEW d \in Devices, NEW u \in Uuids,
           NEW off \in 0 .. MaxSize, NEW len \in 0 .. MaxChunk + 1, NEW c \in Contents,
           PutStart(r, d, u, off, len, c)
    PROVE  IndInv'
<1>1. CASE \E kind \in ErrorKinds : Refuse(r, kind)
    BY <1>1, RefuseStep, ErrType DEF Refuse
<1>2. ASSUME uploads[u] # NoRow, len > 0, off + len <= uploads[u].decl.size,
             req' = [req EXCEPT ![r] = [op |-> "put", dev |-> d, off |-> off,
                                        len |-> len, body |-> c]],
             up' = [up EXCEPT ![r] = u],
             Begin(r, "put.reserve"), UNCHANGED <<stored, worker, snap, sid, handle>>
      PROVE  IndInv'
  <2>0. /\ pc' = [pc EXCEPT ![r] = "put.reserve"]
        /\ reply' = [reply EXCEPT ![r] = NoReply]
        /\ UNCHANGED <<devices, uploads, sessions, staging, blobs, permits, parsing, snap, sid,
                       handle, acked>>
      BY <1>2 DEF Begin, stored, worker
  <2>1. TypeOK'
      BY <1>2, <2>0 DEF IndInv, TypeOK, Requests, PutReq, Running, PutLabels
  <2>2. /\ req'[r] = [op |-> "put", dev |-> d, off |-> off, len |-> len, body |-> c]
        /\ pc'[r] = "put.reserve" /\ up'[r] = u
        /\ \A q \in Handlers : q # r => req'[q] = req[q] /\ up'[q] = up[q]
      BY <1>2, <2>0 DEF IndInv, TypeOK
  <2>3. InitShape(r)' /\ PutShape(r)' /\ FinShape(r)'
      BY <1>2, <2>0, <2>2
      DEF InitShape, PutShape, FinShape, InitLabels, PutLabels, FinLabels, PutReq
  <2> QED
      BY <1>2, <2>0, <2>1, <2>2, <2>3, LocalStep
      DEF AfterVerify, AfterCopy, Running, PutLabels, InitLabels
<1> QED
    BY <1>1, <1>2 DEF PutStart, ErrorKinds

(* The reservation starts at the cursor: below it are the other reservations,
   from it on nothing is written. *)
LEMMA PutReserveInv ==
    ASSUME IndInv, NEW r \in Handlers, PutReserve(r)
    PROVE  IndInv'
<1> DEFINE u == up[r]
<1>0. /\ pc[r] = "put.reserve" /\ u \in Uuids /\ uploads[u] # NoRow /\ uploads[u] \in UploadRow
      /\ req[r] \in PutReq /\ req[r].len > 0
      /\ req[r].off + req[r].len <= uploads[u].decl.size
    BY DEF PutReserve, IndInv, TypeOK, Shape, PutShape, PutLabels
<1>1. CASE Goto(r, "put.reread") /\ UNCHANGED <<stored, worker, locals>>
  <2> USE <1>1 DEF Goto, locals, worker, stored
  <2>1. TypeOK'
      BY DEF IndInv, TypeOK, Running, PutLabels
  <2>2. InitShape(r)' /\ PutShape(r)' /\ FinShape(r)'
      BY <1>0 DEF IndInv, TypeOK, Shape, InitShape, PutShape, FinShape, InitLabels, PutLabels,
                  FinLabels
  <2> QED
      BY <2>1, <2>2, LocalStep DEF AfterVerify, AfterCopy, Running, PutLabels, InitLabels
<1>2. ASSUME uploads[u].offset = req[r].off,
             uploads' = [uploads EXCEPT ![u].offset = req[r].off + req[r].len],
             Goto(r, "put.write"),
             UNCHANGED <<devices, sessions, staging, blobs, worker, locals>>
      PROVE  IndInv'
  <2>1. /\ pc' = [pc EXCEPT ![r] = "put.write"]
        /\ UNCHANGED <<devices, sessions, staging, blobs, permits, parsing, req, reply, acked,
                       up, snap, sid, handle>>
      BY <1>2 DEF Goto, worker, locals
  <2>2. uploads[u].decl.size \in 0 .. MaxSize
      BY <1>0, DeclAssumption DEF UploadRow
  <2>3. \A v \in Uuids : v # u => uploads'[v] = uploads[v]
      BY <1>0, <1>2 DEF IndInv, TypeOK
  <2>a. uploads'[u] = [uploads[u] EXCEPT !.offset = req[r].off + req[r].len]
      BY <1>0, <1>2 DEF IndInv, TypeOK
  <2>4. /\ uploads'[u] \in UploadRow
        /\ uploads'[u].offset = req[r].off + req[r].len
        /\ uploads'[u].dev = uploads[u].dev /\ uploads'[u].bundle = uploads[u].bundle
        /\ uploads'[u].decl = uploads[u].decl /\ uploads'[u].finalized = uploads[u].finalized
      BY <1>0, <2>2, <2>a, SizeAssumption DEF UploadRow, PutReq
  <2>5. uploads'[u] # NoRow
      BY <2>4, NoneAssumption
  <2>6. /\ pc'[r] = "put.write"
        /\ \A q \in Handlers : q # r => pc'[q] = pc[q]
      BY <2>1 DEF IndInv, TypeOK
  <2>7. TypeOK'
      BY <1>0, <1>2, <2>1, <2>4 DEF IndInv, TypeOK, Running, PutLabels
  <2>8. DeclaredNonEmpty'
      BY <1>0, <2>1, <2>3, <2>4, <2>6 DEF IndInv, DeclaredNonEmpty, InitLabels
  <2>9. Shape'
    <3> SUFFICES ASSUME NEW q \in Handlers PROVE (InitShape(q) /\ PutShape(q) /\ FinShape(q))'
        BY DEF Shape
    <3>1. InitShape(q)'
        BY <1>0, <2>1, <2>3, <2>6 DEF IndInv, Shape, InitShape, InitLabels, Uuids
    <3>2. PutShape(q)'
        BY <1>0, <2>1, <2>3, <2>4, <2>5, <2>6 DEF IndInv, Shape, PutShape, PutLabels
    <3>3. FinShape(q)'
        BY <1>0, <2>1, <2>3, <2>4, <2>5, <2>6 DEF IndInv, Shape, FinShape, FinLabels
    <3> QED BY <3>1, <3>2, <3>3
  <2>10. MintedOnce'
      BY <2>1, <2>6 DEF IndInv, MintedOnce, AfterVerify, AfterCopy
  <2>11. CursorBound'
    <3>1. \A i \in Offsets : i >= req[r].off + req[r].len => i >= req[r].off
        BY <1>0, SizeAssumption DEF PutReq, Offsets
    <3> QED
        BY <1>0, <1>2, <2>1, <2>3, <2>4, <3>1 DEF IndInv, CursorBound
  <2>12. ReservedUnwritten'
    <3> SUFFICES ASSUME NEW q \in Handlers, pc'[q] = "put.write"
                 PROVE  /\ req[q].off + req[q].len <= uploads'[up[q]].offset
                        /\ staging[up[q]] # NoFile =>
                             \A i \in Offsets : i >= req[q].off /\ i < req[q].off + req[q].len =>
                                                  staging[up[q]][i] = Hole
        BY <2>1 DEF ReservedUnwritten
    <3>1. CASE q = r
        BY <1>0, <1>2, <2>4, <3>1 DEF IndInv, CursorBound, PutReq
    <3>2. CASE q # r
      <4>1. pc[q] = "put.write" /\ req[q] \in PutReq /\ up[q] \in Uuids
          BY <2>6, <3>2 DEF IndInv, Shape, PutShape, PutLabels
      <4>2. /\ req[q].off + req[q].len <= uploads[up[q]].offset
            /\ staging[up[q]] # NoFile =>
                 \A i \in Offsets : i >= req[q].off /\ i < req[q].off + req[q].len =>
                                      staging[up[q]][i] = Hole
          BY <4>1 DEF IndInv, ReservedUnwritten
      <4> QED
          BY <1>0, <1>2, <2>3, <2>4, <4>1, <4>2, SizeAssumption DEF PutReq
    <3> QED BY <3>1, <3>2
  <2>13. ReservationsDisjoint'
    <3> SUFFICES ASSUME NEW p \in Handlers, NEW q \in Handlers, p # q, up[p] = up[q],
                        pc'[p] = "put.write", pc'[q] = "put.write"
                 PROVE  Reserved(p) \cap Reserved(q) = {}
        BY <2>1 DEF ReservationsDisjoint, Reserved
    <3>1. ASSUME NEW t \in Handlers, t # r, pc[t] = "put.write", up[t] = u
          PROVE  Reserved(r) \cap Reserved(t) = {}
      <4>1. req[t].off + req[t].len <= req[r].off /\ req[t] \in PutReq
          BY <1>2, <3>1 DEF IndInv, ReservedUnwritten, Shape, PutShape, PutLabels
      <4> QED
          BY <1>0, <4>1, SizeAssumption DEF Reserved, PutReq, Offsets
    <3> QED
        BY <2>6, <3>1 DEF IndInv, ReservationsDisjoint
  <2>14. VerifiedStable'
      BY <2>1, <2>6 DEF IndInv, VerifiedStable, Declared, AfterVerify, AfterCopy
  <2>15. SessionIntact' /\ FinalizedStored'
      BY <1>0, <2>1, <2>3, <2>4, <2>5 DEF IndInv, SessionIntact, FinalizedStored
  <2>16. UniqueSession' /\ ParsingRows' /\ AckedDurable'
      BY <2>1 DEF IndInv, UniqueSession, ParsingRows, AckedDurable, SessionsOf
  <2> QED
      BY <2>7, <2>8, <2>9, <2>10, <2>11, <2>12, <2>13, <2>14, <2>15, <2>16 DEF IndInv
<1> QED
    BY <1>1, <1>2 DEF PutReserve

(* The re-read after a lost reservation only answers. *)
LEMMA PutRereadInv ==
    ASSUME IndInv, NEW r \in Handlers, PutReread(r)
    PROVE  IndInv'
<1>1. up[r] \in Uuids /\ uploads[up[r]] \in UploadRow
    BY DEF PutReread, IndInv, TypeOK, Shape, PutShape, PutLabels
<1>2. Rep("offset_mismatch", NoId, uploads[up[r]].offset) \in Replies
    BY <1>1 DEF UploadRow, Rep, Replies, ReplyKinds, ErrorKinds
<1> QED
    BY <1>2, RefuseStep DEF PutReread

(* A write of any prefix of a reserved chunk lands on unwritten slots below the
   cursor.  It cannot disturb a verified file: all slots of one are written. *)
LEMMA ChunkWriteInv ==
    ASSUME HonestDecls, IndInv, NEW r \in Handlers, pc[r] = "put.write",
           staging[up[r]] # NoFile, NEW k \in 0 .. req[r].len,
           staging' = [staging EXCEPT ![up[r]] = Written(@, req[r].off, k, req[r].body)],
           NEW rep \in Replies, Answer(r, rep),
           UNCHANGED <<devices, uploads, sessions, blobs, worker, acked>>
    PROVE  IndInv'
<1> DEFINE u == up[r]  f == staging[u]  q0 == req[r]
<1>1. /\ u \in Uuids /\ uploads[u] # NoRow /\ uploads[u] \in UploadRow /\ f \in Files
      /\ q0 \in PutReq /\ q0.len > 0 /\ q0.off + q0.len <= uploads[u].decl.size
      /\ q0.off + q0.len <= uploads[u].offset
    BY DEF IndInv, TypeOK, Shape, PutShape, PutLabels, ReservedUnwritten
<1>2. \A i \in Offsets : i >= q0.off /\ i < q0.off + q0.len => f[i] = Hole
    BY DEF IndInv, ReservedUnwritten
<1>3. /\ staging'[u] = Written(f, q0.off, k, q0.body)
      /\ \A v \in Uuids : v # u => staging'[v] = staging[v]
    BY <1>1 DEF IndInv, TypeOK
<1>4. k \in Nat /\ k <= q0.len /\ q0.off \in Nat /\ q0.len \in Nat /\ q0.body \in Contents
    BY <1>1, SizeAssumption DEF PutReq
<1>5. staging'[u] \in Files
    BY <1>1, <1>3, <1>4, FileTypes
<1>6. \A i \in Offsets : i < q0.off \/ i >= q0.off + q0.len => staging'[u][i] = f[i]
    BY <1>3, <1>4, SizeAssumption DEF Written, Offsets
<1>7. /\ pc'[r] = "idle" /\ up'[r] = NoId /\ sid'[r] = NoId
      /\ \A q \in Handlers : q # r => /\ pc'[q] = pc[q] /\ req'[q] = req[q] /\ up'[q] = up[q]
                                      /\ snap'[q] = snap[q] /\ sid'[q] = sid[q]
                                      /\ handle'[q] = handle[q]
    BY DEF IndInv, TypeOK, Answer, Leave
<1>8. TypeOK'
    BY <1>1, <1>5 DEF IndInv, TypeOK, Answer, Leave, worker
<1>9. DeclaredNonEmpty'
    BY <1>7 DEF IndInv, DeclaredNonEmpty, InitLabels
<1>10. Shape'
  <2> SUFFICES ASSUME NEW q \in Handlers PROVE (InitShape(q) /\ PutShape(q) /\ FinShape(q))'
      BY DEF Shape
  <2>1. CASE q = r
      BY <1>7, <2>1 DEF InitShape, PutShape, FinShape, InitLabels, PutLabels, FinLabels
  <2>2. CASE q # r
    <3>1. InitShape(q)'
        BY <1>1, <1>3, <1>7, <2>2, NoneAssumption DEF IndInv, Shape, InitShape, Uuids
    <3>2. PutShape(q)' /\ FinShape(q)'
        BY <1>7, <2>2 DEF IndInv, Shape, PutShape, FinShape
    <3> QED BY <3>1, <3>2
  <2> QED BY <2>1, <2>2
<1>11. MintedOnce'
    BY <1>7 DEF IndInv, MintedOnce, AfterVerify, AfterCopy
<1>12. CursorBound'
  <2>1. \A i \in Offsets : i >= uploads[u].offset => staging'[u][i] = Hole
    <3>1. \A i \in Offsets : i >= uploads[u].offset => i >= q0.off + q0.len
        BY <1>1, <1>4 DEF Offsets, UploadRow
    <3> QED BY <1>1, <1>6, <3>1 DEF IndInv, CursorBound
  <2> QED BY <1>3, <2>1 DEF IndInv, CursorBound
<1>13. ReservedUnwritten'
  <2> SUFFICES ASSUME NEW q \in Handlers, q # r, pc[q] = "put.write", up[q] = u
               PROVE  \A i \in Offsets : i >= req[q].off /\ i < req[q].off + req[q].len =>
                                           staging'[u][i] = Hole
      BY <1>3, <1>7 DEF IndInv, ReservedUnwritten, Shape, PutShape, PutLabels
  <2>1. Reserved(q) \cap Reserved(r) = {}
      BY DEF IndInv, ReservationsDisjoint
  <2>2. \A i \in Offsets : i >= req[q].off /\ i < req[q].off + req[q].len => f[i] = Hole
      BY DEF IndInv, ReservedUnwritten
  <2>3. \A i \in Offsets : i >= req[q].off /\ i < req[q].off + req[q].len =>
                             ~(i >= q0.off /\ i < q0.off + q0.len)
      BY <2>1 DEF Reserved
  <2> QED BY <1>4, <1>6, <2>2, <2>3 DEF Offsets
<1>14. ReservationsDisjoint'
    BY <1>7 DEF IndInv, ReservationsDisjoint, Reserved
<1>15. VerifiedStable'
  <2>1. ASSUME NEW q \in Handlers, q # r, pc[q] \in {"fin.rehash", "fin.copy"}, up[q] = u
        PROVE  FALSE
    <3>1. /\ snap[q].decl = uploads[u].decl
          /\ f = Image(uploads[u].decl.sha)
      <4>1. snap[q].decl = uploads[u].decl
          BY <2>1 DEF IndInv, Shape, FinShape, FinLabels
      <4>2. staging[up[q]] = Image(snap[q].decl.sha)
          BY <2>1 DEF IndInv, VerifiedStable, Declared
      <4> QED BY <2>1, <4>1, <4>2
    <3>2. uploads[u].decl \in Decls /\ uploads[u].decl.size # 0
        BY <1>1 DEF UploadRow, IndInv, DeclaredNonEmpty
    <3>3. uploads[u].decl.sha \in Contents /\ uploads[u].decl.size = Length[uploads[u].decl.sha]
        BY <3>2, DeclAssumption DEF HonestDecls
    <3>4. q0.off \in Offsets /\ q0.off < Length[uploads[u].decl.sha]
        BY <1>1, <1>4, <3>3, LengthAssumption, SizeAssumption DEF Offsets
    <3>5. f[q0.off] = uploads[u].decl.sha
        BY <3>1, <3>4 DEF Image
    <3>6. f[q0.off] = Hole
        BY <1>1, <1>2, <1>4, <3>4
    <3> QED BY <3>3, <3>5, <3>6, NoneAssumption
  <2>2. ASSUME NEW q \in Handlers, pc'[q] \in {"fin.rehash", "fin.copy"}
        PROVE  staging'[up'[q]] \in {NoFile, Declared(q)'}
    <3>1. q # r /\ pc[q] \in {"fin.rehash", "fin.copy"} /\ up'[q] = up[q]
        BY <1>7, <2>2
    <3>2. up[q] # u /\ up[q] \in Uuids
        BY <2>1, <3>1 DEF IndInv, Shape, FinShape, FinLabels
    <3> QED
        BY <1>3, <1>7, <3>1, <3>2 DEF IndInv, VerifiedStable, Declared
  <2> QED
      BY <1>7, <2>2 DEF IndInv, VerifiedStable, Declared, AfterVerify, AfterCopy
<1>16. SessionIntact' /\ FinalizedStored' /\ UniqueSession' /\ ParsingRows' /\ AckedDurable'
    BY DEF IndInv, SessionIntact, FinalizedStored, UniqueSession, ParsingRows,
           AckedDurable, SessionsOf, worker
<1> QED
    BY <1>8, <1>9, <1>10, <1>11, <1>12, <1>13, <1>14, <1>15, <1>16 DEF IndInv

(* A chunk write, whole or cut short, keeps the invariant. *)
LEMMA PutWriteInv ==
    ASSUME HonestDecls, IndInv, NEW r \in Handlers, PutWrite(r) \/ PutWriteFails(r)
    PROVE  IndInv'
<1>1. /\ pc[r] = "put.write" /\ req[r] \in PutReq /\ up[r] \in Uuids
      /\ req[r].off + req[r].len \in 0 .. MaxSize
  <2>1. pc[r] = "put.write"
      BY DEF PutWrite, PutWriteFails
  <2>2. /\ req[r] \in PutReq /\ up[r] \in Uuids /\ uploads[up[r]] \in UploadRow
        /\ req[r].off + req[r].len <= uploads[up[r]].offset
      BY <2>1 DEF IndInv, TypeOK, Shape, PutShape, PutLabels, ReservedUnwritten
  <2> QED BY <2>1, <2>2, SizeAssumption DEF PutReq, UploadRow
<1>2. CASE Refuse(r, "internal")
    BY <1>2, RefuseStep, ErrType DEF Refuse, ErrorKinds
<1>3. CASE PutWrite(r) /\ staging[up[r]] # NoFile
  <2>1. Rep("next", NoId, req[r].off + req[r].len) \in Replies
      BY <1>1 DEF Rep, Replies, ReplyKinds
  <2>2. req[r].len \in 0 .. req[r].len
      BY <1>1, SizeAssumption DEF PutReq
  <2> QED BY <1>3, <2>1, <2>2, ChunkWriteInv DEF PutWrite
<1>4. CASE PutWriteFails(r)
  <2>1. Err("internal") \in Replies
      BY SizeAssumption DEF Err, Rep, Replies, ReplyKinds, ErrorKinds
  <2> QED BY <1>4, <2>1, ChunkWriteInv DEF PutWriteFails
<1> QED BY <1>2, <1>3, <1>4 DEF PutWrite

-----------------------------------------------------------------------------
(* POST /v1/ingest/bundles/{upload_id}/finalize                            *)

(* finalize starts from the row it read, whose cursor is at the declared size. *)
LEMMA FinStartInv ==
    ASSUME IndInv, NEW r \in Handlers, NEW d \in Devices, NEW u \in Uuids,
           NEW c \in Contents, FinStart(r, d, u, c)
    PROVE  IndInv'
<1>1. CASE \E kind \in ErrorKinds : Refuse(r, kind)
    BY <1>1, RefuseStep, ErrType DEF Refuse
<1>2. ASSUME uploads[u] # NoRow, uploads[u].dev = d,
             req' = [req EXCEPT ![r] = [op |-> "finalize", dev |-> d, claimed |-> c]],
             up' = [up EXCEPT ![r] = u],
             snap' = [snap EXCEPT ![r] = uploads[u]],
             NEW l \in {"fin.find_session", "fin.hash"}, Begin(r, l),
             UNCHANGED <<stored, worker, sid, handle>>
      PROVE  IndInv'
  <2>0. /\ pc' = [pc EXCEPT ![r] = l]
        /\ reply' = [reply EXCEPT ![r] = NoReply]
        /\ UNCHANGED <<devices, uploads, sessions, staging, blobs, permits, parsing, sid,
                       handle, acked>>
      BY <1>2 DEF Begin, stored, worker
  <2>1. TypeOK'
      BY <1>2, <2>0 DEF IndInv, TypeOK, Requests, FinReq, Running, FinLabels
  <2>2. /\ req'[r] = [op |-> "finalize", dev |-> d, claimed |-> c]
        /\ pc'[r] = l /\ up'[r] = u /\ snap'[r] = uploads[u]
        /\ \A q \in Handlers : q # r => req'[q] = req[q] /\ up'[q] = up[q] /\ snap'[q] = snap[q]
      BY <1>2, <2>0 DEF IndInv, TypeOK
  <2>3. InitShape(r)' /\ PutShape(r)' /\ FinShape(r)'
      BY <1>2, <2>0, <2>2
      DEF InitShape, PutShape, FinShape, InitLabels, PutLabels, FinLabels, FinReq,
          AfterMark, AfterCopy, AfterVerify
  <2> QED
      BY <1>2, <2>0, <2>1, <2>2, <2>3, LocalStep
      DEF AfterVerify, AfterCopy, Running, FinLabels, InitLabels
<1> QED
    BY <1>1, <1>2 DEF FinStart, ErrorKinds

(* Reporting a committed session keeps AckedDurable: a bundle has only one. *)
LEMMA ReportInv ==
    ASSUME IndInv, NEW r \in Handlers, NEW s \in Uuids, sessions[s] # NoRow,
           Report(r, s), UNCHANGED stored, permits' \in Nat,
           parsing' \subseteq parsing \cup {s}
    PROVE  IndInv'
<1>1. UNCHANGED <<devices, uploads, sessions, staging, blobs>>
    BY DEF stored
<1>2. Rep("session", s, 0) \in Replies /\ Answer(r, Rep("session", s, 0))
    BY SizeAssumption DEF Report, Rep, Replies, ReplyKinds
<1>3. sessions[s] \in SessionRow
    BY DEF IndInv, TypeOK
<1>4. acked' \subseteq [dev : Devices, bundle : Bundles, id : Uuids]
    BY <1>1, <1>3 DEF Report, IndInv, TypeOK, SessionRow
<1>5. AckedDurable'
  <2>1. SessionsOf(sessions[s].dev, sessions[s].bundle) = {s}
      BY DEF IndInv, UniqueSession, SessionsOf
  <2> QED
      BY <1>1, <2>1 DEF Report, IndInv, AckedDurable, SessionsOf
<1>6. ParsingRows' /\ parsing' \subseteq Uuids /\ devices' \subseteq Devices
    BY <1>1 DEF IndInv, TypeOK, ParsingRows
<1> QED
    BY <1>1, <1>2, <1>4, <1>5, <1>6, LeaveStep

(* Answering with the session already there keeps the invariant. *)
LEMMA FinFindInv ==
    ASSUME IndInv, NEW r \in Handlers, FinFindSession(r) \/ FinFindWinner(r)
    PROVE  IndInv'
<1> DEFINE S == SessionsOf(req[r].dev, snap[r].bundle)
<1>1. CASE \E s \in S : Report(r, s) /\ UNCHANGED <<stored, worker>>
    BY <1>1, ReportInv DEF SessionsOf, worker, IndInv, TypeOK
<1>2. CASE \E kind \in ErrorKinds : Answer(r, Err(kind)) /\ UNCHANGED <<stored, worker, acked>>
    BY <1>2, RefuseStep, ErrType
<1> QED
    BY <1>1, <1>2 DEF FinFindSession, FinFindWinner, ErrorKinds

(* The staged bytes hash to the declared sha256: from here on they are stable. *)
LEMMA FinHashInv ==
    ASSUME IndInv, NEW r \in Handlers, FinHash(r)
    PROVE  IndInv'
<1>0. pc[r] = "fin.hash" /\ FinShape(r) /\ r \in Handlers
    BY DEF FinHash, IndInv, Shape
<1>1. CASE Refuse(r, "internal")
    BY <1>1, RefuseStep, ErrType DEF Refuse, ErrorKinds
<1>2. CASE Goto(r, "fin.discard") /\ UNCHANGED <<stored, worker, locals>>
  <2> USE <1>2 DEF Goto, locals, worker, stored
  <2>1. TypeOK'
      BY DEF IndInv, TypeOK, Running, FinLabels
  <2>2. InitShape(r)' /\ PutShape(r)' /\ FinShape(r)'
      BY <1>0 DEF IndInv, TypeOK, InitShape, PutShape, FinShape, InitLabels, PutLabels,
                  FinLabels, AfterMark, AfterCopy, AfterVerify
  <2> QED
      BY <2>1, <2>2, LocalStep DEF AfterVerify, AfterCopy, Running, FinLabels, InitLabels
<1>3. ASSUME staging[up[r]] = Declared(r), NEW s \in FreshSession,
             sid' = [sid EXCEPT ![r] = s],
             Goto(r, "fin.rehash"), UNCHANGED <<stored, worker, up, snap, handle>>
      PROVE  IndInv'
  <2> USE <1>3 DEF Goto, worker, stored
  <2>1. TypeOK'
      BY DEF IndInv, TypeOK, Running, FinLabels, FreshSession, Uuids
  <2>2. InitShape(r)' /\ PutShape(r)' /\ FinShape(r)'
      BY <1>0 DEF IndInv, TypeOK, InitShape, PutShape, FinShape, InitLabels, PutLabels,
                  FinLabels, AfterMark, AfterCopy, AfterVerify
  <2>3. /\ sid'[r] = s /\ s \in SessionIds /\ sessions[s] = NoRow /\ blobs[s] = NoFile
        /\ \A q \in Handlers : q # r => sid'[q] = sid[q]
      BY DEF FreshSession, IndInv, TypeOK
  <2>4. staging[up'[r]] = Declared(r)'
      BY DEF Declared
  <2> QED
      BY <2>1, <2>2, <2>3, <2>4, LocalStep
      DEF AfterVerify, AfterCopy, Running, FinLabels, InitLabels
<1> QED
    BY <1>1, <1>2, <1>3 DEF FinHash, Declared

(* Removing the staged file leaves every conjunct about it vacuous. *)
LEMMA UnstageInv ==
    ASSUME IndInv, NEW u \in Uuids, uploads[u] # NoRow,
           staging' \in {[staging EXCEPT ![u] = NoFile], staging},
           UNCHANGED <<uploads, sessions, blobs>>
    PROVE  /\ staging' \in [Uuids -> Files \cup {NoFile}]
           /\ CursorBound'
           /\ \A v \in Uuids : staging'[v] \in {NoFile, staging[v]}
           /\ \A v \in Uuids : uploads[v] = NoRow => staging'[v] = staging[v]
<1>1. /\ staging' \in [Uuids -> Files \cup {NoFile}]
      /\ \A v \in Uuids : staging'[v] \in {NoFile, staging[v]}
      /\ \A v \in Uuids : uploads[v] = NoRow => staging'[v] = staging[v]
    BY DEF IndInv, TypeOK
<1> QED
    BY <1>1 DEF IndInv, CursorBound

(* Discarding the staged file after a mismatch keeps the invariant. *)
LEMMA FinDiscardInv ==
    ASSUME IndInv, NEW r \in Handlers, FinDiscard(r)
    PROVE  IndInv'
<1>1. /\ up[r] \in Uuids /\ uploads[up[r]] # NoRow
      /\ staging' \in {[staging EXCEPT ![up[r]] = NoFile], staging}
      /\ Answer(r, Err("sha256_mismatch"))
      /\ UNCHANGED <<devices, uploads, sessions, blobs, permits, parsing, acked>>
    BY DEF FinDiscard, IndInv, Shape, FinShape, FinLabels, worker
<1>2. /\ staging' \in [Uuids -> Files \cup {NoFile}] /\ CursorBound'
      /\ \A v \in Uuids : staging'[v] \in {NoFile, staging[v]}
      /\ \A v \in Uuids : uploads[v] = NoRow => staging'[v] = staging[v]
    BY <1>1, UnstageInv
<1>3. /\ pc'[r] = "idle" /\ up'[r] = NoId /\ sid'[r] = NoId
      /\ \A q \in Handlers : q # r => /\ pc'[q] = pc[q] /\ req'[q] = req[q] /\ up'[q] = up[q]
                                      /\ snap'[q] = snap[q] /\ sid'[q] = sid[q]
                                      /\ handle'[q] = handle[q]
    BY <1>1 DEF IndInv, TypeOK, Answer, Leave
<1>4. TypeOK'
    BY <1>1, <1>2, ErrType DEF IndInv, TypeOK, Answer, Leave, ErrorKinds
<1>5. DeclaredNonEmpty'
    BY <1>1, <1>3 DEF IndInv, DeclaredNonEmpty, InitLabels
<1>6. Shape'
  <2> SUFFICES ASSUME NEW q \in Handlers PROVE (InitShape(q) /\ PutShape(q) /\ FinShape(q))'
      BY DEF Shape
  <2>1. CASE q = r
      BY <1>3, <2>1 DEF InitShape, PutShape, FinShape, InitLabels, PutLabels, FinLabels
  <2>2. CASE q # r
    <3>1. InitShape(q)'
        BY <1>1, <1>2, <1>3, <2>2, NoneAssumption DEF IndInv, Shape, InitShape, Uuids
    <3>2. PutShape(q)' /\ FinShape(q)'
        BY <1>1, <1>3, <2>2 DEF IndInv, Shape, PutShape, FinShape
    <3> QED BY <3>1, <3>2
  <2> QED BY <2>1, <2>2
<1>7. MintedOnce'
    BY <1>1, <1>3 DEF IndInv, MintedOnce, AfterVerify, AfterCopy
<1>8. ReservedUnwritten'
    BY <1>1, <1>2, <1>3 DEF IndInv, ReservedUnwritten, Shape, PutShape, PutLabels
<1>9. ReservationsDisjoint'
    BY <1>3 DEF IndInv, ReservationsDisjoint, Reserved
<1>10. VerifiedStable'
    BY <1>1, <1>2, <1>3
    DEF IndInv, VerifiedStable, Declared, Shape, FinShape, FinLabels, AfterVerify, AfterCopy
<1>11. SessionIntact' /\ FinalizedStored' /\ UniqueSession' /\ ParsingRows' /\ AckedDurable'
    BY <1>1 DEF IndInv, SessionIntact, FinalizedStored, UniqueSession, ParsingRows,
                AckedDurable, SessionsOf
<1> QED
    BY <1>2, <1>4, <1>5, <1>6, <1>7, <1>8, <1>9, <1>10, <1>11 DEF IndInv

(* The second hash of the verified file gives the declared bytes again. *)
LEMMA FinRehashInv ==
    ASSUME IndInv, NEW r \in Handlers, FinRehash(r)
    PROVE  IndInv'
<1>0. /\ pc[r] = "fin.rehash" /\ FinShape(r) /\ staging[up[r]] \in {NoFile, Declared(r)}
      /\ sid[r] \in SessionIds /\ sessions[sid[r]] = NoRow /\ blobs[sid[r]] = NoFile
    BY DEF FinRehash, IndInv, Shape, VerifiedStable, MintedOnce, AfterVerify, AfterCopy
<1>1. CASE Refuse(r, "internal")
    BY <1>1, RefuseStep, ErrType DEF Refuse, ErrorKinds
<1>2. ASSUME staging[up[r]] # NoFile,
             handle' = [handle EXCEPT ![r] = [size |-> SizeOf(staging[up[r]]),
                                              sha |-> staging[up[r]]]],
             Goto(r, "fin.copy"), UNCHANGED <<stored, worker, up, snap, sid>>
      PROVE  IndInv'
  <2> USE <1>2 DEF Goto, worker, stored
  <2>0. staging[up[r]] = Declared(r) /\ staging[up[r]] \in Files
      BY <1>0 DEF FinShape, FinLabels, IndInv, TypeOK
  <2>1. TypeOK'
      BY <2>0, SizeOfType DEF IndInv, TypeOK, Running, FinLabels, Handle
  <2>2. InitShape(r)' /\ PutShape(r)' /\ FinShape(r)'
      BY <1>0 DEF IndInv, TypeOK, InitShape, PutShape, FinShape, InitLabels, PutLabels,
                  FinLabels, AfterMark, AfterCopy, AfterVerify
  <2>3. /\ handle'[r] = [size |-> SizeOf(Declared(r)), sha |-> Declared(r)]
        /\ \A q \in Handlers : q # r => handle'[q] = handle[q]
      BY <2>0 DEF IndInv, TypeOK
  <2>4. Declared(r)' = Declared(r)
      BY DEF Declared
  <2> QED
      BY <1>0, <2>0, <2>1, <2>2, <2>3, <2>4, LocalStep
      DEF AfterVerify, AfterCopy, Running, FinLabels, InitLabels
<1> QED
    BY <1>1, <1>2 DEF FinRehash

(* The copy goes to a key nobody else minted. *)
LEMMA FinCopyInv ==
    ASSUME IndInv, NEW r \in Handlers, FinCopy(r)
    PROVE  IndInv'
<1> DEFINE s == sid[r]
<1>0. /\ pc[r] = "fin.copy" /\ FinShape(r) /\ staging[up[r]] \in {NoFile, Declared(r)}
      /\ s \in SessionIds /\ s \in Uuids /\ sessions[s] = NoRow /\ blobs[s] = NoFile
    BY DEF FinCopy, IndInv, Shape, VerifiedStable, MintedOnce, AfterVerify, AfterCopy, Uuids
<1>1. CASE Refuse(r, "internal")
    BY <1>1, RefuseStep, ErrType DEF Refuse, ErrorKinds
<1>2. ASSUME staging[up[r]] # NoFile,
             blobs' = [blobs EXCEPT ![s] = staging[up[r]]],
             Goto(r, "fin.remove"),
             UNCHANGED <<devices, uploads, sessions, staging, worker, locals>>
      PROVE  IndInv'
  <2>1. /\ pc' = [pc EXCEPT ![r] = "fin.remove"]
        /\ UNCHANGED <<devices, uploads, sessions, staging, permits, parsing, req, reply, acked,
                       up, snap, sid, handle>>
      BY <1>2 DEF Goto, worker, locals
  <2>2. staging[up[r]] = Declared(r) /\ staging[up[r]] \in Files
      BY <1>0, <1>2 DEF FinShape, FinLabels, IndInv, TypeOK
  <2>3. /\ pc'[r] = "fin.remove" /\ blobs'[s] = Declared(r)
        /\ \A q \in Handlers : q # r => pc'[q] = pc[q]
        /\ \A t \in Uuids : t # s => blobs'[t] = blobs[t]
      BY <1>0, <1>2, <2>1, <2>2 DEF IndInv, TypeOK
  <2>4. TypeOK'
      BY <1>2, <2>1, <2>2 DEF IndInv, TypeOK, Running, FinLabels
  <2>5. DeclaredNonEmpty'
      BY <2>1, <2>3 DEF IndInv, DeclaredNonEmpty, InitLabels
  <2>6. Shape'
    <3> SUFFICES ASSUME NEW q \in Handlers PROVE (InitShape(q) /\ PutShape(q) /\ FinShape(q))'
        BY DEF Shape
    <3>1. InitShape(q)'
        BY <2>1, <2>3 DEF IndInv, Shape, InitShape, InitLabels
    <3>2. PutShape(q)'
        BY <2>1, <2>3 DEF IndInv, Shape, PutShape, PutLabels
    <3>3. FinShape(q)'
        BY <1>0, <2>1, <2>3 DEF IndInv, Shape, FinShape, FinLabels, AfterMark, AfterCopy, AfterVerify
    <3> QED BY <3>1, <3>2, <3>3
  <2>7. MintedOnce'
    <3>1. \A q \in Handlers : q # r => sid[q] # s
        BY <1>0, NoneAssumption DEF IndInv, MintedOnce
    <3>2. \A q \in Handlers : pc[q] \in AfterVerify => sid[q] \in Uuids
        BY DEF IndInv, MintedOnce, Uuids
    <3> QED
        BY <1>0, <2>1, <2>3, <3>1, <3>2 DEF IndInv, MintedOnce, AfterVerify, AfterCopy
  <2>8. CursorBound'
      BY <2>1 DEF IndInv, CursorBound
  <2>9. ReservedUnwritten'
      BY <2>1, <2>3 DEF IndInv, ReservedUnwritten
  <2>10. ReservationsDisjoint'
      BY <2>1, <2>3 DEF IndInv, ReservationsDisjoint, Reserved
  <2>11. VerifiedStable'
    <3>1. \A q \in Handlers : q # r => sid[q] # s
        BY <1>0, NoneAssumption DEF IndInv, MintedOnce
    <3>2. \A q \in Handlers : pc[q] \in AfterCopy => sid[q] \in Uuids
        BY DEF IndInv, MintedOnce, Uuids, AfterCopy
    <3>3. \A q \in Handlers : Declared(q)' = Declared(q)
        BY <2>1 DEF Declared
    <3> QED
        BY <1>0, <2>1, <2>3, <3>1, <3>2, <3>3 DEF IndInv, VerifiedStable, AfterVerify, AfterCopy
  <2>12. SessionIntact'
      BY <1>0, <2>1, <2>3 DEF IndInv, SessionIntact
  <2>13. FinalizedStored'
    <3>1. ASSUME NEW u \in Uuids, uploads[u] # NoRow, uploads[u].finalized = 1
          PROVE  \E t \in Uuids : blobs'[t] = Image(uploads[u].decl.sha)
      <4>1. PICK t \in Uuids : blobs[t] = Image(uploads[u].decl.sha)
          BY <3>1 DEF IndInv, FinalizedStored
      <4>2. uploads[u].decl.sha \in Contents
          BY <3>1, DeclAssumption DEF IndInv, TypeOK, UploadRow
      <4>3. t # s
          BY <1>0, <4>1, <4>2, FileTypes, NoneAssumption
      <4> QED BY <2>3, <4>1, <4>3
    <3> QED BY <2>1, <3>1 DEF FinalizedStored
  <2>14. UniqueSession' /\ ParsingRows' /\ AckedDurable'
      BY <2>1 DEF IndInv, UniqueSession, ParsingRows, AckedDurable, SessionsOf
  <2> QED
      BY <2>4, <2>5, <2>6, <2>7, <2>8, <2>9, <2>10, <2>11, <2>12, <2>13, <2>14 DEF IndInv
<1> QED
    BY <1>1, <1>2 DEF FinCopy

(* After the copy nothing depends on the staged file. *)
LEMMA FinRemoveInv ==
    ASSUME IndInv, NEW r \in Handlers, FinRemove(r)
    PROVE  IndInv'
<1>1. /\ pc[r] = "fin.remove" /\ up[r] \in Uuids /\ uploads[up[r]] # NoRow
      /\ staging' \in {[staging EXCEPT ![up[r]] = NoFile], staging}
      /\ pc' = [pc EXCEPT ![r] = "fin.mark"]
      /\ UNCHANGED <<devices, uploads, sessions, blobs, permits, parsing, req, reply, acked,
                     up, snap, sid, handle>>
    BY DEF FinRemove, IndInv, Shape, FinShape, FinLabels, worker, Goto, locals
<1>2. /\ staging' \in [Uuids -> Files \cup {NoFile}] /\ CursorBound'
      /\ \A v \in Uuids : staging'[v] \in {NoFile, staging[v]}
      /\ \A v \in Uuids : uploads[v] = NoRow => staging'[v] = staging[v]
    BY <1>1, UnstageInv
<1>3. pc'[r] = "fin.mark" /\ \A q \in Handlers : q # r => pc'[q] = pc[q]
    BY <1>1 DEF IndInv, TypeOK
<1>4. TypeOK'
    BY <1>1, <1>2 DEF IndInv, TypeOK, Running, FinLabels
<1>5. DeclaredNonEmpty'
    BY <1>1, <1>3 DEF IndInv, DeclaredNonEmpty, InitLabels
<1>6. Shape'
  <2> SUFFICES ASSUME NEW q \in Handlers PROVE (InitShape(q) /\ PutShape(q) /\ FinShape(q))'
      BY DEF Shape
  <2>1. InitShape(q)'
      BY <1>1, <1>2, <1>3 DEF IndInv, Shape, InitShape, InitLabels, Uuids
  <2>2. PutShape(q)'
      BY <1>1, <1>3 DEF IndInv, Shape, PutShape, PutLabels
  <2>3. FinShape(q)'
      BY <1>1, <1>3 DEF IndInv, Shape, FinShape, FinLabels, AfterMark, AfterCopy, AfterVerify
  <2> QED BY <2>1, <2>2, <2>3
<1>7. MintedOnce'
    BY <1>1, <1>3 DEF IndInv, MintedOnce, AfterVerify, AfterCopy
<1>8. ReservedUnwritten'
    BY <1>1, <1>2, <1>3 DEF IndInv, ReservedUnwritten, Shape, PutShape, PutLabels
<1>9. ReservationsDisjoint'
    BY <1>1, <1>3 DEF IndInv, ReservationsDisjoint, Reserved
<1>10. VerifiedStable'
    BY <1>1, <1>2, <1>3
    DEF IndInv, VerifiedStable, Declared, Shape, FinShape, FinLabels, AfterVerify, AfterCopy
<1>11. SessionIntact' /\ FinalizedStored' /\ UniqueSession' /\ ParsingRows' /\ AckedDurable'
    BY <1>1 DEF IndInv, SessionIntact, FinalizedStored, UniqueSession, ParsingRows,
                AckedDurable, SessionsOf
<1> QED
    BY <1>2, <1>4, <1>5, <1>6, <1>7, <1>8, <1>9, <1>10, <1>11 DEF IndInv

(* By now the declared bytes are in the blob store. *)
LEMMA FinMarkInv ==
    ASSUME IndInv, NEW r \in Handlers, FinMark(r)
    PROVE  IndInv'
<1> DEFINE u == up[r]
<1>1. /\ pc[r] = "fin.mark" /\ u \in Uuids /\ uploads[u] # NoRow /\ uploads[u] \in UploadRow
      /\ snap[r].decl = uploads[u].decl
      /\ sid[r] \in Uuids /\ blobs[sid[r]] = Declared(r)
      /\ uploads' = [uploads EXCEPT ![u].finalized = 1]
      /\ pc' = [pc EXCEPT ![r] = "fin.insert"]
      /\ UNCHANGED <<devices, sessions, staging, blobs, permits, parsing, req, reply, acked,
                     up, snap, sid, handle>>
    BY DEF FinMark, IndInv, TypeOK, Shape, FinShape, FinLabels, worker, Goto, locals,
           MintedOnce, AfterVerify, AfterCopy, Uuids, VerifiedStable
<1>2. uploads'[u] = [uploads[u] EXCEPT !.finalized = 1]
    BY <1>1 DEF IndInv, TypeOK
<1>3. \A v \in Uuids : v # u => uploads'[v] = uploads[v]
    BY <1>1 DEF IndInv, TypeOK
<1>4. /\ uploads'[u] \in UploadRow
      /\ uploads'[u].offset = uploads[u].offset
      /\ uploads'[u].dev = uploads[u].dev /\ uploads'[u].bundle = uploads[u].bundle
      /\ uploads'[u].decl = uploads[u].decl /\ uploads'[u].finalized = 1
  <2>1. /\ uploads'[u].offset = uploads[u].offset
        /\ uploads'[u].dev = uploads[u].dev /\ uploads'[u].bundle = uploads[u].bundle
        /\ uploads'[u].decl = uploads[u].decl
      BY <1>1, <1>2 DEF UploadRow
  <2>2. uploads'[u].finalized = 1
      BY <1>1, <1>2 DEF UploadRow
  <2>3. uploads'[u] \in UploadRow
      BY <1>1, <1>2 DEF UploadRow
  <2> QED BY <2>1, <2>2, <2>3
<1>5. uploads'[u] # NoRow
    BY <1>4, NoneAssumption
<1>6. pc'[r] = "fin.insert" /\ \A q \in Handlers : q # r => pc'[q] = pc[q]
    BY <1>1 DEF IndInv, TypeOK
<1>7. TypeOK'
    BY <1>1, <1>4 DEF IndInv, TypeOK, Running, FinLabels
<1>8. DeclaredNonEmpty'
    BY <1>1, <1>3, <1>4, <1>6 DEF IndInv, DeclaredNonEmpty, InitLabels
<1>9. Shape'
  <2> SUFFICES ASSUME NEW q \in Handlers PROVE (InitShape(q) /\ PutShape(q) /\ FinShape(q))'
      BY DEF Shape
  <2>1. InitShape(q)'
      BY <1>1, <1>3, <1>6 DEF IndInv, Shape, InitShape, InitLabels, Uuids
  <2>2. PutShape(q)'
      BY <1>1, <1>3, <1>4, <1>5, <1>6 DEF IndInv, Shape, PutShape, PutLabels
  <2>3. FinShape(q)'
      BY <1>1, <1>3, <1>4, <1>5, <1>6
      DEF IndInv, Shape, FinShape, FinLabels, AfterMark, AfterCopy, AfterVerify
  <2> QED BY <2>1, <2>2, <2>3
<1>10. MintedOnce'
    BY <1>1, <1>6 DEF IndInv, MintedOnce, AfterVerify, AfterCopy
<1>11. CursorBound'
    BY <1>1, <1>3, <1>4 DEF IndInv, CursorBound
<1>12. ReservedUnwritten'
    BY <1>1, <1>3, <1>4, <1>6 DEF IndInv, ReservedUnwritten, Shape, PutShape, PutLabels
<1>13. ReservationsDisjoint'
    BY <1>1, <1>6 DEF IndInv, ReservationsDisjoint, Reserved
<1>14. VerifiedStable'
    BY <1>1, <1>6 DEF IndInv, VerifiedStable, Declared, AfterVerify, AfterCopy
<1>15. SessionIntact'
    BY <1>1, <1>3, <1>4, <1>5 DEF IndInv, SessionIntact
<1>16. FinalizedStored'
    BY <1>1, <1>3, <1>4 DEF IndInv, FinalizedStored, Declared
<1>17. UniqueSession' /\ ParsingRows' /\ AckedDurable'
    BY <1>1 DEF IndInv, UniqueSession, ParsingRows, AckedDurable, SessionsOf
<1> QED
    BY <1>7, <1>8, <1>9, <1>10, <1>11, <1>12, <1>13, <1>14, <1>15, <1>16, <1>17 DEF IndInv

(* The committed row carries the hash and size of the copied bytes, and the
   UNIQUE constraint makes it the bundle's only one. *)
LEMMA FinInsertInv ==
    ASSUME IndInv, NEW r \in Handlers, FinInsert(r)
    PROVE  IndInv'
<1> DEFINE s == sid[r]  d == req[r].dev  b == snap[r].bundle
<1>0. /\ pc[r] = "fin.insert" /\ FinShape(r)
      /\ s \in SessionIds /\ s \in Uuids /\ sessions[s] = NoRow
      /\ handle[r] = [size |-> SizeOf(Declared(r)), sha |-> Declared(r)]
      /\ blobs[s] = Declared(r)
    BY DEF FinInsert, IndInv, Shape, VerifiedStable, MintedOnce, AfterVerify, AfterCopy, Uuids
<1>1. CASE Goto(r, "fin.find_winner") /\ UNCHANGED <<stored, worker, locals>>
  <2> USE <1>1 DEF Goto, locals, worker, stored
  <2>1. TypeOK'
      BY DEF IndInv, TypeOK, Running, FinLabels
  <2>2. InitShape(r)' /\ PutShape(r)' /\ FinShape(r)'
      BY <1>0 DEF IndInv, TypeOK, InitShape, PutShape, FinShape, InitLabels, PutLabels,
                  FinLabels, AfterMark, AfterCopy, AfterVerify
  <2>3. Declared(r)' = Declared(r)
      BY DEF Declared
  <2> QED
      BY <1>0, <2>1, <2>2, <2>3, LocalStep
      DEF AfterVerify, AfterCopy, Running, FinLabels, InitLabels
<1>2. ASSUME SessionsOf(d, b) = {},
             sessions' = [sessions EXCEPT ![s] = [dev |-> d, bundle |-> b,
                            size |-> handle[r].size, sha |-> handle[r].sha,
                            parse |-> "pending"]],
             Goto(r, "fin.permit"),
             UNCHANGED <<devices, uploads, staging, blobs, worker, locals>>
      PROVE  IndInv'
  <2>1. /\ pc' = [pc EXCEPT ![r] = "fin.permit"]
        /\ UNCHANGED <<devices, uploads, staging, blobs, permits, parsing, req, reply, acked,
                       up, snap, sid, handle>>
      BY <1>2 DEF Goto, worker, locals
  <2>2. /\ d \in Devices /\ b \in Bundles /\ Declared(r) \in Files
        /\ up[r] \in Uuids /\ uploads[up[r]] # NoRow /\ uploads[up[r]].finalized = 1
        /\ uploads[up[r]].dev = d /\ uploads[up[r]].bundle = b
        /\ Image(uploads[up[r]].decl.sha) = Declared(r)
    <3>1. /\ up[r] \in Uuids /\ uploads[up[r]] # NoRow /\ uploads[up[r]].finalized = 1
          /\ uploads[up[r]].dev = d /\ uploads[up[r]].bundle = b
          /\ snap[r].decl = uploads[up[r]].decl
        BY <1>0 DEF FinShape, FinLabels, AfterMark, AfterCopy, AfterVerify
    <3>2. uploads[up[r]] \in UploadRow
        BY <3>1 DEF IndInv, TypeOK
    <3>3. d \in Devices /\ b \in Bundles /\ snap[r].decl.sha \in Contents
        BY <3>1, <3>2, DeclAssumption DEF UploadRow
    <3> QED BY <3>1, <3>3, FileTypes DEF Declared
  <2>3. /\ sessions'[s] = [dev |-> d, bundle |-> b, size |-> SizeOf(Declared(r)),
                           sha |-> Declared(r), parse |-> "pending"]
        /\ sessions'[s] \in SessionRow
        /\ \A t \in Uuids : t # s => sessions'[t] = sessions[t]
      BY <1>0, <1>2, <2>2, SizeOfType DEF IndInv, TypeOK, SessionRow, ParseStates
  <2>4. sessions'[s] # NoRow
      BY <2>3, NoneAssumption
  <2>5. pc'[r] = "fin.permit" /\ \A q \in Handlers : q # r => pc'[q] = pc[q]
      BY <2>1 DEF IndInv, TypeOK
  <2>6. TypeOK'
    <3>1. sessions' \in [Uuids -> SessionRow \cup {NoRow}]
        BY <1>0, <1>2, <2>3 DEF IndInv, TypeOK
    <3> QED BY <2>1, <3>1 DEF IndInv, TypeOK, Running, FinLabels
  <2>7. DeclaredNonEmpty'
      BY <2>1, <2>5 DEF IndInv, DeclaredNonEmpty, InitLabels
  <2>8. Shape'
    <3> SUFFICES ASSUME NEW q \in Handlers PROVE (InitShape(q) /\ PutShape(q) /\ FinShape(q))'
        BY DEF Shape
    <3>1. InitShape(q)'
        BY <2>1, <2>5 DEF IndInv, Shape, InitShape, InitLabels
    <3>2. PutShape(q)'
        BY <2>1, <2>5 DEF IndInv, Shape, PutShape, PutLabels
    <3>3. FinShape(q)'
        BY <1>0, <2>1, <2>5 DEF IndInv, Shape, FinShape, FinLabels, AfterMark, AfterCopy, AfterVerify
    <3> QED BY <3>1, <3>2, <3>3
  <2>9. MintedOnce'
    <3>1. \A q \in Handlers : q # r => sid[q] # s
        BY <1>0, NoneAssumption DEF IndInv, MintedOnce
    <3>2. \A q \in Handlers : pc[q] \in AfterVerify => sid[q] \in Uuids
        BY DEF IndInv, MintedOnce, Uuids
    <3> QED
        BY <1>0, <2>1, <2>3, <2>4, <2>5, <3>1, <3>2 DEF IndInv, MintedOnce, AfterVerify, AfterCopy
  <2>10. CursorBound'
      BY <2>1 DEF IndInv, CursorBound
  <2>11. ReservedUnwritten'
      BY <2>1, <2>5 DEF IndInv, ReservedUnwritten
  <2>12. ReservationsDisjoint'
      BY <2>1, <2>5 DEF IndInv, ReservationsDisjoint, Reserved
  <2>13. VerifiedStable'
      BY <1>0, <2>1, <2>5 DEF IndInv, VerifiedStable, Declared, AfterVerify, AfterCopy
  <2>14. SessionIntact'
    <3> SUFFICES ASSUME NEW t \in Uuids, sessions'[t] # NoRow
                 PROVE  /\ blobs[t] = sessions'[t].sha
                        /\ sessions'[t].size = SizeOf(blobs[t])
                        /\ \E u \in Uuids : /\ uploads[u] # NoRow /\ uploads[u].finalized = 1
                                            /\ uploads[u].dev = sessions'[t].dev
                                            /\ uploads[u].bundle = sessions'[t].bundle
                                            /\ blobs[t] = Image(uploads[u].decl.sha)
        BY <2>1 DEF SessionIntact
    <3>1. CASE t = s
        BY <1>0, <2>2, <2>3, <3>1
    <3>2. CASE t # s
        BY <2>3, <3>2 DEF IndInv, SessionIntact
    <3> QED BY <3>1, <3>2
  <2>15. FinalizedStored'
      BY <2>1 DEF IndInv, FinalizedStored
  <2>16. UniqueSession'
    <3>1. \A t \in Uuids : sessions[t] # NoRow => ~(sessions[t].dev = d /\ sessions[t].bundle = b)
        BY <1>2 DEF SessionsOf
    <3>2. sessions'[s].dev = d /\ sessions'[s].bundle = b
        BY <2>3
    <3> SUFFICES ASSUME NEW t1 \in Uuids, NEW t2 \in Uuids,
                        sessions'[t1] # NoRow, sessions'[t2] # NoRow,
                        sessions'[t1].dev = sessions'[t2].dev,
                        sessions'[t1].bundle = sessions'[t2].bundle
                 PROVE  t1 = t2
        BY DEF UniqueSession
    <3>3. CASE t1 # s /\ t2 # s
        BY <2>3, <3>3 DEF IndInv, UniqueSession
    <3>4. CASE t1 = s \/ t2 = s
        BY <2>3, <3>1, <3>2, <3>4
    <3> QED BY <3>3, <3>4
  <2>17. ParsingRows'
      BY <2>1, <2>3, <2>4 DEF IndInv, TypeOK, ParsingRows
  <2>18. AckedDurable'
    <3> SUFFICES ASSUME NEW a \in acked PROVE SessionsOf(a.dev, a.bundle)' = {a.id}
        BY <2>1 DEF AckedDurable
    <3>1. SessionsOf(a.dev, a.bundle) = {a.id}
        BY DEF IndInv, AckedDurable
    <3>2. ~(a.dev = d /\ a.bundle = b)
        BY <1>2, <3>1
    <3>3. SessionsOf(a.dev, a.bundle)' = SessionsOf(a.dev, a.bundle)
        BY <1>0, <2>3, <2>4, <3>2 DEF SessionsOf
    <3> QED BY <3>1, <3>3
  <2> QED
      BY <2>6, <2>7, <2>8, <2>9, <2>10, <2>11, <2>12, <2>13, <2>14, <2>15, <2>16, <2>17, <2>18
      DEF IndInv
<1> QED
    BY <1>1, <1>2 DEF FinInsert

(* Taking a permit and spawning the worker keeps the invariant. *)
LEMMA FinPermitInv ==
    ASSUME IndInv, NEW r \in Handlers, FinPermit(r)
    PROVE  IndInv'
<1>1. sid[r] \in Uuids /\ sessions[sid[r]] # NoRow
    BY DEF FinPermit, IndInv, MintedOnce, AfterVerify, Uuids
<1>2. permits' \in Nat /\ parsing' \subseteq parsing \cup {sid[r]} /\ UNCHANGED stored
    BY DEF FinPermit, IndInv, TypeOK
<1> QED
    BY <1>1, <1>2, ReportInv DEF FinPermit

-----------------------------------------------------------------------------
(* Workers, failures, crashes.                                             *)

(* The worker's update touches only parse_state. *)
LEMMA ParseEndInv ==
    ASSUME IndInv, NEW s \in Uuids, ParseEnd(s)
    PROVE  IndInv'
<1> PICK outcome \in ParseStates : sessions' = [sessions EXCEPT ![s].parse = outcome]
    BY DEF ParseEnd
<1>1. /\ s \in parsing /\ parsing' = parsing \ {s} /\ permits' = permits + 1
      /\ UNCHANGED <<devices, uploads, staging, blobs, pc, req, up, snap, sid, handle, reply,
                     acked>>
    BY DEF ParseEnd, locals
<1>2. sessions[s] # NoRow /\ sessions[s] \in SessionRow
    BY <1>1 DEF IndInv, TypeOK, ParsingRows
<1>3. sessions'[s] = [sessions[s] EXCEPT !.parse = outcome]
    BY DEF IndInv, TypeOK
<1>4. \A t \in Uuids : t # s => sessions'[t] = sessions[t]
    BY DEF IndInv, TypeOK
<1>5. /\ sessions'[s] \in SessionRow
      /\ sessions'[s].dev = sessions[s].dev /\ sessions'[s].bundle = sessions[s].bundle
      /\ sessions'[s].size = sessions[s].size /\ sessions'[s].sha = sessions[s].sha
    BY <1>2, <1>3 DEF SessionRow
<1>6. \A t \in Uuids : /\ sessions'[t] = NoRow <=> sessions[t] = NoRow
                       /\ sessions[t] # NoRow =>
                            /\ sessions'[t].dev = sessions[t].dev
                            /\ sessions'[t].bundle = sessions[t].bundle
                            /\ sessions'[t].size = sessions[t].size
                            /\ sessions'[t].sha = sessions[t].sha
    BY <1>2, <1>4, <1>5, NoneAssumption
<1>7. TypeOK'
  <2>1. sessions' \in [Uuids -> SessionRow \cup {NoRow}]
      BY <1>5 DEF IndInv, TypeOK
  <2> QED BY <1>1, <2>1 DEF IndInv, TypeOK
<1>8. DeclaredNonEmpty' /\ CursorBound' /\ ReservedUnwritten' /\ FinalizedStored'
    BY <1>1 DEF IndInv, DeclaredNonEmpty, CursorBound, ReservedUnwritten, FinalizedStored
<1>9. Shape'
    BY <1>1 DEF IndInv, Shape, InitShape, PutShape, FinShape
<1>10. MintedOnce'
    BY <1>1, <1>6 DEF IndInv, MintedOnce, Uuids
<1>11. ReservationsDisjoint' /\ VerifiedStable'
    BY <1>1 DEF IndInv, ReservationsDisjoint, Reserved, VerifiedStable, Declared
<1>12. SessionIntact'
    BY <1>1, <1>6 DEF IndInv, SessionIntact
<1>13. UniqueSession'
    BY <1>6 DEF IndInv, UniqueSession
<1>14. ParsingRows'
    BY <1>1, <1>6 DEF IndInv, TypeOK, ParsingRows
<1>15. AckedDurable'
  <2>1. \A d, b : SessionsOf(d, b)' = SessionsOf(d, b)
      BY <1>6 DEF SessionsOf
  <2> QED BY <1>1, <2>1 DEF IndInv, AckedDurable
<1> QED
    BY <1>7, <1>8, <1>9, <1>10, <1>11, <1>12, <1>13, <1>14, <1>15 DEF IndInv

(* A handler ended by a storage error or a disconnect leaves a good state. *)
LEMMA AbandonInv ==
    ASSUME IndInv, NEW r \in Handlers, StorageFailure(r) \/ Disconnect(r)
    PROVE  IndInv'
<1>1. CASE StorageFailure(r)
    BY <1>1, RefuseStep, ErrType DEF StorageFailure, Refuse, ErrorKinds
<1>2. CASE Disconnect(r)
    BY <1>2, RefuseStep DEF Disconnect
<1> QED BY <1>1, <1>2

(* A crash empties every handler and keeps tables and files. *)
LEMMA CrashInv ==
    ASSUME IndInv, Crash
    PROVE  IndInv'
<1> USE DEF IndInv, Crash, stored
<1>1. TypeOK'
    BY SlotsAssumption DEF TypeOK
<1>2. \A r \in Handlers : pc'[r] = "idle" /\ sid'[r] = NoId
    OBVIOUS
<1>3. DeclaredNonEmpty'
    BY <1>2 DEF DeclaredNonEmpty, InitLabels
<1>4. Shape'
    BY <1>2 DEF Shape, InitShape, PutShape, FinShape, InitLabels, PutLabels, FinLabels
<1>5. MintedOnce'
    BY <1>2 DEF MintedOnce, AfterVerify
<1>6. ReservedUnwritten' /\ ReservationsDisjoint'
    BY <1>2 DEF ReservedUnwritten, ReservationsDisjoint
<1>7. VerifiedStable'
    BY <1>2 DEF VerifiedStable, AfterVerify, AfterCopy
<1>8. CursorBound' /\ SessionIntact' /\ FinalizedStored' /\ UniqueSession'
    BY DEF CursorBound, SessionIntact, FinalizedStored, UniqueSession
<1>9. ParsingRows' /\ AckedDurable'
    BY DEF ParsingRows, AckedDurable, SessionsOf
<1> QED
    BY <1>1, <1>3, <1>4, <1>5, <1>6, <1>7, <1>8, <1>9

-----------------------------------------------------------------------------
(* The theorems.                                                           *)

(* The empty server satisfies the invariant. *)
LEMMA InitInv == Init => IndInv
<1> SUFFICES ASSUME Init PROVE IndInv
    OBVIOUS
<1> USE DEF Init
<1>1. TypeOK
    BY SlotsAssumption DEF TypeOK
<1>2. DeclaredNonEmpty /\ Shape
    BY DEF DeclaredNonEmpty, Shape, InitShape, PutShape, FinShape, InitLabels, PutLabels, FinLabels
<1>3. MintedOnce
    BY DEF MintedOnce, AfterVerify
<1>4. CursorBound /\ ReservedUnwritten /\ ReservationsDisjoint
    BY DEF CursorBound, ReservedUnwritten, ReservationsDisjoint
<1>5. VerifiedStable
    BY DEF VerifiedStable, AfterVerify, AfterCopy
<1>6. SessionIntact /\ FinalizedStored /\ UniqueSession /\ ParsingRows /\ AckedDurable
    BY DEF SessionIntact, FinalizedStored, UniqueSession, ParsingRows, AckedDurable
<1> QED
    BY <1>1, <1>2, <1>3, <1>4, <1>5, <1>6 DEF IndInv

(* Every step of the server keeps the invariant. *)
LEMMA NextInv == HonestDecls /\ IndInv /\ [Next]_vars => IndInv'
<1> SUFFICES ASSUME HonestDecls, IndInv, [Next]_vars PROVE IndInv'
    OBVIOUS
<1>1. ASSUME NEW r \in Handlers, Arrive(r) PROVE IndInv'
    BY <1>1, InitStartInv, PutStartInv, FinStartInv DEF Arrive
<1>2. ASSUME NEW r \in Handlers, Step(r) PROVE IndInv'
  <2>1. CASE InitFindSession(r)   BY <2>1, InitFindSessionInv
  <2>2. CASE InitFindResumable(r) BY <2>2, InitFindResumableInv
  <2>3. CASE InitCreateStaging(r) BY <2>3, InitCreateStagingInv
  <2>4. CASE InitInsertUpload(r)  BY <2>4, InitInsertUploadInv
  <2>5. CASE PutReserve(r)        BY <2>5, PutReserveInv
  <2>6. CASE PutReread(r)         BY <2>6, PutRereadInv
  <2>7. CASE PutWrite(r)          BY <2>7, PutWriteInv
  <2>8. CASE FinFindSession(r) \/ FinFindWinner(r)  BY <2>8, FinFindInv
  <2>9. CASE FinHash(r)           BY <2>9, FinHashInv
  <2>10. CASE FinDiscard(r)       BY <2>10, FinDiscardInv
  <2>11. CASE FinRehash(r)        BY <2>11, FinRehashInv
  <2>12. CASE FinCopy(r)          BY <2>12, FinCopyInv
  <2>13. CASE FinRemove(r)        BY <2>13, FinRemoveInv
  <2>14. CASE FinMark(r)          BY <2>14, FinMarkInv
  <2>15. CASE FinInsert(r)        BY <2>15, FinInsertInv
  <2>16. CASE FinPermit(r)        BY <2>16, FinPermitInv
  <2> QED
      BY <1>2, <2>1, <2>2, <2>3, <2>4, <2>5, <2>6, <2>7, <2>8, <2>9, <2>10, <2>11, <2>12,
         <2>13, <2>14, <2>15, <2>16 DEF Step
<1>3. ASSUME NEW r \in Handlers, PutWriteFails(r) \/ StorageFailure(r) \/ Disconnect(r)
      PROVE  IndInv'
    BY <1>3, PutWriteInv, AbandonInv
<1>4. ASSUME NEW s \in Uuids, ParseEnd(s) PROVE IndInv'
    BY <1>4, ParseEndInv
<1>5. CASE Crash
    BY <1>5, CrashInv
<1>6. CASE UNCHANGED vars
  <2> USE <1>6 DEF vars, IndInv
  <2>1. TypeOK' /\ DeclaredNonEmpty' /\ MintedOnce'
      BY DEF TypeOK, DeclaredNonEmpty, MintedOnce
  <2>2. Shape'
      BY DEF Shape, InitShape, PutShape, FinShape
  <2>3. CursorBound' /\ ReservedUnwritten' /\ ReservationsDisjoint' /\ VerifiedStable'
      BY DEF CursorBound, ReservedUnwritten, ReservationsDisjoint, Reserved, VerifiedStable,
             Declared
  <2>4. SessionIntact' /\ FinalizedStored' /\ UniqueSession' /\ ParsingRows' /\ AckedDurable'
      BY DEF SessionIntact, FinalizedStored, UniqueSession, ParsingRows, AckedDurable, SessionsOf
  <2> QED BY <2>1, <2>2, <2>3, <2>4
<1> QED
    BY <1>1, <1>2, <1>3, <1>4, <1>5, <1>6 DEF Next

(* IndInv is an invariant of every instance of the upload protocol whose
   clients declare the length of the bytes they hash. *)
THEOREM Inductive == HonestDecls => (Spec => []IndInv)
<1> SUFFICES ASSUME HonestDecls PROVE Spec => []IndInv
    OBVIOUS
<1>1. Init => IndInv
    BY InitInv
<1>2. IndInv /\ [Next]_vars => IndInv'
    BY NextInv
<1> QED
    BY <1>1, <1>2, PTL DEF Spec

(* The server's tables, files and handler locals keep their types. *)
THEOREM TypeCorrect == HonestDecls => (Spec => []TypeOK)
<1> SUFFICES ASSUME HonestDecls PROVE Spec => []TypeOK
    OBVIOUS
<1>1. Spec => []IndInv
    BY Inductive
<1>2. IndInv => TypeOK
    BY DEF IndInv
<1> QED
    BY <1>1, <1>2, PTL

(* Every sessions row points at exactly the bytes its client declared at init,
   although finalize reads the staging path three times while put_chunk,
   other finalizes, disconnects and crashes interleave. *)
THEOREM SessionsIntact == HonestDecls => (Spec => []SessionIntact)
<1> SUFFICES ASSUME HonestDecls PROVE Spec => []SessionIntact
    OBVIOUS
<1>1. Spec => []IndInv
    BY Inductive
<1>2. IndInv => SessionIntact
    BY DEF IndInv
<1> QED
    BY <1>1, <1>2, PTL

(* No two PUTs past the conditional UPDATE hold the same slot of an upload. *)
THEOREM NoSharedReservation == HonestDecls => (Spec => []ReservationsDisjoint)
<1> SUFFICES ASSUME HonestDecls PROVE Spec => []ReservationsDisjoint
    OBVIOUS
<1>1. Spec => []IndInv
    BY Inductive
<1>2. IndInv => ReservationsDisjoint
    BY DEF IndInv
<1> QED
    BY <1>1, <1>2, PTL

(* A session reported to a client stays the bundle's only session. *)
THEOREM ReportedStays == HonestDecls => (Spec => []AckedDurable)
<1> SUFFICES ASSUME HonestDecls PROVE Spec => []AckedDurable
    OBVIOUS
<1>1. Spec => []IndInv
    BY Inductive
<1>2. IndInv => AckedDurable
    BY DEF IndInv
<1> QED
    BY <1>1, <1>2, PTL

(* An upload marked finalized has its bytes in the blob store, so a crash
   between the mark and the sessions row loses nothing. *)
THEOREM MarkedIsStored == HonestDecls => (Spec => []FinalizedStored)
<1> SUFFICES ASSUME HonestDecls PROVE Spec => []FinalizedStored
    OBVIOUS
<1>1. Spec => []IndInv
    BY Inductive
<1>2. IndInv => FinalizedStored
    BY DEF IndInv
<1> QED
    BY <1>1, <1>2, PTL

(* One step writes only slots that are still unwritten. *)
LEMMA KeepsBytesStep == IndInv /\ [Next]_vars => KeepsBytes
<1> SUFFICES ASSUME IndInv, [Next]_vars, NEW u \in Uuids,
                    staging[u] # NoFile, staging'[u] # NoFile,
                    NEW i \in Offsets, staging[u][i] # Hole
             PROVE  staging'[u][i] = staging[u][i]
    BY DEF KeepsBytes
<1>1. ASSUME NEW r \in Handlers, pc[r] = "put.write", NEW k \in 0 .. req[r].len,
             staging' = [staging EXCEPT ![up[r]] = Written(@, req[r].off, k, req[r].body)]
      PROVE  staging'[u][i] = staging[u][i]
  <2>1. /\ req[r] \in PutReq /\ up[r] \in Uuids
        /\ staging[up[r]] # NoFile =>
              \A j \in Offsets : j >= req[r].off /\ j < req[r].off + req[r].len =>
                                   staging[up[r]][j] = Hole
      BY <1>1 DEF IndInv, Shape, PutShape, PutLabels, ReservedUnwritten
  <2>2. CASE u # up[r]
      BY <1>1, <2>2 DEF IndInv, TypeOK
  <2>3. CASE u = up[r]
    <3>1. staging'[u] = Written(staging[u], req[r].off, k, req[r].body)
        BY <1>1, <2>3 DEF IndInv, TypeOK
    <3>2. ~(i >= req[r].off /\ i < req[r].off + req[r].len)
        BY <2>1, <2>3
    <3>3. ~(i >= req[r].off /\ i < req[r].off + k)
        BY <1>1, <2>1, <3>2, SizeAssumption DEF PutReq, Offsets
    <3> QED BY <3>1, <3>3 DEF Written
  <2> QED BY <2>2, <2>3
<1>2. ASSUME NEW r \in Handlers, PutWrite(r) \/ PutWriteFails(r)
      PROVE  staging'[u][i] = staging[u][i]
  <2>1. CASE staging' = staging
      BY <2>1
  <2>2. CASE PutWrite(r) /\ staging' # staging
    <3>1. pc[r] = "put.write" /\ req[r] \in PutReq
        BY <2>2 DEF PutWrite, IndInv, Shape, PutShape, PutLabels
    <3>2. req[r].len \in 0 .. req[r].len
        BY <3>1, SizeAssumption DEF PutReq
    <3>3. staging' = [staging EXCEPT ![up[r]] = Written(@, req[r].off, req[r].len, req[r].body)]
        BY <2>2 DEF PutWrite, Refuse, stored
    <3> QED BY <1>1, <3>1, <3>2, <3>3
  <2>3. CASE PutWriteFails(r)
      BY <1>1, <2>3 DEF PutWriteFails
  <2> QED BY <1>2, <2>1, <2>2, <2>3
<1>3. ASSUME NEW r \in Handlers, InitCreateStaging(r)
      PROVE  staging'[u][i] = staging[u][i]
    BY <1>3 DEF InitCreateStaging, FreshUpload, IndInv, TypeOK
<1>4. ASSUME NEW r \in Handlers, FinDiscard(r) \/ FinRemove(r)
      PROVE  staging'[u][i] = staging[u][i]
    BY <1>4 DEF FinDiscard, FinRemove, IndInv, TypeOK
<1>5. ASSUME NEW r \in Handlers, Arrive(r)
      PROVE  staging' = staging
    BY <1>5 DEF Arrive, InitStart, PutStart, FinStart, Refuse, stored
<1>6. ASSUME NEW r \in Handlers, Step(r)
      PROVE  staging'[u][i] = staging[u][i]
  <2>1. CASE InitFindSession(r) \/ InitFindResumable(r)
      BY <2>1 DEF InitFindSession, InitFindResumable, stored
  <2>2. CASE InitInsertUpload(r) \/ PutReserve(r) \/ PutReread(r)
      BY <2>2 DEF InitInsertUpload, PutReserve, PutReread, stored
  <2>3. CASE FinFindSession(r) \/ FinFindWinner(r) \/ FinHash(r) \/ FinRehash(r)
      BY <2>3 DEF FinFindSession, FinFindWinner, FinHash, FinRehash, Refuse, stored
  <2>4. CASE FinCopy(r) \/ FinMark(r) \/ FinInsert(r) \/ FinPermit(r)
      BY <2>4 DEF FinCopy, FinMark, FinInsert, FinPermit, Refuse, stored
  <2> QED
      BY <1>2, <1>3, <1>4, <1>6, <2>1, <2>2, <2>3, <2>4 DEF Step
<1>7. ASSUME NEW r \in Handlers, StorageFailure(r) \/ Disconnect(r)
      PROVE  staging' = staging
    BY <1>7 DEF StorageFailure, Disconnect, Refuse, stored
<1>8. CASE (\E s \in Uuids : ParseEnd(s)) \/ Crash \/ UNCHANGED vars
    BY <1>8 DEF ParseEnd, Crash, stored, vars
<1> QED
    BY <1>2, <1>5, <1>6, <1>7, <1>8 DEF Next

(* No byte that reached a staged file is ever overwritten. *)
THEOREM WriteOnce == HonestDecls => (Spec => BytesWriteOnce)
<1> SUFFICES ASSUME HonestDecls PROVE Spec => BytesWriteOnce
    OBVIOUS
<1>1. Spec => []IndInv
    BY Inductive
<1>2. IndInv /\ [Next]_vars => [KeepsBytes]_vars
    BY KeepsBytesStep
<1> QED
    BY <1>1, <1>2, PTL DEF Spec, BytesWriteOnce

-----------------------------------------------------------------------------
(* What a step does to the tables.                                         *)

\* An upload row keeps its device, bundle and declaration for ever.
UploadsStay ==
  \A u \in Uuids : uploads[u] # NoRow =>
    /\ uploads'[u] # NoRow
    /\ uploads'[u].dev = uploads[u].dev
    /\ uploads'[u].bundle = uploads[u].bundle
    /\ uploads'[u].decl = uploads[u].decl

\* A new one comes from the init that inserts it.
UploadsBorn ==
  \A u \in Uuids : uploads[u] = NoRow /\ uploads'[u] # NoRow =>
    \E r \in Handlers :
      /\ pc[r] = "init.insert_upload" /\ u \in UploadIds
      /\ uploads'[u].dev = req[r].dev
      /\ uploads'[u].bundle = req[r].bundle
      /\ uploads'[u].decl = req[r].decl

\* A session keeps its device and bundle, and its blob its bytes.
SessionsStay ==
  \A s \in Uuids : sessions[s] # NoRow =>
    /\ sessions'[s] # NoRow
    /\ sessions'[s].dev = sessions[s].dev
    /\ sessions'[s].bundle = sessions[s].bundle
    /\ blobs'[s] = blobs[s]

\* A new one comes from the finalize that inserts it, the first of its bundle.
SessionsBorn ==
  \A s \in Uuids : sessions[s] = NoRow /\ sessions'[s] # NoRow =>
    \E r \in Handlers :
      /\ pc[r] = "fin.insert" /\ s = sid[r] /\ s \in SessionIds
      /\ SessionsOf(req[r].dev, snap[r].bundle) = {}
      /\ sessions'[s].dev = req[r].dev
      /\ sessions'[s].bundle = snap[r].bundle
      /\ \A t \in Uuids \ {s} : sessions'[t] = sessions[t]

TableStep == UploadsStay /\ UploadsBorn /\ SessionsStay /\ SessionsBorn

\* Most steps leave the rows alone.
LEMMA RowsAlone ==
  ASSUME uploads' = uploads, sessions' = sessions, blobs' = blobs  PROVE TableStep
  BY DEF TableStep, UploadsStay, UploadsBorn, SessionsStay, SessionsBorn

\* init inserts a row under its fresh id.
LEMMA InsertUploadRows ==
  ASSUME IndInv, NEW r \in Handlers, InitInsertUpload(r)  PROVE TableStep
  <1>1. PICK now \in Times :
          uploads' = [uploads EXCEPT ![up[r]] =
                        [dev |-> req[r].dev, bundle |-> req[r].bundle,
                         decl |-> req[r].decl, offset |-> 0,
                         created |-> now, finalized |-> 0]]
    BY DEF InitInsertUpload
  <1>2. PICK new : /\ uploads' = [uploads EXCEPT ![up[r]] = new]
                   /\ new.dev = req[r].dev /\ new.bundle = req[r].bundle
                   /\ new.decl = req[r].decl
    <2>1. PICK new : new = [dev |-> req[r].dev, bundle |-> req[r].bundle,
                            decl |-> req[r].decl, offset |-> 0,
                            created |-> now, finalized |-> 0]
      OBVIOUS
    <2>2. /\ new.dev = req[r].dev /\ new.bundle = req[r].bundle /\ new.decl = req[r].decl
      BY <2>1
    <2>3. uploads' = [uploads EXCEPT ![up[r]] = new]  BY <1>1, <2>1, Zenon
    <2> QED BY <2>2, <2>3
  <1>3. /\ pc[r] = "init.insert_upload" /\ sessions' = sessions /\ blobs' = blobs
        /\ up[r] \in UploadIds /\ uploads[up[r]] = NoRow
    BY DEF InitInsertUpload, IndInv, Shape, InitShape
  <1>4. /\ uploads \in [Uuids -> UploadRow \cup {NoRow}] /\ up[r] \in Uuids
    BY <1>3 DEF IndInv, TypeOK, Uuids
  <1>5. /\ uploads'[up[r]] = new /\ \A u \in Uuids \ {up[r]} : uploads'[u] = uploads[u]
    BY <1>2, <1>4
  <1>6. UploadsStay  BY <1>3, <1>5 DEF UploadsStay
  <1>7. UploadsBorn  BY <1>2, <1>3, <1>5 DEF UploadsBorn
  <1>8. SessionsStay /\ SessionsBorn  BY <1>3 DEF SessionsStay, SessionsBorn
  <1> QED BY <1>6, <1>7, <1>8 DEF TableStep

\* put_chunk and finalize write the cursor and the mark of an existing row.
LEMMA UpdateUploadRows ==
  ASSUME IndInv, NEW r \in Handlers, PutReserve(r) \/ FinMark(r)  PROVE TableStep
  <1>1. CASE uploads' = uploads
    BY <1>1, RowsAlone DEF PutReserve, FinMark, stored
  <1>2. CASE uploads' # uploads
    <2>1. up[r] \in Uuids /\ uploads[up[r]] # NoRow
      BY DEF PutReserve, FinMark, IndInv, Shape, PutShape, FinShape, PutLabels, FinLabels
    <2>2. uploads \in [Uuids -> UploadRow \cup {NoRow}] /\ uploads[up[r]] \in UploadRow
      BY <2>1 DEF IndInv, TypeOK
    <2>3. PICK new : /\ uploads' = [uploads EXCEPT ![up[r]] = new]
                     /\ \/ new = [uploads[up[r]] EXCEPT !.offset = req[r].off + req[r].len]
                        \/ new = [uploads[up[r]] EXCEPT !.finalized = 1]
      BY <1>2 DEF PutReserve, FinMark, stored
    <2>4. /\ new.dev = uploads[up[r]].dev /\ new.bundle = uploads[up[r]].bundle
          /\ new.decl = uploads[up[r]].decl
      BY <2>2, <2>3 DEF UploadRow
    <2>5. uploads' \in [Uuids -> UploadRow \cup {NoRow}]
      <3>1. PutReserve(r) => IndInv'  BY PutReserveInv
      <3>2. FinMark(r) => IndInv'  BY FinMarkInv
      <3> QED BY <3>1, <3>2 DEF IndInv, TypeOK
    <2>6. uploads'[up[r]] # NoRow
      <3>1. PutReserve(r) => IndInv'  BY PutReserveInv
      <3>2. FinMark(r) => IndInv'  BY FinMarkInv
      <3>3. IndInv'  BY <3>1, <3>2
      <3>4. pc'[r] \in {"put.write", "fin.insert"} /\ up'[r] = up[r]
        BY <1>2 DEF PutReserve, FinMark, Goto, stored, locals, IndInv, TypeOK
      <3> QED BY <3>3, <3>4 DEF IndInv, Shape, PutShape, FinShape, PutLabels, FinLabels
    <2>7. /\ uploads'[up[r]] = new /\ \A u \in Uuids \ {up[r]} : uploads'[u] = uploads[u]
      BY <2>1, <2>2, <2>3
    <2>8. sessions' = sessions /\ blobs' = blobs  BY DEF PutReserve, FinMark, stored
    <2>9. UploadsStay  BY <2>4, <2>6, <2>7 DEF UploadsStay
    <2>10. UploadsBorn  BY <2>1, <2>7 DEF UploadsBorn
    <2>11. SessionsStay /\ SessionsBorn  BY <2>8 DEF SessionsStay, SessionsBorn
    <2> QED BY <2>9, <2>10, <2>11 DEF TableStep
  <1> QED BY <1>1, <1>2

\* A blob is copied before its session exists.
LEMMA CopyRows ==
  ASSUME IndInv, NEW r \in Handlers, FinCopy(r)  PROVE TableStep
  <1>1. CASE blobs' = blobs  BY <1>1, RowsAlone DEF FinCopy, Refuse, stored
  <1>2. CASE blobs' # blobs
    <2>1. blobs' = [blobs EXCEPT ![sid[r]] = staging[up[r]]] /\ uploads' = uploads
          /\ sessions' = sessions
      BY <1>2 DEF FinCopy, Refuse, stored
    <2>2. sid[r] \in Uuids /\ sessions[sid[r]] = NoRow
      BY DEF FinCopy, IndInv, MintedOnce, AfterVerify, Uuids
    <2>3. \A s \in Uuids : s # sid[r] => blobs'[s] = blobs[s]
      BY <2>1 DEF IndInv, TypeOK
    <2> QED BY <2>1, <2>2, <2>3
            DEF TableStep, UploadsStay, UploadsBorn, SessionsStay, SessionsBorn
  <1> QED BY <1>1, <1>2

\* finalize inserts the first session of its bundle.
LEMMA InsertRows ==
  ASSUME IndInv, NEW r \in Handlers, FinInsert(r)  PROVE TableStep
  <1>1. CASE sessions' = sessions  BY <1>1, RowsAlone DEF FinInsert, stored
  <1>2. CASE sessions' # sessions
    <2>1. PICK new : /\ sessions' = [sessions EXCEPT ![sid[r]] = new]
                     /\ new.dev = req[r].dev /\ new.bundle = snap[r].bundle
      BY <1>2 DEF FinInsert, stored
    <2>2. /\ pc[r] = "fin.insert" /\ SessionsOf(req[r].dev, snap[r].bundle) = {}
          /\ uploads' = uploads /\ blobs' = blobs
      BY <1>2 DEF FinInsert, stored
    <2>3. sid[r] \in SessionIds /\ sid[r] \in Uuids /\ sessions[sid[r]] = NoRow
      BY <2>2 DEF IndInv, MintedOnce, AfterVerify, Uuids
    <2>4. sessions'[sid[r]] = new /\ \A t \in Uuids \ {sid[r]} : sessions'[t] = sessions[t]
      BY <2>1, <2>3 DEF IndInv, TypeOK
    <2>5. UploadsStay /\ UploadsBorn  BY <2>2 DEF UploadsStay, UploadsBorn
    <2>6. SessionsStay  BY <2>2, <2>3, <2>4 DEF SessionsStay
    <2>7. SessionsBorn  BY <2>1, <2>2, <2>3, <2>4 DEF SessionsBorn
    <2> QED BY <2>5, <2>6, <2>7 DEF TableStep
  <1> QED BY <1>1, <1>2

\* A parse worker writes the outcome into an existing session.
LEMMA ParseRows ==
  ASSUME IndInv, NEW s \in Uuids, ParseEnd(s)  PROVE TableStep
  <1>1. PICK outcome \in ParseStates : sessions' = [sessions EXCEPT ![s].parse = outcome]
    BY DEF ParseEnd
  <1>2. sessions[s] # NoRow /\ sessions[s] \in SessionRow
    BY DEF ParseEnd, IndInv, ParsingRows, TypeOK
  <1>3. PICK new : new = [sessions[s] EXCEPT !.parse = outcome]  OBVIOUS
  <1>4. new \in SessionRow /\ new.dev = sessions[s].dev /\ new.bundle = sessions[s].bundle
    BY <1>2, <1>3 DEF SessionRow
  <1>5. sessions' = [sessions EXCEPT ![s] = new]  BY <1>1, <1>3
  <1>6. sessions'[s] = new /\ \A t \in Uuids \ {s} : sessions'[t] = sessions[t]
    BY <1>5 DEF IndInv, TypeOK
  <1>7. new # NoRow  BY <1>4, NoneAssumption
  <1>8. uploads' = uploads /\ blobs' = blobs  BY DEF ParseEnd
  <1> QED BY <1>2, <1>4, <1>6, <1>7, <1>8
          DEF TableStep, UploadsStay, UploadsBorn, SessionsStay, SessionsBorn

\* Every step of the server keeps what its tables say.
LEMMA ServerRows ==
  ASSUME IndInv, [Next]_vars  PROVE TableStep
  <1>1. ASSUME NEW r \in Handlers, Arrive(r)  PROVE TableStep
    BY <1>1, RowsAlone DEF Arrive, InitStart, PutStart, FinStart, Refuse, stored
  <1>2. ASSUME NEW r \in Handlers,
               \/ InitFindSession(r) \/ InitFindResumable(r) \/ InitCreateStaging(r)
               \/ PutReread(r) \/ PutWrite(r) \/ PutWriteFails(r)
        PROVE  TableStep
    BY <1>2, RowsAlone
    DEF InitFindSession, InitFindResumable, InitCreateStaging, PutReread, PutWrite,
        PutWriteFails, Refuse, stored
  <1>3. ASSUME NEW r \in Handlers,
               \/ FinFindSession(r) \/ FinHash(r) \/ FinDiscard(r) \/ FinRehash(r)
               \/ FinRemove(r) \/ FinFindWinner(r) \/ FinPermit(r)
        PROVE  TableStep
    BY <1>3, RowsAlone
    DEF FinFindSession, FinHash, FinDiscard, FinRehash, FinRemove, FinFindWinner, FinPermit,
        Refuse, stored
  <1>4. ASSUME NEW r \in Handlers, StorageFailure(r) \/ Disconnect(r)  PROVE TableStep
    BY <1>4, RowsAlone DEF StorageFailure, Disconnect, Refuse, stored
  <1>5. CASE Crash \/ UNCHANGED vars  BY <1>5, RowsAlone DEF Crash, stored, vars
  <1>6. ASSUME NEW r \in Handlers, Step(r)  PROVE TableStep
    BY <1>2, <1>3, <1>6, InsertUploadRows, UpdateUploadRows, CopyRows, InsertRows DEF Step
  <1> QED BY <1>1, <1>2, <1>4, <1>5, <1>6, ParseRows DEF Next

-----------------------------------------------------------------------------
(* Whose request changes an upload.                                        *)

(* A PUT past its checks works on an upload of its own device; FinShape says
   the same of finalize. *)
PutOwner(r) == pc[r] \in PutLabels => uploads[up[r]].dev = req[r].dev
OwnerInv == \A r \in Handlers : PutOwner(r)

(* A handler is at a PUT label because it was, with the same request, or
   because put_chunk just compared the devices. *)
PutFrom(r) == \/ pc'[r] \notin PutLabels
              \/ pc[r] \in PutLabels /\ req'[r] = req[r] /\ up'[r] = up[r]
              \/ up'[r] \in Uuids /\ uploads[up'[r]] # NoRow /\ uploads[up'[r]].dev = req'[r].dev

(* A handler that ends, or goes on at another request's label, is no PUT. *)
LEMMA NotPut ==
    ASSUME TypeOK, NEW r \in Handlers,
           \/ \E rep : Answer(r, rep)
           \/ \E label \in InitLabels \cup FinLabels : Goto(r, label) \/ Begin(r, label),
           up' = up \/ \A q \in Handlers \ {r} : up'[q] = up[q],
           \A q \in Handlers \ {r} : req'[q] = req[q]
    PROVE  \A q \in Handlers : PutFrom(q)
<1>1. \A q \in Handlers \ {r} : pc'[q] = pc[q] /\ up'[q] = up[q]
    BY DEF TypeOK, Answer, Goto, Begin
<1>2. pc'[r] \in {"idle"} \cup InitLabels \cup FinLabels
    BY DEF TypeOK, Answer, Goto, Begin
<1>3. pc'[r] \notin PutLabels
    BY <1>2 DEF InitLabels, PutLabels, FinLabels
<1> QED
    BY <1>1, <1>3 DEF PutFrom

(* The same, of every step of every handler. *)
LEMMA PutsAreOwned ==
    ASSUME IndInv, [Next]_vars
    PROVE  \A q \in Handlers : PutFrom(q)
<1> USE DEF IndInv
<1>1. ASSUME NEW r \in Handlers, NEW rep, Answer(r, rep)
      PROVE  \A q \in Handlers : PutFrom(q)
  <2>1. \A q \in Handlers \ {r} : up'[q] = up[q] /\ req'[q] = req[q]
      BY <1>1 DEF TypeOK, Answer, Leave
  <2> QED
      BY <1>1, <2>1, NotPut
<1>2. ASSUME NEW r \in Handlers, NEW label \in InitLabels \cup FinLabels, Goto(r, label),
             up' = up \/ \A q \in Handlers \ {r} : up'[q] = up[q]
      PROVE  \A q \in Handlers : PutFrom(q)
  <2>1. \A q \in Handlers \ {r} : req'[q] = req[q]
      BY <1>2 DEF Goto
  <2> QED
      BY <1>2, <2>1, NotPut
<1>3. ASSUME NEW r \in Handlers, Arrive(r)
      PROVE  \A q \in Handlers : PutFrom(q)
  <2>1. CASE \E rep : Answer(r, rep)
      BY <1>1, <2>1
  <2>2. CASE ~\E rep : Answer(r, rep)
    <3>1. ASSUME NEW d, NEW b, NEW decl, InitStart(r, d, b, decl)
          PROVE  \A q \in Handlers : PutFrom(q)
      <4>1. Begin(r, "init.find_session") /\ up' = up /\ \A q \in Handlers \ {r} : req'[q] = req[q]
          BY <2>2, <3>1 DEF InitStart, locals, TypeOK
      <4>2. "init.find_session" \in InitLabels
          BY DEF InitLabels
      <4> QED
          BY <4>1, <4>2, NotPut
    <3>2. ASSUME NEW d, NEW u, NEW c, FinStart(r, d, u, c)
          PROVE  \A q \in Handlers : PutFrom(q)
      <4>1. /\ \E l \in {"fin.find_session", "fin.hash"} : Begin(r, l)
            /\ \A q \in Handlers \ {r} : req'[q] = req[q] /\ up'[q] = up[q]
          BY <2>2, <3>2 DEF FinStart, Refuse, TypeOK
      <4>2. "fin.find_session" \in FinLabels /\ "fin.hash" \in FinLabels
          BY DEF FinLabels
      <4> QED
          BY <4>1, <4>2, NotPut
    <3>3. ASSUME NEW d, NEW u \in Uuids, NEW off, NEW len, NEW c, PutStart(r, d, u, off, len, c)
          PROVE  \A q \in Handlers : PutFrom(q)
      <4>1. /\ uploads[u] # NoRow /\ uploads[u].dev = d
            /\ req' = [req EXCEPT ![r] = [op |-> "put", dev |-> d, off |-> off,
                                          len |-> len, body |-> c]]
            /\ up' = [up EXCEPT ![r] = u] /\ pc' = [pc EXCEPT ![r] = "put.reserve"]
          BY <2>2, <3>3 DEF PutStart, Refuse, Begin
      <4>2. up'[r] = u /\ req'[r].dev = d
          BY <4>1 DEF TypeOK
      <4>3. \A q \in Handlers \ {r} : pc'[q] = pc[q] /\ up'[q] = up[q] /\ req'[q] = req[q]
          BY <4>1 DEF TypeOK
      <4> QED
          BY <4>1, <4>2, <4>3 DEF PutFrom
    <3> QED
        BY <1>3, <3>1, <3>2, <3>3 DEF Arrive
  <2> QED
      BY <2>1, <2>2
<1>4. ASSUME NEW r \in Handlers,
             \/ InitFindSession(r) \/ InitFindResumable(r) \/ InitCreateStaging(r)
             \/ InitInsertUpload(r)
      PROVE  \A q \in Handlers : PutFrom(q)
  <2>1. CASE \E rep : Answer(r, rep)
      BY <1>1, <2>1
  <2>2. CASE ~\E rep : Answer(r, rep)
    <3>1. /\ \E l \in {"init.find_resumable", "init.create_staging", "init.insert_upload"} :
               Goto(r, l)
          /\ \A q \in Handlers \ {r} : up'[q] = up[q]
        BY <1>4, <2>2 DEF InitFindSession, InitFindResumable, InitCreateStaging,
                          InitInsertUpload, locals, TypeOK
    <3> QED
        BY <1>2, <3>1 DEF InitLabels
  <2> QED
      BY <2>1, <2>2
<1>5. ASSUME NEW r \in Handlers,
             PutReserve(r) \/ PutReread(r) \/ PutWrite(r) \/ PutWriteFails(r)
      PROVE  \A q \in Handlers : PutFrom(q)
  <2>1. CASE \E rep : Answer(r, rep)
      BY <1>1, <2>1
  <2>2. CASE ~\E rep : Answer(r, rep)
    <3>1. pc[r] = "put.reserve" /\ up' = up /\ req' = req /\ \A q \in Handlers \ {r} : pc'[q] = pc[q]
        BY <1>5, <2>2 DEF PutReserve, PutReread, PutWrite, PutWriteFails, Refuse, Goto,
                          locals, TypeOK
    <3> QED
        BY <3>1 DEF PutFrom, PutLabels
  <2> QED
      BY <2>1, <2>2
<1>6. ASSUME NEW r \in Handlers,
             \/ FinFindSession(r) \/ FinHash(r) \/ FinDiscard(r) \/ FinRehash(r)
             \/ FinCopy(r) \/ FinRemove(r) \/ FinMark(r) \/ FinInsert(r)
             \/ FinFindWinner(r) \/ FinPermit(r)
      PROVE  \A q \in Handlers : PutFrom(q)
  <2>1. CASE \E rep : Answer(r, rep)
      BY <1>1, <2>1
  <2>2. CASE ~\E rep : Answer(r, rep)
    <3>1. ~(FinFindSession(r) \/ FinDiscard(r) \/ FinFindWinner(r) \/ FinPermit(r))
        BY <2>2 DEF FinFindSession, FinDiscard, FinFindWinner, FinPermit, Report
    <3>2. CASE FinHash(r) \/ FinRehash(r) \/ FinCopy(r)
      <4>1. up' = up /\ \E l \in {"fin.discard", "fin.rehash", "fin.copy", "fin.remove"} : Goto(r, l)
          BY <2>2, <3>2 DEF FinHash, FinRehash, FinCopy, Refuse, locals
      <4> QED
          BY <1>2, <4>1 DEF FinLabels
    <3>3. CASE FinRemove(r) \/ FinMark(r) \/ FinInsert(r)
      <4>1. up' = up /\ \E l \in {"fin.mark", "fin.insert", "fin.permit", "fin.find_winner"} : Goto(r, l)
          BY <3>3 DEF FinRemove, FinMark, FinInsert, locals
      <4> QED
          BY <1>2, <4>1 DEF FinLabels
    <3> QED
        BY <1>6, <3>1, <3>2, <3>3
  <2> QED
      BY <2>1, <2>2
<1>7. ASSUME NEW r \in Handlers, StorageFailure(r) \/ Disconnect(r)
      PROVE  \A q \in Handlers : PutFrom(q)
    BY <1>1, <1>7 DEF StorageFailure, Disconnect, Refuse
<1>8. CASE (\E s \in Uuids : ParseEnd(s)) \/ UNCHANGED vars
    BY <1>8 DEF ParseEnd, locals, vars, PutFrom
<1>9. CASE Crash
    BY <1>9 DEF Crash, PutFrom, PutLabels
<1>10. ASSUME NEW r \in Handlers, Step(r)
       PROVE  \A q \in Handlers : PutFrom(q)
    BY <1>4, <1>5, <1>6, <1>10 DEF Step
<1> QED
    BY <1>3, <1>5, <1>7, <1>8, <1>9, <1>10 DEF Next

(* No step lets a PUT work on another device's upload. *)
LEMMA OwnerStep == IndInv /\ OwnerInv /\ [Next]_vars => OwnerInv'
<1> SUFFICES ASSUME IndInv, OwnerInv, [Next]_vars, NEW r \in Handlers, pc'[r] \in PutLabels
             PROVE  uploads'[up'[r]].dev = req'[r].dev
    BY DEF OwnerInv, PutOwner
<1>1. UploadsStay
    BY ServerRows DEF TableStep
<1>2. PutFrom(r)
    BY PutsAreOwned
<1>3. up'[r] \in Uuids /\ uploads[up'[r]] # NoRow /\ uploads[up'[r]].dev = req'[r].dev
    BY <1>2 DEF PutFrom, OwnerInv, PutOwner, IndInv, Shape, PutShape
<1> QED
    BY <1>1, <1>3 DEF UploadsStay

(* Who changes the row or the staged file of an existing upload. *)
LEMMA OwnerChanges == IndInv /\ OwnerInv /\ [Next]_vars => ChangedByOwner
<1> SUFFICES ASSUME IndInv, OwnerInv, [Next]_vars, NEW u \in Uuids, uploads[u] # NoRow,
                    uploads'[u] # uploads[u] \/ staging'[u] # staging[u]
             PROVE  \E r \in Handlers : up[r] = u /\ req[r].dev = uploads[u].dev
    BY DEF ChangedByOwner
<1>1. \A r \in Handlers : pc[r] \in PutLabels \cup FinLabels =>
         up[r] \in Uuids /\ req[r].dev = uploads[up[r]].dev
    BY DEF IndInv, OwnerInv, PutOwner, Shape, PutShape, FinShape
<1>2. ASSUME NEW r \in Handlers, pc[r] \in PutLabels \cup FinLabels,
             \A v \in Uuids \ {up[r]} : uploads'[v] = uploads[v] /\ staging'[v] = staging[v]
      PROVE  up[r] = u /\ req[r].dev = uploads[u].dev
    BY <1>1, <1>2
<1>3. ASSUME NEW r \in Handlers,
             \/ Arrive(r) \/ InitFindSession(r) \/ InitFindResumable(r) \/ PutReread(r)
             \/ FinFindSession(r) \/ FinHash(r) \/ FinRehash(r) \/ FinCopy(r) \/ FinInsert(r)
             \/ FinFindWinner(r) \/ FinPermit(r) \/ StorageFailure(r) \/ Disconnect(r)
      PROVE  FALSE
  <2>1. CASE \/ Arrive(r) \/ InitFindSession(r) \/ InitFindResumable(r) \/ PutReread(r)
             \/ StorageFailure(r) \/ Disconnect(r)
      BY <2>1 DEF Arrive, InitStart, PutStart, FinStart, InitFindSession, InitFindResumable,
                  PutReread, StorageFailure, Disconnect, Refuse, stored
  <2>2. CASE ~(\/ Arrive(r) \/ InitFindSession(r) \/ InitFindResumable(r) \/ PutReread(r)
               \/ StorageFailure(r) \/ Disconnect(r))
      BY <1>3, <2>2 DEF FinFindSession, FinHash, FinRehash, FinCopy, FinInsert, FinFindWinner,
                        FinPermit, Refuse, stored
  <2> QED
      BY <2>1, <2>2
<1>4. CASE (\E s \in Uuids : ParseEnd(s)) \/ Crash \/ UNCHANGED vars
    BY <1>4 DEF ParseEnd, Crash, stored, vars
<1>5. ASSUME NEW r \in Handlers, InitCreateStaging(r)  PROVE FALSE
  <2>1. PICK v \in FreshUpload : staging' = [staging EXCEPT ![v] = EmptyFile]
      BY <1>5 DEF InitCreateStaging
  <2>2. v # u /\ uploads' = uploads
      BY <1>5, <2>1 DEF FreshUpload, InitCreateStaging
  <2> QED
      BY <2>1, <2>2 DEF IndInv, TypeOK
<1>6. ASSUME NEW r \in Handlers, InitInsertUpload(r)  PROVE FALSE
  <2>1. uploads[up[r]] = NoRow /\ staging' = staging
      BY <1>6 DEF InitInsertUpload, IndInv, Shape, InitShape
  <2>2. PICK new : uploads' = [uploads EXCEPT ![up[r]] = new]
      BY <1>6 DEF InitInsertUpload
  <2> QED
      BY <2>1, <2>2 DEF IndInv, TypeOK
<1>7. ASSUME NEW r \in Handlers, PutReserve(r) \/ PutWrite(r) \/ PutWriteFails(r)
      PROVE  up[r] = u /\ req[r].dev = uploads[u].dev
  <2>1. pc[r] \in PutLabels \cup FinLabels
      BY <1>7 DEF PutReserve, PutWrite, PutWriteFails, PutLabels
  <2>2. /\ \/ uploads' = uploads
           \/ \E x : uploads' = [uploads EXCEPT ![up[r]] = x]
        /\ \/ staging' = staging
           \/ \E x : staging' = [staging EXCEPT ![up[r]] = x]
      BY <1>7 DEF PutReserve, PutWrite, PutWriteFails, Refuse, stored
  <2> QED
      BY <1>2, <2>1, <2>2 DEF IndInv, TypeOK
<1>8. ASSUME NEW r \in Handlers, FinDiscard(r) \/ FinRemove(r) \/ FinMark(r)
      PROVE  up[r] = u /\ req[r].dev = uploads[u].dev
  <2>1. pc[r] \in PutLabels \cup FinLabels
      BY <1>8 DEF FinDiscard, FinRemove, FinMark, FinLabels
  <2>2. /\ \/ uploads' = uploads
           \/ \E x : uploads' = [uploads EXCEPT ![up[r]] = x]
        /\ \/ staging' = staging
           \/ \E x : staging' = [staging EXCEPT ![up[r]] = x]
      BY <1>8 DEF FinDiscard, FinRemove, FinMark, stored
  <2> QED
      BY <1>2, <2>1, <2>2 DEF IndInv, TypeOK
<1>9. ASSUME NEW r \in Handlers, Step(r)
      PROVE  \E q \in Handlers : up[q] = u /\ req[q].dev = uploads[u].dev
    BY <1>3, <1>5, <1>6, <1>7, <1>8, <1>9 DEF Step
<1> QED
    BY <1>3, <1>4, <1>7, <1>9 DEF Next

(* Only a request of the device that opened an upload ever changes its row or
   its staged bytes, although PUT and finalize name nothing but the upload id. *)
THEOREM OwnersOnly == HonestDecls => (Spec => OnlyOwner)
<1> SUFFICES ASSUME HonestDecls PROVE Spec => OnlyOwner
    OBVIOUS
<1>1. Spec => []IndInv
    BY Inductive
<1>2. Init => OwnerInv
    BY DEF Init, OwnerInv, PutOwner, PutLabels
<1>3. IndInv /\ OwnerInv /\ [Next]_vars => OwnerInv'
    BY OwnerStep
<1>4. IndInv /\ OwnerInv /\ [Next]_vars => [ChangedByOwner]_vars
    BY OwnerChanges
<1> QED
    BY <1>1, <1>2, <1>3, <1>4, PTL DEF Spec, OnlyOwner

-----------------------------------------------------------------------------
(* The parse semaphore.                                                    *)

(* Every step keeps the count of permits. *)
LEMMA PermitStep == IndInv /\ PermitInv /\ [Next]_vars => PermitInv'
<1> SUFFICES ASSUME IndInv, PermitInv, [Next]_vars PROVE PermitInv'
    OBVIOUS
<1>1. ASSUME NEW r \in Handlers, UNCHANGED <<permits, parsing>>,
             NEW l, l # "fin.permit", pc' = [pc EXCEPT ![r] = l],
             \A q \in Handlers : q # r => sid'[q] = sid[q]
      PROVE  PermitInv'
    BY <1>1 DEF PermitInv, PermitsConserved, IndInv, TypeOK
<1>2. ASSUME NEW r \in Handlers, NEW rep, Answer(r, rep), UNCHANGED <<permits, parsing>>
      PROVE  PermitInv'
  <2>1. \A q \in Handlers : q # r => sid'[q] = sid[q]
      BY <1>2 DEF Answer, Leave, IndInv, TypeOK
  <2> QED BY <1>1, <1>2, <2>1 DEF Answer
<1>3. ASSUME NEW r \in Handlers, NEW l, l # "fin.permit", Goto(r, l) \/ Begin(r, l),
             UNCHANGED <<permits, parsing, sid>>
      PROVE  PermitInv'
    BY <1>1, <1>3 DEF Goto, Begin
<1>4. ASSUME NEW r \in Handlers, Arrive(r)
      PROVE  PermitInv'
  <2>1. ASSUME NEW d \in Devices, NEW b \in Bundles, NEW decl \in Decls, InitStart(r, d, b, decl)
        PROVE  PermitInv'
      BY <1>2, <1>3, <2>1 DEF InitStart, worker, locals
  <2>2. ASSUME NEW d \in Devices, NEW u \in Uuids, NEW off, NEW len, NEW c \in Contents,
               PutStart(r, d, u, off, len, c)
        PROVE  PermitInv'
      BY <1>2, <1>3, <2>2 DEF PutStart, Refuse, worker
  <2>3. ASSUME NEW d \in Devices, NEW u \in Uuids, NEW c \in Contents, FinStart(r, d, u, c)
        PROVE  PermitInv'
      BY <1>2, <1>3, <2>3 DEF FinStart, Refuse, worker
  <2> QED BY <1>4, <2>1, <2>2, <2>3 DEF Arrive
<1>5. ASSUME NEW r \in Handlers, FinHash(r)
      PROVE  PermitInv'
  <2>1. CASE \E kind \in ErrorKinds : Refuse(r, kind)
      BY <1>2, <2>1 DEF Refuse, worker
  <2>2. CASE Goto(r, "fin.discard") /\ UNCHANGED <<stored, worker, locals>>
      BY <1>3, <2>2 DEF worker, locals
  <2>3. ASSUME NEW s \in FreshSession, sid' = [sid EXCEPT ![r] = s], Goto(r, "fin.rehash"),
               UNCHANGED worker
        PROVE  PermitInv'
    <3>1. \A q \in Handlers : q # r => sid'[q] = sid[q]
        BY <2>3 DEF IndInv, TypeOK
    <3> QED BY <1>1, <2>3, <3>1 DEF Goto, worker
  <2> QED BY <1>5, <2>1, <2>2, <2>3 DEF FinHash, ErrorKinds
<1>6. ASSUME NEW r \in Handlers, FinInsert(r)
      PROVE  PermitInv'
  <2>1. CASE Goto(r, "fin.find_winner") /\ UNCHANGED <<stored, worker, locals>>
      BY <1>3, <2>1 DEF worker, locals
  <2>2. CASE Goto(r, "fin.permit") /\ UNCHANGED <<worker, locals>>
    <3>1. sid[r] \notin parsing
        BY <1>6 DEF FinInsert, IndInv, MintedOnce, ParsingRows, AfterVerify
    <3> QED
        BY <2>2, <3>1 DEF Goto, worker, locals, PermitInv, PermitsConserved, IndInv, TypeOK
  <2> QED BY <1>6, <2>1, <2>2 DEF FinInsert, locals
<1>7. ASSUME NEW r \in Handlers, FinPermit(r)
      PROVE  PermitInv'
  <2>1. /\ permits \in Nat /\ permits > 0 /\ permits' = permits - 1
        /\ parsing' = parsing \cup {sid[r]} /\ sid[r] \notin parsing
        /\ sid[r] # NoId
      BY <1>7, NoneAssumption DEF FinPermit, IndInv, TypeOK, PermitInv, MintedOnce, AfterVerify, Uuids
  <2>2. IsFiniteSet(parsing') /\ Cardinality(parsing') = Cardinality(parsing) + 1
      BY <2>1, FS_AddElement DEF PermitInv
  <2>3. Cardinality(parsing) \in Nat
      BY FS_CardinalityType DEF PermitInv
  <2>4. PermitsConserved'
      BY <2>1, <2>2, <2>3, SlotsAssumption DEF PermitInv, PermitsConserved
  <2>5. \A q \in Handlers : pc'[q] = "fin.permit" => sid'[q] \notin parsing'
      BY <1>7, <2>1 DEF FinPermit, Report, Answer, Leave, IndInv, TypeOK, MintedOnce, PermitInv
  <2> QED BY <2>2, <2>4, <2>5 DEF PermitInv
<1>8. ASSUME NEW r \in Handlers, Step(r)
      PROVE  PermitInv'
  <2>1. CASE InitFindSession(r) \/ InitFindResumable(r)
      BY <1>2, <1>3, <2>1 DEF InitFindSession, InitFindResumable, worker, locals
  <2>2. CASE InitCreateStaging(r) \/ InitInsertUpload(r)
      BY <1>2, <1>3, <2>2 DEF InitCreateStaging, InitInsertUpload, worker
  <2>3. CASE PutReserve(r) \/ PutReread(r)
      BY <1>2, <1>3, <2>3 DEF PutReserve, PutReread, worker, locals
  <2>4. CASE PutWrite(r)
      BY <1>2, <2>4 DEF PutWrite, Refuse, worker
  <2>5. CASE FinFindSession(r) \/ FinFindWinner(r) \/ FinDiscard(r)
      BY <1>2, <2>5 DEF FinFindSession, FinFindWinner, FinDiscard, Report, worker
  <2>6. CASE FinRehash(r) \/ FinCopy(r)
      BY <1>2, <1>3, <2>6 DEF FinRehash, FinCopy, Refuse, worker, locals
  <2>7. CASE FinRemove(r) \/ FinMark(r)
      BY <1>3, <2>7 DEF FinRemove, FinMark, worker, locals
  <2> QED
      BY <1>5, <1>6, <1>7, <1>8, <2>1, <2>2, <2>3, <2>4, <2>5, <2>6, <2>7 DEF Step
<1>9. ASSUME NEW r \in Handlers, PutWriteFails(r) \/ StorageFailure(r) \/ Disconnect(r)
      PROVE  PermitInv'
    BY <1>2, <1>9 DEF PutWriteFails, StorageFailure, Disconnect, Refuse, worker
<1>10. ASSUME NEW s \in Uuids, ParseEnd(s)
       PROVE  PermitInv'
  <2>1. s \in parsing /\ parsing' = parsing \ {s} /\ permits' = permits + 1 /\ permits \in Nat
      BY <1>10 DEF ParseEnd, IndInv, TypeOK
  <2>2. IsFiniteSet(parsing') /\ Cardinality(parsing') = Cardinality(parsing) - 1
      BY <2>1, FS_RemoveElement DEF PermitInv
  <2>3. Cardinality(parsing) \in Nat
      BY FS_CardinalityType DEF PermitInv
  <2>4. PermitsConserved'
      BY <2>1, <2>2, <2>3, SlotsAssumption DEF PermitInv, PermitsConserved
  <2> QED
      BY <1>10, <2>1, <2>2, <2>4 DEF PermitInv, ParseEnd, locals
<1>11. CASE Crash
  <2>1. Cardinality({}) = 0 /\ IsFiniteSet({})
      BY FS_EmptySet
  <2> QED
      BY <1>11, <2>1, SlotsAssumption DEF Crash, PermitInv, PermitsConserved
<1>12. CASE UNCHANGED vars
    BY <1>12 DEF vars, PermitInv, PermitsConserved
<1> QED
    BY <1>4, <1>8, <1>9, <1>10, <1>11, <1>12 DEF Next

(* The parse semaphore never leaks or duplicates a permit: free permits and
   running workers always add up to ParseSlots. *)
THEOREM PermitsStay == HonestDecls => (Spec => []PermitsConserved)
<1> SUFFICES ASSUME HonestDecls PROVE Spec => []PermitsConserved
    OBVIOUS
<1>1. Spec => []IndInv
    BY Inductive
<1>2. Init => PermitInv
    BY FS_EmptySet, SlotsAssumption DEF Init, PermitInv, PermitsConserved
<1>3. IndInv /\ PermitInv /\ [Next]_vars => PermitInv'
    BY PermitStep
<1>4. PermitInv => PermitsConserved
    BY DEF PermitInv
<1> QED
    BY <1>1, <1>2, <1>3, <1>4, PTL DEF Spec

=============================================================================
