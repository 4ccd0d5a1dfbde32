------------------------ MODULE UploadSystemProofs ------------------------
(***************************************************************************)
(* Proofs about UploadSystem: the agent's queue and uploader against the   *)
(* server's ingest, for any number of bundles, handlers, chunk sizes and   *)
(* retries and any pattern of faults.  The server's side rests on the      *)
(* inductive invariant of module IngestProofs.                             *)
(***************************************************************************)
EXTENDS UploadSystem, IngestProofs

-----------------------------------------------------------------------------
(* The inductive invariant.                                                *)

Entries == [state : A!QueueStates, attempts : Nat, elapsed : BOOLEAN, since : EnqueueTimes]

\* Every row and every request for an upload is the agent's, and says what the
\* bundle's zip contains.
OnlyAgent ==
  /\ \A u \in Uuids : uploads[u] # NoRow =>
       /\ u \in UploadIds
       /\ uploads[u].dev = Device
       /\ zip[uploads[u].bundle] # "none"
       /\ uploads[u].decl = DeclOf(uploads[u].bundle)
  /\ \A r \in Handlers : pc[r] \in InitLabels =>
       /\ req[r].dev = Device
       /\ zip[req[r].bundle] # "none"
       /\ req[r].decl = DeclOf(req[r].bundle)
  /\ \A s \in Uuids : sessions[s] # NoRow => s \in SessionIds
  /\ \A r \in Handlers : pc[r] = "fin.permit" => sid[r] \in SessionsOf(req[r].dev, snap[r].bundle)

\* An id the agent may go on with: the id of a session init found, or that of
\* an upload of the bundle it works on.
Usable(id) == \/ id \in SessionIds
              \/ id \in Uuids /\ uploads[id] # NoRow /\ uploads[id].bundle = cur

\* The answer the agent waits for is to its own request.
Answered ==
  conn # NoConn =>
    /\ flying
    /\ at = "init" =>
         \/ pc[conn] \in InitLabels /\ req[conn].bundle = cur
         \/ pc[conn] = "idle" /\ (reply[conn] # NoReply /\ reply[conn].kind = "upload" =>
                                    Usable(reply[conn].id))
    /\ at = "finalize" =>
         \/ pc[conn] \in FinLabels /\ snap[conn].bundle = cur
         \/ pc[conn] = "idle" /\ (reply[conn] # NoReply /\ reply[conn].kind = "session" =>
                                    SessionsOf(Device, cur) # {})

\* Where the task loop is, and what its bundle's entry says there.
LoopPlace ==
  /\ at = "idle" => cur = NoBundle
  /\ at # "idle" => cur \in Bundles
  /\ at = "enqueue" => sidecar[cur] = NoEntry /\ zip[cur] = "queued"
  /\ at = "mark" => StateOf(cur) \in {"Pending", "Failed"}
  /\ at \in A!Calls \cup {"mark_done", "mark_failed"} => StateOf(cur) = "Uploading"
  /\ at = "purge" => StateOf(cur) \in {"Uploading", "Done", "Failed"} /\ zip[cur] = "queued"
  /\ at = "chunk" => off < Size[cur]
  /\ at \in {"chunk", "finalize"} => Usable(uid)
  /\ at = "mark_done" => SessionsOf(Device, cur) # {}
  /\ flying => at \in A!Calls

\* The zip is there from collection until the entry is Done, and an entry is
\* Done only once the server has the session.
QueueTruth ==
  \A b \in Bundles :
    /\ zip[b] = "none" => sidecar[b] = NoEntry
    /\ zip[b] = "removed" => StateOf(b) = "Done"
    /\ StateOf(b) = "Done" => SessionsOf(Device, b) # {}

SysInv ==
  /\ IndInv
  /\ SysTypeOK
  /\ OnlyAgent
  /\ Answered
  /\ LoopPlace
  /\ QueueTruth

-----------------------------------------------------------------------------
(* What a step of one handler does to it.                                  *)

Others(r) ==
  \A q \in Handlers \ {r} : /\ pc'[q] = pc[q] /\ req'[q] = req[q] /\ snap'[q] = snap[q]
                            /\ sid'[q] = sid[q] /\ reply'[q] = reply[q]

\* After the step s is a session of d and b.
Commits(s, d, b) == /\ s \in Uuids /\ sessions'[s] # NoRow
                    /\ sessions'[s].dev = d /\ sessions'[s].bundle = b

\* A handler goes on with its request, or ends with an answer that is true of
\* the tables.
HandlerStep(r) ==
  /\ Others(r)
  /\ pc'[r] \in InitLabels => pc[r] \in InitLabels /\ req'[r] = req[r]
  /\ pc'[r] \in FinLabels => pc[r] \in FinLabels /\ snap'[r] = snap[r] /\ req'[r] = req[r]
  /\ pc'[r] = "fin.permit" => Commits(sid'[r], req[r].dev, snap[r].bundle)
  /\ pc[r] \in InitLabels =>
       \/ pc'[r] \in InitLabels
       \/ pc'[r] = "idle" /\ (reply'[r] # NoReply /\ reply'[r].kind = "upload" =>
            \/ reply'[r].id \in SessionsOf(req[r].dev, req[r].bundle)
            \/ /\ reply'[r].id \in Uuids /\ uploads'[reply'[r].id] # NoRow
               /\ uploads'[reply'[r].id].bundle = req[r].bundle)
  /\ pc[r] \in FinLabels =>
       \/ pc'[r] \in FinLabels
       \/ pc'[r] = "idle" /\ (reply'[r] # NoReply /\ reply'[r].kind = "session" =>
            \E s \in Uuids : Commits(s, req[r].dev, snap[r].bundle))

\* The labels of the three handlers are different.
LEMMA Labels ==
  /\ InitLabels \cap FinLabels = {} /\ "idle" \notin InitLabels /\ "idle" \notin FinLabels
  /\ PutLabels \cap InitLabels = {} /\ PutLabels \cap FinLabels = {}
  BY DEF InitLabels, FinLabels, PutLabels

\* An answer ends the handler and touches no other.
LEMMA AnswerFrame ==
  ASSUME TypeOK, NEW r \in Handlers, NEW rep, Answer(r, rep)
  PROVE  pc'[r] = "idle" /\ reply'[r] = rep /\ Others(r)
  BY DEF TypeOK, Answer, Leave, Others

\* An error tells the agent nothing.
LEMMA ErrorStep ==
  ASSUME TypeOK, NEW r \in Handlers, NEW rep, Answer(r, rep),
         rep # NoReply => rep.kind \notin {"upload", "session"}
  PROVE  HandlerStep(r)
  <1>1. pc'[r] = "idle" /\ reply'[r] = rep /\ Others(r)  BY AnswerFrame
  <1>2. "idle" # "fin.permit"  OBVIOUS
  <1> QED BY <1>1, <1>2, Labels DEF HandlerStep

\* The kinds of error answers.
LEMMA ErrKind ==
  ASSUME NEW kind, NEW id, NEW n  PROVE Rep(kind, id, n).kind = kind /\ Rep(kind, id, n).id = id
  BY DEF Rep

\* A handler that refuses.
LEMMA RefuseHandler ==
  ASSUME TypeOK, NEW r \in Handlers, NEW kind \in ErrorKinds, Refuse(r, kind)
  PROVE  HandlerStep(r)
  <1>1. Err(kind).kind = kind  BY ErrKind DEF Err
  <1>2. kind \notin {"upload", "session"}  BY DEF ErrorKinds
  <1> QED BY <1>1, <1>2, ErrorStep DEF Refuse

\* A handler that goes on, with its request and the row it read.
LEMMA GotoStep ==
  ASSUME TypeOK, NEW r \in Handlers, NEW label, label # "fin.permit", Goto(r, label),
         snap' = snap, \A q \in Handlers \ {r} : sid'[q] = sid[q],
         \/ pc[r] \in InitLabels /\ label \in InitLabels
         \/ pc[r] \in FinLabels /\ label \in FinLabels
         \/ pc[r] \in PutLabels /\ label \in PutLabels
  PROVE  HandlerStep(r)
  <1>1. pc'[r] = label /\ Others(r) /\ req' = req
    BY DEF TypeOK, Goto, Others
  <1> QED BY <1>1, Labels DEF HandlerStep

\* The steps of init.
LEMMA InitHandler ==
  ASSUME IndInv, NEW r \in Handlers,
         \/ InitFindSession(r) \/ InitFindResumable(r)
         \/ InitCreateStaging(r) \/ InitInsertUpload(r)
  PROVE  HandlerStep(r)
  <1>1. TypeOK  BY DEF IndInv
  <1>2. CASE InitFindSession(r)
    <2>1. ASSUME NEW s \in SessionsOf(req[r].dev, req[r].bundle),
                 Answer(r, Rep("upload", s, sessions[s].size))
          PROVE  HandlerStep(r)
      <3>1. pc'[r] = "idle" /\ reply'[r].id = s /\ Others(r)
        BY <1>1, <2>1, AnswerFrame, ErrKind
      <3> QED BY <3>1, <1>2, Labels DEF HandlerStep, InitFindSession, InitLabels
    <2>2. CASE Goto(r, "init.find_resumable") /\ UNCHANGED <<stored, worker, locals>>
      BY <1>1, <1>2, <2>2, GotoStep DEF InitFindSession, InitLabels, locals
    <2> QED BY <1>2, <2>1, <2>2 DEF InitFindSession
  <1>3. CASE InitFindResumable(r)
    <2>1. ASSUME NEW u \in Resumable(req[r].dev, req[r].bundle), UNCHANGED <<stored, worker>>,
                 Answer(r, Rep("upload", u, uploads[u].offset))
          PROVE  HandlerStep(r)
      <3>1. pc'[r] = "idle" /\ reply'[r].id = u /\ Others(r)
        BY <1>1, <2>1, AnswerFrame, ErrKind
      <3>2. u \in Uuids /\ uploads'[u] # NoRow /\ uploads'[u].bundle = req[r].bundle
        BY <2>1 DEF Resumable, OpenUploads, stored
      <3> QED BY <3>1, <3>2, <1>3, Labels DEF HandlerStep, InitFindResumable, InitLabels
    <2>2. CASE Answer(r, Err("conflict"))
      BY <1>1, <2>2, ErrorStep, ErrKind DEF Err
    <2>3. CASE Goto(r, "init.create_staging") /\ UNCHANGED <<stored, worker, locals>>
      BY <1>1, <1>3, <2>3, GotoStep DEF InitFindResumable, InitLabels, locals
    <2> QED BY <1>3, <2>1, <2>2, <2>3 DEF InitFindResumable
  <1>4. CASE InitCreateStaging(r)
    BY <1>1, <1>4, GotoStep DEF InitCreateStaging, InitLabels
  <1>5. CASE InitInsertUpload(r)
    <2>1. Answer(r, Rep("upload", up[r], 0)) /\ pc[r] = "init.insert_upload"
      BY <1>5 DEF InitInsertUpload
    <2>2. pc'[r] = "idle" /\ reply'[r].id = up[r] /\ Others(r)
      BY <1>1, <2>1, AnswerFrame, ErrKind
    <2>3. up[r] \in Uuids /\ uploads[up[r]] = NoRow /\ req[r] \in InitReq
      BY <2>1 DEF IndInv, Shape, InitShape, InitLabels, Uuids
    <2>4. IndInv'  BY <1>5, InitInsertUploadInv
    <2>5. PICK now \in Times :
            uploads' = [uploads EXCEPT ![up[r]] =
                          [dev |-> req[r].dev, bundle |-> req[r].bundle,
                           decl |-> req[r].decl, offset |-> 0,
                           created |-> now, finalized |-> 0]]
      BY <1>5 DEF InitInsertUpload
    <2>6. PICK new : new = [dev |-> req[r].dev, bundle |-> req[r].bundle,
                            decl |-> req[r].decl, offset |-> 0,
                            created |-> now, finalized |-> 0]
      OBVIOUS
    <2>7. uploads' = [uploads EXCEPT ![up[r]] = new]  BY <2>5, <2>6, Zenon
    <2>8. uploads'[up[r]] = new  BY <1>1, <2>3, <2>7 DEF TypeOK
    <2>9. new.bundle = req[r].bundle  BY <2>6
    <2>10. new # NoRow
      <3>1. \A n \in 0 .. MaxSize, m \in {0, 1} :
              [dev |-> req[r].dev, bundle |-> req[r].bundle, decl |-> req[r].decl,
               offset |-> n, created |-> now, finalized |-> m] \in UploadRow
        BY <2>3 DEF InitReq, UploadRow
      <3>2. 0 \in 0 .. MaxSize /\ 0 \in {0, 1}  BY SizeAssumption
      <3>3. new \in UploadRow  BY <2>6, <3>1, <3>2, Zenon
      <3> QED BY <3>3, NoneAssumption
    <2> QED BY <2>1, <2>2, <2>3, <2>8, <2>9, <2>10, Labels DEF HandlerStep, InitLabels
  <1> QED BY <1>2, <1>3, <1>4, <1>5

\* The steps of put_chunk.
LEMMA PutHandler ==
  ASSUME IndInv, NEW r \in Handlers,
         PutReserve(r) \/ PutReread(r) \/ PutWrite(r) \/ PutWriteFails(r)
  PROVE  HandlerStep(r)
  <1>1. TypeOK  BY DEF IndInv
  <1>2. CASE PutReserve(r)
    BY <1>1, <1>2, GotoStep DEF PutReserve, PutLabels, locals
  <1>3. CASE PutReread(r)
    BY <1>1, <1>3, ErrorStep, ErrKind DEF PutReread
  <1>4. CASE PutWrite(r)
    BY <1>1, <1>4, ErrorStep, RefuseHandler, ErrKind DEF PutWrite, ErrorKinds
  <1>5. CASE PutWriteFails(r)
    BY <1>1, <1>5, ErrorStep, ErrKind DEF PutWriteFails, Err
  <1> QED BY <1>2, <1>3, <1>4, <1>5

\* finalize reports a session of its bundle.
LEMMA ReportStep ==
  ASSUME TypeOK, NEW r \in Handlers, pc[r] \in FinLabels,
         NEW s \in SessionsOf(req[r].dev, snap[r].bundle), Report(r, s), UNCHANGED stored
  PROVE  HandlerStep(r)
  <1>1. pc'[r] = "idle" /\ Others(r)  BY AnswerFrame DEF Report
  <1>2. Commits(s, req[r].dev, snap[r].bundle)
    BY DEF SessionsOf, Commits, stored
  <1>3. "idle" # "fin.permit" /\ s \in Uuids  BY DEF SessionsOf
  <1> QED BY <1>1, <1>2, <1>3, Labels DEF HandlerStep

\* The steps of finalize.
LEMMA FinHandler ==
  ASSUME IndInv, OnlyAgent, NEW r \in Handlers,
         \/ FinFindSession(r) \/ FinHash(r) \/ FinDiscard(r) \/ FinRehash(r)
         \/ FinCopy(r) \/ FinRemove(r) \/ FinMark(r) \/ FinInsert(r)
         \/ FinFindWinner(r) \/ FinPermit(r)
  PROVE  HandlerStep(r)
  <1>1. TypeOK  BY DEF IndInv
  <1>2. CASE FinFindSession(r)
    BY <1>1, <1>2, ReportStep, ErrorStep, ErrKind DEF FinFindSession, FinLabels, Err
  <1>3. CASE FinFindWinner(r)
    BY <1>1, <1>3, ReportStep, ErrorStep, ErrKind DEF FinFindWinner, FinLabels, Err
  <1>4. CASE FinPermit(r)
    <2>1. sid[r] \in SessionsOf(req[r].dev, snap[r].bundle)
      BY <1>4 DEF FinPermit, OnlyAgent
    <2> QED BY <1>1, <1>4, <2>1, ReportStep DEF FinPermit, FinLabels
  <1>5. CASE FinDiscard(r)
    BY <1>1, <1>5, ErrorStep, ErrKind DEF FinDiscard, Err
  <1>6. CASE FinHash(r)
    <2>1. CASE Refuse(r, "internal")  BY <1>1, <2>1, RefuseHandler DEF ErrorKinds
    <2>2. CASE Goto(r, "fin.discard") /\ UNCHANGED locals
      BY <1>1, <1>6, <2>2, GotoStep DEF FinHash, FinLabels, locals
    <2>3. ASSUME NEW s, sid' = [sid EXCEPT ![r] = s], Goto(r, "fin.rehash"), snap' = snap
          PROVE  HandlerStep(r)
      <3>1. \A q \in Handlers \ {r} : sid'[q] = sid[q]  BY <1>1, <2>3 DEF TypeOK
      <3> QED BY <1>1, <1>6, <2>3, <3>1, GotoStep DEF FinHash, FinLabels
    <2> QED BY <1>6, <2>1, <2>2, <2>3 DEF FinHash
  <1>7. CASE FinRehash(r) \/ FinCopy(r)
    <2>1. CASE Refuse(r, "internal")  BY <1>1, <2>1, RefuseHandler DEF ErrorKinds
    <2>2. CASE FinRehash(r) /\ ~Refuse(r, "internal")
      BY <1>1, <2>2, GotoStep DEF FinRehash, FinLabels
    <2>3. CASE FinCopy(r) /\ ~Refuse(r, "internal")
      BY <1>1, <2>3, GotoStep DEF FinCopy, FinLabels, locals
    <2> QED BY <1>7, <2>1, <2>2, <2>3
  <1>8. CASE FinRemove(r)
    BY <1>1, <1>8, GotoStep DEF FinRemove, FinLabels, locals
  <1>9. CASE FinMark(r)
    BY <1>1, <1>9, GotoStep DEF FinMark, FinLabels, locals
  <1>10. CASE FinInsert(r)
    <2>1. CASE Goto(r, "fin.find_winner") /\ UNCHANGED locals
      BY <1>1, <1>10, <2>1, GotoStep DEF FinInsert, FinLabels, locals
    <2>2. ASSUME Goto(r, "fin.permit"), UNCHANGED locals,
                 sessions' = [sessions EXCEPT ![sid[r]] =
                                [dev |-> req[r].dev, bundle |-> snap[r].bundle,
                                 size |-> handle[r].size, sha |-> handle[r].sha,
                                 parse |-> "pending"]]
          PROVE  HandlerStep(r)
      <3>1. /\ pc[r] = "fin.insert" /\ pc'[r] = "fin.permit" /\ Others(r)
            /\ req' = req /\ snap' = snap /\ sid' = sid
        BY <1>1, <1>10, <2>2 DEF FinInsert, Goto, Others, TypeOK, locals
      <3>2. sid[r] \in Uuids
        BY <3>1 DEF IndInv, MintedOnce, AfterVerify, Uuids
      <3>3. IndInv'  BY <1>10, FinInsertInv
      <3>4. sessions'[sid[r]] # NoRow
        BY <3>1, <3>3 DEF IndInv, MintedOnce, AfterVerify
      <3>5. sessions'[sid[r]].dev = req[r].dev /\ sessions'[sid[r]].bundle = snap[r].bundle
        BY <1>1, <2>2, <3>2 DEF TypeOK
      <3>6. Commits(sid'[r], req[r].dev, snap[r].bundle)
        BY <3>1, <3>2, <3>4, <3>5 DEF Commits
      <3> QED BY <3>1, <3>6, Labels DEF HandlerStep, FinLabels
    <2> QED BY <1>10, <2>1, <2>2 DEF FinInsert
  <1> QED BY <1>2, <1>3, <1>4, <1>5, <1>6, <1>7, <1>8, <1>9, <1>10

\* All of them, and what ends a handler early.
LEMMA AnyHandler ==
  ASSUME IndInv, OnlyAgent, NEW r \in Handlers,
         Step(r) \/ PutWriteFails(r) \/ StorageFailure(r) \/ Disconnect(r)
  PROVE  HandlerStep(r)
  <1>1. TypeOK  BY DEF IndInv
  <1>2. CASE Step(r)  BY <1>2, InitHandler, PutHandler, FinHandler DEF Step
  <1>3. CASE PutWriteFails(r)  BY <1>3, PutHandler
  <1>4. CASE StorageFailure(r)  BY <1>1, <1>4, RefuseHandler DEF StorageFailure, ErrorKinds
  <1>5. CASE Disconnect(r)  BY <1>1, <1>5, ErrorStep DEF Disconnect
  <1> QED BY <1>2, <1>3, <1>4, <1>5

-----------------------------------------------------------------------------
(* The steps of the server, seen by the agent.                             *)

\* The agent declares the length of what it hashed.
LEMMA Honest == HonestDecls
  BY SystemAssumption, LengthAssumption DEF DeclOf, Size, HonestDecls

\* What the agent declares and sends has the right type.
LEMMA BundleTypes ==
  ASSUME NEW b \in Bundles
  PROVE  /\ ContentOf[b] \in Contents /\ DeclOf(b) \in Decls
         /\ Size[b] = Length[ContentOf[b]] /\ Size[b] \in 1 .. MaxSize
         /\ DeclOf(b).sha = ContentOf[b] /\ DeclOf(b).size # 0
  BY SystemAssumption, LengthAssumption, SizeAssumption DEF DeclOf, Size

\* Uploads and sessions the agent relies on stay.
LEMMA Relied ==
  ASSUME TableStep
  PROVE  /\ \A id : Usable(id) /\ cur' = cur => Usable(id)'
         /\ \A b : SessionsOf(Device, b) # {} => SessionsOf(Device, b)' # {}
  BY DEF TableStep, UploadsStay, SessionsStay, Usable, SessionsOf

\* What only the tables decide.
LEMMA RowsOwned ==
  ASSUME OnlyAgent, TableStep, zip' = zip
  PROVE  /\ \A u \in Uuids : uploads'[u] # NoRow =>
              /\ u \in UploadIds
              /\ uploads'[u].dev = Device
              /\ zip'[uploads'[u].bundle] # "none"
              /\ uploads'[u].decl = DeclOf(uploads'[u].bundle)
         /\ \A s \in Uuids : sessions'[s] # NoRow => s \in SessionIds
  <1>1. ASSUME NEW u \in Uuids, uploads'[u] # NoRow
        PROVE  /\ u \in UploadIds
               /\ uploads'[u].dev = Device
               /\ zip'[uploads'[u].bundle] # "none"
               /\ uploads'[u].decl = DeclOf(uploads'[u].bundle)
    <2>1. CASE uploads[u] # NoRow
      BY <2>1 DEF OnlyAgent, TableStep, UploadsStay
    <2>2. CASE uploads[u] = NoRow
      <3>1. PICK r \in Handlers :
              /\ pc[r] = "init.insert_upload" /\ u \in UploadIds
              /\ uploads'[u].dev = req[r].dev
              /\ uploads'[u].bundle = req[r].bundle
              /\ uploads'[u].decl = req[r].decl
        BY <1>1, <2>2 DEF TableStep, UploadsBorn
      <3>2. "init.insert_upload" \in InitLabels  BY DEF InitLabels
      <3> QED BY <3>1, <3>2 DEF OnlyAgent
    <2> QED BY <2>1, <2>2
  <1>2. ASSUME NEW s \in Uuids, sessions'[s] # NoRow  PROVE s \in SessionIds
    BY <1>2 DEF OnlyAgent, TableStep, SessionsBorn
  <1> QED BY <1>1, <1>2

\* The agent's own part, when it does nothing.
LEMMA AgentWaits ==
  ASSUME SysInv, TableStep, UNCHANGED agentVars
  PROVE  LoopPlace' /\ QueueTruth'
  <1>1. /\ zip' = zip /\ sidecar' = sidecar /\ at' = at /\ cur' = cur /\ uid' = uid
        /\ off' = off /\ flying' = flying
    BY DEF agentVars
  <1>2. \A b : StateOf(b)' = StateOf(b)  BY <1>1 DEF StateOf
  <1>3. LoopPlace'  BY <1>1, <1>2, Relied DEF SysInv, LoopPlace
  <1>4. QueueTruth'  BY <1>1, <1>2, Relied DEF SysInv, QueueTruth
  <1> QED BY <1>3, <1>4

\* A step of a handler, whether the agent waits for it or not.
LEMMA OneHandler ==
  ASSUME SysInv, NEW r \in Handlers, pc[r] # "idle", HandlerStep(r), TableStep, IndInv',
         UNCHANGED <<agentVars, conn>>, faults' \in 0 .. MaxFaults
  PROVE  SysInv'
  <1>1. /\ zip' = zip /\ sidecar' = sidecar /\ at' = at /\ cur' = cur /\ uid' = uid
        /\ off' = off /\ tries' = tries /\ flying' = flying /\ conn' = conn
    BY DEF agentVars
  <1>2. OnlyAgent /\ Answered /\ IndInv /\ Others(r)  BY DEF SysInv, HandlerStep
  <1>3. OnlyAgent'
    <2>1. ASSUME NEW q \in Handlers, pc'[q] \in InitLabels
          PROVE  /\ req'[q].dev = Device
                 /\ zip'[req'[q].bundle] # "none"
                 /\ req'[q].decl = DeclOf(req'[q].bundle)
      <3>1. pc[q] \in InitLabels /\ req'[q] = req[q]
        BY <1>2, <2>1 DEF HandlerStep, Others
      <3> QED BY <1>1, <1>2, <3>1 DEF OnlyAgent
    <2>2. ASSUME NEW q \in Handlers, pc'[q] = "fin.permit"
          PROVE  Commits(sid'[q], req'[q].dev, snap'[q].bundle)
      <3>1. CASE q = r
        <4>1. "fin.permit" \in FinLabels  BY DEF FinLabels
        <4> QED BY <2>2, <3>1, <4>1 DEF HandlerStep
      <3>2. CASE q # r
        <4>1. /\ pc[q] = "fin.permit" /\ sid'[q] = sid[q] /\ req'[q] = req[q]
              /\ snap'[q] = snap[q]
          BY <1>2, <2>2, <3>2 DEF Others
        <4>2. sid[q] \in SessionsOf(req[q].dev, snap[q].bundle)
          BY <1>2, <4>1 DEF OnlyAgent
        <4> QED BY <4>1, <4>2 DEF TableStep, SessionsStay, SessionsOf, Commits
      <3> QED BY <3>1, <3>2
    <2>3. \A q \in Handlers : pc'[q] = "fin.permit" =>
             (sid[q] \in SessionsOf(req[q].dev, snap[q].bundle))'
      BY <2>2 DEF Commits, SessionsOf
    <2> QED BY <1>1, <1>2, <2>1, <2>3, RowsOwned DEF OnlyAgent
  <1>4. Answered'
    <2> SUFFICES ASSUME conn # NoConn  PROVE Answered'
      BY <1>1 DEF Answered
    <2>1. conn \in Handlers  BY DEF SysInv, SysTypeOK
    <2>2. CASE conn # r
      <3>1. /\ pc'[conn] = pc[conn] /\ req'[conn] = req[conn] /\ snap'[conn] = snap[conn]
            /\ reply'[conn] = reply[conn]
        BY <1>2, <2>1, <2>2 DEF Others
      <3> QED BY <1>1, <1>2, <3>1, Relied DEF Answered
    <2>3. CASE conn = r
      <3>1. CASE at = "init"
        <4>1. CASE pc[r] \in InitLabels /\ req[r].bundle = cur
          <5>1. req[r].dev = Device  BY <1>2, <4>1 DEF OnlyAgent
          <5>2. ASSUME NEW id \in SessionsOf(req[r].dev, req[r].bundle)  PROVE Usable(id)'
            BY <1>2 DEF SessionsOf, OnlyAgent, Usable
          <5>3. ASSUME NEW id \in Uuids, uploads'[id] # NoRow,
                       uploads'[id].bundle = req[r].bundle
                PROVE  Usable(id)'
            BY <1>1, <4>1, <5>3 DEF Usable
          <5>4. \/ pc'[r] \in InitLabels /\ req'[r].bundle = cur
                \/ pc'[r] = "idle" /\ (reply'[r] # NoReply /\ reply'[r].kind = "upload" =>
                                          Usable(reply[r].id)')
            BY <4>1, <5>2, <5>3 DEF HandlerStep
          <5> QED BY <1>1, <1>2, <2>3, <3>1, <5>4 DEF Answered
        <4> QED BY <1>2, <2>3, <3>1, <4>1 DEF Answered
      <3>2. CASE at = "finalize"
        <4>1. pc[r] \in FinLabels /\ snap[r].bundle = cur
          BY <1>2, <2>3, <3>2 DEF Answered
        <4>2. req[r].dev = Device
          BY <1>2, <4>1 DEF IndInv, Shape, FinShape, OnlyAgent
        <4>3. ASSUME NEW s \in Uuids, Commits(s, req[r].dev, snap[r].bundle)
              PROVE  SessionsOf(Device, cur)' # {}
          BY <1>1, <4>1, <4>2, <4>3 DEF Commits, SessionsOf
        <4>4. \/ pc'[r] \in FinLabels /\ snap'[r].bundle = cur
              \/ pc'[r] = "idle" /\ (reply'[r] # NoReply /\ reply'[r].kind = "session" =>
                                        SessionsOf(Device, cur)' # {})
          BY <4>1, <4>3 DEF HandlerStep
        <4> QED BY <1>1, <1>2, <2>3, <3>2, <4>4 DEF Answered
      <3>3. CASE at \notin {"init", "finalize"}
        BY <1>1, <1>2, <2>3, <3>3 DEF Answered
      <3> QED BY <3>1, <3>2, <3>3
    <2> QED BY <2>2, <2>3
  <1>5. SysTypeOK'  BY <1>1 DEF SysInv, SysTypeOK
  <1> QED BY <1>3, <1>4, <1>5, AgentWaits DEF SysInv

\* A handler that takes a step is not idle.
LEMMA Busy ==
  ASSUME NEW r \in Handlers,
         Step(r) \/ PutWriteFails(r) \/ StorageFailure(r) \/ Disconnect(r)
  PROVE  pc[r] # "idle"
  <1>1. CASE PutWriteFails(r)  BY <1>1 DEF PutWriteFails
  <1>2. CASE StorageFailure(r) \/ Disconnect(r)
    BY <1>2 DEF StorageFailure, Disconnect, Running, InitLabels, PutLabels, FinLabels
  <1>3. CASE Step(r)
    BY <1>3 DEF Step, InitFindSession, InitFindResumable, InitCreateStaging,
       InitInsertUpload, PutReserve, PutReread, PutWrite, FinFindSession, FinHash,
       FinDiscard, FinRehash, FinCopy, FinRemove, FinMark, FinInsert, FinFindWinner, FinPermit
  <1> QED BY <1>1, <1>2, <1>3

\* The fault budget is kept.
LEMMA FaultBound ==
  ASSUME SysTypeOK, NoFault \/ \E kind : Fault(kind)  PROVE faults' \in 0 .. MaxFaults
  BY SystemAssumption DEF SysTypeOK, NoFault, Fault

\* Steps, failures and disconnects of the server's handlers.
LEMMA ServerHandlers ==
  ASSUME SysInv, NEW r \in Handlers, ServerStep(r) \/ ServerFailure(r) \/ ServerDisconnect(r)
  PROVE  SysInv'
  <1>1. Step(r) \/ PutWriteFails(r) \/ StorageFailure(r) \/ Disconnect(r)
    BY DEF ServerStep, ServerFailure, ServerDisconnect
  <1>2. IndInv /\ OnlyAgent /\ SysTypeOK  BY DEF SysInv
  <1>3. Next  BY <1>1 DEF Next
  <1>4. IndInv'  BY <1>2, <1>3, Honest, NextInv
  <1>5. TableStep  BY <1>2, <1>3, ServerRows
  <1>6. HandlerStep(r) /\ pc[r] # "idle"  BY <1>1, <1>2, AnyHandler, Busy
  <1>7. UNCHANGED <<agentVars, conn>>
    BY DEF ServerStep, ServerFailure, ServerDisconnect
  <1>8. faults' \in 0 .. MaxFaults
    BY <1>2, FaultBound DEF ServerStep, ServerFailure, ServerDisconnect
  <1> QED BY <1>4, <1>5, <1>6, <1>7, <1>8, OneHandler

\* A parse ends, or the server dies and forgets its handlers.
LEMMA ServerRest ==
  ASSUME SysInv, ServerParse \/ ServerCrash  PROVE SysInv'
  <1>1. IndInv /\ OnlyAgent /\ SysTypeOK /\ Answered  BY DEF SysInv
  <1>2. (\E s \in Uuids : ParseEnd(s)) \/ Crash  BY DEF ServerParse, ServerCrash
  <1>3. Next  BY <1>2 DEF Next
  <1>4. IndInv'  BY <1>1, <1>3, Honest, NextInv
  <1>5. TableStep  BY <1>1, <1>3, ServerRows
  <1>6. /\ zip' = zip /\ sidecar' = sidecar /\ at' = at /\ cur' = cur /\ uid' = uid
        /\ off' = off /\ tries' = tries /\ flying' = flying /\ conn' = conn
        /\ UNCHANGED agentVars
    BY DEF ServerParse, ServerCrash, agentVars
  <1>7. faults' \in 0 .. MaxFaults  BY <1>1, FaultBound DEF ServerParse, ServerCrash
  <1>8. SysTypeOK'  BY <1>1, <1>6, <1>7 DEF SysTypeOK
  <1>9. LoopPlace' /\ QueueTruth'  BY <1>5, <1>6, AgentWaits
  <1>10. CASE Crash
    <2>1. \A q \in Handlers : pc'[q] = "idle" /\ reply'[q] = NoReply
      BY <1>10 DEF Crash
    <2>2. \A q \in Handlers : pc'[q] \notin InitLabels /\ pc'[q] # "fin.permit"
      BY <2>1, Labels
    <2>3. OnlyAgent'  BY <1>1, <1>5, <1>6, <2>2, RowsOwned DEF OnlyAgent
    <2>4. Answered'  BY <1>1, <1>6, <2>1 DEF Answered, SysTypeOK
    <2> QED BY <1>4, <1>8, <1>9, <2>3, <2>4 DEF SysInv
  <1>11. ASSUME NEW s \in Uuids, ParseEnd(s)  PROVE SysInv'
    <2>1. pc' = pc /\ req' = req /\ snap' = snap /\ sid' = sid /\ reply' = reply
      BY <1>11 DEF ParseEnd, locals
    <2>2. \A q \in Handlers : pc'[q] = "fin.permit" =>
             (sid[q] \in SessionsOf(req[q].dev, snap[q].bundle))'
      BY <1>1, <1>5, <2>1 DEF OnlyAgent, TableStep, SessionsStay, SessionsOf
    <2>3. OnlyAgent'  BY <1>1, <1>5, <1>6, <2>1, <2>2, RowsOwned DEF OnlyAgent
    <2>4. Answered'  BY <1>1, <1>6, <2>1, <1>5, Relied DEF Answered
    <2> QED BY <1>4, <1>8, <1>9, <2>3, <2>4 DEF SysInv
  <1> QED BY <1>2, <1>10, <1>11

-----------------------------------------------------------------------------
(* The agent's own steps.                                                  *)

\* A queue entry, whatever its counters say.
LEMMA EntryType ==
  /\ \A st \in A!QueueStates, n \in Nat, f \in BOOLEAN, t \in EnqueueTimes :
       [state |-> st, attempts |-> n, elapsed |-> f, since |-> t] \in Entries
  /\ NoEntry \notin Entries
  BY SystemAssumption DEF Entries

\* Writing the sidecar of one bundle changes what the queue says of that one.
LEMMA EntryStep ==
  ASSUME SysTypeOK, NEW b \in Bundles, NEW e \in Entries, sidecar' = [sidecar EXCEPT ![b] = e]
  PROVE  /\ sidecar' \in [Bundles -> {NoEntry} \cup Entries]
         /\ sidecar'[b] = e /\ StateOf(b)' = e.state
         /\ \A c \in Bundles \ {b} : sidecar'[c] = sidecar[c] /\ StateOf(c)' = StateOf(c)
  <1>1. sidecar \in [Bundles -> {NoEntry} \cup Entries]  BY DEF SysTypeOK, Entries
  <1>2. sidecar'[b] = e /\ e # NoEntry  BY <1>1, EntryType
  <1> QED BY <1>1, <1>2 DEF StateOf

\* A transition of an existing entry.
LEMMA MarkedEntry ==
  ASSUME SysTypeOK, NEW b \in Bundles, sidecar[b] # NoEntry, NEW st \in A!QueueStates,
         sidecar' = A!Marked(b, st)
  PROVE  \E e \in Entries : e.state = st /\ sidecar' = [sidecar EXCEPT ![b] = e]
  <1>1. sidecar[b] \in Entries  BY DEF SysTypeOK, Entries
  <1>2. sidecar[b].since \in EnqueueTimes /\ sidecar[b].attempts \in Nat
    BY <1>1 DEF Entries
  <1>3. PICK n : n = IF st # "Failed" THEN 0
                     ELSE IF sidecar[b].state = "Failed" THEN sidecar[b].attempts + 1 ELSE 1
    OBVIOUS
  <1>4. n \in Nat  BY <1>2, <1>3
  <1>5. PICK e : e = [state |-> st, attempts |-> n, elapsed |-> FALSE,
                      since |-> sidecar[b].since]
    OBVIOUS
  <1>6. e \in Entries  BY <1>2, <1>4, <1>5, EntryType, FALSE \in BOOLEAN, Zenon
  <1>7. e.state = st  BY <1>5
  <1>8. sidecar' = [sidecar EXCEPT ![b] = e]  BY <1>3, <1>5, Zenon DEF A!Marked
  <1> QED BY <1>6, <1>7, <1>8

\* The server does nothing while the agent does.
LEMMA ServerWaits ==
  ASSUME SysInv, UNCHANGED vars, \A b \in Bundles : zip[b] # "none" => zip'[b] # "none"
  PROVE  /\ IndInv' /\ OnlyAgent'
         /\ \A d, b : SessionsOf(d, b)' = SessionsOf(d, b)
         /\ \A id : Usable(id) /\ cur' = cur => Usable(id)'
  <1>1. IndInv'  BY Honest, NextInv DEF SysInv
  <1>2. /\ uploads' = uploads /\ sessions' = sessions /\ pc' = pc /\ req' = req
        /\ snap' = snap /\ sid' = sid
    BY DEF vars
  <1>3. \A d, b : SessionsOf(d, b)' = SessionsOf(d, b)  BY <1>2 DEF SessionsOf
  <1>4. \A id : Usable(id) /\ cur' = cur => Usable(id)'  BY <1>2 DEF Usable
  <1>5. OnlyAgent'
    <2>1. \A u \in Uuids : uploads[u] # NoRow => uploads[u].bundle \in Bundles
      BY DEF SysInv, IndInv, TypeOK, UploadRow
    <2>2. \A r \in Handlers : pc[r] \in InitLabels => req[r].bundle \in Bundles
      BY DEF SysInv, IndInv, Shape, InitShape, InitReq
    <2>3. \A r \in Handlers : pc'[r] = "fin.permit" =>
             (sid[r] \in SessionsOf(req[r].dev, snap[r].bundle))'
      BY <1>2 DEF SysInv, OnlyAgent, SessionsOf
    <2> QED BY <1>2, <2>1, <2>2, <2>3 DEF SysInv, OnlyAgent
  <1> QED BY <1>1, <1>3, <1>4, <1>5

\* Outside a call nobody answers.
LEMMA NobodyAnswers ==
  ASSUME SysInv, at \notin A!Calls  PROVE ~flying /\ conn = NoConn
  BY DEF SysInv, LoopPlace, Answered

\* The places of the task loop are different.
LEMMA PlaceNames ==
  /\ A!Calls = {"init", "chunk", "finalize"}
  /\ A!Places = {"idle", "enqueue", "mark", "mark_done", "mark_failed", "purge",
                 "init", "chunk", "finalize"}
  /\ A!QueueStates = {"Pending", "Uploading", "Done", "Failed"}
  BY DEF A!Calls, A!Places, A!QueueStates

\* What every step of the agent outside a call leaves.
LEMMA QuietStep ==
  ASSUME SysInv, at \notin A!Calls, UNCHANGED <<vars, conn>>, faults' \in 0 .. MaxFaults,
         NEW place \in A!Places, A!Go(place), UNCHANGED <<uid, off>>,
         zip' \in [Bundles -> {"none", "queued", "removed"}],
         \A b \in Bundles : zip[b] # "none" => zip'[b] # "none",
         sidecar' \in [Bundles -> {NoEntry} \cup Entries],
         cur' \in Bundles \cup {NoBundle},
         LoopPlace', QueueTruth'
  PROVE  SysInv'
  <1>1. IndInv' /\ OnlyAgent'  BY ServerWaits
  <1>2. conn' = NoConn  BY NobodyAnswers
  <1>3. Answered'  BY <1>2 DEF Answered
  <1>4. at' = place /\ flying' = FALSE /\ tries' = 0  BY DEF A!Go
  <1>5. 0 \in 0 .. MaxAttempts - 1  BY SystemAssumption
  <1>6. uid' \in Uuids \cup {NoId} /\ off' \in 0 .. MaxSize /\ conn' \in Handlers \cup {NoConn}
    BY <1>2 DEF SysInv, SysTypeOK
  <1>7. at' \in A!Places /\ flying' \in BOOLEAN /\ tries' \in 0 .. MaxAttempts - 1
    BY <1>4, <1>5
  <1>8. SysTypeOK'  BY <1>6, <1>7 DEF SysTypeOK, Entries
  <1> QED BY <1>1, <1>3, <1>8 DEF SysInv

\* What is in the queue and not Done has its zip.
LEMMA ZipThere ==
  ASSUME SysInv, NEW b \in Bundles, StateOf(b) \notin {"none", "Done"}  PROVE zip[b] = "queued"
  <1>1. sidecar[b] # NoEntry  BY DEF StateOf
  <1>2. zip[b] \in {"none", "queued", "removed"}  BY DEF SysInv, SysTypeOK
  <1> QED BY <1>1, <1>2 DEF SysInv, QueueTruth

\* collect_once and the rename of its zip.
LEMMA CollectInv ==
  ASSUME SysInv, NEW b \in Bundles, A!Collect(b), UNCHANGED <<vars, conn>>, NoFault
  PROVE  SysInv'
  <1>1. /\ at = "idle" /\ zip[b] = "none" /\ zip' = [zip EXCEPT ![b] = "queued"] /\ cur' = b
        /\ A!Go("enqueue") /\ sidecar' = sidecar /\ uid' = uid /\ off' = off
    BY DEF A!Collect
  <1>2. SysTypeOK /\ QueueTruth  BY DEF SysInv
  <1>3. /\ zip' \in [Bundles -> {"none", "queued", "removed"}]
        /\ zip'[b] = "queued" /\ \A c \in Bundles \ {b} : zip'[c] = zip[c]
    BY <1>1, <1>2 DEF SysTypeOK
  <1>4. \A c \in Bundles : zip[c] # "none" => zip'[c] # "none"  BY <1>3
  <1>5. /\ \A c : StateOf(c)' = StateOf(c)
        /\ \A d, c : SessionsOf(d, c)' = SessionsOf(d, c)
    BY <1>1, <1>4, ServerWaits DEF StateOf
  <1>6. at' = "enqueue" /\ ~flying'  BY <1>1 DEF A!Go
  <1>7. sidecar[b] = NoEntry  BY <1>1, <1>2 DEF QueueTruth
  <1>8. LoopPlace'  BY <1>1, <1>3, <1>6, <1>7, PlaceNames DEF LoopPlace
  <1>9. QueueTruth'  BY <1>1, <1>2, <1>3, <1>5 DEF QueueTruth
  <1>10. sidecar' \in [Bundles -> {NoEntry} \cup Entries]
    BY <1>1, <1>2 DEF SysTypeOK, Entries
  <1>11. faults' \in 0 .. MaxFaults  BY <1>2, FaultBound
  <1>12. at \notin A!Calls /\ "enqueue" \in A!Places  BY <1>1, PlaceNames
  <1> QED BY <1>1, <1>3, <1>4, <1>8, <1>9, <1>10, <1>11, <1>12, QuietStep

\* The steps that write the sidecar of the current bundle: what remains to show
\* is what the entry may say at the next place.
LEMMA WriteEntry ==
  ASSUME SysInv, at \notin A!Calls, cur \in Bundles, UNCHANGED <<vars, conn>>, NoFault,
         NEW place \in A!Places, A!Go(place), UNCHANGED <<zip, uid, off>>,
         NEW e \in Entries, sidecar' = [sidecar EXCEPT ![cur] = e],
         zip[cur] = "queued",
         e.state = "Done" => SessionsOf(Device, cur) # {},
         \/ place = "idle" /\ cur' = NoBundle
         \/ place = "init" /\ cur' = cur /\ e.state = "Uploading"
         \/ place = "purge" /\ cur' = cur /\ e.state \in {"Done", "Failed"}
  PROVE  SysInv'
  <1>1. SysTypeOK /\ QueueTruth  BY DEF SysInv
  <1>2. /\ sidecar' \in [Bundles -> {NoEntry} \cup Entries]
        /\ sidecar'[cur] = e /\ \A c \in Bundles : c = cur => StateOf(c)' = e.state
        /\ \A c \in Bundles \ {cur} : sidecar'[c] = sidecar[c] /\ StateOf(c)' = StateOf(c)
    <2>1. PICK b \in Bundles : b = cur  OBVIOUS
    <2>2. sidecar' = [sidecar EXCEPT ![b] = e]  BY <2>1
    <2>3. /\ sidecar' \in [Bundles -> {NoEntry} \cup Entries]
          /\ sidecar'[b] = e /\ StateOf(b)' = e.state
          /\ \A c \in Bundles \ {b} : sidecar'[c] = sidecar[c] /\ StateOf(c)' = StateOf(c)
      BY <1>1, <2>2, EntryStep
    <2> QED BY <2>1, <2>3
  <1>3. \A d, c : SessionsOf(d, c)' = SessionsOf(d, c)  BY ServerWaits
  <1>4. at' = place /\ ~flying'  BY DEF A!Go
  <1>5. cur' = cur => StateOf(cur)' = e.state
    BY <1>2 DEF StateOf
  <1>6. LoopPlace'  BY <1>4, <1>5, PlaceNames DEF LoopPlace
  <1>7. QueueTruth'  BY <1>1, <1>2, <1>3 DEF QueueTruth
  <1>8. faults' \in 0 .. MaxFaults  BY <1>1, FaultBound
  <1>9. zip' \in [Bundles -> {"none", "queued", "removed"}] /\ cur' \in Bundles \cup {NoBundle}
    BY <1>1 DEF SysTypeOK
  <1>10. \A b \in Bundles : zip[b] # "none" => zip'[b] # "none"  OBVIOUS
  <1> QED BY <1>2, <1>6, <1>7, <1>8, <1>9, <1>10, QuietStep

\* enqueue's sidecar, and the three transitions of the drain.
LEMMA QueueWrites ==
  ASSUME SysInv, A!Enqueue \/ A!MarkUploading \/ A!MarkDone \/ A!MarkFailed,
         UNCHANGED <<vars, conn>>, NoFault
  PROVE  SysInv'
  <1>1. SysTypeOK /\ LoopPlace  BY DEF SysInv
  <1>2. at \in {"enqueue", "mark", "mark_done", "mark_failed"}
    BY DEF A!Enqueue, A!MarkUploading, A!MarkDone, A!MarkFailed
  <1>3. at \notin A!Calls /\ cur \in Bundles  BY <1>1, <1>2, PlaceNames DEF LoopPlace
  <1>4. CASE A!Enqueue
    <2>1. PICK t \in EnqueueTimes :
            sidecar' = [sidecar EXCEPT ![cur] =
               [state |-> "Pending", attempts |-> 0, elapsed |-> FALSE, since |-> t]]
      BY <1>4 DEF A!Enqueue
    <2>2. PICK e : e = [state |-> "Pending", attempts |-> 0, elapsed |-> FALSE, since |-> t]
      OBVIOUS
    <2>3. "Pending" \in A!QueueStates  BY PlaceNames
    <2>4. 0 \in Nat  OBVIOUS
    <2>5. e \in Entries  BY <2>2, <2>3, <2>4, EntryType, FALSE \in BOOLEAN, Zenon
    <2>6. e.state = "Pending"  BY <2>2
    <2>7. sidecar' = [sidecar EXCEPT ![cur] = e]  BY <2>1, <2>2, Zenon
    <2>8. /\ zip[cur] = "queued" /\ A!Go("idle") /\ cur' = NoBundle
          /\ zip' = zip /\ uid' = uid /\ off' = off
      BY <1>1, <1>4 DEF A!Enqueue, LoopPlace
    <2>9. "idle" \in A!Places  BY PlaceNames
    <2> QED BY <1>3, <2>5, <2>6, <2>7, <2>8, <2>9, WriteEntry
  <1>5. ASSUME NEW st \in {"Uploading", "Done", "Failed"}, sidecar' = A!Marked(cur, st),
               NEW place \in {"init", "purge"}, A!Go(place), UNCHANGED <<zip, cur, uid, off>>,
               StateOf(cur) \notin {"none", "Done"},
               st = "Uploading" <=> place = "init",
               st = "Done" => SessionsOf(Device, cur) # {}
        PROVE  SysInv'
    <2>1. st \in A!QueueStates /\ place \in A!Places  BY PlaceNames
    <2>2. sidecar[cur] # NoEntry /\ zip[cur] = "queued"  BY <1>3, <1>5, ZipThere DEF StateOf
    <2>3. PICK e \in Entries : e.state = st /\ sidecar' = [sidecar EXCEPT ![cur] = e]
      BY <1>1, <1>3, <1>5, <2>1, <2>2, MarkedEntry
    <2> QED BY <1>3, <1>5, <2>1, <2>2, <2>3, WriteEntry
  <1>6. CASE A!MarkUploading
    <2>1. /\ sidecar' = A!Marked(cur, "Uploading") /\ A!Go("init")
          /\ UNCHANGED <<zip, cur, uid, off>>
      BY <1>6 DEF A!MarkUploading
    <2>2. StateOf(cur) \notin {"none", "Done"}  BY <1>1, <1>6 DEF A!MarkUploading, LoopPlace
    <2> QED BY <1>5, <2>1, <2>2
  <1>7. CASE A!MarkDone
    <2>1. /\ sidecar' = A!Marked(cur, "Done") /\ A!Go("purge")
          /\ UNCHANGED <<zip, cur, uid, off>>
      BY <1>7 DEF A!MarkDone
    <2>2. StateOf(cur) \notin {"none", "Done"} /\ SessionsOf(Device, cur) # {}
      BY <1>1, <1>7 DEF A!MarkDone, LoopPlace
    <2> QED BY <1>5, <2>1, <2>2
  <1>8. CASE A!MarkFailed
    <2>1. /\ sidecar' = A!Marked(cur, "Failed") /\ A!Go("purge")
          /\ UNCHANGED <<zip, cur, uid, off>>
      BY <1>8 DEF A!MarkFailed
    <2>2. StateOf(cur) \notin {"none", "Done"}  BY <1>1, <1>8 DEF A!MarkFailed, LoopPlace
    <2> QED BY <1>5, <2>1, <2>2
  <1> QED BY <1>4, <1>6, <1>7, <1>8

\* drain picks a bundle, purges, or finds a sidecar it cannot write: no entry
\* changes.
LEMMA QueueReads ==
  ASSUME SysInv, A!Drain \/ A!Purge \/ A!SidecarFailure,
         UNCHANGED <<vars, conn>>, NoFault \/ Fault("disk")
  PROVE  SysInv'
  <1>1. SysTypeOK /\ LoopPlace /\ QueueTruth  BY DEF SysInv
  <1>2. sidecar' = sidecar /\ uid' = uid /\ off' = off
    BY DEF A!Drain, A!Purge, A!SidecarFailure
  <1>3. at \notin A!Calls
    BY PlaceNames DEF A!Drain, A!Purge, A!SidecarFailure
  <1>4. \A c : StateOf(c)' = StateOf(c)  BY <1>2 DEF StateOf
  <1>5. sidecar' \in [Bundles -> {NoEntry} \cup Entries]
    BY <1>1, <1>2 DEF SysTypeOK, Entries
  <1>6. faults' \in 0 .. MaxFaults  BY <1>1, FaultBound
  <1>7. CASE zip' = zip
    <2>1. \A d, c : SessionsOf(d, c)' = SessionsOf(d, c)  BY <1>7, ServerWaits
    <2>2. QueueTruth'  BY <1>1, <1>2, <1>4, <1>7, <2>1 DEF QueueTruth
    <2>3. /\ zip' \in [Bundles -> {"none", "queued", "removed"}]
          /\ \A b \in Bundles : zip[b] # "none" => zip'[b] # "none"
      BY <1>1, <1>7 DEF SysTypeOK
    <2>4. CASE A!Drain
      <3>1. PICK b \in A!NextPending : cur' = b  BY <2>4 DEF A!Drain
      <3>2. b \in Bundles /\ StateOf(b) \in {"Pending", "Failed"}
        BY <3>1 DEF A!NextPending, A!Ready, StateOf
      <3>3. A!Go("mark") /\ at' = "mark" /\ ~flying'  BY <2>4 DEF A!Drain, A!Go
      <3>4. StateOf(cur)' \in {"Pending", "Failed"}  BY <1>2, <3>1, <3>2 DEF StateOf
      <3>5. LoopPlace'  BY <3>1, <3>2, <3>3, <3>4, PlaceNames DEF LoopPlace
      <3>6. "mark" \in A!Places /\ cur' \in Bundles \cup {NoBundle}
        BY <3>1, <3>2, PlaceNames
      <3> QED BY <1>2, <1>3, <1>5, <1>6, <2>2, <2>3, <3>3, <3>5, <3>6, QuietStep
    <2>5. CASE A!Go("idle") /\ cur' = NoBundle
      <3>1. at' = "idle" /\ ~flying'  BY <2>5 DEF A!Go
      <3>2. LoopPlace'  BY <2>5, <3>1, PlaceNames DEF LoopPlace
      <3>3. "idle" \in A!Places  BY PlaceNames
      <3> QED BY <1>2, <1>3, <1>5, <1>6, <2>2, <2>3, <2>5, <3>2, <3>3, QuietStep
    <2>6. CASE A!SidecarFailure /\ at \in {"mark_done", "mark_failed"}
      <3>1. A!Go("purge") /\ cur' = cur  BY <2>6 DEF A!SidecarFailure
      <3>2. at' = "purge" /\ ~flying'  BY <3>1 DEF A!Go
      <3>3. cur \in Bundles /\ StateOf(cur) = "Uploading"
        BY <1>1, <2>6 DEF LoopPlace
      <3>4. zip[cur] = "queued"  BY <3>3, ZipThere
      <3>5. StateOf(cur)' = "Uploading"  BY <1>2, <3>1, <3>3 DEF StateOf
      <3>6. LoopPlace'  BY <1>7, <3>1, <3>2, <3>3, <3>4, <3>5, PlaceNames DEF LoopPlace
      <3>7. "purge" \in A!Places /\ cur' \in Bundles \cup {NoBundle}
        BY <3>1, <3>3, PlaceNames
      <3> QED BY <1>2, <1>3, <1>5, <1>6, <2>2, <2>3, <3>1, <3>6, <3>7, QuietStep
    <2> QED BY <2>4, <2>5, <2>6 DEF A!Purge, A!SidecarFailure
  <1>8. CASE zip' # zip
    <2>1. /\ at = "purge" /\ sidecar[cur].state = "Done" /\ zip' = [zip EXCEPT ![cur] = "removed"]
          /\ cur' = NoBundle /\ A!Go("idle")
      BY <1>8 DEF A!Drain, A!Purge, A!SidecarFailure
    <2>2. cur \in Bundles /\ StateOf(cur) = "Done"  BY <1>1, <2>1 DEF LoopPlace, StateOf
    <2>3. /\ zip' \in [Bundles -> {"none", "queued", "removed"}]
          /\ zip'[cur] = "removed" /\ \A c \in Bundles \ {cur} : zip'[c] = zip[c]
      BY <1>1, <2>1, <2>2 DEF SysTypeOK
    <2>4. \A c \in Bundles : zip[c] # "none" => zip'[c] # "none"  BY <2>3
    <2>5. \A d, c : SessionsOf(d, c)' = SessionsOf(d, c)  BY <2>4, ServerWaits
    <2>6. QueueTruth'  BY <1>1, <1>2, <1>4, <2>2, <2>3, <2>5 DEF QueueTruth
    <2>7. at' = "idle" /\ ~flying'  BY <2>1 DEF A!Go
    <2>8. LoopPlace'  BY <2>1, <2>7, PlaceNames DEF LoopPlace
    <2>9. "idle" \in A!Places  BY PlaceNames
    <2> QED BY <1>2, <1>3, <1>5, <1>6, <2>1, <2>3, <2>4, <2>6, <2>8, <2>9, QuietStep
  <1> QED BY <1>7, <1>8

\* Time passes a retry_at, whatever the agent is doing.
LEMMA RetryDueInv ==
  ASSUME SysInv, NEW b \in Bundles, RetryDue(b)  PROVE SysInv'
  <1>1. /\ sidecar[b] # NoEntry /\ sidecar' = [sidecar EXCEPT ![b].elapsed = TRUE]
        /\ zip' = zip /\ at' = at /\ cur' = cur /\ uid' = uid /\ off' = off /\ tries' = tries
        /\ flying' = flying /\ conn' = conn /\ UNCHANGED vars
    BY DEF RetryDue, A!BackoffElapses
  <1>2. SysTypeOK /\ LoopPlace /\ QueueTruth /\ Answered  BY DEF SysInv
  <1>3. sidecar[b] \in Entries  BY <1>1, <1>2 DEF SysTypeOK, Entries
  <1>4. PICK e : e = [sidecar[b] EXCEPT !.elapsed = TRUE]  OBVIOUS
  <1>5. e.state = sidecar[b].state  BY <1>3, <1>4 DEF Entries
  <1>6. e \in Entries
    <2>1. \A f \in BOOLEAN : [sidecar[b] EXCEPT !.elapsed = f] \in Entries
      BY <1>3 DEF Entries
    <2> QED BY <1>4, <2>1, TRUE \in BOOLEAN, Zenon
  <1>7. sidecar' = [sidecar EXCEPT ![b] = e]  BY <1>1, <1>4, Zenon
  <1>8. /\ sidecar' \in [Bundles -> {NoEntry} \cup Entries] /\ sidecar'[b] = e
        /\ \A c \in Bundles : StateOf(c)' = StateOf(c)
        /\ \A c \in Bundles : sidecar'[c] = NoEntry <=> sidecar[c] = NoEntry
    BY <1>1, <1>2, <1>5, <1>6, <1>7, EntryStep, EntryType DEF StateOf
  <1>9. /\ IndInv' /\ OnlyAgent'
        /\ \A d, c : SessionsOf(d, c)' = SessionsOf(d, c)
        /\ \A id : Usable(id) => Usable(id)'
    BY <1>1, ServerWaits
  <1>10. cur \in Bundles => StateOf(cur)' = StateOf(cur)  BY <1>1, <1>8 DEF StateOf
  <1>11. LoopPlace'
    <2>1. Usable(uid) => Usable(uid)'  BY <1>1 DEF Usable, vars
    <2>2. SessionsOf(Device, cur)' = SessionsOf(Device, cur)  BY <1>1 DEF SessionsOf, vars
    <2>3. at # "idle" => StateOf(cur)' = StateOf(cur)  BY <1>2, <1>10 DEF LoopPlace
    <2>4. at = "enqueue" => sidecar'[cur] = NoEntry  BY <1>2, <1>8 DEF LoopPlace
    <2> QED BY <1>1, <1>2, <2>1, <2>2, <2>3, <2>4, PlaceNames DEF LoopPlace
  <1>12. QueueTruth'  BY <1>1, <1>2, <1>8, <1>9 DEF QueueTruth
  <1>13. pc' = pc /\ req' = req /\ snap' = snap /\ reply' = reply  BY <1>1 DEF vars
  <1>14. Answered'  BY <1>1, <1>2, <1>9, <1>13 DEF Answered
  <1>15. faults' \in 0 .. MaxFaults  BY <1>2, FaultBound DEF RetryDue
  <1>16. SysTypeOK'  BY <1>1, <1>2, <1>8, <1>15 DEF SysTypeOK, Entries
  <1> QED BY <1>9, <1>11, <1>12, <1>14, <1>16 DEF SysInv

-----------------------------------------------------------------------------
(* The agent's calls.                                                      *)

\* The call in flight ends, one way or another.
LEMMA OutcomeInv ==
  ASSUME SysInv, at \in A!Calls, UNCHANGED vars, conn' = NoConn, faults' \in 0 .. MaxFaults,
         \/ A!Transient \/ A!Fatal
         \/ A!Return("mark_done") /\ SessionsOf(Device, cur) # {}
         \/ \E id \in Uuids \cup {NoId}, o \in 0 .. MaxSize : Usable(id) /\ A!Advance(id, o)
  PROVE  SysInv'
  <1>1. SysTypeOK /\ LoopPlace /\ QueueTruth  BY DEF SysInv
  <1>2. zip' = zip /\ sidecar' = sidecar /\ cur' = cur
    BY DEF A!Transient, A!Fatal, A!Return, A!Advance
  <1>3. IndInv' /\ OnlyAgent'  BY <1>2, ServerWaits
  <1>4. /\ SessionsOf(Device, cur)' = SessionsOf(Device, cur)
        /\ \A b : SessionsOf(Device, b)' = SessionsOf(Device, b)
        /\ \A id : Usable(id) => Usable(id)'
        /\ \A b : StateOf(b)' = StateOf(b)
    BY <1>2, ServerWaits DEF StateOf
  <1>5. StateOf(cur)' = StateOf(cur)  BY <1>2 DEF StateOf
  <1>6. Answered'  BY DEF Answered
  <1>7. QueueTruth'  BY <1>1, <1>2, <1>4 DEF QueueTruth
  <1>8. cur \in Bundles /\ StateOf(cur) = "Uploading"  BY <1>1, PlaceNames DEF LoopPlace
  <1>9. 0 \in 0 .. MaxAttempts - 1 /\ 0 \in 0 .. MaxSize
    BY SystemAssumption, SizeAssumption
  <1>10. ASSUME at' \in A!Places, uid' \in Uuids \cup {NoId}, off' \in 0 .. MaxSize,
                tries' \in 0 .. MaxAttempts - 1, flying' = FALSE, LoopPlace'
         PROVE  SysInv'
    <2>1. SysTypeOK'  BY <1>1, <1>2, <1>10 DEF SysTypeOK
    <2> QED BY <1>3, <1>6, <1>7, <1>10, <2>1 DEF SysInv
  <1>11. ASSUME NEW place \in {"mark_failed", "mark_done"}, A!Return(place),
                place = "mark_done" => SessionsOf(Device, cur) # {}
         PROVE  SysInv'
    <2>1. at' = place /\ flying' = FALSE /\ tries' = 0 /\ uid' = NoId /\ off' = 0
      BY <1>11 DEF A!Return, A!Go
    <2>2. LoopPlace'  BY <1>2, <1>4, <1>5, <1>8, <1>11, <2>1, PlaceNames DEF LoopPlace
    <2>3. at' \in A!Places  BY <2>1, PlaceNames
    <2> QED BY <1>9, <1>10, <2>1, <2>2, <2>3
  <1>12. CASE A!Fatal  BY <1>11, <1>12 DEF A!Fatal
  <1>13. CASE A!Return("mark_done") /\ SessionsOf(Device, cur) # {}  BY <1>11, <1>13
  <1>14. CASE A!Transient /\ ~A!Fatal
    <2>1. tries + 1 < MaxAttempts /\ tries' = tries + 1 /\ flying' = FALSE
          /\ at' = at /\ uid' = uid /\ off' = off
      BY <1>14 DEF A!Transient
    <2>2. Usable(uid) => Usable(uid)'  BY <1>2, <2>1 DEF Usable, vars
    <2>3. LoopPlace'  BY <1>1, <1>2, <1>5, <1>8, <2>1, <2>2, PlaceNames DEF LoopPlace
    <2>4. tries' \in 0 .. MaxAttempts - 1  BY <1>1, <2>1, SystemAssumption DEF SysTypeOK
    <2>5. at' \in A!Places /\ uid' \in Uuids \cup {NoId} /\ off' \in 0 .. MaxSize
      BY <1>1, <2>1 DEF SysTypeOK
    <2> QED BY <1>10, <2>1, <2>3, <2>4, <2>5
  <1>15. ASSUME NEW id \in Uuids \cup {NoId}, NEW o \in 0 .. MaxSize, Usable(id),
                A!Advance(id, o)
         PROVE  SysInv'
    <2>1. /\ uid' = id /\ off' = o /\ flying' = FALSE /\ tries' = 0
          /\ at' = IF o < Size[cur] THEN "chunk" ELSE "finalize"
      BY <1>15 DEF A!Advance, A!Go
    <2>2. Usable(uid)'  BY <1>2, <1>15, <2>1 DEF Usable, vars
    <2>3. LoopPlace'  BY <1>2, <1>5, <1>8, <2>1, <2>2, PlaceNames DEF LoopPlace
    <2>4. at' \in A!Places  BY <2>1, PlaceNames
    <2> QED BY <1>9, <1>10, <2>1, <2>3, <2>4
  <1> QED BY <1>12, <1>13, <1>14, <1>15

\* A response, no response, or half of one.
LEMMA CallEnds ==
  ASSUME SysInv, Receive \/ Timeout \/ BodyLost  PROVE SysInv'
  <1>1. SysTypeOK /\ LoopPlace /\ Answered /\ IndInv  BY DEF SysInv
  <1>2. UNCHANGED vars /\ conn' = NoConn  BY DEF Receive, Timeout, BodyLost
  <1>3. faults' \in 0 .. MaxFaults  BY <1>1, FaultBound DEF Receive, Timeout, BodyLost
  <1>4. CASE A!OnNetworkError \/ A!OnBadBody
    BY <1>2, <1>3, <1>4, OutcomeInv DEF A!OnNetworkError, A!OnBadBody
  <1>5. CASE conn # NoConn /\ pc[conn] = "idle" /\ reply[conn] # NoReply
             /\ A!OnReply(reply[conn])
    <2>1. conn \in Handlers  BY <1>1, <1>5 DEF SysTypeOK
    <2>2. PICK rep : rep = reply[conn]  OBVIOUS
    <2>3. rep \in Replies  BY <1>1, <1>5, <2>1, <2>2 DEF IndInv, TypeOK
    <2>4. rep.id \in Uuids \cup {NoId} /\ rep.off \in 0 .. MaxSize  BY <2>3 DEF Replies
    <2>5. at \in A!Calls /\ A!OnReply(rep)  BY <1>5, <2>2 DEF A!OnReply
    <2>6. CASE at = "init" /\ rep.kind = "upload" /\ A!Advance(rep.id, rep.off)
      <3>1. Usable(rep.id)  BY <1>1, <1>5, <2>2, <2>6, Labels DEF Answered
      <3> QED BY <1>2, <1>3, <2>4, <2>5, <2>6, <3>1, OutcomeInv
    <2>7. CASE at = "chunk" /\ A!Advance(uid, rep.off)
      <3>1. Usable(uid) /\ uid \in Uuids \cup {NoId}
        BY <1>1, <2>7 DEF LoopPlace, SysTypeOK
      <3> QED BY <1>2, <1>3, <2>4, <2>5, <2>7, <3>1, OutcomeInv
    <2>8. CASE at = "finalize" /\ rep.kind = "session" /\ A!Return("mark_done")
      <3>1. SessionsOf(Device, cur) # {}
        BY <1>1, <1>5, <2>2, <2>8, Labels DEF Answered
      <3> QED BY <1>2, <1>3, <2>5, <2>8, <3>1, OutcomeInv
    <2>9. CASE A!Fatal \/ A!Transient  BY <1>2, <1>3, <2>5, <2>9, OutcomeInv
    <2> QED BY <2>5, <2>6, <2>7, <2>8, <2>9 DEF A!OnReply
  <1> QED BY <1>4, <1>5 DEF Receive, Timeout, BodyLost

\* The request is lost before it reaches anybody.
LEMMA RequestLostInv ==
  ASSUME SysInv, RequestLost  PROVE SysInv'
  <1>1. /\ at \in A!Calls /\ flying' = TRUE /\ conn' = NoConn /\ UNCHANGED vars
        /\ zip' = zip /\ sidecar' = sidecar /\ at' = at /\ cur' = cur /\ uid' = uid
        /\ off' = off /\ tries' = tries
    BY DEF RequestLost, A!Send
  <1>2. SysTypeOK /\ LoopPlace /\ QueueTruth  BY DEF SysInv
  <1>3. IndInv' /\ OnlyAgent'  BY <1>1, ServerWaits
  <1>4. /\ \A b : SessionsOf(Device, b)' = SessionsOf(Device, b)
        /\ \A b : StateOf(b)' = StateOf(b)
    BY <1>1, ServerWaits DEF StateOf
  <1>5. QueueTruth'  BY <1>1, <1>2, <1>4 DEF QueueTruth
  <1>6. /\ Usable(uid) => Usable(uid)'
        /\ SessionsOf(Device, cur)' = SessionsOf(Device, cur)
        /\ StateOf(cur)' = StateOf(cur)
    BY <1>1 DEF Usable, SessionsOf, StateOf, vars
  <1>7. LoopPlace'  BY <1>1, <1>2, <1>6, PlaceNames DEF LoopPlace
  <1>8. faults' \in 0 .. MaxFaults  BY <1>2, FaultBound DEF RequestLost
  <1>9. flying' \in BOOLEAN  BY <1>1, TRUE \in BOOLEAN, Zenon
  <1>10. SysTypeOK'  BY <1>1, <1>2, <1>8, <1>9 DEF SysTypeOK
  <1>11. Answered'  BY <1>1 DEF Answered
  <1> QED BY <1>3, <1>5, <1>7, <1>10, <1>11 DEF SysInv

\* The agent starts again from its queue directory.
LEMMA RestartInv ==
  ASSUME SysInv, AgentRestart  PROVE SysInv'
  <1>1. /\ sidecar' = [b \in Bundles |->
                         IF sidecar[b] # NoEntry /\ sidecar[b].state = "Uploading"
                           THEN [sidecar[b] EXCEPT !.state = "Pending"] ELSE sidecar[b]]
        /\ at' = "idle" /\ cur' = NoBundle /\ uid' = NoId /\ off' = 0 /\ tries' = 0
        /\ flying' = FALSE /\ zip' = zip /\ conn' = NoConn /\ UNCHANGED vars
    BY DEF AgentRestart, A!Restart
  <1>2. SysTypeOK /\ QueueTruth  BY DEF SysInv
  <1>3. IndInv' /\ OnlyAgent'  BY <1>1, ServerWaits
  <1>4. \A b : SessionsOf(Device, b)' = SessionsOf(Device, b)  BY <1>1, ServerWaits
  <1>5. ASSUME NEW b \in Bundles
        PROVE  /\ sidecar'[b] \in {NoEntry} \cup Entries
               /\ sidecar[b] = NoEntry => sidecar'[b] = NoEntry
               /\ StateOf(b)' = "Done" <=> StateOf(b) = "Done"
    <2>1. CASE sidecar[b] # NoEntry /\ sidecar[b].state = "Uploading"
      <3>1. sidecar[b] \in Entries  BY <1>2, <2>1 DEF SysTypeOK, Entries
      <3>2. PICK e : e = [sidecar[b] EXCEPT !.state = "Pending"]  OBVIOUS
      <3>3. e.state = "Pending"  BY <3>1, <3>2 DEF Entries
      <3>4. "Pending" \in A!QueueStates  BY PlaceNames
      <3>5. e \in Entries
        <4>1. \A st \in A!QueueStates : [sidecar[b] EXCEPT !.state = st] \in Entries
          BY <3>1 DEF Entries
        <4> QED BY <3>2, <3>4, <4>1, Zenon
      <3>6. sidecar'[b] = e  BY <1>1, <2>1, <3>2
      <3> QED BY <2>1, <3>3, <3>5, <3>6, EntryType DEF StateOf
    <2>2. CASE ~(sidecar[b] # NoEntry /\ sidecar[b].state = "Uploading")
      <3>1. sidecar'[b] = sidecar[b]  BY <1>1, <2>2
      <3> QED BY <1>2, <3>1 DEF StateOf, SysTypeOK, Entries
    <2> QED BY <2>1, <2>2
  <1>6. QueueTruth'  BY <1>1, <1>2, <1>4, <1>5 DEF QueueTruth
  <1>7. LoopPlace'  BY <1>1, PlaceNames DEF LoopPlace
  <1>8. Answered'  BY <1>1 DEF Answered
  <1>9. faults' \in 0 .. MaxFaults  BY <1>2, FaultBound DEF AgentRestart
  <1>10. sidecar' \in [Bundles -> {NoEntry} \cup Entries]  BY <1>1, <1>5
  <1>11. 0 \in 0 .. MaxAttempts - 1 /\ 0 \in 0 .. MaxSize
    BY SystemAssumption, SizeAssumption
  <1>12. SysTypeOK'  BY <1>1, <1>2, <1>9, <1>10, <1>11, PlaceNames DEF SysTypeOK, Entries
  <1> QED BY <1>3, <1>6, <1>7, <1>8, <1>12 DEF SysInv

\* A request arrives at an idle handler: what the invariant asks of that
\* handler is all there is to show.
LEMMA SentTo ==
  ASSUME SysInv, NEW r \in Handlers, A!Send, conn' = r, NoFault, Arrive(r),
         uploads' = uploads, sessions' = sessions, Others(r), pc'[r] # "fin.permit",
         pc'[r] \in InitLabels => /\ req'[r].dev = Device
                                  /\ zip[req'[r].bundle] # "none"
                                  /\ req'[r].decl = DeclOf(req'[r].bundle),
         at = "init" => pc'[r] \in InitLabels /\ req'[r].bundle = cur,
         at = "finalize" => \/ pc'[r] \in FinLabels /\ snap'[r].bundle = cur
                            \/ /\ pc'[r] = "idle" /\ reply'[r].kind # "session"
  PROVE  SysInv'
  <1>1. SysTypeOK /\ LoopPlace /\ QueueTruth /\ OnlyAgent /\ IndInv  BY DEF SysInv
  <1>2. /\ at \in A!Calls /\ flying' = TRUE /\ zip' = zip /\ sidecar' = sidecar /\ at' = at
        /\ cur' = cur /\ uid' = uid /\ off' = off /\ tries' = tries
    BY DEF A!Send
  <1>3. Next  BY DEF Next
  <1>4. IndInv'  BY <1>1, <1>3, Honest, NextInv
  <1>5. TableStep  BY <1>1, <1>3, ServerRows
  <1>6. /\ \A d, b : SessionsOf(d, b)' = SessionsOf(d, b)
        /\ \A b : StateOf(b)' = StateOf(b)
    BY <1>2 DEF SessionsOf, StateOf
  <1>7. QueueTruth'  BY <1>1, <1>2, <1>6 DEF QueueTruth
  <1>8. /\ Usable(uid) => Usable(uid)'
        /\ SessionsOf(Device, cur)' = SessionsOf(Device, cur)
        /\ StateOf(cur)' = StateOf(cur)
    BY <1>2 DEF Usable, SessionsOf, StateOf
  <1>9. LoopPlace'  BY <1>1, <1>2, <1>8, PlaceNames DEF LoopPlace
  <1>10. faults' \in 0 .. MaxFaults  BY <1>1, FaultBound
  <1>11. flying' \in BOOLEAN  BY <1>2, TRUE \in BOOLEAN, Zenon
  <1>12. SysTypeOK'  BY <1>1, <1>2, <1>10, <1>11 DEF SysTypeOK
  <1>13. OnlyAgent'
    <2>1. ASSUME NEW q \in Handlers, pc'[q] \in InitLabels
          PROVE  /\ req'[q].dev = Device
                 /\ zip'[req'[q].bundle] # "none"
                 /\ req'[q].decl = DeclOf(req'[q].bundle)
      BY <1>1, <1>2, <2>1 DEF OnlyAgent, Others
    <2>2. ASSUME NEW q \in Handlers, pc'[q] = "fin.permit"
          PROVE  (sid[q] \in SessionsOf(req[q].dev, snap[q].bundle))'
      BY <1>1, <2>2 DEF OnlyAgent, Others, SessionsOf
    <2> QED BY <1>1, <1>2, <1>5, <2>1, <2>2, RowsOwned DEF OnlyAgent
  <1>14. Answered'  BY <1>2 DEF Answered
  <1> QED BY <1>4, <1>7, <1>9, <1>12, <1>13, <1>14 DEF SysInv

\* init_upload's request.
LEMMA SendInit ==
  ASSUME SysInv, NEW r \in Handlers, SendTo(r), at = "init"  PROVE SysInv'
  <1>1. SysTypeOK /\ LoopPlace /\ IndInv /\ TypeOK  BY DEF SysInv, IndInv
  <1>2. /\ A!Send /\ conn' = r /\ NoFault /\ InitStart(r, Device, cur, DeclOf(cur))
    BY DEF SendTo
  <1>3. cur \in Bundles /\ StateOf(cur) = "Uploading"  BY <1>1, PlaceNames DEF LoopPlace
  <1>4. zip[cur] = "queued"  BY <1>3, ZipThere
  <1>5. DeclOf(cur) \in Decls /\ DeclOf(cur).size # 0  BY <1>3, BundleTypes
  <1>6. Arrive(r)  BY <1>2, <1>3, <1>5, SystemAssumption DEF Arrive
  <1>7. /\ req' = [req EXCEPT ![r] = [op |-> "init", dev |-> Device,
                                      bundle |-> cur, decl |-> DeclOf(cur)]]
        /\ Begin(r, "init.find_session")
        /\ uploads' = uploads /\ sessions' = sessions /\ snap' = snap /\ sid' = sid
    BY <1>2, <1>5 DEF InitStart, locals
  <1>8. /\ pc'[r] = "init.find_session" /\ Others(r)
        /\ req'[r] = [op |-> "init", dev |-> Device, bundle |-> cur, decl |-> DeclOf(cur)]
    BY <1>1, <1>7 DEF Begin, Others, TypeOK
  <1>9. req'[r].dev = Device /\ req'[r].bundle = cur /\ req'[r].decl = DeclOf(cur)
    BY <1>8
  <1>10. pc'[r] \in InitLabels  BY <1>8 DEF InitLabels
  <1> QED BY <1>2, <1>4, <1>6, <1>7, <1>8, <1>9, <1>10, SentTo

\* A chunk between the cursor and the end of the zip.
LEMMA ChunkLength ==
  ASSUME SysInv, at = "chunk"
  PROVE  A!End(off) - off \in 0 .. MaxChunk + 1
  <1>1. cur \in Bundles /\ off < Size[cur] /\ off \in 0 .. MaxSize
    BY PlaceNames DEF SysInv, LoopPlace, SysTypeOK
  <1>2. Size[cur] \in 1 .. MaxSize /\ Size[cur] \in Nat /\ off \in Nat
    BY <1>1, BundleTypes, SizeAssumption
  <1>3. ChunkSize \in Nat /\ ChunkSize <= MaxChunk /\ MaxChunk \in Nat
    BY SystemAssumption, SizeAssumption
  <1>4. CASE off + ChunkSize < Size[cur]
    <2>1. A!End(off) = off + ChunkSize  BY <1>4 DEF A!End
    <2> QED BY <1>2, <1>3, <2>1
  <1>5. CASE ~(off + ChunkSize < Size[cur])
    <2>1. A!End(off) = Size[cur]  BY <1>5 DEF A!End
    <2>2. Size[cur] <= off + ChunkSize  BY <1>2, <1>3, <1>5
    <2> QED BY <1>1, <1>2, <1>3, <2>1, <2>2
  <1> QED BY <1>4, <1>5

\* A refused request leaves an error behind and nothing else.
LEMMA RefusedAt ==
  ASSUME TypeOK, NEW r \in Handlers, NEW kind \in ErrorKinds, Refuse(r, kind)
  PROVE  /\ Others(r) /\ uploads' = uploads /\ sessions' = sessions
         /\ pc'[r] = "idle" /\ reply'[r].kind # "session"
  <1>1. pc'[r] = "idle" /\ reply'[r] = Err(kind) /\ Others(r)  BY AnswerFrame DEF Refuse
  <1>2. Err(kind).kind = kind  BY ErrKind DEF Err
  <1> QED BY <1>1, <1>2 DEF Refuse, stored, ErrorKinds

\* put_chunk's and finalize's request.
LEMMA SendOther ==
  ASSUME SysInv, NEW r \in Handlers, SendTo(r), at \in {"chunk", "finalize"}  PROVE SysInv'
  <1>1. SysTypeOK /\ LoopPlace /\ IndInv /\ TypeOK /\ OnlyAgent  BY DEF SysInv, IndInv
  <1>2. /\ A!Send /\ conn' = r /\ NoFault
        /\ \/ /\ at = "chunk"
              /\ PutStart(r, Device, uid, off, A!End(off) - off, ContentOf[cur])
           \/ at = "finalize" /\ FinStart(r, Device, uid, ContentOf[cur])
    BY DEF SendTo
  <1>3. cur \in Bundles /\ Usable(uid)  BY <1>1, PlaceNames DEF LoopPlace
  <1>4. uid \in Uuids  BY <1>3 DEF Usable, Uuids
  <1>5. ContentOf[cur] \in Contents /\ Device \in Devices /\ off \in 0 .. MaxSize
    BY <1>1, <1>3, BundleTypes, SystemAssumption DEF SysTypeOK
  <1>6. Arrive(r)  BY <1>2, <1>4, <1>5, ChunkLength DEF Arrive
  <1>7. ASSUME NEW kind \in ErrorKinds, Refuse(r, kind)  PROVE SysInv'
    <2>1. /\ Others(r) /\ uploads' = uploads /\ sessions' = sessions
          /\ pc'[r] = "idle" /\ reply'[r].kind # "session"
      BY <1>1, <1>7, RefusedAt
    <2>2. pc'[r] \notin InitLabels /\ pc'[r] # "fin.permit"  BY <2>1, Labels
    <2> QED BY <1>2, <1>6, <2>1, <2>2, SentTo
  <1>8. CASE at = "chunk"
    <2>1. CASE \E kind \in ErrorKinds : Refuse(r, kind)  BY <1>7, <2>1
    <2>2. CASE ~(\E kind \in ErrorKinds : Refuse(r, kind))
      <3>1. "not_found" \in ErrorKinds /\ "already_finalized" \in ErrorKinds
            /\ "bad_request" \in ErrorKinds
        BY DEF ErrorKinds
      <3>2. /\ Begin(r, "put.reserve") /\ UNCHANGED <<stored, worker, snap, sid, handle>>
            /\ \A q \in Handlers \ {r} : req'[q] = req[q]
        BY <1>1, <1>2, <1>8, <2>2, <3>1 DEF PutStart, TypeOK
      <3>3. /\ pc'[r] = "put.reserve" /\ Others(r) /\ uploads' = uploads
            /\ sessions' = sessions
        BY <1>1, <3>2 DEF Begin, Others, stored, TypeOK
      <3>4. pc'[r] \notin InitLabels /\ pc'[r] # "fin.permit"  BY <3>3 DEF InitLabels
      <3> QED BY <1>2, <1>6, <1>8, <3>3, <3>4, SentTo
    <2> QED BY <2>1, <2>2
  <1>9. CASE at = "finalize"
    <2>1. CASE \E kind \in ErrorKinds : Refuse(r, kind)  BY <1>7, <2>1
    <2>2. CASE ~(\E kind \in ErrorKinds : Refuse(r, kind))
      <3>1. "not_found" \in ErrorKinds /\ "bad_request" \in ErrorKinds  BY DEF ErrorKinds
      <3>2. /\ uploads[uid] # NoRow
            /\ \E l \in {"fin.find_session", "fin.hash"} : Begin(r, l)
            /\ snap' = [snap EXCEPT ![r] = uploads[uid]]
            /\ UNCHANGED <<stored, worker, sid, handle>>
            /\ \A q \in Handlers \ {r} : req'[q] = req[q]
        BY <1>1, <1>2, <1>9, <2>2, <3>1 DEF FinStart, TypeOK
      <3>3. /\ pc'[r] \in {"fin.find_session", "fin.hash"} /\ Others(r)
            /\ uploads' = uploads /\ sessions' = sessions /\ snap'[r] = uploads[uid]
        BY <1>1, <3>2 DEF Begin, Others, stored, TypeOK
      <3>4. uid \in UploadIds  BY <1>1, <1>4, <3>2 DEF OnlyAgent
      <3>5. uploads[uid].bundle = cur  BY <1>3, <3>4, UuidAssumption DEF Usable
      <3>6. pc'[r] \notin InitLabels /\ pc'[r] # "fin.permit" /\ pc'[r] \in FinLabels
        BY <3>3 DEF InitLabels, FinLabels
      <3> QED BY <1>2, <1>6, <1>9, <3>3, <3>5, <3>6, SentTo
    <2> QED BY <2>1, <2>2
  <1> QED BY <1>8, <1>9

-----------------------------------------------------------------------------
(* The invariant holds.                                                    *)

\* An empty queue and an empty server.
LEMMA SysInitInv ==
  ASSUME SysInit  PROVE SysInv
  <1>1. /\ Init /\ zip = [b \in Bundles |-> "none"] /\ sidecar = [b \in Bundles |-> NoEntry]
        /\ at = "idle" /\ cur = NoBundle /\ uid = NoId /\ off = 0 /\ tries = 0
        /\ flying = FALSE /\ conn = NoConn /\ faults = 0
    BY DEF SysInit, A!AgentInit
  <1>2. IndInv  BY <1>1, InitInv
  <1>3. \A b \in Bundles : zip[b] = "none" /\ sidecar[b] = NoEntry /\ StateOf(b) = "none"
    BY <1>1 DEF StateOf
  <1>4. QueueTruth  BY <1>3 DEF QueueTruth
  <1>5. LoopPlace  BY <1>1, PlaceNames DEF LoopPlace
  <1>6. Answered  BY <1>1 DEF Answered
  <1>7. /\ \A r \in Handlers : pc[r] = "idle"
        /\ \A u \in Uuids : uploads[u] = NoRow /\ sessions[u] = NoRow
    BY <1>1 DEF Init
  <1>8. OnlyAgent  BY <1>7, Labels DEF OnlyAgent
  <1>9. 0 \in 0 .. MaxAttempts - 1 /\ 0 \in 0 .. MaxSize /\ 0 \in 0 .. MaxFaults
    BY SystemAssumption, SizeAssumption
  <1>10. SysTypeOK  BY <1>1, <1>9, PlaceNames DEF SysTypeOK
  <1> QED BY <1>2, <1>4, <1>5, <1>6, <1>8, <1>10 DEF SysInv

\* Every step keeps it.
LEMMA SysNextInv == SysInv /\ [SysNext]_sysVars => SysInv'
  <1> SUFFICES ASSUME SysInv, [SysNext]_sysVars  PROVE SysInv'
    OBVIOUS
  <1>1. CASE AgentLocal
    BY <1>1, CollectInv, QueueWrites, QueueReads DEF AgentLocal
  <1>2. CASE AgentDisk
    BY <1>2, QueueReads DEF AgentDisk
  <1>3. ASSUME NEW r \in Handlers, SendTo(r)  PROVE SysInv'
    <2>1. at \in {"init", "chunk", "finalize"}  BY <1>3, PlaceNames DEF SendTo, A!Send
    <2> QED BY <1>3, <2>1, SendInit, SendOther
  <1>4. CASE UNCHANGED sysVars
    <2>1. UNCHANGED vars /\ zip' = zip /\ sidecar' = sidecar /\ at' = at /\ cur' = cur
          /\ uid' = uid /\ off' = off /\ tries' = tries /\ flying' = flying
          /\ conn' = conn /\ faults' = faults /\ UNCHANGED agentVars
      BY <1>4 DEF sysVars, agentVars
    <2>2. IndInv' /\ OnlyAgent'  BY <2>1, ServerWaits
    <2>3. uploads' = uploads /\ sessions' = sessions /\ blobs' = blobs /\ pc' = pc
          /\ req' = req /\ snap' = snap /\ reply' = reply
      BY <2>1 DEF vars
    <2>4. TableStep  BY <2>3, RowsAlone
    <2>5. LoopPlace' /\ QueueTruth'  BY <2>1, <2>4, AgentWaits
    <2>6. Answered'  BY <2>1, <2>3, <2>4, Relied DEF SysInv, Answered
    <2>7. SysTypeOK'  BY <2>1 DEF SysInv, SysTypeOK
    <2> QED BY <2>2, <2>5, <2>6, <2>7 DEF SysInv
  <1> QED BY <1>1, <1>2, <1>3, <1>4, RetryDueInv, RequestLostInv, CallEnds, RestartInv,
             ServerHandlers, ServerRest DEF SysNext

\* What the agent's queue, its task loop and uploader, the call in flight and
\* the server's tables say about each other, after any interleaving of the two
\* and any losses, timeouts, disconnects, crashes and restarts.
THEOREM SystemInductive == SysSpec => []SysInv
  <1>1. SysInit => SysInv  BY SysInitInv
  <1>2. SysInv /\ [SysNext]_sysVars => SysInv'  BY SysNextInv
  <1> QED BY <1>1, <1>2, PTL DEF SysSpec

\* The agent's state and the connection keep their types.
THEOREM SystemTypes == SysSpec => []SysTypeOK
  <1>1. SysInv => SysTypeOK  BY DEF SysInv
  <1> QED BY <1>1, SystemInductive, PTL

\* What is queued and not Done can still be read by the next drain.
THEOREM QueueHasItsZips == SysSpec => []QueuedHasZip
  <1>1. SysInv => QueuedHasZip  BY ZipThere DEF QueuedHasZip, Held
  <1> QED BY <1>1, SystemInductive, PTL

-----------------------------------------------------------------------------
(* What the server stores is the zip.                                      *)

\* A bundle with a session was collected, and its blob is its zip's bytes.
LEMMA SessionHasZip ==
  ASSUME SysInv, NEW b \in Bundles, NEW s \in SessionsOf(Device, b)
  PROVE  blobs[s] = Image(ContentOf[b]) /\ zip[b] # "none"
  <1>1. s \in Uuids /\ sessions[s] # NoRow /\ sessions[s].bundle = b
    BY DEF SessionsOf
  <1>2. PICK u \in Uuids : /\ uploads[u] # NoRow
                           /\ uploads[u].bundle = b
                           /\ blobs[s] = Image(uploads[u].decl.sha)
    BY <1>1 DEF SysInv, IndInv, SessionIntact
  <1>3. uploads[u].decl = DeclOf(b) /\ zip[b] # "none"  BY <1>2 DEF SysInv, OnlyAgent
  <1> QED BY <1>2, <1>3, BundleTypes

\* What the server holds for a bundle.
LEMMA Holding ==
  ASSUME SysInv, NEW b \in Bundles
  PROVE  /\ SessionsOf(Device, b) = {} => StoredBytes(b) = NoFile
         /\ SessionsOf(Device, b) # {} => /\ StoredBytes(b) = Image(ContentOf[b])
                                          /\ Cardinality(SessionsOf(Device, b)) = 1
         /\ Image(ContentOf[b]) # NoFile
  <1>1. SessionsOf(Device, b) = {} => StoredBytes(b) = NoFile  BY DEF StoredBytes
  <1>2. ASSUME SessionsOf(Device, b) # {}
        PROVE  /\ StoredBytes(b) = Image(ContentOf[b])
               /\ Cardinality(SessionsOf(Device, b)) = 1
    <2>1. PICK s : s = CHOOSE t \in SessionsOf(Device, b) : TRUE  OBVIOUS
    <2>2. s \in SessionsOf(Device, b)  BY <1>2, <2>1
    <2>3. StoredBytes(b) = blobs[s]  BY <1>2, <2>1 DEF StoredBytes
    <2>4. \A t \in SessionsOf(Device, b) : t = s
      BY <2>2 DEF SessionsOf, SysInv, IndInv, UniqueSession
    <2>5. SessionsOf(Device, b) = {s}  BY <2>2, <2>4
    <2> QED BY <2>2, <2>3, <2>5, SessionHasZip, FS_Singleton
  <1>3. Image(ContentOf[b]) # NoFile  BY BundleTypes, FileTypes, NoneAssumption
  <1> QED BY <1>1, <1>2, <1>3

\* When the agent records a bundle as Done, which lets it delete its copy, the
\* server holds one session for it whose blob is the zip's bytes.
THEOREM DoneIsStored == SysSpec => []DoneMeansStored
  <1>1. SysInv => DoneMeansStored  BY Holding DEF SysInv, QueueTruth, DoneMeansStored
  <1> QED BY <1>1, SystemInductive, PTL

-----------------------------------------------------------------------------
(* The agent and the server together implement Delivery.                   *)

\* The bytes stored for a bundle, from one state to the next.
LEMMA StoredStays ==
  ASSUME SysInv, SysInv', TableStep, NEW b \in Bundles,
         SessionsOf(Device, b) # {} \/ SessionsOf(Device, b)' = {}
  PROVE  StoredBytes(b)' = StoredBytes(b)
  <1>1. /\ SessionsOf(Device, b)' = {} => StoredBytes(b)' = NoFile
        /\ SessionsOf(Device, b)' # {} => StoredBytes(b)' = Image(ContentOf[b])
    <2>1. (SessionsOf(Device, b) = {} => StoredBytes(b) = NoFile)'  BY DEF StoredBytes
    <2>2. ASSUME SessionsOf(Device, b)' # {}  PROVE StoredBytes(b)' = Image(ContentOf[b])
      <3>1. PICK s : s = CHOOSE t \in SessionsOf(Device, b)' : TRUE  OBVIOUS
      <3>2. s \in SessionsOf(Device, b)'  BY <2>2, <3>1
      <3>3. StoredBytes(b)' = blobs'[s]  BY <2>2, <3>1 DEF StoredBytes
      <3>4. s \in Uuids /\ sessions'[s] # NoRow /\ sessions'[s].bundle = b
        BY <3>2 DEF SessionsOf
      <3>5. PICK u \in Uuids : /\ uploads'[u] # NoRow
                               /\ uploads'[u].bundle = b
                               /\ blobs'[s] = Image(uploads'[u].decl.sha)
        BY <3>4 DEF SysInv, IndInv, SessionIntact
      <3>6. uploads'[u].decl = DeclOf(b)  BY <3>5 DEF SysInv, OnlyAgent
      <3> QED BY <3>3, <3>5, <3>6, BundleTypes
    <2> QED BY <2>1, <2>2
  <1>2. SessionsOf(Device, b) # {} => SessionsOf(Device, b)' # {}  BY Relied
  <1> QED BY <1>1, <1>2, Holding

\* A step that moves no zip, settles nothing and stores nothing is invisible.
LEMMA Invisible ==
  ASSUME \A b \in Bundles : /\ zip'[b] = zip[b]
                            /\ StateOf(b)' = "Done" <=> StateOf(b) = "Done"
                            /\ StoredBytes(b)' = StoredBytes(b)
  PROVE  UNCHANGED D!deliveryVars
  <1>1. {b \in Bundles : Held(b)}' = {b \in Bundles : Held(b)}  BY DEF Held
  <1>2. {b \in Bundles : StateOf(b) = "Done"}' = {b \in Bundles : StateOf(b) = "Done"}
    OBVIOUS
  <1>3. [b \in Bundles |-> StoredBytes(b)]' = [b \in Bundles |-> StoredBytes(b)]
    OBVIOUS
  <1> QED BY <1>1, <1>2, <1>3 DEF D!deliveryVars

\* The server's part: a step of its own, or a request that arrives.  The first
\* session of a bundle is Store.
LEMMA ServerRefines ==
  ASSUME SysInv, SysInv', TableStep, zip' = zip, sidecar' = sidecar
  PROVE  [D!DeliveryNext]_(D!deliveryVars)
  <1>1. \A b : StateOf(b)' = StateOf(b)  BY DEF StateOf
  <1>2. CASE \A b \in Bundles : SessionsOf(Device, b) # {} \/ SessionsOf(Device, b)' = {}
    BY <1>1, <1>2, StoredStays, Invisible
  <1>3. ASSUME NEW b \in Bundles, SessionsOf(Device, b) = {}, SessionsOf(Device, b)' # {}
        PROVE  D!Store(b)
    <2>1. PICK s \in Uuids : /\ sessions'[s] # NoRow /\ sessions'[s].dev = Device
                             /\ sessions'[s].bundle = b
      BY <1>3 DEF SessionsOf
    <2>2. sessions[s] = NoRow
      BY <1>3, <2>1 DEF TableStep, SessionsStay, SessionsOf
    <2>3. \A t \in Uuids \ {s} : sessions'[t] = sessions[t]
      BY <2>1, <2>2 DEF TableStep, SessionsBorn
    <2>4. ASSUME NEW c \in Bundles, c # b  PROVE StoredBytes(c)' = StoredBytes(c)
      <3>1. SessionsOf(Device, c) # {} \/ SessionsOf(Device, c)' = {}
        BY <2>1, <2>3, <2>4 DEF SessionsOf
      <3> QED BY <2>4, <3>1, StoredStays
    <2>5. s \in SessionsOf(Device, b)'  BY <2>1 DEF SessionsOf
    <2>6. StoredBytes(b)' = Image(ContentOf[b]) /\ zip'[b] # "none"
      <3>1. PICK t : t = CHOOSE x \in SessionsOf(Device, b)' : TRUE  OBVIOUS
      <3>2. t \in SessionsOf(Device, b)'  BY <1>3, <3>1
      <3>3. StoredBytes(b)' = blobs'[t]  BY <1>3, <3>1 DEF StoredBytes
      <3>4. t \in Uuids /\ sessions'[t] # NoRow /\ sessions'[t].bundle = b
        BY <3>2 DEF SessionsOf
      <3>5. PICK u \in Uuids : /\ uploads'[u] # NoRow
                               /\ uploads'[u].bundle = b
                               /\ blobs'[t] = Image(uploads'[u].decl.sha)
        BY <3>4 DEF SysInv, IndInv, SessionIntact
      <3>6. uploads'[u].decl = DeclOf(b) /\ zip'[b] # "none"  BY <3>5 DEF SysInv, OnlyAgent
      <3> QED BY <3>3, <3>5, <3>6, BundleTypes
    <2>7. zip[b] = "queued"
      BY <1>3, <2>6 DEF SysInv, SysTypeOK, QueueTruth
    <2>8. StoredBytes(b) = NoFile  BY <1>3, Holding
    <2>9. {c \in Bundles : Held(c)}' = {c \in Bundles : Held(c)}  BY DEF Held
    <2>10. {c \in Bundles : StateOf(c) = "Done"}' = {c \in Bundles : StateOf(c) = "Done"}
      BY <1>1
    <2>11. [c \in Bundles |-> StoredBytes(c)]' =
             [[c \in Bundles |-> StoredBytes(c)] EXCEPT ![b] =
                [c \in Bundles |-> Image(ContentOf[c])][b]]
      BY <2>4, <2>6
    <2> QED BY <2>7, <2>8, <2>9, <2>10, <2>11 DEF D!Store, Held
  <1> QED BY <1>2, <1>3 DEF D!DeliveryNext

\* The agent's part: Collect, MarkDone and Purge are Gather, Settle and Release.
LEMMA AgentRefines ==
  ASSUME SysInv, SysInv', UNCHANGED vars,
         \/ \E b \in Bundles : A!Collect(b)
         \/ A!Enqueue \/ A!Drain \/ A!MarkUploading
         \/ A!MarkDone \/ A!MarkFailed \/ A!Purge \/ A!SidecarFailure
  PROVE  [D!DeliveryNext]_(D!deliveryVars)
  <1>1. SysTypeOK /\ LoopPlace /\ QueueTruth  BY DEF SysInv
  <1>2. \A b : StoredBytes(b)' = StoredBytes(b)
    BY DEF StoredBytes, SessionsOf, vars
  <1>3. [b \in Bundles |-> StoredBytes(b)]' = [b \in Bundles |-> StoredBytes(b)]
    BY <1>2
  <1>4. ASSUME NEW b \in Bundles, A!Collect(b)  PROVE D!Gather(b)
    <2>1. /\ zip[b] = "none" /\ zip' = [zip EXCEPT ![b] = "queued"] /\ sidecar' = sidecar
      BY <1>4 DEF A!Collect
    <2>2. zip'[b] = "queued" /\ \A c \in Bundles \ {b} : zip'[c] = zip[c]
      BY <1>1, <2>1 DEF SysTypeOK
    <2>3. {c \in Bundles : Held(c)}' = {c \in Bundles : Held(c)} \cup {b}
      BY <2>2 DEF Held
    <2>4. {c \in Bundles : StateOf(c) = "Done"}' = {c \in Bundles : StateOf(c) = "Done"}
      BY <2>1 DEF StateOf
    <2>5. SessionsOf(Device, b) = {}  BY <2>1, SessionHasZip
    <2>6. StoredBytes(b) = NoFile  BY <2>5, Holding
    <2>7. StateOf(b) # "Done"  BY <1>1, <2>1 DEF QueueTruth, StateOf
    <2> QED BY <1>3, <2>1, <2>3, <2>4, <2>6, <2>7 DEF D!Gather, Held
  <1>5. CASE A!MarkDone
    <2>1. /\ at = "mark_done" /\ sidecar' = A!Marked(cur, "Done") /\ zip' = zip
      BY <1>5 DEF A!MarkDone
    <2>2. cur \in Bundles /\ StateOf(cur) = "Uploading" /\ SessionsOf(Device, cur) # {}
      BY <1>1, <2>1 DEF LoopPlace
    <2>3. sidecar[cur] # NoEntry /\ "Done" \in A!QueueStates  BY <2>2, PlaceNames DEF StateOf
    <2>4. PICK e \in Entries : e.state = "Done" /\ sidecar' = [sidecar EXCEPT ![cur] = e]
      BY <1>1, <2>1, <2>2, <2>3, MarkedEntry
    <2>5. PICK b \in Bundles : b = cur  BY <2>2
    <2>6. sidecar' = [sidecar EXCEPT ![b] = e]  BY <2>4, <2>5
    <2>7. StateOf(b)' = "Done" /\ \A c \in Bundles \ {b} : StateOf(c)' = StateOf(c)
      BY <1>1, <2>4, <2>6, EntryStep
    <2>8. {c \in Bundles : StateOf(c) = "Done"}' =
             {c \in Bundles : StateOf(c) = "Done"} \cup {b}
      BY <2>7
    <2>9. {c \in Bundles : Held(c)}' = {c \in Bundles : Held(c)}  BY <2>1 DEF Held
    <2>10. zip[b] = "queued"  BY <2>2, <2>5, ZipThere
    <2>11. StoredBytes(b) # NoFile  BY <2>2, <2>5, Holding
    <2>12. D!Settle(b)  BY <1>3, <2>8, <2>9, <2>10, <2>11 DEF D!Settle, Held
    <2> QED BY <2>12 DEF D!DeliveryNext
  <1>6. CASE A!Purge /\ zip' # zip
    <2>1. /\ at = "purge" /\ sidecar[cur].state = "Done"
          /\ zip' = [zip EXCEPT ![cur] = "removed"] /\ sidecar' = sidecar
      BY <1>6 DEF A!Purge
    <2>2. cur \in Bundles /\ StateOf(cur) = "Done" /\ zip[cur] = "queued"
      BY <1>1, <2>1 DEF LoopPlace, StateOf
    <2>3. zip'[cur] = "removed" /\ \A c \in Bundles \ {cur} : zip'[c] = zip[c]
      BY <1>1, <2>1, <2>2 DEF SysTypeOK
    <2>4. PICK b \in Bundles : b = cur  BY <2>2
    <2>5. {c \in Bundles : Held(c)}' = {c \in Bundles : Held(c)} \ {b}
      BY <2>3, <2>4 DEF Held
    <2>6. {c \in Bundles : StateOf(c) = "Done"}' = {c \in Bundles : StateOf(c) = "Done"}
      BY <2>1 DEF StateOf
    <2>7. D!Release(b)  BY <1>3, <2>2, <2>4, <2>5, <2>6 DEF D!Release, Held
    <2> QED BY <2>7 DEF D!DeliveryNext
  <1>7. CASE /\ zip' = zip
             /\ \A b \in Bundles : StateOf(b)' = "Done" <=> StateOf(b) = "Done"
    BY <1>2, <1>7, Invisible
  <1>8. CASE A!Drain \/ A!SidecarFailure \/ (A!Purge /\ zip' = zip)
    <2>1. zip' = zip /\ sidecar' = sidecar  BY <1>8 DEF A!Drain, A!SidecarFailure, A!Purge
    <2>2. \A b : StateOf(b)' = StateOf(b)  BY <2>1 DEF StateOf
    <2> QED BY <1>7, <2>1, <2>2
  <1>9. CASE A!Enqueue \/ A!MarkUploading \/ A!MarkFailed
    <2>1. /\ zip' = zip /\ at \in {"enqueue", "mark", "mark_failed"}
          /\ \A b \in Bundles \ {cur} : sidecar'[b] = sidecar[b]
      BY <1>1, <1>9 DEF A!Enqueue, A!MarkUploading, A!MarkFailed, A!Marked, SysTypeOK
    <2>2. cur \in Bundles /\ StateOf(cur) # "Done"
      BY <1>1, <2>1 DEF LoopPlace, StateOf
    <2>3. PICK b \in Bundles : b = cur  BY <2>2
    <2>4. StateOf(b)' # "Done"
      <3>1. CASE A!Enqueue
        <4>1. PICK t \in EnqueueTimes :
                sidecar' = [sidecar EXCEPT ![cur] =
                   [state |-> "Pending", attempts |-> 0, elapsed |-> FALSE, since |-> t]]
          BY <3>1 DEF A!Enqueue
        <4>2. PICK e : e = [state |-> "Pending", attempts |-> 0, elapsed |-> FALSE,
                            since |-> t]
          OBVIOUS
        <4>3. e.state = "Pending"  BY <4>2
        <4>4. sidecar' = [sidecar EXCEPT ![b] = e]  BY <2>3, <4>1, <4>2, Zenon
        <4>5. sidecar'[b] = e  BY <1>1, <4>4 DEF SysTypeOK
        <4> QED BY <4>3, <4>5 DEF StateOf
      <3>2. ASSUME NEW st \in {"Uploading", "Failed"}, sidecar' = A!Marked(cur, st),
                   sidecar[cur] # NoEntry
            PROVE  StateOf(b)' # "Done"
        <4>1. st \in A!QueueStates  BY PlaceNames
        <4>2. PICK e \in Entries : e.state = st /\ sidecar' = [sidecar EXCEPT ![b] = e]
          BY <1>1, <2>2, <2>3, <3>2, <4>1, MarkedEntry
        <4>3. StateOf(b)' = st  BY <1>1, <4>2, EntryStep
        <4> QED BY <4>3
      <3>3. ~A!Enqueue => sidecar[cur] # NoEntry
        BY <1>1, <1>9 DEF A!MarkUploading, A!MarkFailed, LoopPlace, StateOf
      <3> QED BY <1>9, <3>1, <3>2, <3>3 DEF A!MarkUploading, A!MarkFailed
    <2>5. \A c \in Bundles \ {b} : StateOf(c)' = StateOf(c)  BY <2>1, <2>3 DEF StateOf
    <2> QED BY <1>7, <2>1, <2>2, <2>3, <2>4, <2>5
  <1> QED BY <1>4, <1>5, <1>6, <1>8, <1>9 DEF D!DeliveryNext

\* A call that ends, a retry that falls due and a restart are invisible.
LEMMA QuietRefines ==
  ASSUME SysInv, UNCHANGED vars,
         \/ (\E b \in Bundles : RetryDue(b)) \/ RequestLost \/ Receive
         \/ Timeout \/ BodyLost \/ AgentRestart
  PROVE  UNCHANGED D!deliveryVars
  <1>1. SysTypeOK  BY DEF SysInv
  <1>2. \A b : StoredBytes(b)' = StoredBytes(b)
    BY DEF StoredBytes, SessionsOf, vars
  <1>3. ASSUME NEW b \in Bundles, RetryDue(b), NEW c \in Bundles
        PROVE  zip' = zip /\ StateOf(c)' = StateOf(c)
    <2>1. /\ zip' = zip /\ sidecar[b] # NoEntry
          /\ sidecar' = [sidecar EXCEPT ![b].elapsed = TRUE]
      BY <1>3 DEF RetryDue, A!BackoffElapses
    <2>2. sidecar[b] \in Entries  BY <1>1, <2>1 DEF SysTypeOK, Entries
    <2>3. PICK e : e = [sidecar[b] EXCEPT !.elapsed = TRUE]  OBVIOUS
    <2>4. e.state = sidecar[b].state  BY <2>2, <2>3 DEF Entries
    <2>5. e \in Entries
      <3>1. \A f \in BOOLEAN : [sidecar[b] EXCEPT !.elapsed = f] \in Entries
        BY <2>2 DEF Entries
      <3> QED BY <2>3, <3>1, TRUE \in BOOLEAN, Zenon
    <2>6. sidecar' = [sidecar EXCEPT ![b] = e]  BY <2>1, <2>3, Zenon
    <2> QED BY <1>1, <2>1, <2>4, <2>5, <2>6, EntryStep DEF StateOf
  <1>4. CASE RequestLost \/ Receive \/ Timeout \/ BodyLost
    <2>1. zip' = zip /\ sidecar' = sidecar
      BY <1>4 DEF RequestLost, Receive, Timeout, BodyLost, A!Send, A!OnNetworkError,
         A!OnBadBody, A!OnReply, A!Transient, A!Fatal, A!Return, A!Advance
    <2> QED BY <1>2, <2>1, Invisible DEF StateOf
  <1>5. CASE AgentRestart
    <2>1. /\ sidecar' = [b \in Bundles |->
                           IF sidecar[b] # NoEntry /\ sidecar[b].state = "Uploading"
                             THEN [sidecar[b] EXCEPT !.state = "Pending"] ELSE sidecar[b]]
          /\ zip' = zip
      BY <1>5 DEF AgentRestart, A!Restart
    <2>2. ASSUME NEW b \in Bundles  PROVE StateOf(b)' = "Done" <=> StateOf(b) = "Done"
      <3>1. CASE sidecar[b] # NoEntry /\ sidecar[b].state = "Uploading"
        <4>1. sidecar[b] \in Entries  BY <1>1, <3>1 DEF SysTypeOK, Entries
        <4>2. PICK e : e = [sidecar[b] EXCEPT !.state = "Pending"]  OBVIOUS
        <4>3. e.state = "Pending"  BY <4>1, <4>2 DEF Entries
        <4>4. sidecar'[b] = e  BY <2>1, <3>1, <4>2
        <4> QED BY <3>1, <4>3, <4>4 DEF StateOf
      <3>2. CASE ~(sidecar[b] # NoEntry /\ sidecar[b].state = "Uploading")
        <4>1. sidecar'[b] = sidecar[b]  BY <2>1, <3>2
        <4> QED BY <4>1 DEF StateOf
      <3> QED BY <3>1, <3>2
    <2> QED BY <1>2, <2>1, <2>2, Invisible
  <1> QED BY <1>2, <1>3, <1>4, <1>5, Invisible

\* Every step of the system is a step of Delivery or invisible to it.
LEMMA StepRefines ==
  SysInv /\ SysInv' /\ [SysNext]_sysVars => [D!DeliveryNext]_(D!deliveryVars)
  <1> SUFFICES ASSUME SysInv, SysInv', [SysNext]_sysVars
               PROVE  [D!DeliveryNext]_(D!deliveryVars)
    OBVIOUS
  <1>1. CASE AgentLocal \/ AgentDisk
    BY <1>1, AgentRefines DEF AgentLocal, AgentDisk
  <1>2. CASE \/ (\E b \in Bundles : RetryDue(b)) \/ RequestLost \/ Receive
             \/ Timeout \/ BodyLost \/ AgentRestart
    <2>1. UNCHANGED vars
      BY <1>2 DEF RetryDue, RequestLost, Receive, Timeout, BodyLost, AgentRestart
    <2> QED BY <1>2, <2>1, QuietRefines
  <1>3. ASSUME NEW r \in Handlers, SendTo(r)  PROVE [D!DeliveryNext]_(D!deliveryVars)
    <2>1. UNCHANGED <<uploads, sessions, blobs>> /\ zip' = zip /\ sidecar' = sidecar
      BY <1>3 DEF SendTo, A!Send, InitStart, PutStart, FinStart, Refuse, stored
    <2> QED BY <2>1, RowsAlone, ServerRefines
  <1>4. CASE \/ \E r \in Handlers : ServerStep(r) \/ ServerFailure(r) \/ ServerDisconnect(r)
             \/ ServerParse \/ ServerCrash
    <2>1. Next  BY <1>4 DEF ServerStep, ServerFailure, ServerDisconnect, ServerParse,
                            ServerCrash, Next
    <2>2. TableStep  BY <2>1, ServerRows DEF SysInv
    <2>3. zip' = zip /\ sidecar' = sidecar
      BY <1>4 DEF ServerStep, ServerFailure, ServerDisconnect, ServerParse, ServerCrash,
                  agentVars
    <2> QED BY <2>2, <2>3, ServerRefines
  <1>5. CASE UNCHANGED sysVars
    <2>1. UNCHANGED <<uploads, sessions, blobs>> /\ zip' = zip /\ sidecar' = sidecar
      BY <1>5 DEF sysVars, agentVars, vars
    <2> QED BY <2>1, RowsAlone, ServerRefines
  <1> QED BY <1>1, <1>2, <1>3, <1>4, <1>5 DEF SysNext

\* The system starts where Delivery starts.
LEMMA InitRefines ==
  ASSUME SysInit  PROVE D!DeliveryInit
  <1>1. /\ zip = [b \in Bundles |-> "none"] /\ sidecar = [b \in Bundles |-> NoEntry]
        /\ sessions = [s \in Uuids |-> NoRow]
    BY DEF SysInit, A!AgentInit, Init
  <1>2. \A b \in Bundles : ~Held(b) /\ StateOf(b) # "Done"  BY <1>1 DEF Held, StateOf
  <1>3. \A b \in Bundles : StoredBytes(b) = NoFile  BY <1>1 DEF StoredBytes, SessionsOf
  <1> QED BY <1>2, <1>3 DEF D!DeliveryInit

\* Seen from outside, agent and server do what Delivery says: the bytes are
\* somewhere at every moment, the server comes to hold exactly them and never
\* changes or forgets them, and the agent's copy goes only after that.
THEOREM Delivers == SysSpec => ImplementsDelivery
  <1>1. SysInit => D!DeliveryInit  BY InitRefines
  <1>2. SysInv /\ SysInv' /\ [SysNext]_sysVars => [D!DeliveryNext]_(D!deliveryVars)
    BY StepRefines
  <1> QED BY <1>1, <1>2, SystemInductive, PTL DEF SysSpec, ImplementsDelivery, D!DeliverySpec
=============================================================================
