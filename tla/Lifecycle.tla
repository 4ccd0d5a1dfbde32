------------------------------ MODULE Lifecycle ------------------------------
(***************************************************************************)
(* What becomes of a committed session: the background parse worker        *)
(* (crates/api-server/src/pipeline/parse_worker.rs) fills the files and    *)
(* entries tables and sets parse_state; the retention sweeper              *)
(* (pipeline/retention.rs) deletes blob and rows past their TTL.  Both run *)
(* beside each other and share nothing but the tables and the blob store.  *)
(*                                                                         *)
(* A worker is a consumer (its place is pc) and a producer task (prod) on  *)
(* a bounded channel.  A bundle is the form it has for the worker and, for *)
(* each of its log files, what parse_one makes of it.                      *)
(***************************************************************************)
EXTENDS Naturals, Sequences, FiniteSets

CONSTANTS
    Sessions,
    Legacy,      \* sessions of an earlier blob backend: BadBlobUri here
    Zips,        \* the bundles a device may have shipped
    Buffer,      \* PIPELINE_BUFFER
    Batch,       \* CMTRACE_RETENTION_BATCH_SIZE
    Ttl,         \* CMTRACE_BUNDLE_TTL_DAYS
    Day,         \* clock readings in a day
    MaxNow,      \* bound: the last clock reading
    Faults, MaxFaults,   \* kinds of faults, and bound on their number
    NoRow

FileKinds == {"clean", "empty", "fallback", "broken", "undecodable", "panics"}
(* no evidence-zip, over MAX_EVIDENCE_ZIP_BYTES, not to be unzipped, good. *)
Forms == {"unsupported", "oversize", "not_zip", "zip"}
FaultKinds == {"db", "blob", "crash", "disconnect"}
Outcomes == {"ok", "ok-with-fallbacks", "partial", "failed"}

ASSUME LifecycleAssumption ==
    /\ Legacy \subseteq Sessions
    /\ \A z \in Zips : z.form \in Forms /\ z.logs \in Seq(FileKinds)
    /\ {Buffer, Batch, Day} \subseteq Nat \ {0}
    /\ {Ttl, MaxNow, MaxFaults} \subseteq Nat
    /\ Faults \subseteq FaultKinds
    /\ NoRow \notin [at : Nat, parse : Outcomes \cup {"pending"}]

VARIABLES
    zip,       \* the bundle of each session, fixed from the start
    row,       \* table sessions: ingested_utc and parse_state, or NoRow
    blob,      \* sessions whose blob is in the store
    files,     \* table files: files[s] is the set of s's file rows
    entries,   \* files of s that have their entries rows
    gone,      \* history: sessions that were deleted
    w,         \* the parse workers
    sweep,     \* the sweeper: place and rest of its batch
    now, faults

vars == <<zip, row, blob, files, entries, gone, w, sweep, now, faults>>
tables == <<zip, row, files, entries, gone>>

NoWorker == [pc |-> "none", prod |-> "none", left |-> {}, chan |-> <<>>,
             got |-> {}, file |-> 0, err |-> FALSE, outcome |-> "failed"]
Resting == [pc |-> "sleep", todo |-> {}]

LogFiles(s) == DOMAIN zip[s].logs
FileKind(s, i) == zip[s].logs[i]

Init ==
    /\ zip \in [Sessions -> Zips]
    /\ \A s \in Legacy : zip[s] = CHOOSE z \in Zips : TRUE   \* never read
    /\ row = [s \in Sessions |-> IF s \in Legacy THEN [at |-> 0, parse |-> "ok"] ELSE NoRow]
    /\ blob = {}
    /\ files = [s \in Sessions |-> {}]
    /\ entries = [s \in Sessions |-> {}]
    /\ gone = {}
    /\ w = [s \in Sessions |-> NoWorker]
    /\ sweep = Resting
    /\ now = 0
    /\ faults = 0

Fault(kind) == kind \in Faults /\ faults < MaxFaults /\ faults' = faults + 1
NoFault == UNCHANGED faults
Set(s, rec) == w' = [w EXCEPT ![s] = rec]

-----------------------------------------------------------------------------
(* finalize commits the session and spawns its worker (module Ingest); when
   the client leaves while finalize waits for a permit, no worker is spawned. *)
Commit(s) ==
    /\ row[s] = NoRow /\ s \notin gone
    /\ row' = [row EXCEPT ![s] = [at |-> now, parse |-> "pending"]]
    /\ blob' = blob \cup {s}
    /\ \/ Set(s, [NoWorker EXCEPT !.pc = "head"]) /\ NoFault
       \/ UNCHANGED w /\ Fault("disconnect")
    /\ UNCHANGED <<zip, files, entries, gone, sweep, now>>

Failed(s) == Set(s, [w[s] EXCEPT !.pc = "update", !.outcome = "failed"])

(* The content kind, head_blob for the size cap, then read_blob: a missing
   blob is an error. *)
HeadBlob(s) ==
    /\ w[s].pc = "head"
    /\ LET good == s \in blob /\ zip[s].form \notin {"unsupported", "oversize"} IN
       \/ good /\ Set(s, [w[s] EXCEPT !.pc = "read"]) /\ NoFault
       \/ ~good /\ Failed(s) /\ NoFault
       \/ Failed(s) /\ Fault("blob")
    /\ UNCHANGED <<tables, blob, sweep, now>>

ReadBlob(s) ==
    /\ w[s].pc = "read"
    /\ \/ s \in blob /\ Set(s, [w[s] EXCEPT !.pc = "recv", !.prod = "extract"]) /\ NoFault
       \/ s \notin blob /\ Failed(s) /\ NoFault
       \/ Failed(s) /\ Fault("blob")
    /\ UNCHANGED <<tables, blob, sweep, now>>

(* produce_parsed_files, phase 1: the zip is opened and its log files read. *)
Extract(s) ==
    /\ w[s].prod = "extract"
    /\ Set(s, IF zip[s].form = "not_zip" THEN [w[s] EXCEPT !.prod = "err"]
              ELSE [w[s] EXCEPT !.prod = "parse", !.left = LogFiles(s)])
    /\ UNCHANGED <<tables, blob, sweep, now>> /\ NoFault

(* Seeded fault: the receiver lives on until the function returns. *)
Listening_UntilReturn(s) == w[s].pc \notin {"none", "head", "read"}

Listening(s) == w[s].pc \in {"recv", "insert_file", "insert_entries"}

(* Seeded fault: the channel is not bounded. *)
Produce_NoBackpressure(s) ==
    /\ w[s].prod = "parse"
    /\ \/ w[s].left = {} /\ Set(s, [w[s] EXCEPT !.prod = "done"])
       \/ \E i \in w[s].left :
            Set(s, [w[s] EXCEPT !.left = @ \ {i}, !.chan = Append(@, i)])
    /\ UNCHANGED <<tables, blob, sweep, now>> /\ NoFault

(* Phase 2: parses end in any order; send waits for room in the channel. *)
Produce(s) ==
    /\ w[s].prod = "parse"
    /\ \/ w[s].left = {} /\ Set(s, [w[s] EXCEPT !.prod = "done"])
       \/ \E i \in w[s].left :
            \/ /\ FileKind(s, i) = "panics"
               /\ Set(s, [w[s] EXCEPT !.prod = "err"])
            \/ /\ FileKind(s, i) = "undecodable"
               /\ Set(s, [w[s] EXCEPT !.left = @ \ {i}])
            \/ /\ FileKind(s, i) \notin {"panics", "undecodable"}
               /\ Listening(s) /\ Len(w[s].chan) < Buffer
               /\ Set(s, [w[s] EXCEPT !.left = @ \ {i}, !.chan = Append(@, i)])
            \/ /\ FileKind(s, i) \notin {"panics", "undecodable"}
               /\ ~Listening(s)
               /\ Set(s, [w[s] EXCEPT !.prod = "err"])
    /\ UNCHANGED <<tables, blob, sweep, now>> /\ NoFault

ProducerEnded(s) == w[s].prod \in {"done", "err"}

Recv(s) ==
    /\ w[s].pc = "recv"
    /\ \/ /\ w[s].chan # <<>>
          /\ LET i == w[s].chan[1] IN
             Set(s, [w[s] EXCEPT !.pc = "insert_file", !.chan = Tail(@),
                                 !.file = i, !.got = @ \cup {i}])
       \/ /\ w[s].chan = <<>> /\ ProducerEnded(s)
          /\ Set(s, [w[s] EXCEPT !.pc = "join"])
    /\ UNCHANGED <<tables, blob, sweep, now>> /\ NoFault

(* A failing insert ends the loop: the receiver is dropped, what is still in
   the channel with it. *)
Break(s) == Set(s, [w[s] EXCEPT !.pc = "join", !.err = TRUE, !.chan = <<>>])

InsertFile(s) ==
    /\ w[s].pc = "insert_file"
    /\ \/ /\ row[s] # NoRow
          /\ files' = [files EXCEPT ![s] = @ \cup {w[s].file}]
          /\ Set(s, [w[s] EXCEPT !.pc = "insert_entries"])
          /\ NoFault
       \/ row[s] = NoRow /\ Break(s) /\ UNCHANGED files /\ NoFault
       \/ Break(s) /\ UNCHANGED files /\ Fault("db")
    /\ UNCHANGED <<zip, row, entries, gone, blob, sweep, now>>

(* Seeded fault: foreign keys are off. *)
InsertEntries_NoForeignKey(s) ==
    /\ w[s].pc = "insert_entries"
    /\ entries' = [entries EXCEPT ![s] =
                      IF FileKind(s, w[s].file) \in {"empty", "broken"} THEN @
                      ELSE @ \cup {w[s].file}]
    /\ Set(s, [w[s] EXCEPT !.pc = "recv"])
    /\ UNCHANGED <<zip, row, files, gone, blob, sweep, now>> /\ NoFault

(* One transaction; entries.file_id REFERENCES files, entries.session_id
   references nothing. *)
InsertEntries(s) ==
    /\ w[s].pc = "insert_entries"
    /\ LET i == w[s].file
           none == FileKind(s, i) \in {"empty", "broken"} IN
       \/ /\ none \/ i \in files[s]
          /\ entries' = [entries EXCEPT ![s] = IF none THEN @ ELSE @ \cup {i}]
          /\ Set(s, [w[s] EXCEPT !.pc = "recv"])
          /\ NoFault
       \/ ~none /\ i \notin files[s] /\ Break(s) /\ UNCHANGED entries /\ NoFault
       \/ ~none /\ Break(s) /\ UNCHANGED entries /\ Fault("db")
    /\ UNCHANGED <<zip, row, files, gone, blob, sweep, now>>

(* Seeded fault: the consumer's error is forgotten. *)
Classify_ForgetsError(s) ==
    LET kinds == {FileKind(s, i) : i \in w[s].got} IN
    IF w[s].prod = "err" THEN "failed"
    ELSE IF w[s].got = {} \/ "broken" \in kinds THEN "partial"
    ELSE IF "fallback" \in kinds THEN "ok-with-fallbacks"
    ELSE "ok"

(* classify_outcome over the files the consumer saw. *)
Classify(s) ==
    LET kinds == {FileKind(s, i) : i \in w[s].got} IN
    IF w[s].err \/ w[s].prod = "err" THEN "failed"
    ELSE IF w[s].got = {} \/ "broken" \in kinds THEN "partial"
    ELSE IF "fallback" \in kinds THEN "ok-with-fallbacks"
    ELSE "ok"

Join(s) ==
    /\ w[s].pc = "join"
    /\ ProducerEnded(s)
    /\ Set(s, [w[s] EXCEPT !.pc = "update", !.outcome = Classify(s)])
    /\ UNCHANGED <<tables, blob, sweep, now>> /\ NoFault

(* update_session_parse_state; RowNotFound and other errors are only logged. *)
Update(s) ==
    /\ w[s].pc = "update"
    /\ \/ row[s] # NoRow /\ row' = [row EXCEPT ![s].parse = w[s].outcome] /\ NoFault
       \/ row[s] = NoRow /\ UNCHANGED row /\ NoFault
       \/ UNCHANGED row /\ Fault("db")
    /\ Set(s, NoWorker)
    /\ UNCHANGED <<zip, files, entries, gone, blob, sweep, now>>

Worker(s) == \/ HeadBlob(s) \/ ReadBlob(s) \/ Recv(s) \/ InsertFile(s) \/ InsertEntries(s)
             \/ Join(s) \/ Update(s)
Producer(s) == Extract(s) \/ Produce(s)

-----------------------------------------------------------------------------
(* The sweeper.                                                            *)

(* Seeded fault: a session is old on the day of its cutoff. *)
OlderThan_SameDay(s) == row[s] # NoRow /\ (row[s].at \div Day) + Ttl <= now \div Day

(* ingested_utc < datetime('now', '-N days') compares an RFC 3339 text with a
   'YYYY-MM-DD HH:MM:SS' text: on the cutoff's own date the 'T' sorts after
   the blank, so a row is older only from the next date on. *)
OlderThan(s) == row[s] # NoRow /\ (row[s].at \div Day) + Ttl < now \div Day
Expired == {s \in Sessions : OlderThan(s)}

(* ORDER BY ingested_utc LIMIT batch_size. *)
Candidates ==
    {T \in SUBSET Expired :
        /\ Cardinality(T) = IF Cardinality(Expired) < Batch THEN Cardinality(Expired) ELSE Batch
        /\ \A s \in T, t \in Expired \ T : row[s].at <= row[t].at}

(* One pass; Ttl = 0 switches the sweeper off, a failing scan skips the pass. *)
Scan ==
    /\ sweep.pc = "sleep"
    /\ Ttl > 0
    /\ \E T \in Candidates : T # {} /\ sweep' = [pc |-> "blob", todo |-> T]
    /\ UNCHANGED <<tables, blob, w, now>> /\ NoFault

Skip(T) == sweep' = IF T = {} THEN Resting ELSE [pc |-> "blob", todo |-> T]

Oldest(T) == {s \in T : \A t \in T : row[s] = NoRow \/ row[t] = NoRow \/ row[s].at <= row[t].at}

(* Seeded fault: an error of delete_blob does not keep the row. *)
DeleteBlob_IgnoresError ==
    /\ sweep.pc = "blob"
    /\ \E s \in Oldest(sweep.todo) :
          /\ sweep' = [pc |-> "row", todo |-> sweep.todo, cur |-> s]
          /\ \/ s \notin Legacy /\ blob' = blob \ {s} /\ NoFault
             \/ UNCHANGED blob /\ Fault("blob")
    /\ UNCHANGED <<tables, w, now>>

(* Seeded fault: a blob that is already gone is an error. *)
DeleteBlob_MissingFails ==
    /\ sweep.pc = "blob"
    /\ \E s \in Oldest(sweep.todo) :
          \/ /\ s \in blob
             /\ blob' = blob \ {s}
             /\ sweep' = [pc |-> "row", todo |-> sweep.todo, cur |-> s]
          \/ s \notin blob /\ Skip(sweep.todo \ {s}) /\ UNCHANGED blob
    /\ UNCHANGED <<tables, w, now>> /\ NoFault

(* delete_one on the oldest candidate: head_blob only measures; delete_blob
   takes a missing blob for deleted, and any other error keeps the row. *)
DeleteBlob ==
    /\ sweep.pc = "blob"
    /\ \E s \in Oldest(sweep.todo) :
          \/ /\ s \notin Legacy
             /\ blob' = blob \ {s}
             /\ sweep' = [pc |-> "row", todo |-> sweep.todo, cur |-> s]
             /\ NoFault
          \/ s \in Legacy /\ Skip(sweep.todo \ {s}) /\ UNCHANGED blob /\ NoFault
          \/ Skip(sweep.todo \ {s}) /\ UNCHANGED blob /\ Fault("blob")
    /\ UNCHANGED <<tables, w, now>>

(* delete_session: entries, files and the row in one transaction. *)
DeleteSession ==
    /\ sweep.pc = "row"
    /\ LET s == sweep.cur IN
       /\ \/ /\ row' = [row EXCEPT ![s] = NoRow]
             /\ files' = [files EXCEPT ![s] = {}]
             /\ entries' = [entries EXCEPT ![s] = {}]
             /\ gone' = gone \cup {s}
             /\ UNCHANGED zip
             /\ NoFault
          \/ UNCHANGED tables /\ Fault("db")
       /\ Skip(sweep.todo \ {s})
    /\ UNCHANGED <<blob, w, now>>

Tick == now < MaxNow /\ now' = now + 1 /\ UNCHANGED <<tables, blob, w, sweep, faults>>

(* The process dies and restarts: nothing resumes a worker. *)
Crash ==
    /\ w' = [s \in Sessions |-> NoWorker]
    /\ sweep' = Resting
    /\ UNCHANGED <<tables, blob, now>> /\ Fault("crash")

Sweeper == Scan \/ DeleteBlob \/ DeleteSession

Next ==
    \/ \E s \in Sessions : Commit(s) \/ Worker(s) \/ Producer(s)
    \/ Sweeper \/ Tick \/ Crash

Spec == Init /\ [][Next]_vars

(* The runtime polls every task, the sweeper wakes up after each interval and
   time passes. *)
Fairness ==
    /\ \A s \in Sessions : WF_vars(Worker(s)) /\ WF_vars(Producer(s))
    /\ WF_vars(Sweeper)
    /\ WF_vars(Tick)
FairSpec == Spec /\ Fairness

-----------------------------------------------------------------------------
(* Properties.                                                             *)

Readable(s) == {i \in LogFiles(s) : FileKind(s, i) # "undecodable"}

(* The types of the tables, the workers and the sweeper. *)
TypeOK ==
    /\ \A s \in Sessions :
          /\ row[s] # NoRow => /\ row[s].at \in 0 .. MaxNow
                               /\ row[s].parse \in Outcomes \cup {"pending"}
          /\ files[s] \subseteq LogFiles(s) /\ entries[s] \subseteq LogFiles(s)
          /\ w[s].pc \in {"none", "head", "read", "recv", "insert_file", "insert_entries",
                           "join", "update"}
          /\ w[s].prod \in {"none", "extract", "parse", "done", "err"}
          /\ Len(w[s].chan) <= Buffer
    /\ blob \subseteq Sessions /\ gone \subseteq Sessions
    /\ sweep.pc \in {"sleep", "blob", "row"} /\ sweep.todo \subseteq Sessions
    /\ now \in 0 .. MaxNow /\ faults \in 0 .. MaxFaults

(* No file row without its session and no entries without their file row: a
   worker that outlives the deletion of its session leaves nothing behind,
   although entries.session_id has no foreign key. *)
NoOrphans ==
    \A s \in Sessions : /\ entries[s] \subseteq files[s]
                        /\ files[s] # {} => row[s] # NoRow

(* A session is called ok, with or without fallbacks, only when every readable
   log file of its bundle has its row and its entries, and none was broken. *)
OkIsComplete ==
    \A s \in Sessions \ Legacy :
        row[s] # NoRow /\ row[s].parse \in {"ok", "ok-with-fallbacks"} =>
            /\ files[s] = Readable(s)
            /\ \A i \in files[s] :
                  /\ FileKind(s, i) # "broken"
                  /\ i \in entries[s] \/ FileKind(s, i) = "empty"
                  /\ FileKind(s, i) = "fallback" => row[s].parse = "ok-with-fallbacks"

(* The sweeper never deletes a row before its blob: once a session is gone,
   nothing of it is left in the store, for there is no row left to find it by. *)
NoLeakedBlob == \A s \in gone : s \notin blob

KeepsYoung ==
    \A s \in Sessions : row[s] # NoRow /\ now < row[s].at + Ttl * Day =>
        /\ row'[s] # NoRow
        /\ s \in blob => s \in blob'
(* Neither row nor blob of a session goes before its TTL, whatever the date
   boundary does to the comparison. *)
NothingEarly == [][KeepsYoung]_vars

(* Every worker ends: the consumer never waits for a producer that waits for
   room in the channel, on whatever path the consumer left its loop. *)
WorkersEnd == \A s \in Sessions : w[s].pc # "none" ~> w[s].pc = "none"

(* A session past its TTL is deleted: "the sweeper converges on its own without
   operator intervention". *)
SweptEventually == \A s \in Sessions : OlderThan(s) ~> row[s] = NoRow

(* The same for rows the configured store can delete, beside rows it cannot, as
   long as those do not fill a batch. *)
OwnSwept == \A s \in Sessions \ Legacy : OlderThan(s) ~> row[s] = NoRow

(* A committed session leaves "pending": "the worker flips it to ok / partial /
   failed once it finishes". *)
PendingSettles ==
    \A s \in Sessions : row[s] # NoRow /\ row[s].parse = "pending"
                        ~> row[s] = NoRow \/ row[s].parse # "pending"
=============================================================================
