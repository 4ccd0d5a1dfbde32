------------------------------- MODULE Agent -------------------------------
(***************************************************************************)
(* The endpoint agent's upload side: the on-disk queue                     *)
(* (crates/agent/src/queue.rs), the resumable uploader (uploader.rs) and   *)
(* the collect and drain branches of the task loop (runtime.rs).           *)
(*                                                                         *)
(* The task loop is one task: a tick's branch runs to its end before the   *)
(* next starts, so the agent is a sequential process whose place is `at`.  *)
(* The queue directory survives a restart, the rest does not.  The other   *)
(* end of the connection is a parameter: OnReply, OnNetworkError and       *)
(* OnBadBody say what the uploader does with an outcome of the request it  *)
(* has in flight.                                                          *)
(***************************************************************************)
EXTENDS Naturals

CONSTANTS
    Bundles,
    Size,          \* Size[b] is metadata.size_bytes, in slots
    ChunkSize,     \* init.chunk_size.clamp(1, DEFAULT_CHUNK_SIZE), in slots
    MaxAttempts,   \* RetryPolicy.max_attempts
    EnqueueTimes,  \* bound: the values enqueued_at can take
    NoId, NoEntry, NoBundle

VARIABLES
    zip,       \* <queue_root>/<bundle_id>.zip
    sidecar,   \* <queue_root>/<bundle_id>.json
    at,        \* where the task loop is
    cur,       \* the bundle it works on
    uid, off,  \* upload: init.upload_id and the chunk loop's offset
    tries,     \* with_retries: attempts of the current call that failed
    flying     \* the current call is on the wire (else it sleeps before it)

QueueStates == {"Pending", "Uploading", "Done", "Failed"}
Calls == {"init", "chunk", "finalize"}
Places == {"idle", "enqueue", "mark", "mark_done", "mark_failed", "purge"} \cup Calls

AgentInit ==
    /\ zip = [b \in Bundles |-> "none"]
    /\ sidecar = [b \in Bundles |-> NoEntry]
    /\ at = "idle"
    /\ cur = NoBundle
    /\ uid = NoId /\ off = 0 /\ tries = 0 /\ flying = FALSE

-----------------------------------------------------------------------------
(* The queue.                                                              *)

(* Queue::transition: read the sidecar, change its state, rename over it.
   mark_failed counts on only from an entry that is Failed at that moment. *)
Marked(b, s) ==
    LET e == sidecar[b] IN
    [sidecar EXCEPT ![b] =
       [state |-> s,
        attempts |-> IF s # "Failed" THEN 0
                     ELSE IF e.state = "Failed" THEN e.attempts + 1 ELSE 1,
        elapsed |-> FALSE,
        since |-> e.since]]

(* Entries next_pending may return: Pending, or Failed with retry_at passed;
   the oldest first. *)
Ready == {b \in Bundles : /\ sidecar[b] # NoEntry
                          /\ \/ sidecar[b].state = "Pending"
                             \/ sidecar[b].state = "Failed" /\ sidecar[b].elapsed}
NextPending == {b \in Ready : \A c \in Ready : sidecar[b].since <= sidecar[c].since}

Go(place) == at' = place /\ flying' = FALSE /\ tries' = 0

(* The collect tick: collect_once built a bundle nobody saw before and enqueue
   renames its zip into the queue directory ... *)
Collect(b) ==
    /\ at = "idle"
    /\ zip[b] = "none"
    /\ zip' = [zip EXCEPT ![b] = "queued"]
    /\ cur' = b
    /\ Go("enqueue")
    /\ UNCHANGED <<sidecar, uid, off>>

(* ... and then writes the sidecar that makes it visible to the drain. *)
Enqueue ==
    /\ at = "enqueue"
    /\ \E t \in EnqueueTimes :
          sidecar' = [sidecar EXCEPT ![cur] =
                        [state |-> "Pending", attempts |-> 0, elapsed |-> FALSE, since |-> t]]
    /\ cur' = NoBundle
    /\ Go("idle")
    /\ UNCHANGED <<zip, uid, off>>

(* Time passes the entry's retry_at. *)
BackoffElapses(b) ==
    /\ sidecar[b] # NoEntry
    /\ sidecar[b].state = "Failed" /\ ~sidecar[b].elapsed
    /\ sidecar' = [sidecar EXCEPT ![b].elapsed = TRUE]
    /\ UNCHANGED <<zip, at, cur, uid, off, tries, flying>>

-----------------------------------------------------------------------------
(* drain: at most one bundle per tick.                                     *)

Drain ==
    /\ at = "idle"
    /\ \E b \in NextPending : cur' = b
    /\ Go("mark")
    /\ UNCHANGED <<zip, sidecar, uid, off>>

MarkUploading ==
    /\ at = "mark"
    /\ sidecar' = Marked(cur, "Uploading")
    /\ Go("init")
    /\ UNCHANGED <<zip, cur, uid, off>>

MarkDone ==
    /\ at = "mark_done"
    /\ sidecar' = Marked(cur, "Done")
    /\ Go("purge")
    /\ UNCHANGED <<zip, cur, uid, off>>

MarkFailed ==
    /\ at = "mark_failed"
    /\ sidecar' = Marked(cur, "Failed")
    /\ Go("purge")
    /\ UNCHANGED <<zip, cur, uid, off>>

(* Seeded fault: the zip is removed whatever the outcome. *)
Purge_Always ==
    /\ at = "purge"
    /\ zip' = [zip EXCEPT ![cur] = "removed"]
    /\ cur' = NoBundle
    /\ Go("idle")
    /\ UNCHANGED <<sidecar, uid, off>>

(* The entry is read back; only a Done one loses its zip, best effort. *)
Purge ==
    /\ at = "purge"
    /\ \/ /\ sidecar[cur].state = "Done"
          /\ zip' \in {[zip EXCEPT ![cur] = "removed"], zip}
       \/ sidecar[cur].state # "Done" /\ UNCHANGED zip
    /\ cur' = NoBundle
    /\ Go("idle")
    /\ UNCHANGED <<sidecar, uid, off>>

(* A sidecar write fails: the error is logged and the branch goes on. *)
SidecarFailure ==
    /\ at \in {"enqueue", "mark", "mark_done", "mark_failed"}
    /\ IF at \in {"enqueue", "mark"} THEN Go("idle") /\ cur' = NoBundle
                                    ELSE Go("purge") /\ UNCHANGED cur
    /\ UNCHANGED <<zip, sidecar, uid, off>>

-----------------------------------------------------------------------------
(* upload: init, chunks from resume_offset, finalize, each with retries.   *)

End(o) == IF o + ChunkSize < Size[cur] THEN o + ChunkSize ELSE Size[cur]

Send == /\ at \in Calls /\ ~flying
        /\ flying' = TRUE
        /\ UNCHANGED <<zip, sidecar, at, cur, uid, off, tries>>

(* upload returns: drain records the outcome. *)
Return(place) == /\ Go(place)
                 /\ uid' = NoId /\ off' = 0
                 /\ UNCHANGED <<zip, sidecar, cur>>
Fatal == Return("mark_failed")

(* Seeded fault: one attempt too many. *)
Transient_Late == IF tries + 1 <= MaxAttempts
                    THEN /\ tries' = tries + 1 /\ flying' = FALSE
                         /\ UNCHANGED <<zip, sidecar, at, cur, uid, off>>
                    ELSE Fatal

Transient == IF tries + 1 < MaxAttempts
               THEN /\ tries' = tries + 1 /\ flying' = FALSE
                    /\ UNCHANGED <<zip, sidecar, at, cur, uid, off>>
               ELSE Fatal

(* Seeded fault: all bytes accepted is taken for delivered. *)
Advance_SkipFinalize(id, o) == /\ Go(IF o < Size[cur] THEN "chunk" ELSE "mark_done")
                               /\ uid' = id /\ off' = o
                               /\ UNCHANGED <<zip, sidecar, cur>>

Advance(id, o) == /\ Go(IF o < Size[cur] THEN "chunk" ELSE "finalize")
                  /\ uid' = id /\ off' = o
                  /\ UNCHANGED <<zip, sidecar, cur>>

(* Seeded fault: finalize's 409 (already finalized) is taken for success. *)
OnReply_ConflictIsDone(rep) ==
    /\ at \in Calls /\ flying
    /\ \/ at = "init" /\ rep.kind = "upload" /\ Advance(rep.id, rep.off)
       \/ at = "chunk" /\ rep.kind = "next" /\ Advance(uid, rep.off)
       \/ at = "finalize" /\ rep.kind \in {"session", "already_finalized"} /\ Return("mark_done")
       \/ rep.kind = "internal" /\ Transient

(* The response of the call in flight: a success, a status that is retried
   (5xx), or one that is not (every 4xx the server answers). *)
OnReply(rep) ==
    /\ at \in Calls /\ flying
    /\ \/ at = "init" /\ rep.kind = "upload" /\ zip[cur] = "queued" /\ Advance(rep.id, rep.off)
       \/ at = "init" /\ rep.kind = "upload" /\ zip[cur] # "queued" /\ Fatal
       \/ at = "chunk" /\ rep.kind = "next" /\ rep.off = End(off) /\ Advance(uid, rep.off)
       \/ at = "chunk" /\ rep.kind = "next" /\ rep.off # End(off) /\ Fatal
       \/ at = "finalize" /\ rep.kind = "session" /\ Return("mark_done")
       \/ rep.kind = "internal" /\ Transient
       \/ rep.kind \notin {"upload", "next", "session", "internal"} /\ Fatal

(* No response: the request or its answer was lost, or request_timeout passed. *)
OnNetworkError == at \in Calls /\ flying /\ Transient

(* A 2xx whose body does not arrive whole is a Decode error, which is not
   retried. *)
OnBadBody == at \in Calls /\ flying /\ Fatal

(* The agent dies, or its final drain is cut off, and it starts again:
   Queue::open returns every Uploading entry to Pending. *)
Restart ==
    /\ sidecar' = [b \in Bundles |->
                     IF sidecar[b] # NoEntry /\ sidecar[b].state = "Uploading"
                       THEN [sidecar[b] EXCEPT !.state = "Pending"] ELSE sidecar[b]]
    /\ at' = "idle" /\ cur' = NoBundle
    /\ uid' = NoId /\ off' = 0 /\ tries' = 0 /\ flying' = FALSE
    /\ UNCHANGED zip
=============================================================================
