---------------------------- MODULE UploadSystem ----------------------------
(***************************************************************************)
(* One agent (module Agent) uploading its bundles to the server (module    *)
(* Ingest).  conn is the handler whose response the agent waits for; a     *)
(* handler the agent gave up on keeps running until it ends by itself or   *)
(* the server notices the closed connection.                               *)
(*                                                                         *)
(* Every way in which the surroundings can misbehave is a named fault.     *)
(* Faults says which kinds a configuration allows and MaxFaults how often  *)
(* altogether, so that "eventually" has a meaning: once the faults are     *)
(* over, nothing stands in the way but the code itself.                    *)
(***************************************************************************)
EXTENDS Ingest

CONSTANTS
    Device,                     \* the agent's device id
    ContentOf,                  \* ContentOf[b] is what bundle b's zip contains
    ChunkSize, MaxAttempts, EnqueueTimes, NoEntry, NoBundle,
    NoConn,
    Faults, MaxFaults           \* bound: faults in a behaviour

VARIABLES zip, sidecar, at, cur, uid, off, tries, flying, conn, faults

Size == [b \in Bundles |-> Length[ContentOf[b]]]
DeclOf(b) == [sha |-> ContentOf[b], size |-> Size[b], kind |-> "evidence-zip"]

A == INSTANCE Agent

BodyFault == [init |-> "init_body", chunk |-> "chunk_body", finalize |-> "finalize_body"]
TimeoutFault ==
    [init |-> "init_timeout", chunk |-> "chunk_timeout", finalize |-> "finalize_timeout"]
FaultKinds == {"lost", "disconnect", "storage", "server_crash", "agent_crash", "disk",
               "init_body", "chunk_body", "finalize_body",
               "init_timeout", "chunk_timeout", "finalize_timeout"}
ASSUME SystemAssumption ==
    /\ Device \in Devices
    /\ ContentOf \in [Bundles -> Contents]
    /\ Decls = {DeclOf(b) : b \in Bundles}   \* the agent is the only client
    /\ \A b \in Bundles : Size[b] > 0
    /\ ChunkSize \in 1 .. MaxChunk
    /\ MaxAttempts \in Nat \ {0}
    /\ EnqueueTimes \subseteq Nat
    /\ NoBundle \notin Bundles
    /\ NoEntry \notin [state : A!QueueStates, attempts : Nat, elapsed : BOOLEAN, since : Nat]
    /\ Faults \subseteq FaultKinds /\ MaxFaults \in Nat
    /\ NoConn \notin Handlers

agentVars == <<zip, sidecar, at, cur, uid, off, tries, flying>>
sysVars == <<vars, agentVars, conn, faults>>

SysInit == Init /\ A!AgentInit /\ conn = NoConn /\ faults = 0

Fault(kind) == kind \in Faults /\ faults < MaxFaults /\ faults' = faults + 1
NoFault == UNCHANGED faults

-----------------------------------------------------------------------------
(* The agent's own steps.                                                  *)

AgentLocal ==
    /\ \/ \E b \in Bundles : A!Collect(b)
       \/ A!Enqueue \/ A!Drain \/ A!MarkUploading
       \/ A!MarkDone \/ A!MarkFailed \/ A!Purge
    /\ UNCHANGED <<vars, conn>> /\ NoFault

RetryDue(b) == A!BackoffElapses(b) /\ UNCHANGED <<vars, conn>> /\ NoFault

AgentDisk == A!SidecarFailure /\ UNCHANGED <<vars, conn>> /\ Fault("disk")

-----------------------------------------------------------------------------
(* Requests and responses.                                                 *)

(* The request of the current call reaches a handler. *)
SendTo(r) ==
    /\ A!Send
    /\ \/ at = "init" /\ InitStart(r, Device, cur, DeclOf(cur))
       \/ at = "chunk" /\ PutStart(r, Device, uid, off, A!End(off) - off, ContentOf[cur])
       \/ at = "finalize" /\ FinStart(r, Device, uid, ContentOf[cur])
    /\ conn' = r
    /\ NoFault

(* It reaches nobody. *)
RequestLost ==
    /\ A!Send
    /\ conn' = NoConn
    /\ UNCHANGED vars
    /\ Fault("lost")

(* The handler has ended, with a response or without one. *)
Receive ==
    /\ flying
    /\ \/ conn = NoConn /\ A!OnNetworkError
       \/ conn # NoConn /\ pc[conn] = "idle" /\ reply[conn] = NoReply /\ A!OnNetworkError
       \/ conn # NoConn /\ pc[conn] = "idle" /\ reply[conn] # NoReply /\ A!OnReply(reply[conn])
    /\ conn' = NoConn
    /\ UNCHANGED vars
    /\ NoFault

(* request_timeout passes first; the handler goes on without a reader. *)
Timeout ==
    /\ conn # NoConn
    /\ A!OnNetworkError
    /\ conn' = NoConn
    /\ UNCHANGED vars
    /\ Fault(TimeoutFault[at])

(* The connection breaks inside the body of a 2xx response. *)
BodyLost ==
    /\ conn # NoConn /\ pc[conn] = "idle" /\ reply[conn] # NoReply
    /\ reply[conn].kind \in {"upload", "next", "session"}
    /\ A!OnBadBody
    /\ conn' = NoConn
    /\ UNCHANGED vars
    /\ Fault(BodyFault[at])

AgentRestart ==
    /\ A!Restart
    /\ conn' = NoConn
    /\ UNCHANGED vars
    /\ Fault("agent_crash")

-----------------------------------------------------------------------------
(* The server's own steps.                                                 *)

ServerStep(r) == Step(r) /\ UNCHANGED <<agentVars, conn>> /\ NoFault

ServerFailure(r) ==
    /\ PutWriteFails(r) \/ StorageFailure(r)
    /\ UNCHANGED <<agentVars, conn>> /\ Fault("storage")

(* A handler nobody waits for is dropped when the server sees the closed
   connection; one somebody waits for, only when the connection breaks. *)
ServerDisconnect(r) ==
    /\ Disconnect(r)
    /\ UNCHANGED <<agentVars, conn>>
    /\ IF conn = r THEN Fault("disconnect") ELSE NoFault

ServerParse == (\E s \in Uuids : ParseEnd(s)) /\ UNCHANGED <<agentVars, conn>> /\ NoFault

ServerCrash == Crash /\ UNCHANGED <<agentVars, conn>> /\ Fault("server_crash")

SysNext ==
    \/ AgentLocal \/ (\E b \in Bundles : RetryDue(b)) \/ AgentDisk
    \/ (\E r \in Handlers : SendTo(r)) \/ RequestLost \/ Receive
    \/ Timeout \/ BodyLost \/ AgentRestart
    \/ \E r \in Handlers : ServerStep(r) \/ ServerFailure(r) \/ ServerDisconnect(r)
    \/ ServerParse \/ ServerCrash

SysSpec == SysInit /\ [][SysNext]_sysVars

(* The drain tick keeps coming, time passes every retry_at, both runtimes
   keep polling their tasks and workers end.  Nothing is assumed of faults. *)
Fairness ==
    /\ WF_sysVars(AgentLocal)
    /\ \A b \in Bundles : WF_sysVars(RetryDue(b))
    /\ WF_sysVars(\E r \in Handlers : SendTo(r))
    /\ WF_sysVars(Receive)
    /\ \A r \in Handlers : WF_sysVars(ServerStep(r))
    /\ WF_sysVars(ServerParse)
FairSysSpec == SysSpec /\ Fairness

-----------------------------------------------------------------------------
(* Properties.                                                             *)

(* The types of the agent's state and of the connection. *)
SysTypeOK ==
    /\ zip \in [Bundles -> {"none", "queued", "removed"}]
    /\ sidecar \in [Bundles -> {NoEntry} \cup
                       [state : A!QueueStates, attempts : Nat, elapsed : BOOLEAN,
                        since : EnqueueTimes]]
    /\ at \in A!Places
    /\ cur \in Bundles \cup {NoBundle}
    /\ uid \in Uuids \cup {NoId}
    /\ off \in 0 .. MaxSize
    /\ tries \in 0 .. MaxAttempts - 1
    /\ flying \in BOOLEAN
    /\ conn \in Handlers \cup {NoConn}
    /\ faults \in 0 .. MaxFaults

StateOf(b) == IF sidecar[b] = NoEntry THEN "none" ELSE sidecar[b].state
Held(b) == zip[b] = "queued"
StoredBytes(b) == LET S == SessionsOf(Device, b) IN
                  IF S = {} THEN NoFile ELSE blobs[CHOOSE s \in S : TRUE]

(* End to end: when the agent records a bundle as Done, which lets it delete
   the only other copy, the server holds one session for it whose blob is the
   zip's bytes, whatever was lost, retried, dropped or restarted on the way. *)
DoneMeansStored ==
    \A b \in Bundles : StateOf(b) = "Done" =>
        /\ Cardinality(SessionsOf(Device, b)) = 1
        /\ StoredBytes(b) = Image(ContentOf[b])

(* A bundle in the queue that is not Done still has its zip: the next drain
   can always read it. *)
QueuedHasZip == \A b \in Bundles : StateOf(b) \notin {"none", "Done"} => Held(b)

(* The agent and the server together implement Delivery. *)
D == INSTANCE Delivery WITH
        ContentOf <- [b \in Bundles |-> Image(ContentOf[b])],
        Nothing <- NoFile,
        held <- {b \in Bundles : Held(b)},
        stored <- [b \in Bundles |-> StoredBytes(b)],
        settled <- {b \in Bundles : StateOf(b) = "Done"}
ImplementsDelivery == D!DeliverySpec

(* Once the faults are over, every bundle in the queue is delivered and its
   entry reaches Done: the retries, the queue's backoff and the server's resume
   path get there without help. *)
EventuallyDone ==
    \A b \in Bundles : StateOf(b) # "none" ~> StateOf(b) = "Done"

(* "On a chunk PUT [409] signal[s] offset drift, so we re-init to pick up the
   authoritative resume_offset" (uploader.rs): a conflict on a chunk does not
   end the attempt. *)
Conflicted == at = "chunk" /\ conn # NoConn /\ reply[conn] # NoReply /\ reply[conn].kind = "offset_mismatch"
ConflictReinits == [][Conflicted /\ pc[conn] = "idle" => at' # "mark_failed"]_sysVars

(* A bundle the server has stored comes to be Done on the agent: "short-circuit
   with resume_offset = size_bytes so the agent knows it's done". *)
StoredGetsDone ==
    \A b \in Bundles : SessionsOf(Device, b) # {} ~> StateOf(b) = "Done"
=============================================================================
