----------------------------- MODULE ConfigSync -----------------------------
(* The agent's side of config push (config_sync.rs) against the server's     *)
(* GET /v1/config/{device_id} (routes/config.rs).  The server reads the      *)
(* default row and the device row one after the other, so a write may fall   *)
(* between; the agent folds every answer that is not an override - no        *)
(* content, an error status, an unreachable server - into None.  The client  *)
(* it asks with has no timeout (tls.rs build_reqwest_client), so an answer   *)
(* that does not come is waited for.                                         *)
EXTENDS ConfigStore

CONSTANT RollbackTicks  \* ROLLBACK_THRESHOLD over CONFIG_FETCH_INTERVAL (4 in the code)

ASSUME SyncAssumption == RollbackTicks \in Nat \ {0}

VARIABLES
  online,        \* the server is reachable and answers without errors
  reply,         \* the config request in flight
  applied,       \* ConfigSync.applied_override
  running,       \* the override the uploader and collectors were built with
  firstFailure,  \* the rollback clock: age in config ticks, or Absent
  persisted      \* its mirror in config-state.json

syncVars == <<online, reply, applied, running, firstFailure, persisted>>

NoReply == [pc |-> "none", base |-> Absent, over |-> Absent]

SyncInit ==
  /\ online = TRUE
  /\ reply = NoReply
  /\ applied = Absent /\ running = Absent
  /\ firstFailure = Absent /\ persisted = Absent

\* get_device_config: the default row is read first, ...
ReadDefault ==
  /\ reply.pc = "none" /\ online
  /\ reply' = [reply EXCEPT !.pc = "device", !.base = defaultRow]

\* ... then the device row; an empty merge is a 204, which carries no override.
ReadDevice ==
  /\ reply.pc = "device" /\ online
  /\ LET merged == MergeOverrides(reply.base, deviceRow)
     IN  reply' = [pc |-> "answer", base |-> Absent,
                   over |-> IF IsEmpty(merged) THEN Absent ELSE merged]

\* fetch_override: an error at any point of the exchange is None as well, and
\* so is a body that does not pass validate().
NoOverride == [pc |-> "answer", base |-> Absent, over |-> Absent]
FetchFails ==
  /\ reply.pc \in {"none", "device"} /\ ~online
  /\ reply' = NoOverride

Fetch == ReadDefault \/ ReadDevice \/ FetchFails

\* The server, or what is between, falls silent: no answer and no error.
FetchStalls ==
  /\ reply.pc \in {"none", "device"}
  /\ reply' = [reply EXCEPT !.pc = "silent", !.base = Absent]

\* The operating system may give the connection up some day; nothing here asks
\* it to.
ConnectionReset ==
  /\ reply.pc = "silent"
  /\ reply' = NoOverride

FetchOverride(over) == IF over # Absent /\ Valid(over) THEN over ELSE Absent

\* The clock starts over whenever the override changes, and is written out
\* when it was running.
ResetClock ==
  /\ firstFailure' = Absent
  /\ persisted' = IF firstFailure # Absent THEN Absent ELSE persisted

\* Mutant: None keeps what is applied.
SyncKeeps(over) ==
  IF over = Absent \/ applied = over THEN UNCHANGED <<applied, firstFailure, persisted>>
  ELSE applied' = over /\ ResetClock

\* ConfigSync::sync: a different override replaces the applied one, None
\* clears it.
Sync(over) ==
  /\ applied' = over
  /\ IF applied # over THEN ResetClock ELSE UNCHANGED <<firstFailure, persisted>>

\* record_success, which every drain tick calls; record_failure, the only
\* writer of the clock, has no caller outside the unit tests.
RecordSuccess == ResetClock

\* should_rollback and rollback, after the sync of a config tick
ShouldRollback(over, failing) == over # Absent /\ failing # Absent /\ failing >= RollbackTicks
SyncThenRollback(over) ==
  LET failing == IF applied # over THEN Absent ELSE firstFailure IN
  IF ShouldRollback(over, failing)
  THEN applied' = Absent /\ firstFailure' = Absent /\ persisted' = Absent
  ELSE Sync(over)

\* ConfigSync::new: the override is forgotten, the clock is read back.
NewConfigSync == applied' = Absent /\ firstFailure' = persisted

\* What the two rows amount to for the device.
Wanted == LET merged == MergeOverrides(defaultRow, deviceRow)
          IN  IF IsEmpty(merged) THEN Absent ELSE merged
=============================================================================
