----------------------------- MODULE AgentHost ------------------------------
(* The agent process: service start and stop (service.rs, main.rs), the      *)
(* construction of its components and the task loop (runtime.rs) that runs   *)
(* collection, queue drain and config sync one at a time, each to its end -  *)
(* if it has one: a config fetch and the child processes of a collection     *)
(* (wevtutil, dsregcmd) are awaited without a timeout.  What a collection    *)
(* does is Evidence.tla's; here it takes its time and ends or hangs.         *)
EXTENDS ConfigSync

CONSTANTS
  Bodies,       \* the override bodies operators push
  BadOverride,  \* an override under which no upload succeeds
  MaxQueue,     \* bound on the bundles waiting
  MaxWrites,    \* bound on operator writes
  MaxFaults     \* bound on crashes, outages, and awaits that do not end

ASSUME HostAssumption ==
  /\ Bodies \subseteq Overrides /\ \A o \in Bodies : Valid(o)
  /\ MaxQueue \in Nat /\ MaxWrites \in Nat /\ MaxFaults \in Nat

VARIABLES
  proc,     \* what the process is doing
  oneshot,  \* the --oneshot flag of this start
  svc,      \* the state last reported to the service manager
  stop,     \* the stop channel
  queue,    \* how many bundles wait
  failed,   \* history: an upload failed since the last config tick, none succeeded
  trial,    \* history: such config ticks in a row under the applied override
  writes, faults   \* bounds

hostVars == <<proc, oneshot, svc, stop, queue, failed, trial, writes, faults>>
vars == <<storeVars, syncVars, hostVars>>

Timers == {"collect", "drain", "config"}

HostInit ==
  /\ StoreInit /\ SyncInit
  /\ proc = "down" /\ oneshot = FALSE /\ svc = "Stopped" /\ stop = FALSE
  /\ queue = 0 /\ failed = FALSE /\ trial = 0
  /\ writes = MaxWrites /\ faults = MaxFaults

-----------------------------------------------------------------------------
(* Start.                                                                    *)

\* Mutant: Running is reported before the components are built.
StartReportsRunning ==
  /\ proc = "down"
  /\ oneshot' \in BOOLEAN
  /\ proc' = "starting"
  /\ svc' = IF oneshot' THEN svc ELSE "Running"
  /\ stop' = FALSE
  /\ failed' = FALSE /\ trial' = 0
  /\ NewConfigSync
  /\ UNCHANGED <<storeVars, online, reply, running, persisted, queue, writes, faults>>

\* run_service reports StartPending, then build_components opens the queue
\* and creates ConfigSync; or main starts a single pass from the console.
Start ==
  /\ proc = "down"
  /\ oneshot' \in BOOLEAN
  /\ proc' = "starting"
  /\ svc' = IF oneshot' THEN svc ELSE "StartPending"
  /\ stop' = FALSE
  /\ failed' = FALSE /\ trial' = 0
  /\ NewConfigSync
  /\ UNCHANGED <<storeVars, online, reply, running, persisted, queue, writes, faults>>

\* build_components fails before its first sync or after it: queue directory,
\* work directory, a redaction rule or the TLS files.
StartFails ==
  /\ proc = "starting" /\ reply.pc \in {"none", "answer"}
  /\ proc' = "down" /\ svc' = "Stopped"
  /\ reply' = NoReply
  /\ UNCHANGED <<storeVars, online, applied, running, firstFailure, persisted,
                 oneshot, stop, queue, failed, trial, writes, faults>>

\* The fetch of a sync, at start or at a config tick.
FetchStep ==
  /\ proc \in {"starting", "config"}
  /\ Fetch
  /\ UNCHANGED <<storeVars, online, applied, running, firstFailure, persisted, hostVars>>

\* The first sync decides what the components are built with.
Started ==
  /\ proc = "starting" /\ reply.pc = "answer"
  /\ Sync(FetchOverride(reply.over))
  /\ running' = FetchOverride(reply.over)
  /\ reply' = NoReply
  /\ proc' = IF oneshot THEN "collect" ELSE "loop"
  /\ svc' = IF oneshot THEN svc ELSE "Running"
  /\ UNCHANGED <<storeVars, online, oneshot, stop, queue, failed, trial, writes, faults>>

-----------------------------------------------------------------------------
(* The task loop.                                                            *)

\* select! takes one of the timers that have elapsed; its body runs to the end
\* before the loop looks at the others, or at the stop channel.
Take(t) ==
  /\ proc = "loop"
  /\ proc' = t
  /\ UNCHANGED <<storeVars, syncVars, oneshot, svc, stop, queue, failed, trial, writes, faults>>

Back == proc' = IF oneshot THEN (IF proc = "collect" THEN "drain" ELSE "down") ELSE "loop"

\* collect_and_enqueue: a pass that ends in a bundle is enqueued unless the
\* queue refuses it.
CollectEnds ==
  /\ proc = "collect"
  /\ \/ queue < MaxQueue /\ queue' = queue + 1
     \/ UNCHANGED queue
  /\ Back
  /\ UNCHANGED <<storeVars, syncVars, oneshot, svc, stop, failed, trial, writes, faults>>

\* Uploads go through when the server is there and the running override does
\* not break them; the entry of a failed one waits for a later tick.
Uploads == online /\ running # BadOverride

\* drain: nothing is pending (or all of it is backing off, or the queue cannot be
\* read), or the next entry is uploaded or marked failed.
Drain ==
  \/ UNCHANGED <<queue, failed, trial>>
  \/ queue > 0 /\ Uploads /\ queue' = queue - 1 /\ failed' = FALSE /\ trial' = 0
  \/ queue > 0 /\ ~Uploads /\ failed' = TRUE /\ UNCHANGED <<queue, trial>>

\* The drain tick counts as a success for the rollback clock, whatever the
\* upload did.
DrainTick ==
  /\ proc = "drain"
  /\ Drain
  /\ IF oneshot THEN UNCHANGED <<firstFailure, persisted>> ELSE RecordSuccess
  /\ Back
  /\ UNCHANGED <<storeVars, online, reply, applied, running,
                 oneshot, svc, stop, writes, faults>>

\* The config tick: sync, then roll back if the clock says so.
ConfigTick ==
  /\ proc = "config" /\ reply.pc = "answer"
  /\ SyncThenRollback(FetchOverride(reply.over))
  /\ reply' = NoReply
  /\ trial' = IF FetchOverride(reply.over) # applied THEN 0
              ELSE IF failed /\ trial <= RollbackTicks THEN trial + 1 ELSE trial
  /\ failed' = FALSE
  /\ Back
  /\ UNCHANGED <<storeVars, online, running, oneshot, svc, stop, queue,
                 writes, faults>>

-----------------------------------------------------------------------------
(* Stop, crash and the outside.                                              *)

\* The service manager, or ctrl-c, flips the stop channel.  Controls are
\* accepted only while the service reports Running.
StopSignal ==
  /\ svc = "Running" /\ proc # "down" /\ ~oneshot /\ ~stop
  /\ stop' = TRUE
  /\ UNCHANGED <<storeVars, syncVars, proc, oneshot, svc, queue, failed, trial,
                 writes, faults>>

\* Mutant: the loop empties the queue before it looks at the signal.
TakeStopWhenDrained ==
  /\ proc = "loop" /\ stop /\ queue = 0
  /\ proc' = "final"
  /\ UNCHANGED <<storeVars, syncVars, oneshot, svc, stop, queue, failed, trial,
                 writes, faults>>

\* The loop sees the signal between two bodies and drains once more.
TakeStop ==
  /\ proc = "loop" /\ stop
  /\ proc' = "final"
  /\ UNCHANGED <<storeVars, syncVars, oneshot, svc, stop, queue, failed, trial,
                 writes, faults>>

\* The last drain ends, or STOP_DRAIN_TIMEOUT cuts it short and the entry it
\* held goes back to pending at the next start.
FinalDrain ==
  /\ proc = "final"
  /\ Drain
  /\ proc' = "down" /\ svc' = "Stopped"
  /\ UNCHANGED <<storeVars, syncVars, oneshot, stop, writes, faults>>

\* An await that does not end: the fetch of a sync, or a child of a collection.
AwaitHangs ==
  /\ faults > 0 /\ faults' = faults - 1
  /\ \/ proc \in {"starting", "config"} /\ FetchStalls /\ UNCHANGED proc
     \/ proc = "collect" /\ proc' = "hung" /\ UNCHANGED reply
  /\ UNCHANGED <<storeVars, online, applied, running, firstFailure, persisted,
                 oneshot, svc, stop, queue, failed, trial, writes>>

\* It ends after all: the connection is given up, the child exits.
AwaitEnds ==
  /\ \/ ConnectionReset /\ UNCHANGED proc
     \/ proc = "hung" /\ proc' = "collect" /\ UNCHANGED reply
  /\ UNCHANGED <<storeVars, online, applied, running, firstFailure, persisted,
                 oneshot, svc, stop, queue, failed, trial, writes, faults>>

\* The process dies where it stands.
Crash ==
  /\ proc # "down" /\ faults > 0
  /\ faults' = faults - 1
  /\ proc' = "down" /\ svc' = IF oneshot THEN svc ELSE "Stopped"
  /\ reply' = NoReply
  /\ UNCHANGED <<storeVars, online, applied, running, firstFailure, persisted,
                 oneshot, stop, queue, failed, trial, writes>>

\* An operator's write (see AdminPlane for the requests behind it).
OperatorWrites ==
  /\ writes > 0
  /\ writes' = writes - 1
  /\ \/ DeleteDeviceConfig
     \/ \E o \in Bodies : SetDeviceConfig(o) \/ SetDefaultConfig(o)
  /\ UNCHANGED <<syncVars, proc, oneshot, svc, stop, queue, failed, trial, faults>>

Outage ==
  /\ \/ online /\ faults > 0 /\ faults' = faults - 1 /\ online' = FALSE
     \/ ~online /\ online' = TRUE /\ UNCHANGED faults
  /\ UNCHANGED <<storeVars, reply, applied, running, firstFailure, persisted,
                 proc, oneshot, svc, stop, queue, failed, trial, writes>>

\* The awaits that end: files, the uploader's requests (it has a timeout of its
\* own) and a fetch that is answered or refused.
Body == CollectEnds \/ DrainTick \/ ConfigTick \/ FetchStep \/ FinalDrain

Next == \/ Start \/ StartFails \/ Started
        \/ \E t \in Timers : Take(t)
        \/ CollectEnds \/ DrainTick \/ ConfigTick \/ FetchStep \/ FinalDrain
        \/ StopSignal \/ TakeStop \/ Crash \/ AwaitHangs \/ AwaitEnds
        \/ OperatorWrites \/ Outage

\* A body moves on while nothing in it hangs; that a hanging await ends is not
\* assumed.  Every interval elapses again and again, and select! polls its
\* branches in random order, so each branch is taken again and again.
Fairness == /\ WF_vars(Body) /\ WF_vars(Started)
            /\ SF_vars(TakeStop)
            /\ \A t \in Timers : SF_vars(Take(t))

Spec == HostInit /\ [][Next]_vars /\ Fairness

-----------------------------------------------------------------------------
(* Properties.                                                               *)

\* What the service manager is told: Running only while the loop is alive with
\* its components built, Stopped only when no body is at work.
StatusTruth ==
  /\ svc = "Running" => proc \notin {"down", "starting"}
  /\ svc = "Stopped" /\ ~oneshot => proc = "down" /\ reply = NoReply

\* The process is at an await that may never end.
Hung == proc = "hung" \/ reply.pc = "silent"

\* "Drive the collect + drain task loop until `stop_rx` flips to `true`, then run
\* one final bounded drain" (run_task_loop): a stop request ends the process.
StopAlwaysHonoured == stop ~> proc = "down"

\* A stop request is honoured although a body has to finish and a last drain
\* has to run first, whatever the timers keep firing - as long as no await
\* hangs for ever.
StopHonoured == []<>~Hung => StopAlwaysHonoured

\* Once operators stop writing and the server stays reachable, the agent that
\* keeps running and is not left hanging for ever holds exactly the merge of
\* the two rows, in spite of torn reads, outages, silences and restarts on the
\* way.
ConfigConverges ==
  []<>~Hung /\ <>[](online /\ proc # "down" /\ writes = 0) => <>[](applied = Wanted)

\* "If the agent has had zero successful uploads for this long since an
\* override was applied, the override is dropped" (ROLLBACK_THRESHOLD).
OverrideOnTrial == applied # Absent => trial <= RollbackTicks
=============================================================================
