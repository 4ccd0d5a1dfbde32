-------------------------- MODULE LifecycleProofs --------------------------
(***************************************************************************)
(* Proofs about Lifecycle: what the parse worker and the retention sweeper *)
(* leave in the tables and in the blob store, for any number of sessions   *)
(* and log files, any channel and batch size, any TTL and any pattern of   *)
(* faults.                                                                 *)
(***************************************************************************)
EXTENDS Lifecycle, TLAPS

-----------------------------------------------------------------------------
(* The inductive invariant.                                                *)

Rows == [at : 0 .. MaxNow, parse : Outcomes \cup {"pending"}]
Places == {"none", "head", "read", "recv", "insert_file", "insert_entries", "join", "update"}
Workers == [pc : Places, prod : {"none", "extract", "parse", "done", "err"},
            left : SUBSET Nat, chan : Seq(Nat), got : SUBSET Nat, file : Nat,
            err : BOOLEAN, outcome : Outcomes]
Sweeps == [pc : {"sleep", "blob"}, todo : SUBSET Sessions] \cup
          [pc : {"row"}, todo : SUBSET Sessions, cur : Sessions]

TypeInv ==
  /\ zip \in [Sessions -> Zips]
  /\ row \in [Sessions -> Rows \cup {NoRow}]
  /\ blob \subseteq Sessions /\ gone \subseteq Sessions
  /\ files \in [Sessions -> SUBSET Nat]
  /\ entries \in [Sessions -> SUBSET Nat]
  /\ w \in [Sessions -> Workers]
  /\ sweep \in Sweeps
  /\ now \in 0 .. MaxNow /\ faults \in 0 .. MaxFaults

\* What the sweeper still has to do is old, and the blob of the session whose
\* row it is about to delete is gone.
Sweeping ==
  /\ \A s \in sweep.todo : OlderThan(s)
  /\ sweep.pc = "row" => sweep.cur \in sweep.todo /\ sweep.cur \notin blob

\* A session is deleted for good, and it has a worker only between its commit
\* and the end of its parse.
Once(s) ==
  /\ w[s].pc = "none" => w[s] = NoWorker
  /\ w[s].pc \in {"head", "read"} =>
       w[s].prod = "none" /\ w[s].chan = <<>> /\ w[s].got = {} /\ ~w[s].err
  /\ row[s] = NoRow /\ s \notin gone => w[s].pc = "none"
  /\ row[s] # NoRow => s \notin gone
  /\ row[s] # NoRow /\ w[s].pc # "none" => row[s].parse = "pending"

InChan(s, i) == \E k \in 1 .. Len(w[s].chan) : w[s].chan[k] = i

\* The channel is bounded, and what travels through it is readable.
Channel(s) ==
  /\ Len(w[s].chan) <= Buffer
  /\ \A k \in 1 .. Len(w[s].chan) : w[s].chan[k] \in Readable(s)
  /\ w[s].left \subseteq LogFiles(s)
  /\ w[s].got \subseteq Readable(s)
  /\ w[s].pc \in {"insert_file", "insert_entries"} => w[s].file \in w[s].got

\* As long as nothing went wrong every readable log file is still to be
\* parsed, in the channel, or with the consumer.
Accounted(s) ==
  /\ Listening(s) => ~w[s].err
  /\ w[s].prod = "done" => w[s].left = {}
  /\ w[s].pc = "join" /\ ~w[s].err => w[s].chan = <<>> /\ ProducerEnded(s)
  /\ w[s].prod \in {"parse", "done"} /\ ~w[s].err =>
       \A i \in Readable(s) : i \in w[s].left \/ i \in w[s].got \/ InChan(s, i)

\* What the consumer took is stored, but for the file it is working on.
Stored(s) ==
  /\ files[s] \subseteq Readable(s)
  /\ entries[s] \subseteq files[s]
  /\ files[s] # {} => row[s] # NoRow
  /\ row[s] # NoRow /\ ~w[s].err /\ w[s].pc \in {"recv", "insert_file", "insert_entries", "join"} =>
       \A i \in w[s].got :
          /\ \/ i = w[s].file /\ w[s].pc = "insert_file"
             \/ i \in files[s]
          /\ \/ i = w[s].file /\ w[s].pc \in {"insert_file", "insert_entries"}
             \/ i \in entries[s]
             \/ FileKind(s, i) \in {"empty", "broken"}

Complete(s, outcome) ==
  /\ files[s] = Readable(s)
  /\ \A i \in files[s] :
        /\ FileKind(s, i) # "broken"
        /\ i \in entries[s] \/ FileKind(s, i) = "empty"
        /\ FileKind(s, i) = "fallback" => outcome = "ok-with-fallbacks"

\* An outcome of ok is true from the moment it is computed.
Truthful(s) ==
  /\ row[s] # NoRow /\ w[s].pc = "update" /\ w[s].outcome \in {"ok", "ok-with-fallbacks"} =>
       Complete(s, w[s].outcome)
  /\ s \notin Legacy /\ row[s] # NoRow /\ row[s].parse \in {"ok", "ok-with-fallbacks"} =>
       Complete(s, row[s].parse)

SessionInv(s) == Once(s) /\ Channel(s) /\ Accounted(s) /\ Stored(s) /\ Truthful(s)

IndInv ==
  /\ TypeInv
  /\ Sweeping
  /\ NoLeakedBlob
  /\ \A s \in Sessions : SessionInv(s)

-----------------------------------------------------------------------------
(* Facts about the parts of the state.                                     *)

\* Whether a step meets a fault or not, the fault budget is kept.
LEMMA FaultType ==
  ASSUME TypeInv, \/ NoFault \/ \E kind \in FaultKinds : Fault(kind)
  PROVE  faults' \in 0 .. MaxFaults
  BY LifecycleAssumption DEF TypeInv, NoFault, Fault, FaultKinds

\* A worker that has not started, or has ended.
LEMMA Idle ==
  /\ NoWorker \in Workers
  /\ [NoWorker EXCEPT !.pc = "head"] \in Workers
  /\ NoWorker.pc = "none" /\ NoWorker.prod = "none" /\ NoWorker.left = {}
  /\ NoWorker.chan = <<>> /\ NoWorker.got = {} /\ ~NoWorker.err
  <1>1. \A n \in Nat : [pc |-> "none", prod |-> "none", left |-> {}, chan |-> <<>>,
                       got |-> {}, file |-> n, err |-> FALSE, outcome |-> "failed"] \in Workers
    BY DEF Workers, Places, Outcomes
  <1>2. NoWorker \in Workers  BY <1>1, Zenon, 0 \in Nat DEF NoWorker
  <1>3. [NoWorker EXCEPT !.pc = "head"] \in Workers  BY <1>2 DEF Workers, Places
  <1>4. /\ NoWorker.pc = "none" /\ NoWorker.prod = "none" /\ NoWorker.left = {}
        /\ NoWorker.chan = <<>> /\ NoWorker.got = {} /\ ~NoWorker.err
    BY DEF NoWorker
  <1> QED BY <1>2, <1>3, <1>4

\* The log files of a bundle are numbered, and each is of a known kind.
LEMMA Logs ==
  ASSUME TypeInv, NEW s \in Sessions
  PROVE  /\ LogFiles(s) \in SUBSET Nat
         /\ Readable(s) \subseteq LogFiles(s)
         /\ \A i \in LogFiles(s) : FileKind(s, i) \in FileKinds
  <1>1. zip[s] \in Zips  BY DEF TypeInv
  <1>2. zip[s].logs \in Seq(FileKinds)  BY <1>1, LifecycleAssumption
  <1> QED BY <1>2 DEF LogFiles, FileKind, Readable

\* A session's part of the invariant reads that session's rows only.
LEMMA Frame ==
  ASSUME NEW s \in Sessions, SessionInv(s),
         w'[s] = w[s], row'[s] = row[s], files'[s] = files[s], entries'[s] = entries[s],
         zip' = zip, (s \in gone') = (s \in gone)
  PROVE  SessionInv(s)'
  <1>1. Once(s)'  BY DEF SessionInv, Once
  <1>2. Readable(s)' = Readable(s) /\ LogFiles(s)' = LogFiles(s)
        /\ \A i : FileKind(s, i)' = FileKind(s, i)
    BY DEF Readable, LogFiles, FileKind
  <1>3. Channel(s)'  BY <1>2 DEF SessionInv, Channel
  <1>4. Accounted(s)'
    BY <1>2 DEF SessionInv, Accounted, Listening, ProducerEnded, InChan
  <1>5. Stored(s)'  BY <1>2 DEF SessionInv, Stored
  <1>6. Truthful(s)'  BY <1>2 DEF SessionInv, Truthful, Complete
  <1> QED BY <1>1, <1>3, <1>4, <1>5, <1>6 DEF SessionInv

\* The whole part and the remainder of a division.
LEMMA Division ==
  ASSUME NEW a \in Nat, NEW d \in Nat \ {0}
  PROVE  a \div d \in Nat /\ d * (a \div d) <= a /\ a < d * (a \div d) + d
  BY SMTT(30)

\* A later clock reading is not on an earlier date.
LEMMA DateMonotone ==
  ASSUME NEW a \in Nat, NEW b \in Nat, a <= b, NEW d \in Nat \ {0}
  PROVE  a \div d <= b \div d
  <1>1. ASSUME NEW p \in Nat, NEW q \in Nat, d * p < d * q + d  PROVE p <= q
    BY <1>1, SMTT(30)
  <1>2. d * (a \div d) < d * (b \div d) + d  BY Division, Z3
  <1> QED BY <1>1, <1>2, Division

\* A date more than n dates later is at least n whole days later.
LEMMA DatesToDays ==
  ASSUME NEW a \in Nat, NEW b \in Nat, NEW n \in Nat, NEW d \in Nat \ {0},
         (a \div d) + n < b \div d
  PROVE  a + n * d <= b
  <1>1. ASSUME NEW p \in Nat, NEW q \in Nat, p + n < q  PROVE d * p + n * d + d <= d * q
    <2>1. PICK k \in Nat : q = p + n + 1 + k  BY <1>1, q - (p + n + 1) \in Nat
    <2>2. d * q = d * p + n * d + d + d * k  BY <2>1
    <2> QED BY <2>2, d * k \in Nat
  <1>2. d * (a \div d) + n * d + d <= d * (b \div d)  BY <1>1, Division
  <1>3. d * (b \div d) <= b /\ a < d * (a \div d) + d  BY Division
  <1>4. /\ d * (a \div d) \in Nat /\ d * (b \div d) \in Nat /\ n * d \in Nat
    BY Division
  <1> QED BY <1>2, <1>3, <1>4

\* The sweeper's part reads the rows and the clock.
LEMMA SweepFrame ==
  ASSUME TypeInv, Sweeping, row' = row, UNCHANGED <<blob, sweep>>, now' \in Nat, now' >= now
  PROVE  Sweeping'
  <1>1. ASSUME NEW s \in Sessions, OlderThan(s)  PROVE OlderThan(s)'
    <2>1. now \in Nat /\ Day \in Nat \ {0} /\ Ttl \in Nat
      BY LifecycleAssumption DEF TypeInv
    <2>2. now \div Day <= now' \div Day  BY <2>1, DateMonotone
    <2>3. row[s] # NoRow => row[s].at \in Nat
      BY LifecycleAssumption DEF TypeInv, Rows
    <2>4. row[s] # NoRow => (row[s].at \div Day) \in Nat  BY <2>1, <2>3, Division
    <2>5. now \div Day \in Nat /\ now' \div Day \in Nat  BY <2>1, Division
    <2> QED BY <1>1, <2>1, <2>2, <2>4, <2>5 DEF OlderThan
  <1> QED BY <1>1 DEF Sweeping, TypeInv, Sweeps

\* A step of one worker that writes no table.
LEMMA WorkerStep ==
  ASSUME IndInv, NEW s \in Sessions, NEW rec \in Workers, Set(s, rec),
         UNCHANGED <<tables, blob, sweep, now>>, faults' \in 0 .. MaxFaults,
         SessionInv(s)'
  PROVE  IndInv'
  <1>1. TypeInv'  BY DEF IndInv, TypeInv, Set, tables
  <1>2. Sweeping'
    BY LifecycleAssumption, SweepFrame DEF IndInv, TypeInv, tables
  <1>3. NoLeakedBlob'  BY DEF IndInv, NoLeakedBlob, tables
  <1>4. ASSUME NEW t \in Sessions, t # s  PROVE SessionInv(t)'
    <2>1. w'[t] = w[t]  BY <1>4 DEF Set, IndInv, TypeInv
    <2> QED BY <2>1, Frame DEF IndInv, tables
  <1> QED BY <1>1, <1>2, <1>3, <1>4 DEF IndInv

-----------------------------------------------------------------------------
(* The steps of a worker.                                                  *)

\* The bundles never change.
LEMMA Bundles ==
  ASSUME zip' = zip, NEW s
  PROVE  /\ Readable(s)' = Readable(s) /\ LogFiles(s)' = LogFiles(s)
         /\ \A i : FileKind(s, i)' = FileKind(s, i)
  BY DEF Readable, LogFiles, FileKind

\* Before the bundle is read nothing is in the channel; the worker goes on to
\* read it or to report a failure.
LEMMA BeforeRecv ==
  ASSUME IndInv, NEW s \in Sessions, w[s].pc \in {"head", "read"}, NEW rec \in Workers,
         Set(s, rec), UNCHANGED <<tables, blob, sweep, now>>, faults' \in 0 .. MaxFaults,
         \/ rec = [w[s] EXCEPT !.pc = "read"]
         \/ rec = [w[s] EXCEPT !.pc = "recv", !.prod = "extract"]
         \/ rec = [w[s] EXCEPT !.pc = "update", !.outcome = "failed"]
  PROVE  IndInv'
  <1>1. w[s] \in Workers /\ w'[s] = rec  BY DEF IndInv, TypeInv, Set
  <1>2. SessionInv(s)  BY DEF IndInv
  <1>3. /\ w[s].prod = "none" /\ w[s].chan = <<>> /\ w[s].got = {} /\ ~w[s].err
    BY <1>2 DEF SessionInv, Once
  <1>4. /\ rec.chan = <<>> /\ rec.got = {} /\ ~rec.err /\ rec.left = w[s].left
        /\ rec.pc \in {"read", "recv", "update"}
        /\ rec.pc = "read" => rec.prod = "none"
        /\ rec.prod \in {"none", "extract"}
        /\ rec.pc = "update" => rec.outcome = "failed"
    BY <1>1, <1>3 DEF Workers
  <1>5. row' = row /\ files' = files /\ entries' = entries /\ gone' = gone /\ zip' = zip
    BY DEF tables
  <1>6. Once(s)'  BY <1>1, <1>2, <1>4, <1>5 DEF SessionInv, Once
  <1>7. Channel(s)'
    BY <1>1, <1>2, <1>4, <1>5, Bundles, LifecycleAssumption DEF SessionInv, Channel
  <1>8. Accounted(s)'  BY <1>1, <1>4 DEF Accounted, Listening
  <1>9. Stored(s)'  BY <1>1, <1>2, <1>4, <1>5, Bundles DEF SessionInv, Stored
  <1>10. Truthful(s)'  BY <1>1, <1>2, <1>4, <1>5, Bundles DEF SessionInv, Truthful, Complete
  <1>11. SessionInv(s)'  BY <1>6, <1>7, <1>8, <1>9, <1>10 DEF SessionInv
  <1> QED BY <1>11, WorkerStep

\* The worker measures its blob and goes on, or fails.
LEMMA HeadBlobStep ==
  ASSUME IndInv, NEW s \in Sessions, HeadBlob(s)  PROVE IndInv'
  <1>1. w[s] \in Workers  BY DEF IndInv, TypeInv
  <1>2. /\ [w[s] EXCEPT !.pc = "read"] \in Workers
        /\ [w[s] EXCEPT !.pc = "update", !.outcome = "failed"] \in Workers
    BY <1>1 DEF Workers, Places, Outcomes
  <1>3. faults' \in 0 .. MaxFaults
    BY FaultType DEF HeadBlob, IndInv, FaultKinds
  <1> QED BY <1>2, <1>3, BeforeRecv DEF HeadBlob, Failed

\* The worker reads its blob and starts the producer, or fails.
LEMMA ReadBlobStep ==
  ASSUME IndInv, NEW s \in Sessions, ReadBlob(s)  PROVE IndInv'
  <1>1. w[s] \in Workers  BY DEF IndInv, TypeInv
  <1>2. /\ [w[s] EXCEPT !.pc = "recv", !.prod = "extract"] \in Workers
        /\ [w[s] EXCEPT !.pc = "update", !.outcome = "failed"] \in Workers
    BY <1>1 DEF Workers, Places, Outcomes
  <1>3. faults' \in 0 .. MaxFaults
    BY FaultType DEF ReadBlob, IndInv, FaultKinds
  <1> QED BY <1>2, <1>3, BeforeRecv DEF ReadBlob, Failed

\* A step of the producer: the consumer's place and what it took stay, no
\* readable file is lost, and what is sent is readable.
LEMMA ProducerStep ==
  ASSUME IndInv, NEW s \in Sessions, w[s].prod \in {"extract", "parse"}, NEW rec \in Workers,
         Set(s, rec), UNCHANGED <<tables, blob, sweep, now>>, faults' = faults,
         rec.pc = w[s].pc, rec.got = w[s].got, rec.file = w[s].file, rec.err = w[s].err,
         rec.outcome = w[s].outcome,
         Len(rec.chan) <= Buffer,
         \A k \in 1 .. Len(rec.chan) : rec.chan[k] \in Readable(s),
         rec.left \subseteq LogFiles(s),
         rec.prod = "done" => rec.left = {},
         rec.prod \in {"parse", "done"} /\ ~rec.err => 
           \A i \in Readable(s) : \/ i \in rec.left \/ i \in w[s].got
                                  \/ \E k \in 1 .. Len(rec.chan) : rec.chan[k] = i
  PROVE  IndInv'
  <1>1. w[s] \in Workers /\ w'[s] = rec  BY DEF IndInv, TypeInv, Set
  <1>2. SessionInv(s)  BY DEF IndInv
  <1>3. w[s].pc \notin {"none", "head", "read"}
    BY <1>2, Idle DEF SessionInv, Once
  <1>4. ~(w[s].pc = "join" /\ ~w[s].err)
    BY <1>2 DEF SessionInv, Accounted, ProducerEnded
  <1>5. row' = row /\ files' = files /\ entries' = entries /\ gone' = gone /\ zip' = zip
    BY DEF tables
  <1>6. Once(s)'  BY <1>1, <1>2, <1>3, <1>5 DEF SessionInv, Once
  <1>7. Channel(s)'  BY <1>1, <1>2, <1>5, Bundles DEF SessionInv, Channel
  <1>8. Accounted(s)'
    BY <1>1, <1>2, <1>4, <1>5, Bundles DEF SessionInv, Accounted, Listening, InChan
  <1>9. Stored(s)'  BY <1>1, <1>2, <1>5, Bundles DEF SessionInv, Stored
  <1>10. Truthful(s)'  BY <1>1, <1>2, <1>5, Bundles DEF SessionInv, Truthful, Complete
  <1>11. SessionInv(s)'  BY <1>6, <1>7, <1>8, <1>9, <1>10 DEF SessionInv
  <1>12. faults' \in 0 .. MaxFaults  BY DEF IndInv, TypeInv
  <1> QED BY <1>11, <1>12, WorkerStep

\* The producer lists the log files of the bundle, all of them still to parse.
LEMMA ExtractStep ==
  ASSUME IndInv, NEW s \in Sessions, Extract(s)  PROVE IndInv'
  <1>1. w[s] \in Workers  BY DEF IndInv, TypeInv
  <1>2. LogFiles(s) \in SUBSET Nat /\ Readable(s) \subseteq LogFiles(s)
    BY Logs DEF IndInv
  <1>3. Channel(s)  BY DEF IndInv, SessionInv
  <1>4. CASE zip[s].form = "not_zip"
    <2>1. PICK rec : rec = [w[s] EXCEPT !.prod = "err"]  OBVIOUS
    <2>2. rec \in Workers  BY <1>1, <2>1 DEF Workers
    <2> QED BY <1>1, <1>3, <1>4, <2>1, <2>2, ProducerStep
            DEF Extract, Channel, Workers, NoFault
  <1>5. CASE zip[s].form # "not_zip"
    <2>1. PICK rec : rec = [w[s] EXCEPT !.prod = "parse", !.left = LogFiles(s)]  OBVIOUS
    <2>2. rec \in Workers  BY <1>1, <1>2, <2>1 DEF Workers
    <2> QED BY <1>1, <1>2, <1>3, <1>5, <2>1, <2>2, ProducerStep
            DEF Extract, Channel, Workers, NoFault
  <1> QED BY <1>4, <1>5

\* A file that goes into the channel is the last one there, after what was
\* there before.
LEMMA Sending ==
  ASSUME NEW c \in Seq(Nat), NEW i \in Nat
  PROVE  /\ Append(c, i) \in Seq(Nat)
         /\ Len(Append(c, i)) = Len(c) + 1
         /\ \A k \in 1 .. Len(c) : Append(c, i)[k] = c[k]
         /\ Append(c, i)[Len(c) + 1] = i
  OBVIOUS

\* A file parsed goes into the channel, or is dropped when it cannot be read;
\* a panic or a closed channel ends the producer.
LEMMA ProduceStep ==
  ASSUME IndInv, NEW s \in Sessions, Produce(s)  PROVE IndInv'
  <1>1. w[s] \in Workers  BY DEF IndInv, TypeInv
  <1>2. LogFiles(s) \in SUBSET Nat /\ Readable(s) \subseteq LogFiles(s)
    BY Logs DEF IndInv
  <1>3. Channel(s) /\ Accounted(s)  BY DEF IndInv, SessionInv
  <1>4. w[s].prod = "parse" /\ faults' = faults /\ UNCHANGED <<tables, blob, sweep, now>>
    BY DEF Produce, NoFault
  <1>5. ASSUME w[s].left = {}, Set(s, [w[s] EXCEPT !.prod = "done"])  PROVE IndInv'
    <2>1. PICK rec : rec = [w[s] EXCEPT !.prod = "done"]  OBVIOUS
    <2>2. rec \in Workers  BY <1>1, <2>1 DEF Workers
    <2>3. /\ rec.pc = w[s].pc /\ rec.got = w[s].got /\ rec.file = w[s].file
          /\ rec.err = w[s].err /\ rec.outcome = w[s].outcome /\ rec.chan = w[s].chan
          /\ rec.left = w[s].left /\ rec.prod = "done"
      BY <1>1, <2>1 DEF Workers
    <2>4. /\ Len(rec.chan) <= Buffer /\ rec.left \subseteq LogFiles(s)
          /\ \A k \in 1 .. Len(rec.chan) : rec.chan[k] \in Readable(s)
      BY <1>3, <2>3 DEF Channel
    <2>5. ~rec.err => \A j \in Readable(s) :
             \/ j \in rec.left \/ j \in w[s].got
             \/ \E k \in 1 .. Len(rec.chan) : rec.chan[k] = j
      BY <1>3, <1>4, <2>3 DEF Accounted, InChan
    <2> QED BY <1>4, <1>5, <2>1, <2>2, <2>3, <2>4, <2>5, ProducerStep
  <1>6. ASSUME Set(s, [w[s] EXCEPT !.prod = "err"])  PROVE IndInv'
    <2>1. PICK rec : rec = [w[s] EXCEPT !.prod = "err"]  OBVIOUS
    <2>2. rec \in Workers  BY <1>1, <2>1 DEF Workers
    <2>3. /\ rec.pc = w[s].pc /\ rec.got = w[s].got /\ rec.file = w[s].file
          /\ rec.err = w[s].err /\ rec.outcome = w[s].outcome /\ rec.chan = w[s].chan
          /\ rec.left = w[s].left /\ rec.prod = "err"
      BY <1>1, <2>1 DEF Workers
    <2> QED BY <1>3, <1>4, <1>6, <2>1, <2>2, <2>3, ProducerStep DEF Channel
  <1>7. ASSUME NEW i \in w[s].left, FileKind(s, i) = "undecodable",
               Set(s, [w[s] EXCEPT !.left = @ \ {i}])
        PROVE  IndInv'
    <2>1. PICK rec : rec = [w[s] EXCEPT !.left = @ \ {i}]  OBVIOUS
    <2>2. rec \in Workers  BY <1>1, <2>1 DEF Workers
    <2>3. /\ rec.pc = w[s].pc /\ rec.got = w[s].got /\ rec.file = w[s].file
          /\ rec.err = w[s].err /\ rec.outcome = w[s].outcome /\ rec.chan = w[s].chan
          /\ rec.left = w[s].left \ {i} /\ rec.prod = "parse"
      BY <1>1, <1>4, <2>1 DEF Workers
    <2>4. i \notin Readable(s)  BY <1>7 DEF Readable
    <2>5. /\ Len(rec.chan) <= Buffer /\ rec.left \subseteq LogFiles(s)
          /\ \A k \in 1 .. Len(rec.chan) : rec.chan[k] \in Readable(s)
      BY <1>3, <2>3 DEF Channel
    <2>6. ~rec.err => \A j \in Readable(s) :
             \/ j \in rec.left \/ j \in w[s].got
             \/ \E k \in 1 .. Len(rec.chan) : rec.chan[k] = j
      BY <1>3, <1>4, <2>3, <2>4 DEF Accounted, InChan
    <2> QED BY <1>4, <1>7, <2>1, <2>2, <2>3, <2>5, <2>6, ProducerStep
  <1>8. ASSUME NEW i \in w[s].left, FileKind(s, i) \notin {"panics", "undecodable"},
               Len(w[s].chan) < Buffer,
               Set(s, [w[s] EXCEPT !.left = @ \ {i}, !.chan = Append(@, i)])
        PROVE  IndInv'
    <2>1. PICK rec : rec = [w[s] EXCEPT !.left = @ \ {i}, !.chan = Append(@, i)]  OBVIOUS
    <2>2. w[s].chan \in Seq(Nat) /\ i \in LogFiles(s) /\ i \in Nat
      BY <1>1, <1>2, <1>3 DEF Workers, Channel
    <2>3. rec \in Workers  BY <1>1, <2>1, <2>2, Sending DEF Workers
    <2>4. /\ rec.pc = w[s].pc /\ rec.got = w[s].got /\ rec.file = w[s].file
          /\ rec.err = w[s].err /\ rec.outcome = w[s].outcome
          /\ rec.chan = Append(w[s].chan, i)
          /\ rec.left = w[s].left \ {i} /\ rec.prod = "parse"
      BY <1>1, <1>4, <2>1 DEF Workers
    <2>5. i \in Readable(s)  BY <1>8, <2>2 DEF Readable
    <2>6. /\ Len(rec.chan) = Len(w[s].chan) + 1
          /\ \A k \in 1 .. Len(w[s].chan) : rec.chan[k] = w[s].chan[k]
          /\ rec.chan[Len(w[s].chan) + 1] = i
          /\ Len(w[s].chan) \in Nat
      BY <2>2, <2>4, Sending
    <2>7. Len(rec.chan) <= Buffer  BY <1>8, <2>6, LifecycleAssumption
    <2>8. ASSUME NEW k \in 1 .. Len(rec.chan)  PROVE rec.chan[k] \in Readable(s)
      <3>1. k = Len(w[s].chan) + 1 \/ k \in 1 .. Len(w[s].chan)  BY <2>6
      <3> QED BY <3>1, <1>3, <2>5, <2>6 DEF Channel
    <2>9. ~rec.err => \A j \in Readable(s) :
             \/ j \in rec.left \/ j \in w[s].got
             \/ \E k \in 1 .. Len(rec.chan) : rec.chan[k] = j
      <3> SUFFICES ASSUME ~rec.err, NEW j \in Readable(s), j \notin rec.left, j \notin w[s].got
                   PROVE  \E k \in 1 .. Len(rec.chan) : rec.chan[k] = j
        OBVIOUS
      <3>1. CASE j = i  BY <3>1, <2>6
      <3>2. CASE j # i
        <4>1. InChan(s, j)  BY <1>3, <1>4, <2>4, <3>2 DEF Accounted
        <4> QED BY <4>1, <2>6 DEF InChan
      <3> QED BY <3>1, <3>2
    <2>10. rec.left \subseteq LogFiles(s)  BY <1>3, <2>4 DEF Channel
    <2> QED BY <1>4, <1>8, <2>1, <2>3, <2>4, <2>7, <2>8, <2>9, <2>10, ProducerStep
  <1> QED BY <1>5, <1>6, <1>7, <1>8 DEF Produce

\* The file taken from the channel is its first, the others move up.
LEMMA Receiving ==
  ASSUME NEW c \in Seq(Nat), c # <<>>
  PROVE  /\ Tail(c) \in Seq(Nat) /\ c[1] \in Nat
         /\ Len(c) \in Nat \ {0} /\ Len(Tail(c)) = Len(c) - 1
         /\ \A k \in 1 .. Len(c) - 1 : Tail(c)[k] = c[k + 1]
  OBVIOUS

\* The consumer takes a file, or leaves its loop when the producer has ended
\* and the channel is drained.
LEMMA RecvStep ==
  ASSUME IndInv, NEW s \in Sessions, Recv(s)  PROVE IndInv'
  <1>1. w[s] \in Workers  BY DEF IndInv, TypeInv
  <1>2. SessionInv(s)  BY DEF IndInv
  <1>3. /\ w[s].pc = "recv" /\ ~w[s].err /\ faults' \in 0 .. MaxFaults
        /\ row' = row /\ files' = files /\ entries' = entries /\ gone' = gone /\ zip' = zip
        /\ UNCHANGED <<tables, blob, sweep, now>>
    BY <1>2 DEF Recv, NoFault, tables, IndInv, TypeInv, SessionInv, Accounted, Listening
  <1>4. CASE w[s].chan # <<>>
    <2>1. PICK i : i = w[s].chan[1]  OBVIOUS
    <2>2. PICK rec : rec = [w[s] EXCEPT !.pc = "insert_file", !.chan = Tail(@),
                                        !.file = i, !.got = @ \cup {i}]  OBVIOUS
    <2>3. Set(s, rec)  BY <1>4, <2>1, <2>2 DEF Recv
    <2>4. w[s].chan \in Seq(Nat) /\ w[s].got \in SUBSET Nat  BY <1>1 DEF Workers
    <2>5. /\ Tail(w[s].chan) \in Seq(Nat) /\ i \in Nat /\ Len(w[s].chan) \in Nat \ {0}
          /\ Len(Tail(w[s].chan)) = Len(w[s].chan) - 1
          /\ \A k \in 1 .. Len(w[s].chan) - 1 : Tail(w[s].chan)[k] = w[s].chan[k + 1]
      BY <1>4, <2>1, <2>4, Receiving
    <2>6. rec \in Workers  BY <1>1, <2>2, <2>5 DEF Workers, Places
    <2>7. /\ rec.pc = "insert_file" /\ rec.prod = w[s].prod /\ rec.left = w[s].left
          /\ rec.chan = Tail(w[s].chan) /\ rec.got = w[s].got \cup {i} /\ rec.file = i
          /\ rec.err = w[s].err /\ w'[s] = rec
      BY <1>1, <2>2, <2>3 DEF Workers, Set, IndInv, TypeInv
    <2>8. i \in Readable(s)  BY <1>2, <2>1, <2>5 DEF SessionInv, Channel
    <2>9. Once(s)'  BY <1>2, <1>3, <2>7 DEF SessionInv, Once
    <2>10. Channel(s)'
      <3>1. Len(rec.chan) <= Buffer
        BY <1>2, <2>5, <2>7, LifecycleAssumption DEF SessionInv, Channel
      <3>2. ASSUME NEW k \in 1 .. Len(rec.chan)  PROVE rec.chan[k] \in Readable(s)
        <4>1. k \in 1 .. Len(w[s].chan) - 1 /\ k + 1 \in 1 .. Len(w[s].chan)
          BY <2>5, <2>7
        <4> QED BY <4>1, <1>2, <2>5, <2>7 DEF SessionInv, Channel
      <3> QED BY <1>2, <1>3, <2>7, <2>8, <3>1, <3>2, Bundles DEF SessionInv, Channel
    <2>11. Accounted(s)'
      <3>1. ASSUME NEW j \in Readable(s), InChan(s, j)  PROVE j = i \/ InChan(s, j)'
        <4>1. PICK k \in 1 .. Len(w[s].chan) : w[s].chan[k] = j  BY <3>1 DEF InChan
        <4>2. CASE k = 1  BY <4>1, <4>2, <2>1
        <4>3. CASE k # 1
          <5>1. k - 1 \in 1 .. Len(w[s].chan) - 1 /\ (k - 1) + 1 = k  BY <2>5, <4>3
          <5>2. rec.chan[k - 1] = j /\ k - 1 \in 1 .. Len(rec.chan)
            BY <5>1, <4>1, <2>5, <2>7
          <5> QED BY <5>2, <2>7 DEF InChan
        <4> QED BY <4>2, <4>3
      <3> QED BY <1>2, <1>3, <2>7, <3>1, Bundles DEF SessionInv, Accounted, Listening
    <2>12. Stored(s)'  BY <1>2, <1>3, <2>7, Bundles DEF SessionInv, Stored
    <2>13. Truthful(s)'  BY <1>2, <1>3, <2>7, Bundles DEF SessionInv, Truthful, Complete
    <2>14. SessionInv(s)'  BY <2>9, <2>10, <2>11, <2>12, <2>13 DEF SessionInv
    <2> QED BY <1>3, <2>3, <2>6, <2>14, WorkerStep
  <1>5. CASE w[s].chan = <<>>
    <2>1. PICK rec : rec = [w[s] EXCEPT !.pc = "join"]  OBVIOUS
    <2>2. Set(s, rec) /\ ProducerEnded(s)  BY <1>5, <2>1 DEF Recv
    <2>3. rec \in Workers  BY <1>1, <2>1 DEF Workers, Places
    <2>4. /\ rec.pc = "join" /\ rec.prod = w[s].prod /\ rec.left = w[s].left
          /\ rec.chan = w[s].chan /\ rec.got = w[s].got /\ rec.file = w[s].file
          /\ rec.err = w[s].err /\ w'[s] = rec
      BY <1>1, <2>1, <2>2 DEF Workers, Set, IndInv, TypeInv
    <2>5. Once(s)'  BY <1>2, <1>3, <2>4 DEF SessionInv, Once
    <2>6. Channel(s)'  BY <1>2, <1>3, <2>4, Bundles DEF SessionInv, Channel
    <2>7. Accounted(s)'
      BY <1>2, <1>3, <1>5, <2>2, <2>4, Bundles
      DEF SessionInv, Accounted, Listening, InChan, ProducerEnded
    <2>8. Stored(s)'  BY <1>2, <1>3, <2>4, Bundles DEF SessionInv, Stored
    <2>9. Truthful(s)'  BY <1>2, <1>3, <2>4, Bundles DEF SessionInv, Truthful, Complete
    <2>10. SessionInv(s)'  BY <2>5, <2>6, <2>7, <2>8, <2>9 DEF SessionInv
    <2> QED BY <1>3, <2>2, <2>3, <2>10, WorkerStep
  <1> QED BY <1>4, <1>5

\* The outcome of a parse is one of the four, and ok only when neither side
\* failed, something was read and nothing was broken.
LEMMA Outcome ==
  ASSUME NEW s
  PROVE  /\ Classify(s) \in Outcomes
         /\ Classify(s) \in {"ok", "ok-with-fallbacks"} =>
              /\ ~w[s].err /\ w[s].prod # "err"
              /\ \A i \in w[s].got : /\ FileKind(s, i) # "broken"
                                     /\ FileKind(s, i) = "fallback" =>
                                          Classify(s) = "ok-with-fallbacks"
  BY DEF Classify, Outcomes

\* Once both sides have ended, an outcome of ok means that every readable file
\* came through the channel and was stored.
LEMMA JoinStep ==
  ASSUME IndInv, NEW s \in Sessions, Join(s)  PROVE IndInv'
  <1>1. w[s] \in Workers  BY DEF IndInv, TypeInv
  <1>2. SessionInv(s)  BY DEF IndInv
  <1>3. /\ w[s].pc = "join" /\ ProducerEnded(s) /\ faults' \in 0 .. MaxFaults
        /\ row' = row /\ files' = files /\ entries' = entries /\ gone' = gone /\ zip' = zip
        /\ UNCHANGED <<tables, blob, sweep, now>>
    BY DEF Join, NoFault, tables, IndInv, TypeInv
  <1>4. PICK outcome : outcome = Classify(s)  OBVIOUS
  <1>5. outcome \in Outcomes  BY <1>4, Outcome
  <1>6. PICK rec : rec = [w[s] EXCEPT !.pc = "update", !.outcome = outcome]  OBVIOUS
  <1>7. Set(s, rec)  BY <1>4, <1>6 DEF Join
  <1>8. rec \in Workers  BY <1>1, <1>5, <1>6 DEF Workers, Places
  <1>9. /\ rec.pc = "update" /\ rec.prod = w[s].prod /\ rec.left = w[s].left
        /\ rec.chan = w[s].chan /\ rec.got = w[s].got /\ rec.outcome = outcome
        /\ rec.err = w[s].err /\ w'[s] = rec
    BY <1>1, <1>6, <1>7 DEF Workers, Set, IndInv, TypeInv
  <1>10. ASSUME row[s] # NoRow, outcome \in {"ok", "ok-with-fallbacks"}
         PROVE  Complete(s, outcome)
    <2>1. ~w[s].err /\ w[s].prod = "done"
      BY <1>3, <1>4, <1>10, Outcome DEF ProducerEnded
    <2>2. \A i \in w[s].got : /\ FileKind(s, i) # "broken"
                              /\ FileKind(s, i) = "fallback" => outcome = "ok-with-fallbacks"
      BY <1>4, <1>10, Outcome
    <2>3. w[s].left = {} /\ w[s].chan = <<>>
      BY <1>2, <1>3, <2>1 DEF SessionInv, Accounted
    <2>4. \A i \in Readable(s) : i \in w[s].got
      BY <1>2, <2>1, <2>3 DEF SessionInv, Accounted, InChan
    <2>5. w[s].got \subseteq Readable(s)  BY <1>2 DEF SessionInv, Channel
    <2>6. \A i \in w[s].got : /\ i \in files[s]
                              /\ i \in entries[s] \/ FileKind(s, i) \in {"empty", "broken"}
      BY <1>2, <1>3, <1>10, <2>1 DEF SessionInv, Stored
    <2>7. files[s] \subseteq Readable(s)  BY <1>2 DEF SessionInv, Stored
    <2>8. files[s] = Readable(s)  BY <2>4, <2>6, <2>7
    <2> QED BY <2>2, <2>4, <2>6, <2>8 DEF Complete
  <1>11. Once(s)'  BY <1>2, <1>3, <1>9 DEF SessionInv, Once
  <1>12. Channel(s)'  BY <1>2, <1>3, <1>9, Bundles DEF SessionInv, Channel
  <1>13. Accounted(s)'
    BY <1>2, <1>3, <1>9, Bundles DEF SessionInv, Accounted, Listening, InChan
  <1>14. Stored(s)'  BY <1>2, <1>3, <1>9, Bundles DEF SessionInv, Stored
  <1>15. Truthful(s)'
    BY <1>2, <1>3, <1>9, <1>10, Bundles DEF SessionInv, Truthful, Complete
  <1>16. SessionInv(s)'  BY <1>11, <1>12, <1>13, <1>14, <1>15 DEF SessionInv
  <1> QED BY <1>3, <1>7, <1>8, <1>16, WorkerStep

-----------------------------------------------------------------------------
(* The steps that write the tables for one session.                        *)

\* A step that touches the rows and the worker of one session only.
LEMMA RowStep ==
  ASSUME IndInv, NEW s \in Sessions, TypeInv', Sweeping', NoLeakedBlob', SessionInv(s)',
         zip' = zip, gone' \ {s} = gone \ {s},
         \A t \in Sessions \ {s} : /\ w'[t] = w[t] /\ row'[t] = row[t]
                                   /\ files'[t] = files[t] /\ entries'[t] = entries[t]
  PROVE  IndInv'
  <1>1. ASSUME NEW t \in Sessions, t # s  PROVE SessionInv(t)'
    <2>1. (t \in gone') = (t \in gone)  BY <1>1
    <2>2. SessionInv(t)  BY DEF IndInv
    <2> QED BY <1>1, <2>1, <2>2, Frame
  <1> QED BY <1>1 DEF IndInv

\* A consumer that meets an error drops the channel.
LEMMA Broken ==
  ASSUME IndInv, NEW s \in Sessions, Break(s), UNCHANGED <<tables, blob, sweep, now>>,
         faults' \in 0 .. MaxFaults, w[s].pc \in {"insert_file", "insert_entries"}
  PROVE  IndInv'
  <1>1. w[s] \in Workers  BY DEF IndInv, TypeInv
  <1>2. SessionInv(s)  BY DEF IndInv
  <1>3. row' = row /\ files' = files /\ entries' = entries /\ gone' = gone /\ zip' = zip
    BY DEF tables
  <1>4. PICK rec : rec = [w[s] EXCEPT !.pc = "join", !.err = TRUE, !.chan = <<>>]  OBVIOUS
  <1>5. rec \in Workers
    <2>1. \A b \in BOOLEAN, c \in Seq(Nat) :
             [w[s] EXCEPT !.pc = "join", !.err = b, !.chan = c] \in Workers
      BY <1>1 DEF Workers, Places
    <2>2. <<>> \in Seq(Nat)  OBVIOUS
    <2> QED BY <2>1, <2>2, <1>4, TRUE \in BOOLEAN, Zenon
  <1>6. Set(s, rec)  BY <1>4 DEF Break
  <1>7. /\ rec.pc = "join" /\ rec.prod = w[s].prod /\ rec.left = w[s].left
        /\ rec.chan = <<>> /\ rec.got = w[s].got /\ rec.err /\ w'[s] = rec
    BY <1>1, <1>4, <1>6 DEF Workers, Set, IndInv, TypeInv
  <1>8. Once(s)'  BY <1>2, <1>3, <1>7 DEF SessionInv, Once
  <1>9. Channel(s)'
    BY <1>2, <1>3, <1>7, Bundles, LifecycleAssumption DEF SessionInv, Channel
  <1>10. Accounted(s)'  BY <1>2, <1>7 DEF SessionInv, Accounted, Listening
  <1>11. Stored(s)'  BY <1>2, <1>3, <1>7, Bundles DEF SessionInv, Stored
  <1>12. Truthful(s)'  BY <1>2, <1>3, <1>7, Bundles DEF SessionInv, Truthful, Complete
  <1>13. SessionInv(s)'  BY <1>8, <1>9, <1>10, <1>11, <1>12 DEF SessionInv
  <1> QED BY <1>5, <1>6, <1>13, WorkerStep

\* A file row needs the row of its session.
LEMMA InsertFileStep ==
  ASSUME IndInv, NEW s \in Sessions, InsertFile(s)  PROVE IndInv'
  <1>1. w[s] \in Workers  BY DEF IndInv, TypeInv
  <1>2. SessionInv(s)  BY DEF IndInv
  <1>3. faults' \in 0 .. MaxFaults  BY FaultType DEF InsertFile, IndInv, FaultKinds
  <1>4. CASE Break(s) /\ UNCHANGED files
    BY <1>3, <1>4, Broken DEF InsertFile, tables
  <1>5. ASSUME row[s] # NoRow, files' = [files EXCEPT ![s] = @ \cup {w[s].file}],
               Set(s, [w[s] EXCEPT !.pc = "insert_entries"])
        PROVE  IndInv'
    <2>1. PICK rec : rec = [w[s] EXCEPT !.pc = "insert_entries"]  OBVIOUS
    <2>2. rec \in Workers  BY <1>1, <2>1 DEF Workers, Places
    <2>3. /\ rec.pc = "insert_entries" /\ rec.prod = w[s].prod /\ rec.left = w[s].left
          /\ rec.chan = w[s].chan /\ rec.got = w[s].got /\ rec.file = w[s].file
          /\ rec.err = w[s].err
      BY <1>1, <2>1 DEF Workers
    <2>4. /\ w' = [w EXCEPT ![s] = rec] /\ w'[s] = rec
      BY <1>5, <2>1 DEF Set, IndInv, TypeInv
    <2>5. /\ w[s].pc = "insert_file" /\ zip' = zip /\ row' = row /\ entries' = entries
          /\ gone' = gone /\ UNCHANGED <<blob, sweep, now>>
      BY DEF InsertFile
    <2>6. w[s].file \in Nat /\ files'[s] = files[s] \cup {w[s].file}
      BY <1>1, <1>5 DEF Workers, IndInv, TypeInv
    <2>7. TypeInv'
      BY <1>3, <1>5, <2>2, <2>4, <2>5, <2>6 DEF IndInv, TypeInv
    <2>8. Sweeping'
      BY <2>5, SweepFrame, LifecycleAssumption DEF IndInv, TypeInv
    <2>9. w[s].file \in w[s].got /\ w[s].got \subseteq Readable(s)
      BY <1>2, <2>5 DEF SessionInv, Channel
    <2>10. Once(s)'  BY <1>2, <2>3, <2>4, <2>5 DEF SessionInv, Once
    <2>11. Channel(s)'  BY <1>2, <2>3, <2>4, <2>5, Bundles DEF SessionInv, Channel
    <2>12. Accounted(s)'
      BY <1>2, <2>3, <2>4, <2>5, Bundles DEF SessionInv, Accounted, Listening, InChan
    <2>13. Stored(s)'
      BY <1>2, <1>5, <2>3, <2>4, <2>5, <2>6, <2>9, Bundles DEF SessionInv, Stored
    <2>14. Truthful(s)'
      BY <1>2, <1>5, <2>3, <2>4, <2>5 DEF SessionInv, Truthful, Once
    <2>15. SessionInv(s)'  BY <2>10, <2>11, <2>12, <2>13, <2>14 DEF SessionInv
    <2>16. NoLeakedBlob'  BY <2>5 DEF IndInv, NoLeakedBlob
    <2>17. \A t \in Sessions \ {s} : w'[t] = w[t] /\ files'[t] = files[t]
      BY <1>5, <2>4 DEF IndInv, TypeInv
    <2> QED BY <2>5, <2>7, <2>8, <2>15, <2>16, <2>17, RowStep
  <1> QED BY <1>4, <1>5 DEF InsertFile

\* Entries need their file row.
LEMMA InsertEntriesStep ==
  ASSUME IndInv, NEW s \in Sessions, InsertEntries(s)  PROVE IndInv'
  <1>1. w[s] \in Workers  BY DEF IndInv, TypeInv
  <1>2. SessionInv(s)  BY DEF IndInv
  <1>3. faults' \in 0 .. MaxFaults  BY FaultType DEF InsertEntries, IndInv, FaultKinds
  <1>4. CASE Break(s) /\ UNCHANGED entries
    BY <1>3, <1>4, Broken DEF InsertEntries, tables
  <1>5. ASSUME NEW new, new = IF FileKind(s, w[s].file) \in {"empty", "broken"} THEN entries[s]
                              ELSE entries[s] \cup {w[s].file},
               FileKind(s, w[s].file) \in {"empty", "broken"} \/ w[s].file \in files[s],
               entries' = [entries EXCEPT ![s] = new],
               Set(s, [w[s] EXCEPT !.pc = "recv"])
        PROVE  IndInv'
    <2>1. PICK rec : rec = [w[s] EXCEPT !.pc = "recv"]  OBVIOUS
    <2>2. rec \in Workers  BY <1>1, <2>1 DEF Workers, Places
    <2>3. /\ rec.pc = "recv" /\ rec.prod = w[s].prod /\ rec.left = w[s].left
          /\ rec.chan = w[s].chan /\ rec.got = w[s].got /\ rec.file = w[s].file
          /\ rec.err = w[s].err
      BY <1>1, <2>1 DEF Workers
    <2>4. /\ w' = [w EXCEPT ![s] = rec] /\ w'[s] = rec
      BY <1>5, <2>1 DEF Set, IndInv, TypeInv
    <2>5. /\ w[s].pc = "insert_entries" /\ zip' = zip /\ row' = row /\ files' = files
          /\ gone' = gone /\ UNCHANGED <<blob, sweep, now>>
      BY DEF InsertEntries
    <2>6. /\ new \in SUBSET Nat /\ entries'[s] = new /\ entries[s] \subseteq new
          /\ new \subseteq entries[s] \cup (files[s] \cap {w[s].file})
          /\ w[s].file \in new \/ FileKind(s, w[s].file) \in {"empty", "broken"}
      BY <1>1, <1>5 DEF Workers, IndInv, TypeInv
    <2>7. TypeInv'
      BY <1>3, <1>5, <2>2, <2>4, <2>5, <2>6 DEF IndInv, TypeInv
    <2>8. Sweeping'
      BY <2>5, SweepFrame, LifecycleAssumption DEF IndInv, TypeInv
    <2>10. Once(s)'  BY <1>2, <2>3, <2>4, <2>5 DEF SessionInv, Once
    <2>11. Channel(s)'  BY <1>2, <2>3, <2>4, <2>5, Bundles DEF SessionInv, Channel
    <2>12. Accounted(s)'
      BY <1>2, <2>3, <2>4, <2>5, Bundles DEF SessionInv, Accounted, Listening, InChan
    <2>13. Stored(s)'
      BY <1>2, <2>3, <2>4, <2>5, <2>6, Bundles DEF SessionInv, Stored
    <2>14. Truthful(s)'
      BY <1>2, <2>3, <2>4, <2>5 DEF SessionInv, Truthful, Once
    <2>15. SessionInv(s)'  BY <2>10, <2>11, <2>12, <2>13, <2>14 DEF SessionInv
    <2>16. NoLeakedBlob'  BY <2>5 DEF IndInv, NoLeakedBlob
    <2>17. \A t \in Sessions \ {s} : w'[t] = w[t] /\ entries'[t] = entries[t]
      BY <1>5, <2>4 DEF IndInv, TypeInv
    <2> QED BY <2>5, <2>7, <2>8, <2>15, <2>16, <2>17, RowStep
  <1> QED BY <1>4, <1>5 DEF InsertEntries

\* The worker writes its outcome and ends.
LEMMA UpdateStep ==
  ASSUME IndInv, NEW s \in Sessions, Update(s)  PROVE IndInv'
  <1>1. w[s] \in Workers  BY DEF IndInv, TypeInv
  <1>2. SessionInv(s)  BY DEF IndInv
  <1>3. faults' \in 0 .. MaxFaults  BY FaultType DEF Update, IndInv, FaultKinds
  <1>4. /\ w[s].pc = "update" /\ zip' = zip /\ files' = files /\ entries' = entries
        /\ gone' = gone /\ UNCHANGED <<blob, sweep, now>>
        /\ w' = [w EXCEPT ![s] = NoWorker]
    BY DEF Update, Set
  <1>5. w'[s] = NoWorker  BY <1>4 DEF IndInv, TypeInv
  <1>6. \/ row' = row
        \/ row[s] # NoRow /\ row' = [row EXCEPT ![s].parse = w[s].outcome]
    BY DEF Update
  <1>7. w[s].outcome \in Outcomes  BY <1>1 DEF Workers
  <1>8. /\ row' \in [Sessions -> Rows \cup {NoRow}]
        /\ \A t \in Sessions \ {s} : row'[t] = row[t]
        /\ \A t \in Sessions : (row'[t] = NoRow) = (row[t] = NoRow)
        /\ \A t \in Sessions : row[t] # NoRow => row'[t].at = row[t].at
        /\ row[s] # NoRow => row'[s].parse \in {row[s].parse, w[s].outcome}
    <2>1. CASE row' = row  BY <2>1 DEF IndInv, TypeInv
    <2>2. CASE row[s] # NoRow /\ row' = [row EXCEPT ![s].parse = w[s].outcome]
      <3>1. row \in [Sessions -> Rows \cup {NoRow}] /\ row[s] \in Rows
        BY <2>2 DEF IndInv, TypeInv
      <3>2. PICK new : new = [row[s] EXCEPT !.parse = w[s].outcome]  OBVIOUS
      <3>3. new \in Rows /\ new.at = row[s].at /\ new.parse = w[s].outcome
        BY <3>1, <3>2, <1>7 DEF Rows
      <3>4. row' = [row EXCEPT ![s] = new]  BY <2>2, <3>2
      <3>5. NoRow \notin Rows  BY LifecycleAssumption DEF Rows
      <3> QED BY <2>2, <3>1, <3>3, <3>4, <3>5
    <2> QED BY <1>6, <2>1, <2>2
  <1>9. TypeInv'  BY <1>3, <1>4, <1>8, Idle DEF IndInv, TypeInv
  <1>10. Sweeping'
    <2>1. \A t \in Sessions : OlderThan(t) => OlderThan(t)'
      BY <1>4, <1>8 DEF OlderThan
    <2> QED BY <2>1, <1>4 DEF IndInv, Sweeping, TypeInv, Sweeps
  <1>11. Once(s)'  BY <1>2, <1>4, <1>5, <1>8, Idle DEF SessionInv, Once
  <1>12. Channel(s)'
    BY <1>2, <1>4, <1>5, Idle, Bundles, LifecycleAssumption DEF SessionInv, Channel
  <1>13. Accounted(s)'
    BY <1>2, <1>4, <1>5, Idle, Bundles DEF SessionInv, Accounted, Listening, InChan
  <1>14. Stored(s)'  BY <1>2, <1>4, <1>5, <1>8, Idle, Bundles DEF SessionInv, Stored
  <1>15. Truthful(s)'
    BY <1>2, <1>4, <1>5, <1>8, Idle, Bundles DEF SessionInv, Truthful, Complete
  <1>16. SessionInv(s)'  BY <1>11, <1>12, <1>13, <1>14, <1>15 DEF SessionInv
  <1>17. NoLeakedBlob'  BY <1>4 DEF IndInv, NoLeakedBlob
  <1>18. \A t \in Sessions \ {s} : w'[t] = w[t]  BY <1>4 DEF IndInv, TypeInv
  <1> QED BY <1>4, <1>8, <1>9, <1>10, <1>16, <1>17, <1>18, RowStep

\* A commit finds nothing of its session, neither rows nor a worker.
LEMMA CommitStep ==
  ASSUME IndInv, NEW s \in Sessions, Commit(s)  PROVE IndInv'
  <1>1. w[s] \in Workers  BY DEF IndInv, TypeInv
  <1>2. SessionInv(s)  BY DEF IndInv
  <1>3. faults' \in 0 .. MaxFaults  BY FaultType DEF Commit, IndInv, FaultKinds
  <1>4. /\ row[s] = NoRow /\ s \notin gone /\ blob' = blob \cup {s}
        /\ row' = [row EXCEPT ![s] = [at |-> now, parse |-> "pending"]]
        /\ zip' = zip /\ files' = files /\ entries' = entries /\ gone' = gone
        /\ UNCHANGED <<sweep, now>>
    BY DEF Commit
  <1>5. PICK new : new = [at |-> now, parse |-> "pending"]  OBVIOUS
  <1>6. /\ new \in Rows /\ new.parse = "pending" /\ new # NoRow
    BY <1>5, LifecycleAssumption DEF Rows, IndInv, TypeInv
  <1>7. /\ row' \in [Sessions -> Rows \cup {NoRow}] /\ row'[s] = new
        /\ \A t \in Sessions \ {s} : row'[t] = row[t]
    BY <1>4, <1>5, <1>6 DEF IndInv, TypeInv
  <1>8. w[s] = NoWorker  BY <1>2, <1>4 DEF SessionInv, Once
  <1>9. PICK rec \in {NoWorker, [NoWorker EXCEPT !.pc = "head"]} : w' = [w EXCEPT ![s] = rec]
    <2>1. w \in [Sessions -> Workers]  BY DEF IndInv, TypeInv
    <2>2. CASE w' = w
      <3>1. w' = [w EXCEPT ![s] = NoWorker]  BY <1>8, <2>1, <2>2
      <3> QED BY <3>1
    <2>3. CASE Set(s, [NoWorker EXCEPT !.pc = "head"])  BY <2>3 DEF Set
    <2> QED BY <2>2, <2>3 DEF Commit
  <1>10. /\ rec \in Workers /\ rec.pc \in {"none", "head"} /\ rec.prod = "none"
         /\ rec.left = {} /\ rec.chan = <<>> /\ rec.got = {} /\ ~rec.err
         /\ rec.pc = "none" => rec = NoWorker
    BY <1>9, Idle DEF Workers
  <1>11. w'[s] = rec /\ \A t \in Sessions \ {s} : w'[t] = w[t]
    BY <1>9 DEF IndInv, TypeInv
  <1>12. TypeInv'
    BY <1>3, <1>4, <1>7, <1>9, <1>10 DEF IndInv, TypeInv
  <1>13. Sweeping'
    <2>1. \A t \in Sessions : OlderThan(t) => t # s /\ OlderThan(t)'
      BY <1>4, <1>7 DEF OlderThan
    <2> QED BY <2>1, <1>4 DEF IndInv, Sweeping, TypeInv, Sweeps
  <1>14. Once(s)'  BY <1>4, <1>6, <1>7, <1>10, <1>11 DEF Once
  <1>15. Channel(s)'  BY <1>10, <1>11, LifecycleAssumption DEF Channel
  <1>16. Accounted(s)'  BY <1>10, <1>11 DEF Accounted, Listening
  <1>17. Stored(s)'  BY <1>2, <1>4, <1>6, <1>7, <1>10, <1>11 DEF SessionInv, Stored
  <1>18. Truthful(s)'  BY <1>6, <1>7, <1>10, <1>11 DEF Truthful
  <1>19. SessionInv(s)'  BY <1>14, <1>15, <1>16, <1>17, <1>18 DEF SessionInv
  <1>20. NoLeakedBlob'  BY <1>4 DEF IndInv, NoLeakedBlob
  <1> QED BY <1>4, <1>7, <1>11, <1>12, <1>13, <1>19, <1>20, RowStep

-----------------------------------------------------------------------------
(* The steps of the sweeper, the clock and the crash.                      *)

\* The sweeper rests or has work, whatever is left of its batch.
LEMMA Rest ==
  ASSUME NEW T \in SUBSET Sessions, Skip(T)
  PROVE  sweep' \in Sweeps /\ sweep'.pc # "row" /\ sweep'.todo \subseteq T
  BY DEF Skip, Resting, Sweeps

\* A step that leaves rows and workers alone.
LEMMA StoreStep ==
  ASSUME IndInv, UNCHANGED <<tables, w>>, TypeInv', Sweeping', NoLeakedBlob'
  PROVE  IndInv'
  <1>1. ASSUME NEW s \in Sessions  PROVE SessionInv(s)'
    <2>1. SessionInv(s)  BY DEF IndInv
    <2> QED BY <2>1, Frame DEF tables
  <1> QED BY <1>1 DEF IndInv

\* A batch is old rows only.
LEMMA ScanStep ==
  ASSUME IndInv, Scan  PROVE IndInv'
  <1>1. PICK T \in Candidates : sweep' = [pc |-> "blob", todo |-> T]  BY DEF Scan
  <1>2. T \subseteq Sessions /\ \A s \in T : OlderThan(s)  BY DEF Candidates, Expired
  <1>3. sweep' \in Sweeps /\ sweep'.pc = "blob" /\ sweep'.todo = T  BY <1>1, <1>2 DEF Sweeps
  <1>4. TypeInv'  BY <1>3 DEF Scan, IndInv, TypeInv, tables, NoFault
  <1>5. \A s : OlderThan(s) => OlderThan(s)'  BY DEF Scan, OlderThan, tables
  <1>6. Sweeping'  BY <1>2, <1>3, <1>5 DEF Sweeping
  <1>7. NoLeakedBlob'  BY DEF Scan, IndInv, NoLeakedBlob, tables
  <1> QED BY <1>4, <1>6, <1>7, StoreStep DEF Scan

\* The blob goes before the row.
LEMMA DeleteBlobStep ==
  ASSUME IndInv, DeleteBlob  PROVE IndInv'
  <1>1. PICK s \in Oldest(sweep.todo) :
           \/ /\ blob' = blob \ {s}
              /\ sweep' = [pc |-> "row", todo |-> sweep.todo, cur |-> s]
           \/ Skip(sweep.todo \ {s}) /\ UNCHANGED blob
    BY DEF DeleteBlob
  <1>2. s \in sweep.todo /\ sweep.todo \subseteq Sessions
    BY DEF Oldest, IndInv, TypeInv, Sweeps
  <1>3. /\ sweep' \in Sweeps /\ sweep'.todo \subseteq sweep.todo /\ blob' \subseteq blob
        /\ sweep'.pc = "row" => sweep'.cur \in sweep'.todo /\ sweep'.cur \notin blob'
    <2>1. CASE /\ blob' = blob \ {s}
               /\ sweep' = [pc |-> "row", todo |-> sweep.todo, cur |-> s]
      BY <1>2, <2>1 DEF Sweeps
    <2>2. CASE Skip(sweep.todo \ {s}) /\ UNCHANGED blob
      BY <1>2, <2>2, Rest
    <2> QED BY <1>1, <2>1, <2>2
  <1>4. faults' \in 0 .. MaxFaults  BY FaultType DEF DeleteBlob, IndInv, FaultKinds
  <1>5. TypeInv'  BY <1>3, <1>4 DEF DeleteBlob, IndInv, TypeInv, tables
  <1>6. \A t : OlderThan(t) => OlderThan(t)'  BY DEF DeleteBlob, OlderThan, tables
  <1>7. Sweeping'  BY <1>3, <1>6 DEF IndInv, Sweeping
  <1>8. NoLeakedBlob'  BY <1>3 DEF DeleteBlob, IndInv, NoLeakedBlob, tables
  <1> QED BY <1>5, <1>7, <1>8, StoreStep DEF DeleteBlob

\* The row goes with all that refers to it, and its blob is gone already.
LEMMA DeleteSessionStep ==
  ASSUME IndInv, DeleteSession  PROVE IndInv'
  <1>1. PICK s : s = sweep.cur  OBVIOUS
  <1>2. /\ s \in sweep.todo /\ sweep.todo \subseteq Sessions /\ s \in Sessions
        /\ s \notin blob /\ \A t \in sweep.todo : OlderThan(t)
    BY <1>1 DEF DeleteSession, IndInv, Sweeping, TypeInv, Sweeps
  <1>3. Skip(sweep.todo \ {s}) /\ UNCHANGED <<blob, w, now>>
    BY <1>1 DEF DeleteSession
  <1>4. /\ sweep' \in Sweeps /\ sweep'.pc # "row" /\ sweep'.todo \subseteq sweep.todo \ {s}
    BY <1>2, <1>3, Rest
  <1>5. faults' \in 0 .. MaxFaults  BY FaultType DEF DeleteSession, IndInv, FaultKinds
  <1>6. CASE UNCHANGED tables
    <2>1. TypeInv'  BY <1>3, <1>4, <1>5, <1>6 DEF IndInv, TypeInv, tables
    <2>2. \A t : OlderThan(t) => OlderThan(t)'  BY <1>3, <1>6 DEF OlderThan, tables
    <2>3. Sweeping'  BY <1>2, <1>4, <2>2 DEF Sweeping
    <2>4. NoLeakedBlob'  BY <1>3, <1>6 DEF IndInv, NoLeakedBlob, tables
    <2> QED BY <1>3, <1>6, <2>1, <2>3, <2>4, StoreStep
  <1>7. ASSUME row' = [row EXCEPT ![s] = NoRow], files' = [files EXCEPT ![s] = {}],
               entries' = [entries EXCEPT ![s] = {}], gone' = gone \cup {s}, zip' = zip
        PROVE  IndInv'
    <2>1. SessionInv(s)  BY <1>2 DEF IndInv
    <2>2. /\ row'[s] = NoRow /\ files'[s] = {} /\ entries'[s] = {} /\ s \in gone'
          /\ \A t \in Sessions \ {s} : /\ row'[t] = row[t] /\ files'[t] = files[t]
                                       /\ entries'[t] = entries[t]
      BY <1>2, <1>7 DEF IndInv, TypeInv
    <2>3. TypeInv'  BY <1>2, <1>3, <1>4, <1>5, <1>7 DEF IndInv, TypeInv
    <2>4. \A t \in Sessions \ {s} : OlderThan(t) => OlderThan(t)'
      BY <1>3, <2>2 DEF OlderThan
    <2>5. Sweeping'  BY <1>2, <1>4, <2>4 DEF Sweeping
    <2>6. NoLeakedBlob'  BY <1>2, <1>3, <1>7 DEF IndInv, NoLeakedBlob
    <2>7. Once(s)'  BY <1>3, <2>1, <2>2 DEF SessionInv, Once
    <2>8. Channel(s)'  BY <1>3, <1>7, <2>1, Bundles DEF SessionInv, Channel
    <2>9. Accounted(s)'
      BY <1>3, <1>7, <2>1, Bundles DEF SessionInv, Accounted, Listening, InChan, ProducerEnded
    <2>10. Stored(s)' /\ Truthful(s)'  BY <2>2 DEF Stored, Truthful
    <2>11. SessionInv(s)'  BY <2>7, <2>8, <2>9, <2>10 DEF SessionInv
    <2> QED BY <1>2, <1>3, <1>7, <2>2, <2>3, <2>5, <2>6, <2>11, RowStep
  <1> QED BY <1>1, <1>6, <1>7 DEF DeleteSession

\* Time passes.
LEMMA TickStep ==
  ASSUME IndInv, Tick  PROVE IndInv'
  <1>1. TypeInv'  BY LifecycleAssumption DEF Tick, IndInv, TypeInv, tables
  <1>2. Sweeping'
    BY SweepFrame, LifecycleAssumption DEF Tick, IndInv, TypeInv, tables
  <1>3. NoLeakedBlob'  BY DEF Tick, IndInv, NoLeakedBlob, tables
  <1> QED BY <1>1, <1>2, <1>3, StoreStep DEF Tick

\* A crash ends every worker wherever it is and the sweeper's pass with it.
LEMMA CrashStep ==
  ASSUME IndInv, Crash  PROVE IndInv'
  <1>1. faults' \in 0 .. MaxFaults  BY FaultType DEF Crash, IndInv, FaultKinds
  <1>2. sweep' \in Sweeps /\ sweep'.pc = "sleep" /\ sweep'.todo = {}
    BY DEF Crash, Resting, Sweeps
  <1>3. TypeInv'  BY <1>1, <1>2, Idle DEF Crash, IndInv, TypeInv, tables
  <1>4. Sweeping'  BY <1>2 DEF Sweeping
  <1>5. NoLeakedBlob'  BY DEF Crash, IndInv, NoLeakedBlob, tables
  <1>6. ASSUME NEW s \in Sessions  PROVE SessionInv(s)'
    <2>1. w'[s] = NoWorker /\ SessionInv(s)  BY DEF Crash, IndInv
    <2>2. row' = row /\ files' = files /\ entries' = entries /\ gone' = gone /\ zip' = zip
      BY DEF Crash, tables
    <2>3. Once(s)'  BY <2>1, <2>2, Idle DEF SessionInv, Once
    <2>4. Channel(s)'  BY <2>1, Idle, LifecycleAssumption DEF Channel
    <2>5. Accounted(s)'  BY <2>1, Idle DEF Accounted, Listening
    <2>6. Stored(s)'  BY <2>1, <2>2, Idle, Bundles DEF SessionInv, Stored
    <2>7. Truthful(s)'
      BY <2>1, <2>2, Idle, Bundles DEF SessionInv, Truthful, Complete
    <2> QED BY <2>3, <2>4, <2>5, <2>6, <2>7 DEF SessionInv
  <1> QED BY <1>3, <1>4, <1>5, <1>6 DEF IndInv

-----------------------------------------------------------------------------
(* The theorems.                                                           *)

\* Nothing is stored and nobody works when the server starts; what an earlier
\* blob backend left behind are rows alone.
LEMMA InitInv ==
  ASSUME Init  PROVE IndInv
  <1>1. PICK old : old = [at |-> 0, parse |-> "ok"]  OBVIOUS
  <1>2. old \in Rows /\ old # NoRow
    <2>1. \A n \in 0 .. MaxNow : [at |-> n, parse |-> "ok"] \in Rows  BY DEF Rows, Outcomes
    <2>2. 0 \in 0 .. MaxNow  BY LifecycleAssumption
    <2>3. old \in Rows  BY <1>1, <2>1, <2>2, Zenon
    <2> QED BY <2>3, LifecycleAssumption DEF Rows
  <1>3. /\ row = [s \in Sessions |-> IF s \in Legacy THEN old ELSE NoRow]
        /\ w = [s \in Sessions |-> NoWorker] /\ files = [s \in Sessions |-> {}]
        /\ entries = [s \in Sessions |-> {}] /\ blob = {} /\ gone = {}
    BY <1>1, Zenon DEF Init
  <1>4. sweep \in Sweeps /\ sweep.pc = "sleep" /\ sweep.todo = {}
    BY DEF Init, Resting, Sweeps
  <1>5. TypeInv  BY <1>2, <1>3, <1>4, Idle, LifecycleAssumption DEF Init, TypeInv
  <1>6. Sweeping /\ NoLeakedBlob  BY <1>3, <1>4 DEF Sweeping, NoLeakedBlob
  <1>7. ASSUME NEW s \in Sessions  PROVE SessionInv(s)
    <2>1. w[s] = NoWorker /\ files[s] = {} /\ entries[s] = {}  BY <1>3
    <2>2. Once(s)  BY <1>3, <2>1, Idle DEF Once
    <2>3. Channel(s)  BY <2>1, Idle, LifecycleAssumption DEF Channel
    <2>4. Accounted(s)  BY <2>1, Idle DEF Accounted, Listening
    <2>5. Stored(s)  BY <2>1, Idle DEF Stored
    <2>6. Truthful(s)  BY <1>3, <2>1, Idle DEF Truthful
    <2> QED BY <2>2, <2>3, <2>4, <2>5, <2>6 DEF SessionInv
  <1> QED BY <1>5, <1>6, <1>7 DEF IndInv

\* Every step of the workers, the sweeper, the clock and every crash keeps it.
LEMMA NextInv ==
  ASSUME IndInv, [Next]_vars  PROVE IndInv'
  <1>1. CASE UNCHANGED vars
    <2>1. TypeInv' /\ NoLeakedBlob'
      BY <1>1 DEF vars, IndInv, TypeInv, NoLeakedBlob
    <2>2. \A t : OlderThan(t) => OlderThan(t)'  BY <1>1 DEF vars, OlderThan
    <2>3. Sweeping'  BY <1>1, <2>2 DEF vars, IndInv, Sweeping
    <2> QED BY <1>1, <2>1, <2>3, StoreStep DEF vars, tables
  <1>2. ASSUME NEW s \in Sessions, Commit(s) \/ Worker(s) \/ Producer(s)  PROVE IndInv'
    BY <1>2, CommitStep, HeadBlobStep, ReadBlobStep, RecvStep, InsertFileStep,
       InsertEntriesStep, JoinStep, UpdateStep, ExtractStep, ProduceStep
    DEF Worker, Producer
  <1>3. CASE Sweeper  BY <1>3, ScanStep, DeleteBlobStep, DeleteSessionStep DEF Sweeper
  <1> QED BY <1>1, <1>2, <1>3, TickStep, CrashStep DEF Next

\* The inductive invariant: the parse worker and the retention sweeper, run
\* beside each other, keep their bookkeeping straight (parse_worker.rs,
\* retention.rs).
THEOREM LifecycleInductive == Spec => []IndInv
  <1>1. Init => IndInv  BY InitInv
  <1>2. IndInv /\ [Next]_vars => IndInv'  BY NextInv
  <1> QED BY <1>1, <1>2, PTL DEF Spec

\* Types of the tables, the workers and the sweeper; the channel between
\* producer and consumer never holds more than PIPELINE_BUFFER files.
THEOREM LifecycleTypes == Spec => []TypeOK
  <1>1. ASSUME IndInv  PROVE TypeOK
    <2>1. ASSUME NEW s \in Sessions
          PROVE  /\ row[s] # NoRow => /\ row[s].at \in 0 .. MaxNow
                                      /\ row[s].parse \in Outcomes \cup {"pending"}
                 /\ files[s] \subseteq LogFiles(s) /\ entries[s] \subseteq LogFiles(s)
                 /\ w[s].pc \in Places
                 /\ w[s].prod \in {"none", "extract", "parse", "done", "err"}
                 /\ Len(w[s].chan) <= Buffer
      <3>1. TypeInv /\ Stored(s) /\ Channel(s)  BY <1>1 DEF IndInv, SessionInv
      <3>2. row[s] # NoRow => row[s] \in Rows  BY <3>1 DEF TypeInv
      <3>3. w[s] \in Workers  BY <3>1 DEF TypeInv
      <3>4. w[s].pc \in Places /\ w[s].prod \in {"none", "extract", "parse", "done", "err"}
        BY <3>3 DEF Workers
      <3>5. Readable(s) \subseteq LogFiles(s)  BY <3>1, Logs
      <3> QED BY <3>1, <3>2, <3>4, <3>5 DEF Rows, Stored, Channel
    <2>2. sweep.pc \in {"sleep", "blob", "row"} /\ sweep.todo \subseteq Sessions
      BY <1>1 DEF IndInv, TypeInv, Sweeps
    <2> QED BY <1>1, <2>1, <2>2 DEF TypeOK, Places, IndInv, TypeInv
  <1> QED BY <1>1, LifecycleInductive, PTL

\* No file row without its session and no entries without their file row, even
\* when the sweeper deletes a session under its running worker.
THEOREM NothingOrphaned == Spec => []NoOrphans
  <1>1. IndInv => NoOrphans  BY DEF IndInv, SessionInv, Stored, NoOrphans
  <1> QED BY <1>1, LifecycleInductive, PTL

\* A session called ok has the row and the entries of every readable log file.
THEOREM OkMeansComplete == Spec => []OkIsComplete
  <1>1. IndInv => OkIsComplete
    BY DEF IndInv, SessionInv, Truthful, Complete, OkIsComplete
  <1> QED BY <1>1, LifecycleInductive, PTL

\* A session whose row the sweeper deleted has no blob left in the store.
THEOREM BlobsGoFirst == Spec => []NoLeakedBlob
  <1>1. IndInv => NoLeakedBlob  BY DEF IndInv
  <1> QED BY <1>1, LifecycleInductive, PTL

\* A session in the sweeper's batch has outlived its TTL.
LEMMA OldEnough ==
  ASSUME TypeInv, NEW s \in Sessions, OlderThan(s)
  PROVE  row[s].at + Ttl * Day <= now
  <1>1. row[s] \in Rows  BY DEF OlderThan, TypeInv
  <1>2. /\ row[s].at \in Nat /\ now \in Nat /\ Ttl \in Nat /\ Day \in Nat \ {0}
    BY <1>1, LifecycleAssumption DEF Rows, TypeInv
  <1> QED BY <1>2, DatesToDays DEF OlderThan

\* Neither row nor blob of a session goes before its TTL, for every TTL and
\* length of the day: the comparison of the two date formats errs only on the
\* late side.
THEOREM NothingGoesEarly == Spec => NothingEarly
  <1>1. ASSUME IndInv, Next  PROVE KeepsYoung
    <2> SUFFICES ASSUME NEW s \in Sessions, row[s] # NoRow, now < row[s].at + Ttl * Day
                 PROVE  row'[s] # NoRow /\ (s \in blob => s \in blob')
      BY DEF KeepsYoung
    <2>1. TypeInv /\ Sweeping /\ row \in [Sessions -> Rows \cup {NoRow}]
      BY <1>1 DEF IndInv, TypeInv
    <2>2. ~OlderThan(s)
      <3>1. row[s].at \in Nat /\ now \in Nat /\ Ttl * Day \in Nat
        BY <2>1, LifecycleAssumption DEF Rows, TypeInv
      <3> QED BY <2>1, <3>1, OldEnough
    <2>3. s \notin sweep.todo  BY <2>1, <2>2 DEF Sweeping
    <2>4. CASE row' = row /\ blob \subseteq blob'  BY <2>4
    <2>5. ASSUME NEW t \in Sessions, Commit(t)  PROVE row'[s] # NoRow /\ blob \subseteq blob'
      BY <2>1, <2>5 DEF Commit
    <2>6. ASSUME NEW t \in Sessions, Update(t)  PROVE row'[s] # NoRow /\ blob \subseteq blob'
      <3>1. blob' = blob  BY <2>6 DEF Update
      <3>2. CASE t = s /\ row' = [row EXCEPT ![t].parse = w[t].outcome]
        <4>1. row[s] \in Rows /\ w[s].outcome \in Outcomes
          BY <1>1, <2>1 DEF IndInv, TypeInv, Workers
        <4>2. row'[s] = [row[s] EXCEPT !.parse = w[s].outcome]  BY <2>1, <3>2
        <4>3. row'[s] \in Rows  BY <4>1, <4>2 DEF Rows
        <4> QED BY <3>1, <4>3, LifecycleAssumption DEF Rows
      <3>3. CASE t # s /\ row' = [row EXCEPT ![t].parse = w[t].outcome]
        BY <2>1, <3>1, <3>3
      <3> QED BY <2>6, <3>1, <3>2, <3>3 DEF Update
    <2>7. CASE DeleteBlob
      <3>1. PICK t \in sweep.todo : blob' = blob \ {t} \/ blob' = blob
        BY <2>7 DEF DeleteBlob, Oldest
      <3> QED BY <2>3, <2>7, <3>1 DEF DeleteBlob, tables
    <2>8. CASE DeleteSession
      <3>1. sweep.cur \in sweep.todo  BY <2>1, <2>8 DEF DeleteSession, Sweeping
      <3>2. sweep.cur # s  BY <2>3, <3>1
      <3> QED BY <2>1, <2>8, <3>2 DEF DeleteSession, tables
    <2>9. ASSUME NEW t \in Sessions,
                 \/ HeadBlob(t) \/ ReadBlob(t) \/ Recv(t) \/ Join(t) \/ InsertFile(t)
                 \/ InsertEntries(t) \/ Extract(t) \/ Produce(t)
          PROVE  row' = row /\ blob' = blob
      BY <2>9 DEF HeadBlob, ReadBlob, Recv, Join, InsertFile, InsertEntries, Extract,
                  Produce, tables
    <2>10. CASE Scan \/ Tick \/ Crash  BY <2>10 DEF Scan, Tick, Crash, tables
    <2> QED BY <1>1, <2>4, <2>5, <2>6, <2>7, <2>8, <2>9, <2>10
            DEF Next, Worker, Producer, Sweeper
  <1>2. IndInv /\ [Next]_vars => [KeepsYoung]_vars  BY <1>1
  <1> QED BY <1>2, LifecycleInductive, PTL DEF Spec, NothingEarly
=============================================================================
