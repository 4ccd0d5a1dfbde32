--------------------------- MODULE AgentHostProofs ---------------------------
(***************************************************************************)
(* Proofs about AgentHost and about Evidence, the collection pass it runs: *)
(* what the service manager is told, and what a finished bundle contains,  *)
(* for any overrides, any rollback threshold, any queue limit and any      *)
(* pattern of outages, hangs and crashes, and for any device.              *)
(***************************************************************************)
EXTENDS AgentHost, Evidence, TLAPS

-----------------------------------------------------------------------------
(* AgentHost: the inductive invariant.                                     *)

\* The state the service manager knows is the one the process is in; a single
\* pass from the console tells it nothing.
Reported ==
  svc = IF proc = "down" \/ oneshot THEN "Stopped"
        ELSE IF proc = "starting" THEN "StartPending" ELSE "Running"

\* Only a body that syncs has a request under way, and a body runs to its end
\* before another starts.
OneBody == proc \notin {"starting", "config"} => reply = NoReply

HostInv ==
  /\ proc \in {"down", "starting", "loop", "hung", "final"} \cup Timers
  /\ oneshot \in BOOLEAN
  /\ Reported
  /\ OneBody

-----------------------------------------------------------------------------

\* Nothing runs when the agent is installed.
LEMMA InitInv == HostInit => HostInv
  BY DEF HostInit, SyncInit, HostInv, Reported, OneBody

\* Starting the service or a single pass.
LEMMA StartStep ==
  ASSUME HostInv, Start \/ StartFails \/ Started  PROVE HostInv'
  <1>1. CASE Start
    BY <1>1 DEF Start, HostInv, Reported, OneBody
  <1>2. CASE StartFails
    BY <1>2 DEF StartFails, HostInv, Reported, OneBody
  <1>3. CASE Started
    BY <1>3 DEF Started, HostInv, Reported, OneBody, Timers
  <1> QED BY <1>1, <1>2, <1>3

\* The bodies of the loop, and the fetch of a sync.
LEMMA BodyStep ==
  ASSUME HostInv, Body  PROVE HostInv'
  <1>1. CASE CollectEnds
    BY <1>1 DEF CollectEnds, Back, HostInv, Reported, OneBody, syncVars, Timers
  <1>2. CASE DrainTick
    BY <1>2 DEF DrainTick, Back, HostInv, Reported, OneBody, Timers
  <1>3. CASE ConfigTick
    BY <1>3 DEF ConfigTick, Back, HostInv, Reported, OneBody, Timers
  <1>4. CASE FetchStep
    BY <1>4 DEF FetchStep, HostInv, Reported, OneBody, hostVars
  <1>5. CASE FinalDrain
    BY <1>5 DEF FinalDrain, HostInv, Reported, OneBody, syncVars
  <1> QED BY <1>1, <1>2, <1>3, <1>4, <1>5 DEF Body

\* An await that hangs, and one that ends after all: the service manager is told
\* of neither.
LEMMA HangStep ==
  ASSUME HostInv, AwaitHangs \/ AwaitEnds  PROVE HostInv'
  <1>1. CASE AwaitHangs
    BY <1>1 DEF AwaitHangs, HostInv, Reported, OneBody, Timers
  <1>2. CASE AwaitEnds
    <2>1. NoReply.pc # "silent"  BY DEF NoReply
    <2> QED BY <1>2, <2>1 DEF AwaitEnds, ConnectionReset, HostInv, Reported, OneBody, Timers
  <1> QED BY <1>1, <1>2

\* The loop, the stop signal and the outside.
LEMMA OtherSteps ==
  ASSUME HostInv,
         \/ \E t \in Timers : Take(t)
         \/ StopSignal \/ TakeStop \/ Crash \/ OperatorWrites \/ Outage
         \/ UNCHANGED vars
  PROVE  HostInv'
  <1>1. ASSUME NEW t \in Timers, Take(t)  PROVE HostInv'
    BY <1>1 DEF Take, HostInv, Reported, OneBody, syncVars, Timers
  <1>2. CASE StopSignal \/ TakeStop
    BY <1>2 DEF StopSignal, TakeStop, HostInv, Reported, OneBody, syncVars
  <1>3. CASE Crash
    BY <1>3 DEF Crash, HostInv, Reported, OneBody
  <1>4. CASE OperatorWrites \/ Outage \/ UNCHANGED vars
    BY <1>4 DEF OperatorWrites, Outage, vars, HostInv, Reported, OneBody, syncVars, hostVars
  <1> QED BY <1>1, <1>2, <1>3, <1>4

\* The inductive invariant of the agent process (runtime.rs, service.rs).
THEOREM HostInductive == Spec => []HostInv
  <1>1. HostInv /\ [Next]_vars => HostInv'
    BY StartStep, BodyStep, HangStep, OtherSteps DEF Next, Body
  <1> QED BY InitInv, <1>1, PTL DEF Spec

\* The service manager is told Running only while the loop is alive with its
\* components built, and Stopped only when no body is at work, through failed
\* starts, hangs, stops and crashes.
THEOREM StatusIsTrue == Spec => []StatusTruth
  <1>1. HostInv => StatusTruth
    BY DEF HostInv, Reported, OneBody, StatusTruth, Timers
  <1> QED BY <1>1, HostInductive, PTL

-----------------------------------------------------------------------------
(* Evidence: the inductive invariant.                                      *)

PassTypeOK ==
  /\ pc \in {"collect", "redact", "zip", "zipped", "failed"}
  /\ \A m \in matches : m.file \in LogFiles
  /\ commands \subseteq Commands
  /\ ownLogs \in Seq(AgentFiles)
  /\ staged \in [Paths -> Files \cup {NoFile}]
  /\ \A path \in walk : path \in Paths /\ Exists(path)

\* Which sources a listed path can stand for: the collectors write to parts of
\* the directory of their own, and a hashed name belongs to one log file.
Owned(e) ==
  /\ e.path \in Paths /\ ~e.path.tmp
  /\ e.path.dir \in {"root", "event-logs"} => e.src \in Commands /\ e.path.name = e.src
  /\ e.path.dir = "logs" /\ e.path.hash # NoHash => e.src = e.path.hash

\* What ManifestTruth says of one of them.
Kept(e) ==
  /\ Exists(e.path)
  /\ e.path.dir # "agent" => staged[e.path].src = e.src
  /\ staged[e.path].whole \/ e.path \in skipped \cup warned

\* What RawIsAccounted says of a file, while the redactor still has some to come
\* to.
Accounted(path) ==
  Exists(path) /\ Redactable(path) /\ staged[path].raw =>
    path \in walk \/ path \in warned \/ (staged[path].mixed /\ ~staged[path].large)

PassInv ==
  /\ PassTypeOK
  /\ \A e \in listed : Owned(e) /\ Kept(e)
  /\ pc \in {"zip", "zipped"} => walk = {}
  /\ pc \in {"redact", "zip", "zipped"} /\ Redacting =>
       \A path \in Paths : Accounted(path)

-----------------------------------------------------------------------------
(* The collectors.                                                         *)

\* A source has a name, and its copies are files.
LEMMA CopyType ==
  ASSUME NEW s \in Sources
  PROVE  /\ Disk[s].name \in Names
         /\ Copy(s) \in Files /\ Copy(s).src = s /\ Copy(s).whole
         /\ \A f \in Cut(s) : f \in Files /\ f.src = s
  BY EvidenceAssumption DEF Copy, Cut, Files, Names

\* A path without a hash, in one of the four directories.
LEMMA PathType ==
  ASSUME NEW d \in Dirs, NEW n \in Names
  PROVE  /\ Path(d, n) \in Paths /\ Path(d, n).dir = d /\ Path(d, n).name = n
         /\ Path(d, n).hash = NoHash /\ ~Path(d, n).tmp
  BY DEF Path, Paths

\* What was written at dest came from s, or nothing was.
Wrote(dest, s) ==
  \/ staged' = staged
  \/ \E f \in Files : f.src = s /\ staged' = [staged EXCEPT ![dest] = f]

\* A collector's step keeps what is known of the directory, when the path it
\* writes to can stand for its source only.
LEMMA CollectorStep ==
  ASSUME PassInv, pc = "collect", pc' = "collect",
         NEW s \in Sources, NEW dest \in Paths, Owned([path |-> dest, src |-> s]),
         \A e \in listed : e.path = dest => dest.dir = "agent" \/ e.src = s,
         Copied(dest, s) \/ CopyFails(dest, s),
         UNCHANGED <<walk, warned>>,
         \A m \in matches' : m.file \in LogFiles,
         commands' \subseteq Commands, ownLogs' \in Seq(AgentFiles)
  PROVE  PassInv'
  <1> USE DEF PassInv
  <1>1. staged \in [Paths -> Files \cup {NoFile}] /\ NoFile \notin Files
    BY EvidenceAssumption DEF PassTypeOK
  <1>2. \A path \in walk : path \in Paths /\ staged[path] # NoFile
    BY DEF PassTypeOK, Exists
  <1>3. CASE Copied(dest, s)
    <2>1. PICK f \in Files : f.src = s /\ f.whole /\ f = Copy(s)
      BY CopyType
    <2>2. /\ staged' = [staged EXCEPT ![dest] = f] /\ skipped' = skipped
          /\ listed' = listed \cup {[path |-> dest, src |-> s]}
      BY <1>3, <2>1 DEF Copied
    <2>3. /\ staged' \in [Paths -> Files \cup {NoFile}] /\ staged'[dest] = f
          /\ \A path \in Paths : path # dest => staged'[path] = staged[path]
      BY <1>1, <2>2
    <2>4. PassTypeOK'
      BY <1>1, <1>2, <2>3 DEF PassTypeOK, Exists
    <2>5. ASSUME NEW e \in listed  PROVE Owned(e)' /\ Kept(e)'
      <3>1. Owned(e) /\ Kept(e)  BY <2>5
      <3>2. CASE e.path = dest
        BY <1>1, <2>1, <2>2, <2>3, <3>1, <3>2 DEF Owned, Kept, Exists
      <3>3. CASE e.path # dest
        BY <2>2, <2>3, <3>1, <3>3 DEF Owned, Kept, Exists
      <3> QED BY <3>2, <3>3
    <2>6. ASSUME NEW e, e = [path |-> dest, src |-> s]  PROVE Owned(e)' /\ Kept(e)'
      <3>1. e.path = dest /\ e.src = s /\ Owned(e)  BY <2>6
      <3> QED BY <1>1, <2>1, <2>3, <3>1 DEF Owned, Kept, Exists
    <2> QED BY <2>2, <2>4, <2>5, <2>6
  <1>4. CASE CopyFails(dest, s)
    <2>1. /\ listed' = listed /\ skipped' = skipped \cup {dest}
          /\ Wrote(dest, s)
      BY <1>4, CopyType DEF CopyFails, Wrote
    <2>2. /\ staged' \in [Paths -> Files \cup {NoFile}]
          /\ \/ staged'[dest] = staged[dest]
             \/ staged'[dest] \in Files /\ staged'[dest].src = s
          /\ \A path \in Paths : path # dest => staged'[path] = staged[path]
      BY <1>1, <2>1 DEF Wrote
    <2>3. PassTypeOK'
      BY <1>1, <1>2, <2>2 DEF PassTypeOK, Exists
    <2>4. ASSUME NEW e \in listed  PROVE Owned(e)' /\ Kept(e)'
      <3>1. Owned(e) /\ Kept(e)  BY <2>4
      <3>2. CASE e.path = dest
        BY <1>1, <2>1, <2>2, <3>1, <3>2 DEF Owned, Kept, Exists
      <3>3. CASE e.path # dest
        BY <2>1, <2>2, <3>1, <3>3 DEF Owned, Kept, Exists
      <3> QED BY <3>2, <3>3
    <2> QED BY <2>1, <2>3, <2>4
  <1> QED BY <1>3, <1>4

\* LogsCollector: a plain name is taken only when it is free, a hashed one
\* belongs to the file it was made for.
LEMMA LogStep ==
  ASSUME PassInv, NEW m \in matches, CollectLog(m)  PROVE PassInv'
  <1> DEFINE file == m.file
             plain == Path("logs", Disk[file].name)
             dest == SafeCopyName(file)
  <1>1. file \in LogFiles /\ file \in Sources
    BY DEF PassInv, PassTypeOK, Sources
  <1>2. /\ plain \in Paths /\ plain.dir = "logs" /\ plain.hash = NoHash /\ ~plain.tmp
    BY <1>1, CopyType, PathType DEF Dirs
  <1>3. \/ ~Exists(plain) /\ dest = plain
        \/ /\ dest \in Paths /\ dest.dir = "logs" /\ dest.hash = file /\ ~dest.tmp
    BY <1>1, <1>2 DEF SafeCopyName, Paths
  <1> HIDE DEF plain, dest, file
  <1>4. dest \in Paths /\ Owned([path |-> dest, src |-> file])
    BY <1>2, <1>3 DEF Owned
  <1>5. ASSUME NEW e \in listed, e.path = dest  PROVE e.src = file
    <2>1. Owned(e) /\ Exists(e.path)  BY <1>5 DEF PassInv, Kept
    <2> QED BY <1>1, <1>2, <1>3, <1>5, <2>1, EvidenceAssumption DEF Owned
  <1>6. /\ pc = "collect" /\ pc' = "collect"
        /\ Copied(dest, file) \/ CopyFails(dest, file)
        /\ UNCHANGED <<walk, warned>>
        /\ \A n \in matches' : n.file \in LogFiles
        /\ commands' \subseteq Commands /\ ownLogs' \in Seq(AgentFiles)
    BY DEF CollectLog, PassInv, PassTypeOK, dest, file
  <1> QED BY <1>1, <1>4, <1>5, <1>6, CollectorStep

\* EventLogsCollector and DsRegCmdCollector: a name of its own for each child.
LEMMA CommandStep ==
  ASSUME PassInv, NEW c \in Commands, CommandExits(c)  PROVE PassInv'
  <1> DEFINE dest == CommandPath(c)
  <1>1. c \in Sources /\ c \in Names  BY DEF Sources, Names
  <1>2. /\ dest \in Paths /\ dest.dir \in {"root", "event-logs"} /\ dest.name = c
        /\ ~dest.tmp
    BY <1>1, PathType DEF Dirs, CommandPath
  <1> HIDE DEF dest
  <1>3. Owned([path |-> dest, src |-> c])
    BY <1>2 DEF Owned
  <1>4. ASSUME NEW e \in listed, e.path = dest  PROVE e.src = c
    <2>1. Owned(e)  BY <1>4 DEF PassInv
    <2> QED BY <1>2, <1>4, <2>1 DEF Owned
  <1>5. /\ pc = "collect" /\ pc' = "collect"
        /\ Copied(dest, c) \/ CopyFails(dest, c)
        /\ UNCHANGED <<walk, warned>>
        /\ \A n \in matches' : n.file \in LogFiles
        /\ commands' \subseteq Commands /\ ownLogs' \in Seq(AgentFiles)
    BY DEF CommandExits, PassInv, PassTypeOK, dest
  <1> QED BY <1>1, <1>2, <1>3, <1>4, <1>5, CollectorStep

\* AgentLogsCollector: in a directory of its own.
LEMMA OwnLogStep ==
  ASSUME PassInv, CollectOwnLog  PROVE PassInv'
  <1> DEFINE file == Head(ownLogs)
             dest == Path("agent", BundleDestName(file))
  <1>1. file \in AgentFiles /\ file \in Sources /\ Tail(ownLogs) \in Seq(AgentFiles)
    BY DEF PassInv, PassTypeOK, CollectOwnLog, Sources
  <1>2. BundleDestName(file) \in Names
    BY <1>1, CopyType DEF BundleDestName, Names
  <1>3. dest \in Paths /\ dest.dir = "agent" /\ ~dest.tmp
    BY <1>2, PathType DEF Dirs
  <1>4. /\ pc = "collect" /\ pc' = "collect"
        /\ \/ UNCHANGED <<staged, listed, skipped>>
           \/ Copied(dest, file) \/ CopyFails(dest, file)
        /\ walk' = walk /\ warned' = warned /\ matches' = matches /\ commands' = commands
        /\ ownLogs' \in Seq(AgentFiles)
    BY <1>1 DEF CollectOwnLog
  <1> HIDE DEF file, dest
  <1>5. Owned([path |-> dest, src |-> file])
    BY <1>3 DEF Owned
  <1>6. /\ \A n \in matches' : n.file \in LogFiles
        /\ commands' \subseteq Commands
    BY <1>4 DEF PassInv, PassTypeOK
  <1>7. CASE Copied(dest, file) \/ CopyFails(dest, file)
    BY <1>1, <1>3, <1>4, <1>5, <1>6, <1>7, CollectorStep
  <1>8. CASE UNCHANGED <<staged, listed, skipped>>
    BY <1>4, <1>6, <1>8 DEF PassInv, PassTypeOK, Owned, Kept, Accounted, Exists
  <1> QED BY <1>4, <1>7, <1>8

-----------------------------------------------------------------------------
(* The manifest and the redactor.                                          *)

\* The manifest takes no one's place, and the redactor will come to every file.
LEMMA ManifestStep ==
  ASSUME PassInv, WriteManifest  PROVE PassInv'
  <1>1. PICK f \in Files : staged' = [staged EXCEPT ![ManifestPath] = f]
    BY DEF WriteManifest, Files
  <1>2. /\ ManifestPath \in Paths /\ ManifestPath.dir = "root"
        /\ ManifestPath.name = "manifest"
    BY PathType DEF ManifestPath, Dirs, Names
  <1>3. /\ staged \in [Paths -> Files \cup {NoFile}] /\ NoFile \notin Files
    BY EvidenceAssumption DEF PassInv, PassTypeOK
  <1>4. /\ staged' \in [Paths -> Files \cup {NoFile}] /\ staged'[ManifestPath] = f
        /\ \A path \in Paths : path # ManifestPath => staged'[path] = staged[path]
    BY <1>1, <1>2, <1>3
  <1>5. /\ listed' = listed /\ skipped' = skipped /\ warned' = warned
        /\ pc' \in {"redact", "zip"} /\ (Redacting => pc' = "redact")
        /\ walk' = IF Redacting THEN Present \cup {ManifestPath} ELSE {}
        /\ matches' = matches /\ commands' = commands /\ ownLogs' = ownLogs
        /\ pc' = "zip" => walk' = {}
    BY EvidenceAssumption DEF WriteManifest, collectVars
  <1>6. PassTypeOK'
    BY <1>2, <1>3, <1>4, <1>5 DEF PassInv, PassTypeOK, Present, Exists
  <1>7. ASSUME NEW e \in listed  PROVE Owned(e)' /\ Kept(e)'
    <2>1. Owned(e) /\ Kept(e)  BY <1>7 DEF PassInv
    <2>2. e.path # ManifestPath
      BY <1>2, <2>1, EvidenceAssumption DEF Owned, Sources
    <2> QED BY <1>4, <1>5, <2>1, <2>2 DEF Owned, Kept, Exists
  <1>8. ASSUME Redacting, NEW path \in Paths  PROVE Accounted(path)'
    BY <1>4, <1>5, <1>8 DEF Accounted, Exists, Redactable, Present
  <1> QED BY <1>5, <1>6, <1>7, <1>8 DEF PassInv

\* The redactor takes a file up: what is written is no longer raw, what is cut
\* short gets a warning, and only a small file that is not UTF-8 stays raw
\* without one.
LEMMA RedactorStep ==
  ASSUME PassInv, NEW path \in Paths, WalkStep(path)  PROVE PassInv'
  <1> DEFINE tmp == [path EXCEPT !.tmp = TRUE]
             old == staged[path]
  <1>1. /\ pc = "redact" /\ pc' = "redact" /\ path \in walk /\ walk' = walk \ {path}
        /\ listed' = listed /\ skipped' = skipped
        /\ matches' = matches /\ commands' = commands /\ ownLogs' = ownLogs
    BY DEF WalkStep, collectVars
  <1>2. /\ staged \in [Paths -> Files \cup {NoFile}] /\ NoFile \notin Files
        /\ old \in Files
    BY <1>1, EvidenceAssumption DEF PassInv, PassTypeOK, Exists
  <1>3. /\ tmp \in Paths /\ tmp.tmp
    BY DEF Paths
  <1>4. PICK r \in Files : r = [old EXCEPT !.raw = FALSE]
    BY <1>2 DEF Files
  <1>5. PICK c \in Files : c = [old EXCEPT !.raw = FALSE, !.whole = FALSE]
    BY <1>2 DEF Files
  <1>6. /\ r.src = old.src /\ r.whole = old.whole /\ ~r.raw
        /\ c.src = old.src /\ ~c.raw
    BY <1>2, <1>4, <1>5 DEF Files
  <1>7. \/ staged' = staged /\ warned' = warned
             /\ (Redactable(path) => old.mixed /\ ~old.large)
        \/ staged' = staged /\ warned' = warned \cup {path}
        \/ staged' = [staged EXCEPT ![path] = r] /\ warned' = warned
        \/ staged' = [staged EXCEPT ![path] = c] /\ warned' = warned \cup {path}
        \/ staged' = [staged EXCEPT ![tmp] = c] /\ warned' = warned \cup {path}
    BY <1>2, <1>4, <1>5
       DEF WalkStep, RedactFile, RedactFileWhole, RedactFileStreaming, Redacted, RedactionFails
  <1> HIDE DEF tmp, old
  <1>8. PICK at \in Paths, f \in Files \cup {NoFile} :
           /\ staged' = [staged EXCEPT ![at] = f]
           /\ \/ f = staged[at]
              \/ at = path /\ f \in Files /\ f.src = old.src /\ ~f.raw
                   /\ (f.whole = old.whole \/ path \in warned')
              \/ at = tmp /\ f \in Files /\ ~f.raw
           /\ \/ f = r /\ at = path
              \/ path \in warned'
              \/ f = staged[at] /\ (Redactable(path) => old.mixed /\ ~old.large)
    BY <1>2, <1>3, <1>6, <1>7
  <1>9. warned \subseteq warned'
    BY <1>7
  <1>10. /\ staged' \in [Paths -> Files \cup {NoFile}] /\ staged'[at] = f
         /\ \A p \in Paths : p # at => staged'[p] = staged[p]
    BY <1>2, <1>8
  <1>11. \A p \in Paths : staged[p] # NoFile => staged'[p] # NoFile
    BY <1>2, <1>8, <1>10
  <1>12. PassTypeOK'
    BY <1>1, <1>10, <1>11 DEF PassInv, PassTypeOK, Exists
  <1>13. ASSUME NEW e \in listed  PROVE Owned(e)' /\ Kept(e)'
    <2>1. Owned(e) /\ Kept(e) /\ e.path \in Paths /\ e.path # tmp
      BY <1>3, <1>13 DEF PassInv, Owned
    <2>2. CASE e.path = at /\ f # staged[at]
      BY <1>1, <1>2, <1>8, <1>9, <1>10, <2>1, <2>2 DEF Owned, Kept, Exists, old
    <2>3. CASE e.path # at \/ f = staged[at]
      <3>1. staged'[e.path] = staged[e.path]  BY <1>10, <2>1, <2>3
      <3> QED BY <1>1, <1>9, <2>1, <3>1 DEF Owned, Kept, Exists
    <2> QED BY <2>2, <2>3
  <1>14. ASSUME Redacting, NEW p \in Paths  PROVE Accounted(p)'
    <2>1. Accounted(p)  BY <1>1, <1>14 DEF PassInv
    <2>2. CASE staged'[p] = staged[p] /\ p # path
      BY <1>1, <1>9, <2>1, <2>2 DEF Accounted, Exists, Redactable
    <2>3. CASE staged'[p] = staged[p] /\ p = path
      BY <1>1, <1>2, <1>6, <1>8, <1>10, <2>1, <2>3 DEF Accounted, Exists, Redactable, old
    <2>4. CASE staged'[p] # staged[p]
      <3>1. p = at /\ ~staged'[p].raw  BY <1>8, <1>10, <2>4
      <3> QED BY <3>1 DEF Accounted
    <2> QED BY <2>2, <2>3, <2>4
  <1> QED BY <1>1, <1>12, <1>13, <1>14 DEF PassInv

-----------------------------------------------------------------------------

\* A pass starts with an empty directory.
LEMMA PassInit == EvidenceInit => PassInv
  BY EvidenceAssumption DEF EvidenceInit, PassInv, PassTypeOK

\* The end of the walk, the zip, an error.
LEMMA PassEnds ==
  ASSUME PassInv, WalkEnds \/ ZipDirectory \/ PassFails \/ UNCHANGED evidenceVars
  PROVE  PassInv'
  BY DEF WalkEnds, ZipDirectory, PassFails, evidenceVars, collectVars, PassInv, PassTypeOK,
         Owned, Kept, Accounted, Exists

\* The inductive invariant of a collection pass (collectors/).
THEOREM PassInductive == EvidenceSpec => []PassInv
  <1>1. PassInv /\ [EvidenceNext]_evidenceVars => PassInv'
    BY LogStep, CommandStep, OwnLogStep, ManifestStep, RedactorStep, PassEnds
       DEF EvidenceNext
  <1> QED BY PassInit, <1>1, PTL DEF EvidenceSpec

\* What the manifest of a finished bundle lists is there, made of what it says,
\* and whole unless a warning names it: whatever files and names a device has,
\* and wherever a copy, an export or a redaction was cut short.
THEOREM ManifestIsTrue == EvidenceSpec => []ManifestTruth
  <1>1. PassInv => ManifestTruth
    BY DEF PassInv, Kept, ManifestTruth
  <1> QED BY <1>1, PassInductive, PTL

\* With redaction on, no text leaves the device as it was collected but in a
\* file a warning names or in a small one that is not UTF-8 throughout.
THEOREM RawAccounted == EvidenceSpec => []RawIsAccounted
  <1>1. PassInv => RawIsAccounted
    BY DEF PassInv, Accounted, RawIsAccounted, Present
  <1> QED BY <1>1, PassInductive, PTL
=============================================================================
