------------------------------ MODULE Evidence ------------------------------
(* One collection pass of the agent (collectors/): four collectors run side  *)
(* by side and write into a staging directory, each its own part of it; then *)
(* the manifest is written, the redactor rewrites the text files in place,   *)
(* and everything there is goes into the zip for the upload queue.           *)
(*                                                                           *)
(* Of a file the model keeps where it came from, whether it is whole, whether*)
(* it has bytes that are not UTF-8, on which side of the streaming threshold *)
(* it is, and whether its text still is as it was collected.  A pass ends in *)
(* "zipped" or "failed", or never, when a child process does not exit (see   *)
(* AgentHost for what that does to the agent).                               *)
EXTENDS Integers, Sequences

CONSTANTS
  LogFiles,    \* the log files of the device
  Channels,    \* the event-log channels
  AgentFiles,  \* the agent's own log files
  Devices,     \* what a device may have to collect
  Disk,        \* what each source is called and looks like
  Today,       \* current_date_stamp
  Cap,         \* MAX_CUMULATIVE_BYTES
  NoHash,      \* a destination name without a hash
  NoFile,      \* a path of the staging directory where no file is
  Redacting    \* config.redaction.enabled

Commands == Channels \cup {"dsregcmd"}
Sources == LogFiles \cup AgentFiles \cup Commands

\* The staging directory: a file is known by the collector's directory, its name,
\* the hash safe_copy_name may put before it, and the redactor's suffix.
Dirs == {"root", "logs", "event-logs", "agent"}
Names == {Disk[s].name : s \in Sources} \cup Commands \cup {"manifest", Today}
Paths == [dir : Dirs, name : Names, hash : LogFiles \cup {NoHash}, tmp : BOOLEAN]
Files == [src : Sources \cup {"manifest"}, whole : BOOLEAN, mixed : BOOLEAN,
          large : BOOLEAN, raw : BOOLEAN]

\* matches: which pattern of config.log_paths matches which log file; commands:
\* the child processes, on Windows; ownLogs: the agent's log directory, newest
\* first.
ASSUME EvidenceAssumption ==
  /\ \A d \in Devices : /\ \A m \in d.matches : m.file \in LogFiles
                        /\ d.commands \in {{}, Commands}
                        /\ d.ownLogs \in Seq(AgentFiles)
  /\ \A s \in Sources : /\ Disk[s].mixed \in BOOLEAN /\ Disk[s].large \in BOOLEAN
                        /\ Disk[s].size \in Nat /\ Disk[s].mtime \in Nat
  /\ "dsregcmd" \notin Channels /\ "manifest" \notin Sources
  /\ NoHash \notin LogFiles /\ NoFile \notin Files
  /\ Cap \in Nat /\ Redacting \in BOOLEAN

VARIABLES
  pc,        \* where collect_once is
  matches,   \* LogsCollector: the glob entries still to come
  commands,  \* EventLogsCollector, DsRegCmdCollector: the children still to exit
  ownLogs,   \* AgentLogsCollector: the candidates still to copy
  shipped,   \* AgentLogsCollector: cumulative
  staged,    \* the staging directory
  listed,    \* what the collectors return as files, with what each was made of
  walk,      \* the files the redactor has not come to
  skipped,   \* history: where a warning reports a copy or an export that failed
  warned     \* history: where a warning reports a redaction that failed

collectVars == <<matches, commands, ownLogs, shipped>>
evidenceVars == <<pc, collectVars, staged, listed, walk, skipped, warned>>

Path(dir, name) == [dir |-> dir, name |-> name, hash |-> NoHash, tmp |-> FALSE]
ManifestPath == Path("root", "manifest")

Exists(path) == staged[path] # NoFile
Present == {path \in Paths : Exists(path)}

EvidenceInit ==
  /\ pc = "collect"
  /\ \E d \in Devices : matches = d.matches /\ commands = d.commands /\ ownLogs = d.ownLogs
  /\ shipped = 0
  /\ staged = [path \in Paths |-> NoFile]
  /\ listed = {} /\ walk = {} /\ skipped = {} /\ warned = {}

-----------------------------------------------------------------------------
(* The collectors.                                                           *)

\* A source as it is copied whole, and what a copy that was cut short may be:
\* it may be below the threshold, and end within a character.
Copy(src) == [src |-> src, whole |-> TRUE, mixed |-> Disk[src].mixed,
              large |-> Disk[src].large, raw |-> TRUE]
Cut(src) == [src : {src}, whole : {FALSE}, mixed : BOOLEAN,
             large : {FALSE, Disk[src].large}, raw : {TRUE}]

\* The destination is written first, and listed when that went well.
Copied(dest, src) ==
  /\ staged' = [staged EXCEPT ![dest] = Copy(src)]
  /\ listed' = listed \cup {[path |-> dest, src |-> src]}
  /\ UNCHANGED skipped

\* It did not go well: there may be a file, no collector lists it, a warning
\* was logged.  (A collector that gives up before its first source leaves what
\* one leaves that fails at every source without a file.)
CopyFails(dest, src) ==
  /\ \/ UNCHANGED staged
     \/ \E f \in Cut(src) : staged' = [staged EXCEPT ![dest] = f]
  /\ skipped' = skipped \cup {dest}
  /\ UNCHANGED listed

\* Mutant: log files of one name from two directories share a destination.
SafeCopyNamePlain(file) == Path("logs", Disk[file].name)

\* safe_copy_name: the plain name, or one with a hash of the source's path when
\* there is a file of that name.
SafeCopyName(file) ==
  LET plain == Path("logs", Disk[file].name)
  IN  IF Exists(plain) THEN [plain EXCEPT !.hash = file] ELSE plain

\* LogsCollector: one glob entry; a file may match several patterns.
CollectLog(m) ==
  /\ pc = "collect" /\ m \in matches
  /\ matches' = matches \ {m}
  /\ Copied(SafeCopyName(m.file), m.file) \/ CopyFails(SafeCopyName(m.file), m.file)
  /\ UNCHANGED <<pc, commands, ownLogs, shipped, walk, warned>>

\* EventLogsCollector and DsRegCmdCollector: a child process exits.  wevtutil
\* wrote the file itself and is listed when it succeeded; the output of
\* dsregcmd is written out and listed whatever its exit code was.
CommandPath(c) == IF c = "dsregcmd" THEN Path("root", c) ELSE Path("event-logs", c)
CommandExits(c) ==
  /\ pc = "collect" /\ c \in commands
  /\ commands' = commands \ {c}
  /\ Copied(CommandPath(c), c) \/ CopyFails(CommandPath(c), c)
  /\ UNCHANGED <<pc, matches, ownLogs, shipped, walk, warned>>

\* bundle_dest_name: agent.log.DATE and agent-DATE.log both become
\* agent-DATE.log; agent.log is stamped with today's date.
BundleDestName(file) == IF Disk[file].name = "agent.log" THEN Today ELSE Disk[file].name

\* AgentLogsCollector: the newest candidate that is left, unless it does not
\* fit under the cap.
CollectOwnLog ==
  /\ pc = "collect" /\ ownLogs # <<>>
  /\ LET file == Head(ownLogs)
         dest == Path("agent", BundleDestName(file))
         fits == shipped + Disk[file].size <= Cap
     IN  \/ ~fits /\ UNCHANGED <<staged, listed, skipped, shipped>>
         \/ fits /\ Copied(dest, file) /\ shipped' = shipped + Disk[file].size
         \/ fits /\ CopyFails(dest, file) /\ UNCHANGED shipped
  /\ ownLogs' = Tail(ownLogs)
  /\ UNCHANGED <<pc, matches, commands, walk, warned>>

\* collect_once after tokio::join!: all four have ended, and the manifest with
\* what they list is written beside the files.
WriteManifest ==
  /\ pc = "collect"
  /\ matches = {} /\ commands = {} /\ ownLogs = <<>>
  /\ staged' = [staged EXCEPT ![ManifestPath] =
                  [src |-> "manifest", whole |-> TRUE, mixed |-> FALSE,
                   large |-> FALSE, raw |-> TRUE]]
  /\ pc' = IF Redacting THEN "redact" ELSE "zip"
  /\ walk' = IF Redacting THEN Present \cup {ManifestPath} ELSE {}
  /\ UNCHANGED <<collectVars, listed, skipped, warned>>

-----------------------------------------------------------------------------
(* The redactor.                                                             *)

\* redact_staging_dir knows binary formats by extension and the manifest by
\* name.
Redactable(path) == path.dir # "event-logs" /\ path # ManifestPath

Redacted(path) == [staged EXCEPT ![path].raw = FALSE]
RedactionFails(path) == warned' = warned \cup {path}

\* redact_file_whole: a file that is not UTF-8 is left alone without a word; a
\* write that fails leaves what it had written of the redacted text.
RedactFileWhole(path) ==
  \/ staged[path].mixed /\ UNCHANGED <<staged, warned>>
  \/ ~staged[path].mixed /\ staged' = Redacted(path) /\ UNCHANGED warned
  \/ UNCHANGED staged /\ RedactionFails(path)
  \/ /\ ~staged[path].mixed
     /\ staged' = [staged EXCEPT ![path].raw = FALSE, ![path].whole = FALSE]
     /\ RedactionFails(path)

\* redact_file_streaming: line by line into a sibling file that replaces the
\* original at the end; lines that are not UTF-8 pass through.  A failure
\* leaves the original, and what was written of the sibling.
RedactFileStreaming(path) ==
  \/ staged' = Redacted(path) /\ UNCHANGED warned
  \/ /\ RedactionFails(path)
     /\ \/ UNCHANGED staged
        \/ staged' = [staged EXCEPT ![[path EXCEPT !.tmp = TRUE]] =
                         [staged[path] EXCEPT !.whole = FALSE, !.raw = FALSE]]

\* Mutant: a large file with a line that is not UTF-8 is given up like a small one.
RedactFileUniform(path) == RedactFileWhole(path)

\* The size that decides comes with the directory entry.
RedactFile(path) ==
  IF staged[path].large THEN RedactFileStreaming(path) ELSE RedactFileWhole(path)

\* redact_staging_dir comes to a file.  (Should the walk meet a sibling that
\* was left behind, it finds nothing there to redact.)
WalkStep(path) ==
  /\ pc = "redact" /\ path \in walk
  /\ walk' = walk \ {path}
  /\ \/ Redactable(path) /\ RedactFile(path)
     \/ ~Redactable(path) /\ UNCHANGED <<staged, warned>>
  /\ UNCHANGED <<pc, collectVars, listed, skipped>>

WalkEnds ==
  /\ pc = "redact" /\ walk = {}
  /\ pc' = "zip"
  /\ UNCHANGED <<collectVars, staged, listed, walk, skipped, warned>>

-----------------------------------------------------------------------------

\* zip_directory takes every file there is.
ZipDirectory ==
  /\ pc = "zip" /\ pc' = "zipped"
  /\ UNCHANGED <<collectVars, staged, listed, walk, skipped, warned>>

\* collect_once returns an error: the manifest cannot be written, a directory
\* cannot be walked, the zip fails.  The staging directory stays behind.
PassFails ==
  /\ \/ pc = "collect" /\ matches = {} /\ commands = {} /\ ownLogs = <<>>
     \/ pc \in {"redact", "zip"}
  /\ pc' = "failed"
  /\ UNCHANGED <<collectVars, staged, listed, walk, skipped, warned>>

EvidenceNext ==
  \/ \E m \in matches : CollectLog(m)
  \/ \E c \in Commands : CommandExits(c)
  \/ CollectOwnLog \/ WriteManifest
  \/ \E path \in Paths : WalkStep(path)
  \/ WalkEnds \/ ZipDirectory \/ PassFails

EvidenceSpec == EvidenceInit /\ [][EvidenceNext]_evidenceVars

-----------------------------------------------------------------------------
(* Properties.                                                               *)

\* What the manifest of a bundle lists is there and, but for the agent's own
\* logs, is what the collector made it of; it is whole unless a warning names
\* it - although collectors are cut short, one log matches several patterns,
\* logs of one name come from several directories ("so two different
\* ccmexec.log files don't clobber each other", safe_copy_name), and the
\* redactor rewrites everything in place afterwards.
ManifestTruth ==
  pc = "zipped" =>
    \A e \in listed :
      /\ Exists(e.path)
      /\ e.path.dir # "agent" => staged[e.path].src = e.src
      /\ staged[e.path].whole \/ e.path \in skipped \cup warned

\* With redaction on, text leaves the device as it was collected only in a file
\* a warning names, or in a small file that is not UTF-8 throughout: not in one
\* that no collector lists, nor in what a failed rewrite left behind.
RawIsAccounted ==
  pc = "zipped" /\ Redacting =>
    \A path \in Present :
      Redactable(path) /\ staged[path].raw =>
        path \in warned \/ (staged[path].mixed /\ ~staged[path].large)

\* Of the agent's own logs "newest wins" (agent_logs.rs), and an older copy an
\* operator left beside them is "harmless to recognise": the bundle does not
\* hold an older file where a newer one was shipped.
NewestShipped ==
  pc = "zipped" =>
    \A e \in listed : e.path.dir = "agent" =>
      Disk[staged[e.path].src].mtime >= Disk[e.src].mtime
=============================================================================
