---------------------------- MODULE MC_Evidence -----------------------------
(* Small instances of Evidence: two directories with a log of the same name, *)
(* one small and matched twice, one large with bytes that are not UTF-8; a   *)
(* channel; and the agent's log of two days beside a hand copy of the first. *)
EXTENDS Evidence

Source(name, mixed, large, size, mtime) ==
  [name |-> name, mixed |-> mixed, large |-> large, size |-> size, mtime |-> mtime]

MCDisk ==
  [s \in Sources |->
     CASE s = "small" -> Source("ccmexec", FALSE, FALSE, 1, 0)
       [] s = "big" -> Source("ccmexec", TRUE, TRUE, 1, 0)
       [] s = "System" -> Source("System", TRUE, FALSE, 1, 0)
       [] s = "dsregcmd" -> Source("dsregcmd", FALSE, FALSE, 1, 0)
       [] s = "monday" -> Source("d1", FALSE, FALSE, 1, 2)
       [] s = "copy" -> Source("d1", FALSE, FALSE, 1, 1)
       [] s = "live" -> Source("agent.log", FALSE, FALSE, 2, 3)]

Match(pattern, file) == [pattern |-> pattern, file |-> file]

MCDevices ==
  {[matches |-> {Match(1, "small"), Match(2, "small"), Match(2, "big")},
    commands |-> {}, ownLogs |-> <<>>],
   [matches |-> {Match(2, "big")}, commands |-> Commands, ownLogs |-> <<>>],
   [matches |-> {Match(1, "small")}, commands |-> {}, ownLogs |-> <<"live", "monday", "copy">>]}
=============================================================================
