---------------------------- MODULE MC_Lifecycle ----------------------------
(***************************************************************************)
(* Lifecycle for TLC: a channel of one place, days of two clock readings.  *)
(***************************************************************************)
EXTENDS Lifecycle

CONSTANTS s1, s2

Zip(logs) == [form |-> "zip", logs |-> logs]

(* Every form, every kind of log file, and enough files to fill the channel
   while one is being inserted and another waits to be sent. *)
MC_Zips ==
    {[form |-> f, logs |-> <<>>] : f \in Forms} \cup
    {Zip(<<"clean", "fallback", "empty">>), Zip(<<"clean", "clean", "broken">>),
     Zip(<<"clean", "undecodable">>), Zip(<<"clean", "panics">>)}
MC_OneZip == {Zip(<<"clean">>)}
=============================================================================
