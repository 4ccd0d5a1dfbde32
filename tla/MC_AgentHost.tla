--------------------------- MODULE MC_AgentHost -----------------------------
(* Small instances of AgentHost: two override bodies that set a field each,  *)
(* so that a read between two writes may yield a merge that never was;       *)
(* uploads fail under the first.                                             *)
EXTENDS AgentHost

Sets(field) == [f \in Fields |-> IF f = field THEN 1 ELSE Absent]

MCBad == Sets("timeout")
MCBodies == {MCBad, Sets("paths")}
=============================================================================
