------------------------------ MODULE MC_Ingest ------------------------------
(***************************************************************************)
(* Ingest for TLC: two requests in flight, two slots per bundle.           *)
(***************************************************************************)
EXTENDS Ingest, TLC

CONSTANTS r1, r2, d1, d2, c1, c2, u1, u2, s1, s2

MC_Length == [c \in Contents |-> 2]
(* Two payloads under one bundle id, and a request with sizeBytes = 0. *)
MC_Decls == {[sha |-> c, size |-> 2, kind |-> "evidence-zip"] : c \in Contents}
            \cup {[sha |-> c, size |-> 0, kind |-> "evidence-zip"] : c \in Contents}
(* A client that declares one slot more than the bytes it hashed. *)
MC_WrongDecls == {[sha |-> c1, size |-> 2, kind |-> "evidence-zip"]}
MC_ShortLength == [c \in Contents |-> 1]
(* No property reads the responses. *)
MC_View == <<stored, worker, pc, req, locals, acked>>
MC_Symmetry == Permutations(Handlers) \cup Permutations(Devices) \cup Permutations(Contents)
               \cup Permutations(UploadIds)
               \cup Permutations(SessionIds)
=============================================================================
