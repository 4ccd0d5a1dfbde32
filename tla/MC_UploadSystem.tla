-------------------------- MODULE MC_UploadSystem --------------------------
(***************************************************************************)
(* UploadSystem for TLC: one device, bundles of two slots sent one slot at *)
(* a time.                                                                 *)
(***************************************************************************)
EXTENDS UploadSystem, TLC

CONSTANTS r1, r2, d1, b1, b2, c1, c2, u1, u2, u3, s1, s2, s3

MC_Length == [c \in Contents |-> 2]
MC_ContentOf == (b1 :> c1) @@ (b2 :> c2)
MC_ContentOf1 == b1 :> c1
MC_Decls == {[sha |-> c, size |-> 2, kind |-> "evidence-zip"] : c \in Contents}
(* What the code recovers from without help. *)
BenignFaults == {"lost", "init_body", "chunk_body"}
MC_Symmetry == Permutations(Handlers) \cup Permutations(UploadIds) \cup Permutations(SessionIds)
=============================================================================
