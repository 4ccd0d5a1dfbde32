------------------------------ MODULE Delivery ------------------------------
(***************************************************************************)
(* What the upload path promises about a collected bundle, seen from       *)
(* outside the agent and the server: the bytes are somewhere at every      *)
(* moment, the server comes to hold exactly them and never changes or      *)
(* forgets them, and the agent's copy goes only after that.                *)
(***************************************************************************)
CONSTANTS Bundles, ContentOf, Nothing

VARIABLES held,     \* bundles whose zip is in the agent's queue directory
          stored,   \* the bytes of the bundle's session, or Nothing
          settled   \* bundles whose queue entry is Done

DeliveryInit == held = {} /\ settled = {} /\ stored = [b \in Bundles |-> Nothing]

Gather(b) == /\ b \notin held /\ b \notin settled /\ stored[b] = Nothing
             /\ held' = held \cup {b}
             /\ UNCHANGED <<stored, settled>>
Store(b) == /\ b \in held /\ stored[b] = Nothing
            /\ stored' = [stored EXCEPT ![b] = ContentOf[b]]
            /\ UNCHANGED <<held, settled>>
Settle(b) == /\ b \in held /\ stored[b] # Nothing
             /\ settled' = settled \cup {b}
             /\ UNCHANGED <<held, stored>>
Release(b) == /\ b \in held /\ b \in settled
              /\ held' = held \ {b}
              /\ UNCHANGED <<stored, settled>>

DeliveryNext == \E b \in Bundles : Gather(b) \/ Store(b) \/ Settle(b) \/ Release(b)
deliveryVars == <<held, stored, settled>>
DeliverySpec == DeliveryInit /\ [][DeliveryNext]_deliveryVars
=============================================================================
