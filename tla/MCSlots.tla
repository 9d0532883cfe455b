------------------------------- MODULE MCSlots --------------------------------
(***************************************************************************)
(* The life of slots and what is picked for a new one, side by side: a     *)
(* behaviour is one of the two, with the other at its initial state.       *)
(***************************************************************************)
EXTENDS MCSlotRuntime, SlotAllocation
VARIABLE part
mcVars == <<part, vars, allocVars>>

MCInit == Init /\ AllocInit /\ part \in {"life", "allocation"}
MCNext ==
    /\ part' = part
    /\ \/ part = "life" /\ Next /\ UNCHANGED allocVars
       \/ part = "allocation" /\ AllocNext /\ UNCHANGED vars
MCSpec == MCInit /\ [][MCNext]_mcVars

(* Callers are interchangeable too; the GPUs of the allocation have an     *)
(* order.                                                                  *)
MCSymmetries == Symmetries \cup Permutations(Callers)
=============================================================================
