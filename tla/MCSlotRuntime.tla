--------------------------- MODULE MCSlotRuntime ----------------------------
(* SlotRuntime on small instances.                                         *)
EXTENDS SlotRuntime, TLC

(* Slots, GPUs and requests are interchangeable.                           *)
Symmetries == Permutations(Slots) \cup Permutations(GPUs) \cup Permutations(Requests)
=============================================================================
