------------------------------- MODULE MCJobs --------------------------------
(***************************************************************************)
(* What comes to an end: the job runner and the slots side by side.  A     *)
(* behaviour is one of the two, with the other at its initial state, in    *)
(* which fairness asks nothing of it.  The last job of the runner has a    *)
(* key of its own.                                                         *)
(***************************************************************************)
EXTENDS MCJobRunner
CONSTANTS Slots, GPUs, TP, Requests, Kinds, NoReq, MaxTroubles

VARIABLES part, slotRow, slotPc, slotHalt, slotHeld, slotForced,
          cont, req, thr, task, window, excuse, dirty, stuck, troubles

Slot == INSTANCE SlotRuntime WITH row <- slotRow, pc <- slotPc, halt <- slotHalt,
                                  held <- slotHeld, forced <- slotForced

slotVars == <<slotRow, slotPc, slotHalt, slotHeld, slotForced,
              cont, req, thr, task, window, excuse, dirty, stuck, troubles>>
mcVars   == <<part, vars, slotVars>>

MCInit == part \in {"runner", "slots"} /\ Init /\ Slot!Init
MCNext ==
    /\ part' = part
    /\ \/ part = "runner" /\ Next /\ UNCHANGED slotVars
       \/ part = "slots" /\ Slot!Next /\ UNCHANGED vars
MCSpec == MCInit /\ [][MCNext]_mcVars /\ Fairness /\ Slot!Fairness

(* RequestedResolves of SlotRuntime.                                       *)
RequestedResolves == Slot!RequestedResolves
=============================================================================
