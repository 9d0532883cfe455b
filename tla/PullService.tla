----------------------------- MODULE PullService -----------------------------
(***************************************************************************)
(* What the control plane promises about the files of a model, without     *)
(* requests, threads or rows: pulls bring them, one pull at a time; what   *)
(* has been brought stays until it is deleted; and a pull reports success  *)
(* only over a complete model.                                             *)
(*                                                                         *)
(* A deletion asks nobody.  It tears the pulls under way, those that have  *)
(* succeeded and not yet said so included, and nothing more is promised of *)
(* them.  Once somebody forces, pulls may overlap.                         *)
(***************************************************************************)
CONSTANTS Files, Pulls

VARIABLES disk,     \* each file is "absent", "partial" or "done"
          fetching, \* pulls at work
          whole,    \* pulls about to report success
          torn,     \* pulls of either kind that files were deleted under
          forced

vars == <<disk, fetching, whole, torn, forced>>

Init == /\ \A f \in Files : disk[f] = "absent"
        /\ fetching = {} /\ whole = {} /\ torn = {} /\ forced = FALSE

Begin(p) == /\ p \notin fetching \cup whole /\ (fetching # {} => forced)
            /\ fetching' = fetching \cup {p}
            /\ UNCHANGED <<disk, whole, torn, forced>>

(* A file begins to arrive, or is there.                                   *)
Arrive(f) ==
    /\ fetching # {}
    /\ <<disk[f], disk'[f]>> \in {<<"absent", "partial">>, <<"partial", "done">>}
    /\ \A g \in Files \ {f} : disk'[g] = disk[g]
    /\ UNCHANGED <<fetching, whole, torn, forced>>

Succeed(p) == /\ p \in fetching
              /\ p \in torn \/ \A f \in Files : disk[f] = "done"
              /\ fetching' = fetching \ {p} /\ whole' = whole \cup {p}
              /\ UNCHANGED <<disk, torn, forced>>

(* A pull fails, or has reported.                                          *)
Leave(p) == /\ p \in fetching \cup whole
            /\ fetching' = fetching \ {p} /\ whole' = whole \ {p} /\ torn' = torn \ {p}
            /\ UNCHANGED <<disk, forced>>

Delete == /\ \A f \in Files : disk'[f] \in {disk[f], "absent"}
          /\ torn' = fetching \cup whole
          /\ UNCHANGED <<fetching, whole, forced>>

(* The job of a pull is cancelled; its files may go on arriving.           *)
Force == /\ forced' = TRUE
         /\ whole' \in {whole} \cup {whole \ {p} : p \in Pulls}
         /\ torn' = torn \cap (fetching \cup whole')
         /\ UNCHANGED <<disk, fetching>>

Crash == fetching' = {} /\ whole' = {} /\ torn' = {} /\ UNCHANGED <<disk, forced>>

Next == \/ \E p \in Pulls : Begin(p) \/ Succeed(p) \/ Leave(p)
        \/ \E f \in Files : Arrive(f)
        \/ Delete \/ Force \/ Crash

Spec == Init /\ [][Next]_vars
=============================================================================
