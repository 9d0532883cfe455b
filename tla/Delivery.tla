------------------------------ MODULE Delivery -------------------------------
(***************************************************************************)
(* What an export of logs and a report on logs have in common: a row and a *)
(* job, written by transactions of their own, tell how far one piece of    *)
(* work is and what has become of its product, a file or a text.           *)
(*                                                                         *)
(* The row says that the work has succeeded only from the moment when the  *)
(* product is whole.  It may take that back, but only before the job is    *)
(* finished: a job that has succeeded or failed says what the row says,    *)
(* and both are final.  Work may also be cut off, and then its row stays   *)
(* where it was.  However it ends, it leaves no half of a product behind.  *)
(***************************************************************************)
VARIABLES status,  \* of the row
          job,     \* jobs.status
          product, \* "none", "partial" or "whole"
          live     \* whether the work is under way

vars == <<status, job, product, live>>

Init == status = "none" /\ job = "none" /\ product = "none" /\ live = FALSE

Ask == /\ status = "none" /\ status' = "pending"
       /\ UNCHANGED <<job, product, live>>

Start == /\ status = "pending" /\ job = "none"
         /\ job' = "running" /\ live' = TRUE
         /\ UNCHANGED <<status, product>>

Begin == /\ live /\ status = "pending" /\ status' = "running"
         /\ product' \in {"none", "partial"}
         /\ UNCHANGED <<job, live>>

Complete == /\ live /\ product = "partial" /\ product' = "whole"
            /\ UNCHANGED <<status, job, live>>

Discard == /\ live /\ product = "partial" /\ product' = "none"
           /\ UNCHANGED <<status, job, live>>

Succeed == /\ live /\ status = "running"
           /\ status' = "succeeded" /\ product' = "whole"
           /\ UNCHANGED <<job, live>>

Fail == /\ live /\ status \in {"running", "succeeded"} /\ product # "partial"
        /\ status' = "failed"
        /\ UNCHANGED <<job, product, live>>

Finish == /\ live /\ status \in {"succeeded", "failed"}
          /\ job' = status /\ live' = FALSE
          /\ UNCHANGED <<status, product>>

(* A stop of the process, or a transaction that nobody catches: the job    *)
(* may be marked, the row is not.                                          *)
Abort == /\ live /\ live' = FALSE
         /\ job' \in {job, "cancelled"}
         /\ product' = IF product = "partial" THEN "none" ELSE product
         /\ UNCHANGED status

Next == \/ Ask \/ Start \/ Begin \/ Complete \/ Discard
        \/ Succeed \/ Fail \/ Finish \/ Abort

Spec == Init /\ [][Next]_vars
=============================================================================
