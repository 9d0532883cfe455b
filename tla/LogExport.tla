----------------------------- MODULE LogExport ------------------------------
(***************************************************************************)
(* Export of container logs to a file: POST /log-exports                   *)
(* (api/v1/log_exports.py), the pipeline of services/log_export.py and the *)
(* page it asks of Loki through services/loki_client.py.                   *)
(*                                                                         *)
(* Time is 0..LastNs.  A line is known by its timestamp only: `stored`     *)
(* counts the lines Loki has per timestamp, and the export is the sequence *)
(* of timestamps it has written.  Loki is external; the code takes both    *)
(* ends of a query as inclusive.  The recursion of _export_partition is a  *)
(* stack of windows still to be fetched, the next one on top.              *)
(*                                                                         *)
(* ExportCancelled is left out: nothing in the code sets the job of an     *)
(* export to CANCELLED while its task still runs.                          *)
(***************************************************************************)
EXTENDS Naturals, Sequences, FiniteSets

CONSTANTS LastNs,        \* end of the exported period
          MaxPerNs,      \* bound: lines with one timestamp
          PageLimit,     \* _PAGE_LIMIT
          FallbackLimit, \* _LOKI_FALLBACK_LIMIT
          ServerLimit,   \* max_entries_limit_per_query of the Loki server
          MaxTroubles    \* bound: failing transactions, queries or file
                         \* operations, and stops of the process, together

ASSUME LogExportAssumption ==
    /\ LastNs \in Nat /\ MaxPerNs \in Nat /\ MaxTroubles \in Nat
    /\ PageLimit \in Nat \ {0} /\ FallbackLimit \in Nat \ {0}
    /\ ServerLimit \in Nat
    /\ FallbackLimit < PageLimit /\ FallbackLimit <= ServerLimit

VARIABLES
    stored,  \* lines in Loki, per timestamp
    base,    \* history: stored when the export was asked for
    row,     \* log_exports.status
    job,     \* jobs.status
    pc,      \* where the request and then the pipeline are
    stack,   \* windows still to be fetched, top first
    out,     \* timestamps written so far, in the order of the file
    file,    \* the artifact: no file, the .part file or the final file
    linked,  \* the row names the artifact
    troubles

vars == <<stored, base, row, job, pc, stack, out, file, linked, troubles>>

Ns        == 0..LastNs
RowStates == {"none", "pending", "running", "succeeded", "failed"}
JobStates == {"none", "running", "succeeded", "failed", "cancelled"}
Pcs       == {"idle", "submit", "open", "fetch", "renamed", "linked",
              "failing", "failed", "over"}

Least(a, b) == IF a < b THEN a ELSE b

(* The lines of a window, in time order.                                   *)
Lines(lo, hi) ==
    LET upTo[t \in 0..(hi + 1)] ==
          IF t <= lo THEN <<>> ELSE upTo[t - 1] \o [i \in 1..stored[t - 1] |-> t - 1]
    IN upTo[hi + 1]

Count(seq, t) == Cardinality({i \in 1..Len(seq) : seq[i] = t})

Init == /\ stored \in [Ns -> 0..MaxPerNs]
        /\ base = stored
        /\ row = "none" /\ job = "none" /\ pc = "idle"
        /\ stack = <<>> /\ out = <<>> /\ file = "none" /\ linked = FALSE
        /\ troubles = 0

Trouble == troubles < MaxTroubles /\ troubles' = troubles + 1

-----------------------------------------------------------------------------
(* create_log_export: the row is committed before the job is submitted.    *)
Create ==
    /\ pc = "idle"
    /\ row' = "pending" /\ base' = stored
    /\ pc' = "submit"
    /\ UNCHANGED <<stored, job, stack, out, file, linked, troubles>>

(* The key export:{id} is new, so submit() finds no conflict.  The job     *)
(* starts and reports RUNNING.                                             *)
Submit ==
    /\ pc = "submit"
    /\ job' = "running" /\ pc' = "open"
    /\ UNCHANGED <<stored, base, row, stack, out, file, linked, troubles>>

(* The INSERT of the job raises: the request fails and the row stays.      *)
SubmitFails ==
    /\ pc = "submit" /\ Trouble
    /\ pc' = "over"
    /\ UNCHANGED <<stored, base, row, job, stack, out, file, linked>>

(* The row says RUNNING, the period is read and the .part file is opened.  *)
Open ==
    /\ pc = "open"
    /\ row' = "running"
    /\ stack' = <<[lo |-> 0, hi |-> LastNs]>>
    /\ file' = "part"
    /\ pc' = "fetch"
    /\ UNCHANGED <<stored, base, job, out, linked, troubles>>

(* The first transaction of the pipeline is outside its try block.         *)
OpenFails ==
    /\ pc = "open" /\ Trouble
    /\ pc' = "over"
    /\ UNCHANGED <<stored, base, row, job, stack, out, file, linked>>

(* query_range: a limit the server refuses with 400 is asked again with    *)
(* _LOKI_FALLBACK_LIMIT, and the caller does not learn of it.              *)
Page(w) ==
    LET limit == IF ServerLimit < PageLimit THEN FallbackLimit ELSE PageLimit
        lines == Lines(w.lo, w.hi)
    IN SubSeq(lines, 1, Least(limit, Len(lines)))

(* Mutant: the second half begins where the first one ends.                *)
PartitionOverlaps ==
    LET w    == Head(stack)
        page == Page(w)
        mid  == (w.lo + w.hi) \div 2
    IN
    /\ pc = "fetch" /\ stack # <<>>
    /\ IF Len(page) < PageLimit \/ w.lo = w.hi
         THEN out' = out \o page /\ stack' = Tail(stack)
         ELSE /\ UNCHANGED out
              /\ stack' = <<[lo |-> w.lo, hi |-> mid],
                            [lo |-> IF mid = w.lo THEN mid + 1 ELSE mid, hi |-> w.hi]>>
                          \o Tail(stack)
    /\ UNCHANGED <<stored, base, row, job, pc, file, linked, troubles>>

(* Mutant: a window is halved around a middle that may be its end.         *)
PartitionSticks ==
    LET w    == Head(stack)
        page == Page(w)
        mid  == (w.lo + w.hi + 1) \div 2
    IN
    /\ pc = "fetch" /\ stack # <<>>
    /\ IF Len(page) < PageLimit \/ w.lo = w.hi
         THEN out' = out \o page /\ stack' = Tail(stack)
         ELSE /\ UNCHANGED out
              /\ stack' = (IF mid < w.hi
                             THEN <<[lo |-> w.lo, hi |-> mid], [lo |-> mid + 1, hi |-> w.hi]>>
                             ELSE <<[lo |-> w.lo, hi |-> mid]>>) \o Tail(stack)
    /\ UNCHANGED <<stored, base, row, job, pc, file, linked, troubles>>

(* _export_partition: a page that is not full is written, a full one is    *)
(* dropped and its window halved, until the window is one nanosecond.      *)
Partition ==
    LET w    == Head(stack)
        page == Page(w)
        mid  == (w.lo + w.hi) \div 2
    IN
    /\ pc = "fetch" /\ stack # <<>>
    /\ IF Len(page) < PageLimit \/ w.lo = w.hi
         THEN out' = out \o page /\ stack' = Tail(stack)
         ELSE /\ UNCHANGED out
              /\ stack' = <<[lo |-> w.lo, hi |-> mid], [lo |-> mid + 1, hi |-> w.hi]>>
                          \o Tail(stack)
    /\ UNCHANGED <<stored, base, row, job, pc, file, linked, troubles>>

(* A query, a write or the rename raises: the .part file is removed.       *)
PartitionFails ==
    /\ pc = "fetch" /\ Trouble
    /\ file' = "none"
    /\ stack' = <<>> /\ pc' = "failing"
    /\ UNCHANGED <<stored, base, row, job, out, linked>>

(* Mutant: the row is finished before the file is in place.                *)
RenameAfterRow ==
    /\ pc = "fetch" /\ stack = <<>>
    /\ row' = "succeeded" /\ linked' = TRUE /\ pc' = "renamed"
    /\ UNCHANGED <<stored, base, job, stack, out, file, troubles>>

(* tmp_path.replace(final_path), atomic in the file system.                *)
Rename ==
    /\ pc = "fetch" /\ stack = <<>>
    /\ file' = "final" /\ pc' = "renamed"
    /\ UNCHANGED <<stored, base, row, job, stack, out, linked, troubles>>

(* The row says SUCCEEDED and names the artifact.                          *)
LinkRow ==
    /\ pc = "renamed"
    /\ row' = "succeeded" /\ linked' = TRUE /\ pc' = "linked"
    /\ UNCHANGED <<stored, base, job, stack, out, file, troubles>>

(* A transaction after the rename raises.  The file stays, and with it the *)
(* name in the row if the row was already written.                         *)
LinkFails ==
    /\ pc \in {"renamed", "linked"} /\ Trouble
    /\ pc' = "failing"
    /\ UNCHANGED <<stored, base, row, job, stack, out, file, linked>>

FinalizeJob ==
    /\ pc = "linked"
    /\ job' = "succeeded" /\ pc' = "over"
    /\ UNCHANGED <<stored, base, row, stack, out, file, linked, troubles>>

(* except Exception: the row, then the job, are marked FAILED.             *)
FailRow ==
    /\ pc = "failing"
    /\ row' = "failed" /\ pc' = "failed"
    /\ UNCHANGED <<stored, base, job, stack, out, file, linked, troubles>>

FailJob ==
    /\ pc = "failed"
    /\ job' = "failed" /\ pc' = "over"
    /\ UNCHANGED <<stored, base, row, stack, out, file, linked, troubles>>

(* A transaction of the except branch raises as well; nobody catches it.   *)
FailFails ==
    /\ pc \in {"failing", "failed"} /\ Trouble
    /\ pc' = "over"
    /\ UNCHANGED <<stored, base, row, job, stack, out, file, linked>>

(* The web process is asked to stop: CancelledError is thrown into the     *)
(* task, the .part file goes, and _mark_job_cancelled may still have time. *)
(* The row stays as it is: except Exception does not catch it.             *)
ShutDown ==
    /\ pc \in {"open", "fetch", "renamed", "linked", "failing", "failed"} /\ Trouble
    /\ file' = IF file = "part" THEN "none" ELSE file
    /\ job' \in {job, "cancelled"}
    /\ stack' = <<>> /\ pc' = "over"
    /\ UNCHANGED <<stored, base, row, out, linked>>

(* Lines with a timestamp of the period keep coming in.                    *)
Arrive ==
    /\ pc = "fetch"
    /\ \E t \in Ns : /\ stored[t] < MaxPerNs
                     /\ stored' = [stored EXCEPT ![t] = @ + 1]
    /\ UNCHANGED <<base, row, job, pc, stack, out, file, linked, troubles>>

Progress == \/ Create \/ Submit \/ Open \/ Partition \/ Rename \/ LinkRow
            \/ FinalizeJob \/ FailRow \/ FailJob

Next == \/ Progress \/ SubmitFails \/ OpenFails \/ PartitionFails \/ LinkFails
        \/ FailFails \/ ShutDown \/ Arrive

Spec == Init /\ [][Next]_vars

-----------------------------------------------------------------------------
(* Every variable has its type, and the windows on the stack are disjoint  *)
(* and in time order, the next one first.                                  *)
TypeOK ==
    /\ stored \in [Ns -> 0..MaxPerNs] /\ base \in [Ns -> 0..MaxPerNs]
    /\ row \in RowStates /\ job \in JobStates /\ pc \in Pcs
    /\ stack \in Seq([lo : Ns, hi : Ns])
    /\ \A i \in 1..Len(stack) : /\ stack[i].lo <= stack[i].hi
                                /\ i > 1 => stack[i - 1].hi < stack[i].lo
    /\ out \in Seq(Ns) /\ file \in {"none", "part", "final"} /\ linked \in BOOLEAN
    /\ troubles \in 0..MaxTroubles

(* A finished export has every line that was there when it was asked for,  *)
(* once, and no line Loki never had, in time order although it is written  *)
(* window by window; lines of one nanosecond beyond a page are cut.  Holds *)
(* when the server allows a whole page.  The windows still to be fetched   *)
(* are disjoint and in order on the way.                                   *)
ExportComplete ==
    /\ TypeOK
    /\ \A i \in 2..Len(out) : out[i - 1] <= out[i]
    /\ row = "succeeded" =>
         \A t \in Ns : /\ Count(out, t) >= Least(base[t], PageLimit)
                       /\ Count(out, t) <= stored[t]

(* The export is a Delivery of its file.                                   *)
Exporting == pc \in {"open", "fetch", "renamed", "linked", "failing", "failed"}
Exported  == CASE file = "final" -> "whole" [] file = "part" -> "partial" [] OTHER -> "none"

(* Row, job and file are written one after the other, and any of these     *)
(* steps may fail or be the last one of the process; still the row offers  *)
(* the file only once it is in place, a job that has succeeded or failed   *)
(* says what the row says, for good, and no half-written file outlives the *)
(* pipeline.  It does not say that the row of a pipeline that was cut off  *)
(* ever leaves pending or running: nobody returns to it.                   *)
Export == INSTANCE Delivery WITH status <- row, product <- Exported, live <- Exporting
ExportDelivers == Export!Spec

(* An export that is under way ends: the halving of windows stops, lines   *)
(* that keep coming in do not keep it busy, and the row and the job say    *)
(* how it ended unless transactions failed or the process was stopped.     *)
ExportEnds ==
    row = "pending" ~> \/ row = job /\ row \in {"succeeded", "failed"}
                       \/ troubles > 0 /\ pc = "over"

(* web/CONTRACT.md, 110: cancelling the job interrupts the pipeline, and   *)
(* the export is failed, with an explanation.  ExportCancelled in          *)
(* services/log_export.py is for that.                                     *)
CancelledIsFailed == job = "cancelled" => row = "failed"

(* services/log_export.py, PURPOSE: all lines of the period, without a     *)
(* limit on their number.                                                  *)
ExhaustsAllLines ==
    row = "succeeded" => \A t \in Ns : Count(out, t) >= base[t]
=============================================================================
