-------------------------- MODULE ModelPullProofs ---------------------------
(***************************************************************************)
(* Proofs about ModelPull for any set of files and requests and any number *)
(* of operations, failures and crashes, and that it implements             *)
(* PullService.                                                            *)
(***************************************************************************)
EXTENDS ModelPull, TLAPS

USE ModelPullAssumption

(* The download thread of a request follows its coroutine, unless a force  *)
(* stop has cut the two apart, and is over with its files when it is over. *)
Coupled ==
    \A r \in Requests :
        /\ pc[r] \in HttpPcs \ {"idle"} \/ pc[r] \in {"prep", "succeeded", "failed"}
              => thr[r] = "none"
        /\ pc[r] = "fetch" => thr[r] # "none"
        /\ thr[r] \in {"ok", "err"} => pc[r] = "fetch"
        /\ pc[r] = "unwind" \/ (pc[r] = "idle" /\ thr[r] # "none") => forced
        /\ thr[r] # "run" => todo[r] = {} /\ cur[r] = {}

(* The one job on the model holds its lock.                                *)
Alone ==
    ~forced => \A r \in Requests :
                  pc[r] \in JobPcs =>
                      held /\ \A q \in Requests : pc[q] \in JobPcs => q = r

(* What a download has not still before it or in hand is on disk.          *)
Fetched ==
    \A r \in Requests \ deleted, f \in Files :
        /\ thr[r] = "run" => f \in todo[r] \cup cur[r] \/ disk[f] = "done"
        /\ thr[r] = "ok" \/ pc[r] = "succeeded" => disk[f] = "done"

PullIInv == TypeOK /\ Coupled /\ Alone /\ Fetched

-----------------------------------------------------------------------------
(* A scan ends in a status, and not in that of a missing row.              *)
LEMMA ScanIsStatus == Scan \in Statuses \ {"absent"}
BY DEF Scan, Statuses

(* The invariant holds at first.                                           *)
LEMMA PullInit == Init => PullIInv
<1> SUFFICES ASSUME Init PROVE PullIInv
  OBVIOUS
<1>1. TypeOK
  <2>1. dir \in BOOLEAN /\ held \in BOOLEAN /\ forced \in BOOLEAN
    BY DEF Init
  <2>2. /\ disk \in [Files -> {"absent", "partial", "done"}]
        /\ dir \/ \A f \in Files : disk[f] = "absent"
    BY DEF Init
  <2>3. ops \in 0..MaxOps /\ troubles \in 0..MaxTroubles
    BY DEF Init
  <2> QED BY <2>1, <2>2, <2>3 DEF Init, TypeOK, Statuses, HttpPcs, JobPcs, ThrPcs
<1>2. Coupled /\ Alone /\ Fetched
  BY DEF Init, Coupled, Alone, Fetched, HttpPcs, JobPcs
<1> QED BY <1>1, <1>2 DEF PullIInv

(* Every action keeps the types.                                           *)
LEMMA PullTypeStep ==
    ASSUME TypeOK, Coupled, [Next]_vars
    PROVE  TypeOK'
<1> USE DEF TypeOK, Statuses, HttpPcs, JobPcs, ThrPcs,
           reqVars, thrVars, lockVars, Trouble, Goto, Begins, Ends, Result, Downloads
<1>1. ASSUME NEW r \in Requests, Refresh(r) PROVE TypeOK'
  BY <1>1, ScanIsStatus DEF Refresh
<1>2. ASSUME NEW r \in Requests, Create(r) PROVE TypeOK'
  BY <1>2, ScanIsStatus DEF Create
<1>3. ASSUME NEW r \in Requests, Delete(r) PROVE TypeOK'
  <2>1. /\ disk' \in [Files -> {"absent", "partial", "done"}] /\ dir' \in BOOLEAN
        /\ dir' \/ \A f \in Files : disk'[f] = "absent"
    <3>1. CASE UNCHANGED <<dir, disk, deleted>>
      BY <3>1
    <3>2. CASE dir' = FALSE /\ disk' = [f \in Files |-> "absent"]
      BY <3>2
    <3> QED BY <1>3, <3>1, <3>2 DEF Delete
  <2>2. deleted' \subseteq Requests
    BY <1>3 DEF Delete
  <2> QED BY <1>3, <2>1, <2>2 DEF Delete
<1>4. ASSUME NEW r \in Requests, DeleteFails(r) PROVE TypeOK'
  BY <1>4 DEF DeleteFails
<1>5. ASSUME NEW r \in Requests, Pull(r) PROVE TypeOK'
  BY <1>5 DEF Pull
<1>6. ASSUME NEW r \in Requests, ForceStop(r) PROVE TypeOK'
  <2>1. pc' \in [Requests -> HttpPcs \cup JobPcs] /\ thr' \in [Requests -> ThrPcs]
    BY <1>6 DEF ForceStop
  <2>2. \A q \in Requests : pc'[q] \in {"pull", "marked", "delete", "halt"} => seen'[q] # "absent"
    BY <1>6 DEF ForceStop
  <2>3. seen' \in [Requests -> Statuses] /\ ops' \in 0..MaxOps
    BY <1>6 DEF ForceStop
  <2> QED BY <1>6, <2>1, <2>2, <2>3 DEF ForceStop
<1>7. ASSUME NEW r \in Requests, WriteBack(r) PROVE TypeOK'
  BY <1>7 DEF WriteBack
<1>8. ASSUME NEW r \in Requests, DeleteRow(r) PROVE TypeOK'
  BY <1>8 DEF DeleteRow
<1>9. ASSUME NEW r \in Requests, PullMark(r) PROVE TypeOK'
  BY <1>9 DEF PullMark
<1>10. ASSUME NEW r \in Requests, PullGone(r) PROVE TypeOK'
  BY <1>10 DEF PullGone
<1>11. ASSUME NEW r \in Requests, PullSubmit(r) PROVE TypeOK'
  BY <1>11 DEF PullSubmit
<1>12. ASSUME NEW r \in Requests, PullConflict(r) PROVE TypeOK'
  BY <1>12 DEF PullConflict
<1>13. ASSUME NEW r \in Requests, ForceRefresh(r) PROVE TypeOK'
  BY <1>13, ScanIsStatus DEF ForceRefresh
<1>14. ASSUME NEW r \in Requests, JobStart(r) PROVE TypeOK'
  BY <1>14 DEF JobStart
<1>15. ASSUME NEW r \in Requests, JobFetched(r) PROVE TypeOK'
  BY <1>15 DEF JobFetched
<1>16. ASSUME NEW r \in Requests, JobEnds(r) PROVE TypeOK'
  BY <1>16 DEF JobEnds
<1>17. ASSUME NEW r \in Requests, JobPrepFails(r) PROVE TypeOK'
  BY <1>17 DEF JobPrepFails
<1>18. ASSUME NEW r \in Requests, ThreadDone(r) PROVE TypeOK'
  BY <1>18 DEF ThreadDone
<1>19. ASSUME NEW r \in Requests, ThreadFails(r) PROVE TypeOK'
  BY <1>19 DEF ThreadFails
<1>20. ASSUME NEW r \in Requests, NEW f \in Files, FetchSkip(r, f) PROVE TypeOK'
  BY <1>20 DEF FetchSkip
<1>21. ASSUME NEW r \in Requests, NEW f \in Files, FetchBegin(r, f) PROVE TypeOK'
  BY <1>21 DEF FetchBegin
<1>22. ASSUME NEW r \in Requests, NEW f \in Files, FetchEnd(r, f) PROVE TypeOK'
  BY <1>22 DEF FetchEnd
<1>23. ASSUME NEW r \in Requests, NEW f \in Files, FetchGone(r, f) PROVE TypeOK'
  BY <1>23 DEF FetchGone
<1>24. CASE Crash
  <2>1. /\ pc' \in [Requests -> HttpPcs \cup JobPcs] /\ thr' \in [Requests -> ThrPcs]
        /\ \A r \in Requests : pc'[r] = "idle"
    BY <1>24 DEF Crash
  <2>2. /\ seen' \in [Requests -> Statuses] /\ found' \in [Requests -> Statuses]
        /\ todo' \in [Requests -> SUBSET Files] /\ cur' \in [Requests -> SUBSET Files]
    BY <1>24 DEF Crash
  <2>3. troubles' \in 0..MaxTroubles
    BY <1>24 DEF Crash
  <2>4. held' \in BOOLEAN /\ task' \in Requests \cup {NoReq}
    BY <1>24 DEF Crash
  <2> QED BY <1>24, <2>1, <2>2, <2>3, <2>4 DEF Crash
<1>25. CASE UNCHANGED vars
  BY <1>25 DEF vars
<1> QED
  BY <1>1, <1>2, <1>3, <1>4, <1>5, <1>6, <1>7, <1>8, <1>9, <1>10, <1>11, <1>12, <1>13,
     <1>14, <1>15, <1>16, <1>17, <1>18, <1>19, <1>20, <1>21, <1>22, <1>23, <1>24, <1>25
  DEF Next, HttpProgress, JobProgress, Fetch

(* Coroutines and threads move together.                                   *)
LEMMA CoupledStep ==
    ASSUME TypeOK, Coupled, [Next]_vars
    PROVE  Coupled'
<1> USE DEF TypeOK, Statuses, HttpPcs, JobPcs, ThrPcs, Coupled,
           reqVars, thrVars, lockVars, Trouble, Goto, Begins, Ends, Result, Downloads
<1>1. ASSUME NEW r \in Requests, Refresh(r) PROVE Coupled'
  BY <1>1 DEF Refresh
<1>2. ASSUME NEW r \in Requests, Create(r) PROVE Coupled'
  BY <1>2 DEF Create
<1>3. ASSUME NEW r \in Requests, Delete(r) PROVE Coupled'
  BY <1>3 DEF Delete
<1>4. ASSUME NEW r \in Requests, DeleteFails(r) PROVE Coupled'
  BY <1>4 DEF DeleteFails
<1>5. ASSUME NEW r \in Requests, Pull(r) PROVE Coupled'
  BY <1>5 DEF Pull
<1>6. ASSUME NEW r \in Requests, ForceStop(r) PROVE Coupled'
  BY <1>6 DEF ForceStop
<1>7. ASSUME NEW r \in Requests, WriteBack(r) PROVE Coupled'
  BY <1>7 DEF WriteBack
<1>8. ASSUME NEW r \in Requests, DeleteRow(r) PROVE Coupled'
  BY <1>8 DEF DeleteRow
<1>9. ASSUME NEW r \in Requests, PullMark(r) PROVE Coupled'
  BY <1>9 DEF PullMark
<1>10. ASSUME NEW r \in Requests, PullGone(r) PROVE Coupled'
  BY <1>10 DEF PullGone
<1>11. ASSUME NEW r \in Requests, PullSubmit(r) PROVE Coupled'
  BY <1>11 DEF PullSubmit
<1>12. ASSUME NEW r \in Requests, PullConflict(r) PROVE Coupled'
  BY <1>12 DEF PullConflict
<1>13. ASSUME NEW r \in Requests, ForceRefresh(r) PROVE Coupled'
  BY <1>13 DEF ForceRefresh
<1>14. ASSUME NEW r \in Requests, JobStart(r) PROVE Coupled'
  BY <1>14 DEF JobStart
<1>15. ASSUME NEW r \in Requests, JobFetched(r) PROVE Coupled'
  BY <1>15 DEF JobFetched
<1>16. ASSUME NEW r \in Requests, JobEnds(r) PROVE Coupled'
  BY <1>16 DEF JobEnds
<1>17. ASSUME NEW r \in Requests, JobPrepFails(r) PROVE Coupled'
  BY <1>17 DEF JobPrepFails
<1>18. ASSUME NEW r \in Requests, ThreadDone(r) PROVE Coupled'
  BY <1>18 DEF ThreadDone
<1>19. ASSUME NEW r \in Requests, ThreadFails(r) PROVE Coupled'
  BY <1>19 DEF ThreadFails
<1>20. ASSUME NEW r \in Requests, NEW f \in Files, FetchSkip(r, f) PROVE Coupled'
  BY <1>20 DEF FetchSkip
<1>21. ASSUME NEW r \in Requests, NEW f \in Files, FetchBegin(r, f) PROVE Coupled'
  BY <1>21 DEF FetchBegin
<1>22. ASSUME NEW r \in Requests, NEW f \in Files, FetchEnd(r, f) PROVE Coupled'
  BY <1>22 DEF FetchEnd
<1>23. ASSUME NEW r \in Requests, NEW f \in Files, FetchGone(r, f) PROVE Coupled'
  BY <1>23 DEF FetchGone
<1>24. CASE Crash
  BY <1>24 DEF Crash
<1>25. CASE UNCHANGED vars
  BY <1>25 DEF vars
<1> QED
  BY <1>1, <1>2, <1>3, <1>4, <1>5, <1>6, <1>7, <1>8, <1>9, <1>10, <1>11, <1>12, <1>13,
     <1>14, <1>15, <1>16, <1>17, <1>18, <1>19, <1>20, <1>21, <1>22, <1>23, <1>24, <1>25
  DEF Next, HttpProgress, JobProgress, Fetch

(* A pull job begins only when the lock is free.                           *)
LEMMA AloneStep ==
    ASSUME TypeOK, Coupled, Alone, [Next]_vars
    PROVE  Alone'
<1> USE DEF TypeOK, Statuses, HttpPcs, JobPcs, ThrPcs, Coupled, Alone,
           reqVars, thrVars, lockVars, Trouble, Goto, Begins, Ends, Result, Downloads
<1>1. ASSUME NEW r \in Requests, Refresh(r) PROVE Alone'
  BY <1>1 DEF Refresh
<1>2. ASSUME NEW r \in Requests, Create(r) PROVE Alone'
  BY <1>2 DEF Create
<1>3. ASSUME NEW r \in Requests, Delete(r) PROVE Alone'
  BY <1>3 DEF Delete
<1>4. ASSUME NEW r \in Requests, DeleteFails(r) PROVE Alone'
  BY <1>4 DEF DeleteFails
<1>5. ASSUME NEW r \in Requests, Pull(r) PROVE Alone'
  BY <1>5 DEF Pull
<1>6. ASSUME NEW r \in Requests, ForceStop(r) PROVE Alone'
  BY <1>6 DEF ForceStop
<1>7. ASSUME NEW r \in Requests, WriteBack(r) PROVE Alone'
  BY <1>7 DEF WriteBack
<1>8. ASSUME NEW r \in Requests, DeleteRow(r) PROVE Alone'
  BY <1>8 DEF DeleteRow
<1>9. ASSUME NEW r \in Requests, PullMark(r) PROVE Alone'
  BY <1>9 DEF PullMark
<1>10. ASSUME NEW r \in Requests, PullGone(r) PROVE Alone'
  BY <1>10 DEF PullGone
<1>11. ASSUME NEW r \in Requests, PullSubmit(r) PROVE Alone'
  BY <1>11 DEF PullSubmit
<1>12. ASSUME NEW r \in Requests, PullConflict(r) PROVE Alone'
  BY <1>12 DEF PullConflict
<1>13. ASSUME NEW r \in Requests, ForceRefresh(r) PROVE Alone'
  BY <1>13 DEF ForceRefresh
<1>14. ASSUME NEW r \in Requests, JobStart(r) PROVE Alone'
  BY <1>14 DEF JobStart
<1>15. ASSUME NEW r \in Requests, JobFetched(r) PROVE Alone'
  BY <1>15 DEF JobFetched
<1>16. ASSUME NEW r \in Requests, JobEnds(r) PROVE Alone'
  BY <1>16 DEF JobEnds
<1>17. ASSUME NEW r \in Requests, JobPrepFails(r) PROVE Alone'
  BY <1>17 DEF JobPrepFails
<1>18. ASSUME NEW r \in Requests, ThreadDone(r) PROVE Alone'
  BY <1>18 DEF ThreadDone
<1>19. ASSUME NEW r \in Requests, ThreadFails(r) PROVE Alone'
  BY <1>19 DEF ThreadFails
<1>20. ASSUME NEW r \in Requests, NEW f \in Files, FetchSkip(r, f) PROVE Alone'
  BY <1>20 DEF FetchSkip
<1>21. ASSUME NEW r \in Requests, NEW f \in Files, FetchBegin(r, f) PROVE Alone'
  BY <1>21 DEF FetchBegin
<1>22. ASSUME NEW r \in Requests, NEW f \in Files, FetchEnd(r, f) PROVE Alone'
  BY <1>22 DEF FetchEnd
<1>23. ASSUME NEW r \in Requests, NEW f \in Files, FetchGone(r, f) PROVE Alone'
  BY <1>23 DEF FetchGone
<1>24. CASE Crash
  BY <1>24 DEF Crash
<1>25. CASE UNCHANGED vars
  BY <1>25 DEF vars
<1> QED
  BY <1>1, <1>2, <1>3, <1>4, <1>5, <1>6, <1>7, <1>8, <1>9, <1>10, <1>11, <1>12, <1>13,
     <1>14, <1>15, <1>16, <1>17, <1>18, <1>19, <1>20, <1>21, <1>22, <1>23, <1>24, <1>25
  DEF Next, HttpProgress, JobProgress, Fetch

(* Files that are done stay, or the download is known to have lost them.   *)
LEMMA FetchedStep ==
    ASSUME TypeOK, Coupled, Fetched, [Next]_vars
    PROVE  Fetched'
<1> USE DEF TypeOK, Statuses, HttpPcs, JobPcs, ThrPcs, Coupled, Fetched,
           reqVars, thrVars, lockVars, Trouble, Goto, Begins, Ends, Result, Downloads
<1>1. ASSUME NEW r \in Requests, Refresh(r) PROVE Fetched'
  BY <1>1 DEF Refresh
<1>2. ASSUME NEW r \in Requests, Create(r) PROVE Fetched'
  BY <1>2 DEF Create
<1>3. ASSUME NEW r \in Requests, Delete(r) PROVE Fetched'
  BY <1>3 DEF Delete
<1>4. ASSUME NEW r \in Requests, DeleteFails(r) PROVE Fetched'
  BY <1>4 DEF DeleteFails
<1>5. ASSUME NEW r \in Requests, Pull(r) PROVE Fetched'
  BY <1>5 DEF Pull
<1>6. ASSUME NEW r \in Requests, ForceStop(r) PROVE Fetched'
  BY <1>6 DEF ForceStop
<1>7. ASSUME NEW r \in Requests, WriteBack(r) PROVE Fetched'
  BY <1>7 DEF WriteBack
<1>8. ASSUME NEW r \in Requests, DeleteRow(r) PROVE Fetched'
  BY <1>8 DEF DeleteRow
<1>9. ASSUME NEW r \in Requests, PullMark(r) PROVE Fetched'
  BY <1>9 DEF PullMark
<1>10. ASSUME NEW r \in Requests, PullGone(r) PROVE Fetched'
  BY <1>10 DEF PullGone
<1>11. ASSUME NEW r \in Requests, PullSubmit(r) PROVE Fetched'
  BY <1>11 DEF PullSubmit
<1>12. ASSUME NEW r \in Requests, PullConflict(r) PROVE Fetched'
  BY <1>12 DEF PullConflict
<1>13. ASSUME NEW r \in Requests, ForceRefresh(r) PROVE Fetched'
  BY <1>13 DEF ForceRefresh
<1>14. ASSUME NEW r \in Requests, JobStart(r) PROVE Fetched'
  BY <1>14 DEF JobStart
<1>15. ASSUME NEW r \in Requests, JobFetched(r) PROVE Fetched'
  BY <1>15 DEF JobFetched
<1>16. ASSUME NEW r \in Requests, JobEnds(r) PROVE Fetched'
  BY <1>16 DEF JobEnds
<1>17. ASSUME NEW r \in Requests, JobPrepFails(r) PROVE Fetched'
  BY <1>17 DEF JobPrepFails
<1>18. ASSUME NEW r \in Requests, ThreadDone(r) PROVE Fetched'
  BY <1>18 DEF ThreadDone
<1>19. ASSUME NEW r \in Requests, ThreadFails(r) PROVE Fetched'
  BY <1>19 DEF ThreadFails
<1>20. ASSUME NEW r \in Requests, NEW f \in Files, FetchSkip(r, f) PROVE Fetched'
  BY <1>20 DEF FetchSkip
<1>21. ASSUME NEW r \in Requests, NEW f \in Files, FetchBegin(r, f) PROVE Fetched'
  BY <1>21 DEF FetchBegin
<1>22. ASSUME NEW r \in Requests, NEW f \in Files, FetchEnd(r, f) PROVE Fetched'
  BY <1>22 DEF FetchEnd
<1>23. ASSUME NEW r \in Requests, NEW f \in Files, FetchGone(r, f) PROVE Fetched'
  BY <1>23 DEF FetchGone
<1>24. CASE Crash
  BY <1>24 DEF Crash
<1>25. CASE UNCHANGED vars
  BY <1>25 DEF vars
<1> QED
  BY <1>1, <1>2, <1>3, <1>4, <1>5, <1>6, <1>7, <1>8, <1>9, <1>10, <1>11, <1>12, <1>13,
     <1>14, <1>15, <1>16, <1>17, <1>18, <1>19, <1>20, <1>21, <1>22, <1>23, <1>24, <1>25
  DEF Next, HttpProgress, JobProgress, Fetch

(* The parts together are inductive.                                       *)
LEMMA PullStep == PullIInv /\ [Next]_vars => PullIInv'
BY PullTypeStep, CoupledStep, AloneStep, FetchedStep DEF PullIInv

(* The invariant holds in every reachable state.                           *)
THEOREM PullIInvHolds == Spec => []PullIInv
BY PullInit, PullStep, PTL DEF Spec

(* Until somebody forces, no two threads write into the directory.         *)
OneFetcher == \A q, r \in Requests : thr[q] = "run" /\ thr[r] = "run" /\ q # r => forced

(* The lock ("model", hf_id) keeps two downloads of a model apart until a  *)
(* force stop lets it go.                                                  *)
THEOREM OneFetcherHolds == Spec => []OneFetcher
<1>1. PullIInv => OneFetcher
  BY DEF PullIInv, OneFetcher, TypeOK, Coupled, Alone, HttpPcs, JobPcs
<1> QED BY <1>1, PullIInvHolds, PTL

(* A pull that reports success has left every file of the model on disk,   *)
(* unless files were deleted under it.                                     *)
THEOREM SucceededPullHolds == Spec => []SucceededPullIsComplete
<1>1. PullIInv => SucceededPullIsComplete
  BY DEF PullIInv, SucceededPullIsComplete, Fetched
<1> QED BY <1>1, PullIInvHolds, PTL

-----------------------------------------------------------------------------
(* ModelPull implements PullService.                                       *)

(* What PullService sees of the requests depends on their threads and on   *)
(* who has succeeded.                                                      *)
SameView ==
    /\ Fetching' = Fetching /\ Whole' = Whole
    /\ UNCHANGED <<deleted, forced>>

(* Nothing is seen to happen.                                              *)
LEMMA UnseenStep ==
    ASSUME SameView, disk' = disk
    PROVE  UNCHANGED Service!vars
BY DEF SameView, Service!vars

(* The rows and requests of the registry, and a job between its threads.   *)
LEMMA UnseenActions ==
    ASSUME PullIInv, NEW r \in Requests,
           \/ Refresh(r) \/ Create(r) \/ Pull(r) \/ WriteBack(r) \/ DeleteRow(r) \/ PullMark(r)
           \/ PullGone(r) \/ PullSubmit(r) \/ PullConflict(r) \/ ForceRefresh(r)
           \/ JobPrepFails(r) \/ JobFetched(r)
    PROVE  UNCHANGED Service!vars
<1> SUFFICES SameView /\ disk' = disk
  BY UnseenStep
<1> USE DEF PullIInv, TypeOK, Coupled, SameView, Fetching, Whole, HttpPcs, JobPcs, ThrPcs,
           reqVars, thrVars, lockVars, Goto, Begins, Ends
<1>1. CASE Refresh(r)
  BY <1>1 DEF Refresh
<1>2. CASE Create(r)
  BY <1>2 DEF Create
<1>3. CASE Pull(r)
  BY <1>3 DEF Pull
<1>4. CASE WriteBack(r)
  BY <1>4 DEF WriteBack
<1>5. CASE DeleteRow(r)
  BY <1>5 DEF DeleteRow
<1>6. CASE PullMark(r)
  BY <1>6 DEF PullMark
<1>7. CASE PullGone(r)
  BY <1>7 DEF PullGone
<1>8. CASE PullSubmit(r)
  BY <1>8 DEF PullSubmit
<1>9. CASE PullConflict(r)
  BY <1>9 DEF PullConflict
<1>10. CASE ForceRefresh(r)
  BY <1>10 DEF ForceRefresh
<1>11. CASE JobPrepFails(r)
  BY <1>11 DEF JobPrepFails
<1>12. CASE JobFetched(r)
  BY <1>12 DEF JobFetched
<1> QED BY <1>1, <1>2, <1>3, <1>4, <1>5, <1>6, <1>7, <1>8, <1>9, <1>10, <1>11, <1>12

(* A job starts its thread, alone unless somebody has forced.              *)
LEMMA BeginStep ==
    ASSUME PullIInv, NEW r \in Requests, JobStart(r)
    PROVE  Service!Next
<1> USE DEF PullIInv, TypeOK, Fetching, Whole
<1>1. thr[r] = "none" /\ pc[r] = "prep"
  BY DEF JobStart, Coupled
<1>2. r \notin Fetching \cup Whole
  BY <1>1
<1>3. Fetching # {} => forced
  <2> SUFFICES ASSUME NEW q \in Requests, thr[q] = "run", ~forced PROVE FALSE
    OBVIOUS
  <2>1. pc[q] = "fetch"
    BY DEF Coupled, HttpPcs, JobPcs
  <2> QED BY <1>1, <2>1 DEF Alone, JobPcs
<1>4. Fetching' = Fetching \cup {r} /\ Whole' = Whole
  BY <1>1 DEF JobStart, Goto
<1>5. (deleted \cap (Fetching \cup Whole))' = deleted \cap (Fetching \cup Whole)
  <2>1. deleted' = deleted \ {r}
    BY DEF JobStart
  <2> QED BY <1>2, <1>4, <2>1
<1>6. disk' = disk /\ forced' = forced
  BY DEF JobStart
<1> HIDE DEF Fetching, Whole
<1> QED BY <1>2, <1>3, <1>4, <1>5, <1>6 DEF Service!Next, Service!Begin

(* A file begins to arrive, or has arrived.                                *)
LEMMA ArriveStep ==
    ASSUME PullIInv, NEW r \in Requests, NEW f \in Files, FetchBegin(r, f) \/ FetchEnd(r, f)
    PROVE  [Service!Next]_Service!vars
<1>1. SameView /\ r \in Fetching
  BY DEF FetchBegin, FetchEnd, Downloads, reqVars, SameView, Fetching, Whole
<1>2. /\ \A g \in Files \ {f} : disk'[g] = disk[g]
      /\ \/ disk' = disk
         \/ disk[f] = "absent" /\ disk'[f] = "partial"
         \/ disk[f] = "partial" /\ disk'[f] = "done"
  BY DEF FetchBegin, FetchEnd, PullIInv, TypeOK
<1>3. CASE disk' = disk
  BY <1>1, <1>3, UnseenStep
<1>4. CASE disk' # disk
  BY <1>1, <1>2, <1>4 DEF SameView, Service!Next, Service!Arrive
<1> QED BY <1>3, <1>4

(* A thread is over, and its job, if it has one, hears how.                *)
LEMMA ResultStep ==
    ASSUME PullIInv, NEW r \in Requests,
           ThreadDone(r) \/ ThreadFails(r) \/ \E f \in Files : FetchGone(r, f)
    PROVE  Service!Next
<1>1. /\ r \in Fetching /\ disk' = disk /\ pc' = pc /\ UNCHANGED <<deleted, forced>>
      /\ pc[r] # "succeeded"
  BY DEF ThreadDone, ThreadFails, FetchGone, Downloads, reqVars, Fetching, PullIInv, Coupled
<1>2. CASE ThreadDone(r) /\ pc[r] = "fetch"
  <2>1. thr' = [thr EXCEPT ![r] = "ok"]
    BY <1>2 DEF ThreadDone, Result
  <2>2. Fetching' = Fetching \ {r} /\ Whole' = Whole \cup {r}
    BY <1>1, <2>1 DEF Fetching, Whole, PullIInv, TypeOK
  <2>3. r \in deleted \/ \A f \in Files : disk[f] = "done"
    BY <1>1, <1>2 DEF ThreadDone, Fetching, PullIInv, Fetched
  <2>4. (deleted \cap (Fetching \cup Whole))' = deleted \cap (Fetching \cup Whole)
    BY <1>1, <2>2
  <2> QED BY <1>1, <2>2, <2>3, <2>4 DEF Service!Next, Service!Succeed
<1>3. CASE ~(ThreadDone(r) /\ pc[r] = "fetch")
  <2>1. \E x \in {"err", "none"} : thr' = [thr EXCEPT ![r] = x]
    BY <1>3 DEF ThreadDone, ThreadFails, FetchGone, Result
  <2>2. Fetching' = Fetching \ {r} /\ Whole' = Whole \ {r}
    BY <1>1, <2>1 DEF Fetching, Whole, PullIInv, TypeOK
  <2>3. (deleted \cap (Fetching \cup Whole))' = (deleted \cap (Fetching \cup Whole)) \ {r}
    BY <1>1, <2>2
  <2> QED BY <1>1, <2>2, <2>3 DEF Service!Next, Service!Leave
<1> QED BY <1>2, <1>3

(* A job that has succeeded leaves; others have left before.               *)
LEMMA ReportedStep ==
    ASSUME PullIInv, NEW r \in Requests, JobEnds(r)
    PROVE  [Service!Next]_Service!vars
<1>1. /\ disk' = disk /\ thr' = thr /\ UNCHANGED <<deleted, forced>>
      /\ pc' = [pc EXCEPT ![r] = "idle"]
      /\ pc[r] \in {"succeeded", "failed", "unwind"} /\ thr[r] # "ok"
  BY DEF JobEnds, Ends, Goto, thrVars, PullIInv, Coupled
<1>2. CASE pc[r] = "succeeded"
  <2>1. /\ Fetching' = Fetching \ {r} /\ Whole' = Whole \ {r} /\ r \in Whole
    BY <1>1, <1>2 DEF Fetching, Whole, PullIInv, TypeOK, Coupled
  <2>2. (deleted \cap (Fetching \cup Whole))' = (deleted \cap (Fetching \cup Whole)) \ {r}
    BY <1>1, <2>1
  <2> QED BY <1>1, <2>1, <2>2 DEF Service!Next, Service!Leave
<1>3. CASE pc[r] # "succeeded"
  <2>1. Fetching' = Fetching /\ Whole' = Whole
    BY <1>1, <1>3 DEF Fetching, Whole, PullIInv, TypeOK
  <2> QED BY <1>1, <2>1, UnseenStep DEF SameView
<1> QED BY <1>2, <1>3

(* A deletion that comes through, fails half way, or keeps the files.      *)
LEMMA DeletionStep ==
    ASSUME PullIInv, NEW r \in Requests, Delete(r) \/ DeleteFails(r)
    PROVE  [Service!Next]_Service!vars
<1>1. Fetching' = Fetching /\ Whole' = Whole /\ forced' = forced
  BY DEF Delete, DeleteFails, Begins, Goto, thrVars, reqVars, Fetching, Whole, PullIInv, TypeOK
<1>2. CASE UNCHANGED <<disk, deleted>>
  BY <1>1, <1>2, UnseenStep DEF SameView
<1>3. CASE ~UNCHANGED <<disk, deleted>>
  <2>1. deleted' = {q \in Requests : thr[q] # "none" \/ pc[q] = "succeeded"}
    BY <1>3 DEF Delete, DeleteFails
  <2>2. \A f \in Files : disk'[f] \in {disk[f], "absent"}
    BY <1>3 DEF Delete, DeleteFails
  <2>3. (deleted \cap (Fetching \cup Whole))' = Fetching \cup Whole
    BY <1>1, <2>1 DEF Fetching, Whole
  <2> QED BY <1>1, <2>2, <2>3 DEF Service!Next, Service!Delete
<1> QED BY <1>2, <1>3

(* A force stop takes success from one pull at most.                       *)
LEMMA ForceStopStep ==
    ASSUME PullIInv, NEW r \in Requests, ForceStop(r)
    PROVE  Service!Next
<1> DEFINE victim == {q \in Requests : task = q /\ pc[q] \in JobPcs}
<1>1. /\ disk' = disk /\ forced' = TRUE /\ deleted' = deleted
      /\ pc[r] = "idle" /\ thr[r] = "none"
      /\ pc' = [q \in Requests |-> IF q = r THEN "halt" ELSE IF q \in victim THEN "unwind" ELSE pc[q]]
      /\ thr' = [q \in Requests |-> IF q \in victim /\ thr[q] # "run" THEN "none" ELSE thr[q]]
  BY DEF ForceStop
<1>2. Fetching' = Fetching
  BY <1>1 DEF Fetching
<1>3. Whole' = Whole \ victim
  BY <1>1 DEF Whole
<1>4. victim = {} \/ \E p \in Requests : victim = {p}
  <2>1. CASE \E p \in Requests : task = p /\ pc[p] \in JobPcs
    BY <2>1
  <2>2. CASE ~\E p \in Requests : task = p /\ pc[p] \in JobPcs
    BY <2>2
  <2> QED BY <2>1, <2>2
<1> HIDE DEF victim
<1>5. Whole' \in {Whole} \cup {Whole \ {p} : p \in Requests}
  BY <1>3, <1>4
<1>6. (deleted \cap (Fetching \cup Whole))' = deleted \cap (Fetching \cup Whole) \cap (Fetching \cup Whole')
  BY <1>1, <1>2, <1>3
<1> QED BY <1>1, <1>2, <1>5, <1>6 DEF Service!Next, Service!Force

(* Every step is one of PullService, or none.                              *)
LEMMA PullServiceStep ==
    ASSUME PullIInv, [Next]_vars
    PROVE  [Service!Next]_Service!vars
<1>1. CASE UNCHANGED vars
  BY <1>1, UnseenStep DEF vars, reqVars, thrVars, SameView, Fetching, Whole
<1>2. CASE Crash
  <2>1. Fetching' = {} /\ Whole' = {} /\ disk' = disk /\ forced' = forced
    BY <1>2 DEF Crash, Fetching, Whole
  <2>2. (deleted \cap (Fetching \cup Whole))' = {}
    BY <2>1
  <2> QED BY <2>1, <2>2 DEF Service!Next, Service!Crash
<1>3. ASSUME NEW r \in Requests, NEW f \in Files, FetchSkip(r, f)
      PROVE  UNCHANGED Service!vars
  BY <1>3, UnseenStep DEF FetchSkip, Downloads, reqVars, SameView, Fetching, Whole
<1> QED
  BY <1>1, <1>2, <1>3, UnseenActions, BeginStep, ArriveStep, ResultStep, ReportedStep,
     DeletionStep, ForceStopStep
  DEF Next, HttpProgress, JobProgress, Fetch

(* api/v1/models.py, _native_model_pull, the lock of jobs.py and the       *)
(* threads of snapshot_download keep what PullService promises, for any    *)
(* set of files and any number of requests, deletions and force stops.     *)
THEOREM PullServiceImplemented == Spec => ImplementsPullService
<1>1. Init => Service!Init
  BY DEF Init, Service!Init, Fetching, Whole
<1>2. PullIInv /\ [Next]_vars => [Service!Next]_Service!vars
  BY PullServiceStep
<1> QED BY <1>1, <1>2, PullIInvHolds, PTL DEF Spec, ImplementsPullService, Service!Spec

-----------------------------------------------------------------------------
(* What an implementation of PullService has by that alone.                *)

(* Success that nobody has torn is success over every file.                *)
WholeIsWhole == \A r \in Whole : r \in deleted \/ \A f \in Files : disk[f] = "done"

(* PullService is enough for success to mean a complete model: whatever    *)
(* implements it, as the pulls of the registry do, reports it over         *)
(* nothing less, unless files were deleted under it.                       *)
THEOREM ServiceCompletes == Service!Spec => []WholeIsWhole
<1> DEFINE torn == deleted \cap (Fetching \cup Whole)
           Inv  == \A r \in Whole \ torn, f \in Files : disk[f] = "done"
<1>1. Service!Init => Inv
  BY DEF Service!Init
<1>2. Inv /\ [Service!Next]_Service!vars => Inv'
  <2> SUFFICES ASSUME Inv, [Service!Next]_Service!vars PROVE Inv'
    OBVIOUS
  <2> HIDE DEF torn
  <2>1. ASSUME NEW p \in Requests, Service!Begin(p) \/ Service!Succeed(p) \/ Service!Leave(p)
        PROVE  Inv'
    BY <2>1 DEF torn, Service!Begin, Service!Succeed, Service!Leave
  <2>2. ASSUME NEW g \in Files, Service!Arrive(g) PROVE Inv'
    BY <2>2 DEF torn, Service!Arrive
  <2>3. CASE Service!Delete \/ Service!Crash
    BY <2>3 DEF torn, Service!Delete, Service!Crash
  <2>4. CASE Service!Force
    BY <2>4 DEF torn, Service!Force
  <2>5. CASE UNCHANGED Service!vars
    BY <2>5 DEF torn, Service!vars
  <2> QED BY <2>1, <2>2, <2>3, <2>4, <2>5 DEF Service!Next
<1>3. Inv => WholeIsWhole
  BY DEF WholeIsWhole
<1> QED BY <1>1, <1>2, <1>3, PTL DEF Service!Spec
=============================================================================
