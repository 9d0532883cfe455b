------------------------------ MODULE ModelPull ------------------------------
(***************************************************************************)
(* One Hugging Face model: its row in `models` (services/hf_models.py,     *)
(* api/v1/models.py), its directory under MODELS_DIR and the job that      *)
(* fills it (native.model.pull in services/native_jobs.py).                *)
(*                                                                         *)
(* The row is a cache: the status comes from a scan of the directory, and  *)
(* every GET of the UI writes the scan back.  A request reads the row when *)
(* it begins and writes at its commit; SQLAlchemy writes a column only if  *)
(* its new value differs from the one that was read.  snapshot_download    *)
(* runs in a worker thread, which goes on when its job is cancelled.  The  *)
(* job runner is taken at the grain of JobRunner.tla's lock, registry and  *)
(* finally.                                                                *)
(***************************************************************************)
EXTENDS Naturals

CONSTANTS Config,      \* config.json
          Weights,     \* the files of weights
          Requests,    \* HTTP requests, and the job a pull submits
          NoReq,       \* "no task" in _task_by_lock
          MaxOps,      \* bound: requests other than refreshs
          MaxTroubles  \* bound: failing downloads, deletions and job
                       \* preparations, and process restarts, together

Files == {Config} \cup Weights

ASSUME ModelPullAssumption ==
    /\ Config \notin Weights /\ NoReq \notin Requests
    /\ MaxOps \in Nat /\ MaxTroubles \in Nat

VARIABLES
    row,      \* models.download_status, "absent" without a row
    dir,      \* the directory exists
    disk,     \* its files; "partial" is an .incomplete file of that name
    pc,       \* where a request, and then its job, is
    seen,     \* the status a request has read
    found,    \* the status it has scanned
    thr,      \* its download thread
    todo,     \* files the thread has still to look at
    cur,      \* files it is downloading
    held, task,  \* _held and _task_by_lock for ("model", hf_id)
    deleted,  \* history: pulls whose files were deleted under them
    forced,   \* history: a force stop has been asked for
    ops, troubles

reqVars  == <<pc, seen, found>>
thrVars  == <<thr, todo, cur>>
lockVars == <<held, task>>
vars == <<row, dir, disk, reqVars, thrVars, lockVars, deleted, forced, ops, troubles>>

Statuses == {"absent", "unknown", "downloading", "partial", "ready"}
JobPcs   == {"prep", "fetch", "succeeded", "failed", "unwind"}
HttpPcs  == {"idle", "write", "pull", "marked", "delete", "halt"}
ThrPcs   == {"none", "run", "ok", "err"}

Init == /\ row = "absent" /\ dir = FALSE
        /\ disk = [f \in Files |-> "absent"]
        /\ pc = [r \in Requests |-> "idle"]
        /\ seen = [r \in Requests |-> "absent"]
        /\ found = [r \in Requests |-> "absent"]
        /\ thr = [r \in Requests |-> "none"]
        /\ todo = [r \in Requests |-> {}] /\ cur = [r \in Requests |-> {}]
        /\ held = FALSE /\ task = NoReq
        /\ deleted = {} /\ forced = FALSE
        /\ ops = 0 /\ troubles = 0

Trouble == troubles < MaxTroubles /\ troubles' = troubles + 1
Goto(r, p) == pc' = [pc EXCEPT ![r] = p]
Has(state) == \E f \in Files : disk[f] = state

(* _scan_local_state                                                       *)
Scan == CASE ~dir -> "unknown"
          [] dir /\ Has("partial") -> "partial"
          [] dir /\ ~Has("partial") /\ disk[Config] = "done"
                 /\ (\E f \in Weights : disk[f] = "done") -> "ready"
          [] dir /\ ~Has("partial") /\ Has("done")
                 /\ (disk[Config] # "done" \/ \A f \in Weights : disk[f] # "done") -> "partial"
          [] OTHER -> "unknown"

(* A request begins: an operation if op, else a refresh.                   *)
Begins(r, op, p) ==
    /\ pc[r] = "idle" /\ thr[r] = "none"
    /\ IF op THEN ops < MaxOps /\ ops' = ops + 1 ELSE UNCHANGED ops
    /\ seen' = [seen EXCEPT ![r] = row]
    /\ Goto(r, p)
(* A request is over.                                                      *)
Ends(r) == /\ Goto(r, "idle")
           /\ seen' = [seen EXCEPT ![r] = "absent"]
           /\ found' = [found EXCEPT ![r] = "absent"]

-----------------------------------------------------------------------------
(* The registry                                                            *)

(* GET /models, GET /models/{id} and POST /models/sync: rows are refreshed *)
(* and directories without a row are added.                                *)
Refresh(r) ==
    /\ row # "absent" \/ dir
    /\ Begins(r, FALSE, "write")
    /\ found' = [found EXCEPT ![r] = Scan]
    /\ UNCHANGED <<row, dir, disk, thrVars, lockVars, deleted, forced, troubles>>

(* POST /models: upsert_from_hf_id, with or without a directory.           *)
Create(r) ==
    /\ Begins(r, TRUE, "write")
    /\ found' = [found EXCEPT ![r] = Scan]
    /\ UNCHANGED <<row, dir, disk, thrVars, lockVars, deleted, forced, troubles>>

(* Mutant: a scan does not touch a row that says downloading.              *)
WriteBackKeepsDownloading(r) ==
    /\ pc[r] = "write"
    /\ row' = IF row # "downloading" /\ seen[r] # found[r] /\ (seen[r] = "absent" <=> row = "absent")
                THEN found[r] ELSE row
    /\ Ends(r)
    /\ UNCHANGED <<dir, disk, thrVars, lockVars, deleted, forced, ops, troubles>>

(* The commit.  An INSERT meets the unique hf_id, an UPDATE the absence of *)
(* its row: either is an error and changes nothing.                        *)
WriteBack(r) ==
    /\ pc[r] = "write"
    /\ row' = IF seen[r] # found[r] /\ (seen[r] = "absent" <=> row = "absent")
                THEN found[r] ELSE row
    /\ Ends(r)
    /\ UNCHANGED <<dir, disk, thrVars, lockVars, deleted, forced, ops, troubles>>

(* DELETE /models/{id}: first the files, if asked for, then the row.       *)
Delete(r) ==
    /\ row # "absent"
    /\ Begins(r, TRUE, "delete")
    /\ UNCHANGED <<row, found, thrVars, lockVars, forced, troubles>>
    /\ \/ UNCHANGED <<dir, disk, deleted>>
       \/ /\ dir
          /\ dir' = FALSE
          /\ disk' = [f \in Files |-> "absent"]
          /\ deleted' = {q \in Requests : thr[q] # "none" \/ pc[q] = "succeeded"}

(* rmtree raises, perhaps because a download writes into the directory,    *)
(* and leaves a part of the files.  The row stays.                         *)
DeleteFails(r) ==
    /\ row # "absent" /\ dir /\ Trouble
    /\ pc[r] = "idle" /\ thr[r] = "none"
    /\ ops < MaxOps /\ ops' = ops + 1
    /\ \E S \in SUBSET Files : disk' = [f \in Files |-> IF f \in S THEN "absent" ELSE disk[f]]
    /\ deleted' = {q \in Requests : thr[q] # "none" \/ pc[q] = "succeeded"}
    /\ UNCHANGED <<row, dir, reqVars, thrVars, lockVars, forced>>

DeleteRow(r) ==
    /\ pc[r] = "delete"
    /\ row' = "absent"
    /\ Ends(r)
    /\ UNCHANGED <<dir, disk, thrVars, lockVars, deleted, forced, ops, troubles>>

-----------------------------------------------------------------------------
(* POST /models/{id}/pull                                                  *)

Pull(r) ==
    /\ row # "absent"
    /\ Begins(r, TRUE, "pull")
    /\ UNCHANGED <<row, dir, disk, found, thrVars, lockVars, deleted, forced, troubles>>

(* mark_pull_started and its commit, before the job is submitted.          *)
PullMark(r) ==
    /\ pc[r] = "pull" /\ row # "absent"
    /\ row' = IF seen[r] # "downloading" THEN "downloading" ELSE row
    /\ Goto(r, "marked")
    /\ UNCHANGED <<dir, disk, seen, found, thrVars, lockVars, deleted, forced, ops, troubles>>

(* The row was deleted in between: the UPDATE raises.                      *)
PullGone(r) ==
    /\ pc[r] = "pull" /\ row = "absent"
    /\ Ends(r)
    /\ UNCHANGED <<row, dir, disk, thrVars, lockVars, deleted, forced, ops, troubles>>

(* Mutant: the lock of the model is not looked at.                         *)
PullSubmitUnlocked(r) ==
    /\ pc[r] = "marked"
    /\ held' = TRUE /\ task' = r
    /\ Goto(r, "prep")
    /\ UNCHANGED <<row, dir, disk, seen, found, thrVars, deleted, forced, ops, troubles>>

PullSubmit(r) ==
    /\ pc[r] = "marked" /\ ~held
    /\ held' = TRUE /\ task' = r
    /\ Goto(r, "prep")
    /\ UNCHANGED <<row, dir, disk, seen, found, thrVars, deleted, forced, ops, troubles>>

(* JobConflictError, a 409.  The row goes on saying downloading.           *)
PullConflict(r) ==
    /\ pc[r] = "marked" /\ held
    /\ Ends(r)
    /\ UNCHANGED <<row, dir, disk, thrVars, lockVars, deleted, forced, ops, troubles>>

-----------------------------------------------------------------------------
(* _native_model_pull                                                      *)

JobPrepFails(r) ==
    /\ pc[r] = "prep" /\ Trouble
    /\ Goto(r, "failed")
    /\ UNCHANGED <<row, dir, disk, seen, found, thrVars, lockVars, deleted, forced, ops>>

JobStart(r) ==
    /\ pc[r] = "prep"
    /\ dir' = TRUE
    /\ thr' = [thr EXCEPT ![r] = "run"]
    /\ todo' = [todo EXCEPT ![r] = Files]
    /\ deleted' = deleted \ {r}
    /\ Goto(r, "fetch")
    /\ UNCHANGED <<row, disk, seen, found, cur, lockVars, forced, ops, troubles>>

(* Mutant: `code = 1` is forgotten in an except branch.                    *)
JobFetchedWell(r) ==
    /\ pc[r] = "fetch" /\ thr[r] \in {"ok", "err"}
    /\ Goto(r, "succeeded")
    /\ thr' = [thr EXCEPT ![r] = "none"]
    /\ UNCHANGED <<row, dir, disk, seen, found, todo, cur, lockVars, deleted, forced, ops, troubles>>

JobFetched(r) ==
    /\ pc[r] = "fetch" /\ thr[r] \in {"ok", "err"}
    /\ Goto(r, IF thr[r] = "ok" THEN "succeeded" ELSE "failed")
    /\ thr' = [thr EXCEPT ![r] = "none"]
    /\ UNCHANGED <<row, dir, disk, seen, found, todo, cur, lockVars, deleted, forced, ops, troubles>>

(* The finally of _run_job: by key, whoever owns the key by now.           *)
JobEnds(r) ==
    /\ pc[r] \in {"succeeded", "failed", "unwind"}
    /\ held' = FALSE /\ task' = NoReq
    /\ Ends(r)
    /\ UNCHANGED <<row, dir, disk, thrVars, deleted, forced, ops, troubles>>

-----------------------------------------------------------------------------
(* snapshot_download: every file is skipped when it is there, else         *)
(* downloaded under a lock of its own, several at a time.                  *)

(* A result nobody waits for any more is dropped.                          *)
Result(r, x) ==
    /\ thr' = [thr EXCEPT ![r] = IF pc[r] = "fetch" THEN x ELSE "none"]
    /\ todo' = [todo EXCEPT ![r] = {}] /\ cur' = [cur EXCEPT ![r] = {}]

Downloads(r) == UNCHANGED <<row, reqVars, lockVars, deleted, forced, ops>>

FetchSkip(r, f) ==
    /\ thr[r] = "run" /\ f \in todo[r] /\ disk[f] = "done"
    /\ todo' = [todo EXCEPT ![r] = @ \ {f}]
    /\ Downloads(r) /\ UNCHANGED <<dir, disk, thr, cur, troubles>>

FetchBegin(r, f) ==
    /\ thr[r] = "run" /\ f \in todo[r] /\ disk[f] # "done"
    /\ \A q \in Requests : f \notin cur[q]
    /\ todo' = [todo EXCEPT ![r] = @ \ {f}]
    /\ cur' = [cur EXCEPT ![r] = @ \cup {f}]
    /\ dir' = TRUE
    /\ disk' = [disk EXCEPT ![f] = "partial"]
    /\ Downloads(r) /\ UNCHANGED <<thr, troubles>>

FetchEnd(r, f) ==
    /\ thr[r] = "run" /\ f \in cur[r] /\ disk[f] = "partial"
    /\ cur' = [cur EXCEPT ![r] = @ \ {f}]
    /\ disk' = [disk EXCEPT ![f] = "done"]
    /\ Downloads(r) /\ UNCHANGED <<dir, thr, todo, troubles>>

(* The .incomplete file was deleted: it cannot be moved into place.        *)
FetchGone(r, f) ==
    /\ thr[r] = "run" /\ f \in cur[r] /\ disk[f] # "partial"
    /\ Result(r, "err")
    /\ Downloads(r) /\ UNCHANGED <<dir, disk, troubles>>

ThreadFails(r) ==
    /\ thr[r] = "run" /\ Trouble
    /\ Result(r, "err")
    /\ Downloads(r) /\ UNCHANGED <<dir, disk>>

ThreadDone(r) ==
    /\ thr[r] = "run" /\ todo[r] = {} /\ cur[r] = {}
    /\ Result(r, "ok")
    /\ Downloads(r) /\ UNCHANGED <<dir, disk, troubles>>

-----------------------------------------------------------------------------
(* POST /models/{id}/pull/force-stop: force_model_pull_halt at the grain   *)
(* of HaltCancel in JobRunner.tla, then refresh_status.                    *)
ForceStop(r) ==
    LET victim == {q \in Requests : task = q /\ pc[q] \in JobPcs} IN
    /\ row # "absent"
    /\ pc[r] = "idle" /\ thr[r] = "none"
    /\ ops < MaxOps /\ ops' = ops + 1
    /\ seen' = [seen EXCEPT ![r] = row]
    /\ pc' = [q \in Requests |-> IF q = r THEN "halt"
                                 ELSE IF q \in victim THEN "unwind" ELSE pc[q]]
    /\ thr' = [q \in Requests |-> IF q \in victim /\ thr[q] # "run" THEN "none" ELSE thr[q]]
    /\ held' = FALSE
    /\ forced' = TRUE
    /\ UNCHANGED <<row, dir, disk, found, todo, cur, task, deleted, troubles>>

ForceRefresh(r) ==
    /\ pc[r] = "halt"
    /\ found' = [found EXCEPT ![r] = Scan]
    /\ Goto(r, "write")
    /\ UNCHANGED <<row, dir, disk, seen, thrVars, lockVars, deleted, forced, ops, troubles>>

(* The web process dies with its threads and starts again.                 *)
Crash ==
    /\ Trouble
    /\ pc' = [r \in Requests |-> "idle"]
    /\ seen' = [r \in Requests |-> "absent"] /\ found' = [r \in Requests |-> "absent"]
    /\ thr' = [r \in Requests |-> "none"]
    /\ todo' = [r \in Requests |-> {}] /\ cur' = [r \in Requests |-> {}]
    /\ held' = FALSE /\ task' = NoReq
    /\ UNCHANGED <<row, dir, disk, deleted, forced, ops>>

HttpProgress(r) == \/ WriteBack(r) \/ DeleteRow(r) \/ PullMark(r) \/ PullGone(r)
                   \/ PullSubmit(r) \/ PullConflict(r) \/ ForceRefresh(r)
JobProgress(r)  == JobStart(r) \/ JobFetched(r) \/ JobEnds(r)
Fetch(r) == \/ ThreadDone(r)
            \/ \E f \in Files : \/ FetchSkip(r, f) \/ FetchBegin(r, f)
                                \/ FetchEnd(r, f) \/ FetchGone(r, f)

Next == \/ \E r \in Requests :
             \/ Refresh(r) \/ Create(r) \/ Delete(r) \/ DeleteFails(r) \/ Pull(r) \/ ForceStop(r)
             \/ HttpProgress(r) \/ JobProgress(r) \/ JobPrepFails(r)
             \/ Fetch(r) \/ ThreadFails(r)
        \/ Crash

Spec == Init /\ [][Next]_vars

(* Requests, jobs and threads go on; the page of the UI asks for           *)
(* GET /models every 2 to 8 seconds (refetchInterval in Models.tsx).       *)
Fairness == /\ \A r \in Requests : /\ WF_vars(HttpProgress(r)) /\ WF_vars(JobProgress(r))
                                   /\ WF_vars(Fetch(r))
            /\ WF_vars(\E r \in Requests : Refresh(r))

FairSpec == Spec /\ Fairness

-----------------------------------------------------------------------------
(* Every variable has its type; without the directory there is no file,    *)
(* and a pull, a deletion or a force stop has read a row.                  *)
TypeOK ==
    /\ row \in Statuses /\ dir \in BOOLEAN
    /\ disk \in [Files -> {"absent", "partial", "done"}]
    /\ dir \/ \A f \in Files : disk[f] = "absent"
    /\ pc \in [Requests -> HttpPcs \cup JobPcs]
    /\ seen \in [Requests -> Statuses] /\ found \in [Requests -> Statuses]
    /\ \A r \in Requests :
         pc[r] \in {"pull", "marked", "delete", "halt"} => seen[r] # "absent"
    /\ thr \in [Requests -> ThrPcs]
    /\ todo \in [Requests -> SUBSET Files] /\ cur \in [Requests -> SUBSET Files]
    /\ held \in BOOLEAN /\ task \in Requests \cup {NoReq}
    /\ deleted \subseteq Requests /\ forced \in BOOLEAN
    /\ ops \in 0..MaxOps /\ troubles \in 0..MaxTroubles

(* A pull job that succeeds has every file on disk, the ones another       *)
(* download brought included, unless files were deleted under it.          *)
SucceededPullIsComplete ==
    /\ TypeOK
    /\ \A r \in Requests \ deleted :
         pc[r] = "succeeded" => \A f \in Files : disk[f] = "done"

(* web/CONTRACT.md: the row is a cache of the directory.  Whatever late    *)
(* commits, conflicts, halts, deletions and crashes do to it, it ends up   *)
(* saying what is on disk, as long as somebody looks at the list.          *)
RegistryConverges == <>[](IF dir THEN row = Scan ELSE row \in {"absent", "unknown"})

-----------------------------------------------------------------------------
(* Pulls as PullService sees them: the download threads, and the jobs that *)
(* know theirs to have ended well.                                         *)
Fetching == {r \in Requests : thr[r] = "run"}
Whole    == {r \in Requests : thr[r] = "ok" \/ pc[r] = "succeeded"}

Service == INSTANCE PullService WITH Pulls <- Requests, fetching <- Fetching, whole <- Whole,
                                     torn <- deleted \cap (Fetching \cup Whole)

(* Requests, jobs and download threads implement PullService: the lock     *)
(* keeps pulls apart until somebody forces, a file changes only under a    *)
(* thread or a deletion and never falls back otherwise, and a job hears of *)
(* success only when the last file is there, whoever has brought it.       *)
ImplementsPullService == Service!Spec
=============================================================================
