---------------------------- MODULE SlotRuntime -----------------------------
(***************************************************************************)
(* Inference slots: api/v1/runtime.py (the HTTP handlers), the three       *)
(* native.slot.* handlers of services/native_jobs.py and the Docker calls  *)
(* of services/slot_runtime.py.                                            *)
(*                                                                         *)
(* Three places know about a slot: its engine_slots row, the lock of the   *)
(* job runner and the container Docker runs for it.  A request is one HTTP *)
(* call, followed through the job it submits.  Docker calls run in worker  *)
(* threads (asyncio.to_thread): cancelling the coroutine that waits for    *)
(* one does not stop it.  The job runner is taken at the grain of          *)
(* JobRunner.tla's lock, registry and finally.                             *)
(*                                                                         *)
(* No endpoint changes the engine of a row, so a slot has one container    *)
(* name.  Ports are left out: a port that is taken is one more reason for  *)
(* containers.run to fail.                                                 *)
(***************************************************************************)
EXTENDS Naturals, FiniteSets

CONSTANTS Slots,      \* slot keys
          GPUs,       \* indices of the host's GPUs
          TP,         \* tensor parallelism: GPUs per slot
          Requests,   \* HTTP requests
          Kinds,      \* what they may ask: "create", "down", "restart"
          NoReq,      \* "no task" in _task_by_lock
          MaxTroubles \* bound: force halts, failing Docker calls or job
                      \* preparations, and process restarts, together

ASSUME SlotRuntimeAssumption ==
    /\ NoReq \notin Requests
    /\ Kinds \subseteq {"create", "down", "restart"}
    /\ TP \in Nat \ {0} /\ IsFiniteSet(GPUs)
    /\ MaxTroubles \in Nat

VARIABLES
    row,     \* engine_slots: observed_status and gpu_indices, per slot
    cont,    \* the container named after the slot, in the Docker daemon
    req,     \* what a request asks for: kind, slot and GPUs
    pc,      \* where the coroutine of a request is
    thr,     \* where its Docker thread is
    halt,    \* where the force halt of a slot is
    held,    \* _held
    task,    \* _task_by_lock
    window,  \* history: rows a create's check did not see as active
    excuse,  \* history: pairs of slots with a reason to share a GPU
    dirty,   \* history: slots whose row and container may disagree
    stuck,   \* history: slots whose row may stay requested
    forced, troubles

reqVars  == <<req, pc, thr>>
lockVars == <<held, task>>
histVars == <<window, excuse, dirty, stuck>>
cntVars  == <<forced, troubles>>
vars == <<row, cont, reqVars, halt, lockVars, histVars, cntVars>>

RowStates  == {"none", "requested", "running", "stopped", "failed"}
ContStates == {"none", "created", "up"}
GpuSets    == {G \in SUBSET GPUs : Cardinality(G) = TP}
NoCont     == [state |-> "none", gpus |-> {}]
Nothing    == [kind |-> "none", slot |-> "none", gpus |-> {}]

HttpPcs == {"idle", "checked", "inserted"}
(* "prep": before the Docker part; "down", "up": waiting for the thread;   *)
(* "exit": the handler is over; "unwind": cancelled, finally not yet run.  *)
JobPcs  == {"prep", "down", "up", "exit", "unwind"}
(* "ok", "err": what the thread returned; "raised": it has raised.         *)
ThrPcs  == {"none", "stop", "clear", "run", "net", "ok", "err", "raised"}
Answers == {"ok", "err", "raised"}
Working == {"stop", "clear", "run", "net"}

Active(s) == row[s].status \in {"requested", "running"}
Busy      == UNION {row[s].gpus : s \in {t \in Slots : Active(t)}}
OnSlot(s) == {r \in Requests : req[r].slot = s}
JobOn(s)  == \E r \in OnSlot(s) : pc[r] \in JobPcs \/ thr[r] \in Working
Shares(s, t) == s # t /\ Active(s) /\ Active(t) /\ row[s].gpus \cap row[t].gpus # {}

Init == /\ row = [s \in Slots |-> [status |-> "none", gpus |-> {}]]
        /\ cont = [s \in Slots |-> NoCont]
        /\ req = [r \in Requests |-> Nothing]
        /\ pc = [r \in Requests |-> "idle"]
        /\ thr = [r \in Requests |-> "none"]
        /\ halt = [s \in Slots |-> "idle"]
        /\ held = {} /\ task = [s \in Slots |-> NoReq]
        /\ window = [r \in Requests |-> {}] /\ excuse = {} /\ dirty = {} /\ stuck = {}
        /\ forced = {} /\ troubles = 0

Trouble == troubles < MaxTroubles /\ troubles' = troubles + 1
Goto(r, p) == pc' = [pc EXCEPT ![r] = p]
(* The request is over; a thread it leaves behind still needs its data.    *)
Forget(r) == /\ Goto(r, "idle")
             /\ req' = IF thr[r] = "none" THEN [req EXCEPT ![r] = Nothing] ELSE req
Thread(r, p) == thr' = [thr EXCEPT ![r] = p]
(* Slot s becomes active behind the back of every check that is open.      *)
Reopened(s) ==
    [q \in Requests |-> IF pc[q] = "checked" THEN window[q] \cup {s} ELSE window[q]]
(* Row and container of s may disagree from now on.                        *)
Spoil(s) == dirty' = dirty \cup {s} /\ UNCHANGED <<window, excuse, stuck>>
(* Nobody may be left to take the row of s out of requested.               *)
Stall(s) == stuck' = stuck \cup {s} /\ UNCHANGED <<window, excuse, dirty>>

-----------------------------------------------------------------------------
(* POST /runtime/slots                                                     *)

(* Mutant: the overlap with busy GPUs is not looked at.                    *)
CreateCheckNoOverlap(r) ==
    /\ pc[r] = "idle" /\ thr[r] = "none" /\ "create" \in Kinds
    /\ \E s \in Slots, G \in GpuSets :
         req' = [req EXCEPT ![r] = [kind |-> "create", slot |-> s, gpus |-> G]]
    /\ Goto(r, "checked")
    /\ UNCHANGED <<row, cont, thr, halt, lockVars, histVars, cntVars>>

(* compute_availability refuses GPUs of active rows that the host's GPU    *)
(* probe has listed: `seen` is all of them unless the probe fails or is    *)
(* switched off.  It also refuses GPUs nvidia-smi sees a process on, and   *)
(* foreign processes come and go: a refusal is always possible.            *)
CreateCheck(r) ==
    /\ pc[r] = "idle" /\ thr[r] = "none" /\ "create" \in Kinds
    /\ \E s \in Slots, G \in GpuSets, seen \in SUBSET GPUs :
         /\ IF seen = GPUs THEN UNCHANGED troubles ELSE Trouble
         /\ G \cap Busy \cap seen = {}
         /\ req' = [req EXCEPT ![r] = [kind |-> "create", slot |-> s, gpus |-> G]]
         /\ window' = [window EXCEPT ![r] =
                         {t \in Slots : Active(t) /\ row[t].gpus \cap G # {}}]
    /\ Goto(r, "checked")
    /\ UNCHANGED <<row, cont, thr, halt, lockVars, excuse, dirty, stuck, forced>>

(* The row is inserted and committed; slot_key is UNIQUE.  window and      *)
(* excuse note which active rows the check of a create did not see.        *)
CreateInsert(r) ==
    LET s == req[r].slot IN
    /\ pc[r] = "checked" /\ row[s].status = "none"
    /\ row' = [row EXCEPT ![s] = [status |-> "requested", gpus |-> req[r].gpus]]
    /\ window' = [Reopened(s) EXCEPT ![r] = {}]
    /\ excuse' = excuse \cup {{s, t} : t \in window[r]}
    /\ Goto(r, "inserted")
    /\ UNCHANGED <<cont, req, thr, halt, lockVars, dirty, stuck, cntVars>>

(* A slot_key in use: 409 from the SELECT, an error of the INSERT later.   *)
CreateRefuse(r) ==
    /\ pc[r] = "checked" /\ row[req[r].slot].status # "none"
    /\ Forget(r)
    /\ window' = [window EXCEPT ![r] = {}]
    /\ UNCHANGED <<row, cont, thr, halt, lockVars, excuse, dirty, stuck, cntVars>>

Lock(r) ==
    /\ held' = held \cup {req'[r].slot}
    /\ task' = [task EXCEPT ![req'[r].slot] = r]
    /\ Goto(r, "prep")

CreateSubmit(r) ==
    /\ pc[r] = "inserted" /\ req[r].slot \notin held
    /\ UNCHANGED req /\ Lock(r)
    /\ UNCHANGED <<row, cont, thr, halt, histVars, cntVars>>

(* JobConflictError: a job on that key runs already (down and restart do   *)
(* not ask whether the slot exists).  The row stays as it was inserted.    *)
CreateConflict(r) ==
    /\ pc[r] = "inserted" /\ req[r].slot \in held
    /\ Forget(r)
    /\ Stall(req[r].slot)
    /\ UNCHANGED <<row, cont, thr, halt, lockVars, cntVars>>

(* Mutant: the lock of the slot is not looked at.                          *)
OtherSubmitUnlocked(r) ==
    /\ pc[r] = "idle" /\ thr[r] = "none"
    /\ \E s \in Slots, kind \in Kinds \ {"create"}, G \in GpuSets \cup {{}} :
         /\ kind = "down" => G = {}
         /\ req' = [req EXCEPT ![r] = [kind |-> kind, slot |-> s, gpus |-> G]]
    /\ Lock(r)
    /\ UNCHANGED <<row, cont, thr, halt, histVars, cntVars>>

(* POST /runtime/slots/{key}/down and /restart: submit, or a 409.          *)
OtherSubmit(r) ==
    /\ pc[r] = "idle" /\ thr[r] = "none"
    /\ \E s \in Slots \ held, kind \in Kinds \ {"create"}, G \in GpuSets \cup {{}} :
         /\ kind = "down" => G = {}
         /\ req' = [req EXCEPT ![r] = [kind |-> kind, slot |-> s, gpus |-> G]]
    /\ Lock(r)
    /\ UNCHANGED <<row, cont, thr, halt, histVars, cntVars>>

-----------------------------------------------------------------------------
(* The handlers: _native_slot_up, _native_slot_down, _native_slot_restart  *)

(* merge_llm_stack_env, raise_if_missing or the network raise: the job     *)
(* fails and the row is not touched.                                       *)
JobPrepFails(r) ==
    /\ pc[r] = "prep" /\ req[r].kind # "down"
    /\ Trouble
    /\ Goto(r, "exit")
    /\ IF req[r].kind = "create" THEN Stall(req[r].slot) ELSE UNCHANGED histVars
    /\ UNCHANGED <<row, cont, req, thr, halt, lockVars, forced>>

(* A restart reads the row for the GPUs the request does not give.         *)
JobStop(r) ==
    /\ pc[r] = "prep" /\ req[r].kind \in {"down", "restart"}
    /\ req[r].kind = "restart" => row[req[r].slot].status # "none"
    /\ req' = [req EXCEPT ![r].gpus =
                 IF req[r].kind = "restart" /\ @ = {} THEN row[req[r].slot].gpus ELSE @]
    /\ Goto(r, "down") /\ Thread(r, "stop")
    /\ UNCHANGED <<row, cont, halt, lockVars, histVars, cntVars>>

RestartUnknown(r) ==
    /\ pc[r] = "prep" /\ req[r].kind = "restart" /\ row[req[r].slot].status = "none"
    /\ Goto(r, "exit")
    /\ UNCHANGED <<row, cont, req, thr, halt, lockVars, histVars, cntVars>>

(* Mutant: the row is marked whatever became of the call, in a finally.    *)
JobStoppedAnyway(r) ==
    LET s == req[r].slot IN
    /\ pc[r] = "down" /\ thr[r] \in Answers
    /\ row' = [row EXCEPT ![s].status = IF @ = "none" THEN @ ELSE "stopped"]
    /\ Thread(r, "none") /\ Goto(r, "exit")
    /\ UNCHANGED <<cont, req, halt, lockVars, histVars, cntVars>>

(* _db_mark_stopped_by_key, whatever the stop returned.  A restart goes on *)
(* with _native_slot_up.                                                   *)
JobStopped(r) ==
    LET s == req[r].slot IN
    /\ pc[r] = "down" /\ thr[r] \in {"ok", "err"}
    /\ row' = [row EXCEPT ![s].status = IF @ = "none" THEN @ ELSE "stopped"]
    /\ Thread(r, "none")
    /\ IF req[r].kind = "down"
         THEN Goto(r, "exit") /\ UNCHANGED req
         ELSE Goto(r, "prep") /\ req' = [req EXCEPT ![r].kind = "up"]
    /\ UNCHANGED <<cont, halt, lockVars, histVars, cntVars>>

JobStart(r) ==
    /\ pc[r] = "prep" /\ req[r].kind \in {"create", "up"}
    /\ Goto(r, "up") /\ Thread(r, "clear")
    /\ UNCHANGED <<row, cont, req, halt, lockVars, histVars, cntVars>>

(* Mutant: a start is not recorded at all.                                 *)
JobStartedUnmarked(r) ==
    /\ pc[r] = "up" /\ thr[r] \in {"ok", "err"}
    /\ Thread(r, "none") /\ Goto(r, "exit")
    /\ UNCHANGED <<row, cont, req, halt, lockVars, histVars, cntVars>>

(* _db_mark_slot_running or _db_mark_slot_failed.  A row that was stopped  *)
(* takes its GPUs back without a look at the other rows.                   *)
JobStarted(r) ==
    LET s    == req[r].slot
        up   == thr[r] = "ok"
        back == up /\ ~Active(s)
    IN
    /\ pc[r] = "up" /\ thr[r] \in {"ok", "err"}
    /\ row' = [row EXCEPT ![s] =
                 CASE @.status = "none" -> @
                   [] up    -> [status |-> "running", gpus |-> req[r].gpus]
                   [] OTHER -> [@ EXCEPT !.status = "failed"]]
    /\ window' = IF back THEN Reopened(s) ELSE window
    /\ excuse' = excuse \cup {{s, t} : t \in IF back THEN Slots \ {s} ELSE {}}
    /\ Thread(r, "none") /\ Goto(r, "exit")
    /\ UNCHANGED <<cont, req, halt, lockVars, dirty, stuck, cntVars>>

(* What the thread has raised passes the handlers, a restart's _up too:    *)
(* handle_native_job notes a failed job and nobody writes the row.         *)
JobRaises(r) ==
    /\ pc[r] \in {"down", "up"} /\ thr[r] = "raised"
    /\ Thread(r, "none") /\ Goto(r, "exit")
    /\ IF req[r].kind = "create" THEN Stall(req[r].slot) ELSE UNCHANGED histVars
    /\ UNCHANGED <<row, cont, req, halt, lockVars, cntVars>>

(* The transaction of _db_mark_... raises: Docker has done its part and    *)
(* the row does not say so.                                                *)
JobMarkFails(r) ==
    LET s == req[r].slot IN
    /\ pc[r] \in {"down", "up"} /\ thr[r] \in {"ok", "err"}
    /\ Trouble
    /\ Thread(r, "none") /\ Goto(r, "exit")
    /\ dirty' = dirty \cup {s}
    /\ stuck' = IF req[r].kind = "create" THEN stuck \cup {s} ELSE stuck
    /\ UNCHANGED <<row, cont, req, halt, lockVars, window, excuse, forced>>

(* The finally of _run_job: by key, whoever owns the key by now.           *)
JobEnds(r) ==
    LET s == req[r].slot IN
    /\ pc[r] \in {"exit", "unwind"}
    /\ held' = held \ {s}
    /\ task' = [task EXCEPT ![s] = NoReq]
    /\ Forget(r)
    /\ UNCHANGED <<row, cont, thr, halt, histVars, cntVars>>

-----------------------------------------------------------------------------
(* The worker threads.  A result nobody waits for any more is dropped.     *)

Result(r, x) ==
    IF pc[r] \in {"down", "up"}
      THEN Thread(r, x) /\ UNCHANGED req
      ELSE /\ Thread(r, "none")
           /\ req' = IF pc[r] = "idle" THEN [req EXCEPT ![r] = Nothing] ELSE req

Container(s, state, G) == cont' = [cont EXCEPT ![s] = [state |-> state, gpus |-> G]]
Remove(s)              == cont' = [cont EXCEPT ![s] = NoCont]
(* Stopping it has worked, removing it has not.                            *)
Halt(s) == cont[s].state = "up" /\ Container(s, "created", cont[s].gpus)

(* Docker does not answer, or refuses, and the thread answers x: Botches   *)
(* when the container may not be what the row will say.                    *)
Breaks(r, x)  == /\ Trouble /\ Result(r, x)
                 /\ UNCHANGED <<row, pc, halt, lockVars, histVars, forced>>
Botches(r, x) == /\ Trouble /\ Spoil(req[r].slot) /\ Result(r, x)
                 /\ UNCHANGED <<row, pc, halt, lockVars, forced>>

Works(r) == UNCHANGED <<row, pc, halt, lockVars, histVars, cntVars>>

(* A DockerException is caught inside the thread.  Anything else (requests *)
(* does not reach the daemon or has waited too long, a key of the merged   *)
(* parameters is missing, also docker.from_env() itself) is raised: before *)
(* the container was touched, or with the container changed.               *)
RaisesBefore(r) == Breaks(r, "raised") /\ UNCHANGED cont
RaisesAfter(r) ==
    /\ Botches(r, "raised")
    /\ UNCHANGED cont \/ Halt(req[r].slot) \/ Remove(req[r].slot)

(* stop_containers_for_slot_key_sync: 1 when the daemon does not answer, 0 *)
(* otherwise, also when a removal fails.                                   *)
ThreadStop(r) ==
    LET there == cont[req[r].slot].state # "none" IN
    /\ thr[r] = "stop"
    /\ \/ Remove(req[r].slot) /\ Result(r, "ok") /\ Works(r)
       \/ \E x \in {"ok", "err"} : Botches(r, x) /\ UNCHANGED cont
       \/ Botches(r, "ok") /\ Halt(req[r].slot)
       \/ RaisesBefore(r)
       \/ there /\ RaisesAfter(r)

(* _run_slot_sync: ping, then the old container of that name is removed.   *)
(* There is one when a restart came in between INSERT and submit(), or an  *)
(* earlier removal failed; then a failing ping or removal leaves it.       *)
ThreadClear(r) ==
    LET old == cont[req[r].slot].state # "none" IN
    /\ thr[r] = "clear"
    /\ \/ Remove(req[r].slot) /\ Thread(r, "run") /\ UNCHANGED req /\ Works(r)
       \/ ~old /\ Breaks(r, "err") /\ UNCHANGED cont
       \/ old /\ Botches(r, "err") /\ UNCHANGED cont
       \/ /\ old /\ Trouble /\ Spoil(req[r].slot) /\ Thread(r, "run")
          /\ UNCHANGED cont \/ Halt(req[r].slot)
          /\ UNCHANGED <<row, req, pc, halt, lockVars, forced>>
       \/ RaisesBefore(r)
       \/ old /\ RaisesAfter(r)

(* The image is pulled and containers.run creates and starts a container;  *)
(* when only the start fails (a port in use), the created one stays, and   *)
(* an answer that is not heard leaves it in any state.                     *)
ThreadRun(r) ==
    LET s == req[r].slot IN
    /\ thr[r] = "run"
    /\ \/ /\ cont[s].state = "none"
          /\ Container(s, "up", req[r].gpus)
          /\ Thread(r, "net") /\ UNCHANGED req /\ Works(r)
       \/ /\ cont[s].state # "none"
          /\ Result(r, "err") /\ UNCHANGED cont /\ Works(r)
       \/ /\ cont[s].state = "none"
          /\ Breaks(r, "err")
          /\ UNCHANGED cont \/ Container(s, "created", req[r].gpus)
       \/ /\ Botches(r, "raised")
          /\ \/ UNCHANGED cont
             \/ /\ cont[s].state = "none"
                /\ \E x \in {"created", "up"} : Container(s, x, req[r].gpus)

(* The container joins the network; without that network it is removed.    *)
ThreadNet(r) ==
    LET s == req[r].slot IN
    /\ thr[r] = "net"
    /\ \/ Result(r, "ok") /\ UNCHANGED cont /\ Works(r)
       \/ Breaks(r, "err") /\ Remove(s)
       \/ Botches(r, "err") /\ (UNCHANGED cont \/ Halt(s))
       \/ RaisesAfter(r)

-----------------------------------------------------------------------------
(* POST /runtime/slots/{key}/down?force=1: force_engine_slot_halt, at the  *)
(* grain of HaltCancel in JobRunner.tla, then its own removal.             *)

ForceCancel(s) ==
    LET victim == {r \in Requests : task[s] = r /\ pc[r] \in JobPcs} IN
    /\ halt[s] = "idle"
    /\ Trouble
    /\ pc' = [r \in Requests |-> IF r \in victim THEN "unwind" ELSE pc[r]]
    /\ thr' = [r \in Requests |-> IF r \in victim /\ thr[r] \in Answers
                                    THEN "none" ELSE thr[r]]
    /\ held' = held \ {s}
    /\ halt' = [halt EXCEPT ![s] = "stop"]
    /\ forced' = forced \cup {s}
    /\ dirty' = dirty \cup {s} /\ stuck' = stuck \cup {s}
    /\ UNCHANGED <<row, cont, req, task, window, excuse>>

ForceStop(s) ==
    /\ halt[s] = "stop"
    /\ halt' = [halt EXCEPT ![s] = "idle"]
    /\ \/ Remove(s) /\ UNCHANGED troubles
       \/ (UNCHANGED cont \/ Halt(s)) /\ Trouble
    /\ UNCHANGED <<row, reqVars, lockVars, histVars, forced>>

(* The web process dies with its threads and starts again; rows and        *)
(* containers stay as they are, and nothing reconciles them.               *)
Crash ==
    /\ Trouble
    /\ dirty' = dirty \cup {s \in Slots : JobOn(s)}
    /\ stuck' = stuck \cup {s \in Slots : JobOn(s) \/ \E r \in OnSlot(s) : pc[r] = "inserted"}
    /\ req' = [r \in Requests |-> Nothing]
    /\ pc' = [r \in Requests |-> "idle"]
    /\ thr' = [r \in Requests |-> "none"]
    /\ halt' = [s \in Slots |-> "idle"]
    /\ held' = {} /\ task' = [s \in Slots |-> NoReq]
    /\ window' = [r \in Requests |-> {}]
    /\ UNCHANGED <<row, cont, excuse, forced>>

ThreadProgress(r) == ThreadStop(r) \/ ThreadClear(r) \/ ThreadRun(r) \/ ThreadNet(r)
JobProgress(r) == \/ JobStop(r) \/ RestartUnknown(r) \/ JobStopped(r)
                  \/ JobStart(r) \/ JobStarted(r) \/ JobRaises(r) \/ JobEnds(r)
CreateProgress(r) == \/ CreateInsert(r) \/ CreateRefuse(r)
                     \/ CreateSubmit(r) \/ CreateConflict(r)

Next == \/ \E r \in Requests : \/ CreateCheck(r) \/ OtherSubmit(r)
                               \/ CreateProgress(r) \/ JobProgress(r)
                               \/ JobPrepFails(r) \/ JobMarkFails(r)
                               \/ ThreadProgress(r)
        \/ \E s \in Slots : ForceCancel(s) \/ ForceStop(s)
        \/ Crash

Spec == Init /\ [][Next]_vars

(* The event loop goes on with a request it has begun, and a Docker call   *)
(* ends some day, well or badly (docker-py has a timeout per call).        *)
Fairness == \A r \in Requests : /\ WF_vars(CreateProgress(r)) /\ WF_vars(JobProgress(r))
                                 /\ WF_vars(ThreadProgress(r))

FairSpec == Spec /\ Fairness

-----------------------------------------------------------------------------
(* Every variable has its type, and a row knows its GPUs from the start.   *)
TypeOK ==
    /\ row \in [Slots -> [status : RowStates, gpus : SUBSET GPUs]]
    /\ \A s \in Slots : row[s].gpus = {} <=> row[s].status = "none"
    /\ cont \in [Slots -> [state : ContStates, gpus : SUBSET GPUs]]
    /\ req \in [Requests -> {Nothing} \cup
           [kind : {"create", "down", "restart", "up"}, slot : Slots, gpus : SUBSET GPUs]]
    /\ pc \in [Requests -> HttpPcs \cup JobPcs]
    /\ thr \in [Requests -> ThrPcs]
    /\ halt \in [Slots -> {"idle", "stop"}]
    /\ held \subseteq Slots /\ task \in [Slots -> Requests \cup {NoReq}]
    /\ window \in [Requests -> SUBSET Slots] /\ excuse \subseteq SUBSET Slots
    /\ dirty \subseteq Slots /\ stuck \subseteq Slots /\ forced \subseteq Slots
    /\ troubles \in 0..MaxTroubles

(* Between jobs, the row says running exactly when the container is up,    *)
(* and on the same GPUs, however Docker refused a start, and even when a   *)
(* call raised before the container was touched.  The exceptions are a     *)
(* force halt, a crash, a container Docker failed to remove, a call that   *)
(* raised with the container touched, and a transaction of the job that    *)
(* failed.                                                                 *)
RowMatchesContainer ==
    /\ TypeOK
    /\ \A s \in Slots \ dirty :
         ~JobOn(s) =>
             /\ row[s].status = "running" <=> cont[s].state = "up"
             /\ row[s].status = "running" => cont[s].gpus = row[s].gpus

(* Two active rows share a GPU only if one became active between the       *)
(* other's availability check and its INSERT, came back by a restart, or   *)
(* was overlooked because the host's probe did not list that GPU.          *)
SharedGpuHasReason == \A s, t \in Slots : Shares(s, t) => {s, t} \in excuse

(* A slot that has been requested does not stay so: the job records        *)
(* how the start went, unless its preparation failed, its Docker call or   *)
(* its own transaction raised, a force halt or a crash cut it short, or it *)
(* was never admitted.                                                     *)
RequestedResolves ==
    \A s \in Slots :
        row[s].status = "requested" ~> (row[s].status # "requested" \/ s \in stuck)

-----------------------------------------------------------------------------
(* Slots as SlotService sees them: at work is a job, and a Docker thread   *)
(* whose job has gone.                                                     *)
AtWork(s) == {r \in OnSlot(s) : pc[r] \in JobPcs \/ thr[r] \in Working}

Service == INSTANCE SlotService WITH Workers <- Requests,
                                     work <- [s \in Slots |-> AtWork(s)],
                                     spoiled <- dirty

(* The HTTP handlers, jobs and Docker threads of all requests together     *)
(* implement SlotService: at most one of them works on a slot nobody       *)
(* forced, nobody else touches its container, what is written into its row *)
(* is true of the container at that moment and when the job leaves, and a  *)
(* slot is spoiled only by a trouble that befalls it.                      *)
ImplementsSlotService == Service!Spec

(* grace/verification/verification-plan.xml, scenario-24: GPUs that meet   *)
(* those of another requested row are refused.                             *)
NoDoubleBooking == \A s, t \in Slots : ~Shares(s, t)

(* web/CONTRACT.md, engine_slots: the job takes a requested row to running *)
(* or failed.  So a job that has come to its own end leaves none behind.   *)
JobDecidesRow ==
    \A r \in Requests : pc[r] = "exit" /\ req[r].kind = "create"
                           => row[req[r].slot].status # "requested"
=============================================================================
