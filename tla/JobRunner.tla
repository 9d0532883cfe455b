----------------------------- MODULE JobRunner ------------------------------
(***************************************************************************)
(* web/backend/app/services/jobs.py: the runner of background jobs.        *)
(*                                                                         *)
(* One process, one asyncio event loop.  A coroutine runs alone between    *)
(* two awaits that suspend it, so an action is the code between two such   *)
(* awaits, or one database statement that takes effect while a coroutine   *)
(* waits for it.  `async with _lock_guard` never suspends: no coroutine    *)
(* waits for anything while it owns the guard.  A session reads a row in   *)
(* one step and writes it at commit in another: the default SQLite engine  *)
(* (and READ COMMITTED elsewhere) lets another commit come in between.     *)
(*                                                                         *)
(* A job is a request to run one command on one key, that is one (scope,   *)
(* resource).  resource determines scope in slgpu_cli.py, so the query by  *)
(* resource in mark_resource_jobs_cancelled is a query by key.             *)
(***************************************************************************)
EXTENDS Naturals

CONSTANTS Jobs, Keys, KeyOf,
          NoJob,       \* "no task" in _task_by_lock and in a force halt
          MaxHalts,    \* bound: force halts in a behaviour
          MaxCrashes,  \* bound: process restarts in a behaviour
          MaxDbErrors  \* bound: transactions that fail in a behaviour

ASSUME JobRunnerAssumption ==
    /\ KeyOf \in [Jobs -> Keys]
    /\ NoJob \notin Jobs
    /\ MaxHalts \in Nat /\ MaxCrashes \in Nat /\ MaxDbErrors \in Nat

VARIABLES
    held,        \* _held
    taskOf,      \* _task_by_lock
    row,         \* jobs.status in the database
    sub,         \* where the submit() of each job is
    pc,          \* where the _run_job() task of each job is
    cancelReq,   \* tasks with a CancelledError still to be thrown into them
    cancelling,  \* tasks whose cancel() has been called (Task.cancelling() > 0)
    halt,        \* where the force halt of each key is
    sel,         \* rows the force halt has SELECTed and not yet committed
    tgt,         \* the task the force halt waits for
    forced,      \* history: keys whose jobs a force halt has cancelled
    halts, crashes, dbErrs

lockVars  == <<held, taskOf>>
taskVars  == <<pc, cancelReq, cancelling>>
haltVars  == <<halt, sel, tgt, forced, halts>>
faultVars == <<crashes, dbErrs>>
vars == <<held, taskOf, row, sub, pc, cancelReq, cancelling,
          halt, sel, tgt, forced, halts, crashes, dbErrs>>

Open     == {"queued", "running"}
Terminal == {"succeeded", "failed", "cancelled"}
Statuses == {"absent"} \cup Open \cup Terminal
SubPcs   == {"idle", "locked", "inserted", "spawned", "refused", "leaked", "gone"}

(* "fresh": created, not yet stepped; "read": row read, RUNNING not yet    *)
(* committed; "work": in the handler; "drain": the handler is done and     *)
(* waits for its log poller; "flush": the poller is gone; "final": row     *)
(* read by the finalizer; "exit": body over; "mark", "markRead": in        *)
(* _mark_job_cancelled before and after its read; "leave": it is over.     *)
Live   == {"fresh", "read", "work", "drain", "flush", "final", "exit",
           "mark", "markRead", "leave"}
TaskPcs == Live \cup {"none", "done"}
HaltPcs == {"idle", "selected", "marked", "waiting"}

InFlight(j) == sub[j] \in {"locked", "inserted"} \/ pc[j] \in Live
Owns(j)     == sub[j] = "leaked" \/ InFlight(j)
Of(k)       == {j \in Jobs : KeyOf[j] = k}

Init == /\ held = {}
        /\ taskOf = [k \in Keys |-> NoJob]
        /\ row = [j \in Jobs |-> "absent"]
        /\ sub = [j \in Jobs |-> "idle"]
        /\ pc = [j \in Jobs |-> "none"]
        /\ cancelReq = {} /\ cancelling = {}
        /\ halt = [k \in Keys |-> "idle"]
        /\ sel = [k \in Keys |-> {}]
        /\ tgt = [k \in Keys |-> NoJob]
        /\ forced = {}
        /\ halts = 0 /\ crashes = 0 /\ dbErrs = 0

-----------------------------------------------------------------------------
(* submit()                                                                *)

(* Mutant: the membership test of _acquire_lock is forgotten.              *)
SubmitLockUnchecked(j) ==
    /\ sub[j] = "idle"
    /\ held' = held \cup {KeyOf[j]}
    /\ sub' = [sub EXCEPT ![j] = "locked"]
    /\ UNCHANGED <<taskOf, row, taskVars, haltVars, faultVars>>

SubmitLock(j) ==
    /\ sub[j] = "idle"
    /\ KeyOf[j] \notin held
    /\ held' = held \cup {KeyOf[j]}
    /\ sub' = [sub EXCEPT ![j] = "locked"]
    /\ UNCHANGED <<taskOf, row, taskVars, haltVars, faultVars>>

(* JobConflictError, answered with 409.                                    *)
SubmitRefuse(j) ==
    /\ sub[j] = "idle"
    /\ KeyOf[j] \in held
    /\ sub' = [sub EXCEPT ![j] = "refused"]
    /\ UNCHANGED <<lockVars, row, taskVars, haltVars, faultVars>>

(* The Job row and its AuditEvent are committed together.                  *)
SubmitInsert(j) ==
    /\ sub[j] = "locked"
    /\ row' = [row EXCEPT ![j] = "queued"]
    /\ sub' = [sub EXCEPT ![j] = "inserted"]
    /\ UNCHANGED <<lockVars, taskVars, haltVars, faultVars>>

(* The INSERT or its commit raises.  No handler gives the lock back.       *)
SubmitInsertFails(j) ==
    /\ sub[j] = "locked"
    /\ dbErrs < MaxDbErrors
    /\ dbErrs' = dbErrs + 1
    /\ sub' = [sub EXCEPT ![j] = "leaked"]
    /\ UNCHANGED <<lockVars, row, taskVars, haltVars, crashes>>

(* Mutant: the task is created and not registered.                         *)
SubmitSpawnUnregistered(j) ==
    /\ sub[j] = "inserted"
    /\ sub' = [sub EXCEPT ![j] = "spawned"]
    /\ pc' = [pc EXCEPT ![j] = "fresh"]
    /\ UNCHANGED <<lockVars, row, cancelReq, cancelling, haltVars, faultVars>>

SubmitSpawn(j) ==
    /\ sub[j] = "inserted"
    /\ sub' = [sub EXCEPT ![j] = "spawned"]
    /\ pc' = [pc EXCEPT ![j] = "fresh"]
    /\ taskOf' = [taskOf EXCEPT ![KeyOf[j]] = j]
    /\ UNCHANGED <<held, row, cancelReq, cancelling, haltVars, faultVars>>

-----------------------------------------------------------------------------
(* _run_job(): body, handler, finalizer                                    *)

Goto(j, p) == pc' = [pc EXCEPT ![j] = p]

(* _run_job_body reads the row and returns at once when it is CANCELLED.   *)
TaskStart(j) ==
    /\ pc[j] = "fresh" /\ j \notin cancelReq
    /\ Goto(j, IF row[j] = "cancelled" THEN "exit" ELSE "read")
    /\ UNCHANGED <<lockVars, row, sub, cancelReq, cancelling, haltVars, faultVars>>

(* Its commit, which a cancellation on the way no longer stops.            *)
TaskRunning(j) ==
    /\ pc[j] = "read"
    /\ row' = [row EXCEPT ![j] = "running"]
    /\ Goto(j, "work")
    /\ UNCHANGED <<lockVars, sub, cancelReq, cancelling, haltVars, faultVars>>

(* Mutant: a handler that returns without its finalizer.                   *)
TaskHandlerForgetsRow(j) ==
    /\ pc[j] = "work" /\ j \notin cancelReq
    /\ Goto(j, "exit")
    /\ UNCHANGED <<lockVars, row, sub, cancelReq, cancelling, haltVars, faultVars>>

(* The handler's own work is over, with whatever exit code.                *)
TaskHandlerReturns(j) ==
    /\ pc[j] = "work" /\ j \notin cancelReq
    /\ Goto(j, "drain")
    /\ UNCHANGED <<lockVars, row, sub, cancelReq, cancelling, haltVars, faultVars>>

(* handle_native_job waits for the poller under an except clause that      *)
(* takes CancelledError too: a cancel() that arrives here is swallowed.    *)
TaskSwallowsCancel(j) ==
    /\ pc[j] = "drain" /\ j \in cancelReq
    /\ cancelReq' = cancelReq \ {j}
    /\ Goto(j, "flush")
    /\ UNCHANGED <<lockVars, row, sub, cancelling, haltVars, faultVars>>

(* _finalize_native_job reads the row; a CANCELLED one is left alone.      *)
TaskFinalRead(j) ==
    /\ pc[j] \in {"drain", "flush"} /\ j \notin cancelReq
    /\ Goto(j, IF row[j] = "cancelled" THEN "exit" ELSE "final")
    /\ UNCHANGED <<lockVars, row, sub, cancelReq, cancelling, haltVars, faultVars>>

TaskFinalCommit(j) ==
    /\ pc[j] = "final"
    /\ \E outcome \in {"succeeded", "failed"} : row' = [row EXCEPT ![j] = outcome]
    /\ Goto(j, "exit")
    /\ UNCHANGED <<lockVars, sub, cancelReq, cancelling, haltVars, faultVars>>

(* A transaction of the task raises: _run_job has no except for it.        *)
TaskDbFails(j) ==
    /\ pc[j] \in {"fresh", "read", "work", "drain", "flush", "final"}
    /\ pc[j] = "fresh" => j \notin cancelReq
    /\ dbErrs < MaxDbErrors
    /\ dbErrs' = dbErrs + 1
    /\ Goto(j, "exit")
    /\ UNCHANGED <<lockVars, row, sub, cancelReq, cancelling, haltVars, crashes>>

(* Mutant: the finally forgets _release_lock.                              *)
FinallyKeepsLock(j) ==
    /\ UNCHANGED held
    /\ taskOf' = [taskOf EXCEPT ![KeyOf[j]] = NoJob]
    /\ Goto(j, "done")

(* The finally of _run_job: by key, whoever owns the key by now.           *)
Finally(j) ==
    /\ held' = held \ {KeyOf[j]}
    /\ taskOf' = [taskOf EXCEPT ![KeyOf[j]] = NoJob]
    /\ Goto(j, "done")

TaskExit(j) ==
    /\ pc[j] = "exit" /\ j \notin cancelReq
    /\ Finally(j)
    /\ UNCHANGED <<row, sub, cancelReq, cancelling, haltVars, faultVars>>

-----------------------------------------------------------------------------
(* _run_job(): cancellation                                                *)

(* A task cancelled before its first step never enters its try block: no   *)
(* finally, no _mark_job_cancelled.                                        *)
TaskDiesUnstarted(j) ==
    /\ pc[j] = "fresh" /\ j \in cancelReq
    /\ cancelReq' = cancelReq \ {j}
    /\ Goto(j, "done")
    /\ UNCHANGED <<lockVars, row, sub, cancelling, haltVars, faultVars>>

TaskCancelled(j) ==
    /\ pc[j] \in {"read", "work", "flush", "final", "exit"} /\ j \in cancelReq
    /\ cancelReq' = cancelReq \ {j}
    /\ Goto(j, "mark")
    /\ UNCHANGED <<lockVars, row, sub, cancelling, haltVars, faultVars>>

(* The handler's finally may wait for the poller on the way out, and a     *)
(* second cancel() that arrives there is swallowed.                        *)
TaskSwallowsSecond(j) ==
    /\ pc[j] = "mark" /\ j \in cancelReq
    /\ cancelReq' = cancelReq \ {j}
    /\ UNCHANGED <<lockVars, row, sub, pc, cancelling, haltVars, faultVars>>

TaskMarkRead(j) ==
    /\ pc[j] = "mark" /\ j \notin cancelReq
    /\ Goto(j, IF row[j] \in Terminal THEN "leave" ELSE "markRead")
    /\ UNCHANGED <<lockVars, row, sub, cancelReq, cancelling, haltVars, faultVars>>

TaskMarkCommit(j) ==
    /\ pc[j] = "markRead"
    /\ row' = [row EXCEPT ![j] = "cancelled"]
    /\ Goto(j, "leave")
    /\ UNCHANGED <<lockVars, sub, cancelReq, cancelling, haltVars, faultVars>>

(* The end of the cancelled task: the mark is over, or a second cancel()   *)
(* or a failing transaction breaks it off.                                 *)
TaskLeave(j) ==
    /\ \/ pc[j] = "leave" /\ UNCHANGED dbErrs
       \/ pc[j] \in {"mark", "markRead"} /\ j \in cancelReq /\ UNCHANGED dbErrs
       \/ /\ pc[j] \in {"mark", "markRead"}
          /\ dbErrs < MaxDbErrors /\ dbErrs' = dbErrs + 1
    /\ Finally(j)
    /\ cancelReq' = cancelReq \ {j}
    /\ UNCHANGED <<row, sub, cancelling, haltVars, crashes>>

-----------------------------------------------------------------------------
(* force_engine_slot_halt(), force_model_pull_halt()                       *)

HaltSelect(k) ==
    /\ halt[k] = "idle" /\ halts < MaxHalts
    /\ halts' = halts + 1
    /\ sel' = [sel EXCEPT ![k] = {j \in Of(k) : row[j] \in Open}]
    /\ halt' = [halt EXCEPT ![k] = "selected"]
    /\ UNCHANGED <<lockVars, row, sub, taskVars, tgt, forced, faultVars>>

HaltMark(k) ==
    /\ halt[k] = "selected"
    /\ row' = [j \in Jobs |-> IF j \in sel[k] THEN "cancelled" ELSE row[j]]
    /\ sel' = [sel EXCEPT ![k] = {}]
    /\ halt' = [halt EXCEPT ![k] = "marked"]
    /\ forced' = forced \cup {k}
    /\ UNCHANGED <<lockVars, sub, taskVars, tgt, halts, faultVars>>

HaltFails(k) ==
    /\ halt[k] = "selected" /\ dbErrs < MaxDbErrors
    /\ dbErrs' = dbErrs + 1
    /\ sel' = [sel EXCEPT ![k] = {}]
    /\ halt' = [halt EXCEPT ![k] = "idle"]
    /\ UNCHANGED <<lockVars, row, sub, taskVars, tgt, forced, halts, crashes>>

(* The registered task, unless it is done.                                 *)
Victims(k) == {j \in Jobs : taskOf[k] = j /\ pc[j] # "done"}

(* Mutant: the lock is left to the finally of the cancelled task.          *)
HaltCancelKeepsLock(k) ==
    /\ halt[k] = "marked"
    /\ cancelReq' = cancelReq \cup Victims(k)
    /\ cancelling' = cancelling \cup Victims(k)
    /\ halt' = [halt EXCEPT ![k] = IF Victims(k) = {} THEN "idle" ELSE "waiting"]
    /\ tgt' = [tgt EXCEPT ![k] = IF Victims(k) = {} THEN NoJob ELSE taskOf[k]]
    /\ UNCHANGED <<lockVars, row, sub, pc, sel, forced, halts, faultVars>>

(* t.cancel() and _release_lock in one go; stopping the containers and     *)
(* waiting for t follow.                                                   *)
HaltCancel(k) ==
    /\ halt[k] = "marked"
    /\ cancelReq' = cancelReq \cup Victims(k)
    /\ cancelling' = cancelling \cup Victims(k)
    /\ held' = held \ {k}
    /\ IF Victims(k) = {}
         THEN halt' = [halt EXCEPT ![k] = "idle"] /\ UNCHANGED tgt
         ELSE /\ halt' = [halt EXCEPT ![k] = "waiting"]
              /\ tgt' = [tgt EXCEPT ![k] = taskOf[k]]
    /\ UNCHANGED <<taskOf, row, sub, pc, sel, forced, halts, faultVars>>

(* wait_for(t, 1 s): t ends in time, or is cancelled once more.            *)
HaltWaited(k) ==
    /\ halt[k] = "waiting"
    /\ \/ pc[tgt[k]] = "done" /\ UNCHANGED cancelReq
       \/ pc[tgt[k]] # "done" /\ cancelReq' = cancelReq \cup {tgt[k]}
    /\ halt' = [halt EXCEPT ![k] = "idle"]
    /\ tgt' = [tgt EXCEPT ![k] = NoJob]
    /\ UNCHANGED <<lockVars, row, sub, pc, cancelling, sel, forced, halts, faultVars>>

-----------------------------------------------------------------------------
(* The process dies and starts again.  _held and _task_by_lock are module  *)
(* globals; init_db and the lifespan hook leave the rows of jobs alone.    *)
Restart ==
    /\ crashes < MaxCrashes
    /\ crashes' = crashes + 1
    /\ held' = {}
    /\ taskOf' = [k \in Keys |-> NoJob]
    /\ sub' = [j \in Jobs |-> IF sub[j] \in {"locked", "inserted", "leaked"}
                                THEN "gone" ELSE sub[j]]
    /\ pc' = [j \in Jobs |-> IF pc[j] \in Live THEN "done" ELSE pc[j]]
    /\ cancelReq' = {}
    /\ cancelling' = {}
    /\ halt' = [k \in Keys |-> "idle"]
    /\ sel' = [k \in Keys |-> {}]
    /\ tgt' = [k \in Keys |-> NoJob]
    /\ UNCHANGED <<row, forced, halts, dbErrs>>

(* Requests come when they come: only a submit() under way is fair.        *)
SubmitArrives(j)  == SubmitLock(j) \/ SubmitRefuse(j)
SubmitProgress(j) == SubmitInsert(j) \/ SubmitSpawn(j)

TaskProgress(j) ==
    \/ TaskStart(j) \/ TaskRunning(j) \/ TaskHandlerReturns(j) \/ TaskSwallowsCancel(j)
    \/ TaskFinalRead(j) \/ TaskFinalCommit(j) \/ TaskExit(j)
    \/ TaskDiesUnstarted(j) \/ TaskCancelled(j) \/ TaskSwallowsSecond(j)
    \/ TaskMarkRead(j) \/ TaskMarkCommit(j) \/ TaskLeave(j)

HaltProgress(k) == HaltMark(k) \/ HaltCancel(k) \/ HaltWaited(k)

Next == \/ \E j \in Jobs : \/ SubmitArrives(j) \/ SubmitProgress(j) \/ SubmitInsertFails(j)
                           \/ TaskProgress(j) \/ TaskDbFails(j)
        \/ \E k \in Keys : HaltSelect(k) \/ HaltProgress(k) \/ HaltFails(k)
        \/ Restart

Spec == Init /\ [][Next]_vars

(* The event loop resumes every coroutine whose await is over, and every   *)
(* await is over some day: the database answers and handlers return.       *)
Fairness == /\ \A j \in Jobs : WF_vars(SubmitProgress(j)) /\ WF_vars(TaskProgress(j))
            /\ \A k \in Keys : WF_vars(HaltProgress(k))

FairSpec == Spec /\ Fairness

-----------------------------------------------------------------------------
(* Every variable has its type, and a force halt waits for a task exactly  *)
(* when it has found one.                                                  *)
TypeOK ==
    /\ held \subseteq Keys
    /\ taskOf \in [Keys -> Jobs \cup {NoJob}]
    /\ row \in [Jobs -> Statuses]
    /\ sub \in [Jobs -> SubPcs]
    /\ pc \in [Jobs -> TaskPcs]
    /\ cancelReq \subseteq Jobs /\ cancelling \subseteq Jobs
    /\ halt \in [Keys -> HaltPcs]
    /\ sel \in [Keys -> SUBSET Jobs]
    /\ tgt \in [Keys -> Jobs \cup {NoJob}]
    /\ \A k \in Keys : halt[k] = "waiting" <=> tgt[k] # NoJob
    /\ forced \subseteq Keys
    /\ halts \in 0..MaxHalts /\ crashes \in 0..MaxCrashes /\ dbErrs \in 0..MaxDbErrors

(* jobs.py:33, "one in-flight job per (scope, resource)": two jobs of one  *)
(* key never own it together, from the lock to the end of the task, unless *)
(* the key has been forced.                                                *)
OneInFlight ==
    \A i, j \in Jobs :
        i # j /\ KeyOf[i] = KeyOf[j] /\ KeyOf[i] \notin forced
            => ~(Owns(i) /\ Owns(j))

(* A key in _held has an owner that will give it back: a submit() or a     *)
(* task in flight that no force halt has cancelled.  The one way to leak a *)
(* key is an INSERT that fails between the lock and the task.              *)
NoLeakedLock ==
    \A k \in held : \E j \in Of(k) :
        sub[j] = "leaked" \/ (InFlight(j) /\ j \notin cancelling)

(* As long as nobody forces, crashes or loses a transaction, a row that    *)
(* says queued or running has a coroutine that will move it on.            *)
NoOrphanRow ==
    halts = 0 /\ crashes = 0 /\ dbErrs = 0
        => \A j \in Jobs : row[j] \in Open => InFlight(j)

(* The registry has every live task of a key that was not forced before.   *)
AllRegistered ==
    \A j \in Jobs :
        pc[j] \in Live /\ KeyOf[j] \notin forced => taskOf[KeyOf[j]] = j

(* The first force halt of a key finds whatever task runs on it, because   *)
(* the task is in the registry.  The state is well typed on the way.       *)
FirstHaltFindsTask == TypeOK /\ AllRegistered

(* In the end no key is held: whatever halts and cancellations happened,   *)
(* the resource can be worked on again (without failing transactions).     *)
KeysFreed == <>[](held = {})

(* A job whose row was inserted ends with a terminal status, unless its    *)
(* key is forced.                                                          *)
EndsUnlessForced ==
    \A j \in Jobs :
        row[j] = "queued" ~> (row[j] \in Terminal \/ KeyOf[j] \in forced)

-----------------------------------------------------------------------------
(* The runner implements JobService: a request is active from the lock to  *)
(* the finally of its task, and a leaked lock is a job that never ends.    *)
PhaseOf(j) == CASE sub[j] = "idle" -> "idle"
                [] sub[j] = "refused" -> "refused"
                [] Owns(j) -> "active"
                [] OTHER -> "over"

Service == INSTANCE JobService WITH phase <- [j \in Jobs |-> PhaseOf(j)],
                                    status <- row

(* Every step of the runner is a step of JobService: a 409 is answered     *)
(* only while another job is in flight, and statuses move as they may.     *)
ImplementsJobService == Service!Spec

(* docs/HISTORY.md:1651: _finalize_native_job does not overwrite CANCELLED.*)
CancelledNotOverwritten ==
    [][\A j \in Jobs : row[j] = "cancelled" => row'[j] \notin {"succeeded", "failed"}]_vars

(* web/CONTRACT.md, one mutating job per scope and resource: no two        *)
(* handlers that nobody has cancelled work on the same key.                *)
OneHandlerPerKey ==
    \A i, j \in Jobs :
        i # j /\ KeyOf[i] = KeyOf[j]
            => ~(/\ pc[i] = "work" /\ i \notin cancelReq
                 /\ pc[j] = "work" /\ j \notin cancelReq)
=============================================================================
