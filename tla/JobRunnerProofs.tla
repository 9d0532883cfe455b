--------------------------- MODULE JobRunnerProofs --------------------------
(***************************************************************************)
(* Proofs about JobRunner for any set of jobs and keys and any bounds.     *)
(*                                                                         *)
(* None of the safety properties of JobRunner is inductive.  IInv adds     *)
(* what they rest on: how far submit() and the task of a job are tells     *)
(* what its row can say (Progress), what the registry points at            *)
(* (Registration), and that cancellation only comes from a force halt of   *)
(* the same key (Cancellation).                                            *)
(***************************************************************************)
EXTENDS JobRunner, TLAPS

USE JobRunnerAssumption

(* The row of a job follows its coroutines.                                *)
Progress ==
    \A j \in Jobs :
        /\ sub[j] = "spawned" <=> pc[j] # "none"
        /\ sub[j] \in {"idle", "refused", "locked", "leaked"} => row[j] = "absent"
        /\ sub[j] = "inserted" => row[j] \in {"queued", "cancelled"}
        /\ sub[j] = "spawned" => row[j] # "absent"
        /\ pc[j] \in {"fresh", "read"} => row[j] \in {"queued", "cancelled"}
        /\ pc[j] \in {"work", "drain", "flush", "final"} => row[j] \in {"running", "cancelled"}

(* _task_by_lock has, under a key, a task that was created for it.         *)
Registration ==
    \A k \in Keys : taskOf[k] # NoJob => /\ KeyOf[taskOf[k]] = k
                                         /\ sub[taskOf[k]] = "spawned"

(* Only a force halt cancels, and only tasks and rows of its key.          *)
Cancellation ==
    /\ cancelReq \subseteq cancelling
    /\ \A j \in cancelling : KeyOf[j] \in forced /\ sub[j] = "spawned"
    /\ \A j \in Jobs : pc[j] \in {"mark", "markRead", "leave"} => j \in cancelling
    /\ \A j \in Jobs : row[j] = "cancelled" => KeyOf[j] \in forced
    /\ \A k \in Keys : halt[k] \in {"marked", "waiting"} => k \in forced
    /\ \A k \in Keys : tgt[k] # NoJob => tgt[k] \in cancelling
    /\ \A k \in Keys : \A j \in sel[k] : KeyOf[j] = k /\ row[j] # "absent"
    /\ halts = 0 => forced = {} /\ \A k \in Keys : halt[k] = "idle"

(* Who owns a key nobody forced has it in _held, alone.                    *)
Ownership ==
    /\ OneInFlight
    /\ \A j \in Jobs : Owns(j) /\ KeyOf[j] \notin forced => KeyOf[j] \in held

(* An undisturbed task leaves with its row settled.                        *)
Settled ==
    halts = 0 /\ dbErrs = 0 => \A j \in Jobs : pc[j] = "exit" => row[j] \in Terminal

IInv == /\ TypeOK
        /\ Progress
        /\ Registration
        /\ Cancellation
        /\ Ownership
        /\ NoLeakedLock
        /\ AllRegistered
        /\ Settled
        /\ NoOrphanRow

-----------------------------------------------------------------------------
(* The invariant holds at the start and is kept, part by part.             *)
LEMMA InitIInv == Init => IInv
<1>1. Init => TypeOK BY DEF Init, TypeOK, Statuses, Open, Terminal, SubPcs, TaskPcs, Live, HaltPcs
<1>2. Init => Progress BY DEF Init, Progress
<1>3. Init => Registration BY DEF Init, Registration
<1>4. Init => Cancellation BY DEF Init, Cancellation
<1>5. Init => Ownership BY DEF Init, Ownership, OneInFlight, Owns, InFlight, Live
<1>6. Init => NoLeakedLock BY DEF Init, NoLeakedLock
<1>7. Init => AllRegistered BY DEF Init, AllRegistered, Live
<1>8. Init => Settled /\ NoOrphanRow BY DEF Init, Settled, NoOrphanRow, Open
<1> QED BY <1>1, <1>2, <1>3, <1>4, <1>5, <1>6, <1>7, <1>8 DEF IInv

(* Every step keeps the types.                                            *)
LEMMA TypeStep == TypeOK /\ [Next]_vars => TypeOK'
<1> SUFFICES ASSUME TypeOK, [Next]_vars PROVE TypeOK'
  OBVIOUS
<1> USE DEF TypeOK, Statuses, Open, Terminal, SubPcs, TaskPcs, Live, HaltPcs,
            lockVars, taskVars, haltVars, faultVars, Goto, Finally
<1>1. ASSUME NEW j \in Jobs, SubmitArrives(j) \/ SubmitProgress(j) \/ SubmitInsertFails(j)
      PROVE  TypeOK'
  BY <1>1 DEF SubmitArrives, SubmitProgress, SubmitLock, SubmitRefuse, SubmitInsert,
     SubmitInsertFails, SubmitSpawn
<1>2. ASSUME NEW j \in Jobs, TaskProgress(j) \/ TaskDbFails(j)
      PROVE  TypeOK'
  BY <1>2 DEF TaskProgress, TaskDbFails, TaskStart, TaskRunning, TaskHandlerReturns,
     TaskSwallowsCancel, TaskFinalRead, TaskFinalCommit, TaskExit, TaskDiesUnstarted,
     TaskCancelled, TaskSwallowsSecond, TaskMarkRead, TaskMarkCommit, TaskLeave
<1>3. ASSUME NEW k \in Keys, HaltSelect(k) \/ HaltProgress(k) \/ HaltFails(k)
      PROVE  TypeOK'
  BY <1>3 DEF HaltProgress, HaltSelect, HaltFails, HaltMark, HaltCancel, HaltWaited, Victims, Of
<1>4. CASE Restart
  BY <1>4 DEF Restart
<1>5. CASE UNCHANGED vars
  BY <1>5 DEF vars
<1> QED BY <1>1, <1>2, <1>3, <1>4, <1>5 DEF Next

(* Rows are written by submit(), the task, its mark and a force halt, each *)
(* at its own place.                                                       *)
LEMMA ProgressStep ==
    ASSUME TypeOK, Progress, Cancellation, [Next]_vars
    PROVE  Progress'
<1> USE DEF TypeOK, Progress, Cancellation, Live, lockVars, taskVars, haltVars, faultVars,
        Goto, Finally
<1>1. ASSUME NEW j \in Jobs, SubmitLock(j) PROVE Progress'
  BY <1>1 DEF SubmitLock
<1>2. ASSUME NEW j \in Jobs, SubmitRefuse(j) PROVE Progress'
  BY <1>2 DEF SubmitRefuse
<1>3. ASSUME NEW j \in Jobs, SubmitInsert(j) PROVE Progress'
  BY <1>3 DEF SubmitInsert
<1>4. ASSUME NEW j \in Jobs, SubmitInsertFails(j) PROVE Progress'
  BY <1>4 DEF SubmitInsertFails
<1>5. ASSUME NEW j \in Jobs, SubmitSpawn(j) PROVE Progress'
  BY <1>5 DEF SubmitSpawn
<1>6. ASSUME NEW j \in Jobs, TaskStart(j) PROVE Progress'
  BY <1>6 DEF TaskStart
<1>7. ASSUME NEW j \in Jobs, TaskRunning(j) PROVE Progress'
  BY <1>7 DEF TaskRunning
<1>8. ASSUME NEW j \in Jobs, TaskHandlerReturns(j) PROVE Progress'
  BY <1>8 DEF TaskHandlerReturns
<1>9. ASSUME NEW j \in Jobs, TaskSwallowsCancel(j) PROVE Progress'
  BY <1>9 DEF TaskSwallowsCancel
<1>10. ASSUME NEW j \in Jobs, TaskFinalRead(j) PROVE Progress'
  BY <1>10 DEF TaskFinalRead
<1>11. ASSUME NEW j \in Jobs, TaskFinalCommit(j) PROVE Progress'
  BY <1>11 DEF TaskFinalCommit
<1>12. ASSUME NEW j \in Jobs, TaskDbFails(j) PROVE Progress'
  BY <1>12 DEF TaskDbFails
<1>13. ASSUME NEW j \in Jobs, TaskExit(j) PROVE Progress'
  BY <1>13 DEF TaskExit
<1>14. ASSUME NEW j \in Jobs, TaskDiesUnstarted(j) PROVE Progress'
  BY <1>14 DEF TaskDiesUnstarted
<1>15. ASSUME NEW j \in Jobs, TaskCancelled(j) PROVE Progress'
  BY <1>15 DEF TaskCancelled
<1>16. ASSUME NEW j \in Jobs, TaskMarkRead(j) PROVE Progress'
  BY <1>16 DEF TaskMarkRead
<1>17. ASSUME NEW j \in Jobs, TaskMarkCommit(j) PROVE Progress'
  BY <1>17 DEF TaskMarkCommit
<1>18. ASSUME NEW j \in Jobs, TaskLeave(j) PROVE Progress'
  BY <1>18 DEF TaskLeave
<1>19. ASSUME NEW k \in Keys, HaltMark(k) PROVE Progress'
  BY <1>19 DEF HaltMark
<1>20. ASSUME NEW j \in Jobs,
             TaskSwallowsSecond(j)
      PROVE  Progress'
  BY <1>20
  DEF TaskSwallowsSecond
<1>21. ASSUME NEW k \in Keys,
             HaltSelect(k) \/ HaltFails(k) \/ HaltCancel(k) \/
             HaltWaited(k)
      PROVE  Progress'
  BY <1>21
  DEF HaltSelect, HaltFails, HaltCancel, HaltWaited
<1>22. CASE Restart
  BY <1>22 DEF Restart
<1>23. CASE UNCHANGED vars
  BY <1>23 DEF vars
<1> QED
  BY <1>1, <1>2, <1>3, <1>4, <1>5, <1>6, <1>7, <1>8, <1>9, <1>10,
     <1>11, <1>12, <1>13, <1>14, <1>15, <1>16, <1>17, <1>18, <1>19, <1>20,
     <1>21, <1>22, <1>23
  DEF Next, SubmitArrives, SubmitProgress, TaskProgress, HaltProgress

(* Only submit() registers; Finally and Restart remove.                   *)
LEMMA RegistrationStep ==
    ASSUME TypeOK, Progress, Registration, [Next]_vars
    PROVE  Registration'
<1> USE DEF TypeOK, Progress, Registration, lockVars, taskVars, haltVars, faultVars, Goto, Finally
<1>1. ASSUME NEW j \in Jobs, SubmitLock(j) PROVE Registration'
  BY <1>1 DEF SubmitLock
<1>2. ASSUME NEW j \in Jobs, SubmitRefuse(j) PROVE Registration'
  BY <1>2 DEF SubmitRefuse
<1>3. ASSUME NEW j \in Jobs, SubmitInsert(j) PROVE Registration'
  BY <1>3 DEF SubmitInsert
<1>4. ASSUME NEW j \in Jobs, SubmitInsertFails(j) PROVE Registration'
  BY <1>4 DEF SubmitInsertFails
<1>5. ASSUME NEW j \in Jobs, SubmitSpawn(j) PROVE Registration'
  BY <1>5 DEF SubmitSpawn
<1>6. ASSUME NEW j \in Jobs, TaskExit(j) PROVE Registration'
  BY <1>6 DEF TaskExit
<1>7. ASSUME NEW j \in Jobs, TaskLeave(j) PROVE Registration'
  BY <1>7 DEF TaskLeave
<1>8. ASSUME NEW j \in Jobs,
             TaskStart(j) \/ TaskRunning(j) \/ TaskHandlerReturns(j) \/
             TaskSwallowsCancel(j) \/ TaskFinalRead(j) \/ TaskFinalCommit(j) \/
             TaskDbFails(j) \/ TaskDiesUnstarted(j) \/ TaskCancelled(j) \/
             TaskSwallowsSecond(j) \/ TaskMarkRead(j) \/ TaskMarkCommit(j)
      PROVE  Registration'
  BY <1>8
  DEF TaskStart, TaskRunning, TaskHandlerReturns, TaskSwallowsCancel,
      TaskFinalRead, TaskFinalCommit, TaskDbFails, TaskDiesUnstarted,
      TaskCancelled, TaskSwallowsSecond, TaskMarkRead, TaskMarkCommit
<1>9. ASSUME NEW k \in Keys,
             HaltSelect(k) \/ HaltMark(k) \/ HaltFails(k) \/
             HaltCancel(k) \/ HaltWaited(k)
      PROVE  Registration'
  BY <1>9
  DEF HaltSelect, HaltMark, HaltFails, HaltCancel,
      HaltWaited
<1>10. CASE Restart
  BY <1>10 DEF Restart
<1>11. CASE UNCHANGED vars
  BY <1>11 DEF vars
<1> QED
  BY <1>1, <1>2, <1>3, <1>4, <1>5, <1>6, <1>7, <1>8, <1>9, <1>10,
     <1>11
  DEF Next, SubmitArrives, SubmitProgress, TaskProgress, HaltProgress

(* A force halt cancels what the registry holds under its key, after it    *)
(* has put the key among the forced ones.                                  *)
LEMMA CancellationStep ==
    ASSUME TypeOK, Progress, Registration, Cancellation, [Next]_vars
    PROVE  Cancellation'
<1> USE DEF TypeOK, Progress, Registration, Cancellation, Live, lockVars, taskVars, haltVars,
        faultVars, Goto, Finally
<1>1. ASSUME NEW j \in Jobs, SubmitInsert(j) PROVE Cancellation'
  BY <1>1 DEF SubmitInsert
<1>2. ASSUME NEW j \in Jobs, SubmitSpawn(j) PROVE Cancellation'
  BY <1>2 DEF SubmitSpawn
<1>3. ASSUME NEW j \in Jobs, TaskStart(j) PROVE Cancellation'
  BY <1>3 DEF TaskStart
<1>4. ASSUME NEW j \in Jobs, TaskRunning(j) PROVE Cancellation'
  BY <1>4 DEF TaskRunning
<1>5. ASSUME NEW j \in Jobs, TaskSwallowsCancel(j) PROVE Cancellation'
  BY <1>5 DEF TaskSwallowsCancel
<1>6. ASSUME NEW j \in Jobs, TaskFinalRead(j) PROVE Cancellation'
  BY <1>6 DEF TaskFinalRead
<1>7. ASSUME NEW j \in Jobs, TaskFinalCommit(j) PROVE Cancellation'
  BY <1>7 DEF TaskFinalCommit
<1>8. ASSUME NEW j \in Jobs, TaskDiesUnstarted(j) PROVE Cancellation'
  BY <1>8 DEF TaskDiesUnstarted
<1>9. ASSUME NEW j \in Jobs, TaskCancelled(j) PROVE Cancellation'
  BY <1>9 DEF TaskCancelled
<1>10. ASSUME NEW j \in Jobs, TaskSwallowsSecond(j) PROVE Cancellation'
  BY <1>10 DEF TaskSwallowsSecond
<1>11. ASSUME NEW j \in Jobs, TaskMarkRead(j) PROVE Cancellation'
  BY <1>11 DEF TaskMarkRead
<1>12. ASSUME NEW j \in Jobs, TaskMarkCommit(j) PROVE Cancellation'
  BY <1>12 DEF TaskMarkCommit
<1>13. ASSUME NEW j \in Jobs, TaskLeave(j) PROVE Cancellation'
  BY <1>13 DEF TaskLeave
<1>14. ASSUME NEW k \in Keys, HaltSelect(k) PROVE Cancellation'
  BY <1>14 DEF HaltSelect, Of, Open
<1>15. ASSUME NEW k \in Keys, HaltMark(k) PROVE Cancellation'
  BY <1>15 DEF HaltMark
<1>16. ASSUME NEW k \in Keys, HaltFails(k) PROVE Cancellation'
  BY <1>16 DEF HaltFails
<1>17. ASSUME NEW k \in Keys, HaltCancel(k) PROVE Cancellation'
  BY <1>17 DEF HaltCancel, Victims
<1>18. ASSUME NEW k \in Keys, HaltWaited(k) PROVE Cancellation'
  BY <1>18 DEF HaltWaited
<1>19. ASSUME NEW j \in Jobs,
             SubmitLock(j) \/ SubmitRefuse(j) \/ SubmitInsertFails(j) \/
             TaskHandlerReturns(j) \/ TaskDbFails(j) \/ TaskExit(j)
      PROVE  Cancellation'
  BY <1>19
  DEF SubmitLock, SubmitRefuse, SubmitInsertFails, TaskHandlerReturns,
      TaskDbFails, TaskExit
<1>20. CASE Restart
  BY <1>20 DEF Restart
<1>21. CASE UNCHANGED vars
  BY <1>21 DEF vars
<1> QED
  BY <1>1, <1>2, <1>3, <1>4, <1>5, <1>6, <1>7, <1>8, <1>9, <1>10,
     <1>11, <1>12, <1>13, <1>14, <1>15, <1>16, <1>17, <1>18, <1>19, <1>20,
     <1>21
  DEF Next, SubmitArrives, SubmitProgress, TaskProgress, HaltProgress

(* Only SubmitLock starts a flight, with the key in hand; only Finally and  *)
(* a halt of a forced key take a key back.                                 *)
LEMMA OwnershipStep ==
    ASSUME TypeOK, Progress, Cancellation, Ownership, [Next]_vars
    PROVE  Ownership'
<1> USE DEF TypeOK, Progress, Cancellation, Ownership, OneInFlight, Owns, InFlight, Live,
        lockVars, taskVars, haltVars, faultVars, Goto, Finally
<1>1. ASSUME NEW j \in Jobs, SubmitLock(j) PROVE Ownership'
  BY <1>1 DEF SubmitLock
<1>2. ASSUME NEW j \in Jobs, SubmitRefuse(j) PROVE Ownership'
  BY <1>2 DEF SubmitRefuse
<1>3. ASSUME NEW j \in Jobs, SubmitInsert(j) PROVE Ownership'
  BY <1>3 DEF SubmitInsert
<1>4. ASSUME NEW j \in Jobs, SubmitInsertFails(j) PROVE Ownership'
  BY <1>4 DEF SubmitInsertFails
<1>5. ASSUME NEW j \in Jobs, SubmitSpawn(j) PROVE Ownership'
  BY <1>5 DEF SubmitSpawn
<1>6. ASSUME NEW j \in Jobs, TaskExit(j) PROVE Ownership'
  BY <1>6 DEF TaskExit
<1>7. ASSUME NEW j \in Jobs, TaskDiesUnstarted(j) PROVE Ownership'
  BY <1>7 DEF TaskDiesUnstarted
<1>8. ASSUME NEW j \in Jobs, TaskLeave(j) PROVE Ownership'
  BY <1>8 DEF TaskLeave
<1>9. ASSUME NEW k \in Keys, HaltMark(k) PROVE Ownership'
  BY <1>9 DEF HaltMark
<1>10. ASSUME NEW k \in Keys, HaltCancel(k) PROVE Ownership'
  BY <1>10 DEF HaltCancel
<1>11. ASSUME NEW j \in Jobs,
             TaskStart(j) \/ TaskRunning(j) \/ TaskHandlerReturns(j) \/
             TaskSwallowsCancel(j) \/ TaskFinalRead(j) \/ TaskFinalCommit(j) \/
             TaskDbFails(j) \/ TaskCancelled(j) \/ TaskSwallowsSecond(j) \/
             TaskMarkRead(j) \/ TaskMarkCommit(j)
      PROVE  Ownership'
  BY <1>11
  DEF TaskStart, TaskRunning, TaskHandlerReturns, TaskSwallowsCancel,
      TaskFinalRead, TaskFinalCommit, TaskDbFails, TaskCancelled,
      TaskSwallowsSecond, TaskMarkRead, TaskMarkCommit
<1>12. ASSUME NEW k \in Keys,
             HaltSelect(k) \/ HaltFails(k) \/ HaltWaited(k)
      PROVE  Ownership'
  BY <1>12
  DEF HaltSelect, HaltFails, HaltWaited
<1>13. CASE Restart
  BY <1>13 DEF Restart
<1>14. CASE UNCHANGED vars
  BY <1>14 DEF vars
<1> QED
  BY <1>1, <1>2, <1>3, <1>4, <1>5, <1>6, <1>7, <1>8, <1>9, <1>10,
     <1>11, <1>12, <1>13, <1>14
  DEF Next, SubmitArrives, SubmitProgress, TaskProgress, HaltProgress

(* The owner of a held key stays in flight and uncancelled until Finally    *)
(* gives the key back; HaltCancel cancels on the key it releases only.     *)
LEMMA NoLeakedLockStep ==
    ASSUME TypeOK, Progress, Registration, Cancellation, NoLeakedLock, [Next]_vars
    PROVE  NoLeakedLock'
<1> USE DEF TypeOK, Progress, Registration, Cancellation, NoLeakedLock, InFlight, Live, Of,
        lockVars, taskVars, haltVars, faultVars, Goto, Finally
<1>1. ASSUME NEW j \in Jobs, SubmitLock(j) PROVE NoLeakedLock'
  BY <1>1 DEF SubmitLock
<1>2. ASSUME NEW j \in Jobs, SubmitRefuse(j) PROVE NoLeakedLock'
  BY <1>2 DEF SubmitRefuse
<1>3. ASSUME NEW j \in Jobs, SubmitInsert(j) PROVE NoLeakedLock'
  BY <1>3 DEF SubmitInsert
<1>4. ASSUME NEW j \in Jobs, SubmitInsertFails(j) PROVE NoLeakedLock'
  BY <1>4 DEF SubmitInsertFails
<1>5. ASSUME NEW j \in Jobs, SubmitSpawn(j) PROVE NoLeakedLock'
  BY <1>5 DEF SubmitSpawn
<1>6. ASSUME NEW j \in Jobs, TaskExit(j) PROVE NoLeakedLock'
  BY <1>6 DEF TaskExit
<1>7. ASSUME NEW j \in Jobs, TaskDiesUnstarted(j) PROVE NoLeakedLock'
  BY <1>7 DEF TaskDiesUnstarted
<1>8. ASSUME NEW j \in Jobs, TaskCancelled(j) PROVE NoLeakedLock'
  BY <1>8 DEF TaskCancelled
<1>9. ASSUME NEW j \in Jobs, TaskLeave(j) PROVE NoLeakedLock'
  BY <1>9 DEF TaskLeave
<1>10. ASSUME NEW k \in Keys, HaltCancel(k) PROVE NoLeakedLock'
  BY <1>10 DEF HaltCancel, Victims
<1>11. ASSUME NEW j \in Jobs,
             TaskStart(j) \/ TaskRunning(j) \/ TaskHandlerReturns(j) \/
             TaskSwallowsCancel(j) \/ TaskFinalRead(j) \/ TaskFinalCommit(j) \/
             TaskDbFails(j) \/ TaskSwallowsSecond(j) \/ TaskMarkRead(j) \/
             TaskMarkCommit(j)
      PROVE  NoLeakedLock'
  BY <1>11
  DEF TaskStart, TaskRunning, TaskHandlerReturns, TaskSwallowsCancel,
      TaskFinalRead, TaskFinalCommit, TaskDbFails, TaskSwallowsSecond,
      TaskMarkRead, TaskMarkCommit
<1>12. ASSUME NEW k \in Keys,
             HaltSelect(k) \/ HaltMark(k) \/ HaltFails(k) \/
             HaltWaited(k)
      PROVE  NoLeakedLock'
  BY <1>12
  DEF HaltSelect, HaltMark, HaltFails, HaltWaited
<1>13. CASE Restart
  BY <1>13 DEF Restart
<1>14. CASE UNCHANGED vars
  BY <1>14 DEF vars
<1> QED
  BY <1>1, <1>2, <1>3, <1>4, <1>5, <1>6, <1>7, <1>8, <1>9, <1>10,
     <1>11, <1>12, <1>13, <1>14
  DEF Next, SubmitArrives, SubmitProgress, TaskProgress, HaltProgress

(* By Ownership no other task of the key comes to overwrite or to remove   *)
(* the entry of a live one.                                                *)
LEMMA AllRegisteredStep ==
    ASSUME TypeOK, Progress, Cancellation, Ownership, AllRegistered, [Next]_vars
    PROVE  AllRegistered'
<1> USE DEF TypeOK, Progress, Cancellation, Ownership, OneInFlight, Owns, InFlight,
        AllRegistered, Live, lockVars, taskVars, haltVars, faultVars, Goto, Finally
<1>1. ASSUME NEW j \in Jobs, SubmitSpawn(j) PROVE AllRegistered'
  BY <1>1 DEF SubmitSpawn
<1>2. ASSUME NEW j \in Jobs, TaskExit(j) PROVE AllRegistered'
  BY <1>2 DEF TaskExit
<1>3. ASSUME NEW j \in Jobs, TaskLeave(j) PROVE AllRegistered'
  BY <1>3 DEF TaskLeave
<1>4. ASSUME NEW k \in Keys, HaltMark(k) PROVE AllRegistered'
  BY <1>4 DEF HaltMark
<1>5. ASSUME NEW j \in Jobs,
             SubmitLock(j) \/ SubmitRefuse(j) \/ SubmitInsert(j) \/
             SubmitInsertFails(j) \/ TaskStart(j) \/ TaskRunning(j) \/
             TaskHandlerReturns(j) \/ TaskSwallowsCancel(j) \/ TaskFinalRead(j) \/
             TaskFinalCommit(j) \/ TaskDbFails(j) \/ TaskDiesUnstarted(j) \/
             TaskCancelled(j) \/ TaskSwallowsSecond(j) \/ TaskMarkRead(j) \/
             TaskMarkCommit(j)
      PROVE  AllRegistered'
  BY <1>5
  DEF SubmitLock, SubmitRefuse, SubmitInsert, SubmitInsertFails,
      TaskStart, TaskRunning, TaskHandlerReturns, TaskSwallowsCancel,
      TaskFinalRead, TaskFinalCommit, TaskDbFails, TaskDiesUnstarted,
      TaskCancelled, TaskSwallowsSecond, TaskMarkRead, TaskMarkCommit
<1>6. ASSUME NEW k \in Keys,
             HaltSelect(k) \/ HaltFails(k) \/ HaltCancel(k) \/
             HaltWaited(k)
      PROVE  AllRegistered'
  BY <1>6
  DEF HaltSelect, HaltFails, HaltCancel, HaltWaited
<1>7. CASE Restart
  BY <1>7 DEF Restart
<1>8. CASE UNCHANGED vars
  BY <1>8 DEF vars
<1> QED
  BY <1>1, <1>2, <1>3, <1>4, <1>5, <1>6, <1>7, <1>8
  DEF Next, SubmitArrives, SubmitProgress, TaskProgress, HaltProgress

(* The three ways to "exit" without a failed transaction: the row was read  *)
(* cancelled, twice, or has just been finalized.                           *)
LEMMA SettledStep ==
    ASSUME TypeOK, Progress, Cancellation, Settled, [Next]_vars
    PROVE  Settled'
<1> USE DEF TypeOK, Progress, Cancellation, Settled, Terminal, lockVars, taskVars, haltVars,
        faultVars, Goto, Finally
<1>1. ASSUME NEW j \in Jobs, SubmitInsert(j) PROVE Settled'
  BY <1>1 DEF SubmitInsert
<1>2. ASSUME NEW j \in Jobs, SubmitSpawn(j) PROVE Settled'
  BY <1>2 DEF SubmitSpawn
<1>3. ASSUME NEW j \in Jobs, TaskStart(j) PROVE Settled'
  BY <1>3 DEF TaskStart
<1>4. ASSUME NEW j \in Jobs, TaskRunning(j) PROVE Settled'
  BY <1>4 DEF TaskRunning
<1>5. ASSUME NEW j \in Jobs, TaskFinalRead(j) PROVE Settled'
  BY <1>5 DEF TaskFinalRead
<1>6. ASSUME NEW j \in Jobs, TaskFinalCommit(j) PROVE Settled'
  BY <1>6 DEF TaskFinalCommit
<1>7. ASSUME NEW j \in Jobs, TaskDbFails(j) PROVE Settled'
  BY <1>7 DEF TaskDbFails
<1>8. ASSUME NEW j \in Jobs, TaskMarkCommit(j) PROVE Settled'
  BY <1>8 DEF TaskMarkCommit
<1>9. ASSUME NEW k \in Keys, HaltMark(k) PROVE Settled'
  BY <1>9 DEF HaltMark
<1>10. ASSUME NEW j \in Jobs,
             SubmitLock(j) \/ SubmitRefuse(j) \/ SubmitInsertFails(j) \/
             TaskHandlerReturns(j) \/ TaskSwallowsCancel(j) \/ TaskExit(j) \/
             TaskDiesUnstarted(j) \/ TaskCancelled(j) \/ TaskSwallowsSecond(j) \/
             TaskMarkRead(j) \/ TaskLeave(j)
      PROVE  Settled'
  BY <1>10
  DEF SubmitLock, SubmitRefuse, SubmitInsertFails, TaskHandlerReturns,
      TaskSwallowsCancel, TaskExit, TaskDiesUnstarted, TaskCancelled,
      TaskSwallowsSecond, TaskMarkRead, TaskLeave
<1>11. ASSUME NEW k \in Keys,
             HaltSelect(k) \/ HaltFails(k) \/ HaltCancel(k) \/
             HaltWaited(k)
      PROVE  Settled'
  BY <1>11
  DEF HaltSelect, HaltFails, HaltCancel, HaltWaited
<1>12. CASE Restart
  BY <1>12 DEF Restart
<1>13. CASE UNCHANGED vars
  BY <1>13 DEF vars
<1> QED
  BY <1>1, <1>2, <1>3, <1>4, <1>5, <1>6, <1>7, <1>8, <1>9, <1>10,
     <1>11, <1>12, <1>13
  DEF Next, SubmitArrives, SubmitProgress, TaskProgress, HaltProgress

(* A flight ends undisturbed only at "exit", where the row is settled.       *)
LEMMA NoOrphanRowStep ==
    ASSUME TypeOK, Progress, Cancellation, Settled, NoOrphanRow, [Next]_vars
    PROVE  NoOrphanRow'
<1> USE DEF TypeOK, Progress, Cancellation, Settled, NoOrphanRow, Open, Terminal, Live,
        InFlight, lockVars, taskVars, haltVars, faultVars, Goto, Finally
<1>1. ASSUME NEW j \in Jobs, SubmitInsert(j) PROVE NoOrphanRow'
  BY <1>1 DEF SubmitInsert
<1>2. ASSUME NEW j \in Jobs, SubmitInsertFails(j) PROVE NoOrphanRow'
  BY <1>2 DEF SubmitInsertFails
<1>3. ASSUME NEW j \in Jobs, SubmitSpawn(j) PROVE NoOrphanRow'
  BY <1>3 DEF SubmitSpawn
<1>4. ASSUME NEW j \in Jobs, TaskRunning(j) PROVE NoOrphanRow'
  BY <1>4 DEF TaskRunning
<1>5. ASSUME NEW j \in Jobs, TaskFinalCommit(j) PROVE NoOrphanRow'
  BY <1>5 DEF TaskFinalCommit
<1>6. ASSUME NEW j \in Jobs, TaskDbFails(j) PROVE NoOrphanRow'
  BY <1>6 DEF TaskDbFails
<1>7. ASSUME NEW j \in Jobs, TaskExit(j) PROVE NoOrphanRow'
  BY <1>7 DEF TaskExit
<1>8. ASSUME NEW j \in Jobs, TaskDiesUnstarted(j) PROVE NoOrphanRow'
  BY <1>8 DEF TaskDiesUnstarted
<1>9. ASSUME NEW j \in Jobs, TaskMarkCommit(j) PROVE NoOrphanRow'
  BY <1>9 DEF TaskMarkCommit
<1>10. ASSUME NEW j \in Jobs, TaskLeave(j) PROVE NoOrphanRow'
  BY <1>10 DEF TaskLeave
<1>11. ASSUME NEW k \in Keys, HaltMark(k) PROVE NoOrphanRow'
  BY <1>11 DEF HaltMark
<1>12. ASSUME NEW j \in Jobs,
             SubmitLock(j) \/ SubmitRefuse(j) \/ TaskStart(j) \/
             TaskHandlerReturns(j) \/ TaskSwallowsCancel(j) \/ TaskFinalRead(j) \/
             TaskCancelled(j) \/ TaskSwallowsSecond(j) \/ TaskMarkRead(j)
      PROVE  NoOrphanRow'
  BY <1>12
  DEF SubmitLock, SubmitRefuse, TaskStart, TaskHandlerReturns,
      TaskSwallowsCancel, TaskFinalRead, TaskCancelled, TaskSwallowsSecond,
      TaskMarkRead
<1>13. ASSUME NEW k \in Keys,
             HaltSelect(k) \/ HaltFails(k) \/ HaltCancel(k) \/
             HaltWaited(k)
      PROVE  NoOrphanRow'
  BY <1>13
  DEF HaltSelect, HaltFails, HaltCancel, HaltWaited
<1>14. CASE Restart
  BY <1>14 DEF Restart
<1>15. CASE UNCHANGED vars
  BY <1>15 DEF vars
<1> QED
  BY <1>1, <1>2, <1>3, <1>4, <1>5, <1>6, <1>7, <1>8, <1>9, <1>10,
     <1>11, <1>12, <1>13, <1>14, <1>15
  DEF Next, SubmitArrives, SubmitProgress, TaskProgress, HaltProgress

-----------------------------------------------------------------------------
(* Every step keeps the inductive invariant.                               *)
LEMMA IInvStep == IInv /\ [Next]_vars => IInv'
<1> SUFFICES ASSUME IInv, [Next]_vars PROVE IInv'
  OBVIOUS
<1> USE DEF IInv
<1>1. TypeOK' BY TypeStep
<1>2. Progress' BY ProgressStep
<1>3. Registration' BY RegistrationStep
<1>4. Cancellation' BY CancellationStep
<1>5. Ownership' BY OwnershipStep
<1>6. NoLeakedLock' BY NoLeakedLockStep
<1>7. AllRegistered' BY AllRegisteredStep
<1>8. Settled' BY SettledStep
<1>9. NoOrphanRow' BY NoOrphanRowStep
<1> QED BY <1>1, <1>2, <1>3, <1>4, <1>5, <1>6, <1>7, <1>8, <1>9

(* The strengthened invariant holds in every reachable state.              *)
THEOREM IInvHolds == Spec => []IInv
BY InitIInv, IInvStep, PTL DEF Spec

(* Type correctness of the runner's tables, rows and coroutines.           *)
THEOREM TypeCorrect == Spec => []TypeOK
<1>1. IInv => TypeOK BY DEF IInv
<1> QED BY <1>1, IInvHolds, PTL

(* Mutual exclusion on every key no operator has forced, through crashes   *)
(* and failing transactions.                                               *)
THEOREM MutualExclusion == Spec => []OneInFlight
<1>1. IInv => OneInFlight BY DEF IInv, Ownership
<1> QED BY <1>1, IInvHolds, PTL

(* A held key always has an owner that will give it back, or was leaked by *)
(* a failed INSERT, whatever force halts and cancellations happen.         *)
THEOREM LocksHaveOwners == Spec => []NoLeakedLock
<1>1. IInv => NoLeakedLock BY DEF IInv
<1> QED BY <1>1, IInvHolds, PTL

(* A first force halt cannot miss the task it is meant for.                *)
THEOREM HaltFindsTask == Spec => []FirstHaltFindsTask
<1>1. IInv => FirstHaltFindsTask BY DEF IInv, FirstHaltFindsTask
<1> QED BY <1>1, IInvHolds, PTL

(* Without force, crash or failing transaction no row is left open.        *)
THEOREM NoOrphans == Spec => []NoOrphanRow
<1>1. IInv => NoOrphanRow BY DEF IInv
<1> QED BY <1>1, IInvHolds, PTL

-----------------------------------------------------------------------------
(* The runner implements JobService.                                       *)

(* Before the first submit every job of the service is idle.               *)
LEMMA ServiceInit == Init => Service!Init
<1>1. ASSUME Init, NEW j \in Jobs PROVE PhaseOf(j) = "idle"
  BY <1>1 DEF Init, PhaseOf, Owns, InFlight, Live
<1> QED BY <1>1 DEF Init, Service!Init

(* Only the coroutines of one job move: only its phase can change.         *)
LEMMA OnePhase ==
    ASSUME NEW j \in Jobs,
           \A i \in Jobs \ {j} : sub'[i] = sub[i] /\ pc'[i] = pc[i]
    PROVE  [i \in Jobs |-> PhaseOf(i)]'
             = [[i \in Jobs |-> PhaseOf(i)] EXCEPT ![j] = PhaseOf(j)']
<1>1. ASSUME NEW i \in Jobs \ {j} PROVE PhaseOf(i)' = PhaseOf(i)
  BY DEF PhaseOf, Owns, InFlight
<1> QED BY <1>1

(* A step that moves no job leaves every phase as it was.                  *)
LEMMA SamePhase ==
    ASSUME \A i \in Jobs : sub'[i] = sub[i] /\ pc'[i] = pc[i]
    PROVE  UNCHANGED [i \in Jobs |-> PhaseOf(i)]
BY DEF PhaseOf, Owns, InFlight

(* A task that stays alive is active before and after.                     *)
LEMMA StaysActive ==
    ASSUME Progress, NEW j \in Jobs, UNCHANGED sub, pc[j] \in Live, pc'[j] \in Live,
           \A i \in Jobs \ {j} : pc'[i] = pc[i]
    PROVE  /\ PhaseOf(j) = "active"
           /\ UNCHANGED [i \in Jobs |-> PhaseOf(i)]
<1>1. sub[j] = "spawned"
  BY DEF Progress, Live
<1>2. PhaseOf(j) = "active" /\ PhaseOf(j)' = "active"
  BY <1>1 DEF PhaseOf, Owns, InFlight
<1> QED BY <1>2 DEF PhaseOf, Owns, InFlight

(* A task that ends was active and is over.                                *)
LEMMA BecomesOver ==
    ASSUME TypeOK, Progress, NEW j \in Jobs, UNCHANGED <<sub, row, forced>>,
           pc[j] \in Live, pc' = [pc EXCEPT ![j] = "done"]
    PROVE  Service!Finish(j)
<1>1. sub[j] = "spawned" /\ pc'[j] = "done"
  BY DEF Progress, Live, TypeOK
<1>2. PhaseOf(j) = "active" /\ PhaseOf(j)' = "over"
  BY <1>1 DEF PhaseOf, Owns, InFlight, Live
<1>3. \A i \in Jobs \ {j} : sub'[i] = sub[i] /\ pc'[i] = pc[i]
  BY DEF TypeOK
<1> QED BY <1>2, <1>3, OnePhase DEF Service!Finish

(* Every step of the runner is a step of the service, or a stutter.        *)
LEMMA ServiceStep ==
    ASSUME IInv, [Next]_vars
    PROVE  [Service!Next]_(Service!vars)
<1> USE DEF IInv
<1>0. ASSUME UNCHANGED <<row, forced>>, UNCHANGED [i \in Jobs |-> PhaseOf(i)]
      PROVE  UNCHANGED Service!vars
  BY <1>0 DEF Service!vars
<1>1. ASSUME NEW j \in Jobs, SubmitLock(j) PROVE Service!Admit(j)
  <2>1. PhaseOf(j) = "idle" /\ PhaseOf(j)' = "active"
    BY <1>1 DEF SubmitLock, PhaseOf, Owns, InFlight, Progress, TypeOK, Live, taskVars
  <2>2. [i \in Jobs |-> PhaseOf(i)]' = [[i \in Jobs |-> PhaseOf(i)] EXCEPT ![j] = "active"]
    BY <1>1, <2>1, OnePhase DEF SubmitLock, TypeOK, taskVars
  <2>3. ASSUME NEW i \in Jobs \ {j}, KeyOf[i] = KeyOf[j], PhaseOf(i) = "active"
        PROVE  KeyOf[j] \in forced
    BY <1>1, <2>3 DEF SubmitLock, Ownership, PhaseOf
  <2> QED BY <1>1, <2>1, <2>2, <2>3 DEF SubmitLock, Service!Admit, Service!Busy, haltVars
<1>2. ASSUME NEW j \in Jobs, SubmitRefuse(j) PROVE Service!Refuse(j)
  <2>1. PhaseOf(j) = "idle" /\ PhaseOf(j)' = "refused"
    BY <1>2 DEF SubmitRefuse, PhaseOf, Owns, InFlight, Progress, TypeOK, Live, taskVars
  <2>2. [i \in Jobs |-> PhaseOf(i)]' = [[i \in Jobs |-> PhaseOf(i)] EXCEPT ![j] = "refused"]
    BY <1>2, <2>1, OnePhase DEF SubmitRefuse, TypeOK, taskVars
  <2>3. PICK i \in Jobs : KeyOf[i] = KeyOf[j] /\ Owns(i)
    BY <1>2 DEF SubmitRefuse, NoLeakedLock, Owns, Of
  <2>4. i # j /\ PhaseOf(i) = "active"
    BY <1>2, <2>3 DEF SubmitRefuse, PhaseOf, Owns, InFlight, Progress, Live
  <2> QED BY <1>2, <2>1, <2>2, <2>3, <2>4 DEF SubmitRefuse, Service!Refuse, Service!Busy, haltVars
<1>3. ASSUME NEW j \in Jobs, SubmitInsert(j) PROVE Service!Record(j, "queued")
  <2>1. PhaseOf(j) = "active" /\ PhaseOf(j)' = "active"
    BY <1>3 DEF SubmitInsert, PhaseOf, Owns, InFlight, TypeOK
  <2>2. UNCHANGED [i \in Jobs |-> PhaseOf(i)]
    BY <1>3, <2>1, OnePhase DEF SubmitInsert, TypeOK, taskVars
  <2> QED BY <1>3, <2>1, <2>2 DEF SubmitInsert, Service!Record, Service!Forward, Progress, haltVars
<1>4. ASSUME NEW j \in Jobs, SubmitInsertFails(j) \/ SubmitSpawn(j) PROVE UNCHANGED Service!vars
  <2>1. PhaseOf(j) = "active" /\ PhaseOf(j)' = "active"
    BY <1>4 DEF SubmitInsertFails, SubmitSpawn, PhaseOf, Owns, InFlight, TypeOK, Live
  <2>2. \A i \in Jobs \ {j} : sub'[i] = sub[i] /\ pc'[i] = pc[i]
    BY <1>4 DEF SubmitInsertFails, SubmitSpawn, TypeOK, taskVars
  <2>3. UNCHANGED [i \in Jobs |-> PhaseOf(i)]
    BY <2>1, <2>2, OnePhase
  <2> QED BY <1>4, <2>3, <1>0 DEF SubmitInsertFails, SubmitSpawn, haltVars
<1>5. ASSUME NEW j \in Jobs, TaskRunning(j) PROVE Service!Record(j, "running")
  <2>1. PhaseOf(j) = "active" /\ UNCHANGED [i \in Jobs |-> PhaseOf(i)]
    BY <1>5, StaysActive DEF TaskRunning, Goto, TypeOK, Live
  <2>2. row[j] = "queued" \/ (row[j] = "cancelled" /\ KeyOf[j] \in forced)
    BY <1>5 DEF TaskRunning, Progress, Cancellation
  <2> QED BY <1>5, <2>1, <2>2
          DEF TaskRunning, Service!Record, Service!Forward, Service!Interference, haltVars
<1>6. ASSUME NEW j \in Jobs, TaskFinalCommit(j)
      PROVE  \E s \in Service!Statuses : Service!Record(j, s)
  <2>1. PhaseOf(j) = "active" /\ UNCHANGED [i \in Jobs |-> PhaseOf(i)]
    BY <1>6, StaysActive DEF TaskFinalCommit, Goto, TypeOK, Live
  <2>2. row[j] = "running" \/ (row[j] = "cancelled" /\ KeyOf[j] \in forced)
    BY <1>6 DEF TaskFinalCommit, Progress, Cancellation
  <2>3. PICK s \in {"succeeded", "failed"} : row' = [row EXCEPT ![j] = s]
    BY <1>6 DEF TaskFinalCommit
  <2>4. Service!Record(j, s)
    BY <1>6, <2>1, <2>2, <2>3
    DEF TaskFinalCommit, Service!Record, Service!Forward, Service!Interference, haltVars
  <2> QED BY <2>4 DEF Service!Statuses
<1>7. ASSUME NEW j \in Jobs, TaskMarkCommit(j) PROVE Service!Record(j, "cancelled")
  <2>1. PhaseOf(j) = "active" /\ UNCHANGED [i \in Jobs |-> PhaseOf(i)]
    BY <1>7, StaysActive DEF TaskMarkCommit, Goto, TypeOK, Live
  <2>2. KeyOf[j] \in forced /\ row[j] # "absent"
    BY <1>7 DEF TaskMarkCommit, Cancellation, Progress
  <2>3. <<row[j], "cancelled">> \in Service!Interference
    BY <2>2 DEF Service!Interference, Service!Statuses, TypeOK, Statuses, Open, Terminal
  <2> QED BY <1>7, <2>1, <2>2, <2>3 DEF TaskMarkCommit, Service!Record, haltVars
<1>8. ASSUME NEW j \in Jobs, TaskExit(j) \/ TaskDiesUnstarted(j) \/ TaskLeave(j)
      PROVE  Service!Finish(j)
  BY <1>8, BecomesOver DEF TaskExit, TaskDiesUnstarted, TaskLeave, Finally, Goto, Live, haltVars
<1>9. ASSUME NEW j \in Jobs,
             \/ TaskStart(j) \/ TaskHandlerReturns(j) \/ TaskSwallowsCancel(j)
             \/ TaskFinalRead(j) \/ TaskDbFails(j) \/ TaskCancelled(j) \/ TaskMarkRead(j)
      PROVE  UNCHANGED Service!vars
  <2>1. /\ UNCHANGED <<sub, row, forced>>
        /\ pc[j] \in Live /\ pc'[j] \in Live
        /\ \A i \in Jobs \ {j} : pc'[i] = pc[i]
    BY <1>9 DEF TaskStart, TaskHandlerReturns, TaskSwallowsCancel, TaskFinalRead, TaskDbFails,
                TaskCancelled, TaskMarkRead, Goto, Live, TypeOK, haltVars
  <2>2. UNCHANGED [i \in Jobs |-> PhaseOf(i)]
    BY <2>1, StaysActive
  <2> QED BY <2>1, <2>2, <1>0
<1>10. ASSUME NEW j \in Jobs, TaskSwallowsSecond(j) PROVE UNCHANGED Service!vars
  BY <1>10, <1>0, SamePhase DEF TaskSwallowsSecond, haltVars
<1>11. ASSUME NEW k \in Keys, HaltMark(k) PROVE Service!Force(k)
  <2> DEFINE S == sel[k]
  <2>1. S \in SUBSET {j \in Jobs : KeyOf[j] = k /\ row[j] # "absent"}
    BY DEF TypeOK, Cancellation
  <2>2. UNCHANGED [i \in Jobs |-> PhaseOf(i)]
    BY <1>11, SamePhase DEF HaltMark, taskVars
  <2> QED BY <1>11, <2>1, <2>2 DEF HaltMark, Service!Force
<1>12. ASSUME NEW k \in Keys, HaltSelect(k) \/ HaltFails(k) \/ HaltCancel(k) \/ HaltWaited(k)
       PROVE  UNCHANGED Service!vars
  BY <1>12, <1>0, SamePhase DEF HaltSelect, HaltFails, HaltCancel, HaltWaited, taskVars
<1>13. CASE Restart
  <2>1. ASSUME NEW j \in Jobs
        PROVE  PhaseOf(j)' = IF PhaseOf(j) = "active" THEN "over" ELSE PhaseOf(j)
    BY <1>13 DEF Restart, PhaseOf, Owns, InFlight, Live, TypeOK, SubPcs, TaskPcs, Progress
  <2>2. Service!Restart
    BY <1>13, <2>1 DEF Restart, Service!Restart
  <2> QED BY <2>2 DEF Service!Next
<1>14. CASE UNCHANGED vars
  BY <1>14, <1>0, SamePhase DEF vars
<1>15. \A s \in {"queued", "running", "cancelled"} : s \in Service!Statuses
  BY DEF Service!Statuses
<1> QED
  BY <1>1, <1>2, <1>3, <1>4, <1>5, <1>6, <1>7, <1>8, <1>9, <1>10, <1>11, <1>12, <1>13,
     <1>14, <1>15
  DEF Next, SubmitArrives, SubmitProgress, TaskProgress, HaltProgress, Service!Next

(* The runner, with its locks, coroutines and transactions, does nothing   *)
(* that JobService does not allow.                                         *)
THEOREM Refinement == Spec => ImplementsJobService
<1>1. Init => Service!Init BY ServiceInit
<1>2. IInv /\ [Next]_vars => [Service!Next]_(Service!vars) BY ServiceStep
<1> QED BY <1>1, <1>2, IInvHolds, PTL DEF Spec, ImplementsJobService, Service!Spec

-----------------------------------------------------------------------------
(* What an implementation of JobService has by that alone.                 *)

(* Two active requests have different keys, or the key was forced.         *)
Exclusive ==
    \A i, j \in Jobs :
        i # j /\ KeyOf[i] = KeyOf[j] /\ PhaseOf(i) = "active" /\ PhaseOf(j) = "active"
            => KeyOf[i] \in forced

(* JobService is enough for mutual exclusion: whatever implements it, as   *)
(* submit() and _run_job do, has no two jobs at work on a resource that no *)
(* operator has forced.                                                    *)
THEOREM ServiceExcludes == Service!Spec => []Exclusive
<1> DEFINE phase == [j \in Jobs |-> PhaseOf(j)]
<1>1. Service!Init => Exclusive
  <2>1. ASSUME Service!Init, NEW j \in Jobs PROVE PhaseOf(j) # "active"
    <3>1. phase[j] = "idle"
      BY <2>1 DEF Service!Init
    <3> QED BY <3>1
  <2> QED BY <2>1 DEF Exclusive
<1>2. Exclusive /\ [Service!Next]_Service!vars => Exclusive'
  <2> SUFFICES ASSUME Exclusive, [Service!Next]_Service!vars PROVE Exclusive'
    OBVIOUS
  <2>1. /\ \A i \in Jobs : phase[i] = PhaseOf(i)
        /\ \A i \in Jobs : phase'[i] = PhaseOf(i)'
    OBVIOUS
  <2>2. forced \subseteq forced'
    BY DEF Service!Next, Service!Admit, Service!Refuse, Service!Finish, Service!Record,
       Service!Force, Service!Restart, Service!vars
  <2>3. ASSUME NEW j \in Jobs, Service!Admit(j) PROVE Exclusive'
    <3>1. /\ \A i \in Jobs \ {j} : PhaseOf(i)' = PhaseOf(i)
          /\ \A i \in Jobs \ {j} : KeyOf[i] = KeyOf[j] /\ PhaseOf(i) = "active" => KeyOf[j] \in forced
      BY <2>1, <2>3 DEF Service!Admit, Service!Busy
    <3> QED BY <2>2, <3>1 DEF Exclusive
  <2>4. CASE \A i \in Jobs : PhaseOf(i)' = "active" => PhaseOf(i) = "active"
    BY <2>2, <2>4 DEF Exclusive
  <2>5. ASSUME NEW j \in Jobs, Service!Refuse(j) \/ Service!Finish(j)
        PROVE  \A i \in Jobs : PhaseOf(i)' = "active" => PhaseOf(i) = "active"
    BY <2>1, <2>5 DEF Service!Refuse, Service!Finish
  <2>6. ASSUME \/ \E j \in Jobs, s \in Service!Statuses : Service!Record(j, s)
               \/ \E k \in Keys : Service!Force(k)
               \/ Service!Restart
               \/ UNCHANGED Service!vars
        PROVE  \A i \in Jobs : PhaseOf(i)' = "active" => PhaseOf(i) = "active"
    BY <2>1, <2>6 DEF Service!Record, Service!Force, Service!Restart, Service!vars
  <2> QED BY <2>3, <2>4, <2>5, <2>6 DEF Service!Next
<1> QED BY <1>1, <1>2, PTL DEF Service!Spec
=============================================================================
