-------------------------- MODULE SlotRuntimeProofs --------------------------
(***************************************************************************)
(* Proofs about SlotRuntime for any set of slots, GPUs and requests and    *)
(* any number of force halts, failures and crashes, and that it implements *)
(* SlotService.                                                            *)
(*                                                                         *)
(* The properties speak of rows, containers and threads at rest; IInv adds *)
(* what holds on the way: what a request and its thread may be doing       *)
(* together (Control), who owns a key nobody forced (Ownership), what the  *)
(* thread of such a key has made of the container so far (Containers) and  *)
(* on which GPUs a row is, or is going, to be active (Bookings).           *)
(***************************************************************************)
EXTENDS SlotRuntime, FiniteSetTheorems, TLAPS

USE SlotRuntimeAssumption

(* The thread of a request follows its coroutine, unless a force halt has  *)
(* cut the two apart.                                                      *)
Follows(r) ==
    /\ pc[r] \in {"checked", "inserted"} => req[r].kind = "create"
    /\ pc[r] \in {"checked", "inserted", "prep", "exit"} => thr[r] = "none"
    /\ pc[r] = "down" => req[r].kind \in {"down", "restart"} /\ thr[r] \in Answers \cup {"stop"}
    /\ pc[r] = "up" => req[r].kind \in {"create", "up"} /\ thr[r] \in ThrPcs \ {"none", "stop"}
    /\ pc[r] \in {"idle", "unwind"} => thr[r] \notin Answers
    /\ pc[r] = "unwind" \/ (pc[r] = "idle" /\ thr[r] # "none") => req[r].slot \in forced
    /\ pc[r] # "idle" \/ thr[r] # "none" => req[r].kind # "none"
    /\ req[r].kind \in {"create", "up"} => req[r].gpus # {}
Control == \A r \in Requests : Follows(r)

(* The task registered for a key is a job on that key.                     *)
Registered ==
    \A s \in Slots, r \in Requests : task[s] = r => req[r].slot = s /\ pc[r] \in JobPcs

(* A job on a key nobody forced holds the key, alone.                      *)
Owns(r) ==
    req[r].slot \in Slots \ forced /\ pc[r] \in JobPcs =>
        /\ req[r].slot \in held
        /\ \A q \in Requests : req[q].slot = req[r].slot /\ pc[q] \in JobPcs => q = r
Ownership == \A r \in Requests : Owns(r)

(* Row and container of s agree.                                           *)
Agree(s) == /\ row[s].status = "running" <=> cont[s].state = "up"
            /\ row[s].status = "running" => cont[s].gpus = row[s].gpus

(* Between the moment its thread has touched the container and the moment  *)
(* the job has told the row, a job knows what the container is.            *)
Touched(r) == thr[r] \in {"run", "net", "ok", "err"}
Known(r) ==
    LET c == cont[req[r].slot] IN
    /\ thr[r] = "run" \/ (pc[r] = "down" /\ Touched(r)) => c.state = "none"
    /\ thr[r] = "net" \/ (pc[r] = "up" /\ thr[r] = "ok") => c.state = "up" /\ c.gpus = req[r].gpus
    /\ pc[r] = "up" /\ thr[r] = "err" => c.state # "up"

Containers ==
    /\ forced \subseteq dirty
    /\ \A s \in Slots : halt[s] = "stop" => s \in forced
    /\ \A r \in Requests : req[r].slot \in Slots \ dirty => Known(r)
    /\ \A s \in Slots \ dirty :
         (\A r \in Requests : req[r].slot = s => ~Touched(r)) => Agree(s)

(* Two sets of GPUs meet; a pair of slots.                                 *)
Meet(G, H) == G \cap H # {}
Pair(s, t) == {s, t}

(* Slot s may share its GPUs with every other slot.                        *)
Excused(s) == \A t \in Slots \ {s} : Pair(s, t) \in excuse

(* What a request will make of its row: a job that starts a slot keeps the *)
(* GPUs the row is active on, or has an excuse for every other slot; a     *)
(* check still knows every active row it did not refuse.                   *)
Booking(r) ==
    LET s == req[r].slot IN
    /\ pc[r] = "inserted" \/ (pc[r] \in JobPcs /\ req[r].kind = "create") =>
          /\ row[s].status # "none"
          /\ Active(s) => row[s].gpus = req[r].gpus \/ Excused(s)
    /\ pc[r] \in JobPcs /\ req[r].kind = "up" =>
          row[s].status # "none" /\ (Active(s) => Excused(s))
    /\ pc[r] = "down" /\ req[r].kind = "restart" =>
          row[s].status # "none" /\ req[r].gpus # {}
    /\ pc[r] = "checked" =>
          \A t \in Slots \ {s} : Active(t) /\ Meet(row[t].gpus, req[r].gpus)
                                    => t \in window[r] \/ Pair(s, t) \in excuse
Bookings == \A r \in Requests : Booking(r)

(* SharedGpuHasReason in these terms.                                      *)
Sharing ==
    \A s, t \in Slots : s # t /\ Active(s) /\ Active(t) /\ Meet(row[s].gpus, row[t].gpus)
                            => Pair(s, t) \in excuse

IInv == /\ TypeOK
        /\ Control
        /\ Registered
        /\ Ownership
        /\ Containers
        /\ Bookings
        /\ Sharing

-----------------------------------------------------------------------------
(* What the definitions say of sets and records, once and for all.         *)

(* A set of TP GPUs is not empty.                                          *)
LEMMA GpuSetsNonEmpty == \A G \in GpuSets : G \subseteq GPUs /\ G # {}
BY FS_EmptySet DEF GpuSets

(* Pairs have no order.                                                    *)
LEMMA PairSymmetric == \A s, t : Pair(s, t) = Pair(t, s)
BY DEF Pair

(* Nor has the meeting of two sets.                                        *)
LEMMA MeetSymmetric == \A G, H : Meet(G, H) <=> Meet(H, G)
BY DEF Meet

(* What a request that is at work asks for.                                *)
Asks == [kind : {"create", "down", "restart", "up"}, slot : Slots, gpus : SUBSET GPUs]

(* The parts of such a request, and the same request under another kind.   *)
LEMMA ReqType ==
    ASSUME TypeOK, NEW r \in Requests, req[r].kind # "none"
    PROVE  /\ req[r] \in Asks
           /\ req[r].slot \in Slots /\ req[r].gpus \in SUBSET GPUs
           /\ req[r].kind \in {"create", "down", "restart", "up"}
           /\ \A x : [req[r] EXCEPT !.kind = x]
                        = [kind |-> x, slot |-> req[r].slot, gpus |-> req[r].gpus]
           /\ \A G : [req[r] EXCEPT !.gpus = G]
                        = [kind |-> req[r].kind, slot |-> req[r].slot, gpus |-> G]
BY DEF TypeOK, Nothing, Asks

(* The history variables keep their types.                                 *)
LEMMA HistoryType ==
    ASSUME TypeOK, NEW s \in Slots, NEW W \in SUBSET Slots
    PROVE  /\ Reopened(s) \in [Requests -> SUBSET Slots]
           /\ excuse \cup {{s, t} : t \in W} \subseteq SUBSET Slots
BY DEF TypeOK, Reopened

-----------------------------------------------------------------------------
(* What the longer actions do, request by request and slot by slot: the    *)
(* proofs below need no more of them.                                      *)

(* Only the request of r, its coroutine and its thread are touched.        *)
Others(r) ==
    /\ req' \in [Requests -> {Nothing} \cup Asks]
    /\ \A q \in Requests \ {r} : req'[q] = req[q] /\ pc'[q] = pc[q] /\ thr'[q] = thr[q]
    /\ pc' \in [Requests -> HttpPcs \cup JobPcs]
    /\ thr' \in [Requests -> ThrPcs]
(* Only the row of s changes.                                              *)
OtherRows(s) ==
    /\ row' \in [Slots -> [status : RowStates, gpus : SUBSET GPUs]]
    /\ \A t \in Slots \ {s} : row'[t] = row[t]
(* The slot of r becomes active in sight of every open check.              *)
Announced(r) ==
    /\ window' \in [Requests -> SUBSET Slots] /\ excuse' \subseteq SUBSET Slots
    /\ excuse \subseteq excuse'
    /\ \A q \in Requests \ {r} : window[q] \subseteq window'[q]

(* A create has inserted its row.                                          *)
CreateInsertEffect(r) ==
    LET s == req[r].slot IN
    /\ s \in Slots /\ req[r].kind = "create" /\ req[r].gpus \in SUBSET GPUs /\ req[r].gpus # {}
    /\ pc[r] = "checked" /\ pc'[r] = "inserted" /\ thr'[r] = thr[r] /\ req'[r] = req[r]
    /\ Others(r)
    /\ row[s].status = "none" /\ row'[s].status = "requested" /\ row'[s].gpus = req[r].gpus
    /\ OtherRows(s)
    /\ Announced(r)
    /\ \A q \in Requests \ {r} : pc[q] = "checked" => s \in window'[q]
    /\ \A t \in window[r] : Pair(s, t) \in excuse'
    /\ UNCHANGED <<cont, halt, held, task, dirty, stuck, forced, troubles>>

(* CreateInsert has that effect.                                            *)
LEMMA CreateInsertDoes ==
    ASSUME TypeOK, Control, NEW r \in Requests, CreateInsert(r)
    PROVE  CreateInsertEffect(r)
<1>1. req[r].kind = "create" /\ req[r].gpus # {} /\ pc[r] = "checked"
  BY DEF CreateInsert, Control, Follows
<1>2. req[r].slot \in Slots /\ req[r].gpus \in SUBSET GPUs
  BY <1>1, ReqType
<1>3. window[r] \in SUBSET Slots
  BY DEF TypeOK
<1>4. excuse' = excuse \cup {Pair(req[r].slot, t) : t \in window[r]}
  BY DEF CreateInsert, Pair
<1>5. excuse' \subseteq SUBSET Slots
  BY <1>2, <1>3, HistoryType DEF CreateInsert
<1>6. excuse \subseteq excuse' /\ \A t \in window[r] : Pair(req[r].slot, t) \in excuse'
  BY <1>4
<1>7. window' = [Reopened(req[r].slot) EXCEPT ![r] = {}]
  BY DEF CreateInsert
<1>8. window' \in [Requests -> SUBSET Slots]
  BY <1>2, <1>3, <1>7, HistoryType
<1>9. \A q \in Requests \ {r} : /\ window[q] \subseteq window'[q]
                                /\ pc[q] = "checked" => req[r].slot \in window'[q]
  BY <1>7 DEF Reopened
<1>10. /\ row[req[r].slot].status = "none"
       /\ row'[req[r].slot].status = "requested" /\ row'[req[r].slot].gpus = req[r].gpus
       /\ OtherRows(req[r].slot)
  BY <1>2 DEF CreateInsert, TypeOK, OtherRows, RowStates
<1>11. Others(r) /\ pc'[r] = "inserted" /\ thr'[r] = thr[r] /\ req'[r] = req[r]
  BY DEF CreateInsert, TypeOK, Others, Goto, HttpPcs, Asks
<1>12. UNCHANGED <<cont, halt, held, task, dirty, stuck, forced, troubles>>
  BY DEF CreateInsert, lockVars, cntVars
<1> QED
  BY <1>1, <1>2, <1>5, <1>6, <1>8, <1>9, <1>10, <1>11, <1>12 DEF CreateInsertEffect, Announced

(* A down or a restart is admitted.                                        *)
OtherSubmitEffect(r) ==
    /\ pc[r] = "idle" /\ thr[r] = "none" /\ pc'[r] = "prep" /\ thr'[r] = "none"
    /\ Others(r)
    /\ req'[r].kind \in {"down", "restart"} /\ req'[r].slot \in Slots \ held
    /\ held' = held \cup {req'[r].slot} /\ task' = [task EXCEPT ![req'[r].slot] = r]
    /\ UNCHANGED <<row, cont, halt, window, excuse, dirty, stuck, forced, troubles>>

(* OtherSubmit has that effect.                                             *)
LEMMA OtherSubmitDoes ==
    ASSUME TypeOK, NEW r \in Requests, OtherSubmit(r)
    PROVE  OtherSubmitEffect(r)
<1>1. PICK s \in Slots \ held, kind \in Kinds \ {"create"}, G \in GpuSets \cup {{}} :
         req' = [req EXCEPT ![r] = [kind |-> kind, slot |-> s, gpus |-> G]]
  BY DEF OtherSubmit
<1>2. kind \in {"down", "restart"} /\ G \in SUBSET GPUs
  BY GpuSetsNonEmpty
<1>3. [kind |-> kind, slot |-> s, gpus |-> G] \in Asks
  BY <1>2 DEF Asks
<1>4. req' \in [Requests -> {Nothing} \cup Asks] /\ \A q \in Requests \ {r} : req'[q] = req[q]
  BY <1>1, <1>3 DEF TypeOK, Asks
<1>5. req'[r].kind \in {"down", "restart"} /\ req'[r].slot \in Slots \ held
  BY <1>1, <1>2 DEF TypeOK
<1>6. /\ pc[r] = "idle" /\ thr[r] = "none"
      /\ pc' = [pc EXCEPT ![r] = "prep"]
      /\ held' = held \cup {req'[r].slot} /\ task' = [task EXCEPT ![req'[r].slot] = r]
      /\ UNCHANGED <<row, cont, thr, halt, window, excuse, dirty, stuck, forced, troubles>>
  BY DEF OtherSubmit, Lock, Goto, histVars, cntVars
<1> HIDE <1>1
<1> QED BY <1>4, <1>5, <1>6 DEF OtherSubmitEffect, Others, TypeOK, JobPcs

(* A restart fills in the GPUs of its row.                                 *)
JobStopEffect(r) ==
    /\ req[r].kind \in {"down", "restart"} /\ req[r].slot \in Slots
    /\ pc[r] = "prep" /\ pc'[r] = "down" /\ thr'[r] = "stop"
    /\ Others(r)
    /\ req'[r].kind = req[r].kind /\ req'[r].slot = req[r].slot
    /\ req[r].kind = "restart" => req'[r].gpus # {} /\ row[req[r].slot].status # "none"
    /\ UNCHANGED <<row, cont, halt, held, task, window, excuse, dirty, stuck, forced, troubles>>

(* JobStop has that effect.                                                 *)
LEMMA JobStopDoes ==
    ASSUME TypeOK, Control, NEW r \in Requests, JobStop(r)
    PROVE  JobStopEffect(r)
<1> DEFINE G == IF req[r].kind = "restart" /\ req[r].gpus = {} THEN row[req[r].slot].gpus
                ELSE req[r].gpus
<1>1. req[r].kind \in {"down", "restart"} /\ req[r].slot \in Slots /\ req[r].gpus \in SUBSET GPUs
  BY ReqType DEF JobStop
<1>2. req' = [req EXCEPT ![r] = [req[r] EXCEPT !.gpus = G]]
  BY DEF JobStop
<1>3. [req[r] EXCEPT !.gpus = G] = [kind |-> req[r].kind, slot |-> req[r].slot, gpus |-> G]
  BY <1>1, ReqType
<1>4. /\ G \in SUBSET GPUs
      /\ req[r].kind = "restart" => G # {} /\ row[req[r].slot].status # "none"
  BY <1>1 DEF TypeOK, JobStop
<1> HIDE DEF G
<1>5. /\ req' \in [Requests -> {Nothing} \cup Asks]
      /\ \A q \in Requests \ {r} : req'[q] = req[q]
      /\ req'[r].kind = req[r].kind /\ req'[r].slot = req[r].slot /\ req'[r].gpus = G
  BY <1>1, <1>2, <1>3, <1>4 DEF TypeOK, Asks
<1>6. /\ pc[r] = "prep" /\ pc' = [pc EXCEPT ![r] = "down"] /\ thr' = [thr EXCEPT ![r] = "stop"]
      /\ UNCHANGED <<row, cont, halt, held, task, window, excuse, dirty, stuck, forced, troubles>>
  BY DEF JobStop, Goto, Thread, lockVars, histVars, cntVars
<1> QED BY <1>1, <1>4, <1>5, <1>6 DEF JobStopEffect, Others, TypeOK, JobPcs, ThrPcs

(* The row is stopped; a restart goes on as an up.                         *)
JobStoppedEffect(r) ==
    LET s == req[r].slot IN
    /\ s \in Slots /\ pc[r] = "down" /\ thr[r] \in {"ok", "err"} /\ thr'[r] = "none"
    /\ Others(r)
    /\ req'[r].slot = s /\ req'[r].gpus = req[r].gpus
    /\ \/ req[r].kind = "down" /\ req'[r].kind = "down" /\ pc'[r] = "exit"
       \/ req[r].kind = "restart" /\ req'[r].kind = "up" /\ pc'[r] = "prep"
    /\ OtherRows(s)
    /\ row'[s].gpus = row[s].gpus
    /\ row'[s].status = IF row[s].status = "none" THEN "none" ELSE "stopped"
    /\ UNCHANGED <<cont, halt, held, task, window, excuse, dirty, stuck, forced, troubles>>

(* JobStopped has that effect.                                              *)
LEMMA JobStoppedDoes ==
    ASSUME TypeOK, Control, NEW r \in Requests, JobStopped(r)
    PROVE  JobStoppedEffect(r)
<1> DEFINE s == req[r].slot
           x == IF row[s].status = "none" THEN "none" ELSE "stopped"
<1>1. /\ req[r].kind \in {"down", "restart"} /\ s \in Slots /\ req[r].gpus \in SUBSET GPUs
      /\ pc[r] = "down" /\ thr[r] \in {"ok", "err"}
  BY ReqType DEF JobStopped, Control, Follows
<1>2. row[s] \in [status : RowStates, gpus : SUBSET GPUs]
  BY <1>1 DEF TypeOK
<1>3. row' = [row EXCEPT ![s] = [row[s] EXCEPT !.status = x]]
  BY <1>1 DEF JobStopped
<1>4. [row[s] EXCEPT !.status = x] = [status |-> x, gpus |-> row[s].gpus]
  BY <1>2
<1>5. x \in RowStates
  BY DEF RowStates
<1> HIDE DEF x
<1>6. OtherRows(s) /\ row'[s].gpus = row[s].gpus /\ row'[s].status = x
  BY <1>1, <1>2, <1>3, <1>4, <1>5 DEF TypeOK, OtherRows
<1> DEFINE k == IF req[r].kind = "down" THEN "down" ELSE "up"
           p == IF req[r].kind = "down" THEN "exit" ELSE "prep"
<1>7. req' = [req EXCEPT ![r] = [kind |-> k, slot |-> s, gpus |-> req[r].gpus]]
  <2>1. CASE req[r].kind = "down"
    BY <1>1, <2>1, ReqType DEF JobStopped, TypeOK, Asks
  <2>2. CASE req[r].kind = "restart"
    BY <1>1, <2>2, ReqType DEF JobStopped
  <2> QED BY <1>1, <2>1, <2>2
<1>8. pc' = [pc EXCEPT ![r] = p] /\ thr' = [thr EXCEPT ![r] = "none"]
  BY <1>1 DEF JobStopped, Goto, Thread
<1>9. Others(r) /\ req'[r].kind = k /\ req'[r].slot = s /\ req'[r].gpus = req[r].gpus
      /\ pc'[r] = p /\ thr'[r] = "none"
  BY <1>1, <1>7, <1>8 DEF TypeOK, Others, Asks, JobPcs, ThrPcs
<1>10. UNCHANGED <<cont, halt, held, task, window, excuse, dirty, stuck, forced, troubles>>
  BY DEF JobStopped, lockVars, histVars, cntVars
<1> QED BY <1>1, <1>6, <1>9, <1>10 DEF JobStoppedEffect, x

(* The row learns how the start went.                                      *)
JobStartedEffect(r) ==
    LET s == req[r].slot IN
    /\ s \in Slots /\ req[r].kind \in {"create", "up"}
    /\ req[r].gpus \in SUBSET GPUs /\ req[r].gpus # {}
    /\ pc[r] = "up" /\ pc'[r] = "exit" /\ thr[r] \in {"ok", "err"} /\ thr'[r] = "none"
    /\ req'[r] = req[r]
    /\ Others(r)
    /\ row[s].status # "none"
    /\ OtherRows(s)
    /\ thr[r] = "ok" => row'[s].status = "running" /\ row'[s].gpus = req[r].gpus
    /\ thr[r] = "err" => row'[s].status = "failed" /\ row'[s].gpus = row[s].gpus
    /\ Announced(r)
    /\ thr[r] = "ok" /\ ~Active(s) =>
          /\ \A q \in Requests : pc[q] = "checked" => s \in window'[q]
          /\ \A t \in Slots \ {s} : Pair(s, t) \in excuse'
    /\ UNCHANGED <<cont, halt, held, task, dirty, stuck, forced, troubles>>

(* JobStarted has that effect.                                              *)
LEMMA JobStartedDoes ==
    ASSUME TypeOK, Control, Bookings, NEW r \in Requests, JobStarted(r)
    PROVE  JobStartedEffect(r)
<1> DEFINE s == req[r].slot
<1>1. /\ s \in Slots /\ req[r].gpus \in SUBSET GPUs /\ req[r].gpus # {}
      /\ req[r].kind \in {"create", "up"} /\ thr[r] \in {"ok", "err"} /\ pc[r] = "up"
  BY ReqType DEF JobStarted, Control, Follows
<1>2. row[s].status # "none"
  BY <1>1 DEF Bookings, Booking, JobPcs
<1>3. row[s] \in [status : RowStates, gpus : SUBSET GPUs]
  BY <1>1 DEF TypeOK
<1>4. thr[r] = "ok" => OtherRows(s) /\ row'[s].status = "running" /\ row'[s].gpus = req[r].gpus
  <2> SUFFICES ASSUME thr[r] = "ok"
               PROVE  OtherRows(s) /\ row'[s].status = "running" /\ row'[s].gpus = req[r].gpus
    OBVIOUS
  <2>1. row' = [row EXCEPT ![s] = [status |-> "running", gpus |-> req[r].gpus]]
    BY <1>2 DEF JobStarted
  <2> QED BY <1>1, <2>1 DEF TypeOK, RowStates, OtherRows
<1>5. thr[r] = "err" => OtherRows(s) /\ row'[s].status = "failed" /\ row'[s].gpus = row[s].gpus
  <2> SUFFICES ASSUME thr[r] = "err"
               PROVE  OtherRows(s) /\ row'[s].status = "failed" /\ row'[s].gpus = row[s].gpus
    OBVIOUS
  <2>1. row' = [row EXCEPT ![s] = [row[s] EXCEPT !.status = "failed"]]
    BY <1>2 DEF JobStarted
  <2>2. [row[s] EXCEPT !.status = "failed"] = [status |-> "failed", gpus |-> row[s].gpus]
    BY <1>3
  <2> QED BY <1>1, <1>3, <2>1, <2>2 DEF TypeOK, RowStates, OtherRows
<1> DEFINE back == thr[r] = "ok" /\ ~Active(s)
           W    == IF back THEN Slots \ {s} ELSE {}
<1>6. /\ window' = IF back THEN Reopened(s) ELSE window
      /\ excuse' = excuse \cup {Pair(s, t) : t \in W}
  BY DEF JobStarted, Pair
<1>7. excuse' \subseteq SUBSET Slots
  <2>1. excuse' = excuse \cup {{s, t} : t \in W}
    BY DEF JobStarted
  <2>2. W \in SUBSET Slots
    OBVIOUS
  <2> HIDE DEF W
  <2> QED BY <1>1, <2>1, <2>2, HistoryType
<1>8. excuse \subseteq excuse' /\ (back => \A t \in Slots \ {s} : Pair(s, t) \in excuse')
  BY <1>6
<1>9. window' \in [Requests -> SUBSET Slots]
  BY <1>1, <1>6, HistoryType DEF TypeOK
<1>10. /\ \A q \in Requests : window[q] \subseteq window'[q]
       /\ back => \A q \in Requests : pc[q] = "checked" => s \in window'[q]
  BY <1>6 DEF Reopened
<1>11. Others(r) /\ req'[r] = req[r] /\ pc'[r] = "exit" /\ thr'[r] = "none"
  BY DEF JobStarted, TypeOK, Others, Goto, Thread, JobPcs, ThrPcs, Asks
<1>12. UNCHANGED <<cont, halt, held, task, dirty, stuck, forced, troubles>>
  BY DEF JobStarted, lockVars, cntVars
<1> QED
  BY <1>1, <1>2, <1>4, <1>5, <1>7, <1>8, <1>9, <1>10, <1>11, <1>12 DEF JobStartedEffect, Announced


(* A step of a worker thread.                                              *)
ThreadEffect(r) ==
    /\ thr[r] \in Working /\ req[r].kind # "none"
    /\ UNCHANGED <<row, pc, halt, held, task, window, excuse, stuck, forced>>
    /\ Others(r)
    /\ thr'[r] \in IF thr[r] = "stop" THEN Answers \cup {"none"} ELSE ThrPcs \ {"stop", "clear"}
    /\ thr'[r] \in Answers => pc[r] \in {"down", "up"}
    /\ thr'[r] = "none" => pc[r] \notin {"down", "up"}
    /\ req'[r] = IF pc[r] = "idle" /\ thr'[r] = "none" THEN Nothing ELSE req[r]
    /\ cont' \in [Slots -> [state : ContStates, gpus : SUBSET GPUs]]
    /\ \A t \in Slots \ {req[r].slot} : cont'[t] = cont[t]
    /\ dirty' \in {dirty, dirty \cup {req[r].slot}}
    /\ troubles' \in 0..MaxTroubles

(* Every step of a thread has that effect.                                  *)
LEMMA ThreadDoes ==
    ASSUME TypeOK, Control, NEW r \in Requests, ThreadProgress(r)
    PROVE  ThreadEffect(r)
<1> USE DEF ThreadProgress, Works, Breaks, Botches, RaisesBefore, RaisesAfter, Trouble, Thread,
        Spoil, Answers, lockVars, histVars, cntVars
<1>1. thr[r] \in Working /\ req[r].kind # "none"
  BY DEF Working, ThreadStop, ThreadClear, ThreadRun, ThreadNet, Control, Follows
<1>2. UNCHANGED <<row, pc, halt, held, task, window, excuse, stuck, forced>>
  BY DEF ThreadStop, ThreadClear, ThreadRun, ThreadNet
<1>3. dirty' \in {dirty, dirty \cup {req[r].slot}} /\ troubles' \in 0..MaxTroubles
  BY DEF ThreadStop, ThreadClear, ThreadRun, ThreadNet, TypeOK
<1>4. \E c \in [state : ContStates, gpus : SUBSET GPUs] :
         cont' = cont \/ cont' = [cont EXCEPT ![req[r].slot] = c]
  <2>1. req[r].gpus \in SUBSET GPUs /\ GPUs \in SUBSET GPUs
    BY <1>1, ReqType
  <2>2. \/ cont' = cont
        \/ \E c \in {NoCont, [state |-> "up", gpus |-> req[r].gpus],
                             [state |-> "created", gpus |-> req[r].gpus],
                             [state |-> "created", gpus |-> cont[req[r].slot].gpus]} :
              cont' = [cont EXCEPT ![req[r].slot] = c]
    BY DEF ThreadStop, ThreadClear, ThreadRun, ThreadNet, Remove, Halt, Container
  <2>3. cont[req[r].slot].gpus \in SUBSET GPUs
    BY <1>1, ReqType DEF TypeOK
  <2> QED BY <2>1, <2>2, <2>3 DEF ContStates, NoCont
<1>5. /\ cont' \in [Slots -> [state : ContStates, gpus : SUBSET GPUs]]
      /\ \A t \in Slots \ {req[r].slot} : cont'[t] = cont[t]
  BY <1>4 DEF TypeOK
<1>6. \/ \E x \in Answers : Result(r, x)
      \/ req' = req /\ \E x \in {"run", "net"} : thr' = [thr EXCEPT ![r] = x]
  BY DEF ThreadStop, ThreadClear, ThreadRun, ThreadNet
<1>7. /\ thr' \in [Requests -> ThrPcs]
      /\ \A q \in Requests \ {r} : thr'[q] = thr[q]
      /\ thr'[r] \in Answers => pc[r] \in {"down", "up"}
      /\ thr'[r] = "none" => pc[r] \notin {"down", "up"}
  BY <1>6 DEF Result, ThrPcs, TypeOK
<1>8. \/ req' = req /\ ~(pc[r] = "idle" /\ thr'[r] = "none")
      \/ req' = [req EXCEPT ![r] = Nothing] /\ pc[r] = "idle" /\ thr'[r] = "none"
  BY <1>6 DEF Result, TypeOK
<1>9. /\ req' \in [Requests -> {Nothing} \cup Asks]
      /\ \A q \in Requests \ {r} : req'[q] = req[q]
      /\ req'[r] = IF pc[r] = "idle" /\ thr'[r] = "none" THEN Nothing ELSE req[r]
  BY <1>8 DEF TypeOK, Asks
<1>10. thr'[r] \in IF thr[r] = "stop" THEN Answers \cup {"none"} ELSE ThrPcs \ {"stop", "clear"}
  BY DEF ThreadStop, ThreadClear, ThreadRun, ThreadNet, Result, ThrPcs, TypeOK
<1>11. pc' \in [Requests -> HttpPcs \cup JobPcs]
  BY <1>2 DEF TypeOK
<1> QED BY <1>1, <1>2, <1>3, <1>5, <1>7, <1>9, <1>10, <1>11 DEF ThreadEffect, Others

(* What the thread of a key nobody forced makes of the container, if       *)
(* nothing goes wrong that spoils the slot; a call that raises then has    *)
(* touched nothing.                                                        *)
LEMMA ThreadContainer ==
    ASSUME TypeOK, Control, Containers, NEW r \in Requests, ThreadProgress(r),
           req[r].slot \notin dirty'
    PROVE  LET c == cont'[req[r].slot] IN
           /\ req[r].slot \in Slots \ dirty /\ pc[r] \in {"down", "up"}
           /\ pc[r] = "down" =>
                \/ thr'[r] \in {"ok", "err"} /\ c.state = "none"
                \/ thr'[r] = "raised" /\ thr[r] = "stop" /\ cont' = cont
           /\ pc[r] = "up" =>
                \/ thr'[r] = "raised" /\ thr[r] = "clear" /\ cont' = cont
                \/ thr'[r] = "run" /\ c.state = "none"
                \/ thr'[r] \in {"net", "ok"} /\ c.state = "up" /\ c.gpus = req[r].gpus
                \/ thr'[r] = "err" /\ c.state # "up"
<1>1. thr[r] \in Working /\ dirty \subseteq dirty' /\ req[r].slot \in Slots
  BY ThreadDoes, ReqType DEF ThreadEffect, Control, Follows, Working
<1>2. req[r].slot \in Slots \ dirty /\ req[r].slot \notin forced
  BY <1>1 DEF Containers
<1>3. pc[r] \in {"down", "up"} /\ req[r].gpus \subseteq GPUs
  BY <1>1, <1>2, ReqType DEF Control, Follows, Working, TypeOK, HttpPcs, JobPcs
<1>4. Known(r)
  BY <1>2 DEF Containers
<1> USE <1>2, <1>3 DEF TypeOK, Works, Breaks, Botches, RaisesBefore, RaisesAfter, Spoil, Result,
        Thread, Remove, Container, NoCont, Answers, histVars
<1>5. CASE ThreadStop(r)
  BY <1>5 DEF ThreadStop, Control, Follows
<1>6. CASE ThreadClear(r)
  BY <1>6 DEF ThreadClear, Control, Follows
<1>7. CASE ThreadRun(r)
  <2>1. pc[r] = "up" /\ cont[req[r].slot].state = "none"
    BY <1>4, <1>7 DEF ThreadRun, Control, Follows, Known
  <2> QED BY <1>7, <2>1 DEF ThreadRun
<1>8. CASE ThreadNet(r)
  <2>1. pc[r] = "up" /\ cont[req[r].slot].state = "up" /\ cont[req[r].slot].gpus = req[r].gpus
    BY <1>4, <1>8 DEF ThreadNet, Control, Follows, Known
  <2> QED BY <1>8, <2>1 DEF ThreadNet
<1> QED BY <1>5, <1>6, <1>7, <1>8 DEF ThreadProgress


-----------------------------------------------------------------------------
(* The invariant holds at first.                                           *)
LEMMA InitIInv == Init => IInv
<1> SUFFICES ASSUME Init PROVE IInv
  OBVIOUS
<1>1. TypeOK
  BY DEF Init, TypeOK, RowStates, ContStates, HttpPcs, JobPcs, ThrPcs, NoCont, Nothing
<1>2. Control /\ Registered /\ Ownership
  BY DEF Init, Control, Registered, Follows, Ownership, Owns, JobPcs, ThrPcs, Answers,
     Nothing
<1>3. Bookings
  BY DEF Init, Bookings, Booking, JobPcs
<1>4. Containers
  BY DEF Init, Containers, Touched, Known, Agree, NoCont, Nothing
<1>5. Sharing
  BY DEF Init, Sharing, Active
<1> QED BY <1>1, <1>2, <1>3, <1>4, <1>5 DEF IInv

(* Every action keeps the types.                                           *)
LEMMA TypeStep ==
    ASSUME TypeOK, Control, Bookings, [Next]_vars
    PROVE  TypeOK'
<1>1. ASSUME NEW r \in Requests, CreateInsert(r) PROVE TypeOK'
  <2>1. CreateInsertEffect(r)
    BY <1>1, CreateInsertDoes
  <2>2. \A t \in Slots : row'[t].gpus = {} <=> row'[t].status = "none"
    BY <2>1 DEF CreateInsertEffect, OtherRows, TypeOK
  <2> QED BY <2>1, <2>2 DEF CreateInsertEffect, Others, OtherRows, Announced, Asks, TypeOK
<1>2. ASSUME NEW r \in Requests, OtherSubmit(r) PROVE TypeOK'
  <2>1. OtherSubmitEffect(r)
    BY <1>2, OtherSubmitDoes
  <2> QED BY <2>1 DEF OtherSubmitEffect, Others, OtherRows, Announced, Asks, TypeOK, RowStates
<1>3. ASSUME NEW r \in Requests, JobStop(r) PROVE TypeOK'
  <2>1. JobStopEffect(r)
    BY <1>3, JobStopDoes
  <2> QED BY <2>1 DEF JobStopEffect, Others, OtherRows, Announced, Asks, TypeOK, RowStates
<1>4. ASSUME NEW r \in Requests, JobStopped(r) PROVE TypeOK'
  <2>1. JobStoppedEffect(r)
    BY <1>4, JobStoppedDoes
  <2> QED BY <2>1 DEF JobStoppedEffect, Others, OtherRows, Announced, Asks, TypeOK, RowStates
<1>5. ASSUME NEW r \in Requests, JobStarted(r) PROVE TypeOK'
  <2>1. JobStartedEffect(r)
    BY <1>5, JobStartedDoes
  <2> QED BY <2>1 DEF JobStartedEffect, Others, OtherRows, Announced, Asks, TypeOK, RowStates
<1>6. ASSUME NEW r \in Requests, ThreadProgress(r) PROVE TypeOK'
  <2>1. ThreadEffect(r) /\ req[r].slot \in Slots
    BY <1>6, ThreadDoes, ReqType DEF ThreadEffect
  <2> QED BY <2>1 DEF ThreadEffect, Others, Asks, TypeOK
<1>7. ASSUME NEW s \in Slots, ForceStop(s) PROVE TypeOK'
  <2>1. \/ cont' = cont
        \/ \E c \in {NoCont, [state |-> "created", gpus |-> cont[s].gpus]} :
              cont' = [cont EXCEPT ![s] = c]
    BY <1>7 DEF ForceStop, Remove, Halt, Container
  <2>2. cont[s].gpus \in SUBSET GPUs /\ "created" \in ContStates /\ "none" \in ContStates
    BY DEF TypeOK, ContStates
  <2>3. {NoCont, [state |-> "created", gpus |-> cont[s].gpus]}
           \subseteq [state : ContStates, gpus : SUBSET GPUs]
    BY <2>2 DEF NoCont
  <2>4. cont' \in [Slots -> [state : ContStates, gpus : SUBSET GPUs]]
    BY <2>1, <2>3 DEF TypeOK
  <2>5. halt' \in [Slots -> {"idle", "stop"}] /\ troubles' \in 0..MaxTroubles
    BY <1>7 DEF ForceStop, Trouble, TypeOK
  <2> QED BY <1>7, <2>4, <2>5 DEF ForceStop, reqVars, lockVars, histVars, TypeOK
<1> USE DEF TypeOK, RowStates, ContStates, HttpPcs, JobPcs, ThrPcs, Answers, Working, reqVars,
        lockVars, histVars, cntVars, Trouble, Goto, Forget, Thread, Stall, Lock, Nothing
<1>8. ASSUME NEW r \in Requests, CreateCheck(r) PROVE TypeOK'
  BY <1>8, GpuSetsNonEmpty DEF CreateCheck
<1>9. ASSUME NEW r \in Requests, CreateRefuse(r) PROVE TypeOK'
  BY <1>9 DEF CreateRefuse
<1>10. ASSUME NEW r \in Requests, CreateSubmit(r) PROVE TypeOK'
  BY <1>10, ReqType DEF CreateSubmit, Control, Follows
<1>11. ASSUME NEW r \in Requests, CreateConflict(r) PROVE TypeOK'
  BY <1>11, ReqType DEF CreateConflict, Control, Follows
<1>12. ASSUME NEW r \in Requests, JobPrepFails(r) PROVE TypeOK'
  BY <1>12, ReqType DEF JobPrepFails, Control, Follows
<1>13. ASSUME NEW r \in Requests, RestartUnknown(r) PROVE TypeOK'
  BY <1>13 DEF RestartUnknown
<1>14. ASSUME NEW r \in Requests, JobStart(r) PROVE TypeOK'
  BY <1>14 DEF JobStart
<1>15. ASSUME NEW r \in Requests, JobEnds(r) PROVE TypeOK'
  BY <1>15 DEF JobEnds
<1>16. ASSUME NEW s \in Slots, ForceCancel(s) PROVE TypeOK'
  BY <1>16 DEF ForceCancel
<1>17. CASE Crash
  BY <1>17 DEF Crash
<1>18. CASE UNCHANGED vars
  BY <1>18 DEF vars
<1>19. ASSUME NEW r \in Requests, JobRaises(r) PROVE TypeOK'
  BY <1>19 DEF JobRaises
<1>20. ASSUME NEW r \in Requests, JobMarkFails(r) PROVE TypeOK'
  <2>1. req[r].slot \in Slots
    BY <1>20, ReqType DEF JobMarkFails, Control, Follows
  <2> QED BY <1>20, <2>1 DEF JobMarkFails
<1> QED
  BY <1>1, <1>2, <1>3, <1>4, <1>5, <1>6, <1>7, <1>8, <1>9, <1>10, <1>11, <1>12, <1>13,
     <1>14, <1>15, <1>16, <1>17, <1>18, <1>19, <1>20
  DEF Next, CreateProgress, JobProgress

(* Coroutines and threads move together.                                   *)
LEMMA ControlStep ==
    ASSUME TypeOK, Control, Registered, Bookings, [Next]_vars
    PROVE  Control'
<1>1. ASSUME NEW r \in Requests, CreateInsert(r) PROVE Control'
  <2>1. CreateInsertEffect(r)
    BY <1>1, CreateInsertDoes
  <2> SUFFICES ASSUME NEW q \in Requests PROVE Follows(q)'
    BY DEF Control
  <2>2. CASE q = r
    BY <2>1, <2>2 DEF CreateInsertEffect, Others, Asks, Nothing, Control, Follows, ThrPcs,
       Working, JobPcs, HttpPcs
  <2>3. CASE q # r
    BY <2>1, <2>3 DEF CreateInsertEffect, Others, Asks, Nothing, Control, Follows, ThrPcs,
       Working, JobPcs, HttpPcs
  <2> QED BY <2>2, <2>3
<1>2. ASSUME NEW r \in Requests, OtherSubmit(r) PROVE Control'
  <2>1. OtherSubmitEffect(r)
    BY <1>2, OtherSubmitDoes
  <2> SUFFICES ASSUME NEW q \in Requests PROVE Follows(q)'
    BY DEF Control
  <2>2. CASE q = r
    BY <2>1, <2>2 DEF OtherSubmitEffect, Others, Asks, Nothing, Control, Follows, ThrPcs,
       Working, JobPcs, HttpPcs
  <2>3. CASE q # r
    BY <2>1, <2>3 DEF OtherSubmitEffect, Others, Asks, Nothing, Control, Follows, ThrPcs,
       Working, JobPcs, HttpPcs
  <2> QED BY <2>2, <2>3
<1>3. ASSUME NEW r \in Requests, JobStop(r) PROVE Control'
  <2>1. JobStopEffect(r)
    BY <1>3, JobStopDoes
  <2> SUFFICES ASSUME NEW q \in Requests PROVE Follows(q)'
    BY DEF Control
  <2>2. CASE q = r
    BY <2>1, <2>2 DEF JobStopEffect, Others, Asks, Nothing, Control, Follows, ThrPcs, Answers,
       Working, JobPcs, HttpPcs
  <2>3. CASE q # r
    BY <2>1, <2>3 DEF JobStopEffect, Others, Asks, Nothing, Control, Follows, ThrPcs, Answers,
       Working, JobPcs, HttpPcs
  <2> QED BY <2>2, <2>3
<1>4. ASSUME NEW r \in Requests, JobStopped(r) PROVE Control'
  <2>1. JobStoppedEffect(r)
    BY <1>4, JobStoppedDoes
  <2> SUFFICES ASSUME NEW q \in Requests PROVE Follows(q)'
    BY DEF Control
  <2>2. CASE q = r
    <3>1. req[r].kind = "restart" => req[r].gpus # {}
      BY <2>1 DEF JobStoppedEffect, Bookings, Booking
    <3> QED BY <2>1, <2>2, <3>1 DEF JobStoppedEffect, Control, Follows
  <2>3. CASE q # r
    BY <2>1, <2>3 DEF JobStoppedEffect, Others, Control, Follows
  <2> QED BY <2>2, <2>3
<1>5. ASSUME NEW r \in Requests, JobStarted(r) PROVE Control'
  <2>1. JobStartedEffect(r)
    BY <1>5, JobStartedDoes
  <2> SUFFICES ASSUME NEW q \in Requests PROVE Follows(q)'
    BY DEF Control
  <2>2. CASE q = r
    BY <2>1, <2>2 DEF JobStartedEffect, Others, Asks, Nothing, Control, Follows, ThrPcs,
       Working, JobPcs, HttpPcs
  <2>3. CASE q # r
    BY <2>1, <2>3 DEF JobStartedEffect, Others, Asks, Nothing, Control, Follows, ThrPcs,
       Working, JobPcs, HttpPcs
  <2> QED BY <2>2, <2>3
<1>6. ASSUME NEW r \in Requests, ThreadProgress(r) PROVE Control'
  <2>1. ThreadEffect(r)
    BY <1>6, ThreadDoes
  <2> SUFFICES ASSUME NEW q \in Requests PROVE Follows(q)'
    BY DEF Control
  <2>2. CASE q = r
    BY <2>1, <2>2 DEF ThreadEffect, Others, Asks, Nothing, Control, Follows, ThrPcs, Answers,
       Working, JobPcs, HttpPcs
  <2>3. CASE q # r
    BY <2>1, <2>3 DEF ThreadEffect, Others, Asks, Nothing, Control, Follows, ThrPcs, Answers,
       Working, JobPcs, HttpPcs
  <2> QED BY <2>2, <2>3
<1>7. ASSUME NEW s \in Slots, ForceCancel(s) PROVE Control'
  <2> SUFFICES ASSUME NEW q \in Requests PROVE Follows(q)'
    BY DEF Control
  <2>1. /\ UNCHANGED req /\ s \in forced' /\ forced \subseteq forced'
        /\ \/ pc'[q] = "unwind" /\ task[s] = q /\ pc[q] \in JobPcs /\ thr'[q] \notin Answers
              /\ thr'[q] \in {thr[q], "none"}
           \/ pc'[q] = pc[q] /\ thr'[q] = thr[q]
    <3>1. CASE task[s] = q /\ pc[q] \in JobPcs
      BY <1>7, <3>1 DEF ForceCancel, Answers
    <3>2. CASE ~(task[s] = q /\ pc[q] \in JobPcs)
      BY <1>7, <3>2 DEF ForceCancel
    <3> QED BY <3>1, <3>2
  <2> QED BY <1>7, <2>1 DEF Control, Follows, Registered, JobPcs
<1> USE DEF TypeOK, RowStates, ContStates, HttpPcs, JobPcs, ThrPcs, Answers, Working, Control,
        Follows, reqVars, lockVars, histVars, cntVars, Trouble, Goto, Forget, Thread, Stall, Lock,
        Nothing
<1>8. ASSUME NEW r \in Requests, CreateCheck(r) PROVE Control'
  BY <1>8, GpuSetsNonEmpty DEF CreateCheck
<1>9. ASSUME NEW r \in Requests, CreateRefuse(r) PROVE Control'
  BY <1>9 DEF CreateRefuse
<1>10. ASSUME NEW r \in Requests, CreateSubmit(r) PROVE Control'
  BY <1>10 DEF CreateSubmit
<1>11. ASSUME NEW r \in Requests, CreateConflict(r) PROVE Control'
  BY <1>11 DEF CreateConflict
<1>12. ASSUME NEW r \in Requests, JobPrepFails(r) PROVE Control'
  BY <1>12 DEF JobPrepFails
<1>13. ASSUME NEW r \in Requests, RestartUnknown(r) PROVE Control'
  BY <1>13 DEF RestartUnknown
<1>14. ASSUME NEW r \in Requests, JobStart(r) PROVE Control'
  BY <1>14 DEF JobStart
<1>15. ASSUME NEW r \in Requests, JobEnds(r) PROVE Control'
  BY <1>15 DEF JobEnds
<1>16. ASSUME NEW s \in Slots, ForceStop(s) PROVE Control'
  BY <1>16 DEF ForceStop
<1>17. CASE Crash
  BY <1>17 DEF Crash
<1>18. CASE UNCHANGED vars
  BY <1>18 DEF vars
<1>19. ASSUME NEW r \in Requests, JobRaises(r) PROVE Control'
  BY <1>19 DEF JobRaises
<1>20. ASSUME NEW r \in Requests, JobMarkFails(r) PROVE Control'
  BY <1>20 DEF JobMarkFails
<1> QED
  BY <1>1, <1>2, <1>3, <1>4, <1>5, <1>6, <1>7, <1>8, <1>9, <1>10, <1>11, <1>12, <1>13,
     <1>14, <1>15, <1>16, <1>17, <1>18, <1>19, <1>20
  DEF Next, CreateProgress, JobProgress

(* A job leaves the registry when it ends.                                 *)
LEMMA RegisteredStep ==
    ASSUME TypeOK, Control, Registered, Bookings, [Next]_vars
    PROVE  Registered'
<1>1. ASSUME NEW r \in Requests, CreateInsert(r) PROVE Registered'
  <2>1. CreateInsertEffect(r)
    BY <1>1, CreateInsertDoes
  <2> QED BY <2>1 DEF CreateInsertEffect, Others, Registered, JobPcs, Working
<1>2. ASSUME NEW r \in Requests, OtherSubmit(r) PROVE Registered'
  <2>1. OtherSubmitEffect(r)
    BY <1>2, OtherSubmitDoes
  <2> QED BY <2>1 DEF OtherSubmitEffect, Others, Registered, JobPcs, Working, TypeOK
<1>3. ASSUME NEW r \in Requests, JobStop(r) PROVE Registered'
  <2>1. JobStopEffect(r)
    BY <1>3, JobStopDoes
  <2> QED BY <2>1 DEF JobStopEffect, Others, Registered, JobPcs, Working
<1>4. ASSUME NEW r \in Requests, JobStopped(r) PROVE Registered'
  <2>1. JobStoppedEffect(r)
    BY <1>4, JobStoppedDoes
  <2> QED BY <2>1 DEF JobStoppedEffect, Others, Registered, JobPcs, Working
<1>5. ASSUME NEW r \in Requests, JobStarted(r) PROVE Registered'
  <2>1. JobStartedEffect(r)
    BY <1>5, JobStartedDoes
  <2> QED BY <2>1 DEF JobStartedEffect, Others, Registered, JobPcs, Working
<1>6. ASSUME NEW r \in Requests, ThreadProgress(r) PROVE Registered'
  <2>1. ThreadEffect(r)
    BY <1>6, ThreadDoes
  <2> QED BY <2>1 DEF ThreadEffect, Others, Registered, JobPcs, Working
<1> USE DEF TypeOK, RowStates, ContStates, HttpPcs, JobPcs, ThrPcs, Answers, Working, Registered,
        reqVars, lockVars, histVars, cntVars, Trouble, Goto, Forget, Thread, Stall, Lock,
        Nothing
<1>7. ASSUME NEW r \in Requests, CreateCheck(r) PROVE Registered'
  BY <1>7 DEF CreateCheck
<1>8. ASSUME NEW r \in Requests, CreateRefuse(r) PROVE Registered'
  BY <1>8 DEF CreateRefuse
<1>9. ASSUME NEW r \in Requests, CreateSubmit(r) PROVE Registered'
  BY <1>9 DEF CreateSubmit
<1>10. ASSUME NEW r \in Requests, CreateConflict(r) PROVE Registered'
  BY <1>10 DEF CreateConflict
<1>11. ASSUME NEW r \in Requests, JobPrepFails(r) PROVE Registered'
  BY <1>11 DEF JobPrepFails
<1>12. ASSUME NEW r \in Requests, RestartUnknown(r) PROVE Registered'
  BY <1>12 DEF RestartUnknown
<1>13. ASSUME NEW r \in Requests, JobStart(r) PROVE Registered'
  BY <1>13 DEF JobStart
<1>14. ASSUME NEW r \in Requests, JobEnds(r) PROVE Registered'
  BY <1>14 DEF JobEnds
<1>15. ASSUME NEW s \in Slots, ForceCancel(s) PROVE Registered'
  BY <1>15 DEF ForceCancel
<1>16. ASSUME NEW s \in Slots, ForceStop(s) PROVE Registered'
  BY <1>16 DEF ForceStop
<1>17. CASE Crash
  BY <1>17 DEF Crash
<1>18. CASE UNCHANGED vars
  BY <1>18 DEF vars
<1>19. ASSUME NEW r \in Requests, JobRaises(r) PROVE Registered'
  BY <1>19 DEF JobRaises
<1>20. ASSUME NEW r \in Requests, JobMarkFails(r) PROVE Registered'
  BY <1>20 DEF JobMarkFails
<1> QED
  BY <1>1, <1>2, <1>3, <1>4, <1>5, <1>6, <1>7, <1>8, <1>9, <1>10, <1>11, <1>12, <1>13,
     <1>14, <1>15, <1>16, <1>17, <1>18, <1>19, <1>20
  DEF Next, CreateProgress, JobProgress

(* Only a submit takes a key, and only if it is free.                      *)
LEMMA OwnershipStep ==
    ASSUME TypeOK, Control, Ownership, Bookings, [Next]_vars
    PROVE  Ownership'
<1>1. ASSUME NEW r \in Requests, CreateInsert(r) PROVE Ownership'
  <2>1. CreateInsertEffect(r)
    BY <1>1, CreateInsertDoes
  <2> SUFFICES ASSUME NEW q \in Requests PROVE Owns(q)'
    BY DEF Ownership
  <2>2. CASE q = r
    BY <2>1, <2>2 DEF CreateInsertEffect, Others, Asks, Nothing, Ownership, Owns, JobPcs
  <2>3. CASE q # r
    BY <2>1, <2>3 DEF CreateInsertEffect, Others, Asks, Nothing, Ownership, Owns, JobPcs
  <2> QED BY <2>2, <2>3
<1>2. ASSUME NEW r \in Requests, OtherSubmit(r) PROVE Ownership'
  <2>1. OtherSubmitEffect(r)
    BY <1>2, OtherSubmitDoes
  <2> SUFFICES ASSUME NEW q \in Requests PROVE Owns(q)'
    BY DEF Ownership
  <2>2. CASE q = r
    BY <2>1, <2>2 DEF OtherSubmitEffect, Others, Asks, Nothing, Ownership, Owns, JobPcs
  <2>3. CASE q # r
    BY <2>1, <2>3 DEF OtherSubmitEffect, Others, Asks, Nothing, Ownership, Owns, JobPcs
  <2> QED BY <2>2, <2>3
<1>3. ASSUME NEW r \in Requests, JobStop(r) PROVE Ownership'
  <2>1. JobStopEffect(r)
    BY <1>3, JobStopDoes
  <2> SUFFICES ASSUME NEW q \in Requests PROVE Owns(q)'
    BY DEF Ownership
  <2>2. CASE q = r
    BY <2>1, <2>2 DEF JobStopEffect, Others, Asks, Nothing, Ownership, Owns, JobPcs
  <2>3. CASE q # r
    BY <2>1, <2>3 DEF JobStopEffect, Others, Asks, Nothing, Ownership, Owns, JobPcs
  <2> QED BY <2>2, <2>3
<1>4. ASSUME NEW r \in Requests, JobStopped(r) PROVE Ownership'
  <2>1. JobStoppedEffect(r)
    BY <1>4, JobStoppedDoes
  <2> SUFFICES ASSUME NEW q \in Requests PROVE Owns(q)'
    BY DEF Ownership
  <2>2. CASE q = r
    BY <2>1, <2>2 DEF JobStoppedEffect, Others, Asks, Nothing, Ownership, Owns, JobPcs
  <2>3. CASE q # r
    BY <2>1, <2>3 DEF JobStoppedEffect, Others, Asks, Nothing, Ownership, Owns, JobPcs
  <2> QED BY <2>2, <2>3
<1>5. ASSUME NEW r \in Requests, JobStarted(r) PROVE Ownership'
  <2>1. JobStartedEffect(r)
    BY <1>5, JobStartedDoes
  <2> SUFFICES ASSUME NEW q \in Requests PROVE Owns(q)'
    BY DEF Ownership
  <2>2. CASE q = r
    BY <2>1, <2>2 DEF JobStartedEffect, Others, Asks, Nothing, Ownership, Owns, JobPcs
  <2>3. CASE q # r
    BY <2>1, <2>3 DEF JobStartedEffect, Others, Asks, Nothing, Ownership, Owns, JobPcs
  <2> QED BY <2>2, <2>3
<1>6. ASSUME NEW r \in Requests, ThreadProgress(r) PROVE Ownership'
  <2>1. ThreadEffect(r)
    BY <1>6, ThreadDoes
  <2> SUFFICES ASSUME NEW q \in Requests PROVE Owns(q)'
    BY DEF Ownership
  <2>2. CASE q = r
    BY <2>1, <2>2 DEF ThreadEffect, Others, Asks, Nothing, Ownership, Owns, JobPcs
  <2>3. CASE q # r
    BY <2>1, <2>3 DEF ThreadEffect, Others, Asks, Nothing, Ownership, Owns, JobPcs
  <2> QED BY <2>2, <2>3
<1> USE DEF TypeOK, RowStates, ContStates, HttpPcs, JobPcs, ThrPcs, Answers, Working, Control,
        Follows, Ownership, Owns, reqVars, lockVars, histVars, cntVars, Trouble, Goto, Forget, Thread,
        Stall, Lock, Nothing
<1>7. ASSUME NEW r \in Requests, CreateCheck(r) PROVE Ownership'
  BY <1>7 DEF CreateCheck
<1>8. ASSUME NEW r \in Requests, CreateRefuse(r) PROVE Ownership'
  BY <1>8 DEF CreateRefuse
<1>9. ASSUME NEW r \in Requests, CreateSubmit(r) PROVE Ownership'
  BY <1>9 DEF CreateSubmit
<1>10. ASSUME NEW r \in Requests, CreateConflict(r) PROVE Ownership'
  BY <1>10 DEF CreateConflict
<1>11. ASSUME NEW r \in Requests, JobPrepFails(r) PROVE Ownership'
  BY <1>11 DEF JobPrepFails
<1>12. ASSUME NEW r \in Requests, RestartUnknown(r) PROVE Ownership'
  BY <1>12 DEF RestartUnknown
<1>13. ASSUME NEW r \in Requests, JobStart(r) PROVE Ownership'
  BY <1>13 DEF JobStart
<1>14. ASSUME NEW r \in Requests, JobEnds(r) PROVE Ownership'
  BY <1>14 DEF JobEnds
<1>15. ASSUME NEW s \in Slots, ForceCancel(s) PROVE Ownership'
  BY <1>15 DEF ForceCancel
<1>16. ASSUME NEW s \in Slots, ForceStop(s) PROVE Ownership'
  BY <1>16 DEF ForceStop
<1>17. CASE Crash
  BY <1>17 DEF Crash
<1>18. CASE UNCHANGED vars
  BY <1>18 DEF vars
<1>19. ASSUME NEW r \in Requests, JobRaises(r) PROVE Ownership'
  BY <1>19 DEF JobRaises
<1>20. ASSUME NEW r \in Requests, JobMarkFails(r) PROVE Ownership'
  BY <1>20 DEF JobMarkFails
<1> QED
  BY <1>1, <1>2, <1>3, <1>4, <1>5, <1>6, <1>7, <1>8, <1>9, <1>10, <1>11, <1>12, <1>13,
     <1>14, <1>15, <1>16, <1>17, <1>18, <1>19, <1>20
  DEF Next, CreateProgress, JobProgress

(* A row becomes active, or changes its GPUs, in sight of every open check *)
(* or with an excuse.                                                      *)
LEMMA BookingsStep ==
    ASSUME TypeOK, Control, Registered, Bookings, [Next]_vars
    PROVE  Bookings'
<1>1. ASSUME NEW r \in Requests, CreateCheck(r) PROVE Bookings'
  <2> SUFFICES ASSUME NEW q \in Requests PROVE Booking(q)'
    BY DEF Bookings
  <2>1. UNCHANGED <<row, excuse>> /\ pc' = [pc EXCEPT ![r] = "checked"]
    BY <1>1 DEF CreateCheck, Goto
  <2>2. \A p \in Requests \ {r} : req'[p] = req[p] /\ window'[p] = window[p]
    BY <1>1 DEF CreateCheck, TypeOK
  <2>3. CASE q = r
    <3>1. PICK s \in Slots, G \in GpuSets :
             /\ req' = [req EXCEPT ![r] = [kind |-> "create", slot |-> s, gpus |-> G]]
             /\ window' = [window EXCEPT ![r] = {t \in Slots : Active(t) /\ row[t].gpus \cap G # {}}]
      BY <1>1 DEF CreateCheck
    <3>2. req'[r].gpus = G /\ window'[r] = {t \in Slots : Active(t) /\ Meet(row[t].gpus, G)}
      BY <3>1 DEF TypeOK, Meet
    <3>3. pc'[r] = "checked"
      BY <2>1 DEF TypeOK
    <3> QED BY <2>1, <2>3, <3>2, <3>3 DEF Booking, Active, JobPcs
  <2>4. CASE q # r
    BY <2>1, <2>2, <2>4 DEF Bookings, Booking, Active, Excused, TypeOK
  <2> QED BY <2>3, <2>4
<1>2. ASSUME NEW r \in Requests, CreateInsert(r) PROVE Bookings'
  <2>1. CreateInsertEffect(r)
    BY <1>2, CreateInsertDoes
  <2> SUFFICES ASSUME NEW q \in Requests PROVE Booking(q)'
    BY DEF Bookings
  <2>2. Booking(q) /\ Booking(r)
    BY DEF Bookings
  <2>3. CASE q = r
    BY <2>1, <2>2, <2>3 DEF CreateInsertEffect, Booking, Active, Excused, JobPcs, Others,
       OtherRows, Announced
  <2>4. CASE q # r
    <3>1. /\ req'[q] = req[q] /\ pc'[q] = pc[q]
          /\ pc[q] # "idle" => req[q].slot \in Slots
      BY <2>1, <2>4, ReqType DEF CreateInsertEffect, Others, Control, Follows
    <3>2. pc[q] = "checked" => Booking(q)'
      BY <2>1, <2>2, <2>4, <3>1 DEF CreateInsertEffect, Booking, Active, Excused, JobPcs,
         Others, OtherRows, Announced
    <3>3. pc[q] # "checked" => Booking(q)'
      BY <2>1, <2>2, <2>4, <3>1 DEF CreateInsertEffect, Booking, Active, Excused, JobPcs,
         Others, OtherRows, Announced
    <3> QED BY <3>2, <3>3
  <2> QED BY <2>3, <2>4
<1>3. ASSUME NEW r \in Requests, OtherSubmit(r) PROVE Bookings'
  <2>1. OtherSubmitEffect(r)
    BY <1>3, OtherSubmitDoes
  <2> SUFFICES ASSUME NEW q \in Requests PROVE Booking(q)'
    BY DEF Bookings
  <2>2. Booking(q) /\ Booking(r)
    BY DEF Bookings
  <2>3. CASE q = r
    BY <2>1, <2>2, <2>3 DEF OtherSubmitEffect, Booking, Active, Excused, JobPcs, Others
  <2>4. CASE q # r
    BY <2>1, <2>2, <2>4 DEF OtherSubmitEffect, Booking, Active, Excused, JobPcs, Others
  <2> QED BY <2>3, <2>4
<1>4. ASSUME NEW r \in Requests, JobStop(r) PROVE Bookings'
  <2>1. JobStopEffect(r)
    BY <1>4, JobStopDoes
  <2> SUFFICES ASSUME NEW q \in Requests PROVE Booking(q)'
    BY DEF Bookings
  <2>2. Booking(q) /\ Booking(r)
    BY DEF Bookings
  <2>3. CASE q = r
    BY <2>1, <2>2, <2>3 DEF JobStopEffect, Booking, Active, Excused, JobPcs, Others
  <2>4. CASE q # r
    BY <2>1, <2>2, <2>4 DEF JobStopEffect, Booking, Active, Excused, JobPcs, Others
  <2> QED BY <2>3, <2>4
<1>5. ASSUME NEW r \in Requests, JobStopped(r) PROVE Bookings'
  <2>1. JobStoppedEffect(r)
    BY <1>5, JobStoppedDoes
  <2> SUFFICES ASSUME NEW q \in Requests PROVE Booking(q)'
    BY DEF Bookings
  <2>2. Booking(q) /\ Booking(r)
    BY DEF Bookings
  <2>3. CASE q = r
    BY <2>1, <2>2, <2>3 DEF JobStoppedEffect, Booking, Active, Excused, JobPcs, Others, OtherRows
  <2>4. CASE q # r
    <3>1. /\ req'[q] = req[q] /\ pc'[q] = pc[q]
          /\ pc[q] # "idle" => req[q].slot \in Slots
      BY <2>1, <2>4, ReqType DEF JobStoppedEffect, Others, Control, Follows
    <3>2. pc[q] = "checked" => Booking(q)'
      BY <2>1, <2>2, <2>4, <3>1 DEF JobStoppedEffect, Booking, Active, Excused, JobPcs,
         Others, OtherRows
    <3>3. pc[q] # "checked" => Booking(q)'
      BY <2>1, <2>2, <2>4, <3>1 DEF JobStoppedEffect, Booking, Active, Excused, JobPcs,
         Others, OtherRows
    <3> QED BY <3>2, <3>3
  <2> QED BY <2>3, <2>4
<1>6. ASSUME NEW r \in Requests, JobStarted(r) PROVE Bookings'
  <2>1. JobStartedEffect(r)
    BY <1>6, JobStartedDoes
  <2> SUFFICES ASSUME NEW q \in Requests PROVE Booking(q)'
    BY DEF Bookings
  <2>2. Booking(q) /\ Booking(r)
    BY DEF Bookings
  <2>3. CASE q = r
    BY <2>1, <2>2, <2>3, PairSymmetric DEF JobStartedEffect, Booking, Active, Excused, JobPcs,
       Others, OtherRows, Announced
  <2>4. CASE q # r
    <3>1. /\ req'[q] = req[q] /\ pc'[q] = pc[q]
          /\ pc[q] # "idle" => req[q].slot \in Slots
      BY <2>1, <2>4, ReqType DEF JobStartedEffect, Others, Control, Follows
    <3>2. pc[q] = "checked" => Booking(q)'
      BY <2>1, <2>2, <2>4, <3>1, PairSymmetric DEF JobStartedEffect, Booking, Active, Excused,
         JobPcs, Others, OtherRows, Announced
    <3>3. pc[q] # "checked" => Booking(q)'
      BY <2>1, <2>2, <2>4, <3>1 DEF JobStartedEffect, Booking, Active, Excused, JobPcs,
         Others, OtherRows, Announced
    <3> QED BY <3>2, <3>3
  <2> QED BY <2>3, <2>4
<1>7. ASSUME NEW r \in Requests, ThreadProgress(r) PROVE Bookings'
  <2>1. ThreadEffect(r)
    BY <1>7, ThreadDoes
  <2> SUFFICES ASSUME NEW q \in Requests PROVE Booking(q)'
    BY DEF Bookings
  <2>2. Booking(q) /\ Booking(r)
    BY DEF Bookings
  <2>3. CASE q = r
    BY <2>1, <2>2, <2>3 DEF ThreadEffect, Booking, Active, Excused, JobPcs, Others
  <2>4. CASE q # r
    BY <2>1, <2>2, <2>4 DEF ThreadEffect, Booking, Active, Excused, JobPcs, Others
  <2> QED BY <2>3, <2>4
<1> USE DEF TypeOK, RowStates, ContStates, HttpPcs, JobPcs, ThrPcs, Answers, Working, Control,
        Follows, Bookings, Booking, Active, Excused, reqVars, lockVars, histVars, cntVars, Trouble,
        Goto, Forget, Thread, Stall, Lock, Nothing
<1>8. ASSUME NEW r \in Requests, CreateRefuse(r) PROVE Bookings'
  BY <1>8 DEF CreateRefuse
<1>9. ASSUME NEW r \in Requests, CreateSubmit(r) PROVE Bookings'
  BY <1>9 DEF CreateSubmit
<1>10. ASSUME NEW r \in Requests, CreateConflict(r) PROVE Bookings'
  BY <1>10 DEF CreateConflict
<1>11. ASSUME NEW r \in Requests, JobPrepFails(r) PROVE Bookings'
  BY <1>11 DEF JobPrepFails
<1>12. ASSUME NEW r \in Requests, RestartUnknown(r) PROVE Bookings'
  BY <1>12 DEF RestartUnknown
<1>13. ASSUME NEW r \in Requests, JobStart(r) PROVE Bookings'
  BY <1>13 DEF JobStart
<1>14. ASSUME NEW r \in Requests, JobEnds(r) PROVE Bookings'
  BY <1>14 DEF JobEnds
<1>15. ASSUME NEW s \in Slots, ForceCancel(s) PROVE Bookings'
  BY <1>15 DEF ForceCancel
<1>16. ASSUME NEW s \in Slots, ForceStop(s) PROVE Bookings'
  BY <1>16 DEF ForceStop
<1>17. CASE Crash
  BY <1>17 DEF Crash
<1>18. CASE UNCHANGED vars
  BY <1>18 DEF vars
<1>19. ASSUME NEW r \in Requests, JobRaises(r) PROVE Bookings'
  BY <1>19 DEF JobRaises
<1>20. ASSUME NEW r \in Requests, JobMarkFails(r) PROVE Bookings'
  BY <1>20 DEF JobMarkFails
<1> QED
  BY <1>1, <1>2, <1>3, <1>4, <1>5, <1>6, <1>7, <1>8, <1>9, <1>10, <1>11, <1>12, <1>13,
     <1>14, <1>15, <1>16, <1>17, <1>18, <1>19, <1>20
  DEF Next, CreateProgress, JobProgress

(* Rows that come to share a GPU have an excuse.                           *)
LEMMA SharingStep ==
    ASSUME TypeOK, Control, Bookings, Sharing, [Next]_vars
    PROVE  Sharing'
<1>1. ASSUME NEW r \in Requests, CreateInsert(r) PROVE Sharing'
  <2>1. CreateInsertEffect(r)
    BY <1>1, CreateInsertDoes
  <2> SUFFICES ASSUME NEW s \in Slots, NEW t \in Slots, s # t, Active(s)', Active(t)',
                      Meet(row'[s].gpus, row'[t].gpus)
               PROVE  Pair(s, t) \in excuse'
    BY DEF Sharing
  <2>2. Booking(r)
    BY DEF Bookings
  <2> QED BY <2>1, <2>2, PairSymmetric, MeetSymmetric
          DEF CreateInsertEffect, Sharing, Booking, Active, Excused, JobPcs, Others,
       OtherRows, Announced
<1>2. ASSUME NEW r \in Requests, OtherSubmit(r) PROVE Sharing'
  <2>1. OtherSubmitEffect(r)
    BY <1>2, OtherSubmitDoes
  <2> QED BY <2>1 DEF OtherSubmitEffect, Sharing, Active
<1>3. ASSUME NEW r \in Requests, JobStop(r) PROVE Sharing'
  <2>1. JobStopEffect(r)
    BY <1>3, JobStopDoes
  <2> QED BY <2>1 DEF JobStopEffect, Sharing, Active
<1>4. ASSUME NEW r \in Requests, JobStopped(r) PROVE Sharing'
  <2>1. JobStoppedEffect(r)
    BY <1>4, JobStoppedDoes
  <2> SUFFICES ASSUME NEW s \in Slots, NEW t \in Slots, s # t, Active(s)', Active(t)',
                      Meet(row'[s].gpus, row'[t].gpus)
               PROVE  Pair(s, t) \in excuse'
    BY DEF Sharing
  <2>2. Booking(r)
    BY DEF Bookings
  <2> QED BY <2>1, <2>2, PairSymmetric, MeetSymmetric
          DEF JobStoppedEffect, Sharing, Booking, Active, Excused, JobPcs, Others, OtherRows
<1>5. ASSUME NEW r \in Requests, JobStarted(r) PROVE Sharing'
  <2>1. JobStartedEffect(r)
    BY <1>5, JobStartedDoes
  <2> SUFFICES ASSUME NEW s \in Slots, NEW t \in Slots, s # t, Active(s)', Active(t)',
                      Meet(row'[s].gpus, row'[t].gpus)
               PROVE  Pair(s, t) \in excuse'
    BY DEF Sharing
  <2>2. Booking(r)
    BY DEF Bookings
  <2> QED BY <2>1, <2>2, PairSymmetric, MeetSymmetric
          DEF JobStartedEffect, Sharing, Booking, Active, Excused, JobPcs, Others, OtherRows,
       Announced
<1>6. ASSUME NEW r \in Requests, ThreadProgress(r) PROVE Sharing'
  <2>1. ThreadEffect(r)
    BY <1>6, ThreadDoes
  <2> QED BY <2>1 DEF ThreadEffect, Sharing, Active
<1> USE DEF TypeOK, RowStates, ContStates, HttpPcs, JobPcs, ThrPcs, Answers, Working, Sharing,
        Active, reqVars, lockVars, histVars, cntVars, Trouble, Goto, Forget, Thread, Stall, Lock,
        Nothing
<1>7. ASSUME NEW r \in Requests, CreateCheck(r) PROVE Sharing'
  BY <1>7 DEF CreateCheck
<1>8. ASSUME NEW r \in Requests, CreateRefuse(r) PROVE Sharing'
  BY <1>8 DEF CreateRefuse
<1>9. ASSUME NEW r \in Requests, CreateSubmit(r) PROVE Sharing'
  BY <1>9 DEF CreateSubmit
<1>10. ASSUME NEW r \in Requests, CreateConflict(r) PROVE Sharing'
  BY <1>10 DEF CreateConflict
<1>11. ASSUME NEW r \in Requests, JobPrepFails(r) PROVE Sharing'
  BY <1>11 DEF JobPrepFails
<1>12. ASSUME NEW r \in Requests, RestartUnknown(r) PROVE Sharing'
  BY <1>12 DEF RestartUnknown
<1>13. ASSUME NEW r \in Requests, JobStart(r) PROVE Sharing'
  BY <1>13 DEF JobStart
<1>14. ASSUME NEW r \in Requests, JobEnds(r) PROVE Sharing'
  BY <1>14 DEF JobEnds
<1>15. ASSUME NEW s \in Slots, ForceCancel(s) PROVE Sharing'
  BY <1>15 DEF ForceCancel
<1>16. ASSUME NEW s \in Slots, ForceStop(s) PROVE Sharing'
  BY <1>16 DEF ForceStop
<1>17. CASE Crash
  BY <1>17 DEF Crash
<1>18. CASE UNCHANGED vars
  BY <1>18 DEF vars
<1>19. ASSUME NEW r \in Requests, JobRaises(r) PROVE Sharing'
  BY <1>19 DEF JobRaises
<1>20. ASSUME NEW r \in Requests, JobMarkFails(r) PROVE Sharing'
  BY <1>20 DEF JobMarkFails
<1> QED
  BY <1>1, <1>2, <1>3, <1>4, <1>5, <1>6, <1>7, <1>8, <1>9, <1>10, <1>11, <1>12, <1>13,
     <1>14, <1>15, <1>16, <1>17, <1>18, <1>19, <1>20
  DEF Next, CreateProgress, JobProgress

(* A container changes under the eyes of the one job of its slot.          *)
LEMMA ContainersStep ==
    ASSUME TypeOK, Control, Registered, Ownership, Containers, Bookings, [Next]_vars
    PROVE  Containers'
<1>1. ASSUME NEW r \in Requests, CreateInsert(r) PROVE Containers'
  <2>1. CreateInsertEffect(r)
    BY <1>1, CreateInsertDoes
  <2>2. ~Touched(r) /\ row[req[r].slot].status = "none"
    BY <2>1 DEF CreateInsertEffect, Touched, Control, Follows
  <2>3. /\ \A q \in Requests : req'[q] = req[q] /\ thr'[q] = thr[q]
        /\ \A q \in Requests : pc'[q] = pc[q] \/ (q = r /\ pc'[q] = "inserted")
        /\ UNCHANGED <<cont, halt, dirty, forced>>
    BY <2>1 DEF CreateInsertEffect, Others
  <2>4. ASSUME NEW q \in Requests, req'[q].slot \in Slots \ dirty' PROVE Known(q)'
    <3>1. Known(q)
      BY <2>3, <2>4 DEF Containers
    <3> QED BY <2>2, <2>3, <3>1 DEF Known, Touched
  <2>5. ASSUME NEW s \in Slots \ dirty', \A q \in Requests : req'[q].slot = s => ~Touched(q)'
        PROVE  Agree(s)'
    <3>1. Agree(s)
      BY <2>3, <2>5 DEF Containers, Touched
    <3>2. CASE s = req[r].slot
      BY <2>1, <2>2, <2>3, <3>1, <3>2 DEF CreateInsertEffect, Agree
    <3>3. CASE s # req[r].slot
      BY <2>1, <2>3, <3>1, <3>3 DEF CreateInsertEffect, OtherRows, Agree
    <3> QED BY <3>2, <3>3
  <2> QED BY <2>3, <2>4, <2>5 DEF Containers
<1>2. ASSUME NEW r \in Requests, OtherSubmit(r) PROVE Containers'
  <2>1. OtherSubmitEffect(r)
    BY <1>2, OtherSubmitDoes
  <2> QED BY <2>1 DEF OtherSubmitEffect, Others, OtherRows, Announced, Containers, Touched,
             Known, Agree, Control, Follows
<1>3. ASSUME NEW r \in Requests, JobStop(r) PROVE Containers'
  <2>1. JobStopEffect(r)
    BY <1>3, JobStopDoes
  <2> QED BY <2>1 DEF JobStopEffect, Others, OtherRows, Announced, Containers, Touched, Known,
             Agree, Control, Follows
<1>4. ASSUME NEW r \in Requests, JobStopped(r) PROVE Containers'
  <2>1. JobStoppedEffect(r)
    BY <1>4, JobStoppedDoes
  <2> QED BY <2>1 DEF JobStoppedEffect, Others, OtherRows, Announced, Containers, Touched,
             Known, Agree, Control, Follows
<1>5. ASSUME NEW r \in Requests, JobStarted(r) PROVE Containers'
  <2>1. JobStartedEffect(r)
    BY <1>5, JobStartedDoes
  <2>2. ASSUME NEW q \in Requests, req'[q].slot \in Slots \ dirty' PROVE Known(q)'
    <3>1. CASE q = r
      BY <2>1, <3>1 DEF JobStartedEffect, Known, Touched
    <3>2. CASE q # r
      BY <2>1, <2>2, <3>2 DEF JobStartedEffect, Others, Containers, Known, Touched
    <3> QED BY <3>1, <3>2
  <2>3. ASSUME NEW s \in Slots \ dirty', \A q \in Requests : req'[q].slot = s => ~Touched(q)'
        PROVE  Agree(s)'
    <3>1. CASE s = req[r].slot
      BY <2>1, <2>3, <3>1 DEF JobStartedEffect, Containers, Known, Agree
    <3>2. CASE s # req[r].slot
      <4>1. \A q \in Requests : req[q].slot = s => ~Touched(q)
        BY <2>1, <2>3, <3>2 DEF JobStartedEffect, Others, Touched
      <4> QED BY <2>1, <2>3, <3>2, <4>1 DEF JobStartedEffect, OtherRows, Containers, Agree
    <3> QED BY <3>1, <3>2
  <2> QED BY <2>1, <2>2, <2>3 DEF JobStartedEffect, Containers
<1>6. ASSUME NEW r \in Requests, ThreadProgress(r) PROVE Containers'
  <2>1. ThreadEffect(r) /\ dirty \subseteq dirty'
    BY <1>6, ThreadDoes DEF ThreadEffect
  <2>2. req[r].slot \in Slots /\ (req[r].slot \notin dirty' => pc[r] \in {"down", "up"})
    BY <1>6, <2>1, ReqType, ThreadContainer DEF ThreadEffect
  <2>3. ASSUME NEW q \in Requests, req'[q].slot \in Slots \ dirty' PROVE Known(q)'
    <3>1. CASE q = r
      <4>1. req[r].slot \notin dirty' => req'[r] = req[r]
        BY <2>1, <2>2 DEF ThreadEffect
      <4>2. CASE req[r].slot \notin dirty'
        BY <1>6, <2>1, <3>1, <4>1, <4>2, ThreadContainer DEF ThreadEffect, Known, Touched
      <4>3. CASE req[r].slot \in dirty'
        BY <2>1, <2>3, <3>1, <4>3 DEF ThreadEffect, Nothing, Known
      <4> QED BY <4>2, <4>3
    <3>2. CASE q # r /\ req[q].slot # req[r].slot
      BY <2>1, <2>3, <3>2 DEF ThreadEffect, Others, Containers, Known, Touched
    <3>3. CASE q # r /\ req[q].slot = req[r].slot
      <4>1. req[r].slot \in Slots \ forced /\ pc[r] \in JobPcs
        BY <2>1, <2>2, <2>3, <3>3 DEF ThreadEffect, Others, Containers, JobPcs
      <4>2. pc[q] \notin JobPcs
        BY <3>3, <4>1 DEF Ownership, Owns
      <4>3. thr[q] = "none"
        BY <3>3, <4>1, <4>2 DEF Control, Follows, TypeOK, HttpPcs, JobPcs
      <4> QED BY <2>1, <3>3, <4>2, <4>3 DEF ThreadEffect, Others, Known, JobPcs
    <3> QED BY <3>1, <3>2, <3>3
  <2>4. ASSUME NEW s \in Slots \ dirty', \A q \in Requests : req'[q].slot = s => ~Touched(q)'
        PROVE  Agree(s)'
    <3>1. s = req[r].slot => thr[r] \in {"stop", "clear"} /\ cont' = cont
      <4> SUFFICES ASSUME s = req[r].slot PROVE thr[r] \in {"stop", "clear"} /\ cont' = cont
        OBVIOUS
      <4>1. ~Touched(r)'
        BY <2>1, <2>2, <2>4 DEF ThreadEffect
      <4> QED BY <1>6, <2>4, <4>1, ThreadContainer DEF Touched
    <3>2. \A q \in Requests : req[q].slot = s => ~Touched(q)
      BY <2>1, <2>4, <3>1 DEF ThreadEffect, Others, Touched
    <3> QED BY <2>1, <3>1, <3>2 DEF ThreadEffect, Containers, Agree
  <2> QED BY <2>1, <2>3, <2>4 DEF ThreadEffect, Containers
<1>7. ASSUME NEW s \in Slots, ForceCancel(s) PROVE Containers'
  <2>1. /\ UNCHANGED <<row, cont, req>> /\ halt' = [halt EXCEPT ![s] = "stop"]
        /\ forced' = forced \cup {s} /\ dirty' = dirty \cup {s}
    BY <1>7 DEF ForceCancel
  <2>2. ASSUME NEW q \in Requests, req[q].slot # s PROVE pc'[q] = pc[q] /\ thr'[q] = thr[q]
    BY <1>7, <2>2 DEF ForceCancel, Registered
  <2>3. ASSUME NEW q \in Requests, req'[q].slot \in Slots \ dirty' PROVE Known(q)'
    BY <2>1, <2>2, <2>3 DEF Containers, Known, Touched
  <2>4. ASSUME NEW t \in Slots \ dirty', \A q \in Requests : req'[q].slot = t => ~Touched(q)'
        PROVE  Agree(t)'
    BY <2>1, <2>2, <2>4 DEF Containers, Agree, Touched
  <2> QED BY <2>1, <2>3, <2>4 DEF Containers, TypeOK
<1>8. ASSUME NEW s \in Slots, ForceStop(s) PROVE Containers'
  <2>1. /\ UNCHANGED <<row, req, pc, thr, dirty, forced>> /\ halt' = [halt EXCEPT ![s] = "idle"]
        /\ halt[s] = "stop"
        /\ cont' = cont \/ \E c : cont' = [cont EXCEPT ![s] = c]
    BY <1>8 DEF ForceStop, Remove, Halt, Container, reqVars, histVars
  <2>2. s \in dirty /\ \A t \in Slots \ {s} : cont'[t] = cont[t]
    BY <2>1 DEF Containers, TypeOK
  <2>3. ASSUME NEW q \in Requests, req'[q].slot \in Slots \ dirty' PROVE Known(q)'
    BY <2>1, <2>2, <2>3 DEF Containers, Known, Touched
  <2>4. ASSUME NEW t \in Slots \ dirty', \A q \in Requests : req'[q].slot = t => ~Touched(q)'
        PROVE  Agree(t)'
    BY <2>1, <2>2, <2>4 DEF Containers, Agree, Touched
  <2> QED BY <2>1, <2>3, <2>4 DEF Containers, TypeOK
<1>9. CASE Crash
  <2>1. /\ UNCHANGED <<row, cont, forced>> /\ dirty' = dirty \cup {s \in Slots : JobOn(s)}
        /\ thr' = [r \in Requests |-> "none"] /\ pc' = [r \in Requests |-> "idle"]
        /\ halt' = [s \in Slots |-> "idle"]
    BY <1>9 DEF Crash
  <2>2. ASSUME NEW s \in Slots \ dirty', NEW q \in Requests, req[q].slot = s
        PROVE  ~Touched(q)
    <3>1. pc[q] \notin JobPcs /\ thr[q] \notin Working
      BY <2>1, <2>2 DEF JobOn, OnSlot
    <3> QED BY <3>1 DEF Control, Follows, Touched, Answers, JobPcs, HttpPcs, Working, TypeOK
  <2>3. ASSUME NEW s \in Slots \ dirty' PROVE Agree(s)'
    BY <2>1, <2>2, <2>3 DEF Containers, Agree
  <2> QED BY <2>1, <2>3 DEF Containers, Known, Touched
<1> USE DEF TypeOK, RowStates, ContStates, HttpPcs, JobPcs, ThrPcs, Answers, Working, Control,
        Follows, Containers, Touched, Known, Agree, reqVars, lockVars, histVars, cntVars, Trouble,
        Goto, Forget, Thread, Stall, Lock, Nothing
<1>10. ASSUME NEW r \in Requests, CreateCheck(r) PROVE Containers'
  BY <1>10 DEF CreateCheck
<1>11. ASSUME NEW r \in Requests, CreateRefuse(r) PROVE Containers'
  BY <1>11 DEF CreateRefuse
<1>12. ASSUME NEW r \in Requests, CreateSubmit(r) PROVE Containers'
  BY <1>12 DEF CreateSubmit
<1>13. ASSUME NEW r \in Requests, CreateConflict(r) PROVE Containers'
  BY <1>13 DEF CreateConflict
<1>14. ASSUME NEW r \in Requests, JobPrepFails(r) PROVE Containers'
  BY <1>14 DEF JobPrepFails
<1>15. ASSUME NEW r \in Requests, RestartUnknown(r) PROVE Containers'
  BY <1>15 DEF RestartUnknown
<1>16. ASSUME NEW r \in Requests, JobStart(r) PROVE Containers'
  BY <1>16 DEF JobStart
<1>17. ASSUME NEW r \in Requests, JobEnds(r) PROVE Containers'
  BY <1>17 DEF JobEnds
<1>18. CASE UNCHANGED vars
  BY <1>18 DEF vars
<1>19. ASSUME NEW r \in Requests, JobRaises(r) PROVE Containers'
  BY <1>19 DEF JobRaises
<1>20. ASSUME NEW r \in Requests, JobMarkFails(r) PROVE Containers'
  BY <1>20 DEF JobMarkFails
<1> QED
  BY <1>1, <1>2, <1>3, <1>4, <1>5, <1>6, <1>7, <1>8, <1>9, <1>10, <1>11, <1>12, <1>13,
     <1>14, <1>15, <1>16, <1>17, <1>18, <1>19, <1>20
  DEF Next, CreateProgress, JobProgress

-----------------------------------------------------------------------------
(* The parts together are inductive.                                        *)
LEMMA IInvStep == IInv /\ [Next]_vars => IInv'
BY TypeStep, ControlStep, RegisteredStep, OwnershipStep, ContainersStep, BookingsStep, SharingStep
DEF IInv

(* Each part of IInv holds in every reachable state.                       *)
THEOREM IInvHolds == Spec => []IInv
BY InitIInv, IInvStep, PTL DEF Spec

(* The variables keep their types; a row that exists has its GPUs from     *)
(* create_slot on, in every state it passes through.                       *)
THEOREM TypeCorrect == Spec => []TypeOK
<1>1. IInv => TypeOK
  BY DEF IInv
<1> QED BY <1>1, IInvHolds, PTL

(* _db_mark_slot_running, _db_mark_slot_failed and _db_mark_stopped_by_key *)
(* leave the row saying what the container is, and a call that raises      *)
(* before it has touched the container leaves both alone, unless a force   *)
(* halt, a crash, a removal that failed, a call that raised later or a     *)
(* failing transaction came in between.                                    *)
THEOREM RowAndContainerAgree == Spec => []RowMatchesContainer
<1>1. IInv => RowMatchesContainer
  <2> SUFFICES ASSUME IInv, NEW s \in Slots \ dirty, ~JobOn(s)
               PROVE  Agree(s)
    BY DEF RowMatchesContainer, IInv, Agree
  <2>1. ASSUME NEW r \in Requests, req[r].slot = s PROVE ~Touched(r)
    <3>1. pc[r] \notin JobPcs /\ thr[r] \notin Working
      BY <2>1 DEF JobOn, OnSlot
    <3> QED BY <3>1 DEF IInv, Control, Follows, Touched, Answers, JobPcs, HttpPcs, Working, TypeOK
  <2> QED BY <2>1 DEF IInv, Containers
<1> QED BY <1>1, IInvHolds, PTL

(* As long as a slot is not forced, no two threads work on its container.  *)
OneThreadPerSlot ==
    \A s \in Slots \ forced, q, r \in Requests :
        q # r /\ req[q].slot = s /\ req[r].slot = s
            => ~(thr[q] \in Working /\ thr[r] \in Working)

(* The lock of the job runner keeps Docker threads apart: two work on the  *)
(* container of a slot only after a force halt let the key go.             *)
THEOREM OneThreadAtATime == Spec => []OneThreadPerSlot
<1>1. IInv => OneThreadPerSlot
  <2> SUFFICES ASSUME IInv, NEW s \in Slots \ forced, NEW q \in Requests, NEW r \in Requests,
                      req[q].slot = s, req[r].slot = s, thr[q] \in Working, thr[r] \in Working
               PROVE  q = r
    BY DEF OneThreadPerSlot
  <2>1. pc[q] \in JobPcs /\ pc[r] \in JobPcs
    BY DEF IInv, Control, Follows, Working, TypeOK, HttpPcs, JobPcs
  <2> QED BY <2>1 DEF IInv, Ownership, Owns
<1> QED BY <1>1, IInvHolds, PTL

(* compute_availability at the check, and the rows at the INSERT: two      *)
(* active rows share a GPU only through one of the gaps excuse records.    *)
THEOREM SharingIsExcused == Spec => []SharedGpuHasReason
<1>1. IInv => SharedGpuHasReason
  BY DEF IInv, Sharing, SharedGpuHasReason, Shares, Meet, Pair
<1> QED BY <1>1, IInvHolds, PTL

-----------------------------------------------------------------------------
(* SlotRuntime implements SlotService.                                     *)

(* A request is at work; nobody but r moves.                               *)
InWork(r) == pc[r] \in JobPcs \/ thr[r] \in Working
Alone(r)  == \A q \in Requests \ {r} : req'[q] = req[q] /\ pc'[q] = pc[q] /\ thr'[q] = thr[q]

(* Only r comes to work, goes, or changes its slot.                        *)
LEMMA WorkOfOthers ==
    ASSUME NEW r \in Requests, Alone(r), NEW s \in Slots
    PROVE  /\ AtWork(s)' \ {r} = AtWork(s) \ {r}
           /\ r \in AtWork(s) <=> req[r].slot = s /\ InWork(r)
           /\ r \in AtWork(s)' <=> req'[r].slot = s /\ InWork(r)'
BY DEF Alone, AtWork, OnSlot, InWork

(* A request stays at work on its slot, or stays away.                     *)
LEMMA WorkKept ==
    ASSUME NEW r \in Requests, Alone(r), InWork(r)' <=> InWork(r),
           InWork(r) => req'[r].slot = req[r].slot
    PROVE  \A s \in Slots : AtWork(s)' = AtWork(s)
<1> SUFFICES ASSUME NEW s \in Slots PROVE AtWork(s)' = AtWork(s)
  OBVIOUS
<1>1. r \in AtWork(s)' <=> r \in AtWork(s)
  BY WorkOfOthers
<1>2. AtWork(s)' \ {r} = AtWork(s) \ {r}
  BY WorkOfOthers
<1> QED BY <1>1, <1>2

(* A request comes to work.                                                *)
LEMMA WorkBegun ==
    ASSUME NEW r \in Requests, Alone(r), ~InWork(r), InWork(r)'
    PROVE  \A s \in Slots : AtWork(s)' = IF s = req'[r].slot THEN AtWork(s) \cup {r} ELSE AtWork(s)
<1> SUFFICES ASSUME NEW s \in Slots
             PROVE  AtWork(s)' = IF s = req'[r].slot THEN AtWork(s) \cup {r} ELSE AtWork(s)
  OBVIOUS
<1>1. /\ r \notin AtWork(s)
      /\ r \in AtWork(s)' <=> s = req'[r].slot
  BY WorkOfOthers
<1>2. AtWork(s)' \ {r} = AtWork(s) \ {r}
  BY WorkOfOthers
<1> QED BY <1>1, <1>2

(* A request goes.                                                         *)
LEMMA WorkDone ==
    ASSUME NEW r \in Requests, Alone(r), InWork(r), ~InWork(r)'
    PROVE  \A s \in Slots : AtWork(s)' = IF s = req[r].slot THEN AtWork(s) \ {r} ELSE AtWork(s)
<1> SUFFICES ASSUME NEW s \in Slots
             PROVE  AtWork(s)' = IF s = req[r].slot THEN AtWork(s) \ {r} ELSE AtWork(s)
  OBVIOUS
<1>1. /\ r \notin AtWork(s)'
      /\ r \in AtWork(s) <=> s = req[r].slot
  BY WorkOfOthers
<1>2. AtWork(s)' \ {r} = AtWork(s) \ {r}
  BY WorkOfOthers
<1> QED BY <1>1, <1>2

(* Nobody is at work on a slot that is neither held nor forced.            *)
LEMMA NobodyAtWork ==
    ASSUME IInv, NEW s \in Slots \ forced, s \notin held
    PROVE  AtWork(s) = {}
<1> SUFFICES ASSUME NEW r \in Requests, req[r].slot = s, InWork(r) PROVE FALSE
  BY DEF AtWork, OnSlot, InWork
<1>1. pc[r] \in JobPcs
  BY DEF IInv, Control, Follows, InWork, Working, TypeOK, HttpPcs, JobPcs
<1> QED BY <1>1 DEF IInv, Ownership, Owns

(* A job of a slot that is not spoiled has nobody beside it.               *)
LEMMA OnlyJob ==
    ASSUME IInv, NEW r \in Requests, pc[r] \in JobPcs, req[r].slot \in Slots \ dirty,
           ~Touched(r)
    PROVE  Agree(req[r].slot)
<1>1. req[r].slot \in Slots \ forced
  BY DEF IInv, Containers
<1>2. ASSUME NEW q \in Requests, req[q].slot = req[r].slot PROVE ~Touched(q)
  <2>1. CASE q = r
    BY <2>1
  <2>2. CASE q # r
    <3>1. pc[q] \notin JobPcs
      BY <1>1, <1>2, <2>2 DEF IInv, Ownership, Owns
    <3>2. thr[q] = "none"
      BY <1>1, <1>2, <3>1 DEF IInv, Control, Follows, TypeOK, HttpPcs, JobPcs
    <3> QED BY <3>2 DEF Touched
  <2> QED BY <2>1, <2>2
<1> QED BY <1>2 DEF IInv, Containers

-----------------------------------------------------------------------------
(* Which steps of SlotService there are, in terms of SlotRuntime.          *)
RowsKept  == UNCHANGED <<row, cont>>
WorkSame  == \A s \in Slots : AtWork(s)' = AtWork(s)
SoundStep == UNCHANGED <<forced, dirty>> /\ troubles' \in {troubles, troubles + 1}

(* Nothing is seen to happen, or a trouble that spoils nothing.            *)
LEMMA QuietStep ==
    ASSUME RowsKept, WorkSame, SoundStep
    PROVE  [Service!Next]_Service!vars
<1>1. [s \in Slots |-> AtWork(s)]' = [s \in Slots |-> AtWork(s)]
  BY DEF WorkSame
<1> QED BY <1>1 DEF RowsKept, SoundStep, Service!Next, Service!Mishap, Service!vars

(* The steps of one slot.                                                  *)
LEMMA SlotStep ==
    ASSUME NEW s \in Slots,
           \A t \in Slots \ {s} : row'[t] = row[t] /\ cont'[t] = cont[t] /\ AtWork(t)' = AtWork(t),
           \/ /\ row[s].status = "none" /\ row'[s].status = "requested" /\ row'[s].gpus # {}
              /\ cont'[s] = cont[s] /\ AtWork(s)' = AtWork(s) /\ SoundStep
           \/ /\ s \in forced \/ AtWork(s) = {}
              /\ \E r \in Requests : AtWork(s)' = AtWork(s) \cup {r}
              /\ row'[s] = row[s] /\ cont'[s] = cont[s] /\ SoundStep
           \/ /\ AtWork(s) # {} /\ row'[s] = row[s] /\ AtWork(s)' = AtWork(s) /\ SoundStep
           \/ /\ AtWork(s) # {} /\ row[s].status # "none"
              /\ row'[s].status \in {"running", "stopped", "failed"} /\ Agree(s)'
              /\ row'[s].status # "running" => row'[s].gpus = row[s].gpus
              /\ cont'[s] = cont[s] /\ AtWork(s)' = AtWork(s) /\ SoundStep
           \/ /\ Agree(s) /\ \E r \in AtWork(s) : AtWork(s)' = AtWork(s) \ {r}
              /\ row'[s] = row[s] /\ cont'[s] = cont[s] /\ SoundStep
           \/ s \in dirty /\ AtWork(s)' \subseteq AtWork(s) /\ SoundStep
           \/ /\ AtWork(s) # {} /\ row'[s] = row[s] /\ AtWork(s)' \subseteq AtWork(s)
              /\ dirty' = dirty \cup {s} /\ troubles' = troubles + 1 /\ UNCHANGED forced
           \/ /\ row'[s] = row[s] /\ cont'[s] = cont[s] /\ AtWork(s)' = AtWork(s)
              /\ forced' = forced \cup {s} /\ dirty' = dirty \cup {s} /\ troubles' = troubles + 1
    PROVE  Service!Next
<1>1. /\ \A t \in Slots : [u \in Slots |-> AtWork(u)][t] = AtWork(t)
      /\ \A t \in Slots : [u \in Slots |-> AtWork(u)]'[t] = AtWork(t)'
  OBVIOUS
<1> QED
  BY <1>1 DEF SoundStep, Agree, Service!Next, Service!Elsewhere, Service!Kept, Service!Sound,
     Service!Spoil, Service!Agree, Service!Book, Service!Admit, Service!Touch, Service!Record,
     Service!Leave, Service!Stray, Service!Botch, Service!Force

(* A crash, and a step of nothing at all.                                  *)
LEMMA CrashStep ==
    ASSUME IInv, Crash
    PROVE  Service!Next
<1>1. RowsKept /\ troubles' = troubles + 1 /\ UNCHANGED forced
  BY DEF Crash, Trouble, RowsKept
<1>2. \A s \in Slots : AtWork(s)' = {}
  <2>1. \A r \in Requests : pc'[r] = "idle" /\ thr'[r] = "none"
    BY DEF Crash
  <2> QED BY <2>1 DEF AtWork, OnSlot, JobPcs, Working
<1>3. dirty' = dirty \cup {s \in Slots : AtWork(s) # {}}
  <2>1. \A s \in Slots : JobOn(s) <=> AtWork(s) # {}
    BY DEF JobOn, AtWork
  <2>2. dirty' = dirty \cup {s \in Slots : JobOn(s)}
    BY DEF Crash
  <2> QED BY <2>1, <2>2
<1>4. /\ \A t \in Slots : [u \in Slots |-> AtWork(u)][t] = AtWork(t)
      /\ \A t \in Slots : [u \in Slots |-> AtWork(u)]'[t] = AtWork(t)'
  OBVIOUS
<1> QED
  BY <1>1, <1>2, <1>3, <1>4 DEF RowsKept, Service!Next, Service!Crash, Service!Kept

(* The steps of a request that change neither row nor container.           *)
QuietEffect(r) ==
    /\ RowsKept /\ SoundStep /\ Alone(r)
    /\ InWork(r)' <=> InWork(r)
    /\ InWork(r) => req'[r].slot = req[r].slot

(* They are not seen from outside.                                         *)
LEMMA QuietActions ==
    ASSUME IInv, NEW r \in Requests,
           \/ CreateCheck(r) \/ CreateRefuse(r) \/ CreateConflict(r) \/ JobPrepFails(r)
           \/ JobStop(r) \/ RestartUnknown(r) \/ JobStart(r) \/ JobRaises(r)
    PROVE  [Service!Next]_Service!vars
<1> SUFFICES QuietEffect(r)
  BY WorkKept, QuietStep DEF QuietEffect, WorkSame
<1> USE DEF QuietEffect, RowsKept, SoundStep, Alone, InWork, JobPcs, Working, Goto, Thread,
        Trouble, histVars, lockVars, cntVars, reqVars
<1>1. Follows(r) /\ pc \in [Requests -> HttpPcs \cup JobPcs] /\ thr \in [Requests -> ThrPcs]
      /\ DOMAIN req = Requests /\ req \in [Requests -> {Nothing} \cup Asks]
  BY DEF IInv, Control, TypeOK, Asks
<1>2. CASE CreateCheck(r)
  <2>1. \A q \in Requests \ {r} : req'[q] = req[q]
    BY <1>1, <1>2 DEF CreateCheck
  <2>2. pc[r] = "idle" /\ pc'[r] = "checked" /\ thr' = thr /\ thr[r] = "none"
    BY <1>1, <1>2 DEF CreateCheck
  <2>3. troubles' \in {troubles, troubles + 1} /\ UNCHANGED <<row, cont, forced, dirty>>
    BY <1>2 DEF CreateCheck
  <2>4. \A q \in Requests \ {r} : pc'[q] = pc[q]
    BY <1>1, <1>2 DEF CreateCheck
  <2> QED BY <2>1, <2>2, <2>3, <2>4
<1>3. CASE CreateRefuse(r)
  BY <1>1, <1>3 DEF CreateRefuse, Forget, Follows
<1>4. CASE CreateConflict(r)
  BY <1>1, <1>4 DEF CreateConflict, Forget, Follows, Stall
<1>5. CASE JobPrepFails(r)
  BY <1>1, <1>5 DEF JobPrepFails, Follows, Stall
<1>6. CASE JobStop(r)
  <2>1. JobStopEffect(r)
    BY <1>6, JobStopDoes DEF IInv
  <2> QED BY <2>1 DEF JobStopEffect, Others
<1>7. CASE RestartUnknown(r)
  BY <1>1, <1>7 DEF RestartUnknown, Follows
<1>8. CASE JobStart(r)
  BY <1>1, <1>8 DEF JobStart, Follows
<1>9. CASE JobRaises(r)
  BY <1>1, <1>9 DEF JobRaises, Follows, Stall
<1> QED BY <1>2, <1>3, <1>4, <1>5, <1>6, <1>7, <1>8, <1>9

(* A row is booked.                                                        *)
LEMMA BookingStep ==
    ASSUME IInv, NEW r \in Requests, CreateInsert(r)
    PROVE  Service!Next
<1>1. CreateInsertEffect(r) /\ Follows(r)
  BY CreateInsertDoes DEF IInv, Control
<1>2. \A s \in Slots : AtWork(s)' = AtWork(s)
  BY <1>1, WorkKept DEF CreateInsertEffect, Others, Alone, InWork, Follows, JobPcs, Working
<1> QED BY <1>1, <1>2, SlotStep DEF CreateInsertEffect, OtherRows, SoundStep

(* A job is admitted.                                                      *)
LEMMA AdmitStep ==
    ASSUME IInv, NEW r \in Requests, CreateSubmit(r) \/ OtherSubmit(r)
    PROVE  Service!Next
<1>1. /\ Alone(r) /\ ~InWork(r) /\ InWork(r)' /\ req'[r].slot \in Slots \ held
      /\ RowsKept /\ SoundStep
  <2>1. CASE OtherSubmit(r)
    BY <2>1, OtherSubmitDoes DEF IInv, OtherSubmitEffect, Others, Alone, InWork, RowsKept,
       SoundStep, JobPcs, Working
  <2>2. CASE CreateSubmit(r)
    <3>1. req[r].slot \in Slots /\ thr[r] = "none"
      BY <2>2, ReqType DEF IInv, Control, Follows, CreateSubmit
    <3> QED BY <2>2, <3>1 DEF IInv, TypeOK, CreateSubmit, Lock, Goto, Alone, InWork, RowsKept,
               SoundStep, JobPcs, Working, histVars, cntVars
  <2> QED BY <2>1, <2>2
<1>2. PICK s \in Slots \ held : s = req'[r].slot
  BY <1>1
<1>3. \A t \in Slots : AtWork(t)' = IF t = s THEN AtWork(t) \cup {r} ELSE AtWork(t)
  BY <1>1, <1>2, WorkBegun
<1>4. s \in forced \/ AtWork(s) = {}
  BY NobodyAtWork
<1> QED BY <1>1, <1>3, <1>4, SlotStep DEF RowsKept

(* A job tells the row.                                                    *)
LEMMA RecordStep ==
    ASSUME IInv, IInv', NEW r \in Requests, JobStopped(r) \/ JobStarted(r)
    PROVE  Service!Next
<1>0. PICK s \in Slots : s = req[r].slot
  BY ReqType DEF JobStopped, JobStarted, IInv, Control, Follows
<1>1. /\ Others(r) /\ req'[r].slot = s /\ pc[r] \in JobPcs /\ pc'[r] \in JobPcs
      /\ OtherRows(s) /\ cont' = cont /\ UNCHANGED <<forced, dirty, troubles>>
      /\ \/ row'[s] = row[s]
         \/ /\ row[s].status # "none" /\ row'[s].status \in {"running", "stopped", "failed"}
            /\ row'[s].status # "running" => row'[s].gpus = row[s].gpus
            /\ s \notin dirty => Agree(s)'
  <2> USE <1>0
  <2>1. CASE JobStopped(r)
    <3>1. JobStoppedEffect(r)
      BY <2>1, JobStoppedDoes DEF IInv
    <3>2. row[s].status = "none" => row'[s] = row[s]
      <4>1. row[s] \in [status : RowStates, gpus : SUBSET GPUs]
            /\ row'[s] \in [status : RowStates, gpus : SUBSET GPUs]
        BY <3>1 DEF JobStoppedEffect, IInv, TypeOK, OtherRows
      <4> QED BY <3>1, <4>1 DEF JobStoppedEffect
    <3>3. s \notin dirty => cont[s].state = "none"
      BY <3>1 DEF JobStoppedEffect, IInv, Containers, Known, Touched
    <3> QED BY <3>1, <3>2, <3>3 DEF JobStoppedEffect, Agree, JobPcs
  <2>2. CASE JobStarted(r)
    <3>1. JobStartedEffect(r)
      BY <2>2, JobStartedDoes DEF IInv
    <3>2. s \notin dirty => Known(r)
      BY <3>1 DEF JobStartedEffect, IInv, Containers
    <3> QED BY <3>1, <3>2 DEF JobStartedEffect, Agree, Known, JobPcs
  <2> QED BY <2>1, <2>2
<1>2. Alone(r) /\ InWork(r) /\ InWork(r)'
  BY <1>1 DEF Others, Alone, InWork
<1>3. \A t \in Slots : AtWork(t)' = AtWork(t)
  BY <1>0, <1>1, <1>2, WorkKept
<1>4. AtWork(s) # {}
  BY <1>0, <1>1, <1>2, WorkOfOthers
<1>5. SoundStep
  BY <1>1 DEF SoundStep
<1>6. \A t \in Slots \ {s} : row'[t] = row[t] /\ cont'[t] = cont[t] /\ AtWork(t)' = AtWork(t)
  BY <1>1, <1>3 DEF OtherRows
<1>7. AtWork(s)' = AtWork(s) /\ cont'[s] = cont[s] /\ s \in Slots
  BY <1>1, <1>3
<1>8. CASE s \in dirty
  BY <1>5, <1>6, <1>7, <1>8, SlotStep
<1>9. CASE row'[s] = row[s]
  BY <1>4, <1>5, <1>6, <1>7, <1>9, SlotStep
<1>10. CASE s \notin dirty /\ row'[s] # row[s]
  <2>1. /\ row[s].status # "none" /\ row'[s].status \in {"running", "stopped", "failed"}
        /\ row'[s].status # "running" => row'[s].gpus = row[s].gpus
        /\ Agree(s)'
    BY <1>1, <1>10
  <2> QED BY <1>4, <1>5, <1>6, <1>7, <2>1, SlotStep
<1> QED BY <1>8, <1>9, <1>10

(* A job could not tell the row: from now on nothing is said of the slot.  *)
LEMMA MarkFailsStep ==
    ASSUME IInv, NEW r \in Requests, JobMarkFails(r)
    PROVE  Service!Next
<1>1. PICK s \in Slots : s = req[r].slot
  BY ReqType DEF JobMarkFails, IInv, Control, Follows
<1>2. /\ UNCHANGED <<row, cont, forced>> /\ troubles' = troubles + 1 /\ dirty' = dirty \cup {s}
      /\ req' = req /\ pc' = [pc EXCEPT ![r] = "exit"] /\ thr' = [thr EXCEPT ![r] = "none"]
      /\ pc[r] \in {"down", "up"}
  BY <1>1 DEF JobMarkFails, Trouble, Goto, Thread
<1>3. Alone(r) /\ InWork(r) /\ InWork(r)'
  BY <1>2 DEF Alone, InWork, JobPcs, IInv, TypeOK
<1>4. \A t \in Slots : AtWork(t)' = AtWork(t)
  BY <1>2, <1>3, WorkKept
<1>5. AtWork(s) # {}
  BY <1>1, <1>3, WorkOfOthers
<1> QED BY <1>2, <1>4, <1>5, SlotStep

(* A job leaves, and takes its thread with it unless that still works.     *)
LEMMA LeaveStep ==
    ASSUME IInv, NEW r \in Requests, JobEnds(r)
    PROVE  [Service!Next]_Service!vars
<1>1. /\ pc[r] \in {"exit", "unwind"} /\ InWork(r) /\ req[r].slot \in Slots
      /\ thr[r] = "none" \/ thr[r] \in Working
  BY ReqType DEF JobEnds, InWork, JobPcs, ThrPcs, Answers, Working, IInv, Control, Follows, TypeOK
<1>2. /\ Alone(r) /\ pc'[r] = "idle" /\ thr' = thr /\ RowsKept /\ SoundStep
      /\ thr[r] # "none" => req' = req
  BY DEF JobEnds, Forget, Goto, Alone, RowsKept, SoundStep, histVars, cntVars, IInv, TypeOK
<1>3. CASE thr[r] \in Working
  <2>1. InWork(r)' /\ req'[r].slot = req[r].slot
    BY <1>2, <1>3 DEF InWork, Working
  <2> QED BY <1>1, <1>2, <2>1, WorkKept, QuietStep DEF WorkSame
<1>4. CASE thr[r] = "none"
  <2> PICK s \in Slots : s = req[r].slot
    BY <1>1
  <2>1. ~InWork(r)'
    BY <1>2, <1>4 DEF InWork, JobPcs, Working
  <2>2. \A t \in Slots : AtWork(t)' = IF t = s THEN AtWork(t) \ {r} ELSE AtWork(t)
    BY <1>1, <1>2, <2>1, WorkDone
  <2>3. r \in AtWork(s)
    BY <1>1, <1>2, WorkOfOthers
  <2>4. s \in dirty \/ Agree(s)
    BY <1>1, <1>4, OnlyJob DEF Touched, JobPcs
  <2> QED BY <1>1, <1>2, <2>2, <2>3, <2>4, SlotStep DEF RowsKept
<1> QED BY <1>1, <1>3, <1>4

(* A thread changes its container; what goes wrong on the way may spoil    *)
(* the slot of its request, and no other.                                  *)
LEMMA ThreadStep ==
    ASSUME IInv, NEW r \in Requests, ThreadProgress(r)
    PROVE  Service!Next
<1>0. PICK s \in Slots : s = req[r].slot
  BY ThreadDoes, ReqType DEF ThreadEffect, IInv
<1>1. ThreadEffect(r)
  BY ThreadDoes DEF IInv
<1>2. /\ Alone(r) /\ InWork(r) /\ row' = row
      /\ \A t \in Slots \ {s} : cont'[t] = cont[t]
  BY <1>0, <1>1 DEF ThreadEffect, Others, Alone, InWork
<1>3. \/ dirty' = dirty /\ SoundStep
      \/ dirty' = dirty \cup {s} /\ troubles' = troubles + 1 /\ UNCHANGED forced
  BY <1>0 DEF ThreadProgress, ThreadStop, ThreadClear, ThreadRun, ThreadNet, Works, Breaks,
     Botches, RaisesBefore, RaisesAfter, Spoil, Trouble, SoundStep, histVars, cntVars
<1>4. /\ pc[r] \in JobPcs => InWork(r)' /\ req'[r].slot = s
      /\ pc[r] \notin JobPcs => s \in dirty
      /\ req'[r].slot = s \/ ~InWork(r)'
  BY <1>0, <1>1 DEF ThreadEffect, InWork, IInv, Control, Follows, Containers, TypeOK, HttpPcs,
     JobPcs, Working
<1>5. r \in AtWork(s)
  BY <1>0, <1>2, WorkOfOthers
<1>6. AtWork(s)' \subseteq AtWork(s)
  <2>1. AtWork(s)' \ {r} = AtWork(s) \ {r}
    BY <1>0, <1>2, WorkOfOthers
  <2> QED BY <1>5, <2>1
<1>7. \A t \in Slots \ {s} : AtWork(t)' = AtWork(t)
  <2> SUFFICES ASSUME NEW t \in Slots \ {s} PROVE AtWork(t)' = AtWork(t)
    OBVIOUS
  <2>1. r \notin AtWork(t) /\ r \notin AtWork(t)'
    BY <1>0, <1>2, <1>4, WorkOfOthers
  <2>2. AtWork(t)' \ {r} = AtWork(t) \ {r}
    BY <1>0, <1>2, WorkOfOthers
  <2> QED BY <2>1, <2>2
<1>8. pc[r] \in JobPcs => AtWork(s)' = AtWork(s)
  BY <1>0, <1>2, <1>4, WorkKept
<1>9. s \in dirty => SoundStep
  BY <1>3 DEF SoundStep
<1>10. /\ \A t \in Slots \ {s} : row'[t] = row[t] /\ cont'[t] = cont[t] /\ AtWork(t)' = AtWork(t)
       /\ row'[s] = row[s] /\ AtWork(s) # {}
  BY <1>2, <1>5, <1>7
<1>11. CASE s \in dirty
  BY <1>6, <1>9, <1>10, <1>11, SlotStep
<1>12. CASE s \notin dirty /\ SoundStep
  BY <1>4, <1>8, <1>10, <1>12, SlotStep
<1>13. CASE s \notin dirty /\ ~SoundStep
  BY <1>3, <1>6, <1>10, <1>13, SlotStep
<1> QED BY <1>11, <1>12, <1>13

(* A force halt.                                                           *)
LEMMA ForceStep ==
    ASSUME IInv, NEW s \in Slots, ForceCancel(s) \/ ForceStop(s)
    PROVE  Service!Next
<1>1. ASSUME ForceCancel(s) PROVE Service!Next
  <2>1. /\ UNCHANGED <<row, cont, req>> /\ troubles' = troubles + 1
        /\ forced' = forced \cup {s} /\ dirty' = dirty \cup {s}
    BY <1>1 DEF ForceCancel, Trouble
  <2>2. \A r \in Requests : InWork(r)' <=> InWork(r)
    BY <1>1 DEF ForceCancel, InWork, JobPcs, Working, Answers
  <2>3. \A t \in Slots : AtWork(t)' = AtWork(t)
    BY <2>1, <2>2 DEF AtWork, OnSlot, InWork
  <2> QED BY <2>1, <2>3, SlotStep
<1>2. ASSUME ForceStop(s) PROVE Service!Next
  <2>1. UNCHANGED <<row, req, pc, thr>> /\ SoundStep /\ s \in dirty
    BY <1>2 DEF ForceStop, Trouble, SoundStep, reqVars, histVars, IInv, Containers
  <2>2. \A t \in Slots : AtWork(t)' = AtWork(t)
    BY <2>1 DEF AtWork, OnSlot
  <2>3. \A t \in Slots \ {s} : cont'[t] = cont[t]
    BY <1>2 DEF ForceStop, Remove, Halt, Container, IInv, TypeOK
  <2> QED BY <2>1, <2>2, <2>3, SlotStep
<1> QED BY <1>1, <1>2

(* Every step is one of SlotService, or none.                              *)
LEMMA ServiceStep ==
    ASSUME IInv, IInv', [Next]_vars
    PROVE  [Service!Next]_Service!vars
<1>1. CASE UNCHANGED vars
  <2>1. RowsKept /\ SoundStep /\ UNCHANGED <<req, pc, thr>>
    BY <1>1 DEF vars, RowsKept, SoundStep, reqVars, histVars, cntVars
  <2>2. WorkSame
    BY <2>1 DEF WorkSame, AtWork, OnSlot
  <2> QED BY <2>1, <2>2, QuietStep
<1>2. CASE Next
  BY <1>2, QuietActions, BookingStep, AdmitStep, RecordStep, MarkFailsStep, LeaveStep,
     ThreadStep, ForceStep, CrashStep
  DEF Next, CreateProgress, JobProgress
<1> QED BY <1>1, <1>2

(* create_slot, the native.slot.* handlers, slot_runtime.py and the lock   *)
(* of jobs.py together keep what SlotService promises, for any number of   *)
(* slots, requests and troubles.                                           *)
THEOREM SlotServiceImplemented == Spec => ImplementsSlotService
<1>1. Init => Service!Init
  <2> SUFFICES ASSUME Init PROVE Service!Init
    OBVIOUS
  <2>1. \A s \in Slots : row[s].status = "none" /\ cont[s].state = "none" /\ AtWork(s) = {}
    BY DEF Init, NoCont, AtWork, OnSlot, JobPcs, Working
  <2> QED BY <2>1 DEF Init, Service!Init
<1>2. IInv /\ IInv' /\ [Next]_vars => [Service!Next]_Service!vars
  BY ServiceStep
<1> QED BY <1>1, <1>2, IInvHolds, PTL DEF Spec, ImplementsSlotService, Service!Spec

-----------------------------------------------------------------------------
(* What an implementation of SlotService has by that alone.                *)

(* A slot at rest, not spoiled, has a row that tells the truth.            *)
Truthful == \A s \in Slots \ dirty : AtWork(s) = {} => Agree(s)

(* SlotService is enough for row and container to agree: whatever          *)
(* implements it, as the handlers and threads of slots do, leaves no       *)
(* unspoiled slot with a row that says something else than Docker.         *)
THEOREM ServiceAgrees == Service!Spec => []Truthful
<1> DEFINE work == [s \in Slots |-> AtWork(s)]
<1>1. Service!Init => Truthful
  BY DEF Service!Init, Truthful, Agree
<1>2. Truthful /\ [Service!Next]_Service!vars => Truthful'
  <2> SUFFICES ASSUME Truthful, [Service!Next]_Service!vars PROVE Truthful'
    OBVIOUS
  <2>1. /\ \A t \in Slots : work[t] = AtWork(t)
        /\ \A t \in Slots : work'[t] = AtWork(t)'
    OBVIOUS
  <2>2. ASSUME NEW s \in Slots, Service!Elsewhere(s), dirty \subseteq dirty',
               s \in dirty' \/ (AtWork(s)' = {} => Agree(s)')
        PROVE  Truthful'
    BY <2>1, <2>2 DEF Truthful, Agree, Service!Elsewhere, Service!Kept
  <2>3. ASSUME NEW s \in Slots, Service!Elsewhere(s),
               \/ Service!Book(s) \/ Service!Admit(s) \/ Service!Touch(s) \/ Service!Record(s)
               \/ Service!Leave(s) \/ Service!Stray(s)
        PROVE  Truthful'
    <3>1. dirty' = dirty
      BY <2>3 DEF Service!Book, Service!Admit, Service!Touch, Service!Record, Service!Leave,
         Service!Stray, Service!Sound
    <3>2. s \in dirty \/ (AtWork(s)' = {} => Agree(s)')
      BY <2>1, <2>3 DEF Truthful, Agree, Service!Book, Service!Admit, Service!Touch,
         Service!Record, Service!Leave, Service!Stray, Service!Kept, Service!Agree
    <3> QED BY <2>2, <2>3, <3>1, <3>2
  <2>4. ASSUME NEW s \in Slots, Service!Elsewhere(s), Service!Botch(s) \/ Service!Force(s)
        PROVE  Truthful'
    BY <2>2, <2>4 DEF Service!Botch, Service!Force, Service!Spoil
  <2>5. CASE Service!Crash
    BY <2>1, <2>5 DEF Truthful, Agree, Service!Crash, Service!Kept
  <2>6. CASE Service!Mishap \/ UNCHANGED Service!vars
    BY <2>1, <2>6 DEF Truthful, Agree, Service!Mishap, Service!vars
  <2> QED BY <2>3, <2>4, <2>5, <2>6 DEF Service!Next
<1> QED BY <1>1, <1>2, PTL DEF Service!Spec
=============================================================================
