----------------------------- MODULE JobService -----------------------------
(***************************************************************************)
(* What the control plane promises about background jobs, without lock     *)
(* tables, coroutines or transactions: at most one job at a time works on  *)
(* a resource, a request is refused only because another one is at work,   *)
(* and the status of a job moves forward and then stays.                   *)
(*                                                                         *)
(* An operator may force a resource.  From then on the two promises about  *)
(* that resource are off: `forced` is the price of the force-stop buttons. *)
(***************************************************************************)
CONSTANTS Jobs,   \* requests to run a job
          Keys,   \* (scope, resource) pairs a job works on
          KeyOf   \* the key of each job

VARIABLES phase,   \* where each request is
          status,  \* jobs.status as stored, "absent" before the INSERT
          forced   \* keys an operator has forced

vars == <<phase, status, forced>>

Phases   == {"idle", "refused", "active", "over"}
Statuses == {"absent", "queued", "running", "succeeded", "failed", "cancelled"}

TypeOK == /\ phase \in [Jobs -> Phases]
          /\ status \in [Jobs -> Statuses]
          /\ forced \subseteq Keys

Busy(j) == \E i \in Jobs \ {j} : KeyOf[i] = KeyOf[j] /\ phase[i] = "active"

(* The moves of a status nobody interferes with.                           *)
Forward == {<<"absent", "queued">>, <<"queued", "running">>,
            <<"running", "succeeded">>, <<"running", "failed">>}

(* The moves a force-stop adds: it cancels, and a transaction that was     *)
(* already in flight may write over the cancellation.                      *)
Interference == {<<s, "cancelled">> : s \in Statuses \ {"absent"}}
                  \cup {<<"cancelled", s>> : s \in {"running", "succeeded", "failed"}}

-----------------------------------------------------------------------------

Init == /\ phase = [j \in Jobs |-> "idle"]
        /\ status = [j \in Jobs |-> "absent"]
        /\ forced = {}

Admit(j) == /\ phase[j] = "idle"
            /\ Busy(j) => KeyOf[j] \in forced
            /\ phase' = [phase EXCEPT ![j] = "active"]
            /\ UNCHANGED <<status, forced>>

Refuse(j) == /\ phase[j] = "idle"
             /\ Busy(j)
             /\ phase' = [phase EXCEPT ![j] = "refused"]
             /\ UNCHANGED <<status, forced>>

Record(j, s) == /\ phase[j] = "active"
                /\ \/ <<status[j], s>> \in Forward
                   \/ KeyOf[j] \in forced /\ <<status[j], s>> \in Interference
                /\ status' = [status EXCEPT ![j] = s]
                /\ UNCHANGED <<phase, forced>>

Finish(j) == /\ phase[j] = "active"
             /\ phase' = [phase EXCEPT ![j] = "over"]
             /\ UNCHANGED <<status, forced>>

Force(k) == /\ forced' = forced \cup {k}
            /\ \E S \in SUBSET {j \in Jobs : KeyOf[j] = k /\ status[j] # "absent"} :
                 status' = [j \in Jobs |-> IF j \in S THEN "cancelled" ELSE status[j]]
            /\ UNCHANGED phase

(* The process stops and starts again: nothing is at work, rows stay.      *)
Restart == /\ phase' = [j \in Jobs |-> IF phase[j] = "active" THEN "over" ELSE phase[j]]
           /\ UNCHANGED <<status, forced>>

Next == \/ \E j \in Jobs : Admit(j) \/ Refuse(j) \/ Finish(j)
        \/ \E j \in Jobs, s \in Statuses : Record(j, s)
        \/ \E k \in Keys : Force(k)
        \/ Restart

Spec == Init /\ [][Next]_vars
=============================================================================
