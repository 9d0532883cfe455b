----------------------------- MODULE SlotService -----------------------------
(***************************************************************************)
(* What the control plane promises about inference slots, without HTTP     *)
(* requests, coroutines, Docker calls or locks: a slot has a row and a     *)
(* container, one job at a time works on it, only a job changes either     *)
(* once the row is booked, and a job leaves only when the row says what    *)
(* the container is.                                                       *)
(*                                                                         *)
(* These troubles break the promise: Docker fails to remove a container,   *)
(* or a call to it raises with the container touched; a job cannot write   *)
(* the row; a crash cuts a job short; an operator forces the slot.  Each   *)
(* spoils a slot on which somebody is at work or which is forced, and no   *)
(* other one.  Only force lets a second job in.                            *)
(***************************************************************************)
EXTENDS Naturals

CONSTANTS Slots, Workers

VARIABLES row,     \* what the database says of a slot: status and GPUs
          cont,    \* what Docker runs for it
          work,    \* who works on it
          forced,  \* slots an operator has forced
          spoiled, \* slots whose row and container may disagree for good
          troubles \* things that went wrong so far

vars == <<row, cont, work, forced, spoiled, troubles>>

Init == /\ \A s \in Slots : row[s].status = "none" /\ cont[s].state = "none" /\ work[s] = {}
        /\ forced = {} /\ spoiled = {} /\ troubles = 0

Agree(s) == /\ row[s].status = "running" <=> cont[s].state = "up"
            /\ row[s].status = "running" => cont[s].gpus = row[s].gpus

Kept(s)      == row'[s] = row[s] /\ cont'[s] = cont[s]
Elsewhere(s) == \A t \in Slots \ {s} : Kept(t) /\ work'[t] = work[t]
(* A step may go wrong and spoil nothing.                                  *)
Sound        == UNCHANGED <<forced, spoiled>> /\ troubles' \in {troubles, troubles + 1}
Spoil(s)     == spoiled' = spoiled \cup {s} /\ troubles' = troubles + 1

Book(s) == /\ row[s].status = "none"
           /\ row'[s].status = "requested" /\ row'[s].gpus # {}
           /\ cont'[s] = cont[s] /\ work'[s] = work[s] /\ Sound

Admit(s) == /\ s \in forced \/ work[s] = {}
            /\ \E w \in Workers : work'[s] = work[s] \cup {w}
            /\ Kept(s) /\ Sound

Touch(s) == /\ work[s] # {}
            /\ row'[s] = row[s] /\ work'[s] = work[s] /\ Sound

Record(s) == /\ work[s] # {}
             /\ row[s].status # "none"
             /\ row'[s].status \in {"running", "stopped", "failed"} /\ Agree(s)'
             /\ row'[s].status # "running" => row'[s].gpus = row[s].gpus
             /\ cont'[s] = cont[s] /\ work'[s] = work[s] /\ Sound

Leave(s) == /\ Agree(s)
            /\ \E w \in work[s] : work'[s] = work[s] \ {w}
            /\ Kept(s) /\ Sound

(* On a spoiled slot, those at work are trusted with nothing.              *)
Stray(s) == s \in spoiled /\ work'[s] \subseteq work[s] /\ Sound

Botch(s) == /\ work[s] # {}
            /\ row'[s] = row[s] /\ work'[s] \subseteq work[s]
            /\ Spoil(s) /\ UNCHANGED forced

Force(s) == /\ Kept(s) /\ work'[s] = work[s]
            /\ forced' = forced \cup {s} /\ Spoil(s)

Crash == /\ \A s \in Slots : Kept(s) /\ work'[s] = {}
         /\ spoiled' = spoiled \cup {s \in Slots : work[s] # {}}
         /\ troubles' = troubles + 1 /\ UNCHANGED forced

(* Something goes wrong before it has touched a slot.                      *)
Mishap == troubles' = troubles + 1 /\ UNCHANGED <<row, cont, work, forced, spoiled>>

Next == \/ \E s \in Slots :
             /\ Elsewhere(s)
             /\ \/ Book(s) \/ Admit(s) \/ Touch(s) \/ Record(s) \/ Leave(s)
                \/ Stray(s) \/ Botch(s) \/ Force(s)
        \/ Crash \/ Mishap

Spec == Init /\ [][Next]_vars
=============================================================================
