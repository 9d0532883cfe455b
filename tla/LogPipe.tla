------------------------------- MODULE LogPipe --------------------------------
(***************************************************************************)
(* What the sink of the application's log promises about records, without  *)
(* callbacks, queues or tasks: one row of records waits, in the order in   *)
(* which they were told, and the table takes them from its head.           *)
(*                                                                         *)
(* A record leaves the row in three ways only: it is written; it is        *)
(* refused, and then at least Room older ones are waiting; or it is in the *)
(* batch of a transaction that fails.  Once in the life of the process the *)
(* last rows of the table, Batch at most, are written a second time.       *)
(***************************************************************************)
EXTENDS Naturals, Sequences

CONSTANTS Room,  \* records that find a place whatever else happens
          Batch  \* records of one transaction of the writer

VARIABLES told,     \* records told so far; a record is known by its number
          waiting,  \* the row
          table,    \* rows written
          refused,  \* records that found no place
          repeated, \* whether the last rows were written again
          failures  \* transactions that failed

vars == <<told, waiting, table, refused, repeated, failures>>

Init == /\ told = 0 /\ waiting = <<>> /\ table = <<>>
        /\ refused = {} /\ repeated = FALSE /\ failures = 0

(* The first n of a row, what is behind them, and a row without place i.   *)
First(s, n)   == SubSeq(s, 1, n)
Behind(s, n)  == SubSeq(s, n + 1, Len(s))
Without(s, i) == First(s, i - 1) \o Behind(s, i)

Tell == /\ told' = told + 1
        /\ waiting' = Append(waiting, told')
        /\ UNCHANGED <<table, refused, repeated, failures>>

RefuseTold == /\ Len(waiting) >= Room
              /\ told' = told + 1
              /\ refused' = refused \cup {told'}
              /\ UNCHANGED <<waiting, table, repeated, failures>>

(* A record that waited already is refused for those before it.  That it   *)
(* was may be told as a record of its own, and refused in its turn.        *)
RefuseWaiting(i) ==
    /\ i > Room
    /\ \/ /\ waiting' = Without(waiting, i)
          /\ refused' = refused \cup {waiting[i]}
          /\ UNCHANGED told
       \/ /\ told' = told + 1
          /\ waiting' = Append(Without(waiting, i), told')
          /\ refused' = refused \cup {waiting[i]}
       \/ /\ told' = told + 1
          /\ waiting' = Without(waiting, i)
          /\ refused' = refused \cup {waiting[i], told'}
    /\ UNCHANGED <<table, repeated, failures>>

Write(n) == /\ table' = table \o First(waiting, n)
            /\ waiting' = Behind(waiting, n)
            /\ UNCHANGED <<told, refused, repeated, failures>>

Repeat(n) == /\ ~repeated /\ repeated' = TRUE
             /\ table' = table \o Behind(table, Len(table) - n)
             /\ UNCHANGED <<told, waiting, refused, failures>>

Fail(n) == /\ failures' = failures + 1
           /\ waiting' = Behind(waiting, n)
           /\ UNCHANGED <<told, table, refused, repeated>>

Next == \/ Tell \/ RefuseTold
        \/ \E i \in 1..Len(waiting) : RefuseWaiting(i)
        \/ \E n \in 1..Len(waiting) : Write(n)
        \/ \E n \in 1..Len(table) : n <= Batch /\ Repeat(n)
        \/ \E n \in 0..Len(waiting) : Fail(n)

Spec == Init /\ [][Next]_vars
=============================================================================
