-------------------------- MODULE AppLogSinkProofs --------------------------
(***************************************************************************)
(* Proofs about AppLogSink for buffers of any size and any number of       *)
(* records and failing transactions.                                       *)
(***************************************************************************)
EXTENDS AppLogSink, SequenceTheorems, TLAPS

USE AppLogSinkAssumption

(* What the phase of start_writer and stop_writer says of the writer and   *)
(* of the buffers.                                                         *)
Stages ==
    /\ phase = "boot" => /\ writer = "none" /\ due = 0
                         /\ calls = <<>> /\ queue = <<>> /\ batch = <<>> /\ db = <<>>
    /\ phase = "up" => writer \in {"get", "flush", "committed", "dead"}
    /\ phase = "stopping" => writer \in {"again", "gone", "dead"}
    /\ phase \in {"rest", "down", "aborted"} => writer \in {"gone", "dead"}
    /\ phase \in {"boot", "up"} => redone = 0
    /\ phase \notin {"boot", "down"} => prebuf = <<>>
    /\ due <= emitted
    /\ writer = "dead" => failures > 0

Incr(s)      == \A i, j \in 1..Len(s) : i < j => s[i] < s[j]
Before(a, b) == \A x \in Elems(a), y \in Elems(b) : x < y
Upto(s, n)   == \A x \in Elems(s) : x <= n

(* A batch that is in the table already.                                   *)
Written == writer = "committed" \/ (writer = "again" /\ redone = Len(db))

(* Each buffer is in order, and so are the buffers among themselves; only  *)
(* a batch that has been committed is not ahead of the table.              *)
Sorted == Incr(prebuf) /\ Incr(calls) /\ Incr(queue) /\ Incr(batch)
Past   == /\ Upto(prebuf, emitted) /\ Upto(calls, emitted) /\ Upto(queue, emitted)
          /\ Upto(batch, emitted) /\ Upto(db, emitted)
Apart  == /\ Before(queue, calls)
          /\ Before(batch, queue) /\ Before(batch, calls)
          /\ Before(db, queue) /\ Before(db, calls)
          /\ Written \/ Before(db, batch)
          /\ writer = "committed" => Elems(batch) \subseteq Elems(db)

(* The table is in order, but for the start of a batch written again.      *)
Rising(d, again) == \A i \in 2..Len(d) : d[i - 1] < d[i] \/ (i = again + 1 /\ again > 0)

(* No record vanishes between two buffers: until a transaction fails, each *)
(* one is in the table, in a buffer or found its buffer full.              *)
Accounted ==
    failures = 0 => \A e \in 1..emitted :
        e \in Elems(prebuf) \cup Elems(calls) \cup Elems(queue)
                \cup Elems(batch) \cup Elems(db) \cup refused

(* Once the queue has been drained, only younger records are on the way.   *)
OnlyLate ==
    phase \in {"rest", "down"} /\ failures = 0 =>
        \A e \in Elems(prebuf) \cup Elems(calls) \cup Elems(queue) : e > due

SinkIInv ==
    /\ SinkTypeOK
    /\ Stages
    /\ Sorted /\ Past /\ Apart
    /\ Rising(db, redone)
    /\ Accounted
    /\ OnlyLate

-----------------------------------------------------------------------------
(* The elements of a sequence, and its order, under the operations of the  *)
(* sink.                                                                   *)

(* Nothing is in an empty buffer.                                          *)
LEMMA EmptyBuffer == Elems(<<>>) = {} /\ Incr(<<>>)
BY DEF Elems, Incr

(* A record is appended: put_nowait, or a full pre-buffer's append.        *)
LEMMA AppendElems ==
    ASSUME NEW S, NEW s \in Seq(S), NEW e
    PROVE  Elems(Append(s, e)) = Elems(s) \cup {e}
<1>1. /\ Len(Append(s, e)) = Len(s) + 1 /\ Len(s) \in Nat
      /\ \A i \in 1..Len(s) : Append(s, e)[i] = s[i]
      /\ Append(s, e)[Len(s) + 1] = e
  OBVIOUS
<1>2. 1..(Len(s) + 1) = 1..Len(s) \cup {Len(s) + 1}
  BY <1>1
<1> QED BY <1>1, <1>2 DEF Elems

(* The record appended last is the newest one of a buffer in order.        *)
LEMMA AppendIncr ==
    ASSUME NEW s \in Seq(Nat), NEW e \in Nat, Incr(s), \A x \in Elems(s) : x < e
    PROVE  Incr(Append(s, e))
<1>1. /\ Len(Append(s, e)) = Len(s) + 1 /\ Len(s) \in Nat
      /\ \A i \in 1..Len(s) : Append(s, e)[i] = s[i]
      /\ Append(s, e)[Len(s) + 1] = e
  OBVIOUS
<1>2. \A i \in 1..Len(s) : s[i] < e
  BY DEF Elems
<1> QED BY <1>1, <1>2 DEF Incr

(* A batch is written behind the table.                                    *)
LEMMA ConcatElems ==
    ASSUME NEW S, NEW s \in Seq(S), NEW t \in Seq(S)
    PROVE  Elems(s \o t) = Elems(s) \cup Elems(t)
<1>1. /\ Len(s \o t) = Len(s) + Len(t) /\ Len(s) \in Nat /\ Len(t) \in Nat
      /\ \A i \in 1..Len(s) : (s \o t)[i] = s[i]
      /\ \A i \in 1..Len(t) : (s \o t)[Len(s) + i] = t[i]
  OBVIOUS
<1>2. \A i \in 1..(Len(s) + Len(t)) : i \in 1..Len(s) \/ \E j \in 1..Len(t) : i = Len(s) + j
  <2> SUFFICES ASSUME NEW i \in 1..(Len(s) + Len(t)), i \notin 1..Len(s)
               PROVE  i - Len(s) \in 1..Len(t) /\ i = Len(s) + (i - Len(s))
    OBVIOUS
  <2> QED BY <1>1
<1>3. \A i \in 1..Len(t) : Len(s) + i \in 1..(Len(s) + Len(t))
  BY <1>1
<1>4. 1..Len(s) \subseteq 1..(Len(s) + Len(t))
  BY <1>1
<1>5. ASSUME NEW i \in 1..(Len(s) + Len(t)) PROVE (s \o t)[i] \in Elems(s) \cup Elems(t)
  <2>1. CASE i \in 1..Len(s)
    BY <1>1, <2>1 DEF Elems
  <2>2. ASSUME NEW j \in 1..Len(t), i = Len(s) + j PROVE (s \o t)[i] \in Elems(t)
    BY <1>1, <2>2 DEF Elems
  <2> QED BY <1>2, <2>1, <2>2
<1>6. ASSUME NEW i \in 1..Len(s) PROVE s[i] \in Elems(s \o t)
  <2>1. i \in 1..Len(s \o t) /\ s[i] = (s \o t)[i]
    BY <1>1, <1>4
  <2> QED BY <2>1 DEF Elems
<1>7. ASSUME NEW i \in 1..Len(t) PROVE t[i] \in Elems(s \o t)
  <2>1. Len(s) + i \in 1..Len(s \o t) /\ t[i] = (s \o t)[Len(s) + i]
    BY <1>1, <1>3
  <2> QED BY <2>1 DEF Elems
<1>8. Elems(s \o t) \subseteq Elems(s) \cup Elems(t)
  BY <1>1, <1>5 DEF Elems
<1>9. Elems(s) \subseteq Elems(s \o t) /\ Elems(t) \subseteq Elems(s \o t)
  BY <1>6, <1>7 DEF Elems
<1> QED BY <1>8, <1>9

(* A batch is written after what the table has: the rows rise again.       *)
LEMMA ConcatRising ==
    ASSUME NEW d \in Seq(Nat), NEW b \in Seq(Nat), NEW again \in Nat,
           Rising(d, again), Incr(b), Before(d, b) \/ again = Len(d)
    PROVE  Rising(d \o b, again)
<1>1. /\ Len(d \o b) = Len(d) + Len(b) /\ Len(d) \in Nat /\ Len(b) \in Nat
      /\ \A i \in 1..Len(d) : (d \o b)[i] = d[i]
      /\ \A i \in 1..Len(b) : (d \o b)[Len(d) + i] = b[i]
  OBVIOUS
<1> SUFFICES ASSUME NEW i \in 2..(Len(d) + Len(b))
             PROVE  (d \o b)[i - 1] < (d \o b)[i] \/ (i = again + 1 /\ again > 0)
  BY <1>1 DEF Rising
<1>2. CASE i <= Len(d)
  <2>1. i \in 2..Len(d) /\ i \in 1..Len(d) /\ i - 1 \in 1..Len(d)
    BY <1>1, <1>2
  <2> QED BY <1>1, <2>1 DEF Rising
<1>3. CASE i = Len(d) + 1
  <2>1. i - 1 \in 1..Len(d) /\ 1 \in 1..Len(b)
    BY <1>1, <1>3
  <2>2. (d \o b)[i - 1] = d[i - 1] /\ (d \o b)[i] = b[1]
    BY <1>1, <1>3, <2>1
  <2>3. Before(d, b) => d[i - 1] < b[1]
    BY <2>1 DEF Before, Elems
  <2> QED BY <1>1, <1>3, <2>1, <2>2, <2>3
<1>4. CASE i > Len(d) + 1
  <2> DEFINE j == i - Len(d)
  <2>1. j \in 1..Len(b) /\ j - 1 \in 1..Len(b) /\ i = Len(d) + j /\ i - 1 = Len(d) + (j - 1)
    BY <1>1, <1>4
  <2>2. j - 1 < j
    BY <1>1
  <2> HIDE DEF j
  <2>3. b[j - 1] < b[j]
    BY <2>1, <2>2 DEF Incr
  <2>4. (d \o b)[i] = b[j] /\ (d \o b)[i - 1] = b[j - 1]
    BY <1>1, <2>1
  <2> QED BY <2>3, <2>4
<1> QED BY <1>1, <1>2, <1>3, <1>4

(* The oldest record leaves its buffer.                                    *)
LEMMA TailElems ==
    ASSUME NEW s \in Seq(Nat), s # <<>>
    PROVE  /\ Tail(s) \in Seq(Nat) /\ Head(s) \in Elems(s)
           /\ Elems(s) = {Head(s)} \cup Elems(Tail(s))
           /\ Incr(s) => Incr(Tail(s)) /\ \A x \in Elems(Tail(s)) : Head(s) < x
<1>1. /\ Len(s) \in Nat /\ Len(s) >= 1 /\ Head(s) = s[1]
      /\ Tail(s) \in Seq(Nat) /\ Len(Tail(s)) = Len(s) - 1
      /\ \A i \in 1..(Len(s) - 1) : Tail(s)[i] = s[i + 1]
  OBVIOUS
<1>2. \A i \in 1..Len(s) : i = 1 \/ \E j \in 1..(Len(s) - 1) : i = j + 1
  <2> SUFFICES ASSUME NEW i \in 1..Len(s), i # 1
               PROVE  i - 1 \in 1..(Len(s) - 1) /\ i = (i - 1) + 1
    OBVIOUS
  <2> QED BY <1>1
<1>3. 1 \in 1..Len(s) /\ \A j \in 1..(Len(s) - 1) : j + 1 \in 1..Len(s) /\ 1 < j + 1
  BY <1>1
<1>4. Head(s) \in Elems(s) /\ Elems(s) = {Head(s)} \cup Elems(Tail(s))
  <2>1. ASSUME NEW i \in 1..Len(s) PROVE s[i] \in {Head(s)} \cup Elems(Tail(s))
    <3>1. ASSUME NEW j \in 1..(Len(s) - 1), i = j + 1 PROVE s[i] \in Elems(Tail(s))
      BY <1>1, <3>1 DEF Elems
    <3> QED BY <1>1, <1>2, <3>1
  <2>2. ASSUME NEW j \in 1..Len(Tail(s)) PROVE Tail(s)[j] \in Elems(s)
    BY <1>1, <1>3 DEF Elems
  <2>3. Head(s) \in Elems(s)
    BY <1>1, <1>3 DEF Elems
  <2>4. Elems(s) \subseteq {Head(s)} \cup Elems(Tail(s)) /\ Elems(Tail(s)) \subseteq Elems(s)
    BY <2>1, <2>2 DEF Elems
  <2> QED BY <2>3, <2>4
<1>5. Incr(s) => Incr(Tail(s)) /\ \A x \in Elems(Tail(s)) : Head(s) < x
  BY <1>1, <1>3 DEF Incr, Elems
<1> QED BY <1>1, <1>4, <1>5

(* A batch is taken from the front of the queue.                           *)
LEMMA SplitElems ==
    ASSUME NEW s \in Seq(Nat), NEW n \in 0..Len(s)
    PROVE  LET a == SubSeq(s, 1, n)
               b == SubSeq(s, n + 1, Len(s))
           IN /\ a \in Seq(Nat) /\ Len(a) = n /\ b \in Seq(Nat) /\ Len(b) = Len(s) - n
              /\ Elems(s) = Elems(a) \cup Elems(b)
              /\ Incr(s) => Incr(a) /\ Incr(b) /\ Before(a, b)
<1> DEFINE a == SubSeq(s, 1, n)
           b == SubSeq(s, n + 1, Len(s))
<1>1. /\ Len(s) \in Nat /\ n \in Nat /\ n <= Len(s)
      /\ \A i \in 1..Len(s) : s[i] \in Nat
  OBVIOUS
<1>2. a \in Seq(Nat) /\ Len(a) = n /\ \A i \in 1..n : a[i] = s[i]
  BY <1>1
<1>3. b \in Seq(Nat) /\ Len(b) = Len(s) - n /\ \A i \in 1..(Len(s) - n) : b[i] = s[n + i]
  BY <1>1
<1>4. \A i \in 1..Len(s) : i \in 1..n \/ \E j \in 1..(Len(s) - n) : i = n + j
  <2> SUFFICES ASSUME NEW i \in 1..Len(s), i \notin 1..n
               PROVE  i - n \in 1..(Len(s) - n) /\ i = n + (i - n)
    OBVIOUS
  <2> QED BY <1>1
<1>5. /\ \A i \in 1..n : i \in 1..Len(s)
      /\ \A j \in 1..(Len(s) - n) : n + j \in 1..Len(s) /\ \A i \in 1..n : i < n + j
  BY <1>1
<1> HIDE DEF a, b
<1>6. Elems(s) = Elems(a) \cup Elems(b)
  <2>1. ASSUME NEW i \in 1..Len(s) PROVE s[i] \in Elems(a) \cup Elems(b)
    <3>1. CASE i \in 1..n
      BY <1>2, <3>1 DEF Elems
    <3>2. ASSUME NEW j \in 1..(Len(s) - n), i = n + j PROVE s[i] \in Elems(b)
      BY <1>3, <3>2 DEF Elems
    <3> QED BY <1>4, <3>1, <3>2
  <2>2. ASSUME NEW i \in 1..Len(a) PROVE a[i] \in Elems(s)
    BY <1>2, <1>5 DEF Elems
  <2>3. ASSUME NEW j \in 1..Len(b) PROVE b[j] \in Elems(s)
    BY <1>3, <1>5 DEF Elems
  <2>4. /\ Elems(s) \subseteq Elems(a) \cup Elems(b)
        /\ Elems(a) \subseteq Elems(s) /\ Elems(b) \subseteq Elems(s)
    BY <2>1, <2>2, <2>3 DEF Elems
  <2> QED BY <2>4
<1>7. Incr(s) => Incr(a)
  BY <1>2, <1>5 DEF Incr
<1>8. ASSUME Incr(s) PROVE Incr(b)
  <2> SUFFICES ASSUME NEW i \in 1..Len(b), NEW j \in 1..Len(b), i < j PROVE b[i] < b[j]
    BY DEF Incr
  <2>1. n + i \in 1..Len(s) /\ n + j \in 1..Len(s) /\ n + i < n + j
    BY <1>1, <1>3
  <2> QED BY <1>3, <1>8, <2>1 DEF Incr
<1>9. ASSUME Incr(s) PROVE Before(a, b)
  <2> SUFFICES ASSUME NEW i \in 1..Len(a), NEW j \in 1..Len(b) PROVE a[i] < b[j]
    BY DEF Before, Elems
  <2>1. i \in 1..Len(s) /\ n + j \in 1..Len(s) /\ i < n + j
    BY <1>2, <1>3, <1>5
  <2> QED BY <1>2, <1>3, <1>9, <2>1 DEF Incr
<1> QED BY <1>2, <1>3, <1>6, <1>7, <1>8, <1>9 DEF a, b

-----------------------------------------------------------------------------
(* The buffers as sequences of numbers.                                    *)
IsBuffer(s)  == s \in Seq(Nat) /\ s \in Seq(Records) /\ Len(s) \in Nat /\ Elems(s) \subseteq Nat
BuffersTyped ==
    /\ IsBuffer(prebuf) /\ IsBuffer(calls) /\ IsBuffer(queue) /\ IsBuffer(batch) /\ IsBuffer(db)
    /\ emitted \in Nat /\ due \in Nat /\ redone \in Nat /\ failures \in Nat
(* That is what the type invariant says of them.                           *)
LEMMA Buffers == SinkTypeOK => BuffersTyped
<1> SUFFICES ASSUME SinkTypeOK PROVE BuffersTyped
  OBVIOUS
<1>1. ASSUME NEW s \in Seq(Records) PROVE IsBuffer(s)
  BY DEF Records, Elems, IsBuffer
<1>2. /\ prebuf \in Seq(Records) /\ calls \in Seq(Records) /\ queue \in Seq(Records)
      /\ batch \in Seq(Records) /\ db \in Seq(Records)
  BY DEF SinkTypeOK
<1>3. emitted \in Nat /\ due \in Nat /\ redone \in Nat /\ failures \in Nat
  <2>1. Len(db) \in Nat
    BY <1>2
  <2> QED BY <2>1 DEF SinkTypeOK
<1> QED BY <1>1, <1>2, <1>3 DEF BuffersTyped

(* A writer that has something to do tells the phase.                      *)
LEMMA PhaseOfWriter ==
    ASSUME SinkTypeOK, Stages
    PROVE  /\ writer \in {"get", "flush", "committed"} => phase = "up"
           /\ writer = "again" => phase = "stopping"
BY DEF SinkTypeOK, Stages, Phases

(* The invariant holds at first.                                           *)
LEMMA SinkInitIInv == SinkInit => SinkIInv
<1> SUFFICES ASSUME SinkInit PROVE SinkIInv
  OBVIOUS
<1>1. SinkTypeOK
  BY DEF SinkInit, SinkTypeOK, Phases, Writers
<1>2. Stages /\ Accounted /\ OnlyLate
  BY EmptyBuffer DEF SinkInit, Stages, Accounted, OnlyLate
<1>3. Sorted /\ Past /\ Apart
  BY EmptyBuffer DEF SinkInit, Sorted, Past, Apart, Before, Upto, Written
<1>4. Rising(db, redone)
  BY DEF SinkInit, Rising
<1> QED BY <1>1, <1>2, <1>3, <1>4 DEF SinkIInv

-----------------------------------------------------------------------------
(* One lemma per action: first what it does to the buffers, then one step  *)
(* per part of the invariant.                                              *)

(* A record goes to the pre-buffer, or finds it full.                      *)
LEMMA EmitBufferedStep ==
    ASSUME SinkIInv, EmitBuffered
    PROVE  SinkIInv'
<1> USE DEF SinkIInv, BuffersTyped, IsBuffer
<1>1. BuffersTyped
  BY Buffers
<1>2. /\ phase \in {"boot", "down"} /\ emitted' = emitted + 1 /\ emitted' \in 0..MaxRecords
      /\ UNCHANGED <<phase, calls, queue, batch, writer, db, due, redone, failures>>
  BY <1>1 DEF EmitBuffered, SinkTypeOK
<1>3. \/ Len(prebuf) < PreMax /\ prebuf' = Append(prebuf, emitted') /\ refused' = refused
      \/ Len(prebuf) >= PreMax /\ prebuf' = prebuf /\ refused' = refused \cup {emitted'}
  BY <1>1, <1>2 DEF EmitBuffered
<1>4. \A x \in Elems(prebuf) : x < emitted'
  BY <1>1, <1>2 DEF Past, Upto
<1>5. /\ prebuf' \in Seq(Records) /\ Len(prebuf') <= PreMax /\ refused' \subseteq Records
      /\ Incr(prebuf') /\ Elems(prebuf') \subseteq Elems(prebuf) \cup {emitted'}
      /\ Elems(prebuf) \cup refused \cup {emitted'} \subseteq Elems(prebuf') \cup refused'
  <2>1. CASE Len(prebuf) < PreMax /\ prebuf' = Append(prebuf, emitted') /\ refused' = refused
    <3>1. emitted' \in Records /\ emitted' \in Nat
      BY <1>1, <1>2 DEF Records
    <3>2. Elems(prebuf') = Elems(prebuf) \cup {emitted'} /\ Incr(prebuf')
      BY <1>1, <1>4, <2>1, <3>1, AppendElems, AppendIncr DEF Sorted
    <3> QED BY <1>1, <2>1, <3>1, <3>2 DEF SinkTypeOK
  <2>2. CASE Len(prebuf) >= PreMax /\ prebuf' = prebuf /\ refused' = refused \cup {emitted'}
    BY <1>1, <1>2, <2>2 DEF SinkTypeOK, Records, Sorted
  <2> QED BY <1>3, <2>1, <2>2
<1>6. /\ \A e \in 1..emitted' : e \in 1..emitted \/ e = emitted'
      /\ \A x \in Nat : x <= emitted => x <= emitted'
  BY <1>1, <1>2
<1>7. SinkTypeOK'
  BY <1>1, <1>2, <1>3, <1>4, <1>5, <1>6 DEF SinkTypeOK, Stages, Phases, Writers
<1>8. Stages'
  BY <1>1, <1>2, <1>3, <1>4, <1>5, <1>6 DEF Stages
<1>9. Sorted'
  BY <1>1, <1>2, <1>3, <1>4, <1>5, <1>6 DEF Sorted, Stages
<1>10. Past'
  BY <1>1, <1>2, <1>3, <1>4, <1>5, <1>6 DEF Past, Upto
<1>11. Apart'
  BY <1>1, <1>2, <1>3, <1>4, <1>5, <1>6 DEF Apart, Past, Before, Upto, Written, Stages
<1>12. Rising(db, redone)'
  BY <1>1, <1>2, <1>3, <1>4, <1>5, <1>6 DEF Rising
<1>13. Accounted'
  BY <1>1, <1>2, <1>3, <1>4, <1>5, <1>6 DEF Accounted, Apart, Stages
<1>14. OnlyLate'
  BY <1>1, <1>2, <1>3, <1>4, <1>5, <1>6 DEF OnlyLate, Stages, Past, Upto
<1> QED BY <1>7, <1>8, <1>9, <1>10, <1>11, <1>12, <1>13, <1>14

(* A record becomes a callback.                                            *)
LEMMA EmitScheduledStep ==
    ASSUME SinkIInv, EmitScheduled
    PROVE  SinkIInv'
<1> USE DEF SinkIInv, BuffersTyped, IsBuffer
<1>1. BuffersTyped
  BY Buffers
<1>2. /\ phase \notin {"boot", "down"} /\ emitted' = emitted + 1 /\ emitted' \in 0..MaxRecords
      /\ calls' = Append(calls, emitted') /\ emitted' \in Records
      /\ UNCHANGED <<phase, prebuf, queue, batch, writer, db, refused, due, redone, failures>>
  BY <1>1 DEF EmitScheduled, SinkTypeOK, sinkHistory, Records
<1>3. /\ \A x \in Elems(calls) : x < emitted'
      /\ calls' \in Seq(Records) /\ Elems(calls') = Elems(calls) \cup {emitted'} /\ Incr(calls')
  <2>1. \A x \in Elems(calls) : x < emitted'
    BY <1>1, <1>2 DEF Past, Upto
  <2> QED BY <1>1, <1>2, <2>1, AppendElems, AppendIncr DEF Sorted
<1>4. /\ \A e \in 1..emitted' : e \in 1..emitted \/ e = emitted'
      /\ \A x \in Nat : x <= emitted => x <= emitted'
  BY <1>1, <1>2
<1>5. SinkTypeOK'
  BY <1>1, <1>2, <1>3, <1>4 DEF SinkTypeOK, Stages, Phases, Writers
<1>6. Stages'
  BY <1>1, <1>2, <1>3, <1>4 DEF Stages
<1>7. Sorted'
  BY <1>1, <1>2, <1>3, <1>4 DEF Sorted, Stages
<1>8. Past'
  <2> USE DEF Past, Upto
  <2>1. Upto(prebuf, emitted)'
    BY <1>1, <1>2
  <2>2. Upto(calls, emitted)'
    <3>1. SUFFICES ASSUME NEW x \in Elems(calls') PROVE x <= emitted'
      OBVIOUS
    <3>2. x \in Elems(calls) \/ x = emitted'
      BY <1>3
    <3>3. emitted' \in Nat /\ Elems(calls) \subseteq Nat
      BY <1>1, <1>2
    <3>4. CASE x = emitted'
      BY <3>3, <3>4
    <3>5. CASE x \in Elems(calls)
      <4>1. x \in Nat /\ x < emitted'
        BY <1>3, <3>3, <3>5
      <4> QED BY <3>3, <4>1
    <3> QED BY <3>2, <3>4, <3>5
  <2>3. Upto(queue, emitted)' /\ Upto(batch, emitted)' /\ Upto(db, emitted)'
    BY <1>1, <1>2, <1>4
  <2> QED BY <2>1, <2>2, <2>3
<1>9. Apart'
  BY <1>1, <1>2, <1>3, <1>4 DEF Apart, Past, Before, Upto, Written, Stages
<1>10. Rising(db, redone)'
  BY <1>1, <1>2, <1>3, <1>4 DEF Rising
<1>11. Accounted'
  BY <1>1, <1>2, <1>3, <1>4 DEF Accounted, Apart, Stages
<1>12. OnlyLate'
  BY <1>1, <1>2, <1>3, <1>4 DEF OnlyLate, Stages, Past, Upto
<1> QED BY <1>5, <1>6, <1>7, <1>8, <1>9, <1>10, <1>11, <1>12

(* A callback puts its record into the queue.                              *)
LEMMA PutQueuedStep ==
    ASSUME SinkIInv, Put, Len(queue) < QueueMax
    PROVE  SinkIInv'
<1> USE DEF SinkIInv, BuffersTyped, IsBuffer
<1>1. BuffersTyped
  BY Buffers
<1>2. /\ Tail(calls) \in Seq(Records) /\ Head(calls) \in Elems(calls) /\ Head(calls) \in Records
      /\ Elems(calls) = {Head(calls)} \cup Elems(Tail(calls))
      /\ Incr(Tail(calls)) /\ \A x \in Elems(Tail(calls)) : Head(calls) < x
  <2>1. calls # <<>>
    BY DEF Put
  <2>2. Head(calls) \in Records /\ Tail(calls) \in Seq(Records)
    BY <1>1, <2>1
  <2> QED BY <1>1, <2>1, <2>2, TailElems DEF Sorted
<1>3. /\ queue' = Append(queue, Head(calls)) /\ calls' = Tail(calls)
      /\ UNCHANGED <<phase, emitted, prebuf, batch, writer, db, refused, due, redone, failures>>
  BY DEF Put
<1>4. /\ queue' \in Seq(Records) /\ Len(queue') <= QueueMax
      /\ Elems(queue') = Elems(queue) \cup {Head(calls)} /\ Incr(queue')
  <2>1. \A x \in Elems(queue) : x < Head(calls)
    BY <1>2 DEF Apart, Before
  <2>2. Head(calls) \in Nat
    BY <1>1, <1>2
  <2> QED BY <1>1, <1>2, <1>3, <2>1, <2>2, AppendElems, AppendIncr DEF Sorted
<1>5. SinkTypeOK'
  BY <1>1, <1>2, <1>3, <1>4 DEF SinkTypeOK, Stages, Phases, Writers
<1>6. Stages'
  BY <1>3, EmptyBuffer DEF Stages, Put
<1>7. Sorted'
  BY <1>1, <1>2, <1>3, <1>4 DEF Sorted, Stages
<1>8. Past'
  BY <1>1, <1>2, <1>3, <1>4 DEF Past, Upto
<1>9. Apart'
  BY <1>1, <1>2, <1>3, <1>4 DEF Apart, Past, Before, Upto, Written, Stages
<1>10. Rising(db, redone)'
  BY <1>1, <1>2, <1>3, <1>4 DEF Rising
<1>11. Accounted'
  BY <1>1, <1>2, <1>3, <1>4 DEF Accounted, Apart, Stages
<1>12. OnlyLate'
  BY <1>1, <1>2, <1>3, <1>4 DEF OnlyLate, Stages, Past, Upto
<1> QED BY <1>5, <1>6, <1>7, <1>8, <1>9, <1>10, <1>11, <1>12


(* What becomes of the record of a refusal.                                *)
Refusal ==
    \/ /\ calls' = Tail(calls) /\ prebuf' = prebuf /\ emitted' = emitted
       /\ refused' = refused \cup {Head(calls)}
    \/ /\ calls' = Tail(calls) /\ prebuf' = prebuf /\ emitted' = emitted + 1 /\ emitted < MaxRecords
       /\ refused' = refused \cup {Head(calls)} \cup {emitted'}
    \/ /\ calls' = Append(Tail(calls), emitted') /\ prebuf' = prebuf
       /\ emitted' = emitted + 1 /\ emitted < MaxRecords /\ phase # "down"
       /\ refused' = refused \cup {Head(calls)}
    \/ /\ calls' = Tail(calls) /\ prebuf' = Append(prebuf, emitted')
       /\ emitted' = emitted + 1 /\ emitted < MaxRecords /\ phase = "down"
       /\ Len(prebuf) < PreMax /\ refused' = refused \cup {Head(calls)}

(* The queue is full: the record is refused, and the record of that        *)
(* refusal is a callback again, or goes the way of EmitBuffered.           *)
LEMMA PutRefusedStep ==
    ASSUME SinkIInv, Put, Len(queue) >= QueueMax
    PROVE  SinkIInv'
<1> USE DEF SinkIInv, BuffersTyped, IsBuffer
<1>1. BuffersTyped
  BY Buffers
<1>2. /\ Tail(calls) \in Seq(Records) /\ Head(calls) \in Elems(calls) /\ Head(calls) \in Records
      /\ Elems(calls) = {Head(calls)} \cup Elems(Tail(calls))
      /\ Incr(Tail(calls)) /\ \A x \in Elems(Tail(calls)) : Head(calls) < x
  <2>1. calls # <<>>
    BY DEF Put
  <2>2. Head(calls) \in Records /\ Tail(calls) \in Seq(Records)
    BY <1>1, <2>1
  <2> QED BY <1>1, <2>1, <2>2, TailElems DEF Sorted
<1>3. UNCHANGED <<phase, queue, batch, writer, db, due, redone, failures>>
  BY <1>1 DEF Put
<1>4. Refusal
  <2> DEFINE logged   == emitted < MaxRecords
             buffered == logged /\ phase = "down" /\ Len(prebuf) < PreMax
             lost     == logged /\ phase = "down" /\ Len(prebuf) = PreMax
  <2>1. /\ emitted' = IF logged THEN emitted + 1 ELSE emitted
        /\ calls' = IF logged /\ phase # "down" THEN Append(Tail(calls), emitted') ELSE Tail(calls)
        /\ prebuf' = IF buffered THEN Append(prebuf, emitted') ELSE prebuf
        /\ refused' = refused \cup {Head(calls)} \cup IF lost THEN {emitted'} ELSE {}
    <3>1. ~(Len(queue) < QueueMax)
      BY <1>1, AppLogSinkAssumption
    <3> QED BY <3>1 DEF Put
  <2>2. Len(prebuf) <= PreMax
    BY DEF SinkTypeOK
  <2>3. CASE ~logged
    BY <2>1, <2>3 DEF Refusal
  <2>4. CASE logged /\ phase # "down"
    BY <2>1, <2>4 DEF Refusal
  <2>5. CASE buffered
    <3>1. ~lost
      BY <2>5, <1>1
    <3> QED BY <2>1, <2>5, <3>1 DEF Refusal
  <2>6. CASE lost
    BY <2>1, <2>6 DEF Refusal
  <2>7. ~logged \/ (logged /\ phase # "down") \/ buffered \/ lost
    BY <2>2, <1>1
  <2> QED BY <2>3, <2>4, <2>5, <2>6, <2>7
<1>5. emitted' \in 0..MaxRecords
  <2>1. emitted' = emitted \/ (emitted' = emitted + 1 /\ emitted < MaxRecords)
    BY <1>4 DEF Refusal
  <2>2. emitted \in 0..MaxRecords
    BY DEF SinkTypeOK
  <2> QED BY <2>1, <2>2
<1>6. /\ refused' \subseteq Records /\ refused \cup {Head(calls)} \subseteq refused'
  <2>1. refused \subseteq Records /\ (emitted' = emitted + 1 => emitted' \in Records)
    BY <1>1, <1>5 DEF SinkTypeOK, Records
  <2> QED BY <1>2, <1>4, <2>1 DEF Refusal
<1>7. /\ \A x \in Elems(prebuf) \cup Elems(calls) : emitted' = emitted + 1 => x < emitted'
      /\ \A x \in Nat : x <= emitted => x <= emitted'
      /\ \A e \in 1..emitted' : e \in 1..emitted \/ (e = emitted' /\ emitted' = emitted + 1)
  BY <1>1, <1>4 DEF Refusal, Past, Upto
<1>8. /\ calls' \in Seq(Records) /\ Incr(calls')
      /\ Elems(Tail(calls)) \subseteq Elems(calls')
      /\ \/ Elems(calls') = Elems(Tail(calls))
         \/ /\ Elems(calls') = Elems(Tail(calls)) \cup {emitted'}
            /\ emitted' = emitted + 1
  <2>1. CASE calls' = Tail(calls)
    BY <1>2, <2>1
  <2>2. CASE calls' = Append(Tail(calls), emitted') /\ emitted' = emitted + 1
    <3>1. emitted' \in Records /\ emitted' \in Nat /\ Tail(calls) \in Seq(Nat)
      BY <1>1, <1>2, <1>5, <2>2 DEF Records
    <3>2. Elems(calls') = Elems(Tail(calls)) \cup {emitted'} /\ Incr(calls')
      BY <1>2, <1>7, <2>2, <3>1, AppendElems, AppendIncr
    <3> QED BY <1>2, <2>2, <3>1, <3>2
  <2> QED BY <1>4, <2>1, <2>2 DEF Refusal
<1>9. /\ prebuf' \in Seq(Records) /\ Incr(prebuf') /\ Len(prebuf') <= PreMax
      /\ Elems(prebuf) \subseteq Elems(prebuf')
      /\ \/ prebuf' = prebuf
         \/ /\ Elems(prebuf') = Elems(prebuf) \cup {emitted'}
            /\ emitted' = emitted + 1 /\ phase = "down"
  <2>1. CASE prebuf' = prebuf
    BY <1>1, <2>1 DEF SinkTypeOK, Sorted
  <2>2. CASE /\ prebuf' = Append(prebuf, emitted') /\ emitted' = emitted + 1
             /\ phase = "down" /\ Len(prebuf) < PreMax
    <3>1. emitted' \in Records /\ emitted' \in Nat
      BY <1>1, <1>5, <2>2 DEF Records
    <3>2. Elems(prebuf') = Elems(prebuf) \cup {emitted'} /\ Incr(prebuf')
      BY <1>1, <1>7, <2>2, <3>1, AppendElems, AppendIncr DEF Sorted
    <3>3. prebuf' \in Seq(Records) /\ Len(prebuf') <= PreMax
      BY <1>1, <2>2, <3>1
    <3> QED BY <2>2, <3>2, <3>3
  <2> QED BY <1>4, <2>1, <2>2 DEF Refusal
<1>10. emitted' = emitted + 1 => emitted' \in Elems(calls') \cup Elems(prebuf') \cup refused'
  <2> SUFFICES ASSUME emitted' = emitted + 1
               PROVE  emitted' \in Elems(calls') \cup Elems(prebuf') \cup refused'
    OBVIOUS
  <2>1. CASE calls' = Append(Tail(calls), emitted')
    <3>1. emitted' \in Records
      BY <1>1, <1>5 DEF Records
    <3> QED BY <1>2, <2>1, <3>1, AppendElems
  <2>2. CASE prebuf' = Append(prebuf, emitted')
    <3>1. emitted' \in Records
      BY <1>1, <1>5 DEF Records
    <3> QED BY <1>1, <2>2, <3>1, AppendElems
  <2>3. CASE emitted' \in refused'
    BY <2>3
  <2> QED BY <1>4, <2>1, <2>2, <2>3 DEF Refusal
<1>11. SinkTypeOK'
  BY <1>1, <1>2, <1>3, <1>4, <1>5, <1>6, <1>7, <1>8, <1>9, <1>10 DEF SinkTypeOK, Stages,
     Phases, Writers
<1>12. Stages'
  BY <1>1, <1>3, <1>4, EmptyBuffer DEF Stages, Refusal, Put
<1>13. Sorted'
  BY <1>1, <1>2, <1>3, <1>4, <1>5, <1>6, <1>7, <1>8, <1>9, <1>10 DEF Sorted, Stages
<1>14. Past'
  <2> USE DEF Past, Upto
  <2>1. Upto(prebuf, emitted)'
    BY <1>1, <1>4, <1>7, <1>9
  <2>2. Upto(calls, emitted)'
    BY <1>1, <1>2, <1>4, <1>7, <1>8
  <2>3. Upto(queue, emitted)' /\ Upto(batch, emitted)' /\ Upto(db, emitted)'
    BY <1>1, <1>3, <1>7
  <2> QED BY <2>1, <2>2, <2>3
<1>15. Apart'
  <2>1. Elems(calls') \subseteq Elems(Tail(calls)) \cup {emitted'}
    BY <1>8
  <2>2. Before(queue, calls)' /\ Before(batch, calls)' /\ Before(db, calls)'
    BY <1>1, <1>2, <1>3, <1>7, <1>8 DEF Apart, Before, Past, Upto
  <2>3. UNCHANGED Before(batch, queue) /\ UNCHANGED (Written \/ Before(db, batch))
    BY <1>3 DEF Before, Written
  <2> QED BY <1>3, <2>2, <2>3 DEF Apart
<1>16. Rising(db, redone)'
  BY <1>1, <1>2, <1>3, <1>4, <1>5, <1>6, <1>7, <1>8, <1>9, <1>10 DEF Rising
<1>17. Accounted'
  BY <1>1, <1>2, <1>3, <1>4, <1>5, <1>6, <1>7, <1>8, <1>9, <1>10 DEF Accounted, Apart, Stages
<1>18. OnlyLate'
  BY <1>1, <1>2, <1>3, <1>4, <1>5, <1>6, <1>7, <1>8, <1>9, <1>10 DEF OnlyLate, Stages, Past, Upto
<1> QED BY <1>11, <1>12, <1>13, <1>14, <1>15, <1>16, <1>17, <1>18

(* What was buffered goes to the queue.                                    *)
LEMMA StartWriterStep ==
    ASSUME SinkIInv, StartWriter
    PROVE  SinkIInv'
<1> USE DEF SinkIInv, BuffersTyped, IsBuffer
<1>1. BuffersTyped
  BY Buffers
<1>2. /\ phase = "boot" /\ phase' = "up" /\ writer' = "get" /\ queue' = prebuf /\ prebuf' = <<>>
      /\ UNCHANGED <<emitted, calls, batch, db, refused, due, redone, failures>>
      /\ Elems(calls) = {} /\ Elems(queue) = {} /\ Elems(batch) = {} /\ Elems(db) = {}
      /\ Elems(prebuf') = {} /\ Incr(prebuf') /\ prebuf' \in Seq(Records) /\ Len(prebuf') = 0
  BY EmptyBuffer DEF StartWriter, Stages, sinkHistory
<1>3. SinkTypeOK'
  BY <1>1, <1>2 DEF SinkTypeOK, Stages, Phases, Writers
<1>4. Stages'
  BY <1>1, <1>2 DEF Stages
<1>5. Sorted'
  BY <1>1, <1>2 DEF Sorted, Stages
<1>6. Past'
  BY <1>1, <1>2 DEF Past, Upto
<1>7. Apart'
  BY <1>1, <1>2 DEF Apart, Past, Before, Upto, Written, Stages
<1>8. Rising(db, redone)'
  BY <1>1, <1>2 DEF Rising
<1>9. Accounted'
  BY <1>1, <1>2 DEF Accounted, Apart, Stages
<1>10. OnlyLate'
  BY <1>1, <1>2 DEF OnlyLate, Stages, Past, Upto
<1> QED BY <1>3, <1>4, <1>5, <1>6, <1>7, <1>8, <1>9, <1>10

(* The front of the queue becomes the batch.                               *)
LEMMA WriterTakeStep ==
    ASSUME SinkIInv, WriterTake
    PROVE  SinkIInv'
<1> USE DEF SinkIInv, BuffersTyped, IsBuffer
<1>1. BuffersTyped
  BY Buffers
<1>2. \E n \in 0..Len(queue) : n <= BatchMax /\ batch' = SubSeq(queue, 1, n)
                                /\ queue' = SubSeq(queue, n + 1, Len(queue))
  <2> DEFINE n == Fewer(Len(queue), BatchMax)
  <2>1. n \in 0..Len(queue) /\ n <= BatchMax
    BY <1>1 DEF Fewer
  <2>2. batch' = SubSeq(queue, 1, n) /\ queue' = SubSeq(queue, n + 1, Len(queue))
    BY DEF WriterTake
  <2> QED BY <2>1, <2>2
<1>3. /\ writer = "get" /\ writer' = "flush" /\ phase = "up"
      /\ UNCHANGED <<phase, emitted, prebuf, calls, db, refused, due, redone, failures>>
  BY PhaseOfWriter DEF WriterTake, sinkHistory
<1>4. /\ batch = <<>> /\ Elems(batch) = {}
  BY <1>3, EmptyBuffer DEF SinkTypeOK
<1>5. /\ Elems(queue) = Elems(batch') \cup Elems(queue') /\ Incr(batch') /\ Incr(queue')
      /\ Before(batch', queue') /\ Len(batch') <= BatchMax /\ Len(queue') <= QueueMax
      /\ batch' \in Seq(Records) /\ queue' \in Seq(Records)
  <2>1. PICK n \in 0..Len(queue) : n <= BatchMax /\ batch' = SubSeq(queue, 1, n)
                                /\ queue' = SubSeq(queue, n + 1, Len(queue))
    BY <1>2
  <2>2. batch' \in Seq(Records) /\ queue' \in Seq(Records)
    BY <1>1, <2>1
  <2> QED BY <1>1, <2>1, <2>2, SplitElems DEF Sorted, SinkTypeOK
<1>6. SinkTypeOK'
  BY <1>1, <1>2, <1>3, <1>4, <1>5 DEF SinkTypeOK, Stages, Phases, Writers
<1>7. Stages'
  BY <1>1, <1>2, <1>3, <1>4, <1>5 DEF Stages
<1>8. Sorted'
  BY <1>1, <1>2, <1>3, <1>4, <1>5 DEF Sorted, Stages
<1>9. Past'
  BY <1>1, <1>2, <1>3, <1>4, <1>5 DEF Past, Upto
<1>10. Apart'
  BY <1>1, <1>2, <1>3, <1>4, <1>5 DEF Apart, Past, Before, Upto, Written, Stages
<1>11. Rising(db, redone)'
  BY <1>1, <1>2, <1>3, <1>4, <1>5 DEF Rising
<1>12. Accounted'
  BY <1>1, <1>2, <1>3, <1>4, <1>5 DEF Accounted, Apart, Stages
<1>13. OnlyLate'
  BY <1>1, <1>2, <1>3, <1>4, <1>5 DEF OnlyLate, Stages, Past, Upto
<1> QED BY <1>6, <1>7, <1>8, <1>9, <1>10, <1>11, <1>12, <1>13

(* The batch is written.                                                   *)
LEMMA FlushCommitStep ==
    ASSUME SinkIInv, FlushCommit
    PROVE  SinkIInv'
<1> USE DEF SinkIInv, BuffersTyped, IsBuffer
<1>1. BuffersTyped
  BY Buffers
<1>2. /\ writer = "flush" /\ phase = "up" /\ db' = db \o batch /\ writer' = "committed"
      /\ UNCHANGED <<phase, emitted, prebuf, calls, queue, batch, refused, due, redone, failures>>
  BY PhaseOfWriter DEF FlushCommit, sinkHistory
<1>3. /\ Elems(db') = Elems(db) \cup Elems(batch) /\ db' \in Seq(Records)
      /\ Len(db') = Len(db) + Len(batch) /\ Len(db') \in Nat
  BY <1>1, <1>2, ConcatElems
<1>4. SinkTypeOK'
  BY <1>1, <1>2, <1>3 DEF SinkTypeOK, Stages, Phases, Writers
<1>5. Stages'
  BY <1>1, <1>2, <1>3 DEF Stages
<1>6. Sorted'
  BY <1>1, <1>2, <1>3 DEF Sorted, Stages
<1>7. Past'
  BY <1>1, <1>2, <1>3 DEF Past, Upto
<1>8. Apart'
  BY <1>1, <1>2, <1>3 DEF Apart, Past, Before, Upto, Written, Stages
<1>9. Rising(db, redone)'
  <2>1. Before(db, batch) \/ redone = Len(db)
    BY <1>1, <1>2 DEF Apart, Written, Stages
  <2> QED BY <1>1, <1>2, <2>1, ConcatRising DEF Sorted
<1>10. Accounted'
  BY <1>1, <1>2, <1>3 DEF Accounted, Apart, Stages
<1>11. OnlyLate'
  BY <1>1, <1>2, <1>3 DEF OnlyLate, Stages, Past, Upto
<1> QED BY <1>4, <1>5, <1>6, <1>7, <1>8, <1>9, <1>10, <1>11

(* The batch is lost and the writer dead.                                  *)
LEMMA FlushFailsStep ==
    ASSUME SinkIInv, FlushFails
    PROVE  SinkIInv'
<1> USE DEF SinkIInv, BuffersTyped, IsBuffer
<1>1. BuffersTyped
  BY Buffers
<1>2. /\ writer = "flush" /\ phase = "up" /\ batch' = <<>> /\ writer' = "dead"
      /\ UNCHANGED <<phase, emitted, prebuf, calls, queue, db, refused, due, redone>>
  BY PhaseOfWriter DEF FlushFails, sinkHistory
<1>3. batch' \in Seq(Records) /\ Len(batch') = 0 /\ Elems(batch') = {} /\ Incr(batch')
  BY <1>2, EmptyBuffer
<1>4. failures' > 0 /\ failures' # 0 /\ failures' \in 0..MaxFailures
  BY <1>1 DEF FlushFails, FailsOnce
<1>5. SinkTypeOK'
  BY <1>1, <1>2, <1>3, <1>4 DEF SinkTypeOK, Stages, Phases, Writers
<1>6. Stages'
  BY <1>1, <1>2, <1>3, <1>4 DEF Stages
<1>7. Sorted'
  BY <1>1, <1>2, <1>3, <1>4 DEF Sorted, Stages
<1>8. Past'
  BY <1>1, <1>2, <1>3, <1>4 DEF Past, Upto
<1>9. Apart'
  BY <1>1, <1>2, <1>3, <1>4 DEF Apart, Past, Before, Upto, Written, Stages
<1>10. Rising(db, redone)'
  BY <1>1, <1>2, <1>3, <1>4 DEF Rising
<1>11. Accounted'
  BY <1>1, <1>2, <1>3, <1>4 DEF Accounted, Apart, Stages
<1>12. OnlyLate'
  BY <1>1, <1>2, <1>3, <1>4 DEF OnlyLate, Stages, Past, Upto
<1> QED BY <1>5, <1>6, <1>7, <1>8, <1>9, <1>10, <1>11, <1>12

(* The writer goes on with the next batch.                                 *)
LEMMA WriterClearStep ==
    ASSUME SinkIInv, WriterClear
    PROVE  SinkIInv'
<1> USE DEF SinkIInv, BuffersTyped, IsBuffer
<1>1. BuffersTyped
  BY Buffers
<1>2. /\ writer = "committed" /\ phase = "up" /\ batch' = <<>> /\ writer' = "get"
      /\ UNCHANGED <<phase, emitted, prebuf, calls, queue, db, refused, due, redone, failures>>
  BY PhaseOfWriter DEF WriterClear, sinkHistory
<1>3. batch' \in Seq(Records) /\ Len(batch') = 0 /\ Elems(batch') = {} /\ Incr(batch')
  BY <1>2, EmptyBuffer
<1>4. SinkTypeOK'
  BY <1>1, <1>2, <1>3 DEF SinkTypeOK, Stages, Phases, Writers
<1>5. Stages'
  BY <1>1, <1>2, <1>3 DEF Stages
<1>6. Sorted'
  BY <1>1, <1>2, <1>3 DEF Sorted, Stages
<1>7. Past'
  BY <1>1, <1>2, <1>3 DEF Past, Upto
<1>8. Apart'
  BY <1>1, <1>2, <1>3 DEF Apart, Past, Before, Upto, Written, Stages
<1>9. Rising(db, redone)'
  BY <1>1, <1>2, <1>3 DEF Rising
<1>10. Accounted'
  BY <1>1, <1>2, <1>3 DEF Accounted, Apart, Stages
<1>11. OnlyLate'
  BY <1>1, <1>2, <1>3 DEF OnlyLate, Stages, Past, Upto
<1> QED BY <1>4, <1>5, <1>6, <1>7, <1>8, <1>9, <1>10, <1>11

(* The writer is cancelled: a batch that is committed is still flushed     *)
(* again.                                                                  *)
LEMMA StopStep ==
    ASSUME SinkIInv, Stop
    PROVE  SinkIInv'
<1> USE DEF SinkIInv, BuffersTyped, IsBuffer
<1>1. BuffersTyped
  BY Buffers
<1>2. /\ phase = "up" /\ phase' = "stopping" /\ due' = emitted
      /\ UNCHANGED <<emitted, prebuf, calls, queue, batch, db, refused, failures>>
  BY DEF Stop
<1>3. \/ writer = "get" /\ writer' = "gone" /\ redone' = redone
      \/ writer = "flush" /\ writer' = "again" /\ redone' = redone
      \/ writer = "committed" /\ writer' = "again" /\ redone' = Len(db)
      \/ writer = "dead" /\ writer' = "dead" /\ redone' = redone
  BY <1>2 DEF Stop, Stages
<1>4. redone = 0
  BY <1>2 DEF Stages
<1>5. SinkTypeOK'
  BY <1>1, <1>2, <1>3, <1>4 DEF SinkTypeOK, Stages, Phases, Writers
<1>6. Stages'
  BY <1>1, <1>2, <1>3, <1>4 DEF Stages
<1>7. Sorted'
  BY <1>1, <1>2, <1>3, <1>4 DEF Sorted, Stages
<1>8. Past'
  BY <1>1, <1>2, <1>3, <1>4 DEF Past, Upto
<1>9. Apart'
  BY <1>1, <1>2, <1>3, <1>4 DEF Apart, Past, Before, Upto, Written, Stages
<1>10. Rising(db, redone)'
  BY <1>1, <1>2, <1>3, <1>4 DEF Rising
<1>11. Accounted'
  BY <1>1, <1>2, <1>3, <1>4 DEF Accounted, Apart, Stages
<1>12. OnlyLate'
  BY <1>1, <1>2, <1>3, <1>4 DEF OnlyLate, Stages, Past, Upto
<1> QED BY <1>5, <1>6, <1>7, <1>8, <1>9, <1>10, <1>11, <1>12

(* The cancelled writer writes its batch.                                  *)
LEMMA CancelledFlushStep ==
    ASSUME SinkIInv, CancelledFlush
    PROVE  SinkIInv'
<1> USE DEF SinkIInv, BuffersTyped, IsBuffer
<1>1. BuffersTyped
  BY Buffers
<1>2. /\ writer = "again" /\ phase = "stopping" /\ db' = db \o batch /\ batch' = <<>> /\ writer' = "gone"
      /\ UNCHANGED <<phase, emitted, prebuf, calls, queue, refused, due, redone, failures>>
  BY PhaseOfWriter DEF CancelledFlush, sinkHistory
<1>3. batch' \in Seq(Records) /\ Len(batch') = 0 /\ Elems(batch') = {} /\ Incr(batch')
  BY <1>2, EmptyBuffer
<1>4. /\ Elems(db') = Elems(db) \cup Elems(batch) /\ db' \in Seq(Records)
      /\ Len(db') = Len(db) + Len(batch) /\ Len(db') \in Nat
  BY <1>1, <1>2, ConcatElems
<1>5. SinkTypeOK'
  BY <1>1, <1>2, <1>3, <1>4 DEF SinkTypeOK, Stages, Phases, Writers
<1>6. Stages'
  BY <1>1, <1>2, <1>3, <1>4 DEF Stages
<1>7. Sorted'
  BY <1>1, <1>2, <1>3, <1>4 DEF Sorted, Stages
<1>8. Past'
  BY <1>1, <1>2, <1>3, <1>4 DEF Past, Upto
<1>9. Apart'
  BY <1>1, <1>2, <1>3, <1>4 DEF Apart, Past, Before, Upto, Written, Stages
<1>10. Rising(db, redone)'
  <2>1. Before(db, batch) \/ redone = Len(db)
    BY <1>1, <1>2 DEF Apart, Written, Stages
  <2> QED BY <1>1, <1>2, <2>1, ConcatRising DEF Sorted
<1>11. Accounted'
  BY <1>1, <1>2, <1>3, <1>4 DEF Accounted, Apart, Stages
<1>12. OnlyLate'
  BY <1>1, <1>2, <1>3, <1>4 DEF OnlyLate, Stages, Past, Upto
<1> QED BY <1>5, <1>6, <1>7, <1>8, <1>9, <1>10, <1>11, <1>12

(* It fails to, and stop_writer with it.                                   *)
LEMMA CancelledFlushFailsStep ==
    ASSUME SinkIInv, CancelledFlushFails
    PROVE  SinkIInv'
<1> USE DEF SinkIInv, BuffersTyped, IsBuffer
<1>1. BuffersTyped
  BY Buffers
<1>2. /\ writer = "again" /\ phase = "stopping" /\ phase' = "aborted" /\ batch' = <<>> /\ writer' = "dead"
      /\ UNCHANGED <<emitted, prebuf, calls, queue, db, refused, due, redone>>
  BY PhaseOfWriter DEF CancelledFlushFails, sinkHistory
<1>3. batch' \in Seq(Records) /\ Len(batch') = 0 /\ Elems(batch') = {} /\ Incr(batch')
  BY <1>2, EmptyBuffer
<1>4. failures' > 0 /\ failures' # 0 /\ failures' \in 0..MaxFailures
  BY <1>1 DEF CancelledFlushFails, FailsOnce
<1>5. SinkTypeOK'
  BY <1>1, <1>2, <1>3, <1>4 DEF SinkTypeOK, Stages, Phases, Writers
<1>6. Stages'
  BY <1>1, <1>2, <1>3, <1>4 DEF Stages
<1>7. Sorted'
  BY <1>1, <1>2, <1>3, <1>4 DEF Sorted, Stages
<1>8. Past'
  BY <1>1, <1>2, <1>3, <1>4 DEF Past, Upto
<1>9. Apart'
  BY <1>1, <1>2, <1>3, <1>4 DEF Apart, Past, Before, Upto, Written, Stages
<1>10. Rising(db, redone)'
  BY <1>1, <1>2, <1>3, <1>4 DEF Rising
<1>11. Accounted'
  BY <1>1, <1>2, <1>3, <1>4 DEF Accounted, Apart, Stages
<1>12. OnlyLate'
  BY <1>1, <1>2, <1>3, <1>4 DEF OnlyLate, Stages, Past, Upto
<1> QED BY <1>5, <1>6, <1>7, <1>8, <1>9, <1>10, <1>11, <1>12

(* The rest of the queue becomes a last batch.                             *)
LEMMA DrainStep ==
    ASSUME SinkIInv, Drain
    PROVE  SinkIInv'
<1> USE DEF SinkIInv, BuffersTyped, IsBuffer
<1>1. BuffersTyped
  BY Buffers
<1>2. /\ phase = "stopping" /\ writer \in {"gone", "dead"} /\ batch' = queue /\ queue' = <<>>
      /\ phase' = (IF queue = <<>> THEN "down" ELSE "rest") /\ prebuf = <<>>
      /\ UNCHANGED <<emitted, prebuf, calls, writer, db, refused, due, redone, failures>>
  BY DEF Drain, sinkHistory, Stages
<1>3. batch = <<>> /\ Elems(batch) = {} /\ Elems(prebuf) = {} /\ Elems(<<>>) = {} /\ Incr(<<>>)
  BY <1>2, EmptyBuffer DEF SinkTypeOK
<1>4. failures = 0 => \A e \in Elems(calls) : e > due
  BY <1>2 DEF Drain, Stages
<1>5. SinkTypeOK'
  BY <1>1, <1>2, <1>3, <1>4 DEF SinkTypeOK, Stages, Phases, Writers
<1>6. Stages'
  BY <1>1, <1>2, <1>3, <1>4 DEF Stages
<1>7. Sorted'
  BY <1>1, <1>2, <1>3, <1>4 DEF Sorted, Stages
<1>8. Past'
  BY <1>1, <1>2, <1>3, <1>4 DEF Past, Upto
<1>9. Apart'
  BY <1>1, <1>2, <1>3, <1>4 DEF Apart, Past, Before, Upto, Written, Stages
<1>10. Rising(db, redone)'
  BY <1>1, <1>2, <1>3, <1>4 DEF Rising
<1>11. Accounted'
  BY <1>1, <1>2, <1>3, <1>4 DEF Accounted, Apart, Stages
<1>12. OnlyLate'
  BY <1>1, <1>2, <1>3, <1>4 DEF OnlyLate, Stages, Past, Upto
<1> QED BY <1>5, <1>6, <1>7, <1>8, <1>9, <1>10, <1>11, <1>12

(* The last batch is written.                                              *)
LEMMA RestCommitStep ==
    ASSUME SinkIInv, RestCommit
    PROVE  SinkIInv'
<1> USE DEF SinkIInv, BuffersTyped, IsBuffer
<1>1. BuffersTyped
  BY Buffers
<1>2. /\ phase = "rest" /\ writer \in {"gone", "dead"} /\ db' = db \o batch /\ batch' = <<>> /\ phase' = "down"
      /\ UNCHANGED <<emitted, prebuf, calls, queue, writer, refused, due, redone, failures>>
  BY DEF RestCommit, sinkHistory, Stages
<1>3. batch' \in Seq(Records) /\ Len(batch') = 0 /\ Elems(batch') = {} /\ Incr(batch')
  BY <1>2, EmptyBuffer
<1>4. /\ Elems(db') = Elems(db) \cup Elems(batch) /\ db' \in Seq(Records)
      /\ Len(db') = Len(db) + Len(batch) /\ Len(db') \in Nat
  BY <1>1, <1>2, ConcatElems
<1>5. SinkTypeOK'
  BY <1>1, <1>2, <1>3, <1>4 DEF SinkTypeOK, Stages, Phases, Writers
<1>6. Stages'
  BY <1>1, <1>2, <1>3, <1>4 DEF Stages
<1>7. Sorted'
  BY <1>1, <1>2, <1>3, <1>4 DEF Sorted, Stages
<1>8. Past'
  BY <1>1, <1>2, <1>3, <1>4 DEF Past, Upto
<1>9. Apart'
  BY <1>1, <1>2, <1>3, <1>4 DEF Apart, Past, Before, Upto, Written, Stages
<1>10. Rising(db, redone)'
  <2>1. Before(db, batch) \/ redone = Len(db)
    BY <1>1, <1>2 DEF Apart, Written, Stages
  <2> QED BY <1>1, <1>2, <2>1, ConcatRising DEF Sorted
<1>11. Accounted'
  BY <1>1, <1>2, <1>3, <1>4 DEF Accounted, Apart, Stages
<1>12. OnlyLate'
  BY <1>1, <1>2, <1>3, <1>4 DEF OnlyLate, Stages, Past, Upto
<1> QED BY <1>5, <1>6, <1>7, <1>8, <1>9, <1>10, <1>11, <1>12

(* It is not.                                                              *)
LEMMA RestFailsStep ==
    ASSUME SinkIInv, RestFails
    PROVE  SinkIInv'
<1> USE DEF SinkIInv, BuffersTyped, IsBuffer
<1>1. BuffersTyped
  BY Buffers
<1>2. /\ phase = "rest" /\ writer \in {"gone", "dead"} /\ batch' = <<>> /\ phase' = "aborted"
      /\ UNCHANGED <<emitted, prebuf, calls, queue, writer, db, refused, due, redone>>
  BY DEF RestFails, sinkHistory, Stages
<1>3. batch' \in Seq(Records) /\ Len(batch') = 0 /\ Elems(batch') = {} /\ Incr(batch')
  BY <1>2, EmptyBuffer
<1>4. failures' > 0 /\ failures' # 0 /\ failures' \in 0..MaxFailures
  BY <1>1 DEF RestFails, FailsOnce
<1>5. SinkTypeOK'
  BY <1>1, <1>2, <1>3, <1>4 DEF SinkTypeOK, Stages, Phases, Writers
<1>6. Stages'
  BY <1>1, <1>2, <1>3, <1>4 DEF Stages
<1>7. Sorted'
  BY <1>1, <1>2, <1>3, <1>4 DEF Sorted, Stages
<1>8. Past'
  BY <1>1, <1>2, <1>3, <1>4 DEF Past, Upto
<1>9. Apart'
  BY <1>1, <1>2, <1>3, <1>4 DEF Apart, Past, Before, Upto, Written, Stages
<1>10. Rising(db, redone)'
  BY <1>1, <1>2, <1>3, <1>4 DEF Rising
<1>11. Accounted'
  BY <1>1, <1>2, <1>3, <1>4 DEF Accounted, Apart, Stages
<1>12. OnlyLate'
  BY <1>1, <1>2, <1>3, <1>4 DEF OnlyLate, Stages, Past, Upto
<1> QED BY <1>5, <1>6, <1>7, <1>8, <1>9, <1>10, <1>11, <1>12

(* The invariant is inductive.                                             *)
LEMMA SinkIInvStep == SinkIInv /\ [SinkNext]_sinkVars => SinkIInv'
<1> SUFFICES ASSUME SinkIInv, [SinkNext]_sinkVars PROVE SinkIInv'
  OBVIOUS
<1>1. ASSUME Put PROVE SinkIInv'
  <2>1. Len(queue) \in Nat
    BY Buffers DEF SinkIInv, BuffersTyped, IsBuffer
  <2> QED BY <1>1, <2>1, PutQueuedStep, PutRefusedStep
<1>2. ASSUME UNCHANGED sinkVars PROVE SinkIInv'
  BY <1>2 DEF sinkVars, SinkIInv, SinkTypeOK, Stages, Sorted, Past, Apart, Written, Accounted,
     OnlyLate
<1> QED
  BY <1>1, <1>2, EmitBufferedStep, EmitScheduledStep, StartWriterStep, StopStep, WriterTakeStep,
     FlushCommitStep, WriterClearStep, CancelledFlushStep, DrainStep, RestCommitStep,
     FlushFailsStep, CancelledFlushFailsStep, RestFailsStep
  DEF SinkNext, WriterProgress, StopProgress

(* The invariant holds in every reachable state.                           *)
THEOREM SinkIInvHolds == SinkSpec => []SinkIInv
BY SinkInitIInv, SinkIInvStep, PTL DEF SinkSpec

(* The order of emission survives the pre-buffer, the callbacks, the queue *)
(* and the batches; only a batch stop_writer has flushed again repeats     *)
(* rows.                                                                   *)
THEOREM InOrderOnceHolds == SinkSpec => []InOrderOnce
<1>1. SinkIInv => InOrderOnce
  BY DEF SinkIInv, InOrderOnce, Rising
<1> QED BY <1>1, SinkIInvHolds, PTL

(* No record falls between two buffers while no transaction fails.         *)
THEOREM AccountedHolds == SinkSpec => []Accounted
<1>1. SinkIInv => Accounted
  BY DEF SinkIInv
<1> QED BY <1>1, SinkIInvHolds, PTL

(* stop_writer leaves nothing behind that was logged before it was called. *)
THEOREM StopWritesAllHolds == SinkSpec => []StopWritesAll
<1>1. SinkIInv => StopWritesAll
  <2> SUFFICES ASSUME SinkIInv, phase = "down", failures = 0, NEW e \in 1..due
               PROVE  e \in Elems(db) \cup refused
    BY DEF StopWritesAll
  <2>1. due \in Nat /\ emitted \in Nat
    BY DEF SinkIInv, SinkTypeOK
  <2>2. e \in 1..emitted /\ ~(e > due)
    BY <2>1 DEF SinkIInv, Stages
  <2>3. batch = <<>>
    BY DEF SinkIInv, SinkTypeOK, Stages
  <2>4. e \in Elems(prebuf) \cup Elems(calls) \cup Elems(queue)
                    \cup Elems(batch) \cup Elems(db) \cup refused
    BY <2>2 DEF SinkIInv, Accounted
  <2>5. e \notin Elems(prebuf) \cup Elems(calls) \cup Elems(queue)
    BY <2>2 DEF SinkIInv, OnlyLate
  <2> QED BY <2>3, <2>4, <2>5, EmptyBuffer
<1> QED BY <1>1, SinkIInvHolds, PTL

-----------------------------------------------------------------------------
(* The sink as one row of waiting records.                                 *)

Rows == Seq(Nat)

(* Two rows as one, and this row under the operations of the sink: a       *)
(* record appended to its second part, the head of that part moved to the  *)
(* first one, and the first part taken.                                    *)
Join(s, t)  == s \o t
Added(s, e) == Append(s, e)

LEMMA JoinIs ==
    ASSUME NEW s \in Rows, NEW t \in Rows
    PROVE  /\ Join(s, t) \in Rows /\ Len(Join(s, t)) = Len(s) + Len(t)
           /\ Len(s) \in Nat /\ Len(t) \in Nat
BY ConcatProperties DEF Join, Rows

LEMMA JoinItem ==
    ASSUME NEW s \in Rows, NEW t \in Rows, NEW i \in 1..Len(Join(s, t))
    PROVE  Join(s, t)[i] = IF i <= Len(s) THEN s[i] ELSE t[i - Len(s)]
BY ConcatProperties DEF Join, Rows

LEMMA JoinEmpty ==
    ASSUME NEW s \in Rows
    PROVE  <<>> \in Rows /\ Join(<<>>, s) = s /\ Join(s, <<>>) = s
<1>1. s \in Seq(Nat)
  BY DEF Rows
<1>2. <<>> \o s = s /\ s \o <<>> = s
  BY <1>1, ConcatEmptySeq, Zenon
<1> QED  BY <1>2 DEF Join, Rows

LEMMA JoinGroups ==
    ASSUME NEW s \in Rows, NEW t \in Rows, NEW u \in Rows
    PROVE  Join(Join(s, t), u) = Join(s, Join(t, u))
<1>1. s \in Seq(Nat) /\ t \in Seq(Nat) /\ u \in Seq(Nat)
  BY DEF Rows
<1>2. (s \o t) \o u = s \o (t \o u)
  BY <1>1, ConcatAssociative, SMTT(30)
<1> QED  BY <1>2, Zenon DEF Join

LEMMA JoinGrows ==
    ASSUME NEW s \in Rows, NEW t \in Rows, NEW e \in Nat
    PROVE  Added(t, e) \in Rows /\ Join(s, Added(t, e)) = Added(Join(s, t), e)
<1>1. <<e>> \in Rows /\ Join(s, t) \in Rows /\ Added(t, e) \in Rows
  BY JoinIs DEF Rows, Added
<1>2. t \in Seq(Nat) /\ Join(s, t) \in Seq(Nat)
  BY <1>1 DEF Rows
<1>3. Append(t, e) = t \o <<e>> /\ Append(Join(s, t), e) = Join(s, t) \o <<e>>
  BY <1>2, AppendIsConcat, Zenon
<1>4. Added(t, e) = Join(t, <<e>>) /\ Added(Join(s, t), e) = Join(Join(s, t), <<e>>)
  BY <1>3, Zenon DEF Join, Added
<1> QED  BY <1>1, <1>4, JoinGroups

LEMMA HeadFirst ==
    ASSUME NEW c \in Rows, c # <<>>
    PROVE  /\ Head(c) \in Nat /\ Tail(c) \in Rows /\ <<Head(c)>> \in Rows
           /\ c = Join(<<Head(c)>>, Tail(c))
<1>1. Len(c) \in Nat /\ 1 \in 1..Len(c) /\ Len(c) \in 1..Len(c)
  BY EmptySeq DEF Rows
<1>2. SubSeq(c, 1, Len(c)) = <<c[1]>> \o SubSeq(c, 2, Len(c))
  BY <1>1, SubSeqRecursiveFirst DEF Rows
<1>3. Tail(c) = SubSeq(c, 2, Len(c)) /\ SubSeq(c, 1, Len(c)) = c /\ Head(c) = c[1]
  BY <1>1, TailIsSubSeq, SubSeqFull DEF Rows
<1> QED  BY <1>2, <1>3, HeadTailProperties DEF Join, Rows

LEMMA JoinMoves ==
    ASSUME NEW s \in Rows, NEW c \in Rows, c # <<>>
    PROVE  Join(Added(s, Head(c)), Tail(c)) = Join(s, c)
<1>1. /\ Head(c) \in Nat /\ Tail(c) \in Rows /\ <<Head(c)>> \in Rows
      /\ c = Join(<<Head(c)>>, Tail(c))
  BY HeadFirst
<1>2. Added(s, Head(c)) = Join(s, <<Head(c)>>)
  <2>1. s \in Seq(Nat) /\ Head(c) \in Nat
    BY <1>1 DEF Rows
  <2>2. Append(s, Head(c)) = s \o <<Head(c)>>
    BY <2>1, AppendIsConcat, Zenon
  <2> QED  BY <2>2, Zenon DEF Join, Added
<1>3. Join(Join(s, <<Head(c)>>), Tail(c)) = Join(s, Join(<<Head(c)>>, Tail(c)))
  BY <1>1, JoinGroups
<1> QED  BY <1>1, <1>2, <1>3

LEMMA Items ==
    ASSUME NEW s \in Rows, NEW n \in 0..Len(s)
    PROVE  LET a == SubSeq(s, 1, n)
               b == SubSeq(s, n + 1, Len(s))
           IN /\ a \in Rows /\ Len(a) = n /\ \A i \in 1..n : a[i] = s[i]
              /\ b \in Rows /\ Len(b) = Len(s) - n
              /\ \A i \in 1..(Len(s) - n) : b[i] = s[n + i]
<1> DEFINE a == SubSeq(s, 1, n)
           b == SubSeq(s, n + 1, Len(s))
<1>1. /\ Len(s) \in Nat /\ n \in Nat /\ n <= Len(s)
      /\ \A i \in 1..Len(s) : s[i] \in Nat
  BY DEF Rows
<1>2. a \in Rows /\ Len(a) = n /\ \A i \in 1..n : a[i] = s[i]
  BY <1>1 DEF Rows
<1>3. b \in Rows /\ Len(b) = Len(s) - n /\ \A i \in 1..(Len(s) - n) : b[i] = s[n + i]
  BY <1>1 DEF Rows
<1> QED  BY <1>2, <1>3

LEMMA JoinSplits ==
    ASSUME NEW q \in Rows, NEW n \in 0..Len(q)
    PROVE  /\ SubSeq(q, 1, n) \in Rows /\ SubSeq(q, n + 1, Len(q)) \in Rows
           /\ Join(SubSeq(q, 1, n), SubSeq(q, n + 1, Len(q))) = q
<1>1. /\ Len(q) \in Nat /\ 1 \in 1..Len(q) + 1 /\ n \in 1 - 1..Len(q)
      /\ Len(q) \in n..Len(q)
  BY DEF Rows
<1>2. SubSeq(q, 1, n) \o SubSeq(q, n + 1, Len(q)) = SubSeq(q, 1, Len(q))
  BY <1>1, ConcatAdjacentSubSeq DEF Rows
<1> QED  BY <1>2, SubSeqFull, Items DEF Join, Rows

LEMMA JoinTaken ==
    ASSUME NEW s \in Rows, NEW t \in Rows
    PROVE  /\ Pipe!First(Join(s, t), Len(s)) = s /\ Pipe!Behind(Join(s, t), Len(s)) = t
           /\ Len(s) \in 0..Len(Join(s, t))
<1> DEFINE u == Join(s, t)
<1>1. /\ u \in Rows /\ Len(u) = Len(s) + Len(t) /\ Len(s) \in Nat /\ Len(t) \in Nat
      /\ \A i \in 1..Len(u) : u[i] = IF i <= Len(s) THEN s[i] ELSE t[i - Len(s)]
  BY JoinIs, JoinItem
<1> HIDE DEF u
<1>0. Len(s) \in 0..Len(u) /\ Len(u) - Len(s) = Len(t)
  BY <1>1
<1>2. SubSeq(u, 1, Len(s)) = s
  <2> DEFINE a == SubSeq(u, 1, Len(s))
  <2>1. /\ a \in Rows /\ Len(a) = Len(s) /\ \A i \in 1..Len(s) : a[i] = u[i]
    BY <1>0, <1>1, Items
  <2>2. \A i \in 1..Len(a) : a[i] = s[i]
    BY <1>1, <2>1
  <2> HIDE DEF a
  <2>3. a = s
    BY <2>1, <2>2, SeqEqual DEF Rows
  <2> QED  BY <2>3 DEF a
<1>3. SubSeq(u, Len(s) + 1, Len(u)) = t
  <2> DEFINE a == SubSeq(u, Len(s) + 1, Len(u))
  <2>0. /\ a \in Rows /\ Len(a) = Len(u) - Len(s)
        /\ \A i \in 1..(Len(u) - Len(s)) : a[i] = u[Len(s) + i]
    BY <1>0, <1>1, Items
  <2> HIDE DEF a
  <2>1. /\ a \in Rows /\ Len(a) = Len(t) /\ \A i \in 1..Len(t) : a[i] = u[Len(s) + i]
    BY <1>0, <2>0
  <2>2. ASSUME NEW i \in 1..Len(a)  PROVE a[i] = t[i]
    <3>1. /\ i \in 1..Len(t) /\ Len(s) + i \in 1..Len(u)
          /\ ~(Len(s) + i <= Len(s)) /\ (Len(s) + i) - Len(s) = i
      <4>1. i \in 1..Len(t) /\ Len(s) \in Nat /\ Len(t) \in Nat /\ Len(u) = Len(s) + Len(t)
        BY <1>1, <2>1
      <4> QED  BY <4>1
    <3>2. a[i] = u[Len(s) + i]
      BY <2>1, <3>1
    <3> HIDE DEF a
    <3> QED  BY <1>1, <3>1, <3>2
  <2> HIDE DEF a
  <2>3. a = t
    BY <2>1, <2>2, SeqEqual DEF Rows
  <2> QED  BY <2>3 DEF a
<1> QED  BY <1>0, <1>2, <1>3 DEF u, Pipe!First, Pipe!Behind

(* The row of four parts: the batch, the queue, the callbacks and the      *)
(* pre-buffer.                                                             *)
Line(w, q, c, p) == Join(Join(Join(w, q), c), p)

LEMMA LineIs ==
    ASSUME NEW w \in Rows, NEW q \in Rows, NEW c \in Rows, NEW p \in Rows
    PROVE  /\ Line(w, q, c, p) \in Rows
           /\ Len(Line(w, q, c, p)) = Len(w) + Len(q) + Len(c) + Len(p)
           /\ Len(w) \in Nat /\ Len(q) \in Nat /\ Len(c) \in Nat /\ Len(p) \in Nat
<1>1. /\ Join(w, q) \in Rows /\ Len(Join(w, q)) = Len(w) + Len(q)
      /\ Len(w) \in Nat /\ Len(q) \in Nat
  BY JoinIs
<1>2. /\ Join(Join(w, q), c) \in Rows /\ Len(Join(Join(w, q), c)) = Len(w) + Len(q) + Len(c)
      /\ Len(c) \in Nat
  <2>1. /\ Join(Join(w, q), c) \in Rows /\ Len(c) \in Nat
        /\ Len(Join(Join(w, q), c)) = Len(Join(w, q)) + Len(c)
    BY <1>1, JoinIs
  <2> QED  BY <1>1, <2>1
<1>3. /\ Line(w, q, c, p) \in Rows /\ Len(p) \in Nat
      /\ Len(Line(w, q, c, p)) = Len(Join(Join(w, q), c)) + Len(p)
  BY <1>2, JoinIs DEF Line
<1> QED  BY <1>1, <1>2, <1>3

(* A record is told: to the pre-buffer, or to the callbacks when nothing   *)
(* is in the pre-buffer.                                                   *)
LEMMA LineGrows ==
    ASSUME NEW w \in Rows, NEW q \in Rows, NEW c \in Rows, NEW p \in Rows,
           NEW e \in Nat
    PROVE  /\ Line(w, q, c, Added(p, e)) = Added(Line(w, q, c, p), e)
           /\ Line(w, q, Added(c, e), <<>>) = Added(Line(w, q, c, <<>>), e)
<1>1. Join(w, q) \in Rows /\ Join(Join(w, q), c) \in Rows
  BY JoinIs
<1>2. Line(w, q, c, Added(p, e)) = Added(Line(w, q, c, p), e)
  BY <1>1, JoinGrows DEF Line
<1>3. Join(Join(w, q), Added(c, e)) = Added(Join(Join(w, q), c), e)
  BY <1>1, JoinGrows
<1>4. Added(c, e) \in Rows /\ Join(Join(w, q), Added(c, e)) \in Rows
  BY <1>1, JoinGrows, JoinIs
<1> QED  BY <1>1, <1>2, <1>3, <1>4, JoinEmpty DEF Line

(* A callback puts its record into the queue.                              *)
LEMMA LineMoves ==
    ASSUME NEW w \in Rows, NEW q \in Rows, NEW c \in Rows, NEW p \in Rows,
           c # <<>>
    PROVE  Line(w, Added(q, Head(c)), Tail(c), p) = Line(w, q, c, p)
<1>1. Join(w, q) \in Rows /\ Head(c) \in Nat
  BY JoinIs, HeadFirst
<1>2. Join(w, Added(q, Head(c))) = Added(Join(w, q), Head(c))
  BY <1>1, JoinGrows
<1>3. Join(Added(Join(w, q), Head(c)), Tail(c)) = Join(Join(w, q), c)
  BY <1>1, JoinMoves
<1> QED  BY <1>2, <1>3 DEF Line

(* The batch leaves the row.                                               *)
LEMMA LineTaken ==
    ASSUME NEW w \in Rows, NEW q \in Rows, NEW c \in Rows, NEW p \in Rows
    PROVE  /\ Pipe!First(Line(w, q, c, p), Len(w)) = w
           /\ Pipe!Behind(Line(w, q, c, p), Len(w)) = Line(<<>>, q, c, p)
           /\ Len(w) \in 0..Len(Line(w, q, c, p))
<1>1. Join(q, c) \in Rows /\ Join(Join(q, c), p) \in Rows /\ Join(w, q) \in Rows
  BY JoinIs
<1>2. Join(Join(w, q), c) = Join(w, Join(q, c))
  BY JoinGroups
<1>3. Join(Join(w, Join(q, c)), p) = Join(w, Join(Join(q, c), p))
  BY <1>1, JoinGroups
<1>4. Line(w, q, c, p) = Join(w, Join(Join(q, c), p))
  BY <1>2, <1>3 DEF Line
<1>5. Line(<<>>, q, c, p) = Join(Join(q, c), p)
  BY JoinEmpty DEF Line
<1> QED  BY <1>1, <1>4, <1>5, JoinTaken

(* The writer takes the first records of the queue.                        *)
LEMMA LineSplits ==
    ASSUME NEW q \in Rows, NEW c \in Rows, NEW p \in Rows, NEW n \in 0..Len(q)
    PROVE  Line(SubSeq(q, 1, n), SubSeq(q, n + 1, Len(q)), c, p) = Line(<<>>, q, c, p)
<1>1. Join(SubSeq(q, 1, n), SubSeq(q, n + 1, Len(q))) = q
  BY JoinSplits
<1> QED  BY <1>1, JoinEmpty DEF Line

(* The whole queue becomes the batch, and the pre-buffer the queue.        *)
LEMMA LineRenamed ==
    ASSUME NEW q \in Rows, NEW c \in Rows, NEW p \in Rows
    PROVE  /\ Line(<<>>, q, c, p) = Line(q, <<>>, c, p)
           /\ Line(<<>>, <<>>, <<>>, p) = Line(<<>>, p, <<>>, <<>>)
<1>1. /\ <<>> \in Rows /\ Join(<<>>, q) = q /\ Join(q, <<>>) = q
      /\ Join(<<>>, p) = p /\ Join(p, <<>>) = p
  BY JoinEmpty
<1>2. Join(<<>>, <<>>) = <<>>
  BY <1>1, JoinEmpty
<1> QED  BY <1>1, <1>2 DEF Line

-----------------------------------------------------------------------------
(* The sink implements LogPipe.                                            *)

(* What the refinement needs beyond SinkIInv: a writer that flushes has a  *)
(* batch; a batch whose transaction is over is the end of the table; and   *)
(* once the writer is over, it has been written a second time or there is  *)
(* none.                                                                   *)
PipeInv ==
    /\ writer \in {"flush", "committed", "again"} \/ phase = "rest" => batch # <<>>
    /\ InTable => /\ Len(batch) \in 0..Len(db)
                  /\ Pipe!Behind(db, Len(db) - Len(batch)) = batch
    /\ writer = "again" => redone \in {0, Len(db)}
    /\ writer \in {"gone", "dead"} /\ phase \in {"stopping", "rest"} =>
          redone = 0 \/ redone < Len(db)

Ahead == IF InTable THEN <<>> ELSE batch

(* The row of waiting records, part by part.                               *)
LEMMA RowOf ==
    ASSUME SinkIInv
    PROVE  /\ Ahead \in Rows /\ queue \in Rows /\ calls \in Rows /\ prebuf \in Rows
           /\ batch \in Rows /\ db \in Rows /\ <<>> \in Rows
           /\ Waiting = Line(Ahead, queue, calls, prebuf)
           /\ emitted \in Nat /\ redone \in Nat /\ failures \in Nat
<1>1. /\ queue \in Rows /\ calls \in Rows /\ prebuf \in Rows /\ batch \in Rows /\ db \in Rows
      /\ emitted \in Nat /\ redone \in Nat /\ failures \in Nat
  BY Buffers DEF SinkIInv, BuffersTyped, IsBuffer, Rows
<1>2. Waiting = Line(Ahead, queue, calls, prebuf)
  BY DEF Waiting, Ahead, Line, Join
<1> QED  BY <1>1, <1>2, JoinEmpty DEF Ahead

LEMMA NextRow == Waiting' = Line(Ahead', queue', calls', prebuf')
BY DEF Waiting, Ahead, Line, Join

(* The oldest callback finds the queue full.                               *)
LEMMA RowDrops ==
    ASSUME SinkIInv, calls # <<>>, NEW i, i = Len(Ahead) + Len(queue) + 1
    PROVE  /\ i \in 1..Len(Waiting) /\ Waiting[i] = Head(calls)
           /\ Pipe!Without(Waiting, i) = Line(Ahead, queue, Tail(calls), prebuf)
<1> DEFINE s == Join(Ahead, queue)
           h == <<Head(calls)>>
           a == Join(s, h)
           b == Join(Tail(calls), prebuf)
           row == Waiting
<1>0. /\ Ahead \in Rows /\ queue \in Rows /\ calls \in Rows /\ prebuf \in Rows
      /\ Waiting = Line(Ahead, queue, calls, prebuf)
  BY RowOf
<1>1. s \in Rows /\ Len(s) \in Nat /\ Len(s) = Len(Ahead) + Len(queue)
  BY <1>0, JoinIs
<1>2. /\ Head(calls) \in Nat /\ Tail(calls) \in Rows /\ h \in Rows
      /\ calls = Join(h, Tail(calls)) /\ Len(h) = 1 /\ h[1] = Head(calls)
  BY <1>0, HeadFirst
<1>3. /\ Line(Ahead, queue, calls, prebuf) = Join(Join(s, calls), prebuf)
      /\ Line(Ahead, queue, Tail(calls), prebuf) = Join(Join(s, Tail(calls)), prebuf)
  BY DEF Line
<1> HIDE DEF s, h
<1>4. a \in Rows /\ b \in Rows /\ Len(a) = Len(s) + 1
  <2>1. b \in Rows /\ a \in Rows /\ Len(a) = Len(s) + Len(h)
    BY <1>0, <1>1, <1>2, JoinIs
  <2> QED  BY <1>2, <2>1
<1>5. Join(s, calls) = Join(a, Tail(calls))
  BY <1>1, <1>2, JoinGroups
<1>6. /\ Join(Join(a, Tail(calls)), prebuf) = Join(a, b)
      /\ Join(Join(s, Tail(calls)), prebuf) = Join(s, b)
  BY <1>0, <1>1, <1>2, <1>4, JoinGroups
<1>7. /\ Join(calls, prebuf) \in Rows
      /\ Join(Join(s, calls), prebuf) = Join(s, Join(calls, prebuf))
  BY <1>0, <1>1, JoinGroups, JoinIs
<1>8. a[Len(s) + 1] = Head(calls)
  <2>1. /\ Len(s) + 1 \in 1..Len(a) /\ ~(Len(s) + 1 <= Len(s)) /\ (Len(s) + 1) - Len(s) = 1
    BY <1>1, <1>4
  <2> QED  BY <1>1, <1>2, <2>1, JoinItem
<1> HIDE DEF a, b, row
<1>9. row = Join(a, b) /\ row = Join(s, Join(calls, prebuf)) /\ i = Len(a) /\ i = Len(s) + 1
  BY <1>0, <1>1, <1>3, <1>4, <1>5, <1>6, <1>7 DEF row
<1>10. Pipe!First(row, Len(s)) = s
  BY <1>1, <1>7, <1>9, JoinTaken
<1>11. Pipe!Behind(Join(a, b), Len(a)) = b
  BY <1>4, JoinTaken
<1>12. i \in 1..Len(row) /\ row[i] = a[i]
  <2>0. Len(Join(a, b)) = Len(a) + Len(b) /\ Len(b) \in Nat
    BY <1>4, JoinIs
  <2>1. Len(row) = Len(a) + Len(b) /\ Len(b) \in Nat
    BY <1>9, <2>0
  <2>2. i \in 1..Len(row) /\ i <= Len(a)
    BY <1>1, <1>4, <1>9, <2>1
  <2> QED  BY <1>4, <1>9, <2>2, JoinItem
<1>13. Pipe!Without(row, i) = Join(s, b)
  <2>1. i - 1 = Len(s)
    BY <1>1, <1>9
  <2> QED  BY <1>9, <1>10, <1>11, <2>1 DEF Pipe!Without, Join
<1> QED  BY <1>3, <1>6, <1>8, <1>9, <1>12, <1>13 DEF row

(* The invariant holds at first, and every step keeps it.                  *)
LEMMA PipeInvInit == SinkInit => PipeInv
BY DEF SinkInit, PipeInv, InTable

LEMMA PipeInvStep == SinkIInv /\ PipeInv /\ [SinkNext]_sinkVars => PipeInv'
<1> SUFFICES ASSUME SinkIInv, PipeInv, [SinkNext]_sinkVars PROVE PipeInv'
  OBVIOUS
<1>1. /\ queue \in Rows /\ batch \in Rows /\ db \in Rows /\ redone \in Nat
      /\ Len(db) \in Nat /\ Len(batch) \in Nat /\ redone <= Len(db) /\ Len(queue) \in Nat
      /\ batch # <<>> => Len(batch) > 0
  <2>1. queue \in Rows /\ batch \in Rows /\ db \in Rows /\ redone \in 0..Len(db)
    BY RowOf DEF SinkIInv, SinkTypeOK
  <2> QED  BY <2>1 DEF Rows
<1>2. /\ writer \in {"get", "flush", "committed"} => phase = "up"
      /\ writer = "again" => phase = "stopping"
      /\ phase \in {"boot", "up"} => redone = 0
      /\ phase = "boot" => writer = "none"
      /\ phase = "up" => writer \in {"get", "flush", "committed", "dead"}
      /\ phase = "stopping" => writer \in {"again", "gone", "dead"}
      /\ phase \in {"rest", "down", "aborted"} => writer \in {"gone", "dead"}
  BY PhaseOfWriter DEF SinkIInv, Stages
<1>3. CASE EmitBuffered \/ EmitScheduled \/ Put
  BY <1>3 DEF EmitBuffered, EmitScheduled, Put, sinkHistory, PipeInv, InTable
<1>4. CASE StartWriter \/ WriterClear \/ FlushFails \/ CancelledFlushFails
  BY <1>1, <1>2, <1>4 DEF StartWriter, WriterClear, FlushFails, CancelledFlushFails, PipeInv, InTable
<1>5. CASE WriterTake
  <2>1. batch' = SubSeq(queue, 1, Fewer(Len(queue), BatchMax)) /\ queue # <<>>
    BY <1>5 DEF WriterTake
  <2>2. Fewer(Len(queue), BatchMax) \in 0..Len(queue) /\ Fewer(Len(queue), BatchMax) > 0
    BY <1>1, <2>1, AppLogSinkAssumption DEF Fewer, Rows
  <2>3. Len(batch') = Fewer(Len(queue), BatchMax)
    BY <1>1, <2>1, <2>2, Items
  <2>4. batch' # <<>>
    BY <2>2, <2>3
  <2> QED  BY <1>2, <1>5, <2>4 DEF WriterTake, PipeInv, InTable
<1>6. CASE FlushCommit
  <2>1. Pipe!Behind(Join(db, batch), Len(db)) = batch
    BY <1>1, JoinTaken
  <2>2. Len(Join(db, batch)) = Len(db) + Len(batch)
    BY <1>1, JoinIs
  <2>3. db' = Join(db, batch) /\ batch' = batch /\ writer = "flush" /\ writer' = "committed"
        /\ phase' = phase /\ redone' = redone
    BY <1>6 DEF FlushCommit, sinkHistory, Join
  <2>4. Len(db') - Len(batch) = Len(db) /\ Len(batch) \in 0..Len(db')
    BY <1>1, <2>2, <2>3
  <2> QED  BY <1>2, <2>1, <2>3, <2>4 DEF PipeInv, Pipe!Behind
<1>7. CASE Stop
  <2>1. /\ phase = "up" /\ phase' = "stopping" /\ batch' = batch /\ db' = db
        /\ writer' = CASE writer = "get" -> "gone"
                       [] writer \in {"flush", "committed"} -> "again"
                       [] OTHER -> writer
        /\ redone' = IF writer = "committed" THEN Len(db) ELSE redone
    BY <1>7 DEF Stop
  <2> QED  BY <1>1, <1>2, <2>1 DEF PipeInv, InTable
<1>8. CASE CancelledFlush
  <2>1. Len(Join(db, batch)) = Len(db) + Len(batch)
    BY <1>1, JoinIs
  <2>2. db' = Join(db, batch) /\ writer = "again" /\ writer' = "gone"
        /\ phase' = phase /\ redone' = redone
    BY <1>8 DEF CancelledFlush, sinkHistory, Join
  <2>3. redone' < Len(db')
    BY <1>1, <2>1, <2>2 DEF PipeInv
  <2> QED  BY <1>2, <2>2, <2>3 DEF PipeInv, InTable
<1>9. CASE Drain \/ RestCommit \/ RestFails
  BY <1>1, <1>2, <1>9 DEF Drain, RestCommit, RestFails, sinkHistory, PipeInv, InTable
<1>10. CASE UNCHANGED sinkVars
  BY <1>10 DEF sinkVars, PipeInv, InTable
<1> QED
  BY <1>3, <1>4, <1>5, <1>6, <1>7, <1>8, <1>9, <1>10 DEF SinkNext, WriterProgress, StopProgress

-----------------------------------------------------------------------------
(* What no step of the row moves, seen from the sink.                      *)
LEMMA SameAhead ==
    ASSUME writer' = writer, redone' = redone, batch' = batch
    PROVE  Ahead' = Ahead
BY DEF Ahead, InTable

LEMMA SameRepeated == redone' = redone /\ db' = db => Repeated' = Repeated
BY DEF Repeated

(* A row that loses the record at a place, one way or another.             *)
LEMMA RefusedAt ==
    ASSUME NEW i \in 1..Len(Waiting), i > PreMax,
           UNCHANGED <<db, Repeated, failures>>,
           \/ /\ Waiting' = Pipe!Without(Waiting, i)
              /\ refused' = refused \cup {Waiting[i]} /\ emitted' = emitted
           \/ /\ emitted' = emitted + 1
              /\ Waiting' = Append(Pipe!Without(Waiting, i), emitted')
              /\ refused' = refused \cup {Waiting[i]}
           \/ /\ emitted' = emitted + 1 /\ Waiting' = Pipe!Without(Waiting, i)
              /\ refused' = refused \cup {Waiting[i], emitted'}
    PROVE  Pipe!Next
<1>1. Pipe!RefuseWaiting(i)
  BY DEF Pipe!RefuseWaiting
<1> QED  BY <1>1 DEF Pipe!Next

(* The batch is written, and leaves the row.                               *)
LEMMA BatchWritten ==
    ASSUME SinkIInv, Ahead = batch, batch # <<>>, Ahead' = <<>>,
           db' = db \o batch, Repeated' = Repeated,
           UNCHANGED <<emitted, queue, calls, prebuf, refused, failures>>
    PROVE  Pipe!Next
<1>1. /\ batch \in Rows /\ queue \in Rows /\ calls \in Rows /\ prebuf \in Rows
      /\ Waiting = Line(batch, queue, calls, prebuf)
      /\ Waiting' = Line(<<>>, queue, calls, prebuf)
  BY RowOf, NextRow
<1>2. /\ Pipe!First(Waiting, Len(batch)) = batch
      /\ Pipe!Behind(Waiting, Len(batch)) = Waiting'
      /\ Len(batch) \in 0..Len(Waiting)
  BY <1>1, LineTaken
<1>3. Len(batch) \in 1..Len(Waiting)
  <2>1. Len(batch) # 0
    BY <1>1, EmptySeq DEF Rows
  <2> QED  BY <1>2, <2>1
<1>4. Pipe!Write(Len(batch))
  BY <1>2 DEF Pipe!Write
<1> QED  BY <1>3, <1>4 DEF Pipe!Next

(* The batch is lost with its transaction.                                 *)
LEMMA BatchFails ==
    ASSUME SinkIInv, Ahead' = <<>>, failures' = failures + 1, Repeated' = Repeated,
           UNCHANGED <<emitted, queue, calls, prebuf, db, refused>>
    PROVE  Pipe!Next
<1>1. /\ Ahead \in Rows /\ queue \in Rows /\ calls \in Rows /\ prebuf \in Rows
      /\ Waiting = Line(Ahead, queue, calls, prebuf)
      /\ Waiting' = Line(<<>>, queue, calls, prebuf)
  BY RowOf, NextRow
<1>2. Pipe!Behind(Waiting, Len(Ahead)) = Waiting' /\ Len(Ahead) \in 0..Len(Waiting)
  BY <1>1, LineTaken
<1>3. Pipe!Fail(Len(Ahead))
  BY <1>2 DEF Pipe!Fail
<1> QED  BY <1>2, <1>3 DEF Pipe!Next

(* The row does not notice a step.                                         *)
LEMMA NotNoticed ==
    ASSUME Waiting' = Waiting, Repeated' = Repeated,
           UNCHANGED <<emitted, db, refused, failures>>
    PROVE  UNCHANGED Pipe!vars
BY DEF Pipe!vars

LEMMA PipeEmits ==
    ASSUME SinkIInv, EmitBuffered \/ EmitScheduled
    PROVE  Pipe!Next
<1>1. /\ Ahead \in Rows /\ queue \in Rows /\ calls \in Rows /\ prebuf \in Rows
      /\ Waiting = Line(Ahead, queue, calls, prebuf) /\ emitted + 1 \in Nat
      /\ Len(Waiting) = Len(Ahead) + Len(queue) + Len(calls) + Len(prebuf)
      /\ Len(Ahead) \in Nat /\ Len(queue) \in Nat /\ Len(calls) \in Nat /\ Len(prebuf) \in Nat
  <2>1. /\ Ahead \in Rows /\ queue \in Rows /\ calls \in Rows /\ prebuf \in Rows
        /\ Waiting = Line(Ahead, queue, calls, prebuf) /\ emitted + 1 \in Nat
    BY RowOf
  <2>2. /\ Len(Line(Ahead, queue, calls, prebuf))
              = Len(Ahead) + Len(queue) + Len(calls) + Len(prebuf)
        /\ Len(Ahead) \in Nat /\ Len(queue) \in Nat /\ Len(calls) \in Nat /\ Len(prebuf) \in Nat
    BY <2>1, LineIs
  <2> QED  BY <2>1, <2>2
<1>2. /\ Ahead' = Ahead /\ queue' = queue /\ db' = db /\ failures' = failures
      /\ Repeated' = Repeated /\ emitted' = emitted + 1
  BY SameAhead, SameRepeated DEF EmitBuffered, EmitScheduled, sinkHistory
<1>3. CASE EmitBuffered /\ Len(prebuf) < PreMax
  <2>1. calls' = calls /\ prebuf' = Append(prebuf, emitted + 1) /\ refused' = refused
    BY <1>2, <1>3 DEF EmitBuffered
  <2>2. Waiting' = Append(Waiting, emitted + 1)
    <3>1. Line(Ahead, queue, calls, Added(prebuf, emitted + 1))
            = Added(Line(Ahead, queue, calls, prebuf), emitted + 1)
      BY <1>1, LineGrows
    <3> QED  BY <1>1, <1>2, <2>1, <3>1, NextRow DEF Added
  <2> QED  BY <1>2, <2>1, <2>2 DEF Pipe!Next, Pipe!Tell
<1>4. CASE EmitBuffered /\ ~(Len(prebuf) < PreMax)
  <2>1. calls' = calls /\ prebuf' = prebuf /\ refused' = refused \cup {emitted'}
    BY <1>4 DEF EmitBuffered
  <2>2. Waiting' = Waiting
    BY <1>1, <1>2, <2>1, NextRow
  <2>3. Len(Waiting) >= PreMax
    BY <1>1, <1>4, AppLogSinkAssumption
  <2> QED  BY <1>2, <2>1, <2>2, <2>3 DEF Pipe!Next, Pipe!RefuseTold
<1>5. CASE EmitScheduled
  <2>1. /\ calls' = Append(calls, emitted + 1) /\ prebuf' = prebuf /\ prebuf = <<>>
        /\ refused' = refused
    BY <1>2, <1>5 DEF EmitScheduled, sinkHistory, SinkIInv, Stages
  <2>2. Waiting' = Append(Waiting, emitted + 1)
    <3>1. Line(Ahead, queue, Added(calls, emitted + 1), <<>>)
            = Added(Line(Ahead, queue, calls, <<>>), emitted + 1)
      BY <1>1, LineGrows
    <3> QED  BY <1>1, <1>2, <2>1, <3>1, NextRow DEF Added
  <2> QED  BY <1>2, <2>1, <2>2 DEF Pipe!Next, Pipe!Tell
<1> QED  BY <1>3, <1>4, <1>5

LEMMA PipePuts ==
    ASSUME SinkIInv, Put
    PROVE  [Pipe!Next]_(Pipe!vars)
<1>1. /\ Ahead \in Rows /\ queue \in Rows /\ calls \in Rows /\ prebuf \in Rows
      /\ Waiting = Line(Ahead, queue, calls, prebuf) /\ emitted + 1 \in Nat
      /\ Len(Ahead) \in Nat /\ Len(queue) \in Nat /\ Len(prebuf) \in Nat /\ calls # <<>>
  <2>1. /\ Ahead \in Rows /\ queue \in Rows /\ calls \in Rows /\ prebuf \in Rows
        /\ Waiting = Line(Ahead, queue, calls, prebuf) /\ emitted + 1 \in Nat
    BY RowOf
  <2> QED  BY <2>1, LineIs DEF Put
<1>2. /\ Ahead' = Ahead /\ db' = db /\ failures' = failures /\ Repeated' = Repeated
  BY SameAhead, SameRepeated DEF Put
<1>3. CASE Len(queue) < QueueMax
  <2>1. /\ queue' = Append(queue, Head(calls)) /\ calls' = Tail(calls)
        /\ UNCHANGED <<emitted, prebuf, refused>>
    BY <1>3 DEF Put
  <2>2. Waiting' = Waiting
    BY <1>1, <1>2, <2>1, LineMoves, NextRow DEF Added
  <2> QED  BY <1>2, <2>1, <2>2, NotNoticed
<1>4. CASE ~(Len(queue) < QueueMax)
  <2> DEFINE i == Len(Ahead) + Len(queue) + 1
             left == Line(Ahead, queue, Tail(calls), prebuf)
  <2>1. /\ i \in 1..Len(Waiting) /\ Waiting[i] = Head(calls)
        /\ Pipe!Without(Waiting, i) = left
    <3>1. i = Len(Ahead) + Len(queue) + 1
      OBVIOUS
    <3> HIDE DEF i
    <3> QED  BY <1>1, <3>1, RowDrops
  <2>2. i > PreMax
    BY <1>1, <1>4, AppLogSinkAssumption
  <2> HIDE DEF i
  <2>3. CASE ~(emitted < MaxRecords)
    <3>1. /\ emitted' = emitted /\ calls' = Tail(calls) /\ UNCHANGED <<queue, prebuf>>
          /\ refused' = refused \cup {Head(calls)}
      BY <1>4, <2>3 DEF Put
    <3>2. Waiting' = left
      BY <1>2, <3>1, NextRow DEF Added
    <3> QED  BY <1>2, <2>1, <2>2, <3>1, <3>2, RefusedAt
  <2>4. CASE emitted < MaxRecords /\ phase # "down"
    <3>1. /\ emitted' = emitted + 1 /\ calls' = Append(Tail(calls), emitted + 1)
          /\ UNCHANGED <<queue, prebuf>> /\ refused' = refused \cup {Head(calls)}
      BY <1>4, <2>4 DEF Put
    <3>2. prebuf = <<>>
      BY <1>1, <2>4 DEF SinkIInv, Stages
    <3>3. Tail(calls) \in Rows
      BY <1>1, HeadFirst
    <3>4. Waiting' = Append(left, emitted + 1)
      <4>1. Line(Ahead, queue, Added(Tail(calls), emitted + 1), <<>>)
              = Added(Line(Ahead, queue, Tail(calls), <<>>), emitted + 1)
        BY <1>1, <3>3, LineGrows
      <4> QED  BY <1>2, <3>1, <3>2, <4>1, NextRow DEF Added
    <3> QED  BY <1>2, <2>1, <2>2, <3>1, <3>4, RefusedAt
  <2>5. CASE emitted < MaxRecords /\ phase = "down" /\ Len(prebuf) < PreMax
    <3>1. /\ emitted' = emitted + 1 /\ calls' = Tail(calls) /\ queue' = queue
          /\ prebuf' = Append(prebuf, emitted + 1) /\ refused' = refused \cup {Head(calls)}
      BY <1>4, <2>5, AppLogSinkAssumption DEF Put
    <3>2. Tail(calls) \in Rows
      BY <1>1, HeadFirst
    <3>3. Waiting' = Append(left, emitted + 1)
      <4>1. Line(Ahead, queue, Tail(calls), Added(prebuf, emitted + 1))
              = Added(Line(Ahead, queue, Tail(calls), prebuf), emitted + 1)
        BY <1>1, <3>2, LineGrows
      <4> QED  BY <1>2, <3>1, <4>1, NextRow DEF Added
    <3> QED  BY <1>2, <2>1, <2>2, <3>1, <3>3, RefusedAt
  <2>6. CASE emitted < MaxRecords /\ phase = "down" /\ Len(prebuf) = PreMax
    <3>1. /\ emitted' = emitted + 1 /\ calls' = Tail(calls) /\ UNCHANGED <<queue, prebuf>>
          /\ refused' = refused \cup {Head(calls), emitted'}
      BY <1>4, <2>6, AppLogSinkAssumption DEF Put
    <3>2. Waiting' = left
      BY <1>2, <3>1, NextRow DEF Added
    <3> QED  BY <1>2, <2>1, <2>2, <3>1, <3>2, RefusedAt
  <2>7. Len(prebuf) <= PreMax /\ Len(prebuf) \in Nat
    BY <1>1 DEF SinkIInv, SinkTypeOK
  <2> QED  BY <2>3, <2>4, <2>5, <2>6, <2>7, AppLogSinkAssumption
<1> QED  BY <1>3, <1>4

(* Where the writer and stop_writer are, and what that says of the batch.  *)
LEMMA BatchOf ==
    ASSUME SinkIInv, PipeInv
    PROVE  /\ writer \in {"get", "flush", "committed"} => phase = "up"
           /\ writer = "again" => phase = "stopping"
           /\ phase \in {"rest", "down", "aborted"} => writer \in {"gone", "dead"}
           /\ phase = "boot" => writer = "none" /\ calls = <<>> /\ queue = <<>> /\ batch = <<>>
           /\ phase \in {"boot", "up"} => redone = 0
           /\ writer \notin {"flush", "committed", "again"} /\ phase # "rest" => batch = <<>>
           /\ writer \in {"flush", "committed", "again"} \/ phase = "rest" => batch # <<>>
           /\ writer \in {"gone", "dead"} /\ phase \in {"stopping", "rest"} =>
                 redone = 0 \/ redone < Len(db)
           /\ writer = "again" => redone \in {0, Len(db)}
           /\ redone \in Nat /\ Len(db) \in Nat /\ Len(batch) \in Nat
<1>1. redone \in Nat /\ Len(db) \in Nat /\ Len(batch) \in Nat
  BY RowOf DEF Rows
<1>2. /\ writer \in {"get", "flush", "committed"} => phase = "up"
      /\ writer = "again" => phase = "stopping"
  BY PhaseOfWriter DEF SinkIInv
<1> QED  BY <1>1, <1>2 DEF SinkIInv, SinkTypeOK, Stages, PipeInv

LEMMA PipeStarts ==
    ASSUME SinkIInv, PipeInv, StartWriter
    PROVE  UNCHANGED Pipe!vars
<1>1. /\ queue = <<>> /\ calls = <<>> /\ batch = <<>> /\ queue' = prebuf /\ prebuf' = <<>>
      /\ UNCHANGED <<emitted, calls, batch, db, refused, redone, failures>>
  BY BatchOf DEF StartWriter, sinkHistory
<1>2. Ahead = <<>> /\ Ahead' = <<>>
  BY <1>1 DEF Ahead
<1>3. Waiting' = Waiting
  <2>1. prebuf \in Rows /\ Waiting = Line(<<>>, <<>>, <<>>, prebuf)
    BY <1>1, <1>2, RowOf
  <2>2. Waiting' = Line(<<>>, prebuf, <<>>, <<>>)
    BY <1>1, <1>2, NextRow
  <2> QED  BY <2>1, <2>2, LineRenamed
<1> QED  BY <1>1, <1>3, SameRepeated, NotNoticed

LEMMA PipeTakes ==
    ASSUME SinkIInv, PipeInv, WriterTake
    PROVE  UNCHANGED Pipe!vars
<1> DEFINE n == Fewer(Len(queue), BatchMax)
<1>1. /\ batch' = SubSeq(queue, 1, n) /\ queue' = SubSeq(queue, n + 1, Len(queue))
      /\ writer = "get" /\ writer' = "flush" /\ queue # <<>>
      /\ UNCHANGED <<emitted, calls, prebuf, db, refused, redone, failures>>
  BY DEF WriterTake, sinkHistory
<1>2. /\ queue \in Rows /\ calls \in Rows /\ prebuf \in Rows
      /\ Waiting = Line(Ahead, queue, calls, prebuf)
  BY RowOf
<1>3. Ahead = <<>> /\ Ahead' = batch'
  BY <1>1, BatchOf DEF Ahead, InTable
<1>4. n \in 0..Len(queue)
  BY <1>2, AppLogSinkAssumption DEF Fewer, Rows
<1> HIDE DEF n
<1>5. Line(SubSeq(queue, 1, n), SubSeq(queue, n + 1, Len(queue)), calls, prebuf)
        = Line(<<>>, queue, calls, prebuf)
  BY <1>2, <1>4, LineSplits
<1>6. Waiting' = Waiting
  BY <1>1, <1>2, <1>3, <1>5, NextRow
<1> QED  BY <1>1, <1>6, SameRepeated, NotNoticed

LEMMA PipeStops ==
    ASSUME SinkIInv, PipeInv, Stop
    PROVE  UNCHANGED Pipe!vars
<1>1. /\ phase = "up"
      /\ writer' = CASE writer = "get" -> "gone"
                     [] writer \in {"flush", "committed"} -> "again"
                     [] OTHER -> writer
      /\ redone' = IF writer = "committed" THEN Len(db) ELSE redone
      /\ UNCHANGED <<emitted, prebuf, calls, queue, batch, db, refused, failures>>
  BY DEF Stop
<1>2. redone = 0 /\ writer # "again"
  BY <1>1, BatchOf
<1>3. writer = "committed" => Len(db) > 0
  <2> SUFFICES ASSUME writer = "committed" PROVE Len(db) > 0
    OBVIOUS
  <2>1. batch # <<>> /\ batch \in Rows /\ Len(batch) \in 0..Len(db)
    BY BatchOf, RowOf DEF PipeInv, InTable
  <2> QED  BY <2>1, BatchOf, EmptySeq DEF Rows
<1>4. InTable' = InTable
  BY <1>1, <1>2, <1>3 DEF InTable
<1>5. Repeated = FALSE /\ Repeated' = FALSE
  BY <1>1, <1>2, BatchOf DEF Repeated
<1>6. Waiting' = Waiting
  BY <1>1, <1>4 DEF Waiting
<1> QED  BY <1>1, <1>5, <1>6, NotNoticed

LEMMA PipeClears ==
    ASSUME SinkIInv, PipeInv, WriterClear
    PROVE  UNCHANGED Pipe!vars
<1>1. /\ batch' = <<>> /\ writer = "committed"
      /\ UNCHANGED <<emitted, prebuf, calls, queue, db, refused, redone, failures>>
  BY DEF WriterClear, sinkHistory
<1>2. Ahead = <<>> /\ Ahead' = <<>>
  BY <1>1 DEF Ahead, InTable
<1>3. Waiting' = Waiting
  BY <1>1, <1>2, RowOf, NextRow
<1> QED  BY <1>1, <1>3, SameRepeated, NotNoticed

LEMMA PipeDrains ==
    ASSUME SinkIInv, PipeInv, Drain
    PROVE  UNCHANGED Pipe!vars
<1>1. /\ phase = "stopping" /\ writer \in {"gone", "dead"} /\ writer' = writer
      /\ batch' = queue /\ queue' = <<>>
      /\ UNCHANGED <<emitted, calls, prebuf, db, refused, redone, failures>>
  BY DEF Drain, sinkHistory
<1>2. Ahead = <<>> /\ Ahead' = queue
  BY <1>1, BatchOf DEF Ahead, InTable
<1>3. Waiting' = Waiting
  <2>1. /\ queue \in Rows /\ calls \in Rows /\ prebuf \in Rows
        /\ Waiting = Line(<<>>, queue, calls, prebuf)
    BY <1>2, RowOf
  <2>2. Waiting' = Line(queue, <<>>, calls, prebuf)
    BY <1>1, <1>2, NextRow
  <2> QED  BY <2>1, <2>2, LineRenamed
<1> QED  BY <1>1, <1>3, SameRepeated, NotNoticed

(* The batch is flushed: by the writer, by the cancelled writer, or by     *)
(* stop_writer.                                                            *)
LEMMA PipeFlushes ==
    ASSUME SinkIInv, PipeInv, FlushCommit \/ CancelledFlush \/ RestCommit
    PROVE  Pipe!Next
<1>1. /\ db' = db \o batch
      /\ UNCHANGED <<emitted, queue, calls, prebuf, refused, redone, failures>>
      /\ writer \in {"flush", "again"} \/ phase = "rest"
  BY DEF FlushCommit, CancelledFlush, RestCommit, sinkHistory
<1>2. /\ db \in Rows /\ batch \in Rows /\ batch # <<>> /\ Len(batch) > 0
      /\ Len(db') = Len(db) + Len(batch) /\ Len(db) \in Nat /\ redone \in Nat
  <2>1. db \in Rows /\ batch \in Rows /\ batch # <<>> /\ redone \in Nat
    BY <1>1, RowOf, BatchOf
  <2>2. Len(batch) > 0 /\ Len(db) \in Nat
    BY <2>1, BatchOf, EmptySeq DEF Rows
  <2>3. Len(Join(db, batch)) = Len(db) + Len(batch)
    BY <2>1, JoinIs
  <2> QED  BY <1>1, <2>1, <2>2, <2>3 DEF Join
<1>3. Ahead' = <<>>
  BY DEF FlushCommit, CancelledFlush, RestCommit, Ahead, InTable
<1>4. CASE ~InTable
  <2>1. Ahead = batch
    BY <1>4 DEF Ahead
  <2>2. redone = 0 \/ redone < Len(db)
    BY <1>1, <1>4, BatchOf DEF InTable
  <2>3. Repeated' = Repeated
    BY <1>1, <1>2, <2>2 DEF Repeated
  <2> QED  BY <1>1, <1>2, <1>3, <2>1, <2>3, BatchWritten
<1>5. CASE InTable
  <2>1. writer = "again" /\ redone = Len(db) /\ redone > 0 /\ phase = "stopping"
    BY <1>1, <1>5, BatchOf DEF InTable
  <2>2. ~Repeated /\ Repeated'
    BY <1>1, <1>2, <2>1 DEF Repeated
  <2>3. Len(batch) \in 1..Len(db) /\ Pipe!Behind(db, Len(db) - Len(batch)) = batch
    BY <1>2, <1>5 DEF PipeInv
  <2>4. Len(batch) <= BatchMax
    BY <2>1 DEF SinkIInv, SinkTypeOK
  <2>5. Waiting' = Waiting
    BY <1>1, <1>3, <1>5, RowOf, NextRow DEF Ahead
  <2>6. Pipe!Repeat(Len(batch))
    BY <1>1, <2>2, <2>3, <2>5 DEF Pipe!Repeat, Repeated
  <2> QED  BY <2>3, <2>4, <2>6 DEF Pipe!Next
<1> QED  BY <1>4, <1>5

LEMMA PipeFails ==
    ASSUME SinkIInv, PipeInv, FlushFails \/ CancelledFlushFails \/ RestFails
    PROVE  Pipe!Next
<1>1. /\ failures' = failures + 1 /\ batch' = <<>>
      /\ UNCHANGED <<emitted, queue, calls, prebuf, db, refused, redone>>
  BY DEF FlushFails, CancelledFlushFails, RestFails, FailsOnce, sinkHistory
<1>2. Ahead' = <<>>
  BY <1>1 DEF Ahead
<1> QED  BY <1>1, <1>2, SameRepeated, BatchFails

(* Every step of the sink is a step of the row, or one it does not notice. *)
LEMMA PipeStep == SinkIInv /\ PipeInv /\ [SinkNext]_sinkVars => [Pipe!Next]_(Pipe!vars)
<1> SUFFICES ASSUME SinkIInv, PipeInv, [SinkNext]_sinkVars PROVE [Pipe!Next]_(Pipe!vars)
  OBVIOUS
<1>1. ASSUME UNCHANGED sinkVars PROVE UNCHANGED Pipe!vars
  BY <1>1 DEF sinkVars, Pipe!vars, Waiting, InTable, Repeated
<1> QED
  BY <1>1, PipeEmits, PipePuts, PipeStarts, PipeTakes, PipeStops, PipeClears, PipeDrains,
     PipeFlushes, PipeFails
  DEF SinkNext, WriterProgress, StopProgress

(* Callbacks, queue, batches and pre-buffer are one row of records: they   *)
(* are written from its head in the order in which they were told, refused *)
(* only when it has no room, lost only with a transaction, and at most one *)
(* batch is written twice.                                                 *)
THEOREM PipeImplemented == SinkSpec => ImplementsLogPipe
<1>1. SinkInit => Pipe!Init
  <2> SUFFICES ASSUME SinkInit PROVE Pipe!Init
    OBVIOUS
  <2>1. Waiting = <<>>
    BY DEF SinkInit, Waiting, InTable
  <2> QED  BY <2>1 DEF SinkInit, Pipe!Init, Repeated
<1> QED
  BY <1>1, SinkIInvHolds, PipeInvInit, PipeInvStep, PipeStep, PTL
  DEF SinkSpec, ImplementsLogPipe, Pipe!Spec
=============================================================================
