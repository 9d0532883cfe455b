----------------------------- MODULE AppLogSink ------------------------------
(***************************************************************************)
(* services/app_log_sink.py: log records on their way to app_log_event.    *)
(*                                                                         *)
(* A record is known by its number, in the order of emission.  It passes   *)
(* through a callback of the event loop (call_soon_threadsafe), the        *)
(* asyncio queue and the batch of the writer task; before start_writer and *)
(* after stop_writer it goes to _pre_buffer instead.  The event loop runs  *)
(* callbacks in the order they were scheduled, and one step of the writer  *)
(* or of stop_writer is the code between two awaits that suspend it.       *)
(***************************************************************************)
EXTENDS Naturals, Sequences

CONSTANTS QueueMax,    \* maxsize of the asyncio queue
          PreMax,      \* _PRE_BUFFER_MAX
          BatchMax,    \* _BATCH_MAX
          MaxRecords,  \* bound: records emitted in a behaviour
          MaxFailures  \* bound: failing transactions in a behaviour

ASSUME AppLogSinkAssumption ==
    /\ QueueMax \in Nat /\ PreMax \in Nat /\ BatchMax \in Nat \ {0}
    /\ PreMax <= QueueMax   \* start_writer never waits for room in the queue
    /\ MaxRecords \in Nat /\ MaxFailures \in Nat

VARIABLES
    phase,    \* where start_writer and stop_writer are
    emitted,  \* records emitted so far
    prebuf,   \* _pre_buffer
    calls,    \* put_nowait callbacks the loop has still to run
    queue,    \* _queue; after "down" what is left in the abandoned queue
    batch,    \* batch of the writer, or rest of stop_writer
    writer,   \* where _writer_loop is
    db,       \* rows of app_log_event, in the order of insertion
    refused,  \* history: records that found their buffer full
    due,      \* history: records emitted when stop_writer was called
    redone,   \* history: length of db when stop_writer had a batch flushed again
    failures

sinkVars == <<phase, emitted, prebuf, calls, queue, batch, writer, db,
              refused, due, redone, failures>>
sinkHistory == <<refused, due, redone>>

(* "stopping": waits for the writer; "rest": flushes what was in the       *)
(* queue; "down": all done; "aborted": stop_writer raised.                 *)
Phases  == {"boot", "up", "stopping", "rest", "down", "aborted"}
(* "flush", "committed": in _flush_batch, before and after the commit;     *)
(* "again": flushes once more because it was cancelled.                    *)
Writers == {"none", "get", "flush", "committed", "again", "gone", "dead"}
Records == 1..MaxRecords

Elems(seq) == {seq[i] : i \in 1..Len(seq)}
Fewer(a, b) == IF a < b THEN a ELSE b

SinkInit ==
    /\ phase = "boot" /\ writer = "none"
    /\ emitted = 0 /\ due = 0 /\ redone = 0
    /\ prebuf = <<>> /\ calls = <<>> /\ queue = <<>> /\ batch = <<>> /\ db = <<>>
    /\ refused = {} /\ failures = 0

FailsOnce == failures < MaxFailures /\ failures' = failures + 1

-----------------------------------------------------------------------------
(* enqueue_dto, with _queue None and not None.                             *)
EmitBuffered ==
    /\ phase \in {"boot", "down"} /\ emitted < MaxRecords
    /\ emitted' = emitted + 1
    /\ IF Len(prebuf) < PreMax
         THEN prebuf' = Append(prebuf, emitted') /\ UNCHANGED refused
         ELSE refused' = refused \cup {emitted'} /\ UNCHANGED prebuf
    /\ UNCHANGED <<phase, calls, queue, batch, writer, db, due, redone, failures>>

EmitScheduled ==
    /\ phase \notin {"boot", "down"} /\ emitted < MaxRecords
    /\ emitted' = emitted + 1
    /\ calls' = Append(calls, emitted')
    /\ UNCHANGED <<phase, prebuf, queue, batch, writer, db, sinkHistory, failures>>

(* The loop runs the put_nowait callback.  When the queue is full the loop *)
(* logs the QueueFull, and that is a record of its own.                    *)
Put ==
    /\ calls # <<>>
    /\ IF Len(queue) < QueueMax
         THEN /\ queue' = Append(queue, Head(calls))
              /\ calls' = Tail(calls)
              /\ UNCHANGED <<emitted, prebuf, refused>>
         ELSE LET logged   == emitted < MaxRecords
                  buffered == logged /\ phase = "down" /\ Len(prebuf) < PreMax
                  lost     == logged /\ phase = "down" /\ Len(prebuf) = PreMax
              IN /\ emitted' = IF logged THEN emitted + 1 ELSE emitted
                 /\ calls' = IF logged /\ phase # "down"
                               THEN Append(Tail(calls), emitted') ELSE Tail(calls)
                 /\ prebuf' = IF buffered THEN Append(prebuf, emitted') ELSE prebuf
                 /\ refused' = refused \cup {Head(calls)}
                                       \cup IF lost THEN {emitted'} ELSE {}
                 /\ UNCHANGED queue
    /\ UNCHANGED <<phase, batch, writer, db, due, redone, failures>>

-----------------------------------------------------------------------------
(* start_writer: what was buffered goes to the queue first.                *)
StartWriter ==
    /\ phase = "boot"
    /\ phase' = "up" /\ writer' = "get"
    /\ queue' = prebuf /\ prebuf' = <<>>
    /\ UNCHANGED <<emitted, calls, batch, db, sinkHistory, failures>>

(* Mutant: the first record is taken and not put into the batch.           *)
WriterTakeDropsFirst ==
    LET n == Fewer(Len(queue), BatchMax) IN
    /\ writer = "get" /\ queue # <<>>
    /\ batch' = SubSeq(queue, 2, n)
    /\ queue' = SubSeq(queue, n + 1, Len(queue))
    /\ writer' = "flush"
    /\ UNCHANGED <<phase, emitted, prebuf, calls, db, sinkHistory, failures>>

(* Mutant: the batch is filled from the other end of the queue.            *)
WriterTakeFromTail ==
    LET n == Fewer(Len(queue), BatchMax) IN
    /\ writer = "get" /\ queue # <<>>
    /\ batch' = SubSeq(queue, Len(queue) - n + 1, Len(queue))
    /\ queue' = SubSeq(queue, 1, Len(queue) - n)
    /\ writer' = "flush"
    /\ UNCHANGED <<phase, emitted, prebuf, calls, db, sinkHistory, failures>>

(* Mutant: the writer waits until there is a full batch.                   *)
WriterTakeFull ==
    /\ writer = "get" /\ Len(queue) >= BatchMax
    /\ batch' = SubSeq(queue, 1, BatchMax)
    /\ queue' = SubSeq(queue, BatchMax + 1, Len(queue))
    /\ writer' = "flush"
    /\ UNCHANGED <<phase, emitted, prebuf, calls, db, sinkHistory, failures>>

(* One get() and then get_nowait() until the batch is full.                *)
WriterTake ==
    LET n == Fewer(Len(queue), BatchMax) IN
    /\ writer = "get" /\ queue # <<>>
    /\ batch' = SubSeq(queue, 1, n)
    /\ queue' = SubSeq(queue, n + 1, Len(queue))
    /\ writer' = "flush"
    /\ UNCHANGED <<phase, emitted, prebuf, calls, db, sinkHistory, failures>>

FlushCommit ==
    /\ writer = "flush"
    /\ db' = db \o batch /\ writer' = "committed"
    /\ UNCHANGED <<phase, emitted, prebuf, calls, queue, batch, sinkHistory, failures>>

(* The transaction raises: _writer_loop only catches CancelledError, so    *)
(* the task is over.  Nothing starts it again.                             *)
FlushFails ==
    /\ writer = "flush" /\ FailsOnce
    /\ batch' = <<>> /\ writer' = "dead"
    /\ UNCHANGED <<phase, emitted, prebuf, calls, queue, db, sinkHistory>>

WriterClear ==
    /\ writer = "committed"
    /\ batch' = <<>> /\ writer' = "get"
    /\ UNCHANGED <<phase, emitted, prebuf, calls, queue, db, sinkHistory, failures>>

-----------------------------------------------------------------------------
(* stop_writer cancels the writer: while it waits for a record that ends   *)
(* it, while it flushes the batch is flushed again, committed or not.      *)
Stop ==
    /\ phase = "up"
    /\ phase' = "stopping" /\ due' = emitted
    /\ writer' = CASE writer = "get" -> "gone"
                   [] writer \in {"flush", "committed"} -> "again"
                   [] OTHER -> writer
    /\ redone' = IF writer = "committed" THEN Len(db) ELSE redone
    /\ UNCHANGED <<emitted, prebuf, calls, queue, batch, db, refused, failures>>

(* Mutant: a cancelled writer leaves its batch.                            *)
CancelledDropsBatch ==
    /\ writer = "again"
    /\ batch' = <<>> /\ writer' = "gone"
    /\ UNCHANGED <<phase, emitted, prebuf, calls, queue, db, sinkHistory, failures>>

CancelledFlush ==
    /\ writer = "again"
    /\ db' = db \o batch /\ batch' = <<>> /\ writer' = "gone"
    /\ UNCHANGED <<phase, emitted, prebuf, calls, queue, sinkHistory, failures>>

(* Its exception leaves stop_writer as well, before the queue is drained.  *)
CancelledFlushFails ==
    /\ writer = "again" /\ FailsOnce
    /\ batch' = <<>> /\ writer' = "dead" /\ phase' = "aborted"
    /\ UNCHANGED <<emitted, prebuf, calls, queue, db, sinkHistory>>

(* The writer is over and the rest of the queue is taken.  Waiting for a   *)
(* cancelled writer lets the loop run the callbacks scheduled before; a    *)
(* writer that was dead already is not waited for.                         *)
Drain ==
    /\ phase = "stopping" /\ writer \in {"gone", "dead"}
    /\ writer = "gone" => \A e \in Elems(calls) : e > due
    /\ batch' = queue /\ queue' = <<>>
    /\ phase' = IF queue = <<>> THEN "down" ELSE "rest"
    /\ UNCHANGED <<emitted, prebuf, calls, writer, db, sinkHistory, failures>>

(* Records that reach the queue during this flush stay in it for good.     *)
RestCommit ==
    /\ phase = "rest"
    /\ db' = db \o batch /\ batch' = <<>> /\ phase' = "down"
    /\ UNCHANGED <<emitted, prebuf, calls, queue, writer, sinkHistory, failures>>

RestFails ==
    /\ phase = "rest" /\ FailsOnce
    /\ batch' = <<>> /\ phase' = "aborted"
    /\ UNCHANGED <<emitted, prebuf, calls, queue, writer, db, sinkHistory>>

WriterProgress == WriterTake \/ FlushCommit \/ WriterClear \/ CancelledFlush
StopProgress   == Drain \/ RestCommit

SinkNext == \/ EmitBuffered \/ EmitScheduled \/ Put \/ StartWriter \/ Stop
            \/ WriterProgress \/ StopProgress
            \/ FlushFails \/ CancelledFlushFails \/ RestFails

SinkSpec == SinkInit /\ [][SinkNext]_sinkVars

-----------------------------------------------------------------------------
(* Every variable has its type, the buffers keep their limits, and only    *)
(* the owner of a batch has one.                                           *)
SinkTypeOK ==
    /\ phase \in Phases /\ writer \in Writers
    /\ emitted \in 0..MaxRecords /\ due \in 0..MaxRecords
    /\ \A seq \in {prebuf, calls, queue, batch, db} : seq \in Seq(Records)
    /\ Len(prebuf) <= PreMax /\ Len(queue) <= QueueMax
    /\ Len(batch) <= IF phase = "rest" THEN QueueMax ELSE BatchMax
    /\ batch # <<>> => writer \in {"flush", "committed", "again"} \/ phase = "rest"
    /\ refused \subseteq Records /\ redone \in 0..Len(db)
    /\ failures \in 0..MaxFailures

(* The table has the records in the order of emission, each one once: over *)
(* the pre-buffer, the callbacks, the queue and the batches.  The one      *)
(* place where the order breaks is a batch that stop_writer had flushed    *)
(* again after its commit.  The state is well typed on the way.            *)
InOrderOnce ==
    /\ SinkTypeOK
    /\ \A i \in 2..Len(db) : db[i - 1] < db[i] \/ (i = redone + 1 /\ redone > 0)

(* stop_writer writes what was logged before it was called: whatever the   *)
(* writer was doing, records still in callbacks or in the queue included.  *)
StopWritesAll ==
    phase = "down" /\ failures = 0 => \A e \in 1..due : e \in Elems(db) \cup refused

(* No record waits for ever: the queue and the batch are empty again and   *)
(* again, until a transaction fails or stop_writer is done.  What was in   *)
(* them is in the table then, as ImplementsLogPipe says.                   *)
QueuedIsWritten ==
    []<>((queue = <<>> /\ batch = <<>>) \/ phase = "down" \/ failures > 0)

(* The batch whose transaction is over: it is in the table, and no longer  *)
(* waits, although the writer has not let go of it yet.                    *)
InTable  == writer = "committed" \/ (writer = "again" /\ redone > 0)
Waiting  == (IF InTable THEN <<>> ELSE batch) \o queue \o calls \o prebuf
Repeated == redone > 0 /\ redone < Len(db)

(* The sink implements LogPipe: batch, queue, callbacks and pre-buffer are *)
(* one row of waiting records, and no step on the way from one to the next *)
(* loses, doubles or overtakes a record, refuses one while there is room,  *)
(* or writes the table a second time but for the one batch that            *)
(* stop_writer finds committed.                                            *)
Pipe == INSTANCE LogPipe WITH Room <- PreMax, Batch <- BatchMax, told <- emitted,
            table <- db, waiting <- Waiting, repeated <- Repeated
ImplementsLogPipe == Pipe!Spec
=============================================================================
