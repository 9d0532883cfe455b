------------------------------ MODULE LoadTest -------------------------------
(***************************************************************************)
(* scripts/bench_load.py: the long load test.                              *)
(*                                                                         *)
(* Four kinds of threads share one lock: the phase controller, which       *)
(* switches users on and off, one worker per virtual user, the collector   *)
(* of the time series, and the main thread, which waits for the phases,    *)
(* stops the others and writes the summary without taking the lock.  All   *)
(* but main are daemon threads, and every join of main has a timeout.      *)
(*                                                                         *)
(* The controller's clock counts its half-second sleeps; a duration inside *)
(* a response stream is a count of the frames read.                        *)
(***************************************************************************)
EXTENDS Integers, Sequences, FiniteSets, SequencesExt, FiniteSetsExt

CONSTANTS NUsers,       \* users
          RampUp, Steady, RampDown,
          Streams,      \* the response streams: [frames, end]
          MaxRequests,  \* bound: requests of the whole test
          MaxWindows    \* bound: rows of the time series

ASSUME LoadTestAssumption ==
    /\ NUsers \in Nat \ {0}
    /\ RampUp \in Nat /\ Steady \in Nat /\ RampDown \in Nat
    /\ MaxRequests \in Nat /\ MaxWindows \in Nat
    /\ \A s \in Streams : /\ s.frames \in Seq({"text", "empty", "role", "junk"})
                          /\ s.end \in {"done", "refused", "broken"}

Users    == 0 .. NUsers - 1
Duration == RampUp + Steady + RampDown

VARIABLES
    stop,       \* _stop_event
    lockHolder, \* the user that holds _lock over a step, or Free
    ctl,        \* the controller: where it is, the elapsed time it read last
    curPhase,   \* _phase, written without the lock
    activeCount,\* _active_count
    active,     \* UserState.active
    worker,     \* where each _user_worker is
    results,    \* UserState.results
    counted,    \* UserState.total_requests; ok and err follow the same way
    sinceStart, \* _total_requests_since_start
    collector,  \* where MetricCollector._run is
    snapshot,   \* _snapshot_total
    rows,       \* time_series.csv: requests so far and in the window
    main,       \* where run is, with the user it has come to
    summary,    \* the results _build_summary went through, per user
    lines,      \* users.jsonl, per user: counters and results
    late,       \* history: requests a user began since it was switched off
    outlived    \* history: workers that main stopped waiting for

userVars == <<active, worker, results, counted, sinceStart, lockHolder, late>>
ctlVars  == <<ctl, curPhase, activeCount>>
colVars  == <<collector, snapshot, rows>>
mainVars == <<main, summary, lines, outlived>>
loadVars == <<stop, userVars, ctlVars, colVars, mainVars>>

Free == -1
Phases == {"idle", "ramp_up", "steady", "ramp_down", "done"}

-----------------------------------------------------------------------------
(* _delta_stream_started: the key is there, be its text empty or not.      *)
Started(frame)  == frame \in {"empty", "text"}
(* _delta_text_chunk_count, at most one a frame.                           *)
TextCount(frame) == IF frame = "text" THEN 1 ELSE 0

(* _stream_chat.  A frame is "text", "empty" (content is ""), "role" (a    *)
(* delta without content) or "junk" (a comment, a line that is no JSON, no *)
(* choices); the stream ends with "done" ([DONE] or EOF), "refused" (a     *)
(* status other than 200) or "broken" (an exception).                      *)
StreamChat(stream) ==
    LET fr == stream.frames
        begun  == {i \in DOMAIN fr : Started(fr[i])}
        chunks == {i \in DOMAIN fr : TextCount(fr[i]) = 1}
        failed(total) == [error |-> TRUE, ttft |-> -1, total |-> total, tokens |-> 0]
    IN CASE stream.end = "refused" -> failed(-1)
         [] stream.end = "broken" \/ begun = {} -> failed(Len(fr))
         [] OTHER -> [error |-> FALSE, ttft |-> Min(begun), total |-> Len(fr),
                      tokens |-> Max({1, Cardinality(chunks)})]

(* Mutant: each of the two ranks has the weight of the other.              *)
PercentileSwapsWeights(sorted, p) ==
    LET k == (Len(sorted) - 1) * p
        f == k \div 100
        r == k % 100
    IN IF r = 0 THEN 100 * sorted[f + 1]
                ELSE r * sorted[f + 1] + (100 - r) * sorted[f + 2]

(* _percentile, in hundredths: linear between the two nearest ranks.       *)
Percentile(sorted, p) ==
    LET k == (Len(sorted) - 1) * p
        f == k \div 100
        r == k % 100
    IN IF r = 0 THEN 100 * sorted[f + 1]
                ELSE (100 - r) * sorted[f + 1] + r * sorted[f + 2]

(* The requests of the lists that had an answer, and the time one took.    *)
Answered(res)  == {a \in UNION {{u} \X DOMAIN res[u] : u \in Users} :
                     ~res[a[1]][a[2]].error}
Total(res, a)  == res[a[1]][a[2]].total

(* sorted(all_total): at place k, of the times that fewer than k requests  *)
(* stay below, the one that k requests at least stay within.               *)
Latencies(res) ==
    LET ok == Answered(res)
    IN [k \in 1..Cardinality(ok) |->
          CHOOSE t \in {Total(res, a) : a \in ok} :
             /\ Cardinality({a \in ok : Total(res, a) < t}) < k
             /\ Cardinality({a \in ok : Total(res, a) <= t}) >= k]

(* _current_phase and _target_active_users.                                *)
CurrentPhase(elapsed) ==
    CASE elapsed < RampUp            -> "ramp_up"
      [] elapsed \in RampUp .. RampUp + Steady - 1 -> "steady"
      [] elapsed \in RampUp + Steady .. Duration - 1 -> "ramp_down"
      [] OTHER                       -> "done"

TargetActiveUsers(elapsed) ==
    CASE CurrentPhase(elapsed) = "ramp_up"   -> Max({1, (NUsers * elapsed) \div RampUp})
      [] CurrentPhase(elapsed) = "steady"    -> NUsers
      [] CurrentPhase(elapsed) = "ramp_down" ->
           (NUsers * (Duration - elapsed)) \div RampDown
      [] OTHER -> 0

-----------------------------------------------------------------------------
(* LoadTestRunner.__init__ and the threads run starts.                     *)
LoadInit ==
    /\ stop = FALSE /\ lockHolder = Free
    /\ ctl = [at |-> "loop", elapsed |-> -1] /\ curPhase = "idle" /\ activeCount = 0
    /\ active = [u \in Users |-> FALSE] /\ worker = [u \in Users |-> "check"]
    /\ results = [u \in Users |-> <<>>]
    /\ counted = [u \in Users |-> 0] /\ sinceStart = 0
    /\ collector = "wait" /\ snapshot = 0 /\ rows = <<>>
    /\ main = [at |-> "phases", user |-> 0]
    /\ summary = [u \in Users |-> <<>>]
    /\ lines = [u \in Users |-> [counted |-> 0, results |-> <<>>]]
    /\ late = [u \in Users |-> 0] /\ outlived = {}

(* _phase_controller: the phase is read off the clock, at least a sleep    *)
(* later than the last time, and published; then the users are switched    *)
(* under the lock; then, when done, the event is set.                      *)
ReadPhase ==
    /\ ctl.at = "loop"
    /\ \/ stop /\ ctl' = [ctl EXCEPT !.at = "ended"] /\ UNCHANGED curPhase
       \/ /\ ~stop
          /\ \E now \in ctl.elapsed + 1 .. Duration :
                /\ ctl' = [at |-> "switch", elapsed |-> now]
                /\ curPhase' = CurrentPhase(now)
    /\ UNCHANGED <<stop, activeCount, userVars, colVars, mainVars>>

SwitchUsers ==
    LET target == TargetActiveUsers(ctl.elapsed)
    IN /\ ctl.at = "switch" /\ lockHolder = Free
       /\ activeCount' = target
       /\ active' = [u \in Users |-> u < target]
       /\ late' = [u \in Users |-> IF active[u] /\ u >= target THEN 0 ELSE late[u]]
       /\ ctl' = [ctl EXCEPT !.at = IF curPhase = "done" THEN "finish" ELSE "loop"]
       /\ UNCHANGED <<stop, curPhase, worker, results, counted,
                      sinceStart, lockHolder, colVars, mainVars>>

FinishPhases ==
    /\ ctl.at = "finish"
    /\ stop' = TRUE
    /\ ctl' = [ctl EXCEPT !.at = "ended"]
    /\ UNCHANGED <<curPhase, activeCount, userVars, colVars, mainVars>>

-----------------------------------------------------------------------------
(* Mutant: the worker does not look whether its user is active.            *)
CheckIgnoresActive(u) ==
    /\ worker[u] = "check" /\ lockHolder = Free
    /\ worker' = [worker EXCEPT ![u] = IF stop THEN "ended" ELSE "think"]
    /\ UNCHANGED <<stop, active, results, counted, sinceStart, lockHolder, late,
                   ctlVars, colVars, mainVars>>

(* _user_worker of user u: the loop head, with the look at active under    *)
(* the lock; an inactive user sleeps and looks again.                      *)
Check(u) ==
    /\ worker[u] = "check" /\ lockHolder = Free
    /\ stop \/ active[u]
    /\ worker' = [worker EXCEPT ![u] = IF stop THEN "ended" ELSE "think"]
    /\ UNCHANGED <<stop, active, results, counted, sinceStart,
                   lockHolder, late, ctlVars, colVars, mainVars>>

(* The entries of all lists, and the requests that will add one.           *)
Answers  == UNION {{u} \X DOMAIN results[u] : u \in Users}
InFlight == Cardinality({u \in Users : worker[u] = "request"})

(* After the think time: the request goes out unless the test has stopped, *)
(* whether the user is still active or not.                                *)
Request(u) ==
    /\ worker[u] = "think"
    /\ stop \/ Cardinality(Answers) + InFlight < MaxRequests
    /\ worker' = [worker EXCEPT ![u] = IF stop THEN "ended" ELSE "request"]
    /\ late' = IF stop \/ active[u] THEN late ELSE [late EXCEPT ![u] = @ + 1]
    /\ UNCHANGED <<stop, active, results, counted, sinceStart,
                   lockHolder, ctlVars, colVars, mainVars>>

(* Mutant: the list is extended before the lock is taken.                  *)
RecordUnlocked(u) ==
    /\ worker[u] = "request"
    /\ \E stream \in Streams :
          results' = [results EXCEPT ![u] = Append(@, StreamChat(stream))]
    /\ worker' = [worker EXCEPT ![u] = "count"]
    /\ UNCHANGED <<stop, active, counted, sinceStart, lockHolder, late,
                   ctlVars, colVars, mainVars>>

(* The answer comes, if it comes, and the worker takes the lock to record  *)
(* it: the list first, then the counters.  main reads both without it.     *)
Record(u) ==
    /\ worker[u] = "request" /\ lockHolder = Free
    /\ lockHolder' = u
    /\ \E stream \in Streams :
          results' = [results EXCEPT ![u] = Append(@, StreamChat(stream))]
    /\ worker' = [worker EXCEPT ![u] = "count"]
    /\ UNCHANGED <<stop, active, counted, sinceStart, late, ctlVars, colVars, mainVars>>

Count(u) ==
    /\ worker[u] = "count"
    /\ counted' = [counted EXCEPT ![u] = @ + 1]
    /\ sinceStart' = sinceStart + 1
    /\ lockHolder' = Free
    /\ worker' = [worker EXCEPT ![u] = "check"]
    /\ UNCHANGED <<stop, active, results, late,
                   ctlVars, colVars, mainVars>>

-----------------------------------------------------------------------------
(* MetricCollector._run and _collect_window: phase and active users in one *)
(* locked region, the requests in a second one, then the row.              *)
CollectHead ==
    /\ collector = "wait" /\ lockHolder = Free
    /\ main.at = "phases" /\ Len(rows) < MaxWindows
    /\ collector' = "collect"
    /\ UNCHANGED <<stop, snapshot, rows, userVars, ctlVars, mainVars>>

CollectRow ==
    /\ collector = "collect" /\ lockHolder = Free
    /\ rows' = Append(rows, [requests |-> Cardinality(Answers),
                             window   |-> sinceStart - snapshot])
    /\ snapshot' = sinceStart
    /\ collector' = "wait"
    /\ UNCHANGED <<stop, userVars, ctlVars, mainVars>>

(* stop() has set the collector's event; the window since the last row is  *)
(* not collected.                                                          *)
CollectorEnds ==
    /\ collector = "wait" /\ main.at # "phases"
    /\ collector' = "ended"
    /\ UNCHANGED <<stop, snapshot, rows, userVars, ctlVars, mainVars>>

-----------------------------------------------------------------------------
(* run: joins the controller.  Its timeout, half a minute more than the    *)
(* phases take, is not modelled: the controller never waits for long.      *)
JoinPhases ==
    /\ main.at = "phases"
    /\ ctl.at = "ended"
    /\ main' = [main EXCEPT !.at = "collector"]
    /\ UNCHANGED <<stop, summary, lines, outlived, userVars, ctlVars, colVars>>

(* The collector's join has ended or timed out; then the pause that lets   *)
(* requests end, and the event.                                            *)
StopUsers ==
    /\ main.at = "collector"
    /\ main' = [at |-> "join", user |-> 0]
    /\ stop' = TRUE
    /\ UNCHANGED <<summary, lines, outlived, userVars, ctlVars, colVars>>

(* Where main goes after the user it is at.                                *)
Onward(next) == IF main.user + 1 < NUsers THEN [main EXCEPT !.user = @ + 1]
                ELSE [at |-> next, user |-> 0]

(* Mutants: main does not wait for the workers; it waits without timeout.  *)
JoinUserAtOnce ==
    /\ main.at = "join"
    /\ main' = Onward("summary")
    /\ UNCHANGED <<stop, outlived, summary, lines, userVars, ctlVars, colVars>>

JoinUserForever ==
    /\ main.at = "join"
    /\ worker[main.user] = "ended"
    /\ main' = Onward("summary")
    /\ UNCHANGED <<stop, outlived, summary, lines, userVars, ctlVars, colVars>>

(* The join of a worker that ends, or its timeout.                         *)
JoinUser ==
    /\ main.at = "join"
    /\ \/ worker[main.user] = "ended" /\ UNCHANGED outlived
       \/ worker[main.user] # "ended" /\ outlived' = outlived \cup {main.user}
    /\ main' = Onward("summary")
    /\ UNCHANGED <<stop, summary, lines, userVars, ctlVars, colVars>>

(* _build_summary and _write_outputs: one user at a time, without the lock;*)
(* a line of users.jsonl takes the counters before the results.            *)
SumUser ==
    /\ main.at = "summary"
    /\ summary' = [summary EXCEPT ![main.user] = results[main.user]]
    /\ main' = Onward("counters")
    /\ UNCHANGED <<stop, lines, outlived, userVars, ctlVars, colVars>>

LineCounters ==
    /\ main.at = "counters"
    /\ lines' = [lines EXCEPT ![main.user].counted = counted[main.user]]
    /\ main' = [main EXCEPT !.at = "results"]
    /\ UNCHANGED <<stop, summary, outlived, userVars, ctlVars, colVars>>

LineResults ==
    /\ main.at = "results"
    /\ lines' = [lines EXCEPT ![main.user].results = results[main.user]]
    /\ main' = [Onward("done") EXCEPT !.at = IF @ = "done" THEN @ ELSE "counters"]
    /\ UNCHANGED <<stop, summary, outlived, userVars, ctlVars, colVars>>

-----------------------------------------------------------------------------
Controller == ReadPhase \/ SwitchUsers \/ FinishPhases
Worker(u)  == Check(u) \/ Request(u) \/ Record(u) \/ Count(u)
Collect    == CollectHead \/ CollectRow \/ CollectorEnds
Main       == \/ JoinPhases \/ StopUsers \/ JoinUser
              \/ SumUser \/ LineCounters \/ LineResults

LoadNext == \/ Controller \/ Collect \/ Main
            \/ \E u \in Users : Worker(u)

(* The process runs its threads and a holder of the lock releases it; the  *)
(* server owes no answer, so a worker may stay in its request.             *)
LoadFairness == /\ WF_loadVars(Controller) /\ WF_loadVars(Main)
                /\ \A u \in Users : WF_loadVars(Count(u))

LoadSpec == LoadInit /\ [][LoadNext]_loadVars /\ LoadFairness

-----------------------------------------------------------------------------
LoadTypeOK ==
    /\ stop \in BOOLEAN
    /\ lockHolder \in Users \cup {Free}
    /\ ctl.at \in {"loop", "switch", "finish", "ended"} /\ curPhase \in Phases
    /\ activeCount \in 0..NUsers /\ active \in [Users -> BOOLEAN]
    /\ worker \in [Users -> {"check", "think", "request", "count", "ended"}]
    /\ sinceStart \in Nat /\ snapshot \in Nat /\ counted \in [Users -> Nat]
    /\ collector \in {"wait", "collect", "ended"}
    /\ main.at \in {"phases", "collector", "join", "summary", "counters", "results", "done"}
    /\ main.user \in Users /\ outlived \subseteq Users

(* The windows of the time series add up: from row to row the requests     *)
(* counted in the lists grow by those of the window, counted by the        *)
(* running counters.  So no request is lost between two rows of            *)
(* _collect_window, and none is in two of them.                            *)
WindowsAddUp ==
    /\ LoadTypeOK
    /\ \A i \in DOMAIN rows :
         rows[i].requests = rows[i].window + IF i = 1 THEN 0 ELSE rows[i - 1].requests

(* The outputs agree, user by user.  A line of users.jsonl never counts    *)
(* more requests than it lists, and the summary has gone through no        *)
(* request the line does not list, in the same order; a request without an *)
(* error has had its answer begin.  When main saw every worker end, lines  *)
(* and summary are all requests, and the running counter says how many.    *)
OutputsAgree ==
    main.at = "done" =>
        /\ \A u \in Users :
              /\ IsPrefix(summary[u], lines[u].results)
              /\ lines[u].counted <= Len(lines[u].results)
              /\ \A i \in DOMAIN lines[u].results :
                    LET r == lines[u].results[i]
                    IN  ~r.error => r.ttft \in 1..r.total /\ r.tokens > 0
        /\ outlived = {} =>
              /\ \A u \in Users :
                    /\ summary[u] = results[u]
                    /\ lines[u] = [counted |-> Len(results[u]), results |-> results[u]]
              /\ Cardinality(Answers) = sinceStart

(* The latencies of summary.json are those of its requests: half of them   *)
(* on either side of the median, and the 95th percentile between the       *)
(* median and the slowest.                                                 *)
FiguresSplitRequests ==
    main.at = "done" =>
        LET ok  == Answered(summary)
            n   == Cardinality(ok)
            p50 == Percentile(Latencies(summary), 50)
            p95 == Percentile(Latencies(summary), 95)
        IN n > 0 =>
             /\ 2 * Cardinality({a \in ok : 100 * Total(summary, a) <= p50}) >= n
             /\ 2 * Cardinality({a \in ok : 100 * Total(summary, a) >= p50}) >= n
             /\ p50 <= p95 /\ \E a \in ok : p95 <= 100 * Total(summary, a)

(* A user that ramp-down has switched off sends at most the one request it *)
(* was already thinking about.                                             *)
OneMoreAfterSwitchOff == \A u \in Users : ~active[u] => late[u] <= 1

(* The test ends, with its outputs written, even when the server never     *)
(* answers a request again.                                                *)
RunEnds == <>(main.at = "done")
=============================================================================
