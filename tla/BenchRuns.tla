------------------------------ MODULE BenchRuns ------------------------------
(***************************************************************************)
(* The bench jobs and their results: the handlers of native_jobs.py, which *)
(* start a script and wait for it, scripts/bench_openai.py (the scenario   *)
(* matrix) and api/v1/bench.py, which lists what the scripts left in       *)
(* data/bench/results/<engine>/<second>.                                   *)
(*                                                                         *)
(* The scenario job and the load job have different locks, so one of each  *)
(* may run.  Nobody cancels one while the process runs, but a job whose    *)
(* handler raises leaves its script running.  The load script is           *)
(* LoadTest.tla: here it only writes its summary.  Engines are numbered in *)
(* the order of their names.                                               *)
(***************************************************************************)
EXTENDS Integers, Sequences, FiniteSets, FiniteSetsExt

CONSTANTS Jobs,          \* bench jobs of a behaviour
          Engines,       \* names of engines requests bring
          ModelLengths,  \* values of MAX_MODEL_LEN; 0 when it is not set
          MaxListed,     \* 200, of list_runs
          MaxSecond      \* bound: seconds on the clock

ASSUME BenchAssumption ==
    /\ IsFiniteSet(Jobs) /\ Engines \subseteq Nat
    /\ ModelLengths \subseteq Nat /\ MaxListed \in Nat /\ MaxSecond \in Nat

VARIABLES second,   \* utcnow() to the second
          length,   \* MAX_MODEL_LEN of the preset the jobs name
          bench,    \* per job: kind, directory and state of the job
          script,   \* per job: where its script is
          ahead,    \* per job: numbers of the scenarios to run
          measured, \* per job: number of scenarios measured
          outcome   \* per directory: what summary.json holds

benchVars == <<second, length, bench, script, ahead, measured, outcome>>

Kinds   == {"scenario", "load"}
Seconds == 0 .. MaxSecond
Dirs    == Engines \X Seconds
NoFile  == "no file"
Empty   == "empty"     \* opened for writing
Mixed   == "mixed"     \* the end of a longer summary after a shorter one
NoDir   == <<>>
NoBench == [kind |-> "none", dir |-> NoDir, at |-> "new"]

(* raw_scenarios, at one concurrency: prompt_tokens_est and max_tokens,    *)
(* and the safety margin between their sum and MAX_MODEL_LEN.              *)
RawScenarios == << [est |-> 512,  out |-> 256],  [est |-> 2048, out |-> 512],
                   [est |-> 8192, out |-> 1024], [est |-> 512,  out |-> 2048] >>
Safety == 64
(* Tokens are estimated: so many characters are sent as the prompt.        *)
PromptChars(s) == Max({32, 4 * s.est})

(* The loop that cuts max_tokens down and skips what does not fit.         *)
TooLong(s, max) == max # 0 /\ s.est + s.out + Safety > max
Resized(s, max) ==
    IF TooLong(s, max)
      THEN [s EXCEPT !.out = Max({64, max - s.est - Safety})] ELSE s
(* Mutant: the prompt alone is held against the window.                    *)
ScenariosTightSkip(max) ==
    {i \in DOMAIN RawScenarios : LET s == RawScenarios[i] IN ~(TooLong(s, max) /\ s.est >= max)}

(* The numbers of those that remain, each of them Resized.                 *)
Scenarios(max) ==
    {i \in DOMAIN RawScenarios :
        LET s == RawScenarios[i] IN ~(TooLong(s, max) /\ s.est + Safety >= max)}

BenchInit ==
    /\ second = 0 /\ length \in ModelLengths
    /\ bench = [j \in Jobs |-> NoBench] /\ script = [j \in Jobs |-> "none"]
    /\ ahead = [j \in Jobs |-> {}] /\ measured = [j \in Jobs |-> 0]
    /\ outcome = [d \in Dirs |-> NoFile]

Second == /\ second < MaxSecond
          /\ second' = second + 1
          /\ UNCHANGED <<length, bench, script, ahead, measured, outcome>>

-----------------------------------------------------------------------------
(* POST /scenario or /load, refused when a job of the kind is in flight,   *)
(* and the handler: the directory is named for the engine and the second,  *)
(* exist_ok, and the script is started.                                    *)
StartBench(j, kind, engine) ==
    /\ bench[j].at = "new"
    /\ \A o \in Jobs : bench[o].kind = kind => bench[o].at # "running"
    /\ bench' = [bench EXCEPT ![j] = [kind |-> kind, dir |-> <<engine, second>>, at |-> "running"]]
    /\ script' = [script EXCEPT ![j] = "run"]
    /\ UNCHANGED <<second, length, measured, outcome>>

(* bench_openai.py takes MAX_MODEL_LEN from its environment.               *)
StartScenario(j, engine) ==
    /\ StartBench(j, "scenario", engine)
    /\ ahead' = [ahead EXCEPT ![j] = Scenarios(length)]

StartLoad(j, engine) == StartBench(j, "load", engine) /\ UNCHANGED ahead

(* _run_scenario: rounds of requests in parallel, and the file with their  *)
(* figures.  A request that never ends leaves the script here.             *)
RunScenario(j) ==
    /\ script[j] = "run"
    /\ \E i \in ahead[j] : /\ \A o \in ahead[j] : i <= o
                           /\ ahead' = [ahead EXCEPT ![j] = @ \ {i}]
    /\ measured' = [measured EXCEPT ![j] = @ + 1]
    /\ UNCHANGED <<second, length, bench, script, outcome>>

(* The summary is opened, which empties it, and written: over what another *)
(* script has put there since, of which a longer summary leaves its end.   *)
OpenSummary(j) ==
    /\ script[j] = "run" /\ ahead[j] = {}
    /\ outcome' = [outcome EXCEPT ![bench[j].dir] = Empty]
    /\ script' = [script EXCEPT ![j] = "write"]
    /\ UNCHANGED <<second, length, bench, ahead, measured>>

WriteSummary(j) ==
    /\ script[j] = "write"
    /\ outcome' = [outcome EXCEPT ![bench[j].dir] =
                     IF @ = Empty \/ bench[j].kind = "scenario" THEN j ELSE Mixed]
    /\ script' = [script EXCEPT ![j] = "exit 0"]
    /\ UNCHANGED <<second, length, bench, ahead, measured>>

(* An exception ends the script: the model cannot be resolved, the disk.   *)
ScriptFails(j) ==
    /\ script[j] \in {"run", "write"}
    /\ script' = [script EXCEPT ![j] = "exit 1"]
    /\ UNCHANGED <<second, length, bench, ahead, measured, outcome>>

(* Mutant: the exit code is not looked at.                                 *)
BenchEndsAnyCode(j) ==
    /\ bench[j].at = "running" /\ script[j] \in {"exit 0", "exit 1"}
    /\ bench' = [bench EXCEPT ![j].at = "succeeded"]
    /\ UNCHANGED <<second, length, script, ahead, measured, outcome>>

(* run_subprocess_logged returns the exit code and the job ends with it.   *)
BenchEnds(j) ==
    /\ bench[j].at = "running" /\ script[j] \in {"exit 0", "exit 1"}
    /\ bench' = [bench EXCEPT ![j].at = IF script[j] = "exit 0" THEN "succeeded" ELSE "failed"]
    /\ UNCHANGED <<second, length, script, ahead, measured, outcome>>

(* readline raises on a line beyond its limit: the job fails, and nobody   *)
(* stops the script or waits for it.                                       *)
ReadFails(j) ==
    /\ bench[j].at = "running" /\ script[j] \in {"run", "write"}
    /\ bench' = [bench EXCEPT ![j].at = "failed"]
    /\ UNCHANGED <<second, length, script, ahead, measured, outcome>>

(* The web container stops, and its scripts with it.  _mark_job_cancelled  *)
(* may still have time; otherwise the row says running, without a task.    *)
BenchRestart ==
    /\ \E j \in Jobs : script[j] \in {"run", "write"}
    /\ \E at \in {"cancelled", "orphaned"} :
         bench' = [j \in Jobs |-> IF bench[j].at = "running"
                                  THEN [bench[j] EXCEPT !.at = at] ELSE bench[j]]
    /\ script' = [j \in Jobs |-> IF script[j] = "none" THEN "none" ELSE "gone"]
    /\ UNCHANGED <<second, length, ahead, measured, outcome>>

BenchNext ==
    \/ Second \/ BenchRestart
    \/ \E j \in Jobs : \/ \E engine \in Engines : StartScenario(j, engine) \/ StartLoad(j, engine)
                       \/ RunScenario(j) \/ OpenSummary(j) \/ WriteSummary(j)
                       \/ ScriptFails(j) \/ BenchEnds(j) \/ ReadFails(j)

BenchSpec == BenchInit /\ [][BenchNext]_benchVars

-----------------------------------------------------------------------------
(* list_runs: engines by name, the newest run of each first, the first     *)
(* MaxListed of all, and the kind a directory is listed with.              *)
Runs == {bench[j].dir : j \in {o \in Jobs : bench[o].at # "new"}}
Earlier(d, e) == d[1] < e[1] \/ (d[1] = e[1] /\ d[2] > e[2])
Listed == {d \in Runs : Cardinality({e \in Runs : Earlier(e, d)}) < MaxListed}
ListedKind(d) == IF outcome[d] \in Jobs THEN bench[outcome[d]].kind ELSE "unknown"

BenchTypeOK ==
    /\ second \in Seconds /\ outcome \in [Dirs -> Jobs \cup {NoFile, Empty, Mixed}]
    /\ \A j \in Jobs : /\ bench[j].at \in {"new", "running", "succeeded", "failed", "cancelled", "orphaned"}
                       /\ bench[j].kind \in Kinds \cup {"none"}
                       /\ bench[j].dir \in Dirs \cup {NoDir}
                       /\ script[j] \in {"none", "run", "write", "exit 0", "exit 1", "gone"}

(* By the script's own guess of four characters to a token, what it sends  *)
(* leaves room for the answer in the context window, when the window is    *)
(* known.  It says nothing of the tokens the server counts, which are of   *)
(* another number and come with those of the chat template.                *)
EstimatesFit ==
    \A j \in Jobs : \A i \in ahead[j] :
        LET s == Resized(RawScenarios[i], length)
        IN  length # 0 => PromptChars(s) <= 4 * (length - s.out) /\ s.out >= 64

(* A job that succeeded is listed with its own kind and its own numbers,   *)
(* one for each scenario that fits, unless another script, of the other    *)
(* kind or left by a failed job, was started on the engine in the same     *)
(* second.  And unless the list is full: then runs of engines with earlier *)
(* names may take all of its places, newer or not, and newer ones of its   *)
(* own engine.                                                             *)
SucceededIsListed ==
    /\ BenchTypeOK
    /\ \A j \in Jobs : bench[j].at = "succeeded" =>
         /\ \/ /\ ListedKind(bench[j].dir) = bench[j].kind /\ outcome[bench[j].dir] = j
               /\ bench[j].kind = "scenario" => measured[j] = Cardinality(Scenarios(length))
            \/ \E o \in Jobs \ {j} : bench[o].at # "new" /\ bench[o].dir = bench[j].dir
         /\ \/ bench[j].dir \in Listed
            \/ /\ Cardinality(Listed) = MaxListed
               /\ \A d \in Listed : Earlier(d, bench[j].dir)
=============================================================================
