------------------------------ MODULE LogReport -------------------------------
(***************************************************************************)
(* Reports on container logs: POST /log-reports (api/v1/log_reports.py)    *)
(* and the pipeline of services/log_report.py, which asks Loki once, draws *)
(* facts from the lines and has an LLM put them in words, or does so       *)
(* itself.                                                                 *)
(*                                                                         *)
(* A line is its bucket of five minutes, its container and the signs the   *)
(* patterns find in it; containers are numbered in the order of their      *)
(* names.  Facts hold the lines that were counted, not their number; the   *)
(* counts of block markers and the samples are left out.  The              *)
(* request goes on after it has submitted the job, and the pipeline may be *)
(* over before the request commits.  Nobody deletes a report, so the       *)
(* branches for a missing row are left out, and so is the 409: the key     *)
(* report:{id} is new.                                                     *)
(***************************************************************************)
EXTENDS Naturals, FiniteSets

CONSTANTS LogLines,       \* what Loki may have: [at, container, signs]
          MaxLines,       \* what requests may ask for as max_lines
          ReportFallback, \* _LOKI_FALLBACK_LIMIT
          ServerLimits,   \* what servers may allow per query
          MaxBuckets,     \* 500, of the timeline
          MaxTotals,      \* 40, containers of by_container_total
          MaxContainers,  \* 30, containers of each list of severity_by_container
          MaxFaults       \* bound: transactions and queries that fail, and
                          \* stops of the process, together

(* What _OOM_RE, _CUDA_NEEDLES, _ERROR_RE and _WARN_RE find in a line.     *)
Signs == {"oom", "cuda", "error", "warn"}

ASSUME LogReportAssumption ==
    /\ IsFiniteSet(LogLines)
    /\ \A l \in LogLines : l.at \in Nat /\ l.container \in Nat /\ l.signs \subseteq Signs
    /\ MaxTotals \in Nat /\ MaxContainers \in Nat
    /\ MaxLines \subseteq Nat /\ ServerLimits \subseteq Nat
    /\ ReportFallback \in Nat /\ MaxBuckets \in Nat /\ MaxFaults \in Nat

VARIABLES
    logs,    \* the lines of the period Loki has
    server,  \* max_entries_limit_per_query of the server
    asked,   \* history: logs when the report was asked for
    report,  \* the row of log_reports
    rjob,    \* jobs.status
    request, \* where POST is
    pipe,    \* where the pipeline is
    facts,   \* what it has drawn from the lines
    warning, \* llm_warning is set
    faults

reportVars == <<logs, server, asked, report, rjob, request, pipe, facts, warning, faults>>

Lists == {"oom", "cuda", "errorish", "warningish"}
NoFacts == [lines |-> {}, truncated |-> FALSE, refused |-> FALSE, totals |-> {},
            severity |-> [k \in Lists |-> {}], timeline |-> {}]
NoReport == [status |-> "none", max |-> 0, job |-> FALSE, facts |-> NoFacts,
             text |-> "none", error |-> "none"]

ReportInit ==
    /\ logs \in SUBSET LogLines /\ server \in ServerLimits
    /\ asked = {} /\ report = NoReport /\ rjob = "none"
    /\ request = "idle" /\ pipe = "none" /\ facts = NoFacts /\ warning = FALSE /\ faults = 0

Fault == faults < MaxFaults /\ faults' = faults + 1

-----------------------------------------------------------------------------
(* create_log_report: the row is committed before the job is submitted.    *)
AskReport ==
    /\ request = "idle"
    /\ \E max \in MaxLines : report' = [NoReport EXCEPT !.status = "pending", !.max = max]
    /\ asked' = logs /\ request' = "submit"
    /\ UNCHANGED <<logs, server, rjob, pipe, facts, warning, faults>>

(* The job starts and reports RUNNING.                                     *)
SubmitReport ==
    /\ request = "submit"
    /\ rjob' = "running" /\ pipe' = "open" /\ request' = "link"
    /\ UNCHANGED <<logs, server, asked, report, facts, warning, faults>>

(* The INSERT of the job raises: the row stays.                            *)
SubmitReportFails ==
    /\ request = "submit" /\ Fault
    /\ request' = "over"
    /\ UNCHANGED <<logs, server, asked, report, rjob, pipe, facts, warning>>

(* The request commits job_id, and no other column; or cannot.             *)
LinkReport ==
    /\ request = "link" /\ request' = "over"
    /\ \/ report' = [report EXCEPT !.job = TRUE] /\ UNCHANGED faults
       \/ Fault /\ UNCHANGED report
    /\ UNCHANGED <<logs, server, asked, rjob, pipe, facts, warning>>

(* Lines of the period keep coming in.                                     *)
LineArrives ==
    /\ pipe # "over"
    /\ \E l \in LogLines \ logs : logs' = logs \cup {l}
    /\ UNCHANGED <<server, asked, report, rjob, request, pipe, facts, warning, faults>>

-----------------------------------------------------------------------------
(* The pipeline                                                            *)

OpenReport ==
    /\ pipe = "open" /\ pipe' = "query"
    /\ report' = [report EXCEPT !.status = "running"]
    /\ UNCHANGED <<logs, server, asked, rjob, request, facts, warning, faults>>

(* query_range, backward: a limit the server refuses is asked again with   *)
(* the fallback.                                                           *)
Limit(max) == IF max <= server THEN max ELSE ReportFallback
Answers(max) == max <= server \/ (ReportFallback < max /\ ReportFallback <= server)

Pages(n) == {p \in SUBSET logs :
               /\ Cardinality(p) <= n /\ (p # logs => Cardinality(p) = n)
               /\ \A l \in p, m \in logs \ p : l.at >= m.at}

With(lines, sign) == {l \in lines : sign \in l.signs}

(* Which list a line goes to, it may be several: CUDA is only looked for   *)
(* where there is no OOM, a line that counts as CUDA does not count as an  *)
(* error, and an error not as a warning.                                   *)
Hits(lines) ==
    LET cuda == With(lines, "cuda") \ With(lines, "oom") IN
    [oom        |-> With(lines, "oom"),
     cuda       |-> cuda,
     errorish   |-> With(lines, "error") \ cuda,
     warningish |-> With(lines, "warn") \ With(lines, "error")]

ContainersOf(lines) == {l.container : l \in lines}
Of(lines, c) == {l \in lines : l.container = c}

(* sorted(..., key=(-count, name))                                         *)
Before(lines, c, d) ==
    LET n(x) == Cardinality(Of(lines, x))
    IN n(c) > n(d) \/ (n(c) = n(d) /\ c < d)
(* The lines of the first n containers.                                    *)
Top(lines, n) ==
    {l \in lines :
       Cardinality({c \in ContainersOf(lines) : Before(lines, c, l.container)}) < n}

(* Mutant: cut only if the page has more lines than were asked for.        *)
CutBeyond(lines, max) == Cardinality(lines) > max

(* loki_truncated                                                          *)
Cut(lines, max) == Cardinality(lines) + 1 >= max

(* build_facts_bundle.  The timeline keeps the oldest buckets.             *)
Facts(lines, max, refused) ==
    LET at == {l.at : l \in lines} IN
    [lines     |-> lines,
     truncated |-> Cut(lines, max),
     refused   |-> refused,
     totals    |-> Top(lines, MaxTotals),
     severity  |-> [k \in Lists |-> Top(Hits(lines)[k], MaxContainers)],
     timeline  |-> {b \in at : Cardinality({a \in at : a < b}) < MaxBuckets}]

Query ==
    /\ pipe = "query" /\ Answers(report.max)
    /\ \E p \in Pages(Limit(report.max)) : facts' = Facts(p, report.max, report.max > server)
    /\ pipe' = "words"
    /\ UNCHANGED <<logs, server, asked, report, rjob, request, warning, faults>>

(* Loki does not answer, or with an error; both limits may be refused.     *)
QueryFails ==
    /\ pipe = "query"
    /\ IF Answers(report.max) THEN Fault ELSE UNCHANGED faults
    /\ pipe' = "failing"
    /\ UNCHANGED <<logs, server, asked, report, rjob, request, facts, warning>>

(* call_litellm_chat: there is a key and the LLM answers with a text, or   *)
(* the report is rendered from the facts.                                  *)
Word ==
    /\ pipe = "words" /\ pipe' = "save"
    /\ warning' \in BOOLEAN
    /\ UNCHANGED <<logs, server, asked, report, rjob, request, facts, faults>>

(* Mutant: the job is finished, and the status of the row is left.         *)
SaveJobFirst ==
    /\ pipe = "save" /\ pipe' = "saved"
    /\ report' = [report EXCEPT !.facts = facts, !.text = IF warning THEN "local" ELSE "llm",
                                !.error = IF warning THEN "llm" ELSE "none"]
    /\ rjob' = "succeeded"
    /\ UNCHANGED <<logs, server, asked, request, facts, warning, faults>>

Save ==
    /\ pipe = "save" /\ pipe' = "saved"
    /\ report' = [report EXCEPT !.status = "succeeded", !.facts = facts,
                                !.text = IF warning THEN "local" ELSE "llm",
                                !.error = IF warning THEN "llm" ELSE "none"]
    /\ UNCHANGED <<logs, server, asked, rjob, request, facts, warning, faults>>

FinishJob ==
    /\ pipe = "saved" /\ pipe' = "over"
    /\ rjob' = "succeeded"
    /\ UNCHANGED <<logs, server, asked, report, request, facts, warning, faults>>

(* A transaction in the try block raises.                                  *)
SaveFails ==
    /\ pipe \in {"save", "saved"} /\ Fault
    /\ pipe' = "failing"
    /\ UNCHANGED <<logs, server, asked, report, rjob, request, facts, warning>>

(* except Exception: first the row, then the job.                          *)
FailReport ==
    /\ pipe = "failing" /\ pipe' = "failed"
    /\ report' = [report EXCEPT !.status = "failed", !.error = "raised"]
    /\ UNCHANGED <<logs, server, asked, rjob, request, facts, warning, faults>>

FailReportJob ==
    /\ pipe = "failed" /\ pipe' = "over"
    /\ rjob' = "failed"
    /\ UNCHANGED <<logs, server, asked, report, request, facts, warning, faults>>

(* A transaction raises where nobody catches it, or the web process stops; *)
(* then _mark_job_cancelled may still have time.                           *)
ReportAborts ==
    /\ pipe \notin {"none", "over"} /\ Fault
    /\ pipe' = "over"
    /\ rjob' \in {rjob, "cancelled"}
    /\ UNCHANGED <<logs, server, asked, report, request, facts, warning>>

ReportNext == \/ AskReport \/ SubmitReport \/ SubmitReportFails \/ LinkReport \/ LineArrives
              \/ OpenReport \/ Query \/ QueryFails \/ Word \/ Save \/ FinishJob \/ SaveFails
              \/ FailReport \/ FailReportJob \/ ReportAborts

ReportSpec == ReportInit /\ [][ReportNext]_reportVars

-----------------------------------------------------------------------------
ReportTypeOK ==
    /\ asked \subseteq logs /\ logs \subseteq LogLines /\ server \in ServerLimits
    /\ report.status \in {"none", "pending", "running", "succeeded", "failed"}
    /\ rjob \in {"none", "running", "succeeded", "failed", "cancelled"}
    /\ request \in {"idle", "submit", "link", "over"}
    /\ pipe \in {"none", "open", "query", "words", "save", "saved", "failing", "failed", "over"}
    /\ facts.lines \subseteq logs /\ warning \in BOOLEAN /\ faults \in 0..MaxFaults

(* A list counts the lines of whole containers, and leaves containers out  *)
(* only if it has n others, each with at least as many lines.              *)
Ranked(kept, lines, n) ==
    /\ kept \subseteq lines
    /\ \A l \in kept : Of(lines, l.container) \subseteq kept
    /\ kept # lines => Cardinality(ContainersOf(kept)) = n
    /\ \A l \in kept, m \in lines \ kept :
         Cardinality(Of(lines, l.container)) >= Cardinality(Of(lines, m.container))

(* What a report that has succeeded leaves out can be told from it.  It is *)
(* about the newest lines; of those Loki had when the report was asked     *)
(* for, it has all, or says it was cut, unless the server refused the      *)
(* limit, which the pipeline does not learn.  Every line with a sign of    *)
(* trouble goes to a list: the rules by which OOM hides CUDA, CUDA hides   *)
(* errors and errors hide warnings hide no line from all.  And a list with *)
(* fewer containers than fit leaves none out; a full one may, those with   *)
(* the fewest lines.  The report tells whose its text is.  (The timeline,  *)
(* which ends after MaxBuckets, is not part of this.)  The state is well   *)
(* typed on the way.                                                       *)
NewestOrTold ==
    /\ ReportTypeOK
    /\ report.status = "succeeded" =>
        LET f    == report.facts
            hits == Hits(f.lines)
        IN
        /\ f.truncated \/ f.refused \/ asked \subseteq f.lines
        /\ \A l \in f.lines, m \in asked \ f.lines : l.at >= m.at
        /\ \A l \in f.lines : l.signs # {} => \E k \in Lists : l \in hits[k]
        /\ Ranked(f.totals, f.lines, MaxTotals)
        /\ \A k \in Lists : Ranked(f.severity[k], hits[k], MaxContainers)
        /\ \/ report.text = "llm" /\ report.error = "none"
           \/ report.text = "local" /\ report.error = "llm"

(* The report is a Delivery of its text.                                   *)
Reporting == pipe \notin {"none", "over"}
Reported  == IF report.text = "none" THEN "none" ELSE "whole"

(* Row and job are finished by two transactions, the request commits       *)
(* beside them, and any of these steps may fail or be the last one of the  *)
(* process; still a report that has succeeded has its text, and a job that *)
(* has succeeded or failed says what the report says, for good.  One that  *)
(* was cut off may leave the report running.                               *)
Report == INSTANCE Delivery WITH status <- report.status, job <- rjob,
              product <- Reported, live <- Reporting
ReportDelivers == Report!Spec
=============================================================================
