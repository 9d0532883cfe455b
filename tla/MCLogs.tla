------------------------------- MODULE MCLogs ---------------------------------
(***************************************************************************)
(* Log export, log reports and the sink of the application's own log, side *)
(* by side: a behaviour is one of the three, with the others at one of     *)
(* their initial states.                                                   *)
(***************************************************************************)
EXTENDS LogExport, LogReport, AppLogSink
VARIABLE part
mcVars == <<part, vars, reportVars, sinkVars>>

(* Every way in which one sign hides another, a line without any, and      *)
(* containers that tie or win in a list.                                   *)
mcLines == {[at |-> 0, container |-> 1, signs |-> {"oom", "cuda", "error"}],
            [at |-> 0, container |-> 2, signs |-> {}],
            [at |-> 1, container |-> 2, signs |-> {"cuda", "error", "warn"}],
            [at |-> 1, container |-> 2, signs |-> {"error"}],
            [at |-> 2, container |-> 2, signs |-> {"error", "warn"}]}

MCInit ==
    /\ part \in {"export", "report", "sink"}
    /\ Init /\ ReportInit /\ SinkInit
    /\ part # "export" => \A t \in Ns : stored[t] = 0
    /\ part # "report" => logs = {} /\ \A s \in ServerLimits : server <= s
MCNext ==
    /\ part' = part
    /\ \/ part = "export" /\ Next /\ UNCHANGED <<reportVars, sinkVars>>
       \/ part = "report" /\ ReportNext /\ UNCHANGED <<vars, sinkVars>>
       \/ part = "sink" /\ SinkNext /\ UNCHANGED <<vars, reportVars>>

(* Loki and the database answer or fail within their timeouts; the event   *)
(* loop runs its callbacks and resumes its tasks.                          *)
MCFairness ==
    /\ WF_vars(part = "export" /\ Progress)
    /\ WF_sinkVars(part = "sink" /\ Put)
    /\ WF_sinkVars(part = "sink" /\ WriterProgress)
    /\ WF_sinkVars(part = "sink" /\ StopProgress)
MCSpec == MCInit /\ [][MCNext]_mcVars /\ MCFairness
=============================================================================
