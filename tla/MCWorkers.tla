------------------------------ MODULE MCWorkers ------------------------------
(***************************************************************************)
(* Work that goes on in threads and scripts of its own: the load test, the *)
(* bench jobs and the downloads of a model, side by side.  A behaviour is  *)
(* one of the three, with the others at their initial state.               *)
(***************************************************************************)
EXTENDS LoadTest, BenchRuns, ModelPull
VARIABLE part
mcVars == <<part, loadVars, benchVars, vars>>

MCStreams == {[frames |-> <<"role", "text", "text">>, end |-> "done"],
              [frames |-> <<"empty", "junk">>, end |-> "done"],
              [frames |-> <<"text">>, end |-> "broken"]}

MCInit ==
    /\ part \in {"load", "bench", "pull"}
    /\ LoadInit /\ BenchInit /\ Init
    /\ part # "bench" => length = Min(ModelLengths)
MCNext ==
    /\ part' = part
    /\ \/ part = "load"  /\ LoadNext  /\ UNCHANGED <<benchVars, vars>>
       \/ part = "bench" /\ BenchNext /\ UNCHANGED <<loadVars, vars>>
       \/ part = "pull"  /\ Next      /\ UNCHANGED <<loadVars, benchVars>>

(* LoadFairness, of the behaviours that are a load test; that of the pulls *)
(* asks nothing of a model that nobody has created.                        *)
MCFairness ==
    /\ WF_loadVars(part = "load" /\ Controller) /\ WF_loadVars(part = "load" /\ Main)
    /\ \A u \in Users : WF_loadVars(part = "load" /\ Count(u))
    /\ Fairness

MCSpec == MCInit /\ [][MCNext]_mcVars /\ MCFairness

(* RunEnds of LoadTest, of the behaviours that are a load test.            *)
LoadTestEnds == part = "load" => RunEnds
=============================================================================
