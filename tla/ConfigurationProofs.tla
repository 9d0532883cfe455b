------------------------- MODULE ConfigurationProofs -------------------------
(***************************************************************************)
(* Theorems about the parameters of the stack (StackConfig), the presets   *)
(* (PresetStore) and the compose projects that run on the parameters       *)
(* (MonitoringStack), the three modules that MCConfiguration puts side by  *)
(* side: each for every set of keys, names, requests and parameters and    *)
(* for every bound.                                                        *)
(***************************************************************************)
EXTENDS StackConfig, PresetStore, MonitoringStack, WellFoundedInduction, TLAPS

-----------------------------------------------------------------------------
(* The monitoring and the proxy project                                    *)

Actions == {"none", "up", "down", "restart", "fix-perms"}
Moments == {"idle", "start", "rendered", "network", "bootstrap", "mark", "compose", "chown"}
(* Where a job has written the env of compose.                             *)
Late    == {"network", "bootstrap", "mark", "compose"}
Read    == {"rendered"} \cup Late
Said    == Configs \cup {"none"}
Tasks   == [project : Projects \cup {"none"}, action : Actions, at : Moments, cfg : Said,
            services : SUBSET {"core", "dcgm"}, boot : SUBSET Bootstraps]
Ran     == [env : Said, files : Said]

Shapes ==
    /\ task \in Tasks
    /\ DOMAIN run = Projects /\ \A p \in Projects : run[p] \in [Services(p) -> Ran]
    /\ rendered \in [cfg : Said, scrape : BOOLEAN]

(* What a container that is started now runs with.                         *)
Current ==
    [env |-> env, files |-> IF task.project = "monitoring" THEN rendered.cfg ELSE "none"]

(* A job that has read the parameters is no longer settled, and what it    *)
(* has written is what it has read.                                        *)
Works ==
    /\ task.at = "idle" <=> task.project = "none"
    /\ task.at = "start" => task.action # "none"
    /\ task.at \in Read =>
         /\ task.cfg \in Configs /\ task.action \in {"up", "down", "restart"}
         /\ \A a \in {"up", "restart"} : <<task.project, a>> \notin settled
    /\ task.at = "chown" => task.cfg \in Configs
    /\ task.at \in {"network", "bootstrap", "mark"} => Starts(task) /\ "core" \in task.services
    /\ task.at \in {"bootstrap", "mark"} => task.project = "proxy" /\ task.action = "up"
    /\ task.at \in Late => env = task.cfg
    /\ task.at \in Read /\ Starts(task) /\ task.project = "monitoring" =>
         rendered.cfg = task.cfg
    /\ task.at = "mark" => task.boot # {}

(* What compose has been through runs with what it is started with now,    *)
(* and the exporter is among the services if it is scraped.                *)
Scraped ==
    /\ task.at = "rendered" /\ Starts(task) /\ task.project = "monitoring" =>
         flipped \/ rendered.scrape = gpu
    /\ task.at \in Late /\ Starts(task) =>
         /\ task.project = "proxy" => task.services \subseteq {"core"}
         /\ "core" \in task.services \/ run[task.project]["core"] = Current
         /\ task.project = "monitoring" /\ rendered.scrape =>
              flipped \/ "dcgm" \in task.services \/ run["monitoring"]["dcgm"] = Current

(* Bootstrap service b has done its work where a proxy with env e looks    *)
(* for it, or a PATCH has moved it since.                                  *)
Made(b, e) == \/ <<PlaceOf[e][b], b>> \in made
              \/ b \in moved /\ \E x \in Places : <<x, b>> \in made

(* What no PATCH has moved was made where the parameters say, those a job  *)
(* has read and those of now, and a marker stands for something made.      *)
Stays(b) ==
    /\ \A x \in Places : <<x, b>> \in made => x = PlaceOf[cfg][b]
    /\ task.at \in Read => PlaceOf[task.cfg][b] = PlaceOf[cfg][b]
Home ==
    /\ \A b \in Bootstraps \ moved : Stays(b)
    /\ \A b \in markers : \E x \in Places : <<x, b>> \in made
    /\ task.at = "mark" => <<PlaceOf[env][NextBoot], NextBoot>> \in made
    /\ task.at \in {"bootstrap", "mark", "compose"} /\ task.project = "proxy"
         /\ task.action = "up" =>
         \A b \in Bootstraps : (task.at # "compose" /\ b \in task.boot) \/ Made(b, env)

StackIInv == Shapes /\ Works /\ Scraped /\ Home /\ OneConfig /\ BootstrapDone

(* One container is replaced: only its entry of `run` changes.             *)
LEMMA RecreateEffect ==
    ASSUME StackIInv, NEW s \in {"core", "dcgm"}, Recreate(s)
    PROVE  /\ task.project \in Projects /\ s \in Services(task.project)
           /\ run[task.project] \in [Services(task.project) -> Ran]
           /\ DOMAIN run' = Projects
           /\ \A p \in Projects \ {task.project} : run'[p] = run[p]
           /\ run'[task.project] = [run[task.project] EXCEPT ![s] = Current]
           /\ Current \in Ran
           /\ task' = [task EXCEPT !.services = task.services \ {s}]
           /\ task.at = "compose" /\ Starts(task) /\ s \in task.services
<1>1. task.project \in Projects /\ task.at = "compose" /\ Starts(task) /\ s \in task.services
  BY DEF Recreate, StackIInv, Shapes, Works, Tasks, Projects
<1>2. s \in Services(task.project)
  BY <1>1 DEF StackIInv, Scraped, Services, Late, Projects
<1>3. Current \in Ran
  BY DEF StackIInv, Shapes, Current, Ran, Said, OneConfig, StackTypeOK
<1>4. /\ DOMAIN run = Projects
      /\ run[task.project] \in [Services(task.project) -> Ran]
  BY <1>1 DEF StackIInv, Shapes
<1>5. run' = [run EXCEPT ![task.project] = [run[task.project] EXCEPT ![s] = Current]]
  BY DEF Recreate, Current
<1> HIDE DEF Ran, Current
<1>6. /\ DOMAIN run' = Projects
      /\ \A p \in Projects \ {task.project} : run'[p] = run[p]
      /\ run'[task.project] = [run[task.project] EXCEPT ![s] = Current]
  BY <1>1, <1>4, <1>5
<1>7. task' = [task EXCEPT !.services = task.services \ {s}]
  BY DEF Recreate
<1> QED  BY <1>1, <1>2, <1>3, <1>4, <1>6, <1>7

(* down empties entries of its own project only.                           *)
LEMMA TakeDownEffect ==
    ASSUME StackIInv, TakeDown
    PROVE  /\ task.project \in Projects /\ task.at = "compose" /\ task.action = "down"
           /\ DOMAIN run' = Projects
           /\ \A p \in Projects \ {task.project} : run'[p] = run[p]
           /\ run'[task.project] \in [Services(task.project) -> Ran]
           /\ task' = [task EXCEPT !.services = {}]
<1>1. task.project \in Projects /\ task.at = "compose" /\ task.action = "down"
  BY DEF TakeDown, StackIInv, Shapes, Works, Tasks, Projects
<1>2. /\ DOMAIN run = Projects
      /\ run[task.project] \in [Services(task.project) -> Ran]
  BY <1>1 DEF StackIInv, Shapes
<1>3. PICK gone \in {{"core"}, Services(task.project)} :
        run' = [run EXCEPT ![task.project] =
                  [s \in DOMAIN run[task.project] |->
                     IF s \in gone THEN Nothing ELSE run[task.project][s]]]
  BY DEF TakeDown
<1>4. Nothing \in Ran
  BY DEF Nothing, Ran, Said
<1>5. DEFINE f == [s \in Services(task.project) |->
                     IF s \in gone THEN Nothing ELSE run[task.project][s]]
<1>6. f \in [Services(task.project) -> Ran]
  BY <1>2, <1>4
<1>7. run' = [run EXCEPT ![task.project] = f]
  BY <1>2, <1>3
<1> HIDE DEF f
<1>8. /\ DOMAIN run' = Projects
      /\ \A p \in Projects \ {task.project} : run'[p] = run[p]
      /\ run'[task.project] = f
  BY <1>1, <1>2, <1>7
<1>9. task' = [task EXCEPT !.services = {}]
  BY DEF TakeDown
<1> QED  BY <1>1, <1>6, <1>8, <1>9

(* A step of the bootstrap: on to compose, a service that is passed over,  *)
(* or one that runs and leaves the proxy without containers.               *)
LEMMA BootstrapEffect ==
    ASSUME StackIInv, Bootstrap
    PROVE  /\ task.at = "bootstrap" /\ task.project = "proxy" /\ task.action = "up"
           /\ DOMAIN run' = Projects
           /\ run'["monitoring"] = run["monitoring"]
           /\ run'["proxy"] \in [Services("proxy") -> Ran]
           /\ \/ /\ task.boot = {} /\ made' = made
                 /\ task' = [task EXCEPT !.at = "compose"]
              \/ /\ task.boot # {} /\ NextBoot \in markers /\ made' = made
                 /\ task' = [task EXCEPT !.boot = task.boot \ {NextBoot}]
              \/ /\ task.boot # {} /\ made' = made \cup {<<PlaceOf[env][NextBoot], NextBoot>>}
                 /\ task' = [task EXCEPT !.at = "mark"]
<1>1. task.at = "bootstrap" /\ task.project = "proxy" /\ task.action = "up"
  BY DEF Bootstrap, StackIInv, Works
<1>2. /\ DOMAIN run = Projects /\ "proxy" \in Projects /\ "monitoring" \in Projects
      /\ run["proxy"] \in [Services("proxy") -> Ran]
  BY DEF StackIInv, Shapes, Projects
<1>3. DEFINE none == [s \in Services("proxy") |-> Nothing]
<1>4. none \in [Services("proxy") -> Ran]
  BY DEF Nothing, Ran, Said
<1>5. run' = run \/ run' = [run EXCEPT !["proxy"] = none]
  BY DEF Bootstrap
<1> HIDE DEF none
<1>6. /\ DOMAIN run' = Projects
      /\ run'["monitoring"] = run["monitoring"]
      /\ run'["proxy"] \in [Services("proxy") -> Ran]
  BY <1>2, <1>4, <1>5
<1>7. \/ /\ task.boot = {} /\ made' = made
         /\ task' = [task EXCEPT !.at = "compose"]
      \/ /\ task.boot # {} /\ NextBoot \in markers /\ made' = made
         /\ task' = [task EXCEPT !.boot = task.boot \ {NextBoot}]
      \/ /\ task.boot # {} /\ made' = made \cup {<<PlaceOf[env][NextBoot], NextBoot>>}
         /\ task' = [task EXCEPT !.at = "mark"]
  BY DEF Bootstrap
<1> QED  BY <1>1, <1>6, <1>7

(* The three ways on of a job that was asked for: it is refused, it goes   *)
(* on to fix-perms, or it takes the parameters it reads.                   *)
Refused == task' = NoTask /\ UNCHANGED <<rendered, settled, flipped>>
Chowns  == /\ task.action = "fix-perms" /\ cfg \in Configs
           /\ task' = [task EXCEPT !.at = "chown", !.cfg = cfg]
           /\ UNCHANGED <<rendered, settled>> /\ (flipped' <=> flipped)
Taken   == /\ task.action \in {"up", "down", "restart"} /\ cfg \in Configs
           /\ task' = [task EXCEPT !.at = "rendered", !.cfg = cfg]
           /\ settled' = settled \ ({task.project} \X {"up", "restart"})
           /\ Starts(task) /\ task.project = "monitoring" =>
                rendered' = [cfg |-> cfg, scrape |-> gpu] /\ ~flipped'
           /\ ~(Starts(task) /\ task.project = "monitoring") =>
                rendered' = rendered /\ (flipped' <=> flipped)

(* Prepare ends in one of the three, and nothing else changes.             *)
LEMMA PrepareEffect ==
    ASSUME StackIInv, Prepare
    PROVE  /\ task.at = "start" /\ task.project \in Projects /\ task.action \in Actions \ {"none"}
           /\ config' \in {"file", "dir", "none"}
           /\ UNCHANGED <<cfg, gpu, git, env, network, run, markers, made, owned, moved>>
           /\ Refused \/ Chowns \/ Taken
<1>1. task.at = "start" /\ task.project \in Projects /\ task.action \in Actions \ {"none"}
  BY DEF Prepare, StackIInv, Shapes, Works, Tasks, Projects
<1>2. config' \in {"file", "dir", "none"}
  BY DEF Prepare, Ensured, StackIInv, OneConfig, StackTypeOK
<1>3. UNCHANGED <<cfg, gpu, git, env, network, run, markers, made, owned, moved>>
  BY DEF Prepare
<1> DEFINE refused == cfg \notin Complete \/ (Starts(task) /\ Ensured # "file")
<1>4. CASE refused
  BY <1>1, <1>2, <1>3, <1>4 DEF Prepare, Refused
<1>5. CASE ~refused
  <2>1. /\ task' = [task EXCEPT !.at = IF task.action = "fix-perms" THEN "chown" ELSE "rendered",
                                !.cfg = cfg]
        /\ rendered' = IF Starts(task) THEN Rendered ELSE rendered
        /\ settled' = IF task.action = "fix-perms" THEN settled
                      ELSE settled \ ({task.project} \X {"up", "restart"})
        /\ flipped' = (flipped /\ ~(Starts(task) /\ task.project = "monitoring"))
    BY <1>5 DEF Prepare
  <2>2. cfg \in Configs
    BY <1>5, MonitoringAssumption
  <2> HIDE DEF refused
  <2>3. ~(Starts(task) /\ task.project = "monitoring") =>
          rendered' = rendered /\ (flipped' <=> flipped)
    BY <2>1 DEF Rendered
  <2>4. Starts(task) /\ task.project = "monitoring" =>
          rendered' = [cfg |-> cfg, scrape |-> gpu] /\ ~flipped'
    BY <2>1 DEF Rendered
  <2>5. CASE task.action = "fix-perms"
    BY <1>1, <1>2, <1>3, <2>1, <2>2, <2>3, <2>5 DEF Starts, Chowns
  <2>6. CASE task.action # "fix-perms"
    <3>1. task.action \in {"up", "down", "restart"}
      BY <1>1, <2>6 DEF Actions
    <3>2. /\ task' = [task EXCEPT !.at = "rendered", !.cfg = cfg]
          /\ settled' = settled \ ({task.project} \X {"up", "restart"})
      BY <2>1, <2>6
    <3> QED  BY <1>1, <1>2, <1>3, <2>2, <2>3, <2>4, <3>1, <3>2 DEF Taken
  <2> QED  BY <2>5, <2>6
<1> QED  BY <1>4, <1>5

(* The job, the containers and the rendered configs keep their shape.      *)
LEMMA ShapesStep ==
    ASSUME StackIInv, [StackNext]_stackVars
    PROVE  Shapes'
<1>1. ASSUME NEW s \in {"core", "dcgm"}, Recreate(s) PROVE Shapes'
  <2>1. \A p \in Projects : run'[p] \in [Services(p) -> Ran]
    BY <1>1, RecreateEffect DEF StackIInv, Shapes
  <2>2. task' \in Tasks
    BY <1>1, RecreateEffect DEF StackIInv, Shapes, Tasks
  <2> QED  BY <1>1, RecreateEffect, <2>1, <2>2 DEF Recreate, StackIInv, Shapes
<1>2. CASE Prepare
  <2>1. cfg \in Said /\ gpu \in BOOLEAN
    BY DEF StackIInv, OneConfig, StackTypeOK, Said
  <2>2. rendered' \in [cfg : Said, scrape : BOOLEAN]
    BY <1>2, PrepareEffect, <2>1 DEF Refused, Chowns, Taken, StackIInv, Shapes
  <2>3. task' \in Tasks
    <3>1. CASE Refused
      BY <3>1 DEF Refused, Tasks, NoTask, Said, Actions, Moments
    <3>2. CASE Chowns
      BY <2>1, <3>2 DEF Chowns, StackIInv, Shapes, Tasks, Moments
    <3>3. CASE Taken
      BY <2>1, <3>3 DEF Taken, StackIInv, Shapes, Tasks, Moments
    <3> QED  BY <1>2, PrepareEffect, <3>1, <3>2, <3>3
  <2> QED  BY <1>2, PrepareEffect, <2>2, <2>3 DEF StackIInv, Shapes
<1> USE DEF StackIInv, Shapes, OneConfig, StackTypeOK, Tasks, Actions, Moments, Said,
       NoTask, Projects, Starts, Bootstraps
<1>3. CASE TakeDown
  BY <1>3, TakeDownEffect DEF TakeDown
<1>4. CASE Bootstrap
  BY <1>4, BootstrapEffect DEF Bootstrap
<1>5. CASE PatchConfig
  BY <1>5 DEF PatchConfig
<1>6. CASE ProbeChanges
  BY <1>6 DEF ProbeChanges
<1>7. ASSUME NEW p \in Projects, NEW a \in Actions \ {"none"}, RequestAction(p, a)
      PROVE  Shapes'
  BY <1>7 DEF RequestAction
<1>8. CASE WriteEnv
  BY <1>8 DEF WriteEnv
<1>9. CASE EnsureNetwork
  BY <1>9 DEF EnsureNetwork
<1>10. CASE Mark
  BY <1>10 DEF Mark
<1>11. CASE ComposeEnds
  BY <1>11 DEF ComposeEnds
<1>12. CASE FixPerms
  BY <1>12 DEF FixPerms
<1>13. CASE TaskFails
  BY <1>13 DEF TaskFails
<1>14. CASE UNCHANGED stackVars
  BY <1>14 DEF stackVars
<1> QED  BY <1>1, <1>2, <1>3, <1>4, <1>5, <1>6, <1>7, <1>8, <1>9, <1>10, <1>11, <1>12,
       <1>13, <1>14 DEF StackNext, Actions

(* Every step of the stack keeps the types.                                *)
LEMMA StackTypes ==
    ASSUME StackIInv, [StackNext]_stackVars
    PROVE  StackTypeOK'
<1> USE MonitoringAssumption DEF StackIInv, Shapes, OneConfig, StackTypeOK, Tasks, Said,
       NoTask, Projects, Starts, Late, Read, Works, Bootstraps, NextBoot
<1>1. ASSUME NEW s \in {"core", "dcgm"}, Recreate(s) PROVE StackTypeOK'
  BY <1>1, RecreateEffect DEF Recreate
<1>2. CASE TakeDown
  BY <1>2, TakeDownEffect DEF TakeDown
<1>3. CASE Bootstrap
  BY <1>3, BootstrapEffect DEF Bootstrap
<1>4. CASE PatchConfig
  BY <1>4 DEF PatchConfig
<1>5. CASE ProbeChanges
  BY <1>5 DEF ProbeChanges
<1>6. ASSUME NEW p \in Projects, NEW a \in Actions \ {"none"}, RequestAction(p, a)
      PROVE  StackTypeOK'
  BY <1>6 DEF RequestAction
<1>7. CASE Prepare
  <2>1. CASE Refused
    BY <1>7, PrepareEffect, <2>1 DEF Refused
  <2>2. CASE Chowns
    BY <1>7, PrepareEffect, <2>2 DEF Chowns
  <2>3. CASE Taken
    BY <1>7, PrepareEffect, <2>3 DEF Taken
  <2> QED  BY <1>7, PrepareEffect, <2>1, <2>2, <2>3
<1>8. CASE WriteEnv
  BY <1>8 DEF WriteEnv
<1>9. CASE EnsureNetwork
  BY <1>9 DEF EnsureNetwork
<1>10. CASE Mark
  BY <1>10 DEF Mark
<1>11. CASE ComposeEnds
  BY <1>11 DEF ComposeEnds
<1>12. CASE FixPerms
  BY <1>12 DEF FixPerms
<1>13. CASE TaskFails
  BY <1>13 DEF TaskFails
<1>14. CASE UNCHANGED stackVars
  BY <1>14 DEF stackVars
<1> QED  BY <1>1, <1>2, <1>3, <1>4, <1>5, <1>6, <1>7, <1>8, <1>9, <1>10, <1>11, <1>12,
       <1>13, <1>14 DEF StackNext, Actions

(* A job goes on with what it has read, and what it has written stays.     *)
LEMMA WorksStep ==
    ASSUME StackIInv, [StackNext]_stackVars
    PROVE  Works'
<1> USE DEF StackIInv, Shapes, OneConfig, StackTypeOK, Tasks, Works, Read, Late, NoTask,
       Starts, Actions, Moments, Projects, Bootstraps
<1>1. ASSUME NEW s \in {"core", "dcgm"}, Recreate(s) PROVE Works'
  BY <1>1, RecreateEffect DEF Recreate
<1>2. CASE TakeDown
  BY <1>2, TakeDownEffect DEF TakeDown
<1>3. CASE Bootstrap
  BY <1>3, BootstrapEffect DEF Bootstrap
<1>4. CASE PatchConfig
  BY <1>4 DEF PatchConfig
<1>5. CASE ProbeChanges
  BY <1>5 DEF ProbeChanges
<1>6. ASSUME NEW p \in Projects, NEW a \in Actions \ {"none"}, RequestAction(p, a)
      PROVE  Works'
  BY <1>6 DEF RequestAction
<1>7. CASE Prepare
  <2>1. CASE Refused
    BY <1>7, PrepareEffect, <2>1 DEF Refused
  <2>2. CASE Chowns
    BY <1>7, PrepareEffect, <2>2 DEF Chowns
  <2>3. CASE Taken
    BY <1>7, PrepareEffect, <2>3 DEF Taken
  <2> QED  BY <1>7, PrepareEffect, <2>1, <2>2, <2>3
<1>8. CASE WriteEnv
  BY <1>8 DEF WriteEnv
<1>9. CASE EnsureNetwork
  BY <1>9 DEF EnsureNetwork
<1>10. CASE Mark
  BY <1>10 DEF Mark
<1>11. CASE ComposeEnds
  BY <1>11 DEF ComposeEnds
<1>12. CASE FixPerms
  BY <1>12 DEF FixPerms
<1>13. CASE TaskFails
  BY <1>13 DEF TaskFails
<1>14. CASE UNCHANGED stackVars
  BY <1>14 DEF stackVars
<1> QED  BY <1>1, <1>2, <1>3, <1>4, <1>5, <1>6, <1>7, <1>8, <1>9, <1>10, <1>11, <1>12,
       <1>13, <1>14 DEF StackNext, Actions

(* What compose has started is not touched before the job ends.            *)
LEMMA ScrapedStep ==
    ASSUME StackIInv, [StackNext]_stackVars
    PROVE  Scraped'
<1> USE MonitoringAssumption DEF StackIInv, Shapes, Works, Scraped, Current, OneConfig,
       StackTypeOK, Tasks, Read, Late, NoTask, Starts, Services, Projects
<1>1. ASSUME NEW s \in {"core", "dcgm"}, Recreate(s) PROVE Scraped'
  BY <1>1, RecreateEffect DEF Recreate
<1>2. CASE TakeDown
  BY <1>2, TakeDownEffect DEF TakeDown
<1>3. CASE Bootstrap
  BY <1>3, BootstrapEffect DEF Bootstrap
<1>4. CASE PatchConfig
  BY <1>4 DEF PatchConfig
<1>5. CASE ProbeChanges
  BY <1>5 DEF ProbeChanges
<1>6. ASSUME NEW p \in Projects, NEW a \in Actions \ {"none"}, RequestAction(p, a)
      PROVE  Scraped'
  BY <1>6 DEF RequestAction
<1>7. CASE Prepare
  <2>1. CASE Refused
    BY <1>7, PrepareEffect, <2>1 DEF Refused
  <2>2. CASE Chowns
    BY <1>7, PrepareEffect, <2>2 DEF Chowns
  <2>3. CASE Taken
    BY <1>7, PrepareEffect, <2>3 DEF Taken
  <2> QED  BY <1>7, PrepareEffect, <2>1, <2>2, <2>3
<1>8. CASE WriteEnv
  BY <1>8 DEF WriteEnv
<1>9. CASE EnsureNetwork
  BY <1>9 DEF EnsureNetwork
<1>10. CASE Mark
  BY <1>10 DEF Mark
<1>11. CASE ComposeEnds
  BY <1>11 DEF ComposeEnds
<1>12. CASE FixPerms
  BY <1>12 DEF FixPerms
<1>13. CASE TaskFails
  BY <1>13 DEF TaskFails
<1>14. CASE UNCHANGED stackVars
  BY <1>14 DEF stackVars
<1> QED  BY <1>1, <1>2, <1>3, <1>4, <1>5, <1>6, <1>7, <1>8, <1>9, <1>10, <1>11, <1>12,
       <1>13, <1>14 DEF StackNext, Actions

(* What was made stays made, and its place changes by a PATCH only.        *)
LEMMA HomeStep ==
    ASSUME StackIInv, [StackNext]_stackVars
    PROVE  Home'
<1>1. CASE Bootstrap
  <2>1. /\ env = task.cfg /\ env \in Configs
        /\ \A b \in Bootstraps \ moved : PlaceOf[env][b] = PlaceOf[cfg][b]
    BY <1>1, BootstrapEffect DEF StackIInv, Home, Stays, Works, Read, Late
  <2>2. NextBoot \in markers => Made(NextBoot, env)
    BY <2>1 DEF StackIInv, Home, Stays, Made, OneConfig, StackTypeOK
  <2>3. UNCHANGED <<cfg, env, markers, moved>>
    BY <1>1 DEF Bootstrap
  <2>4. \A b \in Bootstraps : PlaceOf[env][b] \in Places
    BY <2>1, MonitoringAssumption DEF Bootstraps
  <2>5. \A b \in Bootstraps : b \in task.boot \/ Made(b, env)
    BY <1>1, BootstrapEffect DEF StackIInv, Home
  <2>6. \A b : Made(b, env) => Made(b, env)'
    BY <2>3, BootstrapEffect, <1>1 DEF Made
  <2>7. CASE task.boot = {} /\ made' = made /\ task' = [task EXCEPT !.at = "compose"]
    BY <1>1, BootstrapEffect, <2>1, <2>3, <2>5, <2>6, <2>7
       DEF StackIInv, Shapes, Tasks, Home, Stays, Read, Late
  <2>8. CASE /\ NextBoot \in markers /\ made' = made
             /\ task' = [task EXCEPT !.boot = task.boot \ {NextBoot}]
    BY <1>1, BootstrapEffect, <2>1, <2>2, <2>3, <2>5, <2>6, <2>8
       DEF StackIInv, Shapes, Tasks, Home, Stays, Read, Late
  <2>9. CASE /\ task.boot # {} /\ made' = made \cup {<<PlaceOf[env][NextBoot], NextBoot>>}
             /\ task' = [task EXCEPT !.at = "mark"]
    BY <1>1, BootstrapEffect, <2>1, <2>3, <2>4, <2>5, <2>6, <2>9
       DEF StackIInv, Shapes, Tasks, Home, Stays, Read, Late, NextBoot
  <2> QED  BY <1>1, BootstrapEffect, <2>7, <2>8, <2>9
<1>2. CASE PatchConfig
  <2>1. PICK c \in Configs \ {cfg} :
          /\ cfg' = c
          /\ moved' = moved \cup {b \in Bootstraps : PlaceOf[c][b] # PlaceOf[cfg][b]}
    BY <1>2 DEF PatchConfig
  <2>2. UNCHANGED <<task, env, markers, made>>
    BY <1>2 DEF PatchConfig
  <2>3. ASSUME NEW b \in Bootstraps \ moved' PROVE Stays(b)'
    <3>1. b \in Bootstraps \ moved /\ PlaceOf[cfg'][b] = PlaceOf[cfg][b]
      BY <2>1, <2>3
    <3>2. Stays(b)
      BY <3>1 DEF StackIInv, Home
    <3> QED  BY <2>2, <3>1, <3>2 DEF Stays
  <2>4. \A b : Made(b, env) => Made(b, env)'
    BY <2>1, <2>2 DEF Made
  <2>5. NextBoot' = NextBoot
    BY <2>2 DEF NextBoot
  <2> QED  BY <2>2, <2>3, <2>4, <2>5 DEF StackIInv, Home
<1> USE MonitoringAssumption DEF StackIInv, Shapes, Works, Home, Stays, Made, OneConfig,
       StackTypeOK, Tasks, Read, Late, NoTask, Starts, Bootstraps, NextBoot
<1>3. ASSUME NEW s \in {"core", "dcgm"}, Recreate(s) PROVE Home'
  BY <1>3, RecreateEffect DEF Recreate
<1>4. CASE TakeDown
  BY <1>4, TakeDownEffect DEF TakeDown
<1>5. CASE ProbeChanges
  BY <1>5 DEF ProbeChanges
<1>6. ASSUME NEW p \in Projects, NEW a \in Actions \ {"none"}, RequestAction(p, a)
      PROVE  Home'
  BY <1>6 DEF RequestAction
<1>7. CASE Prepare
  <2>1. CASE Refused
    BY <1>7, PrepareEffect, <2>1 DEF Refused
  <2>2. CASE Chowns
    BY <1>7, PrepareEffect, <2>2 DEF Chowns
  <2>3. CASE Taken
    BY <1>7, PrepareEffect, <2>3 DEF Taken
  <2> QED  BY <1>7, PrepareEffect, <2>1, <2>2, <2>3
<1>8. CASE WriteEnv
  BY <1>8 DEF WriteEnv
<1>9. CASE EnsureNetwork
  BY <1>9 DEF EnsureNetwork
<1>10. CASE Mark
  BY <1>10 DEF Mark
<1>11. CASE ComposeEnds
  BY <1>11 DEF ComposeEnds
<1>12. CASE FixPerms
  BY <1>12 DEF FixPerms
<1>13. CASE TaskFails
  BY <1>13 DEF TaskFails
<1>14. CASE UNCHANGED stackVars
  BY <1>14 DEF stackVars
<1> QED  BY <1>1, <1>2, <1>3, <1>4, <1>5, <1>6, <1>7, <1>8, <1>9, <1>10, <1>11, <1>12,
       <1>13, <1>14 DEF StackNext, Actions

(* A project that is settled follows one set of parameters.                *)
Follows(p) ==
    /\ run[p]["core"].env \in Configs
    /\ p = "monitoring" =>
         /\ run[p]["core"].files = run[p]["core"].env /\ rendered.cfg = run[p]["core"].env
         /\ rendered.scrape => run[p]["dcgm"] = run[p]["core"] \/ flipped
Settled == \A p \in Projects, a \in {"up", "restart"} : <<p, a>> \in settled => Follows(p)

(* OneConfig is said of the projects in pairs of `settled`.                *)
LEMMA OneConfigIs == OneConfig <=> StackTypeOK /\ Settled
<1>1. ASSUME StackTypeOK, NEW p
      PROVE  p \in {q[1] : q \in settled} <=>
               p \in Projects /\ \E a \in {"up", "restart"} : <<p, a>> \in settled
  BY <1>1 DEF StackTypeOK
<1> QED  BY <1>1 DEF OneConfig, Settled, Follows

(* What a settled project runs with is changed by its own jobs only.       *)
LEMMA SettledStep ==
    ASSUME StackIInv, [StackNext]_stackVars
    PROVE  Settled'
<1> USE OneConfigIs
<1> USE DEF StackIInv, Shapes, Works, Scraped, Current, Settled, Follows, Tasks, Read,
       Late, NoTask, Starts, Services, Projects
<1>1. ASSUME NEW s \in {"core", "dcgm"}, Recreate(s) PROVE Settled'
  BY <1>1, RecreateEffect DEF Recreate
<1>2. CASE TakeDown
  BY <1>2, TakeDownEffect DEF TakeDown
<1>3. CASE Bootstrap
  BY <1>3, BootstrapEffect DEF Bootstrap
<1>4. CASE PatchConfig
  BY <1>4 DEF PatchConfig
<1>5. CASE ProbeChanges
  BY <1>5 DEF ProbeChanges
<1>6. ASSUME NEW p \in Projects, NEW a \in Actions \ {"none"}, RequestAction(p, a)
      PROVE  Settled'
  BY <1>6 DEF RequestAction
<1>7. CASE Prepare
  <2>1. CASE Refused
    BY <1>7, PrepareEffect, <2>1 DEF Refused
  <2>2. CASE Chowns
    BY <1>7, PrepareEffect, <2>2 DEF Chowns
  <2>3. CASE Taken
    BY <1>7, PrepareEffect, <2>3 DEF Taken
  <2> QED  BY <1>7, PrepareEffect, <2>1, <2>2, <2>3
<1>8. CASE WriteEnv
  BY <1>8 DEF WriteEnv
<1>9. CASE EnsureNetwork
  BY <1>9 DEF EnsureNetwork
<1>10. CASE Mark
  BY <1>10 DEF Mark
<1>11. CASE ComposeEnds
  BY <1>11 DEF ComposeEnds
<1>12. CASE FixPerms
  BY <1>12 DEF FixPerms
<1>13. CASE TaskFails
  BY <1>13 DEF TaskFails
<1>14. CASE UNCHANGED stackVars
  BY <1>14 DEF stackVars
<1> QED  BY <1>1, <1>2, <1>3, <1>4, <1>5, <1>6, <1>7, <1>8, <1>9, <1>10, <1>11, <1>12,
       <1>13, <1>14 DEF StackNext, Actions

(* A settled proxy has what its bootstrap has made.                        *)
LEMMA BootstrapDoneStep ==
    ASSUME StackIInv, [StackNext]_stackVars
    PROVE  BootstrapDone'
<1>1. CASE Prepare
  <2>1. settled' \subseteq settled
    BY <1>1, PrepareEffect DEF Refused, Chowns, Taken
  <2>2. BootstrapDone
    BY DEF StackIInv
  <2> QED  BY <1>1, PrepareEffect, <2>1, <2>2 DEF BootstrapDone
<1>2. CASE ComposeEnds
  <2>1. UNCHANGED <<run, made, moved>>
    BY <1>2 DEF ComposeEnds
  <2>2. \A b, e : Made(b, e) => Made(b, e)'
    BY <2>1 DEF Made
  <2>3. BootstrapDone <=> (<<"proxy", "up">> \in settled =>
           \A b \in Bootstraps : Made(b, run["proxy"]["core"].env))
    BY DEF BootstrapDone, Made
  <2>4. BootstrapDone' <=> (<<"proxy", "up">> \in settled' =>
           \A b \in Bootstraps : Made(b, run["proxy"]["core"].env)')
    BY DEF BootstrapDone, Made
  <2>5. CASE <<"proxy", "up">> \in settled
    BY <2>1, <2>2, <2>3, <2>4, <2>5 DEF StackIInv
  <2>6. CASE <<"proxy", "up">> \notin settled /\ <<"proxy", "up">> \in settled'
    <3>1. task.project = "proxy" /\ task.action = "up" /\ task.at = "compose" /\ task.services = {}
      BY <1>2, <2>6 DEF ComposeEnds
    <3>2. run["proxy"]["core"].env = env
      BY <3>1 DEF StackIInv, Scraped, Late, Starts, Current
    <3>3. \A b \in Bootstraps : Made(b, env)
      BY <3>1 DEF StackIInv, Home
    <3>4. \A b \in Bootstraps : Made(b, run["proxy"]["core"].env)
      BY <3>2, <3>3
    <3> QED  BY <2>1, <2>4, <3>4 DEF Made
  <2> QED  BY <2>4, <2>5, <2>6
<1> USE DEF StackIInv, Shapes, Works, Scraped, Home, Made, Current, BootstrapDone,
       OneConfig, StackTypeOK, Tasks, Read, Late, NoTask, Starts, Projects
<1>3. ASSUME NEW s \in {"core", "dcgm"}, Recreate(s) PROVE BootstrapDone'
  BY <1>3, RecreateEffect DEF Recreate
<1>4. CASE TakeDown
  BY <1>4, TakeDownEffect DEF TakeDown
<1>5. CASE Bootstrap
  BY <1>5, BootstrapEffect DEF Bootstrap
<1>6. CASE PatchConfig
  BY <1>6 DEF PatchConfig
<1>7. CASE ProbeChanges
  BY <1>7 DEF ProbeChanges
<1>8. ASSUME NEW p \in Projects, NEW a \in Actions \ {"none"}, RequestAction(p, a)
      PROVE  BootstrapDone'
  BY <1>8 DEF RequestAction
<1>9. CASE WriteEnv
  BY <1>9 DEF WriteEnv
<1>10. CASE EnsureNetwork
  BY <1>10 DEF EnsureNetwork
<1>11. CASE Mark
  BY <1>11 DEF Mark
<1>12. CASE FixPerms
  BY <1>12 DEF FixPerms
<1>13. CASE TaskFails
  BY <1>13 DEF TaskFails
<1>14. CASE UNCHANGED stackVars
  BY <1>14 DEF stackVars
<1> QED  BY <1>1, <1>2, <1>3, <1>4, <1>5, <1>6, <1>7, <1>8, <1>9, <1>10, <1>11, <1>12,
       <1>13, <1>14 DEF StackNext, Actions

(* The invariant holds in every state of the stack.                        *)
THEOREM StackIInvHolds == StackSpec => []StackIInv
<1>1. StackInit => StackIInv
  <2> SUFFICES ASSUME StackInit PROVE StackIInv
    OBVIOUS
  <2>1. Shapes
    BY MonitoringAssumption DEF StackInit, Shapes, Tasks, Actions, Moments, Said, Ran, Nothing,
       NoTask, Projects
  <2>2. StackTypeOK /\ Settled
    BY MonitoringAssumption DEF StackInit, StackTypeOK, Settled, NoTask
  <2>3. Works /\ Scraped /\ BootstrapDone
    BY DEF StackInit, Works, Scraped, BootstrapDone, NoTask, Read, Late
  <2>4. Home
    BY DEF StackInit, Home, Stays, NoTask, Read, Late
  <2> QED  BY <2>1, <2>2, <2>3, <2>4, OneConfigIs DEF StackIInv
<1>2. StackIInv /\ [StackNext]_stackVars => StackIInv'
  <2> SUFFICES ASSUME StackIInv, [StackNext]_stackVars PROVE StackIInv'
    OBVIOUS
  <2>1. StackTypeOK' /\ Settled'
    BY StackTypes, SettledStep
  <2>2. OneConfig'
    <3>1. OneConfig' <=> StackTypeOK' /\ Settled'
      BY OneConfigIs, PTL
    <3> QED  BY <2>1, <3>1
  <2> QED  BY <2>2, ShapesStep, WorksStep, ScrapedStep, HomeStep, BootstrapDoneStep DEF StackIInv
<1> QED  BY <1>1, <1>2, PTL DEF StackSpec

(* A project that its last job has brought up runs on one set of           *)
(* parameters, and an exporter that is scraped runs with it.               *)
THEOREM OneConfigHolds == StackSpec => []OneConfig
<1>1. StackIInv => OneConfig
  BY DEF StackIInv
<1> QED  BY <1>1, StackIInvHolds, PTL

(* A proxy that its last job, an up, has brought up has its buckets and    *)
(* its database where it looks for them, in their directory and by their   *)
(* names, unless a PATCH has moved or renamed them.                        *)
THEOREM BootstrapDoneHolds == StackSpec => []BootstrapDone
<1>1. StackIInv => BootstrapDone
  BY DEF StackIInv
<1> QED  BY <1>1, StackIInvHolds, PTL

-----------------------------------------------------------------------------
(* Presets                                                                 *)

(* What a preset sets: what its slots start with on a stack that says      *)
(* nothing of RT, the keys outside _RUNTIME_KEYS apart.                    *)
Alone(old) == [tp |-> LaunchOf(old, Unset).tp, rt |-> LaunchOf(old, Unset).rt]

(* Parameters that set RT alone.                                           *)
LEMMA OnlyRt ==
    ASSUME NEW v
    PROVE  [NoParams EXCEPT !.rt = v] =
             [rt |-> v, oldRt |-> Unset, tp |-> Unset, other |-> FALSE]
<1> DEFINE p == [NoParams EXCEPT !.rt = v]
<1>1. p \in [rt : {v}, oldRt : {Unset}, tp : {Unset}, other : BOOLEAN] /\ ~p.other
  BY DEF NoParams
<1> HIDE DEF p
<1>2. p = [rt |-> v, oldRt |-> Unset, tp |-> Unset, other |-> FALSE]
  BY <1>1
<1> QED  BY <1>2 DEF p

(* Moving a preset to the canonical names keeps what it sets, and the text *)
(* it is rendered to says just that; SameLaunch says what its slots may    *)
(* start with after it.                                                    *)
LEMMA MigratedRow ==
    ASSUME NEW old \in PresetRows
    PROVE  /\ Migrated(old) \in PresetRows /\ Migrated(old).synced = old.synced
           /\ Alone(Migrated(old)) = Alone(old) /\ SameLaunch(old, Migrated(old))
           /\ Render(Migrated(old)) \in FileTexts
           /\ Render(Migrated(old)).tp = Alone(old).tp
           /\ Render(Migrated(old)).rt = Alone(old).rt
<1>1. old # NoPreset
  BY PresetStoreAssumption
<1>2. CASE ~Due(old)
  <2>1. Migrated(old) = old
    BY <1>2 DEF Migrated
  <2>2. old.params.oldRt = Unset /\ old.params.tp = Unset
    BY <1>1, <1>2 DEF Due
  <2> QED  BY <2>1, <2>2 DEF PresetRows, FileTexts, Alone, LaunchOf, Render, Hidden,
             PresentationParams, NoParams, SameLaunch
<1>3. CASE Due(old)
  <2>1. Migrated(old) = [tp |-> IF old.tp = Unset THEN old.params.tp ELSE old.tp,
                         path |-> old.path, synced |-> old.synced,
                         params |-> [rt |-> IF old.params.rt # Unset THEN old.params.rt
                                            ELSE old.params.oldRt,
                                     oldRt |-> Unset, tp |-> Unset, other |-> FALSE]]
    BY <1>1, <1>3 DEF Migrated, PresentationParams, NoParams, PresetRows
  <2>2. SameLaunch(old, Migrated(old))
    BY <1>3, <2>1 DEF SameLaunch, LaunchOf, Hidden, PresetRows
  <2> QED  BY <2>1, <2>2 DEF PresetRows, FileTexts, Alone, LaunchOf, Render,
             PresentationParams, NoParams
<1> QED  BY <1>2, <1>3

(* A preset made of a text starts its slots with what the text says, but   *)
(* quotes come back escaped.                                               *)
LEMMA FromTextRow ==
    ASSUME NEW text \in FileTexts, NEW sync \in BOOLEAN
    PROVE  /\ FromText(text, sync) \in PresetRows /\ FromText(text, sync).synced = sync
           /\ Alone(FromText(text, sync)).tp = text.tp
           /\ Alone(FromText(text, sync)).rt = Parse(text).rt
           /\ Parse(text).rt \in Texts \cup {Unset}
           /\ Parse(text).rt = IF text.rt = "quoted" THEN "escaped" ELSE text.rt
<1>1. Parse(text) = [tp |-> text.tp, rt |-> IF text.rt = "quoted" THEN "escaped" ELSE text.rt]
  BY DEF Parse, FileTexts
<1>2. FromText(text, sync) = [tp |-> text.tp, path |-> sync, synced |-> sync,
                              params |-> [rt |-> Parse(text).rt, oldRt |-> Unset,
                                          tp |-> Unset, other |-> FALSE]]
  BY <1>1, OnlyRt DEF FromText
<1> QED  BY <1>1, <1>2 DEF PresetRows, FileTexts, Alone, LaunchOf, Texts

(* The UPDATE of a row that is as it was read makes it what it shall be.   *)
LEMMA UpdatedRow ==
    ASSUME NEW now \in PresetRows, NEW old \in PresetRows, NEW new \in PresetRows
    PROVE  /\ Update(now, old, new) \in PresetRows
           /\ now = old => Update(now, old, new) = new
<1>1. DEFINE u == Update(now, old, new)
             fields == {"tp", "path", "synced", "params"}
<1>2. DOMAIN now = fields /\ DOMAIN old = fields /\ DOMAIN new = fields
  BY DEF PresetRows
<1>3. u = [c \in fields |-> IF new[c] # old[c] THEN new[c] ELSE now[c]]
  BY <1>2 DEF Update
<1>4. u = [tp |-> u.tp, path |-> u.path, synced |-> u.synced, params |-> u.params]
  BY <1>3
<1>5. /\ u.tp \in {new.tp, now.tp} /\ u.path \in {new.path, now.path}
      /\ u.synced \in {new.synced, now.synced} /\ u.params \in {new.params, now.params}
  BY <1>3
<1> HIDE DEF u
<1>6. u \in PresetRows
  BY <1>4, <1>5 DEF PresetRows
<1>7. ASSUME now = old PROVE u = new
  <2>1. /\ u.tp = new.tp /\ u.path = new.path /\ u.synced = new.synced
        /\ u.params = new.params
    BY <1>3, <1>7 DEF u
  <2>2. new = [tp |-> new.tp, path |-> new.path, synced |-> new.synced, params |-> new.params]
    BY DEF PresetRows
  <2> QED  BY <1>4, <2>1, <2>2
<1> QED  BY <1>6, <1>7 DEF u

(* What a slot starts with, from what its preset sets: the stack's value   *)
(* where the preset sets none, or sets it under an old name only.          *)
LEMMA LaunchIs ==
    ASSUME NEW old \in PresetRows, NEW stack \in Stacks
    PROVE  LET now == LaunchOf(old, stack) IN
           /\ now.tp = Alone(old).tp
           /\ now.rt = IF Hidden(old, stack) \/ Alone(old).rt = Unset THEN stack ELSE Alone(old).rt
           /\ Hidden(old, stack) => Alone(old).rt = old.params.oldRt /\ Alone(old).rt # Unset
  BY DEF LaunchOf, Alone, Hidden, PresetRows

(* Whatever a preset holds, a download and an import of it keep what its   *)
(* slots start with, but for quotes and values that the stack has hidden.  *)
LEMMA DownloadKeeps == PresetTypeOK => DownloadKeepsLaunch
<1> DEFINE text(n) == Render(Migrated(rows[n]))
           back(n) == FromText(text(n), FALSE)
<1> SUFFICES ASSUME PresetTypeOK, NEW n \in Names, NEW stack \in Stacks, rows[n] # NoPreset
             PROVE  LET now  == LaunchOf(rows[n], stack)
                        then == LaunchOf(back(n), stack)
                        said == IF Hidden(rows[n], stack) THEN rows[n].params.oldRt ELSE now.rt
                    IN /\ then.tp = now.tp /\ ~then.other
                       /\ then.rt = said \/ (said = "quoted" /\ then.rt = "escaped")
  BY DEF DownloadKeepsLaunch
<1>1. rows[n] \in PresetRows
  BY DEF PresetTypeOK
<1>2. /\ text(n) \in FileTexts
      /\ text(n).tp = Alone(rows[n]).tp /\ text(n).rt = Alone(rows[n]).rt
  BY <1>1, MigratedRow
<1> HIDE DEF text
<1>3. /\ back(n) \in PresetRows /\ back(n).params.oldRt = Unset /\ ~back(n).params.other
      /\ Alone(back(n)).tp = text(n).tp
      /\ Alone(back(n)).rt = IF text(n).rt = "quoted" THEN "escaped" ELSE text(n).rt
  BY <1>2, FromTextRow DEF FromText, NoParams
<1> HIDE DEF back
<1>4. ~Hidden(back(n), stack) /\ ~LaunchOf(back(n), stack).other
  BY <1>3 DEF Hidden, LaunchOf
<1>5. /\ LaunchOf(back(n), stack).tp = LaunchOf(rows[n], stack).tp
      /\ LaunchOf(back(n), stack).rt =
            IF Alone(back(n)).rt = Unset THEN stack ELSE Alone(back(n)).rt
  BY <1>1, <1>2, <1>3, <1>4, LaunchIs
<1>6. CASE Alone(rows[n]).rt = Unset
  BY <1>1, <1>2, <1>3, <1>4, <1>5, <1>6, LaunchIs, PresetStoreAssumption DEF Texts
<1>7. CASE Alone(rows[n]).rt # Unset
  <2>1. (IF Hidden(rows[n], stack) THEN rows[n].params.oldRt ELSE LaunchOf(rows[n], stack).rt)
          = Alone(rows[n]).rt
    BY <1>1, <1>7, LaunchIs
  <2>2. Alone(back(n)).rt # Unset
    BY <1>2, <1>3, <1>7, PresetStoreAssumption DEF Texts
  <2> QED  BY <1>2, <1>3, <1>4, <1>5, <2>1, <2>2
<1> QED  BY <1>6, <1>7

(* A request has its fields, and as it was admitted it goes on.            *)
Requested(q) ==
    q \in [op : Ops, at : {"idle", "read", "filed"}, name : {q.name}, arg : {q.arg},
           seen : {q.seen}, texts : {q.texts}, overtaken : SUBSET Names]
Fits(op, n, arg) ==
    /\ op \in Ops \ {"none"} /\ (op # "install" => n \in Names)
    /\ op \in {"create", "clone"} => arg.tp \in TPs \cup {Unset} /\ arg.rt \in Texts \cup {Unset}
    /\ op = "import" => arg \in FileTexts
    /\ op = "patch" => arg = [tp |-> "2"] \/ arg = [rt |-> "quoted"]
Proper(q) ==
    /\ Requested(q)
    /\ q.at # "idle" =>
         /\ q.seen \in [Names -> PresetRows \cup {NoPreset}]
         /\ q.texts \in [Names -> FileTexts \cup {NoFile}]
         /\ Fits(q.op, q.name, q.arg)
         /\ q.op \in {"patch", "export", "delete"} => q.seen[q.name] # NoPreset
    /\ q.at = "filed" => q.op \in {"export", "delete"}
Admitted == DOMAIN request = Reqs /\ \A r \in Reqs : Proper(request[r])

(* What nobody has changed since is as the request has read it ...         *)
Unchanged ==
    \A r \in Reqs : request[r].at # "idle" =>
        \A n \in Names \ request[r].overtaken :
            /\ request[r].seen[n] = rows[n]
            /\ request[r].op = "install" => request[r].texts[n] = files[n]
(* ... and the file it has exported is there.                              *)
Exported ==
    \A r \in Reqs :
        LET q == request[r] IN
        q.at = "filed" /\ q.op = "export" /\ q.name \notin q.overtaken =>
          files[q.name] = Render(Migrated(q.seen[q.name]))

(* Why a preset may be shown as synced.                                    *)
Alike(n) == /\ files[n] # NoFile
            /\ files[n].tp = Alone(rows[n]).tp \/ "columns kept" \in reason[n]
            /\ files[n].rt = Alone(rows[n]).rt \/ "quotes escaped" \in reason[n]
Excused(n) == {"overtaken", "file changed, row not"} \cap reason[n] # {}
Filing(n)  == \E r \in Reqs : request[r].at = "filed" /\ request[r].name = n
SyncedPlainly ==
    \A n \in Names : rows[n] # NoPreset /\ rows[n].synced => Alike(n) \/ Excused(n) \/ Filing(n)

PresetIInv == /\ PresetTypeOK /\ Admitted /\ Unchanged /\ Exported
              /\ DOMAIN reason = Names /\ SyncedPlainly /\ bypassed = {}

(* A file that says what the preset sets says what slots start with on     *)
(* any stack, where no value under an old name loses to the stack's.       *)
LEMMA SyncedSays == PresetTypeOK /\ SyncedPlainly => SyncedMatchesFile
<1> SUFFICES ASSUME PresetTypeOK, SyncedPlainly,
                    NEW n \in Names, rows[n] # NoPreset, rows[n].synced, Alike(n),
                    NEW stack \in Stacks
             PROVE  LET now == LaunchOf(rows[n], stack) IN
                    /\ files[n] # NoFile
                    /\ files[n].tp = now.tp \/ "columns kept" \in reason[n]
                    /\ \/ (IF files[n].rt # Unset THEN files[n].rt ELSE stack) = now.rt
                       \/ Hidden(rows[n], stack) /\ now.rt = stack
                       \/ "quotes escaped" \in reason[n]
  BY DEF SyncedMatchesFile, SyncedPlainly, Excused, Filing, Alike, Stacks
<1>1. rows[n] \in PresetRows
  BY DEF PresetTypeOK
<1> QED  BY <1>1, LaunchIs DEF Alike

(* Every request that is admitted fits its operation.                      *)
LEMMA RequestFits ==
    ASSUME PresetIInv, NEW r \in Reqs, PresetRequest(r)
    PROVE  \E op, n, arg :
             /\ Begin(r, op, n, arg) /\ Fits(op, n, arg)
             /\ op \in {"patch", "export", "delete"} => rows[n] # NoPreset
<1>1. CASE GetPreset(r)
  <2>1. PICK n \in Names : Begin(r, "get", n, Unset)
    BY <1>1 DEF GetPreset
  <2>2. Fits("get", n, Unset)
    BY DEF Fits, Ops
  <2> QED  BY <2>1, <2>2
<1>2. CASE InstallPresets(r)
  <2>1. Begin(r, "install", Unset, Unset)
    BY <1>2 DEF InstallPresets
  <2>2. Fits("install", Unset, Unset)
    BY DEF Fits, Ops
  <2> QED  BY <2>1, <2>2
<1>3. ASSUME NEW n \in Names, CreatePreset(r, n)
      PROVE  \E op, m, arg :
               /\ Begin(r, op, m, arg) /\ Fits(op, m, arg)
               /\ op \in {"patch", "export", "delete"} => rows[m] # NoPreset
  <2>1. PICK tp \in TPs : Begin(r, "create", n, [tp |-> tp, rt |-> "quoted"])
    BY <1>3 DEF CreatePreset
  <2>2. Fits("create", n, [tp |-> tp, rt |-> "quoted"])
    BY DEF Fits, Ops, Texts
  <2> QED  BY <2>1, <2>2
<1>4. ASSUME NEW n \in Names, NEW base \in Names, Clone(r, n, base)
      PROVE  \E op, m, arg :
               /\ Begin(r, op, m, arg) /\ Fits(op, m, arg)
               /\ op \in {"patch", "export", "delete"} => rows[m] # NoPreset
  <2>1. DEFINE arg == [tp |-> rows[base].tp, rt |-> PresentationParams(rows[base].params).rt]
  <2>2. Begin(r, "clone", n, arg)
    BY <1>4 DEF Clone
  <2>3. rows[base] \in PresetRows
    BY <1>4 DEF Clone, PresetIInv, PresetTypeOK
  <2>4. arg.tp \in TPs \cup {Unset} /\ arg.rt \in Texts \cup {Unset}
    BY <2>3 DEF PresetRows, PresentationParams, NoParams
  <2> HIDE DEF arg
  <2>5. Fits("clone", n, arg)
    BY <2>4 DEF Fits, Ops
  <2> QED  BY <2>2, <2>5
<1>5. ASSUME NEW n \in Names, ImportEnv(r, n)
      PROVE  \E op, m, arg :
               /\ Begin(r, op, m, arg) /\ Fits(op, m, arg)
               /\ op \in {"patch", "export", "delete"} => rows[m] # NoPreset
  <2>1. PICK m \in Names : files[m] # NoFile /\ Begin(r, "import", n, files[m])
    BY <1>5 DEF ImportEnv
  <2>2. Fits("import", n, files[m])
    BY <2>1 DEF Fits, Ops, PresetIInv, PresetTypeOK
  <2> QED  BY <2>1, <2>2
<1>6. ASSUME NEW n \in Names, Patch(r, n)
      PROVE  \E op, m, arg :
               /\ Begin(r, op, m, arg) /\ Fits(op, m, arg)
               /\ op \in {"patch", "export", "delete"} => rows[m] # NoPreset
  <2>1. PICK arg \in {[tp |-> "2"], [rt |-> "quoted"]} : Begin(r, "patch", n, arg)
    BY <1>6 DEF Patch
  <2>2. Fits("patch", n, arg)
    BY DEF Fits, Ops
  <2> QED  BY <1>6, <2>1, <2>2 DEF Patch
<1>7. ASSUME NEW n \in Names, Export(r, n) \/ DeletePreset(r, n)
      PROVE  \E op, m, arg :
               /\ Begin(r, op, m, arg) /\ Fits(op, m, arg)
               /\ op \in {"patch", "export", "delete"} => rows[m] # NoPreset
  <2>1. PICK op, arg : op \in {"export", "delete"} /\ Begin(r, op, n, arg)
    BY <1>7 DEF Export, DeletePreset
  <2>2. Fits(op, n, arg)
    BY <2>1 DEF Fits, Ops
  <2> QED  BY <1>7, <2>1, <2>2 DEF Export, DeletePreset
<1> QED  BY <1>1, <1>2, <1>3, <1>4, <1>5, <1>6, <1>7 DEF PresetRequest

(* A request that is admitted disturbs nobody.                             *)
LEMMA BeginStep ==
    ASSUME PresetIInv, NEW r \in Reqs, NEW op, NEW n, NEW arg,
           Begin(r, op, n, arg), Fits(op, n, arg),
           op \in {"patch", "export", "delete"} => rows[n] # NoPreset
    PROVE  PresetIInv'
<1> DEFINE q == [op |-> op, at |-> "read", name |-> n, arg |-> arg,
                 seen |-> rows, texts |-> files, overtaken |-> {}]
<1>1. /\ request[r].at = "idle" /\ request' = [request EXCEPT ![r] = q]
      /\ UNCHANGED <<rows, files, reason, bypassed, failures>>
      /\ asked' = asked + 1 /\ asked < MaxRequests
  BY DEF Begin
<1>2. /\ DOMAIN request' = Reqs /\ request'[r] = q
      /\ \A o \in Reqs \ {r} : request'[o] = request[o]
  BY <1>1 DEF PresetIInv, Admitted
<1>3. Requested(q) /\ q.op \in Ops
  BY DEF Requested, Fits
<1>4. rows \in [Names -> PresetRows \cup {NoPreset}] /\ files \in [Names -> FileTexts \cup {NoFile}]
  BY DEF PresetIInv, PresetTypeOK
<1>5. Admitted'
  <2>1. Proper(q)
    BY <1>3, <1>4 DEF Proper
  <2> QED  BY <1>2, <2>1 DEF Admitted, PresetIInv
<1>6. Unchanged' /\ Exported'
  BY <1>1, <1>2 DEF Unchanged, Exported, PresetIInv
<1>7. PresetTypeOK'
  BY <1>1, <1>2, <1>3, PresetStoreAssumption DEF PresetTypeOK, PresetIInv
<1>8. SyncedPlainly'
  BY <1>1, <1>2 DEF SyncedPlainly, Alike, Excused, Filing, PresetIInv
<1> QED  BY <1>1, <1>5, <1>6, <1>7, <1>8 DEF PresetIInv

(* What a step on presets ns tells the other requests.                     *)
LEMMA OvertakeEffect ==
    ASSUME Admitted, NEW r \in Reqs, NEW ns \in SUBSET Names, NEW q \in Reqs
    PROVE  LET o == Overtake(r, ns)[q] IN
           /\ Proper(o) /\ o.op = request[q].op /\ o.at = request[q].at
           /\ o.name = request[q].name /\ o.seen = request[q].seen /\ o.texts = request[q].texts
           /\ o.overtaken = IF q # r /\ request[q].at # "idle"
                            THEN request[q].overtaken \cup ns ELSE request[q].overtaken
<1> DEFINE o == Overtake(r, ns)[q]
           e == [request[q] EXCEPT !.overtaken = request[q].overtaken \cup ns]
<1>1. Proper(request[q])
  BY DEF Admitted
<1>2. o = IF q # r /\ request[q].at # "idle" THEN e ELSE request[q]
  BY DEF Overtake
<1>3. /\ e.op = request[q].op /\ e.at = request[q].at /\ e.name = request[q].name
      /\ e.seen = request[q].seen /\ e.texts = request[q].texts /\ e.arg = request[q].arg
      /\ e.overtaken = request[q].overtaken \cup ns /\ Requested(e)
  BY <1>1 DEF Proper, Requested
<1> HIDE DEF e, o
<1>4. Proper(e)
  BY <1>1, <1>3 DEF Proper
<1> QED  BY <1>1, <1>2, <1>3, <1>4 DEF o

(* A request that writes the file of its preset before the row: the file   *)
(* is what the row shall be, and who is at work on the preset learns of it. *)
LEMMA FileStep ==
    ASSUME PresetIInv, NEW r \in Reqs, WriteFile(r) \/ UnlinkFile(r)
    PROVE  PresetIInv'
<1> DEFINE q  == request[r]
           ns == {q.name}
           p  == [Overtake(r, ns)[r] EXCEPT !.at = "filed"]
<1>1. /\ q.at = "read" /\ q.op \in {"export", "delete"}
      /\ request' = [Overtake(r, ns) EXCEPT ![r].at = "filed"]
      /\ UNCHANGED <<rows, reason, bypassed, asked, failures>>
  BY DEF WriteFile, UnlinkFile
<1>2. /\ q.name \in Names /\ q.seen[q.name] \in PresetRows
      /\ Proper(q) /\ Admitted
  BY <1>1 DEF PresetIInv, Admitted, Proper, Fits
<1>3. \/ files' = files
      \/ /\ q.op = "export"
         /\ files' = [files EXCEPT ![q.name] = Render(Migrated(q.seen[q.name]))]
      \/ q.op = "delete" /\ files' = [files EXCEPT ![q.name] = NoFile]
  BY DEF WriteFile, UnlinkFile
<1>3a. q.op = "export" => files' = [files EXCEPT ![q.name] = Render(Migrated(q.seen[q.name]))]
  BY DEF WriteFile, UnlinkFile
<1>4. /\ files' \in [Names -> FileTexts \cup {NoFile}]
      /\ \A n \in Names \ {q.name} : files'[n] = files[n]
      /\ q.op = "export" => files'[q.name] = Render(Migrated(q.seen[q.name]))
  BY <1>2, <1>3, <1>3a, MigratedRow DEF PresetIInv, PresetTypeOK
<1>5. /\ DOMAIN request' = Reqs /\ request'[r] = p
      /\ \A o \in Reqs \ {r} : request'[o] = Overtake(r, ns)[o]
  BY <1>1 DEF Overtake
<1>6. Overtake(r, ns)[r] = q
  BY DEF Overtake
<1>7. /\ Proper(p) /\ p.at = "filed" /\ p.op = q.op /\ p.name = q.name /\ p.seen = q.seen
      /\ p.texts = q.texts /\ p.overtaken = q.overtaken
  BY <1>1, <1>2, <1>6 DEF Proper, Requested
<1>8. \A o \in Reqs \ {r} :
        /\ Proper(request'[o]) /\ request'[o].op = request[o].op
        /\ request'[o].at = request[o].at /\ request'[o].name = request[o].name
        /\ request'[o].seen = request[o].seen /\ request'[o].texts = request[o].texts
        /\ request'[o].overtaken = IF request[o].at # "idle"
                                   THEN request[o].overtaken \cup ns ELSE request[o].overtaken
  BY <1>2, <1>5, OvertakeEffect
<1> HIDE DEF q, p
<1>9. Admitted'
  BY <1>5, <1>7, <1>8 DEF Admitted
<1>10. Unchanged'
  <2> SUFFICES ASSUME NEW o \in Reqs, request'[o].at # "idle",
                      NEW n \in Names \ request'[o].overtaken
               PROVE  /\ request'[o].seen[n] = rows'[n]
                      /\ request'[o].op = "install" => request'[o].texts[n] = files'[n]
    BY DEF Unchanged
  <2>1. CASE o = r
    <3>1. request[r].at # "idle" /\ n \in Names \ request[r].overtaken
      BY <1>1, <1>5, <1>7, <2>1 DEF q
    <3>2. request[r].seen[n] = rows[n]
      BY <3>1 DEF PresetIInv, Unchanged
    <3>3. rows' = rows /\ request'[o].seen = request[r].seen /\ request'[o].op # "install"
      BY <1>1, <1>5, <1>7, <2>1 DEF q
    <3> QED  BY <3>2, <3>3
  <2>2. CASE o # r
    <3>1. request[o].at # "idle" /\ n \notin request[o].overtaken /\ n # q.name
      BY <1>8, <2>2
    <3>2. /\ request[o].seen[n] = rows[n]
          /\ request[o].op = "install" => request[o].texts[n] = files[n]
      BY <3>1 DEF PresetIInv, Unchanged
    <3>3. rows' = rows /\ files'[n] = files[n]
      BY <1>1, <1>4, <3>1
    <3>4. /\ request'[o].seen = request[o].seen /\ request'[o].texts = request[o].texts
          /\ request'[o].op = request[o].op
      BY <1>8, <2>2
    <3> QED  BY <3>2, <3>3, <3>4
  <2> QED  BY <2>1, <2>2
<1>11. Exported'
  <2> SUFFICES ASSUME NEW o \in Reqs, request'[o].at = "filed", request'[o].op = "export",
                      request'[o].name \notin request'[o].overtaken
               PROVE  files'[request'[o].name] =
                        Render(Migrated(request'[o].seen[request'[o].name]))
    BY DEF Exported
  <2>1. CASE o = r
    BY <1>4, <1>5, <1>7, <2>1
  <2>2. CASE o # r
    <3>1. /\ request[o].at = "filed" /\ request[o].op = "export"
          /\ request[o].name \notin request[o].overtaken /\ request[o].name # q.name
      BY <1>8, <2>2
    <3>2. request[o].name \in Names
      BY <1>2, <2>2, <3>1 DEF Admitted, Proper, Fits
    <3>3. files[request[o].name] = Render(Migrated(request[o].seen[request[o].name]))
      BY <3>1 DEF PresetIInv, Exported
    <3>4. request'[o].seen = request[o].seen /\ request'[o].name = request[o].name
      BY <1>8, <2>2
    <3>5. files'[request[o].name] = files[request[o].name]
      BY <1>4, <3>1, <3>2
    <3> QED  BY <3>3, <3>4, <3>5
  <2> QED  BY <2>1, <2>2
<1>12. PresetTypeOK'
  BY <1>1, <1>4, <1>5, <1>7, <1>8, <1>9 DEF PresetTypeOK, PresetIInv, Admitted, Proper, Requested
<1>13. SyncedPlainly'
  <2> SUFFICES ASSUME NEW n \in Names, rows[n] # NoPreset, rows[n].synced
               PROVE  Alike(n)' \/ Excused(n)' \/ Filing(n)'
    BY <1>1 DEF SyncedPlainly
  <2>1. CASE n = q.name
    BY <1>5, <1>7, <2>1 DEF Filing
  <2>2. CASE n # q.name
    <3>1. Alike(n) \/ Excused(n) \/ Filing(n)
      BY DEF PresetIInv, SyncedPlainly
    <3>2. Filing(n) => Filing(n)'
      BY <1>1, <1>8 DEF Filing, q
    <3> QED  BY <1>1, <1>4, <2>2, <3>1, <3>2 DEF Alike, Excused
  <2> QED  BY <2>1, <2>2
<1> QED  BY <1>1, <1>9, <1>10, <1>11, <1>12, <1>13 DEF PresetIInv

(* A request that fails leaves a note on a file it has changed.            *)
LEMMA FailStep ==
    ASSUME PresetIInv, NEW r \in Reqs, Fail(r)
    PROVE  PresetIInv'
<1> DEFINE q == request[r]
<1>1. /\ q.at # "idle" /\ request' = [request EXCEPT ![r] = Idle]
      /\ UNCHANGED <<rows, files, bypassed, asked>>
      /\ failures' = failures \/ (failures' = failures + 1 /\ failures < MaxFailures)
  BY DEF Fail
<1>2. reason' = IF q.at = "filed" /\ rows[q.name] # NoPreset /\ rows[q.name].synced
                THEN [reason EXCEPT ![q.name] = @ \cup {"file changed, row not"}] ELSE reason
  BY DEF Fail
<1>3. /\ DOMAIN request' = Reqs /\ request'[r] = Idle
      /\ \A o \in Reqs \ {r} : request'[o] = request[o]
  BY <1>1 DEF PresetIInv, Admitted
<1>4. /\ Proper(Idle) /\ Idle.at = "idle" /\ Idle.op \in Ops
      /\ Proper(q)
  BY DEF Proper, Requested, Idle, Ops, PresetIInv, Admitted
<1>5. Admitted'
  BY <1>3, <1>4 DEF PresetIInv, Admitted
<1>6. Unchanged' /\ Exported'
  BY <1>1, <1>3, <1>4 DEF PresetIInv, Unchanged, Exported
<1>7. PresetTypeOK'
  BY <1>1, <1>3, <1>4, PresetStoreAssumption DEF PresetIInv, PresetTypeOK
<1>8. SyncedPlainly'
  <2> SUFFICES ASSUME NEW n \in Names, rows[n] # NoPreset, rows[n].synced
               PROVE  Alike(n)' \/ Excused(n)' \/ Filing(n)'
    BY <1>1 DEF SyncedPlainly
  <2>1. Alike(n) \/ Excused(n) \/ Filing(n)
    BY DEF PresetIInv, SyncedPlainly
  <2>2. reason[n] \subseteq reason'[n]
    BY <1>2 DEF PresetIInv
  <2>3. Alike(n) => Alike(n)'
    BY <1>1, <2>2 DEF Alike
  <2>4. Excused(n) => Excused(n)'
    BY <2>2 DEF Excused
  <2>5. CASE q.at = "filed" /\ q.name = n
    BY <1>2, <2>5 DEF Excused, PresetIInv
  <2>6. CASE ~(q.at = "filed" /\ q.name = n)
    BY <1>3, <2>1, <2>3, <2>4, <2>6 DEF Filing
  <2> QED  BY <2>5, <2>6
<1>9. DOMAIN reason' = Names
  BY <1>2 DEF PresetIInv
<1> QED  BY <1>1, <1>5, <1>6, <1>7, <1>8, <1>9 DEF PresetIInv

(* A preset that sets the same, under canonical names or not.              *)
Same(x, y) == x \in PresetRows /\ y \in PresetRows /\ Alone(x) = Alone(y)
Kept(x, y) == Same(x, y) /\ x.synced = y.synced
Owns(q, n) == q.op \in {"export", "delete"} /\ n = q.name

(* What a request other than an import of files makes of a row: nothing,   *)
(* the same preset, one that has no file, none, or one of its file.        *)
LEMMA TargetRow ==
    ASSUME NEW q, Proper(q), q.at # "idle", q.op # "install", NEW n \in Names
    PROVE  LET t == Target(q, n) IN
           \/ q.seen[n] = NoPreset /\ t = NoPreset
           \/ Kept(q.seen[n], t) /\ ~Owns(q, n)
           \/ t \in PresetRows /\ ~t.synced /\ q.op \in {"create", "clone", "import", "patch"}
           \/ q.op = "delete" /\ n = q.name /\ t = NoPreset
           \/ q.op = "export" /\ n = q.name /\ Same(q.seen[n], t)
<1> DEFINE old == q.seen[n]
<1>1. /\ q.op \in {"get", "create", "clone", "import", "patch", "export", "delete"}
      /\ old \in PresetRows \cup {NoPreset} /\ Fits(q.op, q.name, q.arg)
      /\ q.op \in {"patch", "export", "delete"} /\ n = q.name => old # NoPreset
  BY DEF Proper, Fits, Ops
<1>2. CASE q.op = "get"
  <2>1. Target(q, n) = Migrated(old)
    BY <1>2 DEF Target
  <2>2. old = NoPreset => Migrated(old) = NoPreset
    BY DEF Migrated, Due
  <2> QED  BY <1>1, <1>2, <2>1, <2>2, MigratedRow DEF Kept, Same, Owns
<1>3. CASE q.op = "export" /\ n # q.name
  <2>1. Target(q, n) = Migrated(old)
    BY <1>3 DEF Target
  <2>2. old = NoPreset => Migrated(old) = NoPreset
    BY DEF Migrated, Due
  <2> QED  BY <1>1, <1>3, <2>1, <2>2, MigratedRow DEF Kept, Same, Owns
<1>4. CASE q.op = "export" /\ n = q.name
  <2>1. Target(q, n) = [Migrated(old) EXCEPT !.path = TRUE, !.synced = TRUE]
    BY <1>4 DEF Target
  <2>2. old \in PresetRows
    BY <1>1, <1>4
  <2>3. Migrated(old) \in PresetRows /\ Alone(Migrated(old)) = Alone(old)
    BY <2>2, MigratedRow
  <2>4. /\ Target(q, n) \in PresetRows
        /\ Target(q, n).tp = Migrated(old).tp /\ Target(q, n).params = Migrated(old).params
    BY <2>1, <2>3 DEF PresetRows
  <2>5. Alone(Target(q, n)) = Alone(old)
    BY <2>3, <2>4 DEF Alone, LaunchOf
  <2> QED  BY <1>4, <2>2, <2>4, <2>5 DEF Same
<1>5. CASE q.op = "patch" /\ n = q.name
  <2>1. Target(q, n) = Patched(old, q.arg) /\ old \in PresetRows
    BY <1>1, <1>5 DEF Target
  <2>2. CASE q.arg = [tp |-> "2"]
    <3>1. "tp" \in DOMAIN q.arg /\ "rt" \notin DOMAIN q.arg /\ q.arg.tp = "2"
      BY <2>2
    <3>2. Target(q, n) = [tp |-> "2", path |-> FALSE, synced |-> FALSE, params |-> old.params]
      BY <2>1, <3>1 DEF Patched, PresetRows
    <3> QED  BY <1>5, <2>1, <3>2 DEF PresetRows, TPs, Owns
  <2>3. CASE q.arg = [rt |-> "quoted"]
    <3>1. "tp" \notin DOMAIN q.arg /\ "rt" \in DOMAIN q.arg /\ q.arg.rt = "quoted"
      BY <2>3
    <3>2. [NoParams EXCEPT !.rt = "quoted"] =
            [rt |-> "quoted", oldRt |-> Unset, tp |-> Unset, other |-> FALSE]
      BY OnlyRt
    <3>3. Target(q, n) = [tp |-> old.tp, path |-> FALSE, synced |-> FALSE,
                          params |-> [rt |-> "quoted", oldRt |-> Unset, tp |-> Unset,
                                      other |-> FALSE]]
      BY <2>1, <3>1, <3>2 DEF Patched, PresetRows
    <3> QED  BY <1>5, <2>1, <3>3 DEF PresetRows, Texts, Owns
  <2> QED  BY <1>1, <1>5, <2>2, <2>3 DEF Fits
<1>6. CASE q.op \in {"create", "clone"} /\ n = q.name
  <2>1. Target(q, n) = [tp |-> q.arg.tp, params |-> [NoParams EXCEPT !.rt = q.arg.rt],
                        path |-> FALSE, synced |-> FALSE]
    BY <1>6 DEF Target
  <2>2. [NoParams EXCEPT !.rt = q.arg.rt] =
          [rt |-> q.arg.rt, oldRt |-> Unset, tp |-> Unset, other |-> FALSE]
    BY OnlyRt
  <2>3. q.arg.tp \in TPs \cup {Unset} /\ q.arg.rt \in Texts \cup {Unset}
    BY <1>1, <1>6 DEF Fits
  <2>4. Target(q, n) = [tp |-> q.arg.tp, path |-> FALSE, synced |-> FALSE,
                        params |-> [rt |-> q.arg.rt, oldRt |-> Unset, tp |-> Unset,
                                    other |-> FALSE]]
    BY <2>1, <2>2
  <2>5. Target(q, n) \in PresetRows /\ ~Target(q, n).synced
    BY <2>3, <2>4 DEF PresetRows
  <2> QED  BY <1>6, <2>5
<1>7. CASE q.op = "import" /\ n = q.name
  <2>1. Target(q, n) = FromText(q.arg, FALSE) /\ q.arg \in FileTexts
    BY <1>1, <1>7 DEF Target, Fits
  <2> QED  BY <1>7, <2>1, FromTextRow DEF Owns
<1>8. CASE q.op = "delete" /\ n = q.name
  BY <1>8 DEF Target
<1>9. CASE q.op \in {"create", "clone", "import", "patch", "delete"} /\ n # q.name
  <2>1. Target(q, n) = old
    BY <1>9 DEF Target
  <2> QED  BY <1>1, <1>9, <2>1 DEF Kept, Same, Owns
<1> QED  BY <1>1, <1>2, <1>3, <1>4, <1>5, <1>6, <1>7, <1>8, <1>9

(* A request that only reads makes each row canonical, and no more.        *)
LEMMA ReaderTarget ==
    ASSUME NEW q, q.op \in {"get", "export"}, NEW n, q.seen[n] \in PresetRows
    PROVE  Target(q, n) \in PresetRows /\ SameLaunch(q.seen[n], Target(q, n))
<1> DEFINE old == q.seen[n]
<1>1. Migrated(old) \in PresetRows /\ SameLaunch(old, Migrated(old))
  BY MigratedRow
<1>2. \/ Target(q, n) = Migrated(old)
      \/ Target(q, n) = [Migrated(old) EXCEPT !.path = TRUE, !.synced = TRUE]
  BY DEF Target
<1>3. /\ Target(q, n) \in PresetRows
      /\ Target(q, n).tp = Migrated(old).tp /\ Target(q, n).params = Migrated(old).params
  BY <1>1, <1>2 DEF PresetRows
<1> QED  BY <1>1, <1>3 DEF SameLaunch, LaunchOf

(* An import of files gives a preset what the text says, and leaves the    *)
(* columns of one that is there.                                           *)
LEMMA ImportedRow ==
    ASSUME NEW now \in PresetRows \cup {NoPreset}, NEW text \in FileTexts \cup {NoFile}
    PROVE  LET new == Imported(now, text) IN
           /\ new \in PresetRows \cup {NoPreset}
           /\ text = NoFile => new = now
           /\ text # NoFile => Alone(new).rt = Parse(text).rt
           /\ text # NoFile /\ now = NoPreset => Alone(new).tp = text.tp
<1>1. CASE text = NoFile
  BY <1>1 DEF Imported
<1>2. CASE text # NoFile /\ now = NoPreset
  BY <1>2, FromTextRow DEF Imported
<1>3. CASE text # NoFile /\ now # NoPreset
  <2>1. now \in PresetRows /\ text \in FileTexts
    BY <1>3
  <2>2. Imported(now, text) = [now EXCEPT !.params = [NoParams EXCEPT !.rt = Parse(text).rt],
                                          !.path = TRUE, !.synced = TRUE]
    BY <1>3 DEF Imported
  <2>3. [NoParams EXCEPT !.rt = Parse(text).rt] =
          [rt |-> Parse(text).rt, oldRt |-> Unset, tp |-> Unset, other |-> FALSE]
    BY OnlyRt
  <2>4. Parse(text).rt \in Texts \cup {Unset}
    BY <2>1, FromTextRow
  <2>5. Imported(now, text) \in PresetRows
    BY <2>1, <2>2, <2>3, <2>4 DEF PresetRows
  <2>6. Imported(now, text).params = [rt |-> Parse(text).rt, oldRt |-> Unset, tp |-> Unset, other |-> FALSE]
    BY <2>1, <2>2, <2>3 DEF PresetRows
  <2>7. Alone(Imported(now, text)).rt = Parse(text).rt
    BY <2>6 DEF Alone, LaunchOf
  <2> QED  BY <1>3, <2>5, <2>7
<1> QED  BY <1>1, <1>2, <1>3

(* What a commit leaves of a preset that nobody has changed since it was   *)
(* read; and of any other a preset or none.                                *)
LEMMA WrittenRow ==
    ASSUME PresetIInv, NEW r \in Reqs, request[r].at # "idle", NEW n \in Names
    PROVE  LET q   == request[r]
               new == Written(q)[n]
           IN /\ new \in PresetRows \cup {NoPreset}
              /\ n \notin q.overtaken =>
                   \/ new = NoPreset /\ (q.op \in {"get", "export"} => rows[n] = NoPreset)
                   \/ new \in PresetRows /\ ~new.synced /\ q.op \notin {"get", "export"}
                   \/ q.op # "install" /\ ~Owns(q, n) /\ Kept(rows[n], new)
                   \/ q.op = "export" /\ n = q.name /\ Same(rows[n], new)
                   \/ q.op = "install" /\ new = Imported(rows[n], files[n])
              /\ n \notin q.overtaken /\ q.op \in {"get", "export"} /\ rows[n] # NoPreset =>
                   SameLaunch(rows[n], new)
<1> DEFINE q   == request[r]
           new == Written(q)[n]
           old == q.seen[n]
           t   == Target(q, n)
<1>1. /\ Proper(q) /\ rows[n] \in PresetRows \cup {NoPreset}
      /\ old \in PresetRows \cup {NoPreset} /\ q.texts[n] \in FileTexts \cup {NoFile}
      /\ n \notin q.overtaken => rows[n] = old /\ (q.op = "install" => q.texts[n] = files[n])
  BY DEF PresetIInv, PresetTypeOK, Admitted, Proper, Unchanged
<1>2. CASE q.op = "install"
  <2>1. new = Imported(rows[n], q.texts[n])
    BY <1>2 DEF Written
  <2> QED  BY <1>1, <1>2, <2>1, ImportedRow
<1>3. CASE q.op # "install"
  <2>1. \/ old = NoPreset /\ t = NoPreset
        \/ Kept(old, t) /\ ~Owns(q, n)
        \/ t \in PresetRows /\ ~t.synced /\ q.op \in {"create", "clone", "import", "patch"}
        \/ q.op = "delete" /\ n = q.name /\ t = NoPreset
        \/ q.op = "export" /\ n = q.name /\ Same(old, t)
    BY <1>1, <1>3, TargetRow
  <2>2. t \in PresetRows \cup {NoPreset}
    BY <2>1 DEF Kept, Same
  <2>3. CASE NoPreset \in {old, t}
    <3>1. new = IF old = t THEN rows[n] ELSE t
      BY <1>3, <2>3 DEF Written
    <3>2. ~Kept(old, t) /\ ~Same(old, t)
      BY <2>3, PresetStoreAssumption DEF Kept, Same
    <3>3. old = t => old = NoPreset
      BY <2>3
    <3>4. q.op \in {"get", "export"} /\ old # NoPreset => t \in PresetRows
      BY <1>1, ReaderTarget
    <3>5. q.op \in {"get", "export"} => old = NoPreset
      BY <1>1, <2>3, <3>4, PresetStoreAssumption
    <3> QED  BY <1>1, <2>1, <2>2, <3>1, <3>2, <3>3, <3>5
  <2>4. CASE NoPreset \notin {old, t}
    <3>1. new = IF rows[n] = NoPreset THEN NoPreset ELSE Update(rows[n], old, t)
      BY <1>3, <2>4 DEF Written
    <3>2. old \in PresetRows /\ t \in PresetRows
      BY <1>1, <2>2, <2>4
    <3>3. rows[n] # NoPreset => new \in PresetRows /\ (rows[n] = old => new = t)
      BY <1>1, <3>1, <3>2, UpdatedRow
    <3>3a. q.op \in {"get", "export"} => SameLaunch(old, t)
      BY <3>2, ReaderTarget
    <3> HIDE DEF new, t, old
    <3>4. n \notin q.overtaken => rows[n] = old /\ new = t
      BY <1>1, <2>4, <3>3
    <3>5. new \in PresetRows \cup {NoPreset}
      BY <3>1, <3>3
    <3>6. n \notin q.overtaken =>
            \/ new \in PresetRows /\ ~new.synced /\ q.op \notin {"get", "export"}
            \/ ~Owns(q, n) /\ Kept(rows[n], new)
            \/ q.op = "export" /\ n = q.name /\ Same(rows[n], new)
      BY <2>1, <2>4, <3>4
    <3> QED  BY <1>3, <3>3a, <3>4, <3>5, <3>6 DEF new
  <2> QED  BY <2>3, <2>4
<1> QED  BY <1>2, <1>3

(* The launch values of an import of files differ from the file's only     *)
(* where the reasons it leaves say so.                                     *)
LEMMA InstallAlike ==
    ASSUME PresetIInv, NEW q, NEW n \in Names, q.op = "install", q.texts[n] = files[n],
           n \notin q.overtaken, NEW new, new = Imported(rows[n], files[n]),
           new # NoPreset, new.synced, NEW left, left = ReasonAfter(q, n, new)
    PROVE  \/ /\ files[n] # NoFile
              /\ files[n].tp = Alone(new).tp \/ "columns kept" \in left
              /\ files[n].rt = Alone(new).rt \/ "quotes escaped" \in left
           \/ files[n] = NoFile /\ new = rows[n] /\ reason[n] \subseteq left
<1>1. /\ rows[n] \in PresetRows \cup {NoPreset} /\ files[n] \in FileTexts \cup {NoFile}
  BY DEF PresetIInv, PresetTypeOK
<1>2. /\ reason[n] \subseteq left
      /\ files[n] # NoFile /\ rows[n] # NoPreset => "columns kept" \in left
      /\ files[n] # NoFile /\ files[n].rt = "quoted" => "quotes escaped" \in left
  BY DEF ReasonAfter
<1>3. CASE files[n] = NoFile
  BY <1>1, <1>2, <1>3, ImportedRow
<1>4. CASE files[n] # NoFile
  <2>1. /\ Alone(new).rt = Parse(files[n]).rt
        /\ rows[n] = NoPreset => Alone(new).tp = files[n].tp
    BY <1>1, <1>4, ImportedRow
  <2>2. files[n].rt # "quoted" => Parse(files[n]).rt = files[n].rt
    BY <1>1, <1>4, FromTextRow
  <2> QED  BY <1>2, <1>4, <2>1, <2>2
<1> QED  BY <1>3, <1>4

(* A commit: what it makes of the rows is right for the files, and readers *)
(* change nothing a slot would start with.                                 *)
LEMMA CommitStep ==
    ASSUME PresetIInv, NEW r \in Reqs, Commit(r)
    PROVE  PresetIInv'
<1> DEFINE q   == request[r]
           new == Written(q)
           ns  == {n \in Names : new[n] # rows[n]}
<1>1. /\ q.at = (IF q.op \in {"export", "delete"} THEN "filed" ELSE "read")
      /\ rows' = new
      /\ reason' = [n \in Names |-> ReasonAfter(q, n, new[n])]
      /\ request' = [Overtake(r, ns) EXCEPT ![r] = Idle]
      /\ UNCHANGED <<files, asked, failures>>
  BY DEF Commit
<1>2. q.at # "idle" /\ Proper(q) /\ Admitted
  BY <1>1 DEF PresetIInv, Admitted
<1>3. rows' \in [Names -> PresetRows \cup {NoPreset}]
  <2>1. \A n \in Names : new[n] \in PresetRows \cup {NoPreset}
    BY <1>2, WrittenRow
  <2>2. new = [n \in Names |-> new[n]]
    BY DEF Written
  <2> HIDE DEF new
  <2> QED  BY <1>1, <2>1, <2>2
<1>4. /\ DOMAIN request' = Reqs /\ request'[r] = Idle
      /\ \A o \in Reqs \ {r} : request'[o] = Overtake(r, ns)[o]
  BY <1>1 DEF Overtake
<1>5. \A o \in Reqs \ {r} :
        /\ Proper(request'[o]) /\ request'[o].op = request[o].op
        /\ request'[o].at = request[o].at /\ request'[o].name = request[o].name
        /\ request'[o].seen = request[o].seen /\ request'[o].texts = request[o].texts
        /\ request'[o].overtaken = IF request[o].at # "idle"
                                   THEN request[o].overtaken \cup ns ELSE request[o].overtaken
  <2>1. ns \in SUBSET Names
    OBVIOUS
  <2> HIDE DEF ns
  <2> QED  BY <1>2, <1>4, <2>1, OvertakeEffect
<1>6. Proper(Idle) /\ Idle.at = "idle" /\ Idle.op \in Ops
  BY DEF Proper, Requested, Idle, Ops
<1>7. \A n \in Names \ ns : rows'[n] = rows[n]
  BY <1>1
<1> HIDE DEF ns
<1>8. Admitted'
  BY <1>4, <1>5, <1>6 DEF Admitted
<1>9. Unchanged'
  <2> SUFFICES ASSUME NEW o \in Reqs, request'[o].at # "idle",
                      NEW n \in Names \ request'[o].overtaken
               PROVE  /\ request'[o].seen[n] = rows'[n]
                      /\ request'[o].op = "install" => request'[o].texts[n] = files'[n]
    BY DEF Unchanged
  <2>1. o # r
    BY <1>4, <1>6
  <2>2. request[o].at # "idle" /\ n \notin request[o].overtaken /\ n \notin ns
    BY <1>5, <2>1
  <2>3. /\ request[o].seen[n] = rows[n]
        /\ request[o].op = "install" => request[o].texts[n] = files[n]
    BY <2>2 DEF PresetIInv, Unchanged
  <2>4. rows'[n] = rows[n] /\ files' = files
    BY <1>1, <1>7, <2>2
  <2>5. /\ request'[o].seen = request[o].seen /\ request'[o].texts = request[o].texts
        /\ request'[o].op = request[o].op
    BY <1>5, <2>1
  <2> QED  BY <2>3, <2>4, <2>5
<1>10. Exported'
  <2> SUFFICES ASSUME NEW o \in Reqs, request'[o].at = "filed", request'[o].op = "export",
                      request'[o].name \notin request'[o].overtaken
               PROVE  files'[request'[o].name] =
                        Render(Migrated(request'[o].seen[request'[o].name]))
    BY DEF Exported
  <2>1. o # r
    BY <1>4, <1>6
  <2>2. /\ request[o].at = "filed" /\ request[o].op = "export"
        /\ request[o].name \notin request[o].overtaken
    BY <1>5, <2>1
  <2>3. files[request[o].name] = Render(Migrated(request[o].seen[request[o].name]))
    BY <2>2 DEF PresetIInv, Exported
  <2>4. request'[o].seen = request[o].seen /\ request'[o].name = request[o].name
    BY <1>5, <2>1
  <2> QED  BY <1>1, <2>3, <2>4
<1>11. PresetTypeOK'
  <2>1. \A o \in Reqs : request'[o].op \in Ops /\ request'[o].at \in {"idle", "read", "filed"}
    BY <1>4, <1>5, <1>6 DEF Proper, Requested
  <2> QED  BY <1>1, <1>3, <2>1 DEF PresetTypeOK, PresetIInv
<1>12. SyncedPlainly'
  <2> SUFFICES ASSUME NEW n \in Names, rows'[n] # NoPreset, rows'[n].synced
               PROVE  Alike(n)' \/ Excused(n)' \/ Filing(n)'
    BY DEF SyncedPlainly
  <2>1. reason'[n] = ReasonAfter(q, n, rows'[n])
    BY <1>1
  <2>2. n \in q.overtaken => Excused(n)'
    BY <2>1 DEF ReasonAfter, Excused
  <2>3. ~(q.op = "export" /\ n = q.name) => reason[n] \subseteq reason'[n]
    BY <2>1 DEF ReasonAfter
  <2>4. CASE n \notin q.overtaken
    <3>1. \/ q.op # "install" /\ ~Owns(q, n) /\ Kept(rows[n], rows'[n])
          \/ q.op = "export" /\ n = q.name /\ Same(rows[n], rows'[n])
          \/ q.op = "install" /\ rows'[n] = Imported(rows[n], files[n])
      BY <1>1, <1>2, <2>4, WrittenRow
    <3>2. CASE q.op # "install" /\ ~Owns(q, n) /\ Kept(rows[n], rows'[n])
      <4>1. rows[n] # NoPreset /\ rows[n].synced /\ Alone(rows'[n]) = Alone(rows[n])
        BY <3>2, PresetStoreAssumption DEF Kept, Same
      <4>2. Alike(n) \/ Excused(n) \/ Filing(n)
        BY <4>1 DEF PresetIInv, SyncedPlainly
      <4>3. reason[n] \subseteq reason'[n]
        BY <2>3, <3>2 DEF Owns
      <4>4. Alike(n) => Alike(n)'
        BY <1>1, <4>1, <4>3 DEF Alike
      <4>5. Excused(n) => Excused(n)'
        BY <4>3 DEF Excused
      <4>6. Filing(n) => Filing(n)'
        <5>1. ~(q.at = "filed" /\ q.name = n)
          BY <1>1, <3>2 DEF Owns
        <5> QED  BY <1>5, <5>1 DEF Filing
      <4> QED  BY <4>2, <4>4, <4>5, <4>6
    <3>3. CASE q.op = "export" /\ n = q.name /\ Same(rows[n], rows'[n])
      <4>1. /\ files[n] = Render(Migrated(q.seen[n])) /\ q.seen[n] = rows[n]
            /\ rows[n] \in PresetRows /\ Alone(rows'[n]) = Alone(rows[n])
        BY <1>1, <1>2, <2>4, <3>3 DEF PresetIInv, Exported, Unchanged, Same
      <4>2. /\ files[n] # NoFile
            /\ files[n].tp = Alone(rows[n]).tp /\ files[n].rt = Alone(rows[n]).rt
        BY <4>1, MigratedRow, PresetStoreAssumption
      <4> QED  BY <1>1, <4>1, <4>2 DEF Alike
    <3>4. CASE q.op = "install" /\ rows'[n] = Imported(rows[n], files[n])
      <4>1. q.texts[n] = files[n]
        BY <1>2, <2>4, <3>4 DEF PresetIInv, Unchanged
      <4>2. \/ /\ files[n] # NoFile
               /\ files[n].tp = Alone(rows'[n]).tp \/ "columns kept" \in reason'[n]
               /\ files[n].rt = Alone(rows'[n]).rt \/ "quotes escaped" \in reason'[n]
            \/ files[n] = NoFile /\ rows'[n] = rows[n] /\ reason[n] \subseteq reason'[n]
        BY <2>1, <2>4, <3>4, <4>1, InstallAlike
      <4>3. CASE files[n] # NoFile
        BY <1>1, <4>2, <4>3 DEF Alike
      <4>4. CASE files[n] = NoFile /\ rows'[n] = rows[n] /\ reason[n] \subseteq reason'[n]
        <5>1. Excused(n) \/ Filing(n)
          BY <4>4 DEF PresetIInv, SyncedPlainly, Alike
        <5>2. q.at # "filed"
          BY <1>1, <3>4
        <5>3. Filing(n) => Filing(n)'
          BY <1>5, <5>2 DEF Filing
        <5>4. Excused(n) => Excused(n)'
          BY <4>4 DEF Excused
        <5> QED  BY <5>1, <5>3, <5>4
      <4> QED  BY <4>2, <4>3, <4>4
    <3> QED  BY <3>1, <3>2, <3>3, <3>4
  <2> QED  BY <2>2, <2>4
<1>13. bypassed' = {}
  <2>1. ASSUME NEW n \in Names, q.op \in {"get", "export"}, n \notin q.overtaken, rows[n] # NoPreset
        PROVE  SameLaunch(rows[n], new[n])
    BY <1>2, <2>1, WrittenRow
  <2>2. bypassed' \subseteq bypassed \cup
          {n \in Names : /\ q.op \in {"get", "export"} /\ n \notin q.overtaken
                        /\ rows[n] # NoPreset /\ ~SameLaunch(rows[n], new[n])}
    BY DEF Commit
  <2> QED  BY <2>1, <2>2 DEF PresetIInv
<1>14. DOMAIN reason' = Names
  BY <1>1
<1> QED  BY <1>8, <1>9, <1>10, <1>11, <1>12, <1>13, <1>14 DEF PresetIInv

(* The invariant holds in every state of the presets.                      *)
THEOREM PresetIInvHolds == PresetSpec => []PresetIInv
<1>1. PresetInit => PresetIInv
  <2> SUFFICES ASSUME PresetInit PROVE PresetIInv
    OBVIOUS
  <2>1. PICK m \in Names, tp \in {Unset, "2"}, there \in BOOLEAN, old \in BOOLEAN :
          /\ tp = Unset => old
          /\ rows = [n \in Names |-> IF n = m /\ there THEN OldRow(tp, old) ELSE NoPreset]
          /\ files = [n \in Names |-> IF n = m THEN OldFile ELSE NoFile]
          /\ reason = [n \in Names |-> IF n = m /\ there /\ tp = "2"
                                       THEN {"columns kept"} ELSE {}]
    BY DEF PresetInit
  <2>2. /\ OldRow(tp, old) \in PresetRows /\ OldFile \in FileTexts /\ OldFile # NoFile
        /\ OldFile.rt = "plain" /\ OldFile.tp = "8"
    BY PresetStoreAssumption DEF OldRow, OldFile, PresetRows, FileTexts, TPs, Texts
  <2>3. /\ Alone(OldRow(tp, old)).tp = IF tp = Unset THEN "8" ELSE tp
        /\ Alone(OldRow(tp, old)).rt = "plain"
    BY <2>1 DEF OldRow, Alone, LaunchOf
  <2>4. /\ request = [r \in Reqs |-> Idle] /\ bypassed = {} /\ asked = 0 /\ failures = 0
        /\ Proper(Idle) /\ Idle.at = "idle" /\ Idle.op \in Ops
    BY DEF PresetInit, Proper, Requested, Idle, Ops
  <2>5. PresetTypeOK
    <3>1. /\ rows \in [Names -> PresetRows \cup {NoPreset}]
          /\ files \in [Names -> FileTexts \cup {NoFile}]
      BY <2>1, <2>2
    <3>2. asked \in 0..MaxRequests /\ failures \in 0..MaxFailures
      BY <2>4, PresetStoreAssumption
    <3>3. \A r \in Reqs : request[r].op \in Ops /\ request[r].at \in {"idle", "read", "filed"}
      BY <2>4
    <3> QED  BY <3>1, <3>2, <3>3 DEF PresetTypeOK
  <2>6. Admitted /\ Unchanged /\ Exported
    BY <2>4 DEF Admitted, Unchanged, Exported
  <2>7. \A n \in Names : rows[n] # NoPreset => Alike(n)
    BY <2>1, <2>2, <2>3 DEF Alike
  <2> QED  BY <2>1, <2>4, <2>5, <2>6, <2>7 DEF PresetIInv, SyncedPlainly
<1>2. PresetIInv /\ [PresetNext]_presetVars => PresetIInv'
  <2> SUFFICES ASSUME PresetIInv, [PresetNext]_presetVars PROVE PresetIInv'
    OBVIOUS
  <2>1. ASSUME NEW r \in Reqs, PresetRequest(r) PROVE PresetIInv'
    <3>1. PICK op, n, arg : /\ Begin(r, op, n, arg) /\ Fits(op, n, arg)
                            /\ op \in {"patch", "export", "delete"} => rows[n] # NoPreset
      BY <2>1, RequestFits
    <3> QED  BY <3>1, BeginStep
  <2>2. CASE UNCHANGED presetVars
    <3>1. UNCHANGED <<rows, files, request, reason, bypassed, asked, failures>>
      BY <2>2 DEF presetVars
    <3>2. PresetTypeOK'
      BY <3>1 DEF PresetIInv, PresetTypeOK
    <3>3. Admitted' /\ Unchanged' /\ Exported'
      BY <3>1 DEF PresetIInv, Admitted, Unchanged, Exported
    <3>4. SyncedPlainly'
      BY <3>1 DEF PresetIInv, SyncedPlainly, Alike, Excused, Filing
    <3> QED  BY <3>1, <3>2, <3>3, <3>4 DEF PresetIInv
  <2> QED  BY <2>1, <2>2, FileStep, CommitStep, FailStep DEF PresetNext
<1> QED  BY <1>1, <1>2, PTL DEF PresetSpec

(* A preset shown as synced has a file that says what its slots start      *)
(* with on any stack, or the row tells why it may not.                     *)
THEOREM SyncedMatchesFileHolds == PresetSpec => []SyncedMatchesFile
<1>1. PresetIInv => SyncedMatchesFile
  BY SyncedSays DEF PresetIInv
<1> QED  BY <1>1, PresetIInvHolds, PTL

(* A download and an import bring every preset back as it starts its slots *)
(* on any stack, but for quotes, values under old names that the stack has *)
(* hidden, and keys outside _RUNTIME_KEYS.                                 *)
THEOREM DownloadKeepsLaunchHolds == PresetSpec => []DownloadKeepsLaunch
<1>1. PresetIInv => DownloadKeepsLaunch
  BY DownloadKeeps DEF PresetIInv
<1> QED  BY <1>1, PresetIInvHolds, PTL

(* Reading or exporting presets changes nothing a slot would start with on *)
(* any stack but what SameLaunch names, unless another request has         *)
(* committed in between.                                                   *)
THEOREM ReadersChangeNothingHolds == PresetSpec => []ReadersChangeNothing
<1>1. PresetIInv => ReadersChangeNothing
  BY DEF PresetIInv, ReadersChangeNothing
<1> QED  BY <1>1, PresetIInvHolds, PTL

-----------------------------------------------------------------------------
(* The parameters of the stack                                             *)

(* Name i of chain c is the first one of it that m has a value for.        *)
First(m, c, i) == i \in DOMAIN c /\ IsSet(m[c[i]]) /\ \A j \in 1..(i - 1) : ~IsSet(m[c[j]])

(* The names of a chain are keys, its first one the canonical.             *)
LEMMA ChainKeys ==
    ASSUME NEW c \in Chains
    PROVE  /\ DOMAIN c = 1..Len(c) /\ Len(c) \in Nat /\ 1 \in DOMAIN c
           /\ \A i \in DOMAIN c : c[i] \in Keys /\ i \in Nat
           /\ c[1] \in Canonical
           /\ \A i \in DOMAIN c : i # 1 => c[i] \in LegacyKeys
           /\ \A i \in DOMAIN c : c[i] \in Canonical \cup LegacyKeys
<1>1. c \in Seq(Keys) /\ c # <<>>
  BY StackConfigAssumption
<1>2. DOMAIN c = 1..Len(c) /\ Len(c) \in Nat /\ Len(c) # 0
  BY <1>1
<1>3. 1 \in DOMAIN c
  BY <1>2
<1>4. \A i \in DOMAIN c : c[i] \in Keys /\ i \in Nat
  BY <1>1, <1>2
<1>5. c[1] \in Canonical
  BY DEF Canonical
<1>6. ASSUME NEW i \in DOMAIN c, i # 1 PROVE c[i] \in LegacyKeys
  <2>1. i \in 2..Len(c)
    BY <1>2, <1>6
  <2> QED  BY <2>1 DEF LegacyKeys
<1> QED  BY <1>2, <1>3, <1>4, <1>5, <1>6

(* A key is in one chain only.                                             *)
LEMMA OneChain ==
    ASSUME NEW c \in Chains, NEW d \in Chains, NEW i \in DOMAIN c, NEW j \in DOMAIN d, c[i] = d[j]
    PROVE  c = d
  BY StackConfigAssumption

(* coalesce_str gives the value of the first name that has one, and blank  *)
(* if none has.                                                            *)
LEMMA CoalesceFirst ==
    ASSUME NEW m, NEW c \in Chains
    PROVE  /\ \A i : First(m, c, i) => Coalesce(m, c) = m[c[i]]
           /\ (\A i : ~First(m, c, i)) => Coalesce(m, c) = Empty
           /\ IsSet(Coalesce(m, c)) => \E i : First(m, c, i) /\ Coalesce(m, c) = m[c[i]]
<1>1. ASSUME NEW i, NEW j, First(m, c, i), First(m, c, j), i < j PROVE FALSE
  <2>1. i \in Nat /\ j \in Nat /\ 1 <= i
    BY <1>1, ChainKeys DEF First
  <2>2. i \in 1..(j - 1)
    BY <1>1, <2>1
  <2> QED  BY <1>1, <2>2 DEF First
<1>2. ASSUME NEW i, NEW j, First(m, c, i), First(m, c, j) PROVE i = j
  <2>1. i \in Nat /\ j \in Nat
    BY <1>2, ChainKeys DEF First
  <2>2. ~(i < j) /\ ~(j < i)
    BY <1>1, <1>2
  <2> QED  BY <2>1, <2>2
<1>3. Coalesce(m, c) = IF \E i \in DOMAIN c : First(m, c, i)
                       THEN m[c[CHOOSE i \in DOMAIN c : First(m, c, i)]] ELSE Empty
  BY DEF Coalesce, First
<1>4. \A i : First(m, c, i) => i \in DOMAIN c
  BY DEF First
<1>5. ASSUME NEW i, First(m, c, i) PROVE Coalesce(m, c) = m[c[i]]
  <2> DEFINE a == CHOOSE x \in DOMAIN c : First(m, c, x)
  <2>1. First(m, c, a)
    BY <1>4, <1>5
  <2>2. a = i
    BY <1>2, <1>5, <2>1
  <2> QED  BY <1>3, <1>4, <1>5, <2>2
<1>6. (\A i : ~First(m, c, i)) => Coalesce(m, c) = Empty
  BY <1>3
<1>7. ~IsSet(Empty)
  BY DEF IsSet
<1> QED  BY <1>5, <1>6, <1>7

Before == OpToRel(<, Nat)
(* If names of a chain have values, one of them is the first.              *)
LEMMA FirstIsThere ==
    ASSUME NEW m, NEW c \in Chains, NEW i \in DOMAIN c, IsSet(m[c[i]])
    PROVE  \E j : First(m, c, j)
<1> DEFINE S == {j \in DOMAIN c : IsSet(m[c[j]])}
<1>1. S \subseteq Nat /\ S # {}
  BY ChainKeys
<1>2. IsWellFoundedOn(Before, Nat)
  BY NatLessThanWellFounded, Zenon DEF Before
<1> HIDE DEF S
<1>3. PICK j \in S : \A q \in S : <<q, j>> \notin Before
  BY <1>1, <1>2, WFMin
<1>4. \A q \in S : ~(q < j)
  BY <1>1, <1>3 DEF Before, OpToRel
<1>5. j \in DOMAIN c /\ IsSet(m[c[j]]) /\ \A q \in 1..(j - 1) : q \in DOMAIN c
  BY ChainKeys DEF S
<1>6. \A q \in 1..(j - 1) : q < j
  BY <1>1
<1> QED  BY <1>4, <1>5, <1>6 DEF First, S

(* A canonical name with a value decides.                                  *)
LEMMA CanonicalFirst ==
    ASSUME NEW m, NEW c \in Chains, IsSet(m[c[1]])
    PROVE  Coalesce(m, c) = m[c[1]]
<1>1. First(m, c, 1)
  BY ChainKeys DEF First
<1> QED  BY <1>1, CoalesceFirst

(* Where two dictionaries agree on a chain they give the same value.       *)
LEMMA CoalesceSame ==
    ASSUME NEW m, NEW n, NEW c \in Chains, \A i \in DOMAIN c : m[c[i]] = n[c[i]]
    PROVE  Coalesce(m, c) = Coalesce(n, c)
<1>1. ASSUME NEW i PROVE First(m, c, i) <=> First(n, c, i)
  <2>1. i \in DOMAIN c => \A j \in 1..(i - 1) : j \in DOMAIN c
    BY ChainKeys
  <2> QED  BY <2>1 DEF First
<1>2. CASE \E i : First(m, c, i)
  <2>1. PICK i : First(m, c, i)
    BY <1>2
  <2>2. Coalesce(m, c) = m[c[i]] /\ Coalesce(n, c) = n[c[i]]
    BY <1>1, <2>1, CoalesceFirst
  <2> QED  BY <2>1, <2>2 DEF First
<1>3. CASE \A i : ~First(m, c, i)
  BY <1>1, <1>3, CoalesceFirst
<1> QED  BY <1>2, <1>3

(* What is stored in a dictionary is what a chain of it can give.          *)
LEMMA CoalesceStored ==
    ASSUME NEW m \in [Keys -> Stored], NEW c \in Chains
    PROVE  Coalesce(m, c) \in Stored /\ Coalesce(m, c) # Absent
<1>1. CASE \E i : First(m, c, i)
  <2>1. PICK i : First(m, c, i)
    BY <1>1
  <2>2. Coalesce(m, c) = m[c[i]] /\ c[i] \in Keys /\ IsSet(m[c[i]])
    BY <2>1, CoalesceFirst, ChainKeys DEF First
  <2> QED  BY <2>2 DEF IsSet
<1>2. CASE \A i : ~First(m, c, i)
  BY <1>2, CoalesceFirst, StackConfigAssumption DEF Stored
<1> QED  BY <1>1, <1>2

(* Aliases leave a key alone that has no chain, and give a canonical one   *)
(* the value of its chain.                                                 *)
LEMMA AliasesOf ==
    ASSUME NEW m, NEW chains \in SUBSET Chains, NEW k \in Keys
    PROVE  /\ (\A c \in chains : c[1] # k) => ApplyAliases(m, chains)[k] = m[k]
           /\ \A c \in chains : c[1] = k =>
                ApplyAliases(m, chains)[k] = IF IsSet(Coalesce(m, c)) THEN Coalesce(m, c) ELSE m[k]
<1>1. ApplyAliases(m, chains)[k] =
        IF \E c \in chains : c[1] = k /\ IsSet(Coalesce(m, c))
        THEN Coalesce(m, CHOOSE c \in chains : c[1] = k) ELSE m[k]
  BY DEF ApplyAliases
<1>2. ASSUME NEW c \in chains, c[1] = k
      PROVE  ApplyAliases(m, chains)[k] = IF IsSet(Coalesce(m, c)) THEN Coalesce(m, c) ELSE m[k]
  <2> DEFINE e == CHOOSE d \in chains : d[1] = k
  <2>1. \A d \in chains : d[1] = k => d = c
    BY <1>2, OneChain, ChainKeys
  <2>2. e = c
    BY <1>2, <2>1
  <2> QED  BY <1>1, <1>2, <2>1, <2>2
<1> QED  BY <1>1, <1>2

(* The rows sync_merged_flat goes by, and the key of the setting.          *)
Base ==
    LET w == Without(row, Dropped \cup PresetOnly)
    IN [k \in Keys |-> IF k = LiteKey /\ w[k] = Absent /\ IsSet(lite) THEN lite ELSE w[k]]

(* What readers get is these rows with the aliases of vLLM.                *)
LEMMA MergedIs == Merged = ApplyAliases(Base, VllmChains)
<1> DEFINE w == Without(row, Dropped \cup PresetOnly)
           n == [w EXCEPT ![LiteKey] = IF w[LiteKey] = Absent /\ IsSet(lite) THEN lite
                                       ELSE w[LiteKey]]
<1>1. Merged = ApplyAliases(n, VllmChains)
  BY DEF Merged
<1>2. w = [k \in Keys |-> w[k]]
  BY DEF Without
<1>3. n = Base
  BY <1>2 DEF Base
<1> QED  BY <1>1, <1>3

(* What the GPUs and the engine of the slot put into it before the aliases. *)
Assigned(preset, gpus, sglang) ==
    LET m == Overlaid(preset)
    IN [k \in Keys |-> CASE k = TpKey -> gpus.tp
                        [] k = DeviceKey -> gpus.devices
                        [] k = PortKey -> IF sglang /\ m[k] = Absent THEN m[SglangPort] ELSE m[k]
                        [] OTHER -> m[k]]

(* Launch is this with the aliases of vLLM.                                *)
LEMMA LaunchIsAssigned ==
    ASSUME NEW p \in Presets, NEW g \in GpuLists, NEW sglang \in BOOLEAN
    PROVE  Launch(p, g, sglang) = ApplyAliases(Assigned(p, g, sglang), VllmChains)
<1> DEFINE m == Overlaid(p)
           n == [m EXCEPT ![TpKey] = g.tp, ![DeviceKey] = g.devices,
                          ![PortKey] = IF sglang /\ m[PortKey] = Absent THEN m[SglangPort]
                                       ELSE m[PortKey]]
<1>1. m = [k \in Keys |-> m[k]]
  BY DEF Overlaid
<1>2. TpKey # DeviceKey /\ TpKey # PortKey /\ DeviceKey # PortKey
  BY StackConfigAssumption
<1>3. Launch(p, g, sglang) = ApplyAliases(n, VllmChains)
  BY <1>2 DEF Launch
<1> HIDE DEF m
<1>4. n = [k \in Keys |-> CASE k = TpKey -> g.tp
                            [] k = DeviceKey -> g.devices
                            [] k = PortKey -> IF sglang /\ m[k] = Absent THEN m[SglangPort]
                                              ELSE m[k]
                            [] OTHER -> m[k]]
  BY <1>1, <1>2
<1> QED  BY <1>3, <1>4 DEF Assigned, m

(* What the preset leaves open comes from the stack, and nothing that is   *)
(* the preset's own does.                                                  *)
LEMMA OverlaidIs ==
    ASSUME NEW p \in Presets, NEW k \in Keys
    PROVE  Overlaid(p)[k] = IF p[k] # Absent THEN p[k]
                            ELSE IF k \in PresetOnly THEN Absent ELSE Merged[k]
  BY DEF Overlaid, Without

(* The keys of a chain are not among those a slot is given.                *)
LEMMA ChainAssigned ==
    ASSUME NEW p \in Presets, NEW g \in GpuLists, NEW sglang \in BOOLEAN,
           NEW c \in Chains, NEW i \in DOMAIN c
    PROVE  Assigned(p, g, sglang)[c[i]] = Overlaid(p)[c[i]]
<1>1. c[i] \in Keys /\ c[i] \in Canonical \cup LegacyKeys
  BY ChainKeys
<1>2. c[i] \notin {TpKey, DeviceKey, PortKey}
  BY <1>1, StackConfigAssumption
<1> QED  BY <1>1, <1>2 DEF Assigned

(* An old name has no other name, so readers get its row.                  *)
LEMMA LegacyMerged ==
    ASSUME NEW l \in LegacyKeys \cap Keys
    PROVE  Merged[l] = row[l] /\ l \notin PresetOnly
<1>1. l \notin PresetOnly \cup Dropped /\ l # LiteKey
  BY StackConfigAssumption
<1>2. \A d \in VllmChains : d[1] # l
  BY StackConfigAssumption, ChainKeys DEF Chains
<1>3. Merged[l] = Base[l]
  BY <1>2, AliasesOf, MergedIs DEF Chains
<1> QED  BY <1>1, <1>3 DEF Base, Without

(* A chain of which the stack has no value gets none from sync_merged_flat. *)
LEMMA UnsetMerged ==
    ASSUME NEW c \in VllmChains, ~InStack(c), NEW i \in DOMAIN c, c[i] \notin PresetOnly
    PROVE  ~IsSet(Merged[c[i]])
<1>1. c \in Chains /\ VllmChains \in SUBSET Chains
  BY DEF Chains
<1>2. ASSUME NEW j \in DOMAIN c PROVE ~IsSet(Base[c[j]])
  <2>1. c[j] \in Keys /\ c[j] # LiteKey
    BY <1>1, ChainKeys, StackConfigAssumption
  <2>2. Base[c[j]] = IF c[j] \in Dropped \cup PresetOnly THEN Absent ELSE row[c[j]]
    BY <2>1 DEF Base, Without
  <2> QED  BY <2>2 DEF InStack, IsSet
<1>3. ~IsSet(Coalesce(Base, c))
  BY <1>1, <1>2, CoalesceFirst DEF First
<1>4. c[i] \in Keys
  BY <1>1, ChainKeys
<1>5. \A d \in VllmChains : d[1] = c[i] => d = c
  BY <1>1, OneChain, ChainKeys
<1>6. Merged[c[i]] = Base[c[i]]
  BY <1>1, <1>3, <1>4, <1>5, AliasesOf, MergedIs
<1> QED  BY <1>2, <1>6

(* A slot starts with what its preset sets, under a name of today or an    *)
(* old one, and with what its GPUs decide.                                 *)
LEMMA PresetFirst == PresetDecides
<1> SUFFICES ASSUME NEW p \in Presets, NEW g \in GpuLists, NEW sglang \in BOOLEAN, MayLaunch(p)
             PROVE  LET got == Launch(p, g, sglang) IN
                    /\ got[TpKey] = g.tp /\ got[DeviceKey] = g.devices
                    /\ \A k \in Required : IsSet(p[k])
                    /\ \A k \in Keys \ {TpKey, DeviceKey} :
                         /\ IsSet(p[k]) => got[k] = p[k]
                         /\ k \in PresetOnly /\ IsSet(got[k]) =>
                              \/ IsSet(p[k])
                              \/ \E c \in VllmChains : c[1] = k /\ \E i \in 2..Len(c) :
                                    IsSet(p[c[i]]) \/ IsSet(row[c[i]])
                    /\ \A c \in VllmChains :
                         (\E i \in DOMAIN c : IsSet(p[c[i]])) /\ ~InStack(c) =>
                             \E i \in DOMAIN c : IsSet(p[c[i]]) /\ got[c[1]] = p[c[i]]
  BY DEF PresetDecides
<1> DEFINE m   == Overlaid(p)
           n   == Assigned(p, g, sglang)
           got == Launch(p, g, sglang)
<1>1. VllmChains \in SUBSET Chains
  BY DEF Chains
<1>2. ASSUME NEW k \in Keys
      PROVE  /\ (\A c \in VllmChains : c[1] # k) => got[k] = n[k]
             /\ \A c \in VllmChains : c[1] = k =>
                  got[k] = IF IsSet(Coalesce(n, c)) THEN Coalesce(n, c) ELSE n[k]
  BY <1>1, LaunchIsAssigned, AliasesOf
<1>3. /\ {TpKey, DeviceKey, PortKey} \subseteq Keys
      /\ TpKey # DeviceKey /\ TpKey # PortKey /\ DeviceKey # PortKey /\ PortKey \notin PresetOnly
      /\ \A c \in VllmChains : c[1] \notin {TpKey, DeviceKey}
  BY <1>1, ChainKeys, StackConfigAssumption
<1>4. got[TpKey] = g.tp /\ got[DeviceKey] = g.devices
  BY <1>2, <1>3 DEF Assigned
<1>5. ASSUME NEW k \in Required PROVE IsSet(p[k])
  <2>1. k \in Keys /\ k \in PresetOnly /\ IsSet(m[k])
    BY StackConfigAssumption DEF MayLaunch
  <2> QED  BY <2>1, OverlaidIs DEF IsSet
<1>6. ASSUME NEW k \in Keys \ {TpKey, DeviceKey}
      PROVE  n[k] = m[k] \/ (k = PortKey /\ m[k] = Absent)
  BY <1>6 DEF Assigned
<1>7. \A c \in Chains : \A i \in DOMAIN c : n[c[i]] = m[c[i]] /\ c[i] \in Keys
  BY ChainAssigned, ChainKeys
<1> HIDE DEF m, n, got
<1>8. ASSUME NEW k \in Keys \ {TpKey, DeviceKey}, IsSet(p[k]) PROVE got[k] = p[k]
  <2>1. n[k] = p[k] /\ IsSet(n[k])
    <3>1. m[k] = p[k] /\ m[k] # Absent
      BY <1>8, OverlaidIs DEF IsSet, m
    <3> QED  BY <1>6, <1>8, <3>1
  <2>2. ASSUME NEW c \in VllmChains, c[1] = k PROVE got[k] = p[k]
    <3>1. Coalesce(n, c) = n[k]
      BY <1>1, <2>1, <2>2, CanonicalFirst
    <3> QED  BY <1>2, <2>1, <2>2, <3>1
  <2> QED  BY <1>2, <2>1, <2>2
<1>9. ASSUME NEW k \in Keys \ {TpKey, DeviceKey}, k \in PresetOnly, IsSet(got[k]), ~IsSet(p[k])
      PROVE  \E c \in VllmChains : c[1] = k /\ \E i \in 2..Len(c) :
               IsSet(p[c[i]]) \/ IsSet(row[c[i]])
  <2>1. ~IsSet(n[k])
    <3>1. ~IsSet(m[k])
      BY <1>9, OverlaidIs DEF IsSet, m
    <3> QED  BY <1>3, <1>6, <1>9, <3>1
  <2>2. PICK c \in VllmChains : c[1] = k
    BY <1>2, <1>9, <2>1
  <2>3. c \in Chains /\ IsSet(Coalesce(n, c))
    BY <1>1, <1>2, <1>9, <2>1, <2>2
  <2>4. PICK i : First(n, c, i)
    BY <2>3, CoalesceFirst
  <2>5. i \in DOMAIN c /\ IsSet(n[c[i]]) /\ i # 1
    BY <2>1, <2>2, <2>4 DEF First
  <2>6. c[i] \in LegacyKeys \cap Keys /\ i \in 2..Len(c) /\ IsSet(m[c[i]])
    BY <1>7, <2>3, <2>5, ChainKeys
  <2>7. IsSet(p[c[i]]) \/ IsSet(row[c[i]])
    BY <2>6, OverlaidIs, LegacyMerged DEF m
  <2> QED  BY <2>2, <2>6, <2>7
<1>10. ASSUME NEW c \in VllmChains, NEW a \in DOMAIN c, IsSet(p[c[a]]), ~InStack(c)
       PROVE  \E i \in DOMAIN c : IsSet(p[c[i]]) /\ got[c[1]] = p[c[i]]
  <2>1. c \in Chains
    BY <1>1
  <2>2. IsSet(m[c[a]])
    BY <1>7, <1>10, <2>1, OverlaidIs DEF IsSet, m
  <2>3. PICK i : First(n, c, i)
    BY <1>7, <1>10, <2>1, <2>2, FirstIsThere
  <2>4. i \in DOMAIN c /\ IsSet(m[c[i]]) /\ c[i] \in Keys /\ Coalesce(n, c) = m[c[i]]
    BY <1>7, <2>1, <2>3, CoalesceFirst DEF First
  <2>5. IsSet(p[c[i]]) /\ m[c[i]] = p[c[i]]
    <3>1. c[i] \notin PresetOnly => ~IsSet(Merged[c[i]])
      BY <1>10, <2>4, UnsetMerged
    <3>2. p[c[i]] # Empty
      BY <2>4, StackConfigAssumption
    <3> QED  BY <2>4, <3>1, <3>2, OverlaidIs DEF IsSet, m
  <2>6. c[1] \in Keys
    BY <2>1, ChainKeys
  <2>7. got[c[1]] = m[c[i]]
    BY <1>2, <2>4, <2>6
  <2> QED  BY <2>4, <2>5, <2>7
<1> QED  BY <1>4, <1>5, <1>8, <1>9, <1>10 DEF got

(* A database with other rows and flags.                                   *)
LEMMA DbExcept ==
    ASSUME NEW d \in [row : [Keys -> Stored], secret : SUBSET Keys, lite : Stored], NEW a, NEW b
    PROVE  [d EXCEPT !.row = a, !.secret = b] = [row |-> a, secret |-> b, lite |-> d.lite]
<1> DEFINE e == [d EXCEPT !.row = a, !.secret = b]
<1>1. e.row = a /\ e.secret = b /\ e.lite = d.lite
  OBVIOUS
<1>2. e \in [row : {a}, secret : {b}, lite : {d.lite}]
  <2>1. d \in [row : {d.row}, secret : {d.secret}, lite : {d.lite}]
    OBVIOUS
  <2> QED  BY <2>1
<1> HIDE DEF e
<1>3. e = [row |-> e.row, secret |-> e.secret, lite |-> e.lite]
  BY <1>2
<1> QED  BY <1>1, <1>3 DEF e

(* A database as the program can leave it: rows with values and flags, and *)
(* every secret has its flag.                                              *)
Clean(d) == /\ d \in [row : [Keys -> Stored], secret : SUBSET Keys, lite : Stored]
            /\ d.secret \subseteq Present(d.row)
            /\ Present(d.row) \cap SecretKeys \subseteq d.secret
(* Old names that are not flagged are gone, or flags are those of secrets. *)
Renamed(d) == Legacy(d) = {} \/ d.secret \subseteq SecretKeys

(* An upsert of a value leaves a clean database.                           *)
LEMMA UpsertClean ==
    ASSUME NEW d, Clean(d), NEW k \in Keys, NEW v \in Stored, v # Absent
    PROVE  /\ Clean(Upsert(d, k, v))
           /\ Upsert(d, k, v).lite = d.lite /\ Upsert(d, k, v).row[k] = v
           /\ \A q \in Keys \ {k} : /\ Upsert(d, k, v).row[q] = d.row[q]
                                    /\ q \in Upsert(d, k, v).secret <=> q \in d.secret
<1> DEFINE e == Upsert(d, k, v)
<1>1. e = [row |-> [d.row EXCEPT ![k] = v], lite |-> d.lite,
           secret |-> IF k \in SecretKeys THEN d.secret \cup {k} ELSE d.secret \ {k}]
  <2>1. e = [d EXCEPT !.row = [d.row EXCEPT ![k] = v],
                      !.secret = IF k \in SecretKeys THEN d.secret \cup {k} ELSE d.secret \ {k}]
    BY DEF Upsert
  <2> HIDE DEF e
  <2> QED  BY <2>1, DbExcept DEF Clean
<1>2. /\ e.row = [d.row EXCEPT ![k] = v] /\ e.lite = d.lite
      /\ e.secret = IF k \in SecretKeys THEN d.secret \cup {k} ELSE d.secret \ {k}
  BY <1>1
<1>3. e.row \in [Keys -> Stored] /\ e.secret \in SUBSET Keys /\ e.lite \in Stored
  BY <1>2 DEF Clean
<1>4. e \in [row : [Keys -> Stored], secret : SUBSET Keys, lite : Stored]
  BY <1>1, <1>2, <1>3
<1> HIDE DEF e
<1>5. e.secret \subseteq Present(e.row) /\ Present(e.row) \cap SecretKeys \subseteq e.secret
  BY <1>2, <1>3 DEF Clean, Present
<1>6. d.row \in [Keys -> Stored]
  BY DEF Clean
<1>7. e.row[k] = v /\ \A q \in Keys \ {k} : e.row[q] = d.row[q] /\ (q \in e.secret <=> q \in d.secret)
  BY <1>2, <1>6
<1> QED  BY <1>2, <1>4, <1>5, <1>7 DEF Clean, e

(* So does a delete.                                                       *)
LEMMA DeleteClean ==
    ASSUME NEW d, Clean(d), NEW S
    PROVE  /\ Clean(Delete(d, S))
           /\ Delete(d, S).row = Without(d.row, S)
           /\ Delete(d, S).secret = d.secret \ S
           /\ Delete(d, S).lite = d.lite
<1> DEFINE e == Delete(d, S)
<1>1. e = [row |-> Without(d.row, S), lite |-> d.lite, secret |-> d.secret \ S]
  <2>1. e = [d EXCEPT !.row = Without(d.row, S), !.secret = d.secret \ S]
    BY DEF Delete
  <2> HIDE DEF e
  <2> QED  BY <2>1, DbExcept DEF Clean
<1>2. e.row = Without(d.row, S) /\ e.lite = d.lite /\ e.secret = d.secret \ S
  BY <1>1
<1>3. e.row \in [Keys -> Stored] /\ e.secret \in SUBSET Keys /\ e.lite \in Stored
  BY <1>2 DEF Clean, Without, Stored
<1>4. e \in [row : [Keys -> Stored], secret : SUBSET Keys, lite : Stored]
  BY <1>1, <1>2, <1>3
<1> HIDE DEF e
<1>5. e.secret \subseteq Present(e.row) /\ Present(e.row) \cap SecretKeys \subseteq e.secret
  BY <1>2, <1>3 DEF Clean, Present, Without
<1> QED  BY <1>2, <1>4, <1>5 DEF Clean, e

(* What a GET shows of the rows is values under names of today.            *)
LEMMA ShownStored ==
    ASSUME NEW d, Clean(d)
    PROVE  LET shown == Presentation(Plain(d)) IN
           /\ Plain(d) \in [Keys -> Stored] /\ shown \in [Keys -> Stored]
           /\ Present(shown) \subseteq Keys
           /\ Present(shown) \cap (LegacyKeys \cup PresetOnly) = {}
<1> DEFINE p == Plain(d)
           a == ApplyAliases(p, Chains)
<1>1. p \in [Keys -> Stored]
  BY DEF Plain, Without, Clean, Stored
<1> HIDE DEF p
<1>2. a = [k \in Keys |-> a[k]]
  BY DEF ApplyAliases
<1>3. ASSUME NEW k \in Keys PROVE a[k] \in Stored
  <2>1. CASE \A c \in Chains : c[1] # k
    BY <1>1, <2>1, AliasesOf
  <2>2. ASSUME NEW c \in Chains, c[1] = k PROVE a[k] \in Stored
    BY <1>1, <2>2, AliasesOf, CoalesceStored
  <2> QED  BY <2>1, <2>2
<1> HIDE DEF a
<1>4. a \in [Keys -> Stored]
  BY <1>2, <1>3
<1>5. Presentation(p) = Without(a, LegacyKeys \cup PresetOnly)
  BY DEF Presentation, a
<1> QED  BY <1>1, <1>4, <1>5 DEF Without, Present, Stored, p

(* The rewriting, field by field.                                          *)
LEMMA RewriteFields ==
    ASSUME NEW d, Clean(d), NEW seen, Clean(seen)
    PROVE  LET shown == Presentation(Plain(seen))
               new   == Present(shown)
               e     == Rewrite(d, seen)
           IN /\ Legacy(seen) = {} => e = d
              /\ Legacy(seen) # {} =>
                   /\ e.row = [k \in Keys |-> IF k \in Legacy(seen) THEN Absent
                                              ELSE IF k \in new THEN shown[k] ELSE d.row[k]]
                   /\ e.secret = ((d.secret \ new) \cup (new \cap SecretKeys)) \ Legacy(seen)
              /\ e.lite = d.lite
              /\ Clean(e)
<1> DEFINE shown == Presentation(Plain(seen))
           new   == Present(shown)
           e     == Rewrite(d, seen)
<1>1. /\ shown \in [Keys -> Stored] /\ new \subseteq Keys /\ new \cap LegacyKeys = {}
      /\ \A k \in new : shown[k] # Absent
  BY ShownStored DEF Present
<1> HIDE DEF shown
<1>2. CASE Legacy(seen) = {}
  BY <1>2 DEF Rewrite, shown
<1>3. CASE Legacy(seen) # {}
  <2> DEFINE r == [k \in Keys |-> IF k \in new THEN shown[k] ELSE d.row[k]]
             x == [row |-> r, lite |-> d.lite, secret |-> (d.secret \ new) \cup (new \cap SecretKeys)]
  <2>2. [d EXCEPT !.row = [k \in Keys |-> IF k \in new THEN shown[k] ELSE d.row[k]],
                  !.secret = (d.secret \ new) \cup (new \cap SecretKeys)] = x
    <3>1. d \in [row : [Keys -> Stored], secret : SUBSET Keys, lite : Stored]
      BY DEF Clean
    <3>2. \A a, b : [d EXCEPT !.row = a, !.secret = b] = [row |-> a, secret |-> b, lite |-> d.lite]
      BY <3>1, DbExcept
    <3>3. x = [row |-> r, secret |-> (d.secret \ new) \cup (new \cap SecretKeys), lite |-> d.lite]
      OBVIOUS
    <3> HIDE DEF x, r
    <3>4. [d EXCEPT !.row = r, !.secret = (d.secret \ new) \cup (new \cap SecretKeys)] = x
      BY <3>2, <3>3
    <3> QED  BY <3>4 DEF r
  <2>3. e = Delete(x, Legacy(seen))
    BY <1>3, <2>2 DEF Rewrite, shown
  <2>4. r \in [Keys -> Stored]
    BY <1>1 DEF Clean
  <2>5. x.row = r /\ x.lite = d.lite /\ x.secret = (d.secret \ new) \cup (new \cap SecretKeys)
    OBVIOUS
  <2>6. x \in [row : [Keys -> Stored], secret : SUBSET Keys, lite : Stored]
    BY <1>1, <2>4 DEF Clean
  <2>7. x.secret \subseteq Present(x.row) /\ Present(x.row) \cap SecretKeys \subseteq x.secret
    BY <1>1, <2>5 DEF Clean, Present
  <2> HIDE DEF x
  <2>8. Clean(x)
    BY <2>6, <2>7 DEF Clean
  <2>9. /\ Clean(e) /\ e.row = Without(r, Legacy(seen))
        /\ e.secret = ((d.secret \ new) \cup (new \cap SecretKeys)) \ Legacy(seen)
        /\ e.lite = d.lite
    BY <2>3, <2>5, <2>8, DeleteClean
  <2>10. Without(r, Legacy(seen)) =
           [k \in Keys |-> IF k \in Legacy(seen) THEN Absent
                           ELSE IF k \in new THEN shown[k] ELSE d.row[k]]
    BY DEF Without
  <2> QED  BY <1>3, <2>9, <2>10 DEF shown, e
<1> QED  BY <1>2, <1>3

(* The rows of old names a clean database has that are not flagged.        *)
LEMMA LegacyOf ==
    ASSUME NEW d, Clean(d)
    PROVE  \A k : k \in Legacy(d) <=>
             k \in Keys /\ k \in LegacyKeys /\ k \notin d.secret /\ d.row[k] # Absent
  BY DEF Legacy, Plain, Present, Without, Clean

(* A rewriting leaves no old name that it has read; whatever it went by,   *)
(* it brings none back and flags secrets only.                             *)
LEMMA RewriteRenamed ==
    ASSUME NEW d, Clean(d), NEW seen, Clean(seen), Renamed(d) \/ seen = d
    PROVE  Renamed(Rewrite(d, seen)) /\ (seen = d => Legacy(Rewrite(d, seen)) = {})
<1> DEFINE shown == Presentation(Plain(seen))
           new   == Present(shown)
           e     == Rewrite(d, seen)
<1>1. CASE Legacy(seen) = {}
  BY <1>1, RewriteFields DEF Renamed
<1>2. CASE Legacy(seen) # {}
  <2>1. new \cap LegacyKeys = {} /\ Clean(e)
    BY ShownStored, RewriteFields
  <2>2. /\ e.row = [k \in Keys |-> IF k \in Legacy(seen) THEN Absent
                                   ELSE IF k \in new THEN shown[k] ELSE d.row[k]]
        /\ e.secret = ((d.secret \ new) \cup (new \cap SecretKeys)) \ Legacy(seen)
    BY <1>2, RewriteFields
  <2> HIDE DEF e, new, shown
  <2>3. Legacy(e) \subseteq Legacy(d) \ Legacy(seen)
    BY <2>1, <2>2, LegacyOf
  <2>4. d.secret \subseteq SecretKeys => e.secret \subseteq SecretKeys
    BY <2>2
  <2>5. Renamed(e) /\ (seen = d => Legacy(e) = {})
    BY <2>3, <2>4 DEF Renamed
  <2> QED  BY <2>5 DEF e
<1> QED  BY <1>1, <1>2

(* The move of the old setting leaves a clean database without it.         *)
LEMMA MoveLiteClean ==
    ASSUME NEW d, Clean(d), NEW seen, Clean(seen)
    PROVE  LET e == MoveLite(d, seen) IN
           /\ Clean(e) /\ (seen.lite = Absent => e = d)
           /\ \A k \in Keys \ {LiteKey} : e.row[k] = d.row[k] /\ (k \in e.secret <=> k \in d.secret)
           /\ seen.lite # Absent =>
                /\ e.lite = Absent
                /\ e.row[LiteKey] =
                     IF IsSet(seen.lite) /\ ~IsSet(Secret(seen)[LiteKey]) THEN seen.lite
                     ELSE d.row[LiteKey]
<1> DEFINE e == MoveLite(d, seen)
           moves == IsSet(seen.lite) /\ ~IsSet(Secret(seen)[LiteKey])
           u == IF moves THEN Upsert(d, LiteKey, seen.lite) ELSE d
<1>1. CASE seen.lite = Absent
  BY <1>1 DEF MoveLite
<1>2. CASE seen.lite # Absent
  <2>1. LiteKey \in Keys /\ LiteKey \in SecretKeys /\ Absent \in Stored
    BY StackConfigAssumption DEF Stored
  <2>2. seen.lite \in Stored /\ seen.lite # Absent
    BY <1>2 DEF Clean
  <2>3. /\ Clean(u)
        /\ u.row[LiteKey] = IF moves THEN seen.lite ELSE d.row[LiteKey]
        /\ \A k \in Keys \ {LiteKey} : u.row[k] = d.row[k] /\ (k \in u.secret <=> k \in d.secret)
    BY <2>1, <2>2, UpsertClean
  <2>4. e = [u EXCEPT !.lite = Absent]
    BY <1>2 DEF MoveLite
  <2> HIDE DEF u, moves
  <2>5. e = [row |-> u.row, secret |-> u.secret, lite |-> Absent]
    BY <2>3, <2>4 DEF Clean
  <2>6. e.row = u.row /\ e.secret = u.secret /\ e.lite = Absent
    BY <2>5
  <2>7. Clean(e)
    BY <2>1, <2>3, <2>5, <2>6 DEF Clean
  <2>8. d.row \in [Keys -> Stored]
    BY DEF Clean
  <2> HIDE DEF e
  <2>9. \A k \in Keys \ {LiteKey} : e.row[k] = d.row[k] /\ (k \in e.secret <=> k \in d.secret)
    BY <2>3, <2>6, <2>8
  <2>10. e.row[LiteKey] = IF moves THEN seen.lite ELSE d.row[LiteKey]
    BY <2>1, <2>3, <2>6, <2>8
  <2> QED  BY <1>2, <2>6, <2>7, <2>9, <2>10 DEF e, moves
<1> QED  BY <1>1, <1>2

(* A migration leaves a clean database without old names.                  *)
LEMMA MigrateFromClean ==
    ASSUME NEW d, Clean(d)
    PROVE  Clean(MigrateFrom(d)) /\ Legacy(MigrateFrom(d)) = {}
  BY RewriteFields, RewriteRenamed DEF MigrateFrom
(* The same with the move of the setting and the obsolete rows before it. *)
LEMMA MigrateClean ==
    ASSUME NEW d, Clean(d)
    PROVE  Clean(Migrate(d)) /\ Legacy(Migrate(d)) = {}
  BY MoveLiteClean, DeleteClean, MigrateFromClean DEF Migrate

(* What a request at p was asked fits.                                     *)
AskFits(p, a) ==
    /\ a.part \in {"none", "stack", "secrets", "all"}
    /\ p = "idle" => a = NoAsk
    /\ p = "patch" => /\ a.part \in {"stack", "secrets"} /\ a.key \in Keys
                      /\ a.part = "stack" => a.value \in PatchValues \cup {Empty, Mask, Absent}
                      /\ a.part = "secrets" => a.value \in PatchValues \cup {Mask, Absent}
    /\ p = "install" => a.part = "all"
(* Where a request goes by what it has read before.                        *)
GoesBy(p, a) == p \in {"tidy", "rewrite"} \/ (p = "patch" /\ a.part = "secrets")
ConfigPlaces == {"idle", "patch", "migrate", "tidy", "reread", "rewrite", "install"}

(* The rows and all that requests have read of them are clean, and who has *)
(* not been overtaken has read what is there.                              *)
ConfigIInv ==
    /\ Clean(db) /\ Renamed(db) /\ installed \in BOOLEAN
    /\ pc \in [Requests -> ConfigPlaces] /\ raced \in [Requests -> BOOLEAN]
    /\ ask = [q \in Requests |-> ask[q]] /\ snap = [q \in Requests |-> snap[q]]
    /\ ops \in 0..MaxOps /\ restarts \in 0..MaxRestarts
    /\ \A r \in Requests :
         /\ AskFits(pc[r], ask[r]) /\ Clean(snap[r])
         /\ ~raced[r] /\ GoesBy(pc[r], ask[r]) => snap[r] = db

(* No row and nothing read.                                                *)
LEMMA NothingClean == Clean(NoDb) /\ AskFits("idle", NoAsk) /\ ~GoesBy("idle", NoAsk)
  BY DEF Clean, NoDb, NoRow, Present, Stored, AskFits, NoAsk, GoesBy

(* A step of one request that leaves the rows alone.                       *)
LEMMA LocalStep ==
    ASSUME ConfigIInv, NEW r \in Requests, NEW p \in ConfigPlaces, NEW a, NEW s, NEW b \in BOOLEAN,
           Keep, pc' = [pc EXCEPT ![r] = p], ask' = [ask EXCEPT ![r] = a],
           snap' = [snap EXCEPT ![r] = s], raced' = [raced EXCEPT ![r] = b],
           AskFits(p, a), Clean(s), ~b /\ GoesBy(p, a) => s = db,
           ops' \in 0..MaxOps, restarts' \in 0..MaxRestarts
    PROVE  ConfigIInv'
<1>1. row' = row /\ secret' = secret /\ lite' = lite /\ installed' = installed
  BY DEF Keep
<1>2. db' = db
  BY <1>1 DEF db
<1>3. Clean(db') /\ Renamed(db') /\ installed' \in BOOLEAN
  BY <1>1, <1>2 DEF ConfigIInv
<1>4. /\ pc' \in [Requests -> ConfigPlaces] /\ raced' \in [Requests -> BOOLEAN]
      /\ ask' = [q \in Requests |-> ask'[q]] /\ snap' = [q \in Requests |-> snap'[q]]
  BY DEF ConfigIInv
<1>5. ASSUME NEW q \in Requests
      PROVE  /\ AskFits(pc'[q], ask'[q]) /\ Clean(snap'[q])
             /\ ~raced'[q] /\ GoesBy(pc'[q], ask'[q]) => snap'[q] = db'
  <2>1. CASE q = r
    <3>1. pc'[q] = p /\ ask'[q] = a /\ snap'[q] = s /\ raced'[q] = b
      BY <2>1 DEF ConfigIInv
    <3> QED  BY <1>2, <3>1
  <2>2. CASE q # r
    <3>1. pc'[q] = pc[q] /\ ask'[q] = ask[q] /\ snap'[q] = snap[q] /\ raced'[q] = raced[q]
      BY <2>2 DEF ConfigIInv
    <3> QED  BY <1>2, <3>1 DEF ConfigIInv
  <2> QED  BY <2>1, <2>2
<1> QED  BY <1>3, <1>4, <1>5 DEF ConfigIInv, Clean, Renamed

(* A commit that leaves clean rows behind.                                 *)
LEMMA CommitsStep ==
    ASSUME ConfigIInv, NEW r \in Requests, NEW d, Commits(r, d), Clean(d), Renamed(d),
           installed' \in BOOLEAN
    PROVE  ConfigIInv' /\ db' = d /\ pc'[r] = "idle"
<1>1. db' = d
  BY DEF Commits, db, Clean
<1>2. /\ pc' = [pc EXCEPT ![r] = "idle"] /\ ask' = [ask EXCEPT ![r] = NoAsk]
      /\ snap' = [snap EXCEPT ![r] = NoDb] /\ ops' = ops /\ restarts' = restarts
      /\ raced' = [q \in Requests |-> q # r /\ (raced[q] \/ (pc[q] # "idle" /\ d # db))]
  BY DEF Commits, Ends, Goto
<1>3. /\ pc' \in [Requests -> ConfigPlaces] /\ raced' \in [Requests -> BOOLEAN]
      /\ ask' = [q \in Requests |-> ask'[q]] /\ snap' = [q \in Requests |-> snap'[q]]
  BY <1>2 DEF ConfigIInv, ConfigPlaces
<1>4. ASSUME NEW q \in Requests
      PROVE  /\ AskFits(pc'[q], ask'[q]) /\ Clean(snap'[q])
             /\ ~raced'[q] /\ GoesBy(pc'[q], ask'[q]) => snap'[q] = d
  <2>1. CASE q = r
    <3>1. pc'[q] = "idle" /\ ask'[q] = NoAsk /\ snap'[q] = NoDb
      BY <1>2, <2>1 DEF ConfigIInv
    <3> QED  BY <3>1, NothingClean
  <2>2. CASE q # r
    <3>1. /\ pc'[q] = pc[q] /\ ask'[q] = ask[q] /\ snap'[q] = snap[q]
          /\ ~raced'[q] => ~raced[q] /\ (pc[q] = "idle" \/ d = db)
      BY <1>2, <2>2 DEF ConfigIInv
    <3>2. GoesBy(pc[q], ask[q]) => pc[q] # "idle"
      BY DEF GoesBy
    <3> QED  BY <3>1, <3>2 DEF ConfigIInv
  <2> QED  BY <2>1, <2>2
<1>5. pc'[r] = "idle"
  BY <1>2 DEF ConfigIInv
<1>6. ConfigIInv'
  BY <1>1, <1>2, <1>3, <1>4 DEF ConfigIInv, Clean, Renamed
<1> QED  BY <1>1, <1>5, <1>6

(* What a PATCH of a parameter writes is clean and canonical.              *)
StackPatched(k, v) == IF v = Absent THEN Delete(db, {k}) ELSE Upsert(db, k, v)
(* So no key and no value of it is left for a later migration.             *)
LEMMA StackPatchClean ==
    ASSUME ConfigIInv, NEW k \in Keys, NEW v \in PatchValues \cup {Empty, Mask, Absent}
    PROVE  Clean(StackPatched(k, v))
<1>1. v \in Stored
  BY StackConfigAssumption DEF Stored
<1> QED  BY <1>1, UpsertClean, DeleteClean DEF StackPatched, ConfigIInv

(* What a PATCH of a secret writes before it migrates.                     *)
SecretsPatched(s, k, v) ==
    LET new == MergeSecrets(Secret(s), k, v)
    IN [db EXCEPT !.row = [q \in Keys |-> IF q \in Present(new) THEN new[q] ELSE Plain(db)[q]],
                  !.secret = Present(new)]
(* All secrets written again are flagged, and the mask is not among them.  *)
LEMMA SecretPatchClean ==
    ASSUME ConfigIInv, NEW s, Clean(s), NEW k \in Keys, NEW v \in PatchValues \cup {Mask, Absent}
    PROVE  LET new == MergeSecrets(Secret(s), k, v)
               e   == SecretsPatched(s, k, v)
           IN /\ Clean(e) /\ e.lite = db.lite /\ e.secret = Present(new)
              /\ e.row = [q \in Keys |-> IF q \in Present(new) THEN new[q] ELSE Plain(db)[q]]
              /\ \A q \in Keys \ {k} : new[q] = Secret(s)[q]
<1> DEFINE new == MergeSecrets(Secret(s), k, v)
           w   == [q \in Keys |-> IF q \in Present(new) THEN new[q] ELSE Plain(db)[q]]
           e   == SecretsPatched(s, k, v)
<1>1. Secret(s) \in [Keys -> Stored]
  BY DEF Secret, Without, Clean, Stored
<1>2. v # Mask => v \in Stored
  BY StackConfigAssumption DEF Stored
<1>3. new \in [Keys -> Stored] /\ \A q \in Keys \ {k} : new[q] = Secret(s)[q]
  BY <1>1, <1>2 DEF MergeSecrets
<1>4. Plain(db) \in [Keys -> Stored] /\ Clean(db)
  BY ShownStored DEF ConfigIInv
<1> HIDE DEF new
<1>5. w \in [Keys -> Stored] /\ Present(new) \in SUBSET Keys
  BY <1>3, <1>4 DEF Present
<1>6. db \in [row : [Keys -> Stored], secret : SUBSET Keys, lite : Stored]
  BY <1>4 DEF Clean
<1>7. e = [db EXCEPT !.row = w, !.secret = Present(new)]
  BY DEF SecretsPatched, new
<1>8. Present(new) \subseteq Present(w)
  BY <1>3 DEF Present
<1>9. Present(w) \cap SecretKeys \subseteq Present(new)
  <2>1. \A q \in Keys : Plain(db)[q] # Absent => q \notin db.secret /\ db.row[q] # Absent
    BY DEF Plain, Without
  <2>2. \A q \in SecretKeys \cap Keys : Plain(db)[q] = Absent
    BY <1>4, <2>1 DEF Clean, Present
  <2> QED  BY <2>2 DEF Present
<1> HIDE DEF w, e
<1>10. e = [row |-> w, secret |-> Present(new), lite |-> db.lite]
  BY <1>6, <1>7, DbExcept
<1>11. e.row = w /\ e.secret = Present(new) /\ e.lite = db.lite
  BY <1>10
<1>12. e \in [row : [Keys -> Stored], secret : SUBSET Keys, lite : Stored]
  BY <1>5, <1>6, <1>10
<1>13. Clean(e)
  BY <1>8, <1>9, <1>11, <1>12 DEF Clean
<1> QED  BY <1>3, <1>11, <1>13 DEF e, w, new

(* What an install writes.                                                 *)
LEMMA InstallClean ==
    ASSUME ConfigIInv, NEW m \in MainEnvs
    PROVE  LET d == [row |-> m, secret |-> Present(m) \cap SecretKeys, lite |-> lite]
           IN Clean(d) /\ Renamed(d)
<1> DEFINE d == [row |-> m, secret |-> Present(m) \cap SecretKeys, lite |-> lite]
<1>1. lite \in Stored
  BY DEF ConfigIInv, Clean, db
<1>2. m \in [Keys -> Stored]
  BY StackConfigAssumption DEF Fresh, Stored
<1>3. d.row = m /\ d.secret = Present(m) \cap SecretKeys /\ d.lite = lite
  OBVIOUS
<1>4. d \in [row : [Keys -> Stored], secret : SUBSET Keys, lite : Stored]
  BY <1>1, <1>2 DEF Present
<1> HIDE DEF d
<1> QED  BY <1>3, <1>4 DEF Clean, Renamed, d

(* Every step that does not commit keeps the invariant.                    *)
LEMMA QuietStep ==
    ASSUME ConfigIInv, NEW r \in Requests,
           \/ Get(r) \/ ReadFirst(r) \/ ReadAgain(r) \/ Fails(r)
           \/ \E force \in BOOLEAN : Install(r, force)
           \/ \E k \in PatchKeys :
                \/ \E v \in PatchValues \cup {Empty, Mask, Absent} : PatchStack(r, k, v)
                \/ \E v \in PatchValues \cup {Mask, Absent} : PatchSecrets(r, k, v)
    PROVE  ConfigIInv'
<1>1. /\ Clean(db) /\ Clean(snap[r]) /\ AskFits(pc[r], ask[r])
      /\ ops \in 0..MaxOps /\ restarts \in 0..MaxRestarts
      /\ ask = [q \in Requests |-> ask[q]] /\ snap = [q \in Requests |-> snap[q]]
      /\ raced \in [Requests -> BOOLEAN]
  BY DEF ConfigIInv
<1>2. /\ snap = [snap EXCEPT ![r] = snap[r]] /\ ask = [ask EXCEPT ![r] = ask[r]]
      /\ raced = [raced EXCEPT ![r] = raced[r]]
  BY <1>1
<1>3. CASE Get(r)
  <2>1. /\ Keep /\ pc' = [pc EXCEPT ![r] = "migrate"] /\ ask' = [ask EXCEPT ![r] = NoAsk]
        /\ snap' = snap /\ raced' = raced /\ ops' = ops /\ restarts' = restarts
    BY <1>3 DEF Get, Begins, Goto
  <2>2. AskFits("migrate", NoAsk) /\ ~GoesBy("migrate", NoAsk) /\ "migrate" \in ConfigPlaces
    BY DEF AskFits, GoesBy, NoAsk, ConfigPlaces
  <2> QED  BY <1>1, <1>2, <2>1, <2>2, LocalStep
<1>4. CASE ReadFirst(r)
  <2>1. PICK p \in {"tidy", "reread"} : pc' = [pc EXCEPT ![r] = p]
    BY <1>4 DEF ReadFirst, Goto
  <2>2. /\ Keep /\ ask' = ask /\ ops' = ops /\ restarts' = restarts
        /\ snap' = [snap EXCEPT ![r] = db] /\ raced' = [raced EXCEPT ![r] = FALSE]
    BY <1>4 DEF ReadFirst, Reads
  <2>3. AskFits(p, ask[r]) /\ p \in ConfigPlaces
    BY <1>1, <2>1 DEF AskFits, ConfigPlaces
  <2> QED  BY <1>1, <1>2, <2>1, <2>2, <2>3, LocalStep
<1>5. CASE ReadAgain(r)
  <2>1. Keep /\ ops' = ops /\ restarts' = restarts
    BY <1>5 DEF ReadAgain
  <2>2. CASE Legacy(db) = {}
    <3>1. /\ pc' = [pc EXCEPT ![r] = "idle"] /\ ask' = [ask EXCEPT ![r] = NoAsk]
          /\ snap' = [snap EXCEPT ![r] = NoDb] /\ raced' = [raced EXCEPT ![r] = FALSE]
      BY <1>5, <2>2 DEF ReadAgain, Ends, Goto
    <3>2. "idle" \in ConfigPlaces
      BY DEF ConfigPlaces
    <3> QED  BY <1>1, <2>1, <3>1, <3>2, NothingClean, LocalStep
  <2>3. CASE Legacy(db) # {}
    <3>1. /\ pc' = [pc EXCEPT ![r] = "rewrite"] /\ ask' = ask
          /\ snap' = [snap EXCEPT ![r] = db] /\ raced' = [raced EXCEPT ![r] = FALSE]
      BY <1>5, <2>3 DEF ReadAgain, Reads, Goto
    <3>2. AskFits("rewrite", ask[r]) /\ "rewrite" \in ConfigPlaces
      BY <1>1 DEF AskFits, ConfigPlaces
    <3> QED  BY <1>1, <1>2, <2>1, <3>1, <3>2, LocalStep
  <2> QED  BY <2>2, <2>3
<1>6. CASE Fails(r)
  <2>1. /\ Keep /\ ops' = ops /\ restarts' = restarts
        /\ pc' = [pc EXCEPT ![r] = "idle"] /\ ask' = [ask EXCEPT ![r] = NoAsk]
        /\ snap' = [snap EXCEPT ![r] = NoDb] /\ raced' = [raced EXCEPT ![r] = FALSE]
    BY <1>6 DEF Fails, Ends, Goto
  <2>2. "idle" \in ConfigPlaces
    BY DEF ConfigPlaces
  <2> QED  BY <1>1, <2>1, <2>2, NothingClean, LocalStep
<1>7. ASSUME Op PROVE ops' \in 0..MaxOps
  <2>1. MaxOps \in Nat
    BY StackConfigAssumption
  <2> QED  BY <1>1, <1>7, <2>1 DEF Op
<1>8. ASSUME NEW force, Install(r, force) PROVE ConfigIInv'
  <2> DEFINE a == [part |-> "all"]
  <2>1. /\ Op /\ Keep /\ pc' = [pc EXCEPT ![r] = "install"] /\ ask' = [ask EXCEPT ![r] = a]
        /\ snap' = snap /\ raced' = raced /\ restarts' = restarts
    BY <1>8 DEF Install, Begins, Goto
  <2>2. AskFits("install", a) /\ ~GoesBy("install", a) /\ "install" \in ConfigPlaces
    BY DEF AskFits, GoesBy, ConfigPlaces
  <2> HIDE DEF a
  <2> QED  BY <1>1, <1>2, <1>7, <2>1, <2>2, LocalStep
<1>9. ASSUME NEW k \in PatchKeys, NEW v \in PatchValues \cup {Empty, Mask, Absent},
             PatchStack(r, k, v)
      PROVE  ConfigIInv'
  <2> DEFINE a == [part |-> "stack", key |-> k, value |-> v]
  <2>1. /\ Op /\ Keep /\ pc' = [pc EXCEPT ![r] = "patch"] /\ ask' = [ask EXCEPT ![r] = a]
        /\ snap' = snap /\ raced' = raced /\ restarts' = restarts
    BY <1>9 DEF PatchStack, Begins, Goto
  <2>2. AskFits("patch", a) /\ ~GoesBy("patch", a) /\ "patch" \in ConfigPlaces
    BY StackConfigAssumption DEF AskFits, GoesBy, ConfigPlaces
  <2> HIDE DEF a
  <2> QED  BY <1>1, <1>2, <1>7, <2>1, <2>2, LocalStep
<1>10. ASSUME NEW k \in PatchKeys, NEW v \in PatchValues \cup {Mask, Absent}, PatchSecrets(r, k, v)
       PROVE  ConfigIInv'
  <2> DEFINE a == [part |-> "secrets", key |-> k, value |-> v]
  <2>1. /\ Op /\ Keep /\ pc' = [pc EXCEPT ![r] = "patch"] /\ ask' = [ask EXCEPT ![r] = a]
        /\ snap' = [snap EXCEPT ![r] = db] /\ raced' = [raced EXCEPT ![r] = FALSE]
        /\ restarts' = restarts
    BY <1>10 DEF PatchSecrets, Begins, Reads, Goto
  <2>2. AskFits("patch", a) /\ "patch" \in ConfigPlaces
    BY StackConfigAssumption DEF AskFits, ConfigPlaces
  <2> HIDE DEF a
  <2> QED  BY <1>1, <1>2, <1>7, <2>1, <2>2, LocalStep
<1> QED  BY <1>3, <1>4, <1>5, <1>6, <1>8, <1>9, <1>10

(* What the requests that commit leave behind is clean and canonical.      *)
Tidied(d, s) ==
    LET after == MoveLite(d, s)
        seen  == IF s.lite = Absent THEN s ELSE after
    IN MigrateFrom(Delete(after, Obsolete(seen)))
(* Each of them is the last step of its request.                           *)
LEMMA CommitStepConfig ==
    ASSUME ConfigIInv, NEW r \in Requests,
           \/ Tidy(r) \/ RewriteRows(r) \/ PatchStackWrites(r) \/ PatchSecretsWrites(r)
           \/ InstallWrites(r)
    PROVE  ConfigIInv'
<1>1. /\ Clean(db) /\ Renamed(db) /\ Clean(snap[r]) /\ AskFits(pc[r], ask[r])
      /\ installed \in BOOLEAN /\ ops \in 0..MaxOps /\ restarts \in 0..MaxRestarts
      /\ ask = [q \in Requests |-> ask[q]] /\ snap = [q \in Requests |-> snap[q]]
      /\ raced \in [Requests -> BOOLEAN]
  BY DEF ConfigIInv
<1>2. CASE Tidy(r)
  <2>1. Commits(r, Tidied(db, snap[r])) /\ installed' = installed
    BY <1>2 DEF Tidy, Tidied
  <2>2. Clean(MoveLite(db, snap[r]))
    BY <1>1, MoveLiteClean
  <2>3. Clean(Tidied(db, snap[r])) /\ Renamed(Tidied(db, snap[r]))
    BY <1>1, <2>2, DeleteClean, MigrateFromClean DEF Tidied, Renamed
  <2> QED  BY <1>1, <2>1, <2>3, CommitsStep
<1>3. CASE RewriteRows(r)
  <2>1. Commits(r, Rewrite(db, snap[r])) /\ installed' = installed
    BY <1>3 DEF RewriteRows
  <2>2. Clean(Rewrite(db, snap[r])) /\ Renamed(Rewrite(db, snap[r]))
    BY <1>1, RewriteFields, RewriteRenamed
  <2> QED  BY <1>1, <2>1, <2>2, CommitsStep
<1>4. CASE PatchStackWrites(r)
  <2> DEFINE k == ask[r].key
             v == ask[r].value
             d == StackPatched(k, v)
  <2>1. pc[r] = "patch" /\ ask[r].part = "stack"
    BY <1>4 DEF PatchStackWrites
  <2>2. k \in Keys /\ v \in PatchValues \cup {Empty, Mask, Absent}
    BY <1>1, <2>1 DEF AskFits
  <2>3. Clean(d)
    BY <2>2, StackPatchClean
  <2>4. CASE Commits(r, Migrate(d)) /\ installed' = installed
    BY <1>1, <2>3, <2>4, MigrateClean, CommitsStep DEF Renamed
  <2>5. CASE /\ pc' = [pc EXCEPT ![r] = "migrate"]
             /\ Keep /\ UNCHANGED <<ask, snap, raced, ops, restarts>>
    <3>1. AskFits("migrate", ask[r]) /\ ~GoesBy("migrate", ask[r]) /\ "migrate" \in ConfigPlaces
      BY <1>1 DEF AskFits, GoesBy, ConfigPlaces
    <3>2. /\ snap = [snap EXCEPT ![r] = snap[r]] /\ ask = [ask EXCEPT ![r] = ask[r]]
          /\ raced = [raced EXCEPT ![r] = raced[r]]
      BY <1>1
    <3>3. /\ snap' = snap /\ ask' = ask /\ raced' = raced /\ ops' = ops /\ restarts' = restarts
      BY <2>5
    <3> QED  BY <1>1, <2>5, <3>1, <3>2, <3>3, LocalStep
  <2> QED  BY <1>4, <2>4, <2>5 DEF PatchStackWrites, StackPatched, Goto
<1>5. CASE PatchSecretsWrites(r)
  <2> DEFINE k == ask[r].key
             v == ask[r].value
             d == SecretsPatched(snap[r], k, v)
  <2>1. /\ pc[r] = "patch" /\ ask[r].part = "secrets" /\ installed' = installed
        /\ Commits(r, Migrate(d))
    BY <1>5 DEF PatchSecretsWrites, SecretsPatched
  <2>2. k \in Keys /\ v \in PatchValues \cup {Mask, Absent}
    BY <1>1, <2>1 DEF AskFits
  <2>3. Clean(d)
    BY <1>1, <2>2, SecretPatchClean
  <2> QED  BY <1>1, <2>1, <2>3, MigrateClean, CommitsStep DEF Renamed
<1>6. CASE InstallWrites(r)
  <2>1. PICK m \in MainEnvs :
          Commits(r, [row |-> m, secret |-> Present(m) \cap SecretKeys, lite |-> lite])
    BY <1>6 DEF InstallWrites
  <2>2. installed' \in BOOLEAN
    BY <1>6 DEF InstallWrites
  <2> QED  BY <2>1, <2>2, InstallClean, CommitsStep
<1> QED  BY <1>2, <1>3, <1>4, <1>5, <1>6

(* A new process flags the secrets, and only these.                        *)
LEMMA RestartStep ==
    ASSUME ConfigIInv, Restart
    PROVE  ConfigIInv'
<1>1. /\ row' = row /\ lite' = lite /\ installed' = installed /\ ops' = ops
      /\ secret' = Present(row) \cap SecretKeys /\ restarts' = restarts + 1 /\ restarts < MaxRestarts
      /\ pc' = [q \in Requests |-> "idle"] /\ ask' = [q \in Requests |-> NoAsk]
      /\ snap' = [q \in Requests |-> NoDb] /\ raced' = [q \in Requests |-> FALSE]
  BY DEF Restart
<1>2. row \in [Keys -> Stored] /\ lite \in Stored
  BY DEF ConfigIInv, Clean, db
<1>3. db' = [row |-> row, secret |-> Present(row) \cap SecretKeys, lite |-> lite]
  BY <1>1 DEF db
<1>4. Clean(db') /\ Renamed(db')
  <2> DEFINE d == [row |-> row, secret |-> Present(row) \cap SecretKeys, lite |-> lite]
  <2>1. d.row = row /\ d.secret = Present(row) \cap SecretKeys
    OBVIOUS
  <2>2. d \in [row : [Keys -> Stored], secret : SUBSET Keys, lite : Stored]
    BY <1>2 DEF Present
  <2> HIDE DEF d
  <2>3. Clean(d) /\ Renamed(d)
    BY <2>1, <2>2 DEF Clean, Renamed
  <2> QED  BY <1>3, <2>3 DEF d
<1>5. restarts' \in 0..MaxRestarts
  <2>1. MaxRestarts \in Nat
    BY StackConfigAssumption
  <2> QED  BY <1>1, <2>1 DEF ConfigIInv
<1>6. ops' \in 0..MaxOps /\ installed' \in BOOLEAN
  BY <1>1 DEF ConfigIInv
<1>7. \A q \in Requests : /\ pc'[q] = "idle" /\ ask'[q] = NoAsk /\ snap'[q] = NoDb
  BY <1>1
<1>8. /\ pc' \in [Requests -> ConfigPlaces] /\ raced' \in [Requests -> BOOLEAN]
      /\ ask' = [q \in Requests |-> ask'[q]] /\ snap' = [q \in Requests |-> snap'[q]]
  BY <1>1 DEF ConfigPlaces
<1> QED  BY <1>4, <1>5, <1>6, <1>7, <1>8, NothingClean DEF ConfigIInv, Clean, Renamed

(* The invariant holds in every state of the parameters.                   *)
THEOREM ConfigIInvHolds == Spec => []ConfigIInv
<1>1. Init => ConfigIInv
  <2> SUFFICES ASSUME Init PROVE ConfigIInv
    OBVIOUS
  <2>1. PICK old \in Olds : row = old.row /\ lite = old.lite /\ installed = old.installed
    BY DEF Init
  <2>2. row \in [Keys -> Stored] /\ lite \in Stored /\ installed \in BOOLEAN
    BY <2>1, StackConfigAssumption DEF Fresh, Stored
  <2>3. db.row = row /\ db.secret = secret /\ secret = Present(row) \cap SecretKeys
    BY DEF db, Init
  <2>4. db \in [row : [Keys -> Stored], secret : SUBSET Keys, lite : Stored]
    BY <2>2, <2>3 DEF db, Present
  <2>5. Clean(db) /\ Renamed(db)
    BY <2>3, <2>4 DEF Clean, Renamed
  <2>6. \A q \in Requests : pc[q] = "idle" /\ ask[q] = NoAsk /\ snap[q] = NoDb
    BY DEF Init
  <2>7. /\ pc \in [Requests -> ConfigPlaces] /\ raced \in [Requests -> BOOLEAN]
        /\ ask = [q \in Requests |-> ask[q]] /\ snap = [q \in Requests |-> snap[q]]
    BY DEF Init, ConfigPlaces
  <2>8. ops \in 0..MaxOps /\ restarts \in 0..MaxRestarts
    BY StackConfigAssumption DEF Init
  <2> QED  BY <2>2, <2>5, <2>6, <2>7, <2>8, NothingClean DEF ConfigIInv
<1>2. ConfigIInv /\ [Next]_vars => ConfigIInv'
  <2> SUFFICES ASSUME ConfigIInv, [Next]_vars PROVE ConfigIInv'
    OBVIOUS
  <2>1. CASE UNCHANGED vars
    <3>1. UNCHANGED <<row, secret, lite, installed, pc, ask, snap, raced, ops, restarts>>
      BY <2>1 DEF vars, reqVars
    <3>2. db' = db
      BY <3>1 DEF db
    <3> QED  BY <3>1, <3>2 DEF ConfigIInv
  <2> QED  BY <2>1, QuietStep, CommitStepConfig, RestartStep DEF Next
<1> QED  BY <1>1, <1>2, PTL DEF Spec

(* d has the mask for a secret only where S says so.                       *)
NoMask(d, S) == d.lite # Mask /\ \A k \in SecretKeys \ S : d.row[k] # Mask
(* So it is of the rows and of all that requests have read of them.        *)
MaskIInv ==
    /\ masked \subseteq Keys /\ NoMask(db, masked)
    /\ \A r \in Requests : NoMask(snap[r], masked)

(* An upsert brings a mask only if it is told to, a delete never.          *)
LEMMA UpsertMask ==
    ASSUME NEW d, Clean(d), NEW S, NoMask(d, S), NEW k \in Keys, NEW v \in Stored, v # Absent
    PROVE  NoMask(Upsert(d, k, v), IF v = Mask THEN S \cup {k} ELSE S)
<1>1. SecretKeys \subseteq Keys
  BY StackConfigAssumption
<1> QED  BY <1>1, UpsertClean DEF NoMask
LEMMA DeleteMask ==
    ASSUME NEW d, Clean(d), NEW S, NoMask(d, S), NEW T
    PROVE  NoMask(Delete(d, T), S)
<1> DEFINE w == Without(d.row, T)
           e == Delete(d, T)
<1>1. SecretKeys \subseteq Keys /\ Mask # Absent
  BY StackConfigAssumption
<1>2. e.row = w /\ e.lite = d.lite
  BY DeleteClean
<1>3. \A k \in Keys : w[k] = Absent \/ w[k] = d.row[k]
  BY DEF Without
<1> HIDE DEF w, e
<1>4. e.lite # Mask /\ \A k \in SecretKeys \ S : e.row[k] # Mask
  BY <1>1, <1>2, <1>3 DEF NoMask
<1>5. NoMask(e, S)
  BY <1>4 DEF NoMask
<1> QED  BY <1>5 DEF e

(* The setting of an old release was no mask.                              *)
LEMMA MoveLiteMask ==
    ASSUME NEW d, Clean(d), NEW seen, Clean(seen), NEW S, NoMask(d, S), NoMask(seen, S)
    PROVE  NoMask(MoveLite(d, seen), S)
<1>1. SecretKeys \subseteq Keys /\ Mask # Absent
  BY StackConfigAssumption
<1> QED  BY <1>1, MoveLiteClean DEF NoMask

(* Rows of secrets are flagged and have no other name: a rewriting of old  *)
(* names leaves them as they are.                                          *)
LEMMA RewriteMask ==
    ASSUME NEW d, Clean(d), NEW seen, Clean(seen), NEW S, NoMask(d, S)
    PROVE  NoMask(Rewrite(d, seen), S)
<1> DEFINE p     == Plain(seen)
           shown == Presentation(p)
           e     == Rewrite(d, seen)
<1>1. e.lite = d.lite
  BY RewriteFields
<1>2. ASSUME NEW k \in SecretKeys PROVE e.row[k] \in {Absent, d.row[k]}
  <2>1. k \in Keys /\ k \notin Canonical
    BY StackConfigAssumption
  <2>2. p[k] = Absent
    BY <2>1 DEF Plain, Without, Clean, Present
  <2>3. ApplyAliases(p, Chains)[k] = p[k]
    BY <2>1, ChainKeys, AliasesOf
  <2>4. shown[k] = Absent
    BY <2>1, <2>2, <2>3 DEF Presentation, Without
  <2> HIDE DEF e, shown
  <2>5. k \notin Present(shown)
    BY <2>4 DEF Present
  <2>6. CASE Legacy(seen) = {}
    BY <2>6, RewriteFields DEF e
  <2>7. CASE Legacy(seen) # {}
    <3>1. e.row = [q \in Keys |-> IF q \in Legacy(seen) THEN Absent
                                  ELSE IF q \in Present(shown) THEN shown[q] ELSE d.row[q]]
      BY <2>7, RewriteFields DEF e, shown
    <3> QED  BY <2>1, <2>5, <3>1
  <2> QED  BY <2>6, <2>7
<1> HIDE DEF e
<1>3. Mask # Absent
  BY StackConfigAssumption
<1>4. NoMask(e, S)
  BY <1>1, <1>2, <1>3 DEF NoMask
<1> QED  BY <1>4 DEF e

(* A whole migration.                                                      *)
LEMMA MigrateMask ==
    ASSUME NEW d, Clean(d), NEW S, NoMask(d, S)
    PROVE  NoMask(Migrate(d), S)
  BY MoveLiteClean, MoveLiteMask, DeleteClean, DeleteMask, RewriteMask DEF Migrate, MigrateFrom

(* Secrets are written again as they were read, the mask in the request    *)
(* stands for the value that was there.                                    *)
LEMMA SecretsPatchedMask ==
    ASSUME ConfigIInv, NEW s, Clean(s), NEW k \in Keys, NEW v \in PatchValues \cup {Mask, Absent},
           NEW S, NoMask(s, S), NoMask(db, S)
    PROVE  NoMask(SecretsPatched(s, k, v), S)
<1> DEFINE new == MergeSecrets(Secret(s), k, v)
           e   == SecretsPatched(s, k, v)
<1>0. LET n == MergeSecrets(Secret(s), k, v)
          f == SecretsPatched(s, k, v)
      IN /\ Clean(f) /\ f.lite = db.lite /\ f.secret = Present(n)
         /\ f.row = [q \in Keys |-> IF q \in Present(n) THEN n[q] ELSE Plain(db)[q]]
         /\ \A q \in Keys \ {k} : n[q] = Secret(s)[q]
  BY SecretPatchClean
<1>1. /\ e.lite = db.lite
      /\ e.row = [q \in Keys |-> IF q \in Present(new) THEN new[q] ELSE Plain(db)[q]]
  BY <1>0
<1>2. ASSUME NEW q \in SecretKeys \ S PROVE e.row[q] # Mask
  <2>1. q \in Keys /\ Mask # Absent /\ \A x \in PatchValues : x # Mask
    BY StackConfigAssumption
  <2>2. Secret(s)[q] # Mask /\ Plain(db)[q] # Mask
    BY <2>1 DEF Secret, Plain, Without, NoMask
  <2>3. new[q] # Mask
    <3>1. Secret(s) = [x \in Keys |-> Secret(s)[x]]
      BY DEF Secret, Without
    <3> QED  BY <2>1, <2>2, <3>1 DEF MergeSecrets
  <2> HIDE DEF new, e
  <2> QED  BY <1>1, <2>1, <2>2, <2>3
<1> QED  BY <1>1, <1>2 DEF NoMask

(* A commit that brings no mask but those it notes.                        *)
LEMMA CommitMask ==
    ASSUME ConfigIInv, MaskIInv, NEW r \in Requests, NEW d, Commits(r, d), Clean(d),
           masked \subseteq masked', masked' \subseteq Keys, NoMask(d, masked')
    PROVE  MaskIInv'
<1>1. db' = d
  BY DEF Commits, db, Clean
<1>2. snap' = [snap EXCEPT ![r] = NoDb]
  BY DEF Commits, Ends
<1>3. NoMask(NoDb, masked')
  BY StackConfigAssumption DEF NoMask, NoDb, NoRow
<1>4. ASSUME NEW q \in Requests PROVE NoMask(snap'[q], masked')
  <2>1. NoMask(snap[q], masked')
    BY DEF MaskIInv, NoMask
  <2>2. snap'[q] = IF q = r THEN NoDb ELSE snap[q]
    BY <1>2 DEF ConfigIInv
  <2> QED  BY <1>3, <2>1, <2>2
<1>5. NoMask(db', masked')
  BY <1>1
<1> QED  BY <1>4, <1>5 DEF MaskIInv, NoMask

(* Every step keeps it: only a PATCH of the stack section adds a mask.     *)
LEMMA MaskStep ==
    ASSUME ConfigIInv, MaskIInv, [Next]_vars
    PROVE  MaskIInv'
<1>1. Clean(db) /\ \A r \in Requests : Clean(snap[r]) /\ AskFits(pc[r], ask[r])
  BY DEF ConfigIInv
<1>2. masked \subseteq Keys /\ NoMask(db, masked) /\ \A r \in Requests : NoMask(snap[r], masked)
  BY DEF MaskIInv
<1>3. NoMask(NoDb, masked)
  BY StackConfigAssumption DEF NoMask, NoDb, NoRow
<1>4. ASSUME row' = row, lite' = lite, masked' = masked,
             \A r \in Requests : snap'[r] \in {snap[r], db, NoDb}
      PROVE  MaskIInv'
  <2>1. NoMask(db', masked')
    BY <1>2, <1>4 DEF NoMask, db
  <2>2. \A r \in Requests : NoMask(snap'[r], masked)
    BY <1>2, <1>3, <1>4
  <2> QED  BY <1>2, <1>4, <2>1, <2>2 DEF MaskIInv, NoMask
<1>5. CASE UNCHANGED vars
  BY <1>4, <1>5 DEF vars, reqVars
<1>6. CASE Restart
  BY <1>4, <1>6 DEF Restart
<1>7. ASSUME NEW r \in Requests,
             \/ Get(r) \/ ReadFirst(r) \/ ReadAgain(r) \/ Fails(r)
             \/ \E force \in BOOLEAN : Install(r, force)
             \/ \E k \in PatchKeys :
                  \/ \E v \in PatchValues \cup {Empty, Mask, Absent} : PatchStack(r, k, v)
                  \/ \E v \in PatchValues \cup {Mask, Absent} : PatchSecrets(r, k, v)
      PROVE  MaskIInv'
  <2>1. row' = row /\ lite' = lite /\ masked' = masked
    BY <1>7 DEF Get, ReadFirst, ReadAgain, Fails, Install, PatchStack, PatchSecrets, Keep
  <2>2. \E s \in {snap[r], db, NoDb} : snap' = [snap EXCEPT ![r] = s]
    <3>1. \/ snap' = snap \/ snap' = [snap EXCEPT ![r] = db] \/ snap' = [snap EXCEPT ![r] = NoDb]
      BY <1>7 DEF Get, ReadFirst, ReadAgain, Fails, Install, PatchStack, PatchSecrets, Reads, Ends
    <3>2. snap = [snap EXCEPT ![r] = snap[r]]
      BY DEF ConfigIInv
    <3> QED  BY <3>1, <3>2
  <2>3. \A q \in Requests : snap'[q] \in {snap[q], db, NoDb}
    BY <2>2 DEF ConfigIInv
  <2> QED  BY <1>4, <2>1, <2>3
<1>8. ASSUME NEW r \in Requests, Tidy(r) PROVE MaskIInv'
  <2>1. Commits(r, Tidied(db, snap[r])) /\ masked' = masked
    BY <1>8 DEF Tidy, Tidied
  <2>2. Clean(MoveLite(db, snap[r])) /\ NoMask(MoveLite(db, snap[r]), masked)
    BY <1>1, <1>2, MoveLiteClean, MoveLiteMask
  <2>3. Clean(Tidied(db, snap[r])) /\ NoMask(Tidied(db, snap[r]), masked)
    BY <2>2, DeleteClean, DeleteMask, RewriteMask, MigrateFromClean DEF Tidied, MigrateFrom
  <2> QED  BY <1>2, <2>1, <2>3, CommitMask
<1>9. ASSUME NEW r \in Requests, RewriteRows(r) PROVE MaskIInv'
  <2>1. Commits(r, Rewrite(db, snap[r])) /\ masked' = masked
    BY <1>9 DEF RewriteRows
  <2> QED  BY <1>1, <1>2, <2>1, RewriteFields, RewriteMask, CommitMask
<1>10. ASSUME NEW r \in Requests, PatchStackWrites(r) PROVE MaskIInv'
  <2> DEFINE k == ask[r].key
             v == ask[r].value
             d == StackPatched(k, v)
  <2>1. pc[r] = "patch" /\ ask[r].part = "stack"
    BY <1>10 DEF PatchStackWrites
  <2>2. k \in Keys /\ v \in PatchValues \cup {Empty, Mask, Absent}
    BY <1>1, <2>1 DEF AskFits
  <2>3. Clean(d) /\ Clean(Migrate(d))
    BY <2>2, StackPatchClean, MigrateClean
  <2>4. NoMask(d, IF v = Mask THEN masked \cup {k} ELSE masked)
    <3>1. v \in Stored /\ Mask # Absent
      BY <2>2, StackConfigAssumption DEF Stored
    <3> QED  BY <1>1, <1>2, <2>2, <3>1, UpsertMask, DeleteMask DEF StackPatched
  <2>5. CASE Commits(r, Migrate(d)) /\ masked' = IF v = Mask THEN masked \cup {k} ELSE masked
    <3>1. masked \subseteq masked' /\ masked' \subseteq Keys
      BY <1>2, <2>2, <2>5
    <3>2. NoMask(Migrate(d), masked')
      BY <2>3, <2>4, <2>5, MigrateMask
    <3> QED  BY <2>3, <2>5, <3>1, <3>2, CommitMask
  <2>6. CASE Keep /\ snap' = snap
    BY <1>4, <2>6 DEF Keep
  <2> QED  BY <1>10, <2>5, <2>6 DEF PatchStackWrites, StackPatched
<1>11. ASSUME NEW r \in Requests, PatchSecretsWrites(r) PROVE MaskIInv'
  <2> DEFINE d == SecretsPatched(snap[r], ask[r].key, ask[r].value)
  <2>1. /\ pc[r] = "patch" /\ ask[r].part = "secrets" /\ masked' = masked
        /\ Commits(r, Migrate(d))
    BY <1>11 DEF PatchSecretsWrites, SecretsPatched
  <2>2. ask[r].key \in Keys /\ ask[r].value \in PatchValues \cup {Mask, Absent}
    BY <1>1, <2>1 DEF AskFits
  <2>3. Clean(d) /\ NoMask(d, masked)
    BY <1>1, <1>2, <2>2, SecretPatchClean, SecretsPatchedMask
  <2> QED  BY <1>2, <2>1, <2>3, MigrateClean, MigrateMask, CommitMask
<1>12. ASSUME NEW r \in Requests, InstallWrites(r) PROVE MaskIInv'
  <2>1. PICK m \in MainEnvs :
          Commits(r, [row |-> m, secret |-> Present(m) \cap SecretKeys, lite |-> lite])
    BY <1>12 DEF InstallWrites
  <2> DEFINE d == [row |-> m, secret |-> Present(m) \cap SecretKeys, lite |-> lite]
  <2>2. Clean(d)
    BY InstallClean
  <2>3. \A k \in SecretKeys : m[k] # Mask
    BY StackConfigAssumption DEF Fresh
  <2>4. NoMask(d, masked) /\ masked' = masked
    BY <1>2, <1>12, <2>3 DEF NoMask, db, InstallWrites
  <2> QED  BY <1>2, <2>1, <2>2, <2>4, CommitMask
<1> QED  BY <1>5, <1>6, <1>7, <1>8, <1>9, <1>10, <1>11, <1>12 DEF Next

(* It holds in every state.                                                *)
LEMMA MaskIInvHolds == Spec => []MaskIInv
<1>1. Init => MaskIInv
  <2> SUFFICES ASSUME Init PROVE MaskIInv
    OBVIOUS
  <2>1. PICK old \in Olds : row = old.row /\ lite = old.lite
    BY DEF Init
  <2>2. lite # Mask /\ \A k \in SecretKeys : row[k] # Mask
    BY <2>1, StackConfigAssumption DEF Fresh
  <2>3. NoMask(db, masked) /\ masked = {}
    BY <2>2 DEF NoMask, db, Init
  <2>4. NoMask(NoDb, masked) /\ \A r \in Requests : snap[r] = NoDb
    BY StackConfigAssumption DEF NoMask, NoDb, NoRow, Init
  <2> QED  BY <2>3, <2>4 DEF MaskIInv
<1> QED  BY <1>1, MaskStep, ConfigIInvHolds, PTL DEF Spec

(* The types, no secret without its flag, and the mask in place of one     *)
(* only where a PATCH of the stack section has said so: whatever other     *)
(* section, migration, file or stale request has written it.               *)
THEOREM SecretsAreFlaggedHolds == Spec => []SecretsAreFlagged
<1>1. ConfigIInv /\ MaskIInv => SecretsAreFlagged
  <2> SUFFICES ASSUME ConfigIInv, MaskIInv PROVE SecretsAreFlagged
    OBVIOUS
  <2>1. /\ row \in [Keys -> Stored] /\ lite \in Stored /\ secret \subseteq Present(row)
        /\ Present(row) \cap SecretKeys \subseteq secret
    BY DEF ConfigIInv, Clean, db
  <2>2. \A k \in SecretKeys : row[k] = Mask => k \in masked
    BY DEF MaskIInv, NoMask, db
  <2>3. \A r \in Requests : /\ snap[r].row \in [Keys -> Stored]
                            /\ snap[r].secret \subseteq Present(snap[r].row)
    BY DEF ConfigIInv, Clean
  <2>4. masked \subseteq Keys
    BY DEF MaskIInv
  <2> QED  BY <2>1, <2>2, <2>3, <2>4 DEF SecretsAreFlagged, TypeOK, ConfigIInv, AskFits,
       ConfigPlaces
<1> QED  BY <1>1, ConfigIInvHolds, MaskIInvHolds, PTL

(* A slot starts with what its preset sets and its GPUs decide, and what   *)
(* is the preset's own comes from the stack under an old name only.        *)
THEOREM PresetDecidesHolds == Spec => []PresetDecides
  BY PresetFirst, PTL

(* v is what readers of d get for k: the value of its chain, or the row,   *)
(* or the setting where LiteKey has no row.                                *)
SeenAs(d, k, v) ==
    /\ IsSet(v)
    /\ \A c \in Chains : c[1] = k => v = Coalesce(d.row, c)
    /\ (\A c \in Chains : c[1] # k) =>
         v = IF k = LiteKey /\ d.row[k] = Absent /\ IsSet(d.lite) THEN d.lite ELSE d.row[k]

(* A chain of a readable name has no secret, dropped or preset's name.     *)
LEMMA ReadableChain ==
    ASSUME NEW k \in Readable
    PROVE  /\ k \in Keys \ (LegacyKeys \cup PresetOnly \cup Dropped)
           /\ \A c \in Chains : c[1] = k => \A i \in DOMAIN c :
                /\ c[i] \in Keys \ (Dropped \cup PresetOnly \cup SecretKeys) /\ c[i] # LiteKey
                /\ i # 1 => c[i] \in LegacyKeys
<1>1. k \in Keys \ (LegacyKeys \cup PresetOnly \cup Dropped)
  BY DEF Readable
<1>2. ASSUME NEW c \in Chains, c[1] = k, NEW i \in DOMAIN c
      PROVE  /\ c[i] \in Keys \ (Dropped \cup PresetOnly \cup SecretKeys) /\ c[i] # LiteKey
             /\ i # 1 => c[i] \in LegacyKeys
  <2>1. c[i] \in Keys /\ c[i] \in Canonical \cup LegacyKeys /\ (i # 1 => c[i] \in LegacyKeys)
    BY ChainKeys
  <2>2. c[i] \notin Dropped \cup SecretKeys /\ LiteKey \in SecretKeys
    BY <2>1, StackConfigAssumption
  <2>3. c[i] \notin PresetOnly
    <3>1. CASE i = 1
      BY <1>1, <1>2, <3>1
    <3>2. CASE i # 1
      BY <2>1, <3>2, StackConfigAssumption
    <3> QED  BY <3>1, <3>2
  <2> QED  BY <2>1, <2>2, <2>3
<1> QED  BY <1>1, <1>2

(* The chain of a name is the only one.                                    *)
LEMMA OnlyChain ==
    ASSUME NEW S \in SUBSET Chains, NEW c \in S
    PROVE  (CHOOSE d \in S : d[1] = c[1]) = c
<1>1. \A d \in S : d[1] = c[1] => d = c
  BY OneChain, ChainKeys
<1> QED  BY <1>1

(* sync_merged_flat and monitoring_image read that.                        *)
EffectiveAsSeen ==
    \A k \in Readable : \A v : IsSet(v) /\ Effective(k) = v <=> SeenAs(db, k, v)
(* A reader of a key is given a value exactly when the rows say so.        *)
LEMMA EffectiveIs == EffectiveAsSeen
<1> SUFFICES ASSUME NEW k \in Readable, NEW v, IsSet(v)
             PROVE  Effective(k) = v <=> SeenAs(db, k, v)
  BY DEF EffectiveAsSeen, SeenAs
<1>1. k \in Keys /\ k \notin PresetOnly \cup Dropped
  BY ReadableChain
<1>2. db.row = row /\ db.lite = lite
  BY DEF db
<1>3. VllmChains \in SUBSET Chains /\ ImageChains \in SUBSET Chains
  BY DEF Chains
<1>4. CASE \A c \in Chains : c[1] # k
  <2>1. Effective(k) = Base[k]
    <3>1. Effective(k) = Merged[k]
      BY <1>3, <1>4 DEF Effective
    <3>2. Merged[k] = Base[k]
      BY <1>1, <1>3, <1>4, AliasesOf, MergedIs
    <3> QED  BY <3>1, <3>2
  <2>2. Base[k] = IF k = LiteKey /\ row[k] = Absent /\ IsSet(lite) THEN lite ELSE row[k]
    BY <1>1 DEF Base, Without
  <2> QED  BY <1>2, <1>4, <2>1, <2>2 DEF SeenAs
<1>5. ASSUME NEW c \in Chains, c[1] = k PROVE Effective(k) = v <=> SeenAs(db, k, v)
  <2> DEFINE w == Coalesce(row, c)
  <2>1. \A d \in Chains : d[1] = k => d = c
    BY <1>5, OneChain, ChainKeys
  <2>2. SeenAs(db, k, v) <=> v = w
    BY <1>2, <1>5, <2>1 DEF SeenAs
  <2>3. \A i \in DOMAIN c : Base[c[i]] = row[c[i]]
    BY <1>5, ReadableChain DEF Base, Without
  <2>4. Coalesce(Base, c) = w
    BY <2>3, CoalesceSame
  <2>5. IsSet(row[k]) => w = row[k]
    BY <1>5, CanonicalFirst
  <2>6. IsSet(w) => \E i \in DOMAIN c : IsSet(row[c[i]])
    BY CoalesceFirst DEF First
  <2> HIDE DEF w
  <2>7. Base[k] = row[k]
    BY <1>5, <2>3, ChainKeys
  <2>8. CASE c \in VllmChains
    <3>1. Merged[k] = IF IsSet(w) THEN w ELSE row[k]
      BY <1>1, <1>3, <1>5, <2>4, <2>7, <2>8, AliasesOf, MergedIs
    <3>2. v = Merged[k] <=> v = w
      BY <2>5, <3>1
    <3>3. CASE c \notin ImageChains
      <4>1. Effective(k) = Merged[k]
        BY <1>3, <2>1, <3>3 DEF Effective
      <4> QED  BY <2>2, <3>2, <4>1
    <3>4. CASE c \in ImageChains
      <4>1. Effective(k) = Coalesce(Merged, c)
        BY <1>3, <1>5, <2>1, <3>4, OnlyChain DEF Effective
      <4>2. CASE IsSet(w)
        <5>1. Merged[c[1]] = w
          BY <1>5, <3>1, <4>2
        <5>2. Coalesce(Merged, c) = w
          BY <4>2, <5>1, CanonicalFirst
        <5> QED  BY <2>2, <4>1, <5>2
      <4>3. CASE ~IsSet(w)
        <5>1. \A i \in DOMAIN c : Merged[c[i]] = row[c[i]]
          <6>1. ASSUME NEW i \in DOMAIN c PROVE Merged[c[i]] = row[c[i]]
            <7>1. CASE i = 1
              BY <1>5, <3>1, <4>3, <7>1
            <7>2. CASE i # 1
              <8>1. c[i] \in Keys /\ c[i] \in LegacyKeys
                BY <7>2, ChainKeys
              <8>2. \A d \in VllmChains : d[1] # c[i]
                BY <1>3, <8>1, ChainKeys, StackConfigAssumption
              <8> QED  BY <1>3, <2>3, <8>1, <8>2, AliasesOf, MergedIs
            <7> QED  BY <7>1, <7>2
          <6> QED  BY <6>1
        <5>2. Coalesce(Merged, c) = w
          BY <5>1, CoalesceSame DEF w
        <5> QED  BY <2>2, <4>1, <5>2
      <4> QED  BY <4>2, <4>3
    <3> QED  BY <3>3, <3>4
  <2>9. CASE c \notin VllmChains
    <3>1. c \in ImageChains
      BY <2>9 DEF Chains
    <3>2. Effective(k) = Coalesce(Merged, c)
      BY <1>3, <1>5, <2>1, <3>1, OnlyChain DEF Effective
    <3>3. ASSUME NEW i \in DOMAIN c PROVE Merged[c[i]] = row[c[i]]
      <4>1. c[i] \in Keys
        BY ChainKeys
      <4>2. \A d \in VllmChains : d[1] # c[i]
        BY <1>3, <2>9, OneChain, ChainKeys
      <4> QED  BY <1>3, <2>3, <4>1, <4>2, AliasesOf, MergedIs
    <3>4. Coalesce(Merged, c) = w
      BY <3>3, CoalesceSame DEF w
    <3> QED  BY <2>2, <3>2, <3>4
  <2> QED  BY <2>8, <2>9
<1> QED  BY <1>4, <1>5

(* What a reader gets depends on the names of one chain.                   *)
LEMMA SeenSame ==
    ASSUME NEW d, NEW e, NEW k, NEW v, SeenAs(d, k, v), e.row[k] = d.row[k], e.lite = d.lite,
           \A c \in Chains : c[1] = k => \A i \in DOMAIN c : e.row[c[i]] = d.row[c[i]]
    PROVE  SeenAs(e, k, v)
<1>1. \A c \in Chains : c[1] = k => Coalesce(e.row, c) = Coalesce(d.row, c)
  BY CoalesceSame
<1> QED  BY <1>1 DEF SeenAs

(* The rows of a chain are all unflagged, or none has an old name.         *)
Movable(d, k) ==
    \A c \in Chains : c[1] = k =>
        \/ \A i \in DOMAIN c : c[i] \notin d.secret
        \/ \A i \in DOMAIN c : c[i] \notin Legacy(d)

(* So it is for every chain where old names are gone or flags are secrets'. *)
LEMMA RenamedMovable ==
    ASSUME NEW d, Renamed(d), NEW k \in Readable
    PROVE  Movable(d, k)
  BY ReadableChain DEF Renamed, Movable

(* And it stays where the rows of the chain and their flags stay.          *)
LEMMA MovableSame ==
    ASSUME NEW d, Clean(d), NEW e, Clean(e), NEW k, Movable(d, k),
           \A c \in Chains : c[1] = k => \A i \in DOMAIN c :
               e.row[c[i]] = d.row[c[i]] /\ (c[i] \in e.secret <=> c[i] \in d.secret)
    PROVE  Movable(e, k)
<1>1. \A c \in Chains : c[1] = k => \A i \in DOMAIN c : c[i] \in Legacy(e) <=> c[i] \in Legacy(d)
  BY LegacyOf
<1> QED  BY <1>1 DEF Movable

(* The rewriting of old names changes nothing for readers.                 *)
LEMMA RewriteSeen ==
    ASSUME NEW d, Clean(d), NEW k \in Readable, Movable(d, k), NEW v, SeenAs(d, k, v)
    PROVE  SeenAs(MigrateFrom(d), k, v)
<1> DEFINE p     == Plain(d)
           a     == ApplyAliases(p, Chains)
           shown == Presentation(p)
           new   == Present(shown)
           e     == Rewrite(d, d)
<1>1. e = MigrateFrom(d)
  BY DEF MigrateFrom
<1>2. CASE Legacy(d) = {}
  BY <1>1, <1>2, RewriteFields
<1>3. CASE Legacy(d) # {}
  <2>1. /\ e.row = [q \in Keys |-> IF q \in Legacy(d) THEN Absent
                                   ELSE IF q \in new THEN shown[q] ELSE d.row[q]]
        /\ e.lite = d.lite /\ Clean(e)
    BY <1>3, RewriteFields
  <2>2. /\ k \in Keys /\ k \notin Legacy(d)
        /\ \A q \in LegacyKeys : q \notin new
    BY ShownStored, ReadableChain, LegacyOf
  <2>3. shown[k] = a[k]
    BY ReadableChain DEF Presentation, Without
  <2>4. k \in new <=> a[k] # Absent
    BY <2>2, <2>3 DEF Present
  <2>5. \A q \in Keys : p[q] = IF q \in d.secret THEN Absent ELSE d.row[q]
    BY DEF Plain, Without
  <2>6. /\ e.row[k] = IF a[k] # Absent THEN a[k] ELSE d.row[k]
        /\ \A q \in LegacyKeys \cap Keys : e.row[q] = IF q \in Legacy(d) THEN Absent ELSE d.row[q]
    BY <2>1, <2>2, <2>3, <2>4
  <2> HIDE DEF e, new, shown, a, p
  <2>7. CASE \A c \in Chains : c[1] # k
    <3>1. a[k] = p[k]
      BY <2>2, <2>7, AliasesOf DEF a
    <3>2. e.row[k] = d.row[k]
      BY <2>2, <2>5, <2>6, <3>1
    <3> QED  BY <1>1, <2>1, <2>7, <3>2, SeenSame DEF e
  <2>8. ASSUME NEW c \in Chains, c[1] = k PROVE SeenAs(e, k, v)
    <3> DEFINE w == Coalesce(p, c)
    <3>1. a[k] = IF IsSet(w) THEN w ELSE p[k]
      BY <2>2, <2>8, AliasesOf DEF a
    <3>2. \A i \in DOMAIN c : c[i] \in Keys /\ (i # 1 => c[i] \in LegacyKeys)
      BY ChainKeys
    <3>3. \A b \in Chains : b[1] = k => b = c
      BY <2>8, OneChain, ChainKeys
    <3>4. v = Coalesce(d.row, c) /\ IsSet(v)
      BY <2>8 DEF SeenAs
    <3>5. CASE \A i \in DOMAIN c : c[i] \notin d.secret
      <4>1. w = v
        BY <2>5, <3>2, <3>4, <3>5, CoalesceSame
      <4>2. e.row[c[1]] = v
        BY <2>6, <2>8, <3>1, <3>4, <4>1 DEF IsSet
      <4>3. Coalesce(e.row, c) = v
        BY <3>4, <4>2, CanonicalFirst
      <4> QED  BY <2>8, <3>3, <3>4, <4>3 DEF SeenAs
    <3>6. CASE \A i \in DOMAIN c : c[i] \notin Legacy(d)
      <4>1. \A i \in DOMAIN c : i # 1 => e.row[c[i]] = d.row[c[i]] /\ p[c[i]] = Absent
        BY <2>5, <2>6, <3>2, <3>6, LegacyOf
      <4>2. IsSet(w) => w = p[k] /\ IsSet(p[k])
        <5>1. SUFFICES ASSUME IsSet(w) PROVE w = p[k] /\ IsSet(p[k])
          OBVIOUS
        <5>2. PICK i : First(p, c, i) /\ w = p[c[i]]
          BY <5>1, CoalesceFirst
        <5>3. i \in DOMAIN c /\ IsSet(p[c[i]])
          BY <5>2 DEF First
        <5>4. i = 1
          BY <4>1, <5>3 DEF IsSet
        <5> QED  BY <2>8, <5>2, <5>3, <5>4
      <4>3. a[k] = p[k]
        BY <3>1, <4>2
      <4>4. e.row[k] = d.row[k]
        BY <2>2, <2>5, <2>6, <4>3
      <4>5. \A i \in DOMAIN c : e.row[c[i]] = d.row[c[i]]
        BY <2>8, <4>1, <4>4
      <4>6. \A b \in Chains : b[1] = k => \A i \in DOMAIN b : e.row[b[i]] = d.row[b[i]]
        BY <3>3, <4>5
      <4> QED  BY <2>1, <4>4, <4>6, SeenSame
    <3> QED  BY <2>8, <3>5, <3>6 DEF Movable
  <2> QED  BY <1>1, <2>7, <2>8 DEF e
<1> QED  BY <1>2, <1>3

(* The move of the setting makes no row obsolete.                          *)
LEMMA ObsoleteMoved ==
    ASSUME NEW d, Clean(d)
    PROVE  Obsolete(MoveLite(d, d)) = Obsolete(d)
<1> DEFINE m == MoveLite(d, d)
<1>1. Clean(m) /\ \A q \in Keys \ {LiteKey} : m.row[q] = d.row[q] /\ (q \in m.secret <=> q \in d.secret)
  BY MoveLiteClean
<1> HIDE DEF m
<1>2. ASSUME NEW e, Clean(e), NEW q
      PROVE  q \in Obsolete(e) <=> /\ q \in Keys \ {LiteKey} /\ q \notin e.secret /\ e.row[q] # Absent
                                   /\ q \in Dropped \cup PresetOnly
  <2>1. e.row[LiteKey] # Absent => LiteKey \in e.secret
    BY <1>2, StackConfigAssumption DEF Clean, Present
  <2> QED  BY <2>1 DEF Obsolete, Present, Plain, Without
<1>3. \A q : q \in Obsolete(m) <=> q \in Obsolete(d)
  BY <1>1, <1>2
<1> QED  BY <1>3 DEF m

(* Nor do the move of the setting and the rows that are obsolete.          *)
LEMMA MigrateSeen ==
    ASSUME NEW d, Clean(d), NEW k \in Readable, Movable(d, k), NEW v, SeenAs(d, k, v)
    PROVE  SeenAs(Migrate(d), k, v)
<1> DEFINE m == MoveLite(d, d)
           x == Delete(m, Obsolete(d))
<1>1. /\ Clean(m)
      /\ \A q \in Keys \ {LiteKey} : m.row[q] = d.row[q] /\ (q \in m.secret <=> q \in d.secret)
      /\ d.lite = Absent => m = d
      /\ d.lite # Absent =>
           /\ m.lite = Absent
           /\ m.row[LiteKey] = IF IsSet(d.lite) /\ ~IsSet(Secret(d)[LiteKey]) THEN d.lite
                               ELSE d.row[LiteKey]
  BY MoveLiteClean
<1>2. \A c \in Chains : c[1] = k => \A i \in DOMAIN c :
        /\ c[i] \in Keys \ (Dropped \cup PresetOnly \cup SecretKeys) /\ c[i] # LiteKey
  BY ReadableChain
<1> HIDE DEF m
<1>3. Movable(m, k)
  BY <1>1, <1>2, MovableSame
<1>4. SeenAs(m, k, v)
  <2>1. CASE k # LiteKey
    <3>1. k \in Keys /\ m.row[k] = d.row[k]
      BY <1>1, <2>1, ReadableChain
    <3>2. \A c \in Chains : c[1] = k => Coalesce(m.row, c) = Coalesce(d.row, c)
      BY <1>1, <1>2, CoalesceSame
    <3> QED  BY <2>1, <3>1, <3>2 DEF SeenAs
  <2>2. CASE k = LiteKey
    <3>1. \A c \in Chains : c[1] # k
      BY <1>2, <2>2, ChainKeys
    <3>2. v = (IF d.row[k] = Absent /\ IsSet(d.lite) THEN d.lite ELSE d.row[k]) /\ IsSet(v)
      BY <2>2, <3>1 DEF SeenAs
    <3>3. CASE d.lite = Absent
      BY <1>1, <3>3
    <3>4. CASE d.lite # Absent
      <4>1. Secret(d)[k] = d.row[k]
        <5>1. k \in Keys /\ (d.row[k] # Absent => k \in d.secret)
          BY <2>2, StackConfigAssumption DEF Clean, Present
        <5> QED  BY <5>1 DEF Secret, Without
      <4>2. m.row[k] = IF IsSet(d.lite) /\ ~IsSet(d.row[k]) THEN d.lite ELSE d.row[k]
        BY <1>1, <2>2, <3>4, <4>1
      <4>3. m.row[k] = v
        BY <3>2, <4>2 DEF IsSet
      <4>4. m.row[k] # Absent
        BY <3>2, <4>3 DEF IsSet
      <4> QED  BY <3>1, <3>2, <4>3, <4>4 DEF SeenAs
    <3> QED  BY <3>3, <3>4
  <2> QED  BY <2>1, <2>2
<1>5. /\ Clean(x) /\ x.row = Without(m.row, Obsolete(d)) /\ x.secret = m.secret \ Obsolete(d)
      /\ x.lite = m.lite
  BY <1>1, DeleteClean
<1>6. Obsolete(d) \subseteq Dropped \cup PresetOnly
  BY DEF Obsolete
<1>7. x.row[k] = m.row[k]
  BY <1>5, <1>6, ReadableChain DEF Without
<1>8. \A c \in Chains : c[1] = k => \A i \in DOMAIN c :
        x.row[c[i]] = m.row[c[i]] /\ (c[i] \in x.secret <=> c[i] \in m.secret)
  BY <1>2, <1>5, <1>6 DEF Without
<1> HIDE DEF x
<1>9. SeenAs(x, k, v) /\ Movable(x, k)
  BY <1>1, <1>3, <1>4, <1>5, <1>7, <1>8, SeenSame, MovableSame
<1>10. Migrate(d) = MigrateFrom(x)
  BY DEF Migrate, m, x
<1> QED  BY <1>5, <1>9, <1>10, RewriteSeen

(* A request about one key touches no name of the chain of another.        *)
LEMMA AskedChain ==
    ASSUME NEW r, ask[r].part \in {"stack", "secrets"}, NEW k \in Readable \ Asked(r)
    PROVE  /\ k # ask[r].key
           /\ \A c \in Chains : c[1] = k => \A i \in DOMAIN c : c[i] # ask[r].key
<1>1. /\ k # ask[r].key
      /\ \A d \in Chains : (\E i \in DOMAIN d : d[i] = ask[r].key) => \A i \in DOMAIN d : d[i] # k
  BY DEF Asked
<1> QED  BY <1>1, ChainKeys

(* Other names than the one of a PATCH stay, their flags too.              *)
LEMMA PatchedSeen ==
    ASSUME ConfigIInv, NEW r \in Requests, ask[r].part \in {"stack", "secrets"},
           NEW k \in Readable \ Asked(r), NEW v, SeenAs(db, k, v), NEW d, Clean(d), d.lite = db.lite,
           \A q \in Keys \ {ask[r].key} : d.row[q] = db.row[q] /\ (q \in d.secret <=> q \in db.secret)
    PROVE  SeenAs(Migrate(d), k, v)
<1>1. /\ k # ask[r].key
      /\ \A c \in Chains : c[1] = k => \A i \in DOMAIN c : c[i] # ask[r].key /\ c[i] \in Keys
  BY AskedChain, ChainKeys
<1>2. k \in Readable /\ k \in Keys
  BY ReadableChain
<1>3. \A c \in Chains : c[1] = k => \A i \in DOMAIN c :
        d.row[c[i]] = db.row[c[i]] /\ (c[i] \in d.secret <=> c[i] \in db.secret)
  BY <1>1
<1>4. Movable(db, k) /\ Clean(db)
  BY <1>2, RenamedMovable DEF ConfigIInv
<1>5. Movable(d, k)
  BY <1>3, <1>4, MovableSame
<1>6. SeenAs(d, k, v)
  BY <1>1, <1>2, <1>3, SeenSame
<1> QED  BY <1>2, <1>5, <1>6, MigrateSeen

(* A PATCH of a parameter leaves all others, and the setting.              *)
LEMMA StackPatchKeeps ==
    ASSUME ConfigIInv, NEW q \in Keys, NEW x \in PatchValues \cup {Empty, Mask, Absent}
    PROVE  LET d == StackPatched(q, x) IN
           d.lite = db.lite /\ \A y \in Keys \ {q} :
             d.row[y] = db.row[y] /\ (y \in d.secret <=> y \in db.secret)
<1> DEFINE d == StackPatched(q, x)
<1>1. Clean(db) /\ db.row \in [Keys -> Stored]
  BY DEF ConfigIInv, Clean
<1>2. CASE x = Absent
  <2>1. /\ d.row = Without(db.row, {q}) /\ d.secret = db.secret \ {q} /\ d.lite = db.lite
    BY <1>1, <1>2, DeleteClean DEF StackPatched
  <2> QED  BY <2>1 DEF Without
<1>3. CASE x # Absent
  <2>1. x \in Stored /\ x # Absent
    BY <1>3, StackConfigAssumption DEF Stored
  <2>2. d = Upsert(db, q, x)
    BY <1>3 DEF StackPatched
  <2> QED  BY <1>1, <2>1, <2>2, UpsertClean
<1> QED  BY <1>2, <1>3

(* What a request that has not been overtaken leaves is read as before.    *)
LEMMA CommitSeen ==
    ASSUME ConfigIInv, NEW r \in Requests, ~raced[r],
           \/ Tidy(r) \/ RewriteRows(r) \/ PatchSecretsWrites(r) \/ InstallWrites(r)
           \/ PatchStackWrites(r) /\ pc'[r] = "idle",
           NEW k \in Readable \ Asked(r), NEW v, SeenAs(db, k, v)
    PROVE  SeenAs(db', k, v)
<1>1. /\ Clean(db) /\ Renamed(db) /\ k \in Readable /\ AskFits(pc[r], ask[r])
      /\ GoesBy(pc[r], ask[r]) => snap[r] = db
  BY DEF ConfigIInv
<1>2. Movable(db, k)
  BY <1>1, RenamedMovable
<1>3. ASSUME NEW d, Clean(d), Commits(r, d) PROVE db' = d
  BY <1>3 DEF Commits, db, Clean
<1>4. CASE Tidy(r)
  <2>1. Commits(r, Tidied(db, snap[r])) /\ pc[r] = "tidy"
    BY <1>4 DEF Tidy, Tidied
  <2>2. snap[r] = db
    BY <1>1, <2>1 DEF GoesBy
  <2>3. Tidied(db, db) = Migrate(db)
    BY <1>1, MoveLiteClean, ObsoleteMoved DEF Tidied, Migrate
  <2>4. db' = Migrate(db)
    BY <1>1, <1>3, <2>1, <2>2, <2>3, MigrateClean
  <2> QED  BY <1>1, <1>2, <2>4, MigrateSeen
<1>5. CASE RewriteRows(r)
  <2>1. Commits(r, MigrateFrom(db))
    BY <1>1, <1>5 DEF RewriteRows, MigrateFrom, GoesBy
  <2>2. db' = MigrateFrom(db)
    BY <1>1, <1>3, <2>1, MigrateFromClean
  <2> QED  BY <1>1, <1>2, <2>2, RewriteSeen
<1>6. CASE PatchSecretsWrites(r)
  <2> DEFINE q == ask[r].key
             d == SecretsPatched(db, q, ask[r].value)
             new == MergeSecrets(Secret(db), q, ask[r].value)
  <2>1. /\ pc[r] = "patch" /\ ask[r].part = "secrets"
        /\ Commits(r, Migrate(SecretsPatched(snap[r], q, ask[r].value)))
    BY <1>6 DEF PatchSecretsWrites, SecretsPatched
  <2>2. snap[r] = db /\ q \in Keys /\ ask[r].value \in PatchValues \cup {Mask, Absent}
    BY <1>1, <2>1 DEF GoesBy, AskFits
  <2>3. /\ Clean(d) /\ d.lite = db.lite /\ d.secret = Present(new)
        /\ d.row = [x \in Keys |-> IF x \in Present(new) THEN new[x] ELSE Plain(db)[x]]
        /\ \A x \in Keys \ {q} : new[x] = Secret(db)[x]
    BY <1>1, <2>2, SecretPatchClean
  <2> HIDE DEF new, d
  <2>4. ASSUME NEW x \in Keys \ {q}
        PROVE  d.row[x] = db.row[x] /\ (x \in d.secret <=> x \in db.secret)
    <3>1. Secret(db)[x] = IF x \in db.secret THEN db.row[x] ELSE Absent
      BY DEF Secret, Without
    <3>2. Plain(db)[x] = IF x \in db.secret THEN Absent ELSE db.row[x]
      BY DEF Plain, Without
    <3>3. x \in db.secret => db.row[x] # Absent
      BY <1>1 DEF Clean, Present
    <3>4. x \in Present(new) <=> x \in db.secret
      BY <2>3, <3>1, <3>3 DEF Present
    <3> QED  BY <2>3, <3>1, <3>2, <3>4
  <2>5. db' = Migrate(d)
    BY <1>3, <2>1, <2>2, <2>3, MigrateClean DEF d
  <2>6. SeenAs(Migrate(d), k, v)
    BY <2>1, <2>3, <2>4, PatchedSeen
  <2> QED  BY <2>5, <2>6
<1>7. CASE InstallWrites(r)
  <2>1. ask[r].part = "all"
    BY <1>1, <1>7 DEF InstallWrites, AskFits
  <2>2. k \notin Keys
    BY <2>1 DEF Asked
  <2> QED  BY <1>1, <2>2, ReadableChain
<1>8. CASE PatchStackWrites(r) /\ pc'[r] = "idle"
  <2> DEFINE q == ask[r].key
             x == ask[r].value
             d == StackPatched(q, x)
  <2>1. pc[r] = "patch" /\ ask[r].part = "stack"
    BY <1>8 DEF PatchStackWrites
  <2>2. q \in Keys /\ x \in PatchValues \cup {Empty, Mask, Absent}
    BY <1>1, <2>1 DEF AskFits
  <2>3. Commits(r, Migrate(d))
    <3>1. ~(pc' = [pc EXCEPT ![r] = "migrate"])
      BY <1>8 DEF ConfigIInv
    <3> QED  BY <1>8, <3>1 DEF PatchStackWrites, StackPatched, Goto
  <2>4. Clean(d)
    BY <2>2, StackPatchClean
  <2>5. d.lite = db.lite /\ \A y \in Keys \ {q} :
          d.row[y] = db.row[y] /\ (y \in d.secret <=> y \in db.secret)
    BY <2>2, StackPatchKeeps
  <2> HIDE DEF d
  <2>6. SeenAs(Migrate(d), k, v)
    BY <2>1, <2>4, <2>5, PatchedSeen
  <2> QED  BY <1>3, <2>3, <2>4, <2>6, MigrateClean
<1> QED  BY <1>4, <1>5, <1>6, <1>7, <1>8

(* A step that ends a request is its own, or the restart: the rows and the *)
(* setting stay unless it commits.                                         *)
LEMMA EndsSeen ==
    ASSUME ConfigIInv, [Next]_vars, NEW r \in Requests, ~raced[r], pc[r] # "idle", pc'[r] = "idle",
           NEW k \in Readable \ Asked(r), NEW v, SeenAs(db, k, v)
    PROVE  SeenAs(db', k, v)
<1>1. CASE row' = row /\ lite' = lite
  <2>1. db'.row = db.row /\ db'.lite = db.lite
    BY <1>1 DEF db
  <2> QED  BY <2>1, SeenSame
<1>2. CASE UNCHANGED vars
  BY <1>1, <1>2 DEF vars
<1>3. CASE Restart
  BY <1>1, <1>3 DEF Restart
<1>4. ASSUME NEW q \in Requests,
             \/ Get(q) \/ ReadFirst(q) \/ ReadAgain(q) \/ Fails(q)
             \/ \E force \in BOOLEAN : Install(q, force)
             \/ \E n \in PatchKeys :
                  \/ \E x \in PatchValues \cup {Empty, Mask, Absent} : PatchStack(q, n, x)
                  \/ \E x \in PatchValues \cup {Mask, Absent} : PatchSecrets(q, n, x)
      PROVE  SeenAs(db', k, v)
  <2>1. Keep
    BY <1>4 DEF Get, ReadFirst, ReadAgain, Fails, Install, PatchStack, PatchSecrets
  <2> QED  BY <1>1, <2>1 DEF Keep
<1>5. ASSUME NEW q \in Requests,
             Tidy(q) \/ RewriteRows(q) \/ PatchStackWrites(q) \/ PatchSecretsWrites(q)
             \/ InstallWrites(q)
      PROVE  SeenAs(db', k, v)
  <2>1. CASE q = r
    BY <1>5, <2>1, CommitSeen
  <2>2. CASE q # r
    <3>1. \E p : pc' = [pc EXCEPT ![q] = p]
      BY <1>5 DEF Tidy, RewriteRows, PatchStackWrites, PatchSecretsWrites, InstallWrites, Commits,
                  Ends, Goto
    <3>2. pc'[r] = pc[r]
      BY <2>2, <3>1 DEF ConfigIInv
    <3> QED  BY <3>2
  <2> QED  BY <2>1, <2>2
<1> QED  BY <1>2, <1>3, <1>4, <1>5 DEF Next

(* Whatever a GET or PATCH moves, renames and writes again, readers get    *)
(* what they got, but for the keys it was asked for and unless another     *)
(* request has committed in between.                                       *)
THEOREM WritesOnlyWhatIsAskedHolds == Spec => WritesOnlyWhatIsAsked
<1>1. EffectiveAsSeen
  BY EffectiveIs
<1>2. EffectiveAsSeen'
  BY EffectiveIs, PTL
<1>3. ASSUME ConfigIInv, [Next]_vars, NEW r \in Requests, ~raced[r], pc[r] # "idle",
             pc'[r] = "idle", NEW k \in Readable \ Asked(r), IsSet(Effective(k))
      PROVE  Effective(k)' = Effective(k)
  <2>1. SeenAs(db, k, Effective(k))
    BY <1>1, <1>3 DEF EffectiveAsSeen
  <2>2. SeenAs(db', k, Effective(k))
    BY <1>3, <2>1, EndsSeen
  <2> QED  BY <1>2, <2>2 DEF EffectiveAsSeen
<1>4. ConfigIInv /\ [Next]_vars =>
        [\A r \in Requests :
           ~raced[r] /\ pc[r] # "idle" /\ pc'[r] = "idle" =>
             \A k \in Readable \ Asked(r) :
               IsSet(Effective(k)) => Effective(k)' = Effective(k)]_vars
  BY <1>3
<1> QED  BY <1>4, ConfigIInvHolds, PTL DEF Spec, WritesOnlyWhatIsAsked

=============================================================================
