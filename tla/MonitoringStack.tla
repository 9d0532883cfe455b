--------------------------- MODULE MonitoringStack ---------------------------
(***************************************************************************)
(* The monitoring and the proxy project of docker compose: the native jobs *)
(* monitoring.up, down, restart, fix-perms and proxy.up, down, restart     *)
(* (services/native_jobs.py, compose_exec.py), the files they write from   *)
(* the parameters of the stack (services/stack_config.py) and what the     *)
(* projects run with.                                                      *)
(*                                                                         *)
(* All these jobs have the key (monitoring, stack), so there is one at a   *)
(* time (JobRunner); nothing forces it, but the process may stop.  A job   *)
(* reads the parameters once.  A PATCH, the outcome of the GPU probe and   *)
(* docker compose, which works service by service, go on beside it.        *)
(***************************************************************************)
EXTENDS Naturals, FiniteSets

CONSTANTS Configs,     \* what the rows of stack_params can say
          Complete,    \* those with every key of monitoring_up and proxy_up
          Dirs, DirOf, \* data directories of the proxy, and whose they are
          Places, PlaceOf, \* where parameters put buckets and database: the
                           \* directory of MinIO or PostgreSQL and their names
          MaxJobs,     \* bound: jobs
          MaxTroubles, \* bound: commands that fail and stops of the process
          MaxChanges   \* bound: PATCHes and changes of the GPU probe

ASSUME MonitoringAssumption ==
    /\ Complete \subseteq Configs /\ DirOf \in [Configs -> Dirs]
    /\ PlaceOf \in [Configs -> [{"minio-bucket-init", "litellm-pg-init"} -> Places]]
    /\ MaxJobs \in Nat /\ MaxTroubles \in Nat /\ MaxChanges \in Nat

VARIABLES
    cfg,      \* the parameters of the stack
    gpu,      \* the GPU probe of the host finds one
    config,   \* the files of _CONFIG_FILES: there, directories, or missing
    git,      \* a checkout can bring them back
    env,      \* compose-service.env: the parameters it was written from
    rendered, \* the rendered configs: their parameters, DCGM scraped or not
    network,  \* the Docker network is there
    run,      \* per project and service: what its container runs with
    markers,  \* data/monitoring/.bootstrap
    made,     \* what the bootstrap services have made, and where
    owned,    \* the directories with the right owner
    task,     \* the job at work
    settled,  \* history: projects whose last job was an up or restart that
              \* succeeded, and which of the two it was
    flipped,  \* history: the probe changed between its two uses by a job
    moved,    \* history: services whose place a PATCH has changed
    jobsRun, failed, changed

stackVars == <<cfg, gpu, config, git, env, rendered, network, run, markers, made, owned,
               task, settled, flipped, moved, jobsRun, failed, changed>>

Projects == {"monitoring", "proxy"}
(* "dcgm" has the compose profile gpu, "core" stands for the others.       *)
Services(p) == IF p = "monitoring" THEN {"core", "dcgm"} ELSE {"core"}
(* In the order of _monitoring_bootstrap.                                  *)
Bootstraps  == {"minio-bucket-init", "litellm-pg-init"}
Nothing == [env |-> "none", files |-> "none"]
NoTask  == [project |-> "none", action |-> "none", at |-> "idle", cfg |-> "none",
            services |-> {}, boot |-> {}]
Starts(t) == t.action \in {"up", "restart"}

StackInit ==
    /\ cfg \in Complete /\ gpu \in BOOLEAN
    /\ config \in {"file", "dir", "none"} /\ git \in BOOLEAN
    /\ env = "none" /\ rendered = [cfg |-> "none", scrape |-> FALSE] /\ network = FALSE
    /\ run = [p \in Projects |-> [s \in Services(p) |-> Nothing]]
    /\ markers = {} /\ made = {} /\ owned = {}
    /\ task = NoTask /\ settled = {} /\ flipped = FALSE /\ moved = {}
    /\ jobsRun = 0 /\ failed = 0 /\ changed = 0

-----------------------------------------------------------------------------
(* Beside the jobs                                                         *)

PatchConfig ==
    /\ changed < MaxChanges /\ changed' = changed + 1
    /\ \E c \in Configs \ {cfg} :
         /\ cfg' = c
         /\ moved' = moved \cup {b \in Bootstraps : PlaceOf[c][b] # PlaceOf[cfg][b]}
    /\ UNCHANGED <<gpu, config, git, env, rendered, network, run, markers, made, owned,
                   task, settled, flipped, jobsRun, failed>>

ProbeChanges ==
    /\ changed < MaxChanges /\ changed' = changed + 1
    /\ gpu' = ~gpu
    /\ flipped' = (flipped \/ (task.project = "monitoring" /\ task.at = "rendered"))
    /\ UNCHANGED <<cfg, config, git, env, rendered, network, run, markers, made, owned,
                   task, settled, moved, jobsRun, failed>>

(* POST /monitoring/action and /litellm/proxy/action: 409 while keys are   *)
(* missing or a job is at work.                                            *)
RequestAction(p, action) ==
    /\ jobsRun < MaxJobs /\ jobsRun' = jobsRun + 1
    /\ task = NoTask /\ cfg \in Complete
    /\ action \in {"up", "down", "restart"} \cup (IF p = "monitoring" THEN {"fix-perms"} ELSE {})
    /\ task' = [NoTask EXCEPT !.project = p, !.action = action, !.at = "start"]
    /\ UNCHANGED <<cfg, gpu, config, git, env, rendered, network, run, markers, made, owned,
                   settled, flipped, moved, failed, changed>>

-----------------------------------------------------------------------------
(* The jobs                                                                *)

(* _ensure_config_files_async: a directory Docker made where a file was    *)
(* missing goes, and git brings the file.                                  *)
Ensured == IF config = "file" \/ git THEN "file" ELSE "none"

(* Mutant: monitoring.restart leaves the rendered configs alone.           *)
RenderedNotOnRestart ==
    IF task.project = "monitoring" /\ task.action = "up"
      THEN [cfg |-> cfg, scrape |-> gpu] ELSE rendered

(* render_monitoring_configs, of up and restart of the monitoring.         *)
Rendered ==
    IF task.project = "monitoring" THEN [cfg |-> cfg, scrape |-> gpu] ELSE rendered

(* The job reads the parameters.  If keys are missing or a file cannot be  *)
(* had, it fails before it has touched the project.                        *)
Prepare ==
    /\ task.at = "start"
    /\ IF cfg \notin Complete \/ (Starts(task) /\ Ensured # "file")
         THEN /\ task' = NoTask
              /\ config' = IF cfg \in Complete THEN Ensured ELSE config
              /\ UNCHANGED <<rendered, settled, flipped>>
         ELSE /\ task' = [task EXCEPT !.at = IF task.action = "fix-perms" THEN "chown" ELSE "rendered",
                                      !.cfg = cfg]
              /\ config' = IF Starts(task) THEN Ensured ELSE config
              /\ rendered' = IF Starts(task) THEN Rendered ELSE rendered
              /\ settled' = IF task.action = "fix-perms" THEN settled ELSE settled \ ({task.project} \X {"up", "restart"})
              /\ flipped' = (flipped /\ ~(Starts(task) /\ task.project = "monitoring"))
    /\ UNCHANGED <<cfg, gpu, git, env, network, run, markers, made, owned,
                   moved, jobsRun, failed, changed>>

(* write_compose_service_env_file, and the probe once more for the profile *)
(* of compose.  down does not name the profile.                            *)
WriteEnv ==
    /\ task.at = "rendered"
    /\ env' = task.cfg
    /\ task' = [task EXCEPT !.at = IF Starts(task) THEN "network" ELSE "compose",
                            !.services = IF task.project = "monitoring" /\ Starts(task) /\ gpu
                                           THEN {"core", "dcgm"} ELSE {"core"}]
    /\ UNCHANGED <<cfg, gpu, config, git, rendered, network, run, markers, made, owned,
                   settled, flipped, moved, jobsRun, failed, changed>>

(* ensure_slgpu_network; only proxy.up runs the bootstrap services.        *)
EnsureNetwork ==
    /\ task.at = "network"
    /\ network' = TRUE
    /\ task' = IF task.project = "proxy" /\ task.action = "up"
                 THEN [task EXCEPT !.at = "bootstrap", !.boot = Bootstraps]
                 ELSE [task EXCEPT !.at = "compose"]
    /\ UNCHANGED <<cfg, gpu, config, git, env, rendered, run, markers, made, owned,
                   settled, flipped, moved, jobsRun, failed, changed>>

NextBoot == IF "minio-bucket-init" \in task.boot THEN "minio-bucket-init" ELSE "litellm-pg-init"

(* Mutant: the marker is made before the service runs, in the next step    *)
(* (no services left: it is about to run).                                 *)
BootstrapMarksFirst ==
    /\ task.at = "bootstrap"
    /\ IF task.boot = {} THEN task' = [task EXCEPT !.at = "compose"] /\ UNCHANGED <<markers, made, run>>
       ELSE IF task.services = {}
         THEN /\ made' = made \cup {<<PlaceOf[env][NextBoot], NextBoot>>}
              /\ run' = [run EXCEPT !["proxy"] = [s \in Services("proxy") |-> Nothing]]
              /\ task' = [task EXCEPT !.services = {"core"}, !.boot = @ \ {NextBoot}]
              /\ UNCHANGED markers
       ELSE IF NextBoot \in markers
         THEN task' = [task EXCEPT !.boot = @ \ {NextBoot}] /\ UNCHANGED <<markers, made, run>>
       ELSE /\ markers' = markers \cup {NextBoot}
            /\ task' = [task EXCEPT !.services = {}]
            /\ UNCHANGED <<made, run>>
    /\ UNCHANGED <<cfg, gpu, config, git, env, rendered, network, owned,
                   settled, flipped, moved, jobsRun, failed, changed>>

(* _one: a service with a marker is skipped.  It makes the bucket or the   *)
(* database of the names in its env.  Its compose up ends with the         *)
(* containers it has started being stopped.                                *)
Bootstrap ==
    /\ task.at = "bootstrap"
    /\ IF task.boot = {} THEN task' = [task EXCEPT !.at = "compose"] /\ UNCHANGED <<made, run>>
       ELSE IF NextBoot \in markers
         THEN task' = [task EXCEPT !.boot = @ \ {NextBoot}] /\ UNCHANGED <<made, run>>
       ELSE /\ made' = made \cup {<<PlaceOf[env][NextBoot], NextBoot>>}
            /\ run' = [run EXCEPT !["proxy"] = [s \in Services("proxy") |-> Nothing]]
            /\ task' = [task EXCEPT !.at = "mark"]
    /\ UNCHANGED <<cfg, gpu, config, git, env, rendered, network, markers, owned,
                   settled, flipped, moved, jobsRun, failed, changed>>

Mark ==
    /\ task.at = "mark"
    /\ markers' = markers \cup {NextBoot}
    /\ task' = [task EXCEPT !.at = "bootstrap", !.boot = @ \ {NextBoot}]
    /\ UNCHANGED <<cfg, gpu, config, git, env, rendered, network, run, made, owned,
                   settled, flipped, moved, jobsRun, failed, changed>>

(* docker compose up -d --force-recreate, one service after another; the   *)
(* containers of the monitoring have the rendered configs mounted.         *)
Recreate(s) ==
    /\ task.at = "compose" /\ Starts(task) /\ s \in task.services
    /\ run' = [run EXCEPT ![task.project][s] =
                 [env |-> env,
                  files |-> IF task.project = "monitoring" THEN rendered.cfg ELSE "none"]]
    /\ task' = [task EXCEPT !.services = @ \ {s}]
    /\ UNCHANGED <<cfg, gpu, config, git, env, rendered, network, markers, made, owned,
                   settled, flipped, moved, jobsRun, failed, changed>>

(* docker compose down without a profile: releases of compose differ in    *)
(* whether they take a service of the profile down.                        *)
TakeDown ==
    /\ task.at = "compose" /\ task.action = "down" /\ task.services # {}
    /\ \E gone \in {{"core"}, Services(task.project)} :
         run' = [run EXCEPT ![task.project] = [s \in DOMAIN @ |-> IF s \in gone THEN Nothing ELSE @[s]]]
    /\ task' = [task EXCEPT !.services = {}]
    /\ UNCHANGED <<cfg, gpu, config, git, env, rendered, network, markers, made, owned,
                   settled, flipped, moved, jobsRun, failed, changed>>

(* Exit code 0, and the job has succeeded.                                 *)
ComposeEnds ==
    /\ task.at = "compose" /\ task.services = {}
    /\ settled' = IF Starts(task) THEN settled \cup {<<task.project, task.action>>} ELSE settled
    /\ task' = NoTask
    /\ UNCHANGED <<cfg, gpu, config, git, env, rendered, network, run, markers, made, owned,
                   flipped, moved, jobsRun, failed, changed>>

(* _native_fix_perms: one directory after another, and an error of Docker  *)
(* is only logged.                                                         *)
FixPerms ==
    /\ task.at = "chown"
    /\ \E done \in {{}, {DirOf[task.cfg]}} : owned' = owned \cup done
    /\ task' = NoTask
    /\ UNCHANGED <<cfg, gpu, config, git, env, rendered, network, run, markers, made,
                   settled, flipped, moved, jobsRun, failed, changed>>

(* A command of Docker fails, or the process stops with the job and its    *)
(* compose command.  What was done stays; there is no clean-up.            *)
TaskFails ==
    /\ task # NoTask /\ failed < MaxTroubles /\ failed' = failed + 1
    /\ task' = NoTask
    /\ UNCHANGED <<cfg, gpu, config, git, env, rendered, network, run, markers, made, owned,
                   settled, flipped, moved, jobsRun, changed>>

StackNext ==
    \/ PatchConfig \/ ProbeChanges
    \/ \E p \in Projects, action \in {"up", "down", "restart", "fix-perms"} : RequestAction(p, action)
    \/ Prepare \/ WriteEnv \/ EnsureNetwork \/ Bootstrap \/ Mark
    \/ \E s \in {"core", "dcgm"} : Recreate(s)
    \/ TakeDown \/ ComposeEnds \/ FixPerms \/ TaskFails

StackSpec == StackInit /\ [][StackNext]_stackVars

-----------------------------------------------------------------------------
StackTypeOK ==
    /\ cfg \in Configs /\ config \in {"file", "dir", "none"} /\ {gpu, git, network} \subseteq BOOLEAN
    /\ env \in Configs \cup {"none"} /\ rendered.cfg \in Configs \cup {"none"}
    /\ markers \subseteq Bootstraps /\ made \subseteq Places \X Bootstraps /\ owned \subseteq Dirs
    /\ task.at \in {"idle", "start", "rendered", "network", "bootstrap", "mark", "compose", "chown"}
    /\ moved \subseteq Bootstraps /\ settled \subseteq Projects \X {"up", "restart"}

(* A project whose last job brought it up runs on one set of parameters:   *)
(* every container has the env and, in the monitoring, the rendered files  *)
(* of one moment, whatever was patched meanwhile, and those files are the  *)
(* ones on disk, which a container reads again when it restarts.  If       *)
(* Prometheus is told to scrape DCGM, the exporter runs with the rest,     *)
(* unless the GPU probe changed between its two uses by the job.           *)
OneConfig ==
    /\ StackTypeOK
    /\ \A p \in {q[1] : q \in settled} :
         LET core == run[p]["core"] IN
         /\ core.env \in Configs
         /\ p = "monitoring" =>
              /\ core.files = core.env /\ rendered.cfg = core.env
              /\ rendered.scrape => run[p]["dcgm"] = core \/ flipped

(* A proxy that its last job, an up, has brought up has its buckets and    *)
(* its database where the parameters it runs with look for them, in their  *)
(* directory and by their names.  The markers know of neither: a service   *)
(* that a PATCH has moved or renamed may have made them elsewhere.         *)
BootstrapDone ==
    <<"proxy", "up">> \in settled =>
        \A b \in Bootstraps :
            \/ <<PlaceOf[run["proxy"]["core"].env][b], b>> \in made
            \/ b \in moved /\ \E x \in Places : <<x, b>> \in made
=============================================================================
