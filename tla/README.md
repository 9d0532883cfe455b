# slgpu: TLA+ models of the control plane

slgpu serves large language models on one multi-GPU host. A FastAPI process
(`src/web/backend/app`) starts and stops inference containers (vLLM, SGLang)
through the Docker API, downloads models, keeps the configuration of the stack,
runs the monitoring compose projects, and exports logs from Loki. It is one
process with one asyncio event loop, one database (SQLite by default) and worker
threads for blocking calls. Almost everything that can go wrong in it is a matter
of order: two requests between whose awaits a third one fits, a coroutine that
is cancelled while its thread goes on, a row that says one thing and a daemon
that does another.

Paths below are relative to `src/web/backend/app` unless they begin with
another directory of the repository.

## 1. Inventory

| Component | State it keeps | Operations | Interacts with |
|---|---|---|---|
| Job runner (`services/jobs.py`, common part of `services/native_jobs.py`) | `_held`, `_task_by_lock`, rows of `jobs` | `submit`, `_run_job`, `_finalize_native_job`, `force_engine_slot_halt`, `force_model_pull_halt` | every mutating endpoint calls `submit`; it calls the handlers |
| Inference slots (`api/v1/runtime.py`, slot handlers of `native_jobs.py`, `services/slot_runtime.py`) | rows of `engine_slots`, containers in Docker | create, down, restart, force down | job runner, GPU availability, Docker (threads), configuration |
| GPU availability and state (`services/gpu_availability.py`, `gpu_state.py`, `host_info.py`) | two caches with a time to live | probe, invalidate, suggest | slots (rows), Docker, nvidia-smi |
| Log export (`services/log_export.py`, `api/v1/log_exports.py`, `services/loki_client.py`) | rows of `log_exports`, artifact files | create, pipeline, download | job runner, Loki |
| Log reports (`services/log_report.py`, `api/v1/log_reports.py`) | rows of `log_reports` | create, pipeline with LLM call and fallback | job runner, Loki, LiteLLM |
| Application log sink (`services/app_log_sink.py`) | pre-buffer, queue, writer task, table `app_log_event` | emit, start, flush, stop | the `logging` module, the event loop, database |
| Model registry and pulls (`services/hf_models.py`, `api/v1/models.py`, `_native_model_pull`) | rows of `models`, files on disk | create, sync, pull, force stop, delete | job runner, Hugging Face, file system |
| Stack configuration (`services/stack_config.py`, `stack_registry.py`, `env_key_aliases.py`, `llm_env.py`, `env_files.py`, `api/v1/app_config.py`) | rows of `stack_params` (secret and plain), defaults from files | read merged, patch, import | everything that reads a parameter |
| Presets (`services/presets.py`, `preset_db_sync.py`, `env_files.py`, `api/v1/presets.py`) | rows of `presets`, env files | import, export, download, edit, clone, delete | slots, configuration |
| Monitoring and proxy (`services/monitoring.py`, `compose_exec.py`, handlers in `native_jobs.py`) | rendered files, bootstrap markers, containers of two compose projects | up, down, restart, fix-perms, bootstrap | job runner, configuration, docker compose |
| Benchmarks (`api/v1/bench.py`, `src/scripts/bench_*.py`) | threads of the load script, result files | scenario, load, list | job runner, inference slots |
| Read-only views (`services/runtime.py`, `docker_client.py`, `docker_logs.py`, `host_info.py`, dashboard, activity) | none | snapshots | Docker, database |
| Settings, command builder, validation, database session, middleware | rows of `settings` | small | all |
| Frontend, shell scripts, service configuration | none the server relies on | - | - |

Which behaviours are hard, and what makes each component correct:

- **Job runner.** `_held` and `_task_by_lock` are updated at several awaits'
  distance from the row, and a force halt releases the key of a task that is
  still alive. Correct when: at most one job per (scope, resource); a key never
  stays held without somebody to release it; a row that says *running* has a
  task; a cancelled job stays cancelled; every job ends, unless the process stops: nothing takes such rows up again.
- **Slots.** Row, lock and container are three records of one fact, changed by an HTTP
  handler, a job coroutine and a Docker thread. Correct when: row and container
  agree between jobs; no two threads work on one container; no GPU is given to
  two slots; a requested slot does not stay so.
- **GPU availability.** Two caches that are invalidated without their lock while a probe is
  under way. Correct when: a suggestion is a set of free GPUs of the right size,
  contiguous if there is such a set; a cache does not serve a state older than the last change.
- **Log export.** A recursion over time against a server with a limit per
  query, and three records of success (file, row, job). Correct when: no line is lost, doubled or
  out of order; a row that offers a download has one; it ends.
- **Log reports.** The same three records, and a summary of what one query brought. Correct when: job and
  report say the same; lines that are left out are admitted; no sign of trouble is counted under nothing; a list that is cut keeps the containers with the most lines.
- **Log sink.** Records change hands four times. Correct when: nothing vanishes between two hands; order is kept; shutdown
  writes what was logged before.
- **Models.** The status is derived from files that a pull is just writing.
  Correct when: a pull that succeeds has brought every file; one download at a
  time works in a directory; the row ends up saying what is on disk. *Ready* is less
  than complete: `config.json` and one file of weights, as the plan of the repository
  defines it (`grace/verification/verification-plan.xml:240`).
- **Configuration and presets.** Layers with precedence, aliases and masked
  secrets, and presets kept twice, as a row and as a file. Correct when: a masked value replaces no
  secret that is sent with the other secrets; the documented precedence holds; a preset that says it is synced launches what its file says; reading changes nothing.
- **Monitoring and proxy.** A job writes five kinds of files and lets docker
  compose read them, while parameters and GPUs change. Correct when: what runs, what is on
  disk and what Prometheus scrapes are of one moment; bootstrap has been done for what runs, by directory and by name.
- **Benchmarks.** Four kinds of threads around one lock, and joins that may give up. Correct when: the figures of the
  outputs agree; the test ends; requests fit the context window by the script's own estimate; a result is listed as what it is, as long as the list has room.

Every hazard with its source line, and the properties that cover it, is in
`PROJECT.json` under `hazards`.

## 2. Plan

In the order of importance; (done) marks what exists.

1. (done) `JobService` (abstract), `JobRunner` (detailed), `JobRunnerProofs`: everything else runs under this lock.
2. (done) `SlotRuntime`: slots over the job runner's lock, taken at a coarser grain.
3. (done) `LogExport`, `AppLogSink`.
4. (done) `ModelPull`: registry status against files and pull jobs.
5. (done) `SlotAllocation`: GPUs, key and port of a new slot, and the two caches.
6. (done) `StackConfig`, `PresetStore`: parameters, secrets, presets and files.
7. (done) `LogReport`: the life cycle of `LogExport` with facts, LLM call and fallback.
8. (done) `MonitoringStack`: the compose projects.
9. (done) `LoadTest`, `BenchRuns`: the load script, the scenario matrix, jobs and results.
10. (done) `SlotRuntimeProofs`, `SlotAllocationProofs`, `ModelPullProofs`,
   `AppLogSinkProofs`, `LogsProofs`, `ConfigurationProofs`, `BenchProofs`: every
   safety property the passing runs check, for every value of the constants.
11. (done) `SlotService`, `PullService`, `Delivery`, `LogPipe`: what slots, pulls, exports with
   reports, and the log sink promise, each with its refinement checked and proved as that of `JobService` is.
12. Open: an abstract specification of the configuration (a parameter as one
   value with a history), and liveness, which only TLC can show here.

`MCSlots`, `MCJobs`, `MCLogs`, `MCConfiguration` and `MCWorkers` put modules
side by side in one run: a variable `part` says which one
moves, and the others stay at an initial state. They keep the number of runs
small; they are no composition, because these modules meet only in what is
written below. `MCJobs` takes `SlotRuntime` as an instance, for its names are those of `JobRunner`.

## 3. Modules

### JobService, JobRunner

`JobService` says what the control plane promises about jobs: a request is
*idle*, *refused*, *active* or *over*; it is admitted only if no other one is
active on its key, refused only if one is; the stored status moves forward and
then stays. An operator's force halt of a key switches both promises off for
that key, and nothing else does.

`JobRunner` is `jobs.py` with the common part of `handle_native_job`. An action
is the code between two awaits that suspend the coroutine, because nothing else
runs in between; a database transaction takes two, one for its read and one for
its commit.

| Variable | Code |
|---|---|
| `held`, `taskOf` | `_held`, `_task_by_lock` |
| `row` | `jobs.status` |
| `sub[j]` | position in `submit()` |
| `pc[j]` | position in `_run_job()` and the handler |
| `cancelReq`, `cancelling` | a `CancelledError` still to be thrown; `Task.cancelling()` |
| `halt[k]`, `sel[k]`, `tgt[k]` | position in a force halt, its SELECT, its task `t` |
| `forced`, `halts`, `crashes`, `dbErrs` | history and bounds |

`TaskDiesUnstarted` (a task cancelled before its first step runs no `finally`)
and `TaskSwallowsCancel` (the wait for the log poller has
`except CancelledError: pass`) are asyncio semantics the code depends on.
`TaskDbFails` lets a transaction raise anywhere `_run_job` has no handler for it.
`Restart` empties memory and leaves rows, as `main.py` does no recovery.

### SlotRuntime

One record per slot in three places: `row` (the `engine_slots` row), `held` and
`task` (the runner), `cont` (the container). A request goes through the HTTP
handler (`checked`, `inserted`), its job (`prep`, `down`, `up`, `exit`) and its
Docker thread `thr` (`stop`, `clear`, `run`, `net`), which is a process of its own
because `asyncio.to_thread` cannot be cancelled: after a force halt the thread
goes on and its result is dropped. A thread answers *ok*, *err* or *raised*. The
first two are what it returns, a `DockerException` it caught among them, and
the job writes the row (`JobStopped`, `JobStarted`). Anything else is raised: an
error of the HTTP library under docker-py, `docker.from_env()` outside the `try`
(`slot_runtime.py:206`, `:321`), a missing key of the merged parameters. That
passes the handlers and ends in the `except` of `handle_native_job` (`native_jobs.py:249-256`),
where the job fails and nobody writes the row (`JobRaises`); a restart does not
come to its start then. `RaisesBefore` leaves the container as it was, and so
row and container still agree; `RaisesAfter` may leave it stopped, gone or
running, and spoils the slot. `JobMarkFails` is the transaction of the job that raises after
Docker has done its part. The job runner is included at a coarser
grain (lock, registry, finally by key); rows of `jobs` are left to `JobRunner`.
`window`, `excuse`, `dirty` and `stuck` are history: they name the reasons for
which two slots may share a GPU, row and container may differ, or a row may stay
requested, so that the properties can say "for no other reason". Not modelled here: ports (a taken
port is one way in which `containers.run` fails), names of slots, the
nvidia-smi part of the availability check (an additional refusal, always possible).

### SlotAllocation

The part of a create that `SlotRuntime` leaves out, when the request names no
GPUs, key or port: `hostCache` is `_HOST_CACHE` (GPUs of the host, 30 s) and
`cache` is `_cache` of `gpu_state.py` (processes, 3 s); `call` is a request between its awaits.
A create asks twice, once for GPUs and once for a conflict. `Suggested`,
`FreePorts` and the key are functions of what was read. A slot's start and stop
appear as the three events that matter here: a process shows up, it is gone, the row is stopped. The first
two invalidate the caches from a worker thread; a probe under way does not
notice (`StoreProbe`). `epoch` counts invalidations, so that `SeenAfterChange`
can say which answers are out of date and that there is only this one way.

`SlotService` is the promise without handlers, threads and locks: a slot has a row, a
container and those at work on it. One may come to work if nobody else is or the slot was
forced; only somebody at work touches the container; what he writes into the row
is true of the container, and it is true when he leaves. `spoiled` and `forced` are
the price of a failed removal, a call or transaction that raised, a crash or a force, paid by slots that are in somebody's
hands, one trouble each. At work (`AtWork`) are a job and a Docker thread its job has left behind.

### Delivery

The promise an export and a report have in common: a row, a job and a product (a
file, a text) written one after the other by something that may fail or stop at every
point. The row says *succeeded* only from the moment the product is whole, a job that has
succeeded or failed says what the row says, both are final, and no half of a product is left behind.
A job that is cut off is cancelled, or stays running, and may leave its row *pending* or *running* for good.
`LogExport` and `LogReport` implement it (`ExportDelivers`, `ReportDelivers`):
`live` is the pipeline between its first transaction and its last, `product` the
file (`.part`, in place) or the text of the row.

### LogExport

`stored[t]` counts the lines Loki has with timestamp `t`; the recursion of
`_export_partition` is a stack of windows, which are contiguous: what lies before
the top one has been exported (this is the invariant of the proof). `Page` is `query_range` with its
fallback after a 400. Row, job and file change in separate transactions, with
failures and shutdown between any two. `ShutDown` passes the handlers of the
pipeline, for a `CancelledError` is no `Exception` and `ExportCancelled` is raised
nowhere: the job may be marked cancelled, the row is not (run `log_export_cancel`). Loki takes both ends of a range as
inclusive, as the code assumes; whether the real server does cannot be decided
from this repository.

### LogReport

One report: `report` (the row), `rjob` (the job), `request` (POST, which goes on
after it has submitted the job) and `pipe` (the pipeline). A line is a bucket of
five minutes, a container and the signs the patterns find in it, so `Facts` is
`build_facts_bundle` without its wording, samples and block markers: `Hits` says which list a
line goes to, `Top` keeps the containers with the most lines (40 in all, 30 of
each list of troubles; `log_report.py:252-258`), names breaking ties. `NewestOrTold` therefore does not say that
every line is counted: it says that every line with a sign goes to a list, and what a full list leaves out. `Pages` is the backward query:
the newest lines, up to the limit. `refused` is history: the server refused
`max_lines` and answered the fallback limit, which `loki_truncated` cannot see
(`log_report.py:510`). Two more things the model shows and no text contradicts:
the timeline keeps the *oldest* 500 buckets of the newest lines
(`log_report.py:264`; 168 hours are 2016 buckets), and a stop of the process
leaves the row *running* for good.

### AppLogSink

Records are numbers in order of emission. `prebuf`, `calls` (callbacks
scheduled with `call_soon_threadsafe`), `queue`, `batch` and `db` are the five
places a record can be. `Stop` cancels the writer where it is; a writer that is
in its flush flushes again, whether or not the commit had happened.

`LogPipe` is the promise: one row of waiting records and a table that takes them from its
head. A record is refused only behind as many older ones as the pre-buffer
holds, a failing transaction loses its own batch and nothing else, and the end of the table,
at most a batch, is written a second time at most once. Batch, queue, callbacks and
pre-buffer in this order are the row (`Waiting`); a batch that is committed and
not yet cleared is in the table (`InTable`) and no longer in it.

### ModelPull

One Hugging Face model in three places: `row` (`models.download_status`), `dir`
and `disk` (its directory, with `.incomplete` files as *partial*) and the job
that fills it. A request reads the row (`seen`) when it begins, scans the
directory (`found`) and writes at its commit, only if the two differ, as
SQLAlchemy does. That makes every GET a writer that may come late. `thr`, `todo`
and `cur` are the thread of `snapshot_download`, which outlives its cancelled
job; it is modelled as the library behaves towards this code: present files are
skipped, a file is downloaded under a lock of its own, several at a time. The
job runner is included as in `SlotRuntime`. `deleted` (pulls whose files were
deleted under them) and `forced` are history. PATCH and the progress bar of a
pull are left out; neither changes a status.

`PullService` is the promise about the files: one pull at a time brings them until
somebody forces; a file goes from absent to partial to done and falls back only by a
deletion, which *tears* whoever is at work; success is told over a complete model
or by a pull that was torn. `Whole` are the threads that have ended well and the jobs that know of it.

### StackConfig

`row` is `stack_params`, `secret` its `is_secret` column, `lite` the key older
releases kept in the `public_access` setting. Writes are functions of the
database (`Upsert`, `Delete`, `Rewrite`, `Migrate`); what readers and slots get
are `Merged` (`sync_merged_flat`) and `Launch` (`merge_llm_stack_env`). SQLite
gives a request no transaction before its first write, so `snap` holds what it
has read until then, and each commit is one step; the migration a GET makes is
up to three reads and a commit, each with other requests in between. A read
inside a transaction sees the database as it is. `raced` remembers that someone
else has committed in between. A PATCH of all secrets is rolled back when a key
of theirs has become a plain row (unique key).

`WritesOnlyWhatIsAsked` is about requests that nobody raced: two PATCHes of
secrets that overlap do lose one (`app_config.py:187-191`). `PresetDecides`
names one exception: a row with an old name of a key that belongs to the preset
brings that key into a slot (`llm_env.py:90` after `llm_env.py:63-64`), against the
intent of `env_key_aliases.py:75-76`, until the next GET or PATCH migrates the
row. A PATCH names one key; presets are constants, with old names as well, for
`load_preset_flat_from_db_sync` does not migrate them.

`Launch` is `merge_llm_stack_env` as a slot calls it: the preset over the stack
(`Overlaid`), no launch without the required keys (`MayLaunch`), TP and
devices replaced by those of the GPUs whatever the preset says, the port of
SGLang, and the aliases last. So a value a preset has under an old name loses to the
stack's value for the same chain, and `PresetDecides` says where it does not.

The section of the secrets takes the mask for "as it was"; the section `stack`
stores what it is given, secret keys and the mask included
(`app_config.py:179-185`). `masked` remembers the keys a PATCH has treated so;
`SecretsAreFlagged` says that the mask gets into a secret in no other way.

### PresetStore

`rows` are the presets, `files` their `<name>.env`. TP stands for the three columns a
preset has for keys of its file, RT for a key of `_RUNTIME_KEYS` and its old name.
A request reads (`seen`), may be overtaken, writes a file or unlinks one
(`WriteFile`, `UnlinkFile`), and commits: the ORM writes the columns that
differ from what was read (`Update`), because SQLite takes no lock before the first
write. `Render` and `Parse` are the conversions to a file and
back; a blank with a double quote is escaped on the way out and not on the way
back (`env_files.py:177`, `:34`). `reason` is history: why a row may differ from its file. What a slot
launches with is `LaunchOf(row, stack)`, where `stack` is any value the stack
may have for RT: the preset's own name of today is heard over it, its old name is not
(`Hidden`; `llm_env.py:65`, `:90`). The migration and the download give such a value
its name of today, and drop keys outside `_RUNTIME_KEYS` that a launch would
have passed (`presets.py:227`, `:235`). The properties about
presets hold on every stack, with these two differences named (`SameLaunch`).

### MonitoringStack

The seven native jobs of the two compose projects have one lock, so `task` is
one job with its place. It reads the parameters once and writes
`config` (files git can bring back), `rendered` and `env`; docker compose then
recreates services one by one, reading what is on disk. The GPU probe is used twice by
one job, for the scrape of Prometheus and for the profile of compose
(`stack_config.py:334`, `native_jobs.py:610`). `markers` are
the files in `data/monitoring/.bootstrap`, which do not say for which data
directory, bucket or database they were made. `PlaceOf` is all of these: where
parameters put the buckets and the database. A PATCH of a directory or a
name leaves the marker, so the next *up* skips the service
(`native_jobs.py:549-551`) and what the proxy looks for is not there; `moved`
names that exception in `BootstrapDone`, service by service.
`proxy.restart` runs no bootstrap, so `BootstrapDone` is about an *up*.
docker compose is external: exit codes and, for `down`
without a profile, both behaviours of its releases.

### LoadTest, BenchRuns

`LoadTest` is `scripts/bench_load.py`: the phase controller, one worker per
user, the collector of the time series and the main thread, at the grain of
what the lock covers and what it does not. `StreamChat` turns a response stream
into the result of a request. Main gives up a join after its timeout
(`JoinUser`), so it may write outputs beside a worker that still adds to them;
`outlived` remembers that. The requests of the last, unfinished window of the
time series are in no row; `WindowsAddUp` is about the rows there are, from
each to the next. `summary` is kept per user, in the order in which main has gone
through the lists; the latencies of `summary.json` are a function of it (`Latencies`,
`Percentile`, numbers times 100 so that a percentile is an integer).
`BenchRuns` has the scenario matrix as functions (`Scenarios`: cut to
`MAX_MODEL_LEN` or skipped), the two jobs, their scripts and the listing. The
directory of a run is named for the second it starts in, so two can share one;
`SucceededIsListed` names that exception. It also says what the cut of the list to 200
(`bench.py:77`) means: a run is missing only if the list is full of runs that
come before it, those of engines with earlier names first, newer or not.

`EstimatesFit` is about the script's own guess of four characters to a token
(`PromptChars`): what is sent, so counted, leaves room for the answer. The tokens the
server counts are of another number and come with those of its chat template; nothing
in the repository bounds them, and the property says nothing of them. The margin of 64 tokens that
`bench_openai.py:345` keeps for such differences is given up when fewer are left: the answer is
never cut below 64 tokens (`bench_openai.py:356`), so a window of 577 runs a prompt of 512 with an answer of 64.

## 4. Runs

| Run | Instance | Shows |
|---|---|---|
| `job_runner_safety` | 3 jobs, 1 key, 2 halts, 1 restart, 1 failing transaction | `OneInFlight`, `NoLeakedLock`, `NoOrphanRow`, `FirstHaltFindsTask` |
| `jobs_live` | 2 jobs on one key and 1 on another, 1 halt; 2 requests at a time, 1 slot, 2 troubles | refinement of `JobService`, `KeysFreed`, `EndsUnlessForced`; `RequestedResolves` |
| `job_double_run` | 2 jobs, 1 key, 1 halt | violation of `OneHandlerPerKey` |
| `job_cancel_lost` | 1 job, 1 halt | violation of `CancelledNotOverwritten` |
| `slots_safety` | 2 requests at a time, 2 slots, 2 GPUs, 1 trouble; or 2 requests for a new slot, 3 GPUs, 2 events, 1 tick | `RowMatchesContainer`, refinement of `SlotService`, `SharedGpuHasReason`; `SeenAfterChange`, `PortsDistinct` |
| `slots_double_book` | 2 creates, 2 slots, no trouble | violation of `NoDoubleBooking` |
| `slots_stuck` | 1 create, 1 slot, 1 trouble | violation of `JobDecidesRow` |
| `logs` | export: 3 timestamps, up to 3 lines each, pages of 2, 2 troubles; report: 5 lines of 2 containers in 3 buckets, lists of 1 container, limits granted, refused once or twice, 1 trouble; sink: 6 records, queue of 3, pre-buffer and batch of 2, 1 trouble | `ExportComplete`, refinement of `Delivery`, `ExportEnds`; `NewestOrTold`, refinement of `Delivery`; refinement of `LogPipe`, `InOrderOnce`, `StopWritesAll`, `QueuedIsWritten` |
| `log_export_loss` | the same with a server limit below a page | violation of `ExhaustsAllLines` |
| `log_export_cancel` | the export of `logs`, 1 trouble | violation of `CancelledIsFailed` |
| `configuration` | 13 keys of every kind, 2 requests at a time, 2 PATCH or install, 1 restart; 2 presets, 3 requests, 1 failure; 3 compose jobs, 3 sets of parameters, 1 change, 1 trouble | `SecretsAreFlagged`, `PresetDecides`, `WritesOnlyWhatIsAsked`; `SyncedMatchesFile`, `DownloadKeepsLaunch`, `ReadersChangeNothing`; `OneConfig`, `BootstrapDone` |
| `workers` | 2 users, 2 requests, 2 windows, phases of 1 or 2 ticks; 2 bench jobs, 2 engines, 5 context lengths, 2 seconds, a list of 1; 1 model of 3 files, 2 requests at a time, 4 operations, 1 trouble | `WindowsAddUp`, `OutputsAgree`, `FiguresSplitRequests`, `OneMoreAfterSwitchOff`, `LoadTestEnds`; `EstimatesFit`, `SucceededIsListed`; refinement of `PullService`, `SucceededPullIsComplete`, `RegistryConverges` |

The type invariant of a module is the first conjunct of one of its invariants
(`FirstHaltFindsTask`, `RowMatchesContainer`, `PortsDistinct`, `ExportComplete`, `NewestOrTold`,
`InOrderOnce`, `SucceededPullIsComplete`, `SecretsAreFlagged`, `ReadersChangeNothing`,
`OneConfig`, `WindowsAddUp`, `SucceededIsListed`), and so a part of the theorem about
that invariant. The refinements are the properties `ImplementsJobService`,
`ImplementsSlotService`, `ImplementsPullService`, `ExportDelivers`, `ReportDelivers`
and `ImplementsLogPipe`: every step of the detailed specification is a step of the
abstract one or leaves what it sees as it was.

**Bounds.** Three jobs on one key are a holder, a successor and one that races
with both; the double run needs two. Two halts let a second one meet
what the first left behind. Two slots and two GPUs let a slot conflict with
another and avoid it; requests are re-used without limit, so sequences of calls
are not bounded, only how many run at a time. A *trouble* is a force halt, a
failure, a lost probe or a crash; one is enough to leave each invariant's reason behind, and the
liveness run has two. Three timestamps need two levels of halving; pages of two
and up to three lines per timestamp give empty, short, full and over-full windows. Six
records overfill a queue of three, a pre-buffer of two and a batch of two.
Three files are a config and two shards, so that *ready* and *complete* differ;
four operations let a pull, a force stop, a second pull and a deletion meet, and
refreshes are not counted. The thirteen keys of the configuration are one of each kind (one of a
preset's, an ordinary one and one of an image, each with its old name, one dropped, two secrets, and
the four a launch sets itself: TP, devices and the two ports); one preset has names of today and
one has old names; GETs and their migrations are not counted, and two
PATCH or install requests are enough for one to meet any state another leaves.
GPUs 0, 2 and 3 have a pair of neighbours and a gap, so a suggestion for two can be
a block or not; two ports run out when a third row would be needed; one tick
makes the shorter cache expire and not the longer one. The lines of a report
cover every way in which one sign hides another, with a server that grants the
limit, grants only the fallback, or neither; with two containers and
room for one, a list is cut by count and by name. Three preset requests are an export, one that overlaps it and one
that reads the result. Three compose jobs are an up, a restart or a second
up with other parameters, and a down between them; one change moves the
parameters or the probe between any two steps. Of the three sets of
parameters one differs from the first in the name of the database alone, one in
everything and is incomplete. The five context lengths are: none given, at
and beside the edge of the shortest prompt, and between prompts.
Symmetry is used for jobs, slots, GPUs and requests in runs without liveness.
Deadlock is not checked: every model ends when its requests are used up or its record
or trouble bounds are reached.

**Fairness.** Weak fairness per coroutine for what the event loop resumes by
itself: a submit under way, a task, a halt, a Docker thread, the log writer.
Requests, halts, failures and crashes are never fair. It rests on what the code
does: every await is a database statement, a Docker call or an HTTP call with
a timeout, or a queue the loop serves. `RegistryConverges` needs one more: that
some refresh comes again and again. The Models page asks for `GET /models` every
2 to 8 seconds (`web/frontend/src/pages/Models.tsx:85`); without a reader the
row may say *downloading* for ever, because nothing else writes the end of a pull
into it (`mark_pull_finished` has no caller).
In the load test the controller, main and a worker that holds the lock are
fair, and a worker waiting for the server is not: main must end without it.
`MCLogs`, `MCJobs` and `MCWorkers` state fairness of the part that moves, or of actions that a part
at its initial state has not enabled.

**Violations.** Six runs show a disagreement between code and text; the quotes are in
`PROJECT.json` under `findings`.

- `job_double_run`: a force halt that meets a request between its lock and the
  registration of its task finds no task and frees the key all the same
  (`jobs.py:252-257`); the request goes on, and the next one runs beside it, against
  `web/CONTRACT.md:139`.
- `job_cancel_lost`: the finalizer's check of CANCELLED and its commit are apart,
  against `docs/HISTORY.md:1651`.
- `slots_double_book`: check and INSERT of a slot are apart, against
  `grace/verification/verification-plan.xml:256`.
- `log_export_loss`: the fallback limit of `query_range` looks like a short
  page, against the header of `log_export.py`.
- `slots_stuck`: what raises before or in the Docker call fails the job and
  leaves the row *requested* with its GPUs (`native_jobs.py:242-256`, `:452`), against
  `web/CONTRACT.md:69`.
- `log_export_cancel`: the row of a cancelled export stays *pending* or
  *running*, against `web/CONTRACT.md:110` and `log_export.py:46-47`.

Each property of a passing run has a mutant in its module, an operator
placed before the definition it stands for and never used by the specification,
which changes that definition as a plausible bug would.

## 5. Proofs

Every theorem is about the specification of a module as the runs use it, for
every value of its constants that its named assumption allows.

| Module | Theorem | States |
|---|---|---|
| `JobRunnerProofs` | `TypeCorrect` | `Spec => []TypeOK` |
| | `MutualExclusion` | `Spec => []OneInFlight` |
| | `LocksHaveOwners` | `Spec => []NoLeakedLock` |
| | `HaltFindsTask` | `Spec => []FirstHaltFindsTask` |
| | `NoOrphans` | `Spec => []NoOrphanRow` |
| | `Refinement` | `Spec => ImplementsJobService` |
| | `ServiceExcludes` | `Service!Spec => []Exclusive` |
| `SlotRuntimeProofs` | `RowAndContainerAgree` | `Spec => []RowMatchesContainer` |
| | `SlotServiceImplemented` | `Spec => ImplementsSlotService` |
| | `ServiceAgrees` | `Service!Spec => []Truthful` |
| | `OneThreadAtATime` | `Spec => []OneThreadPerSlot` |
| | `SharingIsExcused` | `Spec => []SharedGpuHasReason` |
| `SlotAllocationProofs` | `SeenAfterChangeHolds` | `AllocSpec => []SeenAfterChange` |
| | `PortsDistinctHolds` | `AllocSpec => []PortsDistinct` |
| `ModelPullProofs` | `PullServiceImplemented` | `Spec => ImplementsPullService` |
| | `ServiceCompletes` | `Service!Spec => []WholeIsWhole` |
| | `OneFetcherHolds` | `Spec => []OneFetcher` |
| | `SucceededPullHolds` | `Spec => []SucceededPullIsComplete` |
| `AppLogSinkProofs` | `PipeImplemented` | `SinkSpec => ImplementsLogPipe` |
| | `InOrderOnceHolds` | `SinkSpec => []InOrderOnce` |
| | `AccountedHolds` | `SinkSpec => []Accounted` |
| | `StopWritesAllHolds` | `SinkSpec => []StopWritesAll` |
| `LogsProofs` | `ReportDelivered` | `ReportSpec => ReportDelivers` |
| | `ExportDelivered` | `Spec => ExportDelivers` |
| | `DeliveryTells` | `Export!Spec => []OneStory` |
| | `NewestOrToldHolds` | `ReportSpec => []NewestOrTold` |
| | `ReportTellsTruthHolds` | `ReportSpec => []ReportTellsTruth` |
| | `FileMatchesRowHolds` | `Spec => []FileMatchesRow` |
| | `ExportCompleteHolds` | `Spec => []ExportComplete`, if `ServerLimit >= PageLimit` |
| `ConfigurationProofs` | `SecretsAreFlaggedHolds` | `Spec => []SecretsAreFlagged` |
| | `PresetDecidesHolds` | `Spec => []PresetDecides` |
| | `WritesOnlyWhatIsAskedHolds` | `Spec => WritesOnlyWhatIsAsked`, an action property |
| | `SyncedMatchesFileHolds` | `PresetSpec => []SyncedMatchesFile` |
| | `DownloadKeepsLaunchHolds` | `PresetSpec => []DownloadKeepsLaunch` |
| | `ReadersChangeNothingHolds` | `PresetSpec => []ReadersChangeNothing` |
| | `OneConfigHolds` | `StackSpec => []OneConfig` |
| | `BootstrapDoneHolds` | `StackSpec => []BootstrapDone` |
| `BenchProofs` | `FiguresSplitRequestsHolds` | `LoadSpec => []FiguresSplitRequests` |
| | `WindowsAddUpHolds` | `LoadSpec => []WindowsAddUp` |
| | `OutputsAgreeHolds` | `LoadSpec => []OutputsAgree` |
| | `OneMoreHolds` | `LoadSpec => []OneMoreAfterSwitchOff` |
| | `EstimatesFitHolds` | `BenchSpec => []EstimatesFit` |
| | `SucceededIsListedHolds` | `BenchSpec => []SucceededIsListed` |

`OneThreadPerSlot`, `OneFetcher`, `Accounted`, `ReportTellsTruth` and `FileMatchesRow`
are stated in the proof modules and not among the runs: the refinements a run checks
are stronger. `ServiceExcludes`, `ServiceAgrees`, `ServiceCompletes` and `DeliveryTells`
are about abstract specifications alone. They show that these promise enough: what
implements one has, by that alone, mutual exclusion, truthful rows, complete models or one story.

Hardly any of these properties is inductive. Each module states an inductive
invariant first, which was checked by TLC before it was proved, with one
lemma (or one case per conjunct) for every action:

- **`JobRunnerProofs!IInv`.** `Progress`: how far `submit()` and the task are
  determines what the row can say. `Registration`: the registry entry of a key is a
  spawned job of that key. `Cancellation`: a cancellation comes from a force halt
  of the same key, so on a key nobody forced no task is cancelled, and `Finally`
  frees its own key. `Ownership`: an owner of an unforced key has it in `held`,
  and is alone; this is the half of mutual exclusion `SubmitLock` needs. `Settled`: an
  undisturbed task leaves with a terminal row. The refinement rests on three
  lemmas about `PhaseOf` (a job moves phase only at its own lock, refusal, leave
  or at a restart).
- **`SlotRuntimeProofs!IInv`.** `Control`: the thread of a request follows its
  coroutine unless a force halt has cut the two apart. `Ownership`: a job on an
  unforced slot holds it, alone. `Containers`: between the moment a thread has
  touched the container and the moment the job has told the row, the *job* knows
  what the container is, and at every other time the row does; this is what
  `RowMatchesContainer` leaves unsaid about the time while a job runs. `Bookings`: a job
  that will make its row active keeps GPUs the row has, or is excused with
  every other slot; and a create after its check still knows every active row it
  did not refuse, which makes `window` a complete list of excuses at its INSERT. The refinement
of `SlotService` needs no more: `Containers` says what a job writes is true, `Ownership`
that nobody is at work on a key that is not held, and three lemmas how a step
changes `AtWork` (not at all, by one who comes, by one who goes).
- **`SlotAllocationProofs!AllocIInv`.** `Informed`: what each request between two
  awaits has found, and from which epoch; `Cached`: the entry of the cache was
  stored in the current epoch, because every change drops it; `LatePorts`:
  the port a request carries is taken only by rows inserted since it looked.
- **`ModelPullProofs!PullIInv`.** `Coupled` and `Alone` as for slots; `Fetched`: what
  a download has neither before it nor in hand is on disk, though another one may have brought it.
  It is also why a thread that ends well is a `Succeed` of `PullService`.
- **`AppLogSinkProofs!SinkIInv`.** Each buffer is in order (`Sorted`), and table, batch,
  queue and callbacks are so among themselves (`Apart`), except for a batch that
  has been committed and not yet cleared; that exception is the flush `stop_writer`
  repeats. `OnlyLate`: once the queue has been drained, only younger records are on their way.
  The refinement of `LogPipe` adds `PipeInv`: a batch that is committed and not cleared is
  the very end of the table, so that clearing it changes nothing and a second flush
  repeats exactly it. `Line` puts the four buffers into one row, and a lemma for
  each kind of step says what it does to that row; the provers see sequences only
  through the laws of `Join` and `Added`.
- **`LogsProofs!ReportIInv`, `ExportIInv`.** `Drawn`: the facts tell what
  they leave out from the query on. `Swept`: the windows on the stack are
  contiguous and end with the period, nothing exported lies at or after the
  lower edge of the top one, and every nanosecond before it is complete. A full page is
  dropped and its window halved, so the edge stays; a short one moves it to
  the next window. `ServerLimit >= PageLimit` is a hypothesis of `ExportCompleteHolds`
  because the property needs it: the run `log_export_loss` is its negation.
  `Artifact` and `Where` tell for each place of a pipeline what row, job and product can be;
  the refinements of `Delivery` are one case per action on top of them.
- **`ConfigurationProofs!ConfigIInv`, `PresetIInv`, `StackIInv`.** The rows and whatever a request
  has read of them are `Clean` (every known secret is flagged), and a
  request nobody raced has read what is there; `MaskIInv`: the mask stands for a secret, in the rows
  or in what somebody has read, only where `masked` says so. `WritesOnlyWhatIsAsked` follows
  from what each database function does to what a reader sees (`SeenAs`,
  `RewriteSeen`, `MigrateSeen`, `CommitSeen`): a renaming keeps the value of the chain it
  renames. `Exported`: a request that has written a file still carries the
  row it wrote it from. `Works`, `Scraped` and `Home` follow a compose job:
  after it has rendered, disk and job agree; a service is either still to be
  recreated or runs with what is on disk; a marker stands for something made.
- **`BenchProofs!BenchIInv`, `LoadIInv`, `OutputIInv`.** `Counted`: lists and counters
  differ by the request of the worker that holds the lock between the two. `Series`: the
  snapshot the collector goes by is the last row. `Progress` and `Written` follow the script of a bench job and
  what is in its directory; that a run which is not listed has a full list of earlier ones before it
  (`ListedAre`) follows from `Rank`, the number of runs before one, which is injective. `Agreed`: what main reads
  of a user is a prefix of what it reads later, and all of it if it saw the worker end.
  `FiguresSplitRequests` needs no order of requests: the k-th latency is the one with less than
  k requests below it and at least k up to it, such a value exists (`PlaceTaken`: the least of
  those with enough up to it), latencies so defined ascend, and a percentile lies between
  two of them (`PercentileBetween`), which puts half of the requests on either side.

Two things had to be proved without an induction rule the provers can use. What is
true of the length or the count of a sequence built step by step is proved
from `Count` and `Answers` as cardinalities of index sets; the one
place that needs an induction over numbers (a page is sorted and has each
timestamp as often as the window) takes the least counterexample of a set of numbers, from
the well-foundedness of `<` on `Nat`.

**Assumptions.** They are about constants only, and TLC evaluates each in the run of its module.
Most say that a bound is a number. The others hold in the code: `PreMax <=
QueueMax` (5000 and 100000 records: `start_writer` empties the pre-buffer into
a new queue); `FallbackLimit < PageLimit` (5000 and 25000) and `FallbackLimit <=
ServerLimit` (the retry is answered); chains of aliases
are disjoint, and no secret, dropped or preset-only key is an old name (`env_key_aliases.py`,
`stack_registry.py`); TP is one of the keys a preset has to have, these belong to the
preset, and TP, devices and ports have no aliases; the LiteLLM key is a secret; preset values are not empty (`load_preset_flat_from_db_sync`
leaves blank ones out); rows an upgrade finds do not have the mask as their value; a config file is not a file of weights; a stream
ends as done, refused or broken.

**Model-checked only.** Liveness (`KeysFreed`, `EndsUnlessForced`,
`RequestedResolves`, `ExportEnds`, `QueuedIsWritten`, `RegistryConverges`, `LoadTestEnds`): the
prover has no reasoning about fairness. What else the passing runs check is proved. The six violations are counterexamples and need no proof.

## 6. Not modelled

Within modelled components: the wording of reports and messages, redaction of secrets in log
lines, the columns of a log record (`classify_record_to_dto`), progress bars,
PATCH of a model's revision and notes, the list of parameters itself
(`stack_registry.py:84-714` is data; that keys may be missing is `Complete` in
`MonitoringStack`), the second choice of GPUs inside a job
(`native_jobs.py:273-342`), which no endpoint reaches, the HTTP probes of the monitoring services, which keep
no state, the text blocks and samples that the facts of a report quote, the merged
configuration a bench reads when it is given no slot, and the write of
`langfuse-litellm.env` before the rest of the proxy's files.

What properties leave out on purpose: `NoOrphanRow` and `EndsUnlessForced` are about a process that does not
stop, for a crash leaves job rows that no coroutine serves and no code takes up again; `WritesOnlyWhatIsAsked` excepts requests that were raced, whose updates
the code does lose; `OneConfig` says little of the proxy, which stands for one
service; `EstimatesFit` says nothing of the tokens a server counts.

Whole components: read-only views, settings (one row written at a time) and the
frontend have no state whose order matters; database sessions are taken as
transactions. Shell scripts, compose files, Docker, Loki, Hugging Face and
nvidia-smi are external; they appear as what the code expects of them and as failures.
