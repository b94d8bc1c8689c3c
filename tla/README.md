# A TLA+ model of the LLM Algorithm Harness

The harness runs coding strategies of language models on algorithm problems,
from the command line or behind a Web API with Celery workers. What is hard in
it is not the strategies but what happens around them: long runs that are
paused, cancelled, resumed and crash half-way, whose state is spread over a JSON
checkpoint, two databases, a message queue and a lock file; money that is spent
by several threads and reported while they work; caches, uploads, notices and
statistics that processes share without a lock; and a browser whose requests are
answered late, twice or not at all. These modules model those parts, check them
with TLC, and prove part of them with TLAPS.

Contents: 1 inventory, 2 modules, 3 runs and bounds, 4 fairness, 5 findings and
observations, 6 proofs, 7 what is not modelled, 8 plan.

## 1. Inventory

Paths are relative to `src/`. The third column names the module, the fourth what
makes the part correct (properties are in section 3).

| Component | State, and what is hard | Module | Correct when |
|---|---|---|---|
| Run engine, `src/task_service.py` | one JSON record per run; unlocked load-merge-save by several processes, crashes with units in flight | `TaskService`, `UnitLedger` | the file agrees with its units; nothing known is run again; at most one unit after a cancel |
| Evaluation service, task manager, worker (`api/services/evaluation_service.py`, `src/task_manager.py`, `src/tasks/evaluation.py`) | two rows, a generation, messages, an execution lock, a checkpoint; late publication errors, redelivery, lost workers | `EvaluationLifecycle` | one executor, one charge per unit, whole results, rows that agree, final decisions, every message answered |
| Business tasks (`src/tasks/{experiment,benchmark,ab_test}.py`, their services) | task and business row without an execution lock; a stop that must be confirmed | `BusinessTask` | one executor, rows agree, a pause is confirmed |
| Dataset imports (`api/files/store.py`, `src/tasks/imports.py`) | one state in two databases; a refused second commit | `ImportJob` | the dataset follows the verdict and the verdict reaches the task |
| Unit runners (`src/experiment.py`, `src/ab_testing.py`, `src/checkpoints.py`, `src/benchmark/executor.py`) | units saved one by one on a pool, stopped by polls | `UnitRunner` | a completed run is whole, a saved unit is never bought again |
| Model calls (`src/llm_client.py`, `src/budget.py`, `api/services/spend_records.py`) | gate, cache, quota, attempts, a spend record shared by threads | `LLMCall` | each attempt is on file, no problem exceeds its budget |
| Requests and prices (`src/llm_client.py`, `src/utils/pricing.py`) | endpoint, key, parameters, key of the cache, price | `ModelRequest` | a cached answer is one to the same question; the price is the evaluation's own |
| Response cache (`src/cache.py`) | files and an access log without a lock | `ResponseCache` | an entry that was set alone can be read; the log loses no access of one alone |
| Strategies (`src/strategies/`), result of a problem (`src/harness.py`) | refusals, failures and exceptions at any call | `Solve`, `ThoughtTree` | solved means code that passed; a tree's answer was rated and kept |
| Sandbox (`src/utils/process_manager.py`, `src/sandbox_executor.py`) | a process tree that forks, two pumps, a limit, a deadline; what commands leave behind | `BoundedRun`, `SandboxStage` | no process survives, no output is cut unnoticed, a passed stage passed |
| Budgeted command-line run (`src/harness.py`, `src/cost_strategy.py`, `src/cost_alert.py`) | a ledger in memory beside the file; alerts told and saved | `BudgetedRun` | a resumed run counts what was spent; alerts come in time, and once without a crash |
| Incremental run (`src/main.py`, `src/incremental/`) | history, fingerprints, result files of earlier runs | `IncrementalRun` | reused rows are current, the merge covers the dataset |
| Reports of a run (`src/harness.py`, `src/failure_*.py`, `src/recommender.py`) | rows of units that ended, or did not | `RunReport` | rates count what was evaluated, once |
| Artifacts (`api/services/artifact_service.py`, `api/files/`) | a check, slow file work, a second check, an activation in another database | `ArtifactPublication` | what is published is served, nothing deleted returns |
| Uploads (`api/files/service.py`, `store.py`) | rows and bytes without a common transaction; sweeps | `FileStore` | a listed upload has its bytes |
| Cost alerts of the Web (`api/services/cost_alert_service.py`) | a lease, taken over after five minutes | `CostAlert` | one good lease at a time |
| Books (`api/services/cost_service.py`) | reports of several statements while workers commit | `CostBooks` | each amount once, the reports agree, a reached limit stops |
| Advice (`src/cost_optimizer.py`, `src/pareto.py`) | zero and unknown costs | `Advice` | what is advised has a known cost, fits, and is not dominated |
| Evaluation results (`api/services/evaluation_results_service.py`, `src/capability_profiler.py`) | snapshots of a problem that is edited meanwhile | `EvaluationReports` | a unit is reported under the problem it ran |
| Account (`api/auth/store.py`, `service.py`) | a refresh token, quotas, live evaluations | `Account` | a token is exchanged once, no limit is passed |
| Provider keys (`api/auth/`, `api/services/evaluation_options_service.py`) | a key edited while it is checked or listed with | `ProviderKeys` | verified means this secret; a list is of this key |
| Notices (`api/services/in_app_notification_service.py`, `frontend/src/store/notifications.ts`) | overlapping listings and batches | `Notifications` | what is shown has no gap; a batch takes nothing later |
| Monitoring (`api/monitoring/store.py`, `database_metrics.py`) | bounded tables, watermarks, gaps | `Monitoring`, `QueryMetrics` | "complete" has missed nothing |
| Probes (`api/monitoring/{queue_health,queue_probe,containers,probes,readiness}.py`) | one measurement shared by threads, deadlines, malformed replies | `HealthProbes`, `ProbeReplies` | ok means looked at in time, and heard in full |
| Browser session (`frontend/src/auth/`) | one refresh at a time; late answers of another login | `BrowserSession` | a session that ended stays ended |
| Importers (`src/importers/`, `src/main.py`) | rounds of listing and asking with retries, failures that a later round must not tell | `ProblemFetch` | what was not got or not turned is told, by its round |
| File of a dataset (`src/main.py`, `src/importers/base.py`) | loaded, added to, replaced or rewritten in place by commands that overlap and are killed | `DatasetFile` | nothing is lost to a command that nobody disturbed |
| Creation of evaluations (`frontend/src/evaluations/creation.ts`) | operations that are overtaken, answers that are lost | `CreationStore` | created once, never forgotten, never stuck |
| View of an evaluation (`frontend/src/evaluations/observer.ts`, `useEvaluation.ts`) | epochs, timers, sockets; reads that answer late | `Observer`, `EvaluationPage` | what is shown is current and asked for; never silent |
| Celery configuration, HTML reports, progress channel, documentation | see section 7 | - | - |

How they interact. A request of the browser (`BrowserSession`, `CreationStore`)
reaches the evaluation service, which calls the task manager; that commits a task
row linked to the evaluation, within the user's limits (`Account`), and publishes a
message that carries the row's *generation* (`celery_task_id`). A worker takes the
message, takes the evaluation's *execution lock*, claims both rows, opens or resumes
the checkpoint (`TaskService`), brings the database up to it and lets the run engine
execute the units. A unit is a strategy on a problem (`Solve`, `ThoughtTree`); its
calls pass the gate and the recorder (`LLMCall`), the cache (`ResponseCache`) and the
endpoint (`ModelRequest`); its code is put to tests (`SandboxStage`, `BoundedRun`).
Each commit of results stages an artifact (`ArtifactPublication`), may cross an
alert's threshold (`CostAlert`) and stage a notice (`Notifications`), and enters
the books (`CostBooks`, `Advice`, `EvaluationReports`). The page follows through
snapshots and events (`Observer`, `EvaluationPage`). Business tasks and imports take
the same way with weaker guards. The command line calls the run engine directly
(`BudgetedRun`, `IncrementalRun`, `RunReport`); its imports and deduplications share a
dataset's file (`ProblemFetch`, `DatasetFile`).

## 2. Modules

`UnitLedger` is abstract, and `TaskService` is shown to implement it. Every other
module is the detailed model of one component. The runs of `TaskService` and of
`EvaluationLifecycle` need no more than a cfg. `MCTasks` and `MCServices` hold a
*suite* for TLC: several components that share no state, each an `INSTANCE` whose
variables are substituted by `v1`, `v2`, ... The variable `part` names the component a
behaviour is about and never changes, so a run of the suite is the sum of the runs of
its parts, and a property of the suite is a conjunction of implications, one for each
part it speaks of. `MCServices` extends `MCResources`, which holds the instances of the
services whose state is a resource of the owner or of the host, so that proofs about
their steps see no more than they need.

What an action stands for: a step of a component is what its code does between
two points where another actor may come in. A file is read or replaced at once; an
SQL statement, a transaction under `BEGIN IMMEDIATE`, or one that first locks the
row it is about, is one step; JavaScript between two awaits is one step; whatever
follows a network call is another step.

### UnitLedger and TaskService

`disk` is the file, `mem` the runner's record, `cmem` what each `request_cancel` has
loaded. `pc` follows the code of `run`; a save from `run` goes through `merge` (the
load of `_save_with_external_events`) and `save`, and `cont` says where `run` goes on.

* `Create`, `Fail`, `Run(resume)`, `ResumeSave`, `Enter`: the callers in
  `src/harness.py` and `src/tasks/evaluation.py`, and the head of `run`.
* `FinishRun`, `CancelRun`, `PauseRun`, `Proceed`: the head of the loop.
  `pause_when` belongs to the caller, so its answer is nondeterministic.
* `StartUnit`, `Submit`, `StopDispatch`: the dispatch loop. A unit is marked
  running in the file before it is submitted.
* `Poll`, `Collect`, `Collected`: the futures that `wait` returned, one by one.
* `Raise`, `LoadMissing`, `Unwind`, `Join`, `Drain`: every way out of the `try`;
  calls that a pool leaves behind without waiting are counted in `orphans`.
* `CancelLoad`, `CancelSignal`, `CancelSave`: `request_cancel`. A canceller in
  the runner's process sets the shared event; one in another process does not.
* `CleanList`, `CleanDelete`: `harness runs clean`, which asks in between.
* `Crash`: the process dies; the file stays.

The status `cancelled` with `uncertain=True` is one value, `uncertain`. The queue
of `run` is derived: a unit is in it exactly while the runner's record says
`queued`. Results, fingerprints, timestamps and error texts are left out.

`UnitLedger` says of each unit `todo`, `inflight`, `unknown`, `done` or `broken`, and
lets only work without a known outcome be launched again. `TaskService` implements
it through the statuses in the file (`ImplementsLedger`), as long as nobody else
writes the file: with a canceller in another process, finding 1 is exactly how it
does not.

### EvaluationLifecycle

`cancel_task` locks the row, revokes the message and asks the checkpoint to stop
before it commits, so it is `CancelLocked` and `CancelCommit`; in between every other
transaction on the row waits (`Locked`). `enqueue_task` and `resume_task` commit
first and publish later: `Link`/`ResumeTask`, `Send`, `PublishFailed`. A publication
may fail with or without the message delivered. `queue[g]` counts the broker's
messages of generation `g`, those in a worker's hands included (late
acknowledgement). `Repeat` is a visibility timeout, `WorkerCrash` a lost worker,
`Drop` and `Terminate` the two effects of a revocation, `Busy` the retry while
somebody else owns the execution lock, which has no variable: it is a worker's from
the delivery to the end of the task and a client's during `resume_task`. `Load`,
`Claim`, `OpenFile`, `Replay`, `Finish`, `HandleError` follow `run_evaluation_task`;
the run engine is reduced to `RunHead`, `LoopEnd`, `LoopGo`, `Dispatch`, `CallEnd`,
`GiveUp`, with one unit in flight as in the code. A request to cancel that a save of
the runner loses (finding 1) is kept: `CancelLocked` may leave the file unchanged
while a worker is busy. `Recover` is the startup of another API process. A unit
costs one; the user's budget is a pause that may come before any unit.

### The suite of tasks

* `BusinessTask`: `task` is the task row and `row` the business row; messages and Celery's result by
  generation, workers that claim in the database. Requests are carried out in the
  order of the code's transactions (`Carry`), a worker's life is `Work`. Transactions
  lock the task row (and the row) with `FOR UPDATE`, as on the PostgreSQL of
  `docker-compose.yml`. Three parts of a benchmark lock nothing, and each of their reads and
  writes is a step: startup recovery (`RecoverTasks`, `RecoverRows`, `RecoverWrite`;
  `recovery` is what it has read), the end of the task (`PostRow`, `PostTask`) and the
  handler of an exception (`ErrorTask`, `ErrorRow`, `WriteRow`). `overtaken` is a history
  variable: such a write met a task that had moved on since the reading.
* `ImportJob`: `tx` is the business transaction that holds the task row while the
  job is written in the file database; `undo` the restorations that a refused
  commit still owes.

### The suite of services

* `UnitRunner`: `saved`, `listed` on disk, `mem`, `fut` of one execution; polls answer
  for the task row or a reached budget. A checkpoint that is read back lists its
  units in their order (`InOrder`).
* `LLMCall`: per thread a call and the open problem's entry; `failed` is the
  recorder's flag. `ModelRequest`: configurations, prices and questions as model
  values; the cache is a function from keys. `ResponseCache`: a directory of names
  that lead to files, so that two writers of one temporary name and a reader of
  a replaced file are modelled as they happen.
* `Solve`: rounds of a strategy, the votes, the result and the hidden stage.
  `ThoughtTree`: the nodes, the queue or stack, and every call of the search.
* `BoundedRun`: the child and a process it may start, two pipes, two pumps, the
  caller's three checks. `SandboxStage`: a test's command, what it leaves behind, and
  the matching of unordered outputs.
* `BudgetedRun`, `IncrementalRun`, `RunReport`: the command line. A run of
  `IncrementalRun` keeps the version each row was found with, so that what is
  reused can be compared with what the dataset says.
* `ArtifactPublication`, `FileStore`, `CostAlert`: rows, bytes and leases, with the
  faults named in `FaultKinds` and `FileFaults`, each at most once.
* `CostBooks`: jobs of the four kinds commit while a report reads, statement by
  statement. `Advice`: any short history; the advice is a function of it.
  `EvaluationReports`: a problem that is edited while its evaluations stop and go on.
* `Account`, `ProviderKeys`: one action per statement of a request. The rows of the
  quota are those of the days and one of the month; `made` is the history of the calls
  that were admitted, against which the rows are judged.
* `ProblemFetch`: one importer through several rounds (`Fetch`, `Read` or `List`,
  `Obtain`, `GiveUp`, `Transform`, `Report`); what can be made of a problem is its
  `nature`. `DatasetFile`: the directory as two names, the dataset's and the temporary
  one, that lead to files; `OpenTemp`, `WriteTemp`, `Replace` of an import, `LoadRaw`,
  `Merge`, `Rewrite` of a deduplication. `alone` remembers whether another command
  touched a file that this one relied on.
* `Notifications`, `Monitoring`, `QueryMetrics`, `HealthProbes`, `ProbeReplies`: see
  their headers; time is a counter.
* `BrowserSession`, `CreationStore`, `Observer`, `EvaluationPage`: one tab. In
  `Observer` the whole closure is the record `o`, and a callback is a composition of
  operators on it.

A definition whose comment begins with *Slip* is what the code would be with one
plausible mistake in it. No specification uses one; each is there to show that a
property notices the mistake.

## 3. Runs

Properties are in the component's module, preceded by what they mean; those of a
suite name the module's.

| Run | Shows |
|---|---|
| `cancel` | types; the verdict and the count in the file agree with its units, with a canceller in the runner's process, a file deleted under a run and a crash; at most one unit after the event; `run` returns |
| `solo` | without another writer: a launched unit is on file, outcomes and events are kept, no more calls than threads, `UnitLedger` is implemented. (The bound on calls at the return of `run` is conditional on `WaitOnCancel`, which is off here: it is covered by the theorem `ConcurrencyBounded`) |
| `flow` | types; one executor, one charge per unit, whole results, one late call, the cap |
| `verdicts` | with two clients: both rows agree, decisions are final |
| `answered` | every message is run, dropped or refused |
| `tasks` | business tasks and imports: `OneExecutor`, `RowAgrees` (the two rows of a task agree, unless an unlocked write of a benchmark was overtaken, and then the run reads failed), `DatasetFollowsVerdict`, and under fairness `PauseIsConfirmed`, `VerdictReachesTask` |
| `services` | the 30 parts of `MCServices`, see below |
| `CancelIsMerged`, `PublishFailureIsOwn`, `CheckpointIsResumed`, `DuplicateIsHarmless`, `NewerTransitionStays` | findings 1 to 5, each on the smallest instance that shows it |

The properties of `services`, and the modules' properties they consist of:

| Property | Parts |
|---|---|
| `RegistryIsTrue`, `LateFailureIsHarmless` | `ArtifactPublication`: `PublishedIsServed`, `DeletedStaysDeleted`, `GoodStaysPublished`; `FileStore`: `ListedIsStored`; `DatasetFile`: `DatasetIsKept` |
| `LeaseIsExclusive` | `CostAlert` |
| `AccountHolds` | `Account`: `TokenIsSpentOnce`, `QuotaIsKept`, `CapacityIsKept`; `ProviderKeys`: `VerifiedIsAccepted`, `ListIsHonest` |
| `RunIsWhole`, `SavedIsFinal` | `UnitRunner`: `CompletedIsWhole`, `ListedOnce`, `KeepsSaved`; `IncrementalRun`: `ReuseIsSound` |
| `CallsAreCharged` | `LLMCall`: `SpendIsOnFile`, `BudgetIsKept`; `ResponseCache`: `CacheIsSound`; `ModelRequest`: `RequestsAreOwn` |
| `RunIsClean` | `BoundedRun` |
| `ResultIsEarned` | `Solve`; `SandboxStage`: `StageIsHonest`; `ThoughtTree`: `TreeIsSearched`; `RunReport`: `ReportsAreTrue`; `ModelRequest`: `TextIsAnswer` |
| `BudgetIsRespected` | `BudgetedRun`, with `AlertsAreTold`; `CostBooks`: `BooksAreTrue`; `Advice`: `AdviceIsSound` |
| `SessionIsOwn` | `BrowserSession`; `CreationStore`: `LateIsIgnored` |
| `PageIsAlive` | `Observer`: `ShownIsCurrent`, `NeverSilent`; `CreationStore`: `CreatedOnce`, `NotForgotten`, `NeverStuck`; `EvaluationPage`: `ShownIsAsked`, `DeniedIsGone`, `LoadingEnds` |
| `NotesAreTrue` | `Notifications` |
| `CompleteIsComplete` | `Monitoring`; `EvaluationReports`: `ReportsAreTrue`; `HealthProbes`: `ProbesAreHonest`; `ProbeReplies`: `RepliesAreHonest`; `QueryMetrics`: `QueriesAreCounted`; `ProblemFetch`: `FetchIsHonest` |

Bounds, and why they are enough. Every bound limits how often something from
outside happens and appears as a guard; a cfg gives it its value.

| Model | Bounds |
|---|---|
| `TaskService` | `cancel`: 2 units, 2 threads, one canceller in the runner's process, 3 calls of `run`, a crash, a deletion: a stale record needs a run, a resume and a canceller, and an earlier run may leave calls behind. `solo`: 3 units and 2 threads, so that a batch and a full pool differ, 4 calls, 2 crashes |
| `EvaluationLifecycle` | `flow`: 2 units with caps 1 and 3, 2 workers, 2 generations, a crash, an exception, a repeated delivery; `verdicts`: 2 clients, 2 task rows; `answered`: 2 workers and no symmetry |
| `BusinessTask`, `ImportJob` | 2 units, 2 workers, a client, 2 generations; two faults for a business task (the startup of another API process that finds a benchmark without a live task counts as one, `restart`, and one process recovers at a time), one of five kinds for an import: a fault and a repeat are what two deliveries need |
| `ArtifactPublication` | 2 revisions, 3 files, 2 workers, any one fault of seven kinds: an older publication, a newer one and a retry |
| `FileStore` | one upload, two sweeps, one fault; uploads do not meet |
| `CostAlert` | two dispatchers, a lease of 2 ticks, one retry: an owner, and who takes over |
| `Account`, `ProviderKeys` | two requests at once, two days, limits of 1 to 3; two secrets, 4 models in pages of 2 and lists cut at 5 |
| `UnitRunner`, `BudgetedRun` | 3 units on 2 threads, 3 executions, three alert thresholds at most |
| `LLMCall`, `ModelRequest` | two threads, two calls, two attempts; two clients whose endpoints, prices or questions differ, one kept answer, one edit of the price file |
| `ResponseCache` | two users, two keys, one entry of room, three operations of which two may overlap |
| `Solve`, `ThoughtTree` | two codes, three rounds; two branches, depth 2, three levels of score |
| `SandboxStage`, `BoundedRun` | two tests, three items (a matching of three has the augmenting paths that matter); two processes, chunks of 2 against a cap of 2 |
| `IncrementalRun`, `RunReport` | two problems with two versions, three runs, two processes, two events; two problems of a dataset of five, every kind of failure for one of them; of two strategies one has only outcomes of known cost |
| `ProblemFetch`, `DatasetFile` | two problems, one retry, two rounds; two commands, small files, one of them killed |
| `CostBooks`, `Advice` | two commits while a report reads, two records; two combinations and three runs |
| `EvaluationReports` | one problem, two evaluations, one of them with two strategies, one edit, one stop |
| `Notifications`, `Monitoring`, `QueryMetrics` | three notices in pages of one, two requests of the page; two samples or three queries with room for one |
| `HealthProbes`, `ProbeReplies` | three callers that ask in turn, clock 2; three replies of which two are heard |
| `BrowserSession`, `Observer` | two logins, two requests; two evaluations, a reconnection, two recoveries, a mutation |
| `CreationStore`, `EvaluationPage` | two drafts, four operations, two sessions; two pages, two reloads, five reads, two rejections |

`CHECK_DEADLOCK FALSE` is set where the system may stop: all calls have returned and
the bounds on further calls are used up. Workers and clients are symmetric in
`flow` and `verdicts`; runs with liveness use no symmetry.

## 4. Fairness

* `TaskService`: a live runner takes its next step, and a unit's call starts and
  ends, since provider and sandbox calls have timeouts.
* `EvaluationLifecycle`, `BusinessTask`: a request that has begun goes on, a worker
  that has a message goes on (weakly fair, since nobody else can disable their next
  step for ever), and the broker delivers a message that an idle worker can take.
* `ImportJob`: a business transaction ends; requests and workers are strongly fair,
  because they wait for the task row, which transactions take in turn: a database
  grants a lock to who waits for it.

Nobody is required to call anything, to resume, to pause or to crash. The parts of
`services` are checked for safety only; where silence would be the fault
(`NeverSilent`, `NeverStuck`, `LoadingEnds`), it is stated as an invariant: something
that will go on is armed or under way.

## 5. Findings and observations

Each finding is a run that TLC refutes.

1. `CancelIsMerged`: `_save_with_external_events` loads, merges and saves with no
   lock between processes; a request that is saved in between is lost. For the same
   reason an event in the file can be replaced by another one. The property speaks
   of the saves of a run in progress; `fail` (`task_service.py:254`), which loads and
   saves without that merge, loses a request in the same way.
2. `PublishFailureIsOwn`: `enqueue_task` fails the pending row by its id, not by
   its generation. When the publication error of a start arrives late, after
   the message was run, paused and resumed, it fails the resumed task. The
   resume path compares the generation and is not affected.
3. `CheckpointIsResumed`: a worker lost between `create` and the first save of
   `run` leaves a checkpoint that says `queued`. The worker that gets the message
   again neither resumes it nor may create it, and the evaluation fails.
4. `DuplicateIsHarmless`: a duplicate delivery of an A/B test that raises before its
   claim leaves a failure in the result store; the next poll of the task takes
   it over and fails the task that the first delivery executes.
5. `NewerTransitionStays`: `restore_task_status` compares the job's status only: a
   later transition that committed the same status is undone.

Observations: what reading and modelling brought up beside these. None has a run
of its own. Models include the behaviour, or leave it out where the text says so;
a property excludes it where its comment says so.

Tasks and runs
* `request_cancel` after the cancel event was popped creates a new one that nobody
  clears: it cancels the next run (`task_service.py:427`).
* A process that dies between the commit of `enqueue_task` and `send_task` leaves the
  task pending until startup recovery (`task_manager.py:398`).
* Startup recovery of benchmarks reads the live tasks, then the runs, and writes by id
  (`benchmark_service.py:124`): a start, a pause or a verdict that commits in between is
  overwritten in the run by "failed". The exception handler of the worker does the same
  between `_is_paused` and its commit (`benchmark.py:81`). A task that is paused while
  its run says failed can be neither resumed nor cancelled: both refuse by the run.
* `_keep_paused` (`benchmark.py:34`) never finds anything to do: a task that is paused
  has a run that is no longer running.
* The cost of a unit lost in a crash is unknown to the command line's ledger.
* Once a combination raises, queued ones still run (`experiment.py:211`).
* A unit that the budget paused is reused by the next incremental run as if it had been
  evaluated, and a paused incremental run cannot be resumed, since its problem
  filters changed the configuration's fingerprint (`main.py`, `incremental/`).
* The dataset is read twice, for the fingerprint and by the harness; an edit in
  between leaves a history record that does not describe its rows (`torn` in
  `IncrementalRun`). The history is read before the run and written after it: a
  concurrent run's record is lost, and a crash while it is written empties it.
* The importer of local files drops invalid items in the log only, and its command ends
  with 0. An import of which every problem failed writes an empty dataset, which
  `ProblemLoader` then refuses to load.
* Loading for an import drops existing problems that do not satisfy the schema, and
  `merged_from`; the next save makes that final.
* The temporary file of a dataset always has the same name: two imports that overlap
  can leave a torn dataset. A deduplication rewrites the dataset in place.
* `compare_strategies` (`harness.py:1212`) promises the denominator of the strategy
  report, but a paused run's report counts the units that ran.
* `cost_alert.py` says "at most once per run"; a crash between a delivery and
  `_save_state` repeats it.

Money
* A cache hit of an evaluation without an override carries the cost that was
  computed under another evaluation's override (`llm_client.py:281`).
* Two concurrent writes of a budget change only their own columns, so the stored row
  can mix them; two updates of an alert rule can leave a channel without a target
  (`cost_service.py`).
* The spend of a benchmark that failed or is paused is in no report.
* A unit of an evaluation whose cost is unknown is recorded at 0.0 with `cost_unknown`
  (`evaluation.py:886`); the reports read only what the evaluation spent and call
  themselves complete (`cost_service.py:181`, `272`). `CostBooks` has such units;
  `ReportIsTrue` asks completeness of records, benchmarks and jobs, not of these.
* `optimize_budget` promises the cheapest passing combination and takes the one of
  the highest ratio; it divides by the problems of all repeats, and takes the
  difficulties of the first repeat. The optimizer excludes free combinations that
  the frontier prefers.

Strategies, cache, sandbox
* One failed request for branches ends a whole tree search.
* Few-shot retrieval does not exclude the problem's own solution.
* Two writers of one cache key share a temporary name and may leave a torn entry,
  which reads as a miss; two evictions remove more than needed; `clear` raises on
  a file that is already gone; a `get` whose log cannot be moved counts as a miss.
* `_scale_test_cases` uses fields that `TestCase` lacks, so profiling of performance
  is always empty (`sandbox_executor.py:964`).

Files, notices, monitoring
* A failed audit after `add_file` unlinks the bytes and keeps the row
  (`FileStore` marks such uploads `excused`).
* The upload of a paused import may expire, and its resume then fails.
  `create_job` reads the clock before it waits for the lock.
* `loadMore` moves the time that "mark all" and "clear" go by, so they take notices
  that were never listed; a notice whose transaction commits after a later one is
  missed by the pages; one malformed notice refuses the whole page.
* A gap that was not yet written is known to its own process only.
* `QueueProbes.read` takes its child off under one lock and stores the reply under a
  second, so an older reply can replace a newer one (`queue_health.py:136`);
  `NeverBack` excludes this probe, and is false with it.
* A readiness probe that hangs keeps the API not ready, by design.
* Pages of `problem_history` are ordered by a time that is read before the commit, so
  a page may miss a row; a count and its page are two statements.

Account and browser
* Two password changes that verified the same old password both succeed.
* Two tabs that refresh at once: the loser clears the session they share; `logout`
  clears whatever is stored when it ends; a slow answer may restore an older token
  against forged requests.
* The observer resumes when it becomes visible while offline, though
  `openspec/specs/frontend/evaluation-observer/spec.md` says it pauses when hidden or
  offline; a failed recovery stops without `stopObserving`.
* `EvaluationDetailPage` gives `useEvaluation` no way to discard its read when the
  observer is rejected, so a read begun before may be shown after; `DeniedIsGone` is
  about the page of results, and false of the other.
* `retryStart` of `creation.ts` has no caller among the pages.

## 6. Proofs

The theorems hold for every value of the constants that their hypotheses allow, with
the bounds on outside events any numbers. Each rests on an inductive invariant, which
TLC checked on the instances of section 3 before it was proved: `Init` implies it,
every action preserves it (one lemma, or one step of the proof, per action), and it
implies the property. Hypotheses of theorems about an instanced module are stated with
the theorem, since the module assumes nothing of its own.

### TaskService (`TaskService_proofs`)

For every number of units, threads and cancellers, from `ConstantsAssumption`:

| Theorem | Statement |
|---|---|
| `TypeCorrect` | `Spec => []TypeOK` |
| `OneLateUnit` | `Spec => []AtMostOneLateUnit` |
| `ConcurrencyBounded` | `Spec => []BoundedConcurrency` |
| `VerdictSound` | `Spec => []VerdictMatchesUnits` |
| `ProgressExact` | `Spec => []ProgressIsExact` |
| `LaunchHolds` | `Spec => []LaunchedIsOnFile`, with `Cancellers = {}` |
| `OutcomesHold` | `Spec => OutcomesAreKept`, with `Cancellers = {}` |
| `EventsHold` | `Spec => EventsAppendOnly`, with `Cancellers = {}` |
| `LedgerImplemented` | `Spec => ImplementsLedger`, with `Cancellers = {}` and `MaxCleans = 0` |

`VerdictMatchesUnits` and `ProgressIsExact` speak of the file, but every copy
of the record may become the file: the runner's after a merge, and those that
cancellers hold while the file moves on. `RecordInv` therefore states soundness of
all copies, with what the runner's record may look like at each point of `run`; the
lemma `RecordInvElsewhere` disposes of the steps that touch no record, and one
lemma per record operator (`RecountFields`, `PrepareResumeSound`, ...) says what
the operator preserves. `BoundedConcurrency` needs `PoolInv`: what executes is
pending, or the run is on its way out and submits nothing, and `pending` is
below `max_workers` at the submission. `AtMostOneLateUnit` needs `LateInv`: once the
event is set the dispatcher can only be on the one path that is past its check.

The last four need `Cancellers = {}`: with another writer they are false (finding 1
is the counterexample for the file that a canceller overwrites). `SoloInv` says that the
runner's record *continues* the file, event by event and outcome by outcome, and
that the file marks every unit the pool still holds. The refinement also
needs that no record is deleted, for a deletion is no step of the ledger.

### EvaluationLifecycle (`EvaluationLifecycle_proofs`)

| Theorem | Property |
|---|---|
| `TypeCorrect` | `TypeOK` |
| `ExecutorHolds` | `ExecutorIsCurrent` |
| `VerdictsHold` | `VerdictsAgree` |
| `ChargesHold` | `ChargedOnce` |
| `CompletionHolds` | `CompletedIsWhole` |
| `BudgetHolds` | `CapHolds` |
| `StopHolds` | `AtMostOneLateCall` |
| `FinalityHolds` | `DecidedIsFinal` |

From `InvariantHolds`, for any tasks, generations, workers, clients and caps. Its
core is that the execution lock has one owner (`OneOwner`), and that the owner between its
claim and its last transaction holds the generation of the linked task's row (`WorkerHolds`,
`ExecutorInv`, with `RowsInOrder` and `Linkage`), so that whatever was redelivered,
published late or recovered meets a guard that refuses it. Charges and results follow
the checkpoint (`UnitsInv`): a unit is charged when its outcome is confirmed there, and
`Replay` brings the database up to it before anything is called.

### The suite of tasks (`BusinessTask_proofs`, `ImportJob_proofs`, `MCTasks_proofs`)

| Theorem | Statement |
|---|---|
| `BusinessTask_proofs`: `ExecutorAlone`, `RowAgreesAlways` | `OneExecutor`, `RowAgrees` of `BusinessTask`, for finitely many workers; the second with its exception for an overtaken write |
| `ImportJob_proofs`: `VerdictFollowed` | `DatasetFollowsVerdict` of `ImportJob`, for finitely many workers |
| `MCTasks_proofs`: `ExecutorAlone`, `RowsAgree`, `VerdictFollowed` | the same of the suite that the run `tasks` checks |
| `MCTasks_proofs`: `TypesHold` | `TypeOK` of the suite, for `Parts` among the two parts and workers that are finitely many and no clients |

A business task has no execution lock. What replaces it is counted: by
`GensInv` nothing is in flight for a generation that does not exist yet, by `ClaimInv` one
worker at most has claimed a generation, the one that executes the row's, and by `LateInv`
the unit that begins after a stop is the last to begin. `RowAgrees` needs `RunFits`: while
a benchmark runs its units its run says running, unless it was failed behind its back,
and once they are over it does not, so that `_keep_paused` writes nothing. In `ImportJob` there is besides
`TxInv`, what a business transaction that is open may ask of the task row it holds, and
`JobInv`, which ties the job in one database to the task in the other as long as no
second commit was refused. The types need facts of their own (`TypeInv` of both
modules): by `Held` the workers at a generation are no more than the messages that
the broker keeps for it, so that no acknowledgement takes a count below zero; by
`DoneFits` a unit begins only while one is left; by `NobodyAsks` a transaction that
nobody has open asks for nothing. Each kind of fault happens at most once in these models, in
the theorems as in the runs: the proofs cover any number of deliveries, requests and
workers, but no second fault of the same kind.

### The suite of services (`MCResources_proofs`, `MCServices_run_proofs`, `MCServices_page_proofs`)

| Theorem | Property | Hypotheses |
|---|---|---|
| `OneLease` | `LeaseIsExclusive` | a lease lasts at least one tick |
| `CommandIsClean` | `RunIsClean` | the cap is a number, and a chunk a positive one |
| `GoodStaysGood` | `LateFailureIsHarmless` | none |
| `AccountIsKept` | `AccountHolds` | `LimitsAreGiven`, `ListsAreGiven`: limits, days and pages are numbers, evaluations are finitely many, and `nobody` is no request |
| `RegistryHolds` | `RegistryIsTrue` | `FilesAreGiven`, `UploadsAreGiven`: the bounds on files and on time and the two limits of age are numbers, and `nobody` is neither a worker nor a cleanup; `CommandsAreGiven`: commands on a dataset are finitely many, and none is 0, who wrote what is there at first |
| `SavedOnce` | `SavedIsFinal` | `RunnerIsGiven`: the number of units, and the kinds of runs that the code knows |
| `RunsAreWhole` | `RunIsWhole` | `RunnerIsGiven`, and `BoundsAreGiven`: the bounds on runs and versions are numbers |
| `CallsAreOnFile` | `CallsAreCharged` | `CallsAreGiven`: limits are numbers, the one of tokens a positive one; `CacheIsGiven`: the limit of the cache is a number, users and keys are finitely many |
| `SessionIsOurs` | `SessionIsOwn` | none |
| `PagesAreAlive` | `PageIsAlive` | `DraftsAreGiven`: operations are counted by a number, and a session begins with its first draft, which is not 0, the name of none; `ReadsAreGiven`: reads are counted by a number |
| `NoticesAreTrue` | `NotesAreTrue` | `InboxIsGiven`: pages hold something, notices are finitely many positive numbers, the first of them those that stand from the beginning |

The first module says what the steps of the resources keep (the rows that runs reuse
among them), service by service, and proves no theorem about behaviours. The second,
which extends it, proves those, and what the runner and the calls of a run keep; the
third holds the theorems about the browser (`SessionIsOurs`, `PagesAreAlive`).
`part` never changes, so the invariant of each part is proved by itself, as
`part = "..." => ...`, and every other part's step is a stutter of it.

* `OneLease`: who is about to claim has seen no event, or a claim that is older than a
  lease, and dates its own no later than now (`AlertLooksBack`).
* `CommandIsClean`: pumps read what was written and not yet read (`PumpsAreTrue`), and
  the caller returns only past the points where everybody has ended (`CallerIsTrue`).
* `AccountIsKept`: the calls that were admitted have numbers of their own, all below
  their count (`Numbered`), and who is about to insert an evaluation holds the admission
  lock and has room for it (`RoomIsHeld`); what a request goes by is a secret that was
  on file, and what it records or lists is not older than what it read (`KeysAreFair`).
* `RegistryHolds`, publication: the file the registry points at is there unless its
  owner has deleted it, and is what was staged of the present revision (`RegistryFits`);
  what a publisher has read is what was staged of the revision it goes by, for as long as
  that is the present one, and who has committed to the registry and still holds the lock
  finds it at the present revision (`PublisherFits`). Uploads: what is listed is stored, or
  a cleanup has just unlinked it and will say so (`FileFits`); what a cleanup has found
  stays doomed while it holds the lock, since no import begins without that lock, and an
  orphan stays one, since its upload is over (`SweepFits`). Dataset: whatever a command
  has computed satisfies what it promises (`CommandFits`), and a command that nobody
  disturbed finds on disk what it read, then what it wrote (`AloneFinds`); for the others,
  a torn file has a command that explains it (`TornFits`). The files a dataset may begin
  with and the batches that are imported are those of `DatasetSeeds` and `DatasetBatches`,
  in the theorem as in the run.
* `SavedOnce`, `RunsAreWhole`, runner: what is listed is saved, a thread only has what
  is not, and a verdict is given after every unit was collected or left out
  (`UnitsAreTrue`, `VerdictIsTrue`). Reuse: everybody who names a run, the job that is
  at it, a paused one, an entry of the history on disk or as it was read, names it
  alike, and the rows of its directory are that run's (`HoldersAgree`); a job's old
  rows cover all that did not change and nothing else (`JobsAreTrue`).
* `CallsAreOnFile`, calls: an attempt without a row is one that is about to be saved, or
  it was lost and closed the gate for everybody (`RowsFit`), and a call that passed the
  gate was within the limits when it did (`GateFits`). Requests: two requests with one
  key are sent alike (`KeyTells`), since the key holds the provider, its address and
  every parameter but the deadline. Cache: names lead to files of their own
  (`NamesFit`); of a set that nobody disturbed it is known what it has made at each of
  its steps (`LoneFits`), and that its own access is the newest of the log, so that
  the eviction it starts spares its entry (`OwnIsKept`).
* `SessionIsOurs`: in the browser the token on file is the present login's, a refresh
  is due only for a login, and nobody waits for one that is not in flight
  (`BrowserGood`); among the promises of the creation pages, operations that have not
  begun have nothing under way (`Begun`), so a promise that is not the latest writes
  nothing on the page.
* `PagesAreAlive`, observer: who looks has an answer to hear, a mutation that will end,
  or a timer (`IsAwake`), and does not count on an aborted answer or a socket that is
  gone (`IsHeld`). Creation: of a draft one request to create it is under way at most
  (`OnePost`), and while the page says that something is under way an operation is, and
  has not ended (`MarksFit`). View: of what the page is rendered for, the data are there
  or a read under way will be heard (`RenderIsServed`), and what is kept came after the
  last rejection (`KeptIsAllowed`).
* `NoticesAreTrue`: `ShownIsTrue` and `RequestsAreTrue` say, of what is shown and of
  every answer under way, that it lists whatever was there between its ends, at the time
  it was read; a later answer is taken or dropped as a whole.

Lemmas on finite sets of numbers carry much of it: `OrderExists` (such a set can be
listed in order) and `EndsExist` (it has a least and a greatest member).

### What is only model-checked

* `TypeOK` of `MCServices`; the parts' invariants above type what each proof needs.
* `ResultIsEarned`, `BudgetIsRespected` and `CompleteIsComplete`:
  conjunctions over fourteen parts. Several of them compute with the contents of sequences
  and with sums over sets (the text of an answer, the totals of the books, the rates of
  a report), which needs induction over data; no inductive invariant was proved for
  the others.
* Liveness (`RunReturns`, `MessagesAreAnswered`, `PauseIsConfirmed`,
  `VerdictReachesTask`): fairness and `ENABLED` are beyond the proof system.
* What a recursive function computes for every input, as the matching of unordered
  outputs in `SandboxStage`: induction over data is beyond the provers.
* The five properties of section 5 are false, and TLC shows how.

## 7. Not modelled

* Documentation, the texts and schemas of `api/documentation.py`, `src/models.py`,
  the translations and the pages' markup: they have no control flow of their own.
* HTML or markdown reports, and what an importer makes of a text: they transform the
  data of one process.
* The progress channel (Redis): best effort; nothing depends on it but the browser,
  which falls back to snapshots (`Observer`).
* Listings, filters and exports of the services, beyond those whose statements
  are read while others write (`CostBooks`, `EvaluationReports`, `Notifications`).
* Registration, passwords, the profile and the audit log: one statement each.
* Extraction of code, prompts, traces, the parsing of answers: choices of their
  outcome in `Solve` and `ThoughtTree`.
* Windows job objects and the feeding of standard input; the health check of Docker.
* The command line's parsing and the commands that only print.
* Host resources and the download of logs in `api/monitoring`.
* Two tabs of one browser: `BrowserSession` is one tab, and `Account` the server's
  side of what two would do.
* Celery's routing and beat schedule: configuration. Late acknowledgement,
  rejection on a lost worker, redelivery and revocation are part of the tasks' models.

## 8. Plan

The model follows the code as it is; a change of the code begins with the definition
that the map names. Theorems that are worth proving next, in this order:
of `BudgetIsRespected` the part of `BudgetedRun`, of `ResultIsEarned` those of `Solve` and
`SandboxStage` that hold no sum, and of `CompleteIsComplete` that of `ProbeReplies`.
