# A TLA+ model of PEPA's background work

PEPA is a developer platform: a REST API (`src/cmd/api-server`), a worker
process (`src/cmd/worker`), plugins that talk to Git hosts, clusters and chat
systems, and a web front end. PostgreSQL holds the state, Redis carries jobs
and events. What is hard to get right, and hard to test, is what happens
between a request and its effect: jobs that wait, are retried and are lost;
workflows whose steps run in parallel; deployments, batches, scans and
pipelines that are cancelled, edited or started again while somebody is still
carrying them out. This project models that part, checks it with TLC and proves
most of its safety with TLAPS.

1. [The system](#1-the-system)
2. [The modules](#2-the-modules)
3. [The runs](#3-the-runs)
4. [The proofs](#4-the-proofs)
5. [Where the code departs from what it says](#5-where-the-code-departs-from-what-it-says)
6. [What is not modelled](#6-what-is-not-modelled)
7. [Plan](#7-plan)

## 1. The system

### Components

| component | state it keeps | operations | correct when |
|---|---|---|---|
| Job queue (`internal/queue`) | Redis list `pepa:jobs`, sorted set `pepa:jobs:delayed`, list `pepa:jobs:dead`, a dedup entry per idempotency key | `Enqueue`, `EnqueueWithDelay`, the `Unique` variants, `EnqueueJobWithDelay`, `MoveToDeadLetter`, `PromoteDelayedJobs` | a job is in one place at a time, keeps its backoff, and disappears only when something fails; one key pushes once per window |
| Worker loop (`cmd/worker/main.go`) | the job each goroutine has popped; a context that SIGTERM cancels | pop, run, retry with backoff, dead-letter, promote, shut down | a job is attempted at most 1 + 3 times and ends done or dead; a graceful shutdown loses nothing |
| Workflow engine (`internal/workflow`) | `workflow_executions.status`; per attempt the map of step results | sort the steps, run levels of parallel goroutines, decide on `run_when` and `skip_when`, record the result | dependencies are settled first; failures stop exactly the steps they should; the recorded status is that of the steps and of the job |
| Deployment service and handlers (`internal/service`, `internal/api/rest`) | `deployments.status` | create, deploy, cancel, promote, approve, roll back, sync, remove | a row says released only after a health check and rolled back only after a rollback; nothing stays in progress; a cancel counts |
| Batch operations (`devops_handlers.go`) | `batch_operations.status` and counters | create, execute in a goroutine, cancel | each service is deployed once, none is forgotten, the counters say what was done, a cancel stops the loop |
| Security scans (`internal/security/scanner.go`, `scheduler.go`) | `scan_runs`, a semaphore, a map of cancel functions, `scan_schedules` | loop, run due schedules, trigger, cancel, edit | no slot leaks, a cancel in time counts, a due schedule is served, an edit survives |
| Drift scheduler (`internal/gitops/drift_scheduler.go`) | `drift_schedules` rows, a timer, a reload channel | loop, run due schedules in goroutines, manual run, edit | the same of a schedule |
| Event bus (`internal/events/bus.go`) | handlers, a channel of eight, eight dispatchers, a dead-letter list | publish, subscribe, dispatch, stop | events are handed out in order; each is dispatched, dead-lettered or lost by a fault, and none waits for ever |
| Outbox (`internal/events/outbox_relay.go`) | `outbox_events` rows with a retry count | insert in a transaction, relay, mark, clean up | at least once, and only after the transaction committed |
| Plugin manager and registry (`internal/plugin/engine`, `internal/provider`) | a table of plugin processes, a table of providers, the rows | start up, load, unload, enable, disable, configure, execute | no process is left behind; the tables agree; a call fails only when the plugin is unloaded under it or crashes |
| CI/CD pipelines (`pipeline_handlers.go`, `internal/pipeline`) | `pipeline_runs` rows, the adapters' tables of local runs | trigger in a goroutine, refresh, cancel, sync | one row per run; a row claims only what its run did; an end is announced |
| Login rate limiter (`internal/auth/rate_limiter.go`) | failures per key with two deadlines | allow, fail, succeed, clean up | a key with too many failures in the window is locked for the lockout |
| SSE hub (`sse_handlers.go`) | set of at most 200 clients, a buffer of 64 each | add, remove, broadcast | bounded; no client of another tenant receives an event |

`PROJECT.json` lists these and the remaining parts (GitOps scanner, AI assistant,
accounts and roles, clients of Kubernetes and Docker, repositories, storage,
plugins, CLI, front end) with the reason each is or is not modelled.

### How they interact

    handler --INSERT--> row (pending)          [workflow_executions, deployments]
    handler --LPUSH---> pepa:jobs --BRPOP--> worker --> Engine.Execute
                            ^                   |   \-> PerformDeployment
             promoter (Lua) |                   | error or panic
                            +-- :delayed <--ZADD+ retries < 3
                                :dead    <--LPUSH otherwise
    Engine.executeDeploy --go--> PerformDeployment         (outlives the step)
    createDeployment     --go--> PerformDeployment         (when Enqueue fails)
    manualDeploy, completePromotion --go--> triggerGitOpsSync
    cancel, promote, approve, rollback, remove --UPDATE--> deployments.status
    ExecuteBatchOperation --go--> loop: INSERT deployment, Enqueue
                                        (or --go--> PerformDeployment)
    scheduler loop --go--> RunScan / detection --UPDATE--> the whole schedule row
    triggerPipelineRun --go--> adapter.Trigger --UPDATE--> pipeline_runs
    refresh, cancel, sync --adapter--> CI system,  --UPDATE--> pipeline_runs
    handlers, goroutines --PUBLISH--> pepa:events --> Bus --> handlers
    OutboxRelay: outbox_events --PUBLISH--> pepa:events
    plugin handlers --> plugins row, then Manager, then Registry --> subprocess

Rows and jobs are written by separate calls, none of them in one transaction.
The parts share no memory: they meet in the job's `Retries` field, in the status
columns and in Redis. That is why there is one module for each, with the others
reduced to what it sees of them: the engine and the deployment see a job that is
popped, requeued or dead-lettered, which `JobQueue` is proved to be able to
promise (`JobLifecycle`); the batch sees a deployment that it enqueued.

### What makes it hard

* `BRPOP` removes a job before it is run; from then on the job exists only in a
  goroutine, until the requeue or dead-letter call, which may fail.
* Every process has its own promoter over the same sorted set.
* The shutdown signal cancels a context that the loop looks at once per turn,
  that the queue does not use and that the engine's final writes do use.
* The steps of a level decide on a shared map while their siblings write it.
* Most writers of a status column (deployments, batches, scan runs, schedules,
  pipeline runs) read the row, work for minutes, and write the whole of it back
  without looking again.
* A plugin's state is in three tables that are changed one after the other, each
  under its own lock, by handlers and a start-up that run at the same time.
* CI systems answer late, start runs nobody asked for here, and forget.

The list of hazards with their lines is in `PROJECT.json`; each names the
properties that would catch it, or says why none does.

## 2. The modules

A component's module has its state, one action per operation, handler or step,
and its properties; `MC...` gives it to TLC; `...Proofs` holds the theorems. An
operator whose comment says "a slip" is not part of the specification: it is a
plausible mistake in the definition after it, against which `PROJECT.json`
tests the properties. In every module `Fault` bounds failed calls and deaths of
processes by `MaxFaults`, and variables marked "history" only record what
happened for a property to speak of.

### JobLifecycle

The abstract life of a job: new, waiting, running, then done, dead after exactly
`1 + MaxRetries` attempts, or lost while it was being attempted. `JobQueue` and
`WorkflowEngine` implement it; `LifecycleSpec` of each is that refinement.

### JobQueue, MCJobQueue, JobQueueProofs

`queue` is the list (its head is the end `BRPOP` takes from), `delayed` the
sorted set. A member's score is kept as the `delay` it was put in with and the
`age` since then, so that states do not depend on absolute time; one tick is ten
seconds, the unit of the backoff. `pc` and `holding` are the loop of
`runWorker`: `Poll`/`Exit` is the look at the context, `Pop`, `PopTimeout` and
`PopError` what `BRPOP` does, `Succeed`, `Requeue`, `DeadLetter` and
`SettleError` what follows `processJob`. A panic that `runWorker` recovers
takes the same branch as an error, so both are `Requeue` or `DeadLetter`.
`Promote` is one run of the Lua script, atomic in Redis, over the members that
are due, in any order their equal scores allow. `Shutdown`, `Crash` and
`Restart` act on a whole process. A member is the
job's JSON, which the job id keeps apart from every other.

### UniqueEnqueue, MCUniqueEnqueue (proofs in JobQueueProofs)

`EnqueueUnique`: SETNX of the key with its time to live (`TakeKey`,
`SkipDuplicate`, `DedupError`), then the push (`Push`, `PushError`), as separate
steps of racing callers, with `Die` in between. `marker` is the remaining life of
a key's entry, `since` the time since a job with the key was pushed. `MaxLatency`
bounds how long a call may hang between its two Redis calls.

### WorkflowSteps, WorkflowDag, MCWorkflowDag (proofs in WorkflowProofs)

`WorkflowSteps` holds what a workflow's graph means: `LevelOf(deps, k)` is the set
of steps whose dependencies all lie in the levels below, `Cyclic` that some
steps are in none. `WorkflowDag` is `buildDAG` one loop iteration at a time, on the list the
user wrote (empty and repeated names, unknown and repeated dependencies), and is
checked, and proved, against that reference.

### WorkflowEngine, MCWorkflowEngine, WorkflowProofs

One execution: `CreateExecution` and `EnqueueJob` are the handler, `Pop` to
`DeadLetter` the worker, the rest `Execute`. `phase` is where the worker is:
`MarkRunning`, `LoadSteps` (a cyclic graph or a failed call leads to `Reject`,
the deferred handler), `StartLevel` per level, `Finish`. A step's goroutine is
`Decide` (reads the shared results, `executeStepWithConditions`), `Act`
(`executeStep`; an approval stores `waiting` and fails) and `WriteResult` (under
`resultsMu`). `CallFails` and `Persist` carry the context: after `Shutdown` every
database call of the attempt fails, and ignored errors stay ignored.
`MapRaceFatal` is what the Go runtime may do about two goroutines in the map at
once. The code of a step may panic: in a level of one step `runWorker` recovers
that and treats the job as after an error, while `Execute`, unwound, records
nothing (`PanicRecovered`; `panicked` is history); in a larger level nothing
recovers it and the process ends (`PanicFatal`). `Restart` starts the process again when its worker has left.

### DeploymentLifecycle, MCDeploymentLifecycle, DeploymentProofs

The status of one row and everybody who writes it. `pc` has the job's worker,
the goroutine that runs `PerformDeployment` without a job, and the goroutine of
`triggerGitOpsSync`; `Start` to `ObserveCancel` are `PerformDeployment` between
its database and cluster calls. `Requeue`, `DeadLetter` and `Pop` are what the
queue does to the job. `request` has concurrent promote, approve and rollback
requests, each between its read and its writes; `Cancel` and `Remove` are single
statements. `Write` is a read-modify-write whose error is only logged; it does
nothing to a row that is gone. `healthy` and `undone` record what was seen of the
cluster. The row has a target cluster. The rows that operations on one row create
are further instances, and `origin` says which: a promotion's row is deployed by a
sync (`ManualDeploy`); a retry's copy is enqueued like a new row but is stored as
`error` when that fails (`EnqueueRetryError`, `RefuseRetry`); the row a rollback
inserts starts as deployed, with nobody to carry it out (`Restore`). `Checked` are
the rows whose release `PerformDeployment` reports. `Panic` is a panic of
`PerformDeployment` that `runWorker` recovers; one in a goroutine is `Lose`.

### BatchOperation, MCBatchOperation, BatchProofs

One row of `batch_operations`. An execution is `ReadRow` (the handler's read and
its test of the status), `MarkRunning`, then per service `Ask` (the second look at
the status, which is what a cancel has to reach), `FindTemplate`,
`CreateDeployment` and `Enqueue` (which falls back to a goroutine, `direct`), and
`Finish`. `deploy` says what an execution made of each service, the counters what
it reports. `late` and `cancel` tell what was done since the last cancel, `raced`
whether an execution read the row while another was between its own read and
its mark.

### ScanRuns, ScanScheduler, MCScanScheduler, ScanSchedulerProofs

`ScanRuns` is the life of a scan: the wait for a slot of `s.sem` (`Acquire`), the
row, the cancel function in the map, the scan itself, and `CancelScan`, which calls
the function, if it is there, and then writes the row back from a copy.
`ScanScheduler` composes it with one schedule: the loop hands every due row, as
it was read, to a goroutine (`ProcessDue`), which advances `next_run_at` by
storing the whole row when its run is over (`WriteBack`), while requests edit
and delete the row (`EditRead`, `EditWrite`, `Delete`). Both schedulers of the code have this
shape; `kind` says which it is. A drift detection is one step and its
last write is made under the loop's context, which `Shutdown` cancels. `wanted`
and `alone` record what the last edit stored and whether anybody held a copy.

### EventDelivery

What the event system promises: an event waits until it is handed to the
handlers, oldest first, or becomes a dead letter, or is lost; a row of the outbox
is marked, and later deleted, only after its event was published at least once.
`OutboxRelay` implements it on top of `EventBus`: `Fate` forgets where in the
channel or with which worker a message is, `DeliverySpec` is the refinement.

### EventBus, OutboxRelay, MCOutboxRelay, OutboxRelayProofs

`EventBus` numbers the messages in the order Redis took them; `place` says where
each is: on the wire, in the channel, with a worker, with a worker whose handler
hangs, done, dead-lettered or lost. `Enqueue`, `TimeOut`, `Take`, `Dispatch` and
`Hang` are the goroutines' steps, `Disconnect`, `Stop`, `Exit` and `Restart` what
befalls them. `OutboxRelay` adds the rows, the relay's transaction
(`FetchUnpublished`, one `PublishEvent` or `PublishError` per row,
`BatchMarkPublished`) and the cleanup. Nothing in the repository starts the relay
yet: the module says what happens when something does.

### PluginTables, MCPluginTables, PluginTablesProofs

One plugin in three tables: `row`, the manager's `process`, the registry's
`entry`. The handlers (`op`) and the start-up (`Boot`) walk through the places of
`pc`, each operation of the manager and the registry being one step, for it holds
the table's lock; entries and processes are numbered, since a handler keeps a
pointer to what it looked up. A call looks the entry up and executes on it in two
steps. `Crash` ends a subprocess from outside: nothing watches it, so both tables
keep it (`unkilled` are the subprocesses started and not killed, `crashed` those
that ended by themselves). `overlap` says that an actor started while another was at work, `cut`
which calls an unload came upon.

### PipelineRuns, MCPipelineRuns, PipelineProofs

The rows of one pipeline source. A trigger inserts its row and leaves a goroutine
(`Create`, `Send`, `Answer` or `TriggerFails`, `Record`, `Announce`, with
`Deadline` for the thirty minutes it has and `StatementFails` for a read that ends
it or an update whose error it ignores); requests refresh, cancel and sync with
the copy of the row they read (`AskStatus`, `AskCancel`, `ListRemote`, then `Save`
or `Sync`). `remote` is the CI system, which is external: it starts, runs, ends and
forgets. What each adapter makes of it is `GitLabReplies`, `JenkinsReplies`,
`LocalReplies`, `GitHubReplies`, `ItemOrBuild`, `StatusReply`, `StateAfterCancel`
and `Listed`. A row's external id is kept by what it names: a run, a Jenkins
queue item, GitHub's "no run found", or nothing. Publishing cannot fail in the
model, for its error is ignored: announced means handed to the event bus. A row
that a sync wrote counts as reported, since syncs announce nothing.

## 3. The runs

Passing runs, each with the question it answers:

| run | module, configuration | what it shows | states |
|---|---|---|---|
| `jobqueue_safety` | MCJobQueue, `_safety` | TypeOK, OnePlace, RetryBudget, BackoffElapsed, LostOnlyByFault and LifecycleSpec, the refinement of JobLifecycle, with the code's three retries, crashes, Redis failures and a shutdown; two of the three goroutines share a process, so that a crash can lose two jobs at once | 1,171,503 |
| `jobqueue_settled` | MCJobQueue, `_settled` | EventuallySettled: without faults, but across a shutdown and restart, every job ends done or dead | 31,508 |
| `unique_window` | MCUniqueEnqueue, `_window` | DedupInv, OnePerWindow: two pushes of one key are a window less a call's latency apart, three racing callers, two keys | 34,471 |
| `workflow_dag` | MCWorkflowDag | SortInv, MatchesReference, AlwaysDecides: the sort ends, rejects exactly the malformed and cyclic inputs, and its levels are the reference's | 10,521 |
| `engine_safety` | MCWorkflowEngine, `_safety` | EngineInv, NoActionAfterFailedDependency, FailureHandlersRun, SuccessIsFinal, StatusMatchesJob, LifecycleSpec, and ExecutionSettles: what the steps may do, what the row says, and that it says so in the end | 238,963 |
| `deployment_safety` | MCDeploymentLifecycle, `_safety` | IInv, NotLeftInProgress, CancelStopsAttempt, ReleasedStaysReleased, DeploymentSettles: what the row's status may claim, whoever created it, and that it leaves progress | 169,835 |
| `batch_operation` | MCBatchOperation | IInv, CancelStops, BatchSettles: the counters agree with the rows, no row is forgotten, the batch is deployed twice only after the one race, a cancel lets one more deployment through at most, a batch that runs ends | 800,156 |
| `scan_runs` | MCScanScheduler, `_runs` | IInv, CancelInTimeSticks, EditSticksWhenAlone, DueIsServed: slots and cancel functions are not leaked, a cancel that found the function is not lost, an edit is undone only by a holder of a copy, a due schedule is served | 1,584,264 |
| `event_delivery` | MCOutboxRelay | IInv, DeliverySpec, EveryEventSettles, OutboxDrains: bounds, the refinement of EventDelivery (order, at least once), and nothing waits for ever | 190,499 |
| `plugin_tables` | MCPluginTables | IInv, TablesAgree: no process is left behind, dead entries and failed calls need two actors at once, an unload or a crash of the plugin, and the tables agree when each worked alone | 4,166,216 |
| `pipeline_runs` | MCPipelineRuns | IInv, OutcomeAnnounced, TriggerRecorded: one row per run, rows claim only real outcomes, ends are announced, replies are stored unless a deadline, a failed statement or another row with the id is in the way | 4,408,027 |

One run that TLC must find violated: `deployment_cancel` (section 5).

For every property of a passing run `PROJECT.json` names a mutant: an operator
of the module, introduced as "a slip", that changes one definition the way a
plausible bug would and makes the property fail.

### Bounds

* **Jobs and workers: two jobs, three workers.** Every property of the queue is about one
  job or about two jobs, or two workers, that collide; two jobs also give the
  list an order. The proofs cover any number.
* **Retries.** Three, as in the code, where the retry count is the subject
  (`jobqueue_safety`); two or one elsewhere, where what matters is a first attempt, a
  retry, and running out of them.
* **Ages** up to nine ticks: the longest backoff is 3 x 3 x 10 s.
* **Faults.** Two where a fault may hit both actors or two calls, one where a
  single one already leads into every error path. What must happen without faults
  is stated as "as long as there are none" or checked without any. **Shutdowns:**
  one, with the restart after it. The panics of steps in `WorkflowEngine` are not
  bounded but by the retries; a panic of `PerformDeployment` counts as a fault, for
  it leaves the row as a failed write does. `PipelineRuns` has no such bound: its
  deadlines, failed statements, failed requests and restarts are unlimited.
* **Dedup window** of six ticks of ten seconds and a call latency of one tick:
  calls straddle the end of the window.
* **Workflows.** Two steps with any names, three steps with up to two dependency
  entries (`workflow_dag`): that includes repeated entries, unknown names,
  self-loops, and cycles of two and three. `engine_safety` runs chains, forks, joins,
  independent steps and cycles of three steps, the middle one plain with any
  `run_when` and `skip_when` or an approval, the last one with any `run_when`.
* **Requests** on a deployment: two, since each property is about two requests
  that read the same status.
* **Batches** of three services, of which each has a template with a cluster, one
  without, or none: a first, a middle and a last turn of the loop; two executions.
* **Scans.** Two of the schedule and a manual one on one slot, so that one waits
  while one runs; one cancel, one edit, both schedulers.
* **Events.** Seven messages: two with the workers, two in the channel, one in
  the reader's hands, and two more behind it; three of them are published
  directly, the rest come from two rows with two tries each.
* **Plugins.** Two requests of any kind, the start-up and a call, from every row that an
  earlier process can have left, and one crash: each property is about the one
  subprocess that the manager or an entry leads to.
* **Pipelines.** Two runs on the CI system, one of them somebody else's, one
  trigger, two requests that are used over and over, each of the four kinds of
  source.

Symmetry is used in `jobqueue_safety` (jobs, the goroutines of one process),
`unique_window` (callers, keys), `plugin_tables` (requests) and `pipeline_runs` (runs,
requests); none of
these runs checks liveness. Deadlock is not checked where the system may come to
rest: all jobs settled, the workflow finished, the deployment over, every
request used, with the fault and shutdown bounds used up.

### Fairness

Only what the code schedules by itself is fair, and all fairness is weak.

* **Queue.** The clock ticks; a live promoter
  has a five-second ticker (`main.go:416-431`); a worker goroutine goes round its
  loop, and `BRPOP` answers nil after five seconds (`main.go:149`); Redis gives a
  pushed job to some blocked client, not to a given one, so `Pop` is fair only
  for the workers together; a stopped process comes back because the compose files
  say `restart: unless-stopped`.
* **Engine and deployment.** Handlers return because their calls run under
  timeouts. A handler that has inserted its row goes on to enqueue the job (for
  ExecutionSettles and DeploymentSettles, which speak of behaviours without
  faults: `executeWorkflow` drops the error of that call, so with a fault the row
  does stay pending).
* **Batch.** Each execution's goroutine takes its next step.
* **Scans.** The loop looks at what is due (its sleep is capped), each scan's or
  detection's goroutine goes on, a stopped process is started again.
* **Events.** The steps the bus takes with each message, the relay's ticker, the
  restart, and the end of a process that is stopping. A handler that hangs does
  so for ever.
* `PluginTables` and `PipelineRuns` assume none and have no liveness properties.

Producers, users, faults, shutdowns, cancellations, CI systems and the success of
an attempt are never fair.

## 4. The proofs

All theorems hold for every value of the constants that the modules' assumptions
allow: any jobs, workers, requests, runs, messages, retries and faults. Every
module that is proved about has one inductive invariant, checked by its run
before it was proved: `IInv`, and where one proof module serves two modules
`DedupInv`, `EngineInv` (whose inductive part is `CoreInv`) and `DagInv`; that of
`JobQueue` is defined next to its proof. `Spec => []IInv` is then `Init => IInv`, one lemma per action or group of actions
that it preserves the conjuncts it can disturb, and a last step that splits
`Next`; what else is listed follows from `IInv` or is proved on top of it.

| theorem | statement |
|---|---|
| **JobQueueProofs** `TypeCorrect`, `JobInOnePlace`, `RetriesCountAttempts`, `BackoffRespected`, `LossNeedsFault` | `Spec => []` of TypeOK, OnePlace, RetryBudget, BackoffElapsed, LostOnlyByFault |
| `ImplementsLifecycle` | `Spec => LifecycleSpec`: the queue implements `JobLifecycle` |
| `UniqueInvariance`, `WindowKept` (of `UniqueEnqueue`) | `[]DedupInv`, `OnePerWindow` |
| **WorkflowProofs** `EngineInvariance`, `FailureStopsDependents`, `SuccessStays`, `StatusAgreesWithJob`, `HandlersRun` | `[]EngineInv`, `[]NoActionAfterFailedDependency`, `[]SuccessIsFinal`, `[]StatusMatchesJob`, `FailureHandlersRun` |
| `EngineImplementsLifecycle` | `Spec => LifecycleSpec`: an execution's job implements `JobLifecycle` |
| `CountersExact`, `SortsLikeReference`, `RoundsBounded` (of `WorkflowDag`) | `[]SortInv`, `[]MatchesReference`, and that the sort goes round at most once per step |
| **DeploymentProofs** `DeploymentInvariance`, `ReleasesAreReal`, `LeavesProgress`, `CancelStops`, `ReleasesStay` | `[]IInv`, `[](ReleasedMeansHealthy /\ RolledBackMeansUndone)`, `[]NotLeftInProgress`, `[]CancelStopsAttempt`, `ReleasedStaysReleased` |
| **BatchProofs** `BatchInvariance`, `DeploysOnce`, `CancelStopsBatch` | `[]IInv`, `[]DeployedOnceUnlessRaced`, `[]CancelStops` |
| **ScanSchedulerProofs** `ScanInvariance`, `CancelSticksInTime`, `SlotLimit`, `EditsStick` | `[]IInv`, `[]CancelInTimeSticks`, `[]SlotsInUse`, `[]EditSticksWhenAlone` |
| **OutboxRelayProofs** `RelayInvariance`, `HandsInOrder`, `AtLeastOnce` | `[]IInv`, `[]HandedInOrder`, `[]MarkedWasPublished` |
| `DeliversAsPromised` | `Spec => DeliverySpec`: relay and bus implement `EventDelivery` |
| **PluginTablesProofs** `PluginInvariance`, `TablesAgreement`, `OneProcess`, `EntriesLive`, `CallsSurvive` | `[]IInv`, `[]TablesAgree`, `[]NoProcessLeftBehind`, `[]DeadEntryNeedsOverlap`, `[]CallFailsOnlyAtUnload` |
| **PipelineProofs** `PipelineInvariance`, `OutcomesAnnounced`, `TriggersRecorded` | `[]IInv`, `[]OutcomeAnnounced`, `[]TriggerRecorded` |

The assumptions are those the modules declare: distinct kinds of actors are
disjoint, bounds are natural numbers, and, for the queue, every delay and backoff
fits the ages counted (`AgeAssumption`, without which a job could wait for ever).

Why the properties alone are not inductive, and what is added:

* **JobQueue.** That a worker which settles holds a job at all has to come from where
  it is in its loop: `RunningHolds`. The lemmas `RangeOfAppend`, `RangeOfTail` and
  `RangeOfConcat` say what the list operations do to the set of queued jobs and
  that they keep it free of repetitions. `RetryBudget` is inductive on top of that;
  `BackoffElapsed` needs `DelayCoversBackoff`, since promotion looks at the delay
  and not at the retry count. The refinement maps every step to the step of
  `JobLifecycle` of the same meaning, or to a stutter.
* **UniqueEnqueue.** A key's entry and the call that took it age together
  (`EntryAgesWithCall`), and when an entry is gone the window since the last push is
  over but for the latency of that push (`WindowCovered`).
* **WorkflowDag.** The counters say how many entries are unplaced; that the steps
  placed after k rounds are those the reference finishes in k rounds
  (`PlacedIsFinished`) is what makes the next level the reference's. The
  reference is a recursive function of the round, and the library's induction
  theorem is out of reach: `FinishedByDef` gets its defining equation by hand, by
  showing that two functions on initial parts of the numbers that obey the equation
  agree (`AllNumbers`: a least number where they differ would contradict it) and
  that every initial part has one. `RoundsGrow` and `CycleNeverFinishes` then say that
  rounds only add steps and never reach a cycle, and `EndSort` decides.
* **WorkflowEngine.** The steps that have started are those of the levels so far, and
  a level is over before the next starts (`StepsInLevels`); with the lemma
  `DependenciesDone`, that a step's dependencies lie in earlier rounds, a step finds
  every result it depends on, and what it decided by them still stands later
  (`VerdictsStand`). The map of results follows the goroutines
  (`RecordsFollowSteps`), the job follows the worker's phase (`JobAndPhase`), and
  without faults and shutdowns the status follows the phase (`QuietStatus`). The
  one exception, an attempt that a recovered panic ended, is in the statements:
  there, and only there, a dead job's row does not say failed. `HandlersRun` says of
  an on_failure step what the code says: it has run unless nothing failed in an
  earlier level, its skip_when held, or one of its own dependencies failed.
* **DeploymentLifecycle.** Whoever is about to write a release saw the cluster
  healthy, and whoever is about to write rolled back has undone it
  (`AboutToWrite`); without faults a row has one executor (`OneExecutor`), and an
  attempt that is over, or was cancelled in time, left the row as it should
  (`AttemptSettles`). What is said of releases is said of `Checked` rows: a sync
  and a rollback's restored row claim one that no health check saw.
* **BatchOperation.** What the status says of the executions (`StatusAgrees`): only
  then does the handler's test of the status exclude a second execution in every
  order but one.
* **ScanScheduler.** Where a scan is decides whether it has a slot and a registered
  function; where it stands towards a cancel decides what its row may say; and
  while the last editor was alone every copy agrees with the row
  (`CopiesAgree`).
* **OutboxRelay.** The messages of a stage are all older than those of the stage
  before (`StagesInOrder`); what the relay is about to mark was relayed
  (`RelayInv`). The refinement needs both: `Take` hands over the oldest of the
  channel, which is the oldest of all that wait only because of `StagesInOrder`, and
  `BatchMarkPublished` marks only rows that were taken because of `RelayInv`.
* **PluginTables.** What an actor may count on while it is alone
  (`UndisturbedSteps`). For `TablesAgree` this is said of each place of each
  handler: what the one who has been alone since it started has made of the three
  tables by then (`AloneTasks`), so that nothing is missing when it returns.
  Several of the handlers' early returns can apply at once; the proof needs,
  and the model says, which of them the code takes first. The invariant speaks
  of `unkilled`, which a crash does not change; `EntriesLive` and `CallsSurvive` add
  the crashed subprocess as an exception.
* **PipelineRuns.** What is said of the rows must hold of the replies and the stale
  copies on their way to them (`RepliesReal`, `CopiesReal`). The argument is that
  what is true of a copy stays true: no step takes back what the CI system
  said in the end (`Steady`, `TruthStays`), so a late write can overwrite a newer
  truth only with an older one. `OutcomeAnnounced` needs the same of
  announcements (`AccountedFor`, `CopiesAccounted`), and `TriggerRecorded` that a row
  keeps its id (only a Jenkins queue item becomes a build) in every copy on its way
  back (`IdsKnown`), and that no other row claims this trigger's item
  (`ClaimsKnown`).

Every safety property that a passing run checks is a theorem. Only model-checked
is all liveness (`EventuallySettled`, `AlwaysDecides`, `ExecutionSettles`,
`DeploymentSettles`, `BatchSettles`, `DueIsServed`, `EveryEventSettles`,
`OutboxDrains`): it rests on fairness, hence on ENABLED, which is out of the prover's
reach. Of `AlwaysDecides` the part that needs neither is proved: the sort's loop
cannot go round more often than there are steps. The refuted `CancelSticks`
(section 5) is false for the code and stays with TLC.

## 5. Where the code departs from what it says

One has a run that TLC finds violated; `PROJECT.json` quotes the lines:

* `deployment_cancel` (CancelSticks): an attempt starts by storing `syncing` over
  whatever is there, `cancelled` included; and an attempt that was cancelled in
  time reports a failure, for which its job is retried.

The others are in the models, as the code has them, and the properties are stated
so that they allow exactly them.

**Queue and engine**

* A push that fails leaves its dedup entry behind, so a caller's retry within 60 s
  returns nil and no job exists (`queue.go:47-49, 62-68`).
* An approval stores `waiting` and then returns an error; the execution is failed and
  retried, never resumed (`engine.go:240-242`).
* The steps of a level read the map of results without the mutex their siblings
  write it under; the Go runtime may end the process, which the recover in
  `runWorker` cannot catch (`engine.go:128-131`, `main.go:170`).
* The deferred handler is there so that an execution is not "stuck in running
  forever", but it writes only when an error is returned. A step that panics in a
  level of its own is recovered in `runWorker`, with no error set: no handlers run,
  the job is requeued, and after the last attempt it is dead and the row still
  running (`engine.go:60-66`, `main.go:170-191`; `PanicRecovered`). StatusMatchesJob
  and ExecutionSettles name this exception. A step that panics beside others ends the
  process.
* An on_failure step that depends on the failed step does not handle the failure:
  it is recorded as failed without running, as any step with a failed dependency
  that does not run always (`engine.go:488-492`). FailureHandlersRun says so.
* After a shutdown the deferred handler and the final write use the cancelled
  context and ignore the error: the execution stays `running` when that was its
  last attempt (`engine.go:58-64, 158`).

**Deployments and batches**

* Two promotions, or a promotion and an approval, read the same status and both
  create the next deployment (`gitops_deploy_lifecycle_handlers.go:82-88`); two
  rollbacks read the same status and both roll the cluster back (`Undo`).
* `triggerGitOpsSync` reports deployed when there was no plugin to call or the plugin
  answered that it failed (`SyncCall`), and the write that should record a timed-out
  sync is made under the same expired context and leaves the row syncing
  (`SyncReport`). ReleasedMeansHealthy, NotLeftInProgress and DeploymentSettles
  therefore speak of the deployments that `PerformDeployment` carries out.
* A rollback inserts the version it went back to as deployed, without a health check
  (`deployment_service.go:343-366`), so a restored row may say released of what does
  not run; ReleasedMeansHealthy leaves it out.
* A retry whose enqueue fails is stored as `error`, from which it cannot be retried
  again (only `failed` can), and runs all the same if only Redis' reply was lost
  (`deployment_handlers.go:538, 569-588`).
* A panic in `PerformDeployment` is recovered by the worker and leaves the row
  syncing, for good when it was the last attempt (`Panic`).
* A template without a target cluster is copied into a row that stays pending,
  although it counts as deploying. A batch that is cancelled during its last turn is
  finally stored as completed; one whose process dies stays running for ever.

**Schedulers and scans**

* The loops promise to sleep "precisely until" the next due time
  (`scheduler.go:43-44`), but `next_run_at` is advanced only when the run is over: until
  then the schedule is due, the wait is zero, and every turn of the loop starts
  another run of it (`scheduler.go:107-109, 125-145`; `drift_scheduler.go:100-131`).
* The write after a run stores the whole row as it was read before: a schedule
  that was disabled or given another time meanwhile is enabled again
  (`scheduler.go:136-143`, `drift_scheduler.go:198-203`).
* A cancel that comes before the scan's function is in the map is overwritten by
  `running`; one that comes late may overwrite the result, or be overwritten. The
  rows of scans whose process died stay running.

**Events**

* A row of the outbox is marked published when Redis took the message, whether or
  not anybody was subscribed: "at least once" ends there.

**Plugins**

* Enabling a plugin again after an uninstall through the marketplace loads it and
  does not register it. `Manager.Execute` does not look at the flag that
  `EnablePlugin` sets; only the registry does.
* Nothing reacts to the death of a plugin's process: manager and registry keep it,
  every call fails, and enabling it again only sets the flag of the record the
  manager still has (`marketplace_handlers.go:360-363`). A health check says so when
  asked, and changes nothing. It has to be uninstalled and installed again, or the
  server restarted (`Crash`).
* A start-up that races an install can leave an entry whose process has been
  killed. A failed list of the rows (`bootstrap.go:447-448`) or a failed reread
  unloads an installed plugin, although registered plugins are said to keep the
  admin's choice (`bootstrap.go:651-655`).

**Pipelines**

* A GitLab or GitHub run is recorded as a success when it has been accepted
  (`pipeline_handlers.go:591-607`), and its completion is announced then, and again
  by the refresh that sees it end (whose comment at 771 says "first transition").
* A cancel announces nothing and sets no end; an end that a sync finds is never
  announced.
* A sync that wins the race against the trigger's goroutine has a row of its own;
  the triggered row stays running for ever and has no id by which to refresh or
  cancel it. The same happens after an expired deadline, a restart, a failed read,
  after which the goroutine returns, or a failed update, whose error is ignored
  (`pipeline_handlers.go:583-586, 596, 627`).
* The error of publishing a completion is ignored too.
* A stale refresh or cancel can put a Jenkins queue id back in place of the build's
  number; the next sync makes a second row for that build.
* Local adapters say success of runs they have forgotten; local runs cannot be
  cancelled, for their rows have no id while they run.
* The assistant's tool inserts a row that nothing carries out.

## 6. What is not modelled

* In the modelled parts: payloads, parameters, outputs, logs, formats and wording; the
  columns beside the status where no property needs them; go-redis' own retries of
  a command whose reply was lost; the DB-only rollback of a row without a cluster;
  deployments without a target cluster;
  the results of scans and detections; the jobs and logs of pipelines; health
  checks, the marketplace's catalogue and uploads of plugins.
* `DeploymentLifecycle` follows one row. Two rows that deploy the same release
  (a manual retry, `deployment_handlers.go:538`, or a promotion into the same
  namespace) meet in the cluster, whose state is not modelled. `PluginTables` follows
  one plugin; two plugins of one type that compete for an entry are left out.
* A run that is over on the CI system stays as it ended in `PipelineRuns`: that GitLab
  can retry a pipeline, and GitHub run a workflow again, under the same id is left
  out. The row would then claim what was true once.
* Conditions of `skip_when` other than "a step failed", and the numbers and
  timeouts of steps.
* The login rate limiter (three operations under one mutex over a count and two
  clocks), the SSE hub (a bounded set behind one mutex, whose slow clients lose
  events by design) and the notification dispatcher (goroutines that share
  nothing) have no interleavings worth a model.
* Most of the repository's lines are create-read-update-delete handlers, clients of
  external services, parsers of manifests and scanner output, prompts, templates
  and a front end: sequential I/O and text. `PROJECT.json` lists them as not modelled
  with the reason. That is why the modelled lines, which hold nearly all of the
  platform's background concurrency, are a small share of the whole.

## 7. Plan

Done: the job queue and its deduplication, the workflow engine and its sort, the
deployment row, batches, both schedulers with the scanner, bus and outbox, the
plugin tables and the pipeline rows, each with its run and with proofs of every
safety property the run checks.

Left, in this order:

1. Abstract specifications, beside `JobLifecycle` and `EventDelivery`, for what the
   other components promise to those who see only their results, and proofs that the
   modules implement them: a deployment as the API shows it, a pipeline run.
2. The composition of `JobQueue` with `WorkflowEngine`, the engine's job being one of
   the queue's, which would replace the engine's own `Pop` to `DeadLetter`.
3. Two rows of `DeploymentLifecycle` on one release, with the cluster's state.
4. Two plugins of one type in `PluginTables`.
5. The jobs of a pipeline run, which a refresh and a sync both store.
