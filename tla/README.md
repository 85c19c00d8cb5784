# Verification of the distributed computing coordinator

TLA+ modules of the coordinator (`src/platform/server-api`) and of its worker
(`src/platform/worker-node`), checked by TLC on small instances, with theorems
checked by TLAPS for instances of any size.

The coordinator keeps projects, worker nodes, tasks, their results and pipeline
jobs in PostgreSQL. Workers register, send heartbeats, poll for tasks, run a
container for each and report. A timer on the coordinator's main loop takes tasks
from silent workers, splits and reduces pipeline jobs and assigns queued tasks.

`CS` below is `server-api/src/services/CoordinatorService.cpp`.

## 1. Inventory

| Component | State | Operations | Source |
|---|---|---|---|
| Task store and worker API | tables `worker_nodes`, `tasks`, `task_results` | `registerNode`, `heartbeat`, `generateTasks`, `submitProjectTask`, `getTasksForNode`, `submitResult`, `assignPendingTasks`, `recoverStaleNodesAndTasks` | CS |
| Recovery tick | `running_`; locals of the stages | every 5 s: recover, split, assign, reduce, in this order, in one `try` | `RecoveryService.cpp` |
| Pipeline jobs | table `jobs`, `tasks.job_id` | `createPipelineJob`, `processPendingPipelineSplits`, `onPipelineSubtaskFinished`, `tryRunReduceForJob`, `processReadyPipelineReduces`, `failPipelineJob` | CS |
| Docker child processes | pipes, child processes | `runDockerChild`; login, pull and run in sequence (`dockerRunWithPull`) | `PipelineDocker.cpp` |
| Worker node | `node_id`, its batch, `projects_cache` | register, then for ever: heartbeat, poll, run and report each task | `worker-node/main.cpp` |
| Scheduler | none | `calculateScore`, `selectNode` | `WeightedHeterogeneousStrategy.cpp` |
| Projects | table `projects` | `createProject`, `updateProject`, `getProject`, the snapshot of a job | CS |
| Executor installation | table `node_executor_install` | `ensureExecutorInstalled` | CS |
| HTTP controller | none | one handler per route, one call of `CoordinatorService` each | `ApiController.cpp` |
| Configuration, start-up | constants | read once | `AppConfig.cpp`, `main.cpp` |

**Interactions.** HTTP handlers run on several I/O threads (`number_of_threads`
in `config.json`) and the tick on the main loop. They share nothing but the
database, and the file descriptors of the process. Workers only send requests. A
report of a subtask runs on into the pipeline (`submitResult` calls
`onPipelineSubtaskFinished` after its transaction), so a handler may run a
reduce container, as the tick may.

**What is hard.**

* Transactions are READ COMMITTED and most decisions are a `SELECT` followed by
  an `UPDATE ... WHERE id=`: another transaction may commit in between.
* `COMMIT` is sent by the destructor of a `Transaction` and not waited for: the
  next query of the same thread goes over another connection and may overtake it.
* An exception that is not an SQL error leaves the scope of a `Transaction`, whose
  destructor commits.
* Workers die, fall silent while a container runs, report late or twice, and lose
  the answer to a report that was stored.
* `current_load` is a counter kept up by increments and decrements on different paths.
* A crash of the coordinator between two transactions of one job.
* `fork` of a server with threads: children inherit each other's pipes, and all
  docker calls share one docker client with its stored logins.
* A project changes while its image and login are on their way into snapshots,
  payloads and the workers' caches.

**What makes each component correct.** No task is lost or left with a silent
node. `attempts` counts failures of different nodes. The scheduler's view of the
load is no lower than the load. A success is stored before it is shown. A job is
reduced by one reducer at a time, from the stored successes of all its subtasks;
every job ends. All containers of a job run the image of its snapshot, and have
what the snapshot has of a login. An update of a project stays until another one
undoes it. A docker call returns the whole output, leaves nothing open and returns.
Whichever processes work as whichever nodes, a report that counts comes from the
node that its task is assigned to, as long as the task was not taken from one.

`PROJECT.json` lists the hazards at their lines, with the properties that cover each.

## 2. Modules

| Module | What it is |
|---|---|
| `TaskStore` | Nodes, tasks, results, all transactions on them, the tick without its pipeline stages |
| `TaskContract` | What the task store promises: statuses and results. `TaskStore` implements it (`KeepsContract`) |
| `Pipeline` | Jobs, the pipeline part of a report and of the tick; extends `TaskContract` |
| `JobContract` | What a client may rely on: the course of a job. `Pipeline` implements it (`KeepsJobContract`) |
| `Coordinator` | The coordinator as a whole: `TaskStore` and `Pipeline` composed. It implements both (`KeepsPipeline`) |
| `Worker` | Processes of the worker program, composed with `TaskStore`, whose actions are its requests; extends `Scheduler` too |
| `Scheduler` | `calculateScore` and `selectNode` as functions |
| `Projects` | The project's row and where its image and the parts of its login go: updates, snapshots of jobs and tasks, `dockerRunWithPull`, the workers' caches |
| `DockerChild` | Concurrent calls of `runDockerChild` and their children |
| `TaskStoreProofs`, `PipelineProofs`, `CoordinatorProofs`, `SchedulerProofs`, `WorkerProofs`, `ProjectsProofs`, `DockerChildProofs` | Theorems |
| `MCTaskStore`, `MCPipeline`, `MCCoordinator`, `MCWorker`, `MCProjects`, `MCDockerChild` | Instances for TLC |

An operator `XMutantY` is operator `X` with a plausible bug `Y`. No action uses
it; put in the place of `X` it makes the property fail that is meant to notice.

### TaskStore

| Code | Variables |
|---|---|
| `worker_nodes.status`, `current_load`, `last_heartbeat` | `nodeStatus`, `load`, `stale` (older than 15 s) |
| `tasks.status`, `assigned_node_id`, `attempts` | `status`, `assignedTo`, `attempts` |
| `next_retry_at`, `timeout_at` | `due`: the one that counts in the task's status has passed |
| `task_results` | `result[t][n]` |
| a failure handler between `SELECT attempts` and `UPDATE` | a record in `reading` |
| what a worker has polled and not reported | `held` |
| the tick: its stage, `task`, `selected` | `phase`, `picked`, `chosen` |
| transactions of the tick whose `COMMIT` is on its way | `lagTask`, `lagNode` |

One transaction is one action, unless a later statement depends on what an
earlier one read. So a success report is one action (`SubmitSuccess`: its UPDATEs
read nothing). A failure report is `SubmitFailureRead` and `SubmitFailureWrite`.
An assignment is `AssignFetch`, `AssignSelect` and `AssignUpdate`, which are
separate queries in the code. The status `running` is written nowhere in the
code and does not occur here; neither do `degraded`, `retry_wait` and `stale`.

`AsyncCommit` lets the tick's reads overtake its COMMITs; row locks then keep
heartbeats and reports of these rows waiting. `Faults` adds exceptions in the
tick and in handlers, lost batches and crashes. `selectNode` may choose any
online node, so that what holds of the store does not hang on the strategy.

### Worker and Scheduler

`pc[w]` is where the only thread of process `w` is: it sends a heartbeat (`beat`),
polls (`poll`), and runs the batch (`batch`), of which each task is run and reported,
and waits for its `answer`. `nodeId[w]` is the process's `node_id`. A process starts by
a registration (`Registers`), whose answer may be lost (`RegistersUnheard`), or with a
`NODE_ID` (`Resumes`). `main.cpp` takes any `NODE_ID` unchecked, so `Resumes` takes any
node: one of its own machine or of another one, one that another process works as,
or one that does not exist. A registration that fails because `worker_nodes.host` is
UNIQUE changes nothing, in the database or in the process, which ends.

Every request is the action of `TaskStore` it leads to, conjoined with the move of
the thread: `Beats` is `Heartbeat`, `Polls` is `Poll`, `Reports` is `SubmitSuccess`,
`SubmitFailureRead` or `SubmitDuplicate`. `TaskStore`'s `held[n]` is what the batches of
all processes that work as `n` have between them. A heartbeat may become stale at any
time, also between the heartbeat and the poll: nothing says how soon a request is
served. Requests and answers are lost or late (`BeatFails`, `PollsNothing`,
`RequestFails`), a process dies at any point (the SIGPIPE of `run_docker` among the
causes), and any number of times one is started again. The coordinator's faults and
late COMMITs are those of `TaskStore`. `taken` is history: the tasks that recovery, or an
assignment which overtook the COMMIT of the one before, took from a node.

`Score` is `calculateScore` times 51200, which makes the weights integers. Doubles
are rounded in the code; the loads and sizes in question are small enough for that
not to turn an order between nodes of equal hardware around. `SelectNode` returns
an index, the loop's `bestNode`.

### Projects

A value of a column is named after the call that brought it, so the model tells
whose image runs, not what it is called. `server`, `user` and `password` are the columns
`registry_*`; `version` stands for name, version and checksum, which the properties do
not tell apart. `Merged` is `mergePayloadRegistry`, with a guard for the server and one for
user and password: what the project or the job lacks of a login, a payload keeps as the
client or the output of split brought it.

| Code | Variables |
|---|---|
| the row of `projects` | `row` |
| `updateProject` between `SELECT` and `UPDATE` | a record in `updating` |
| `jobs.executor_image`, `registry_*` | `snapshot` |
| `jobs.status`, coarsely | `stage` |
| `dockerRunWithPull` | `call`: before its login or before its pull |
| `~/.docker/config.json` of the coordinator | `loggedIn` |
| `tasks.payload_json` | `payload`, one for all subtasks of a job |
| `projects_cache` of a worker's process | `cache` |

`written`, `overtaken` and `start` are history: nothing the code does depends on
them. A refused image, a name that is taken, a failed login, pull or run may
happen whenever the code asks for it (`UpdateFails`, `CallFails`). The docker client
stores one login for each registry; any two logins may be for the same one, so each
overwrites the last. An update may set a part of a login but not empty it.

### Pipeline

`hooks` are handlers in `onPipelineSubtaskFinished`, `reducers` calls of
`tryRunReduceForJob` that have claimed their job. The SELECT of a task's status,
the claim, the SELECT of the parts and the last UPDATE are separate steps.
Containers run between steps and end in any way they can (`SplitDone`,
`SplitInvalid`, `SplitFails`, `ReduceDone`, `ReduceFails`). Below the jobs lies
`TaskContract`, so every order of assignments, time-outs and reports the store
allows, and a few more: the contract does not know which node a task is assigned
to, so two nodes may report it without the reassignment in between. That the
contract is enough, so that what holds of `Pipeline` holds of the code, is
`KeepsPipeline` of `Coordinator`. A violation might be due to the extra behaviours:
that of `OnePartPerSubtask` is shown over the real store for that reason. That of
`JobsMoveOn` needs one assignment, one report and the death of its handler, or a handler
that is overtaken by its own COMMIT: all of which the store allows as well.

With `AsyncCommit` a handler may see its own task as it was before its
transaction, and its claim may miss its own success.

### Coordinator

`Coordinator` extends `TaskStore` and has an instance of `Pipeline`, `Jobs`, over the
same tasks. A step is one of the store (`StoreAlone`), one of the jobs (`JobsAlone`) or
one of both:

| Code | Step |
|---|---|
| the stages of the tick in one loop | `Recovers`, `SplitEnds`, `AssignEnds`, `TickEnds`: `tick` and `phase` move together |
| `assignPendingTasks` | `Assigns`; with a COMMIT on its way, `AssignCommits` when it is executed |
| `submitResult` with `onPipelineSubtaskFinished` | `Succeeds`, `Fails`, `Repeats`: the transaction in the store, and `Jobs!StartHook` |
| `processPendingPipelineSplits` | `Splits`: the subtasks are rows of `tasks` |
| exception in the tick, crash | `Aborts`, `Crashes`: in both parts |

`committed` is `tasks.status` as sessions other than the tick's see it: it differs from
`status` in the tasks of `lagTask`. The jobs, whose queries come from any session, see
`committed`. Nothing of what the store does to a task is made to depend on the jobs'
part of it: `StoreAlone`, `Assigns` and the reports use the actions of `TaskStore`, and of
`Pipeline` only what the jobs add. So `KeepsPipeline` can fail, and did: `Pipeline` used
to insert one plain task at a time, while `generateTasks` inserts any number in a
transaction, and it used to assign only in the stage `assign`, while the COMMIT of an
assignment may be executed when the tick has gone on to the reduces. Both are now in
`Pipeline`.

### DockerChild

One thread makes one call at a time. `writers[c][p]` and `readers[c][p]` are the
processes that hold the write or the read end of pipe `p` of call `c`; `Fork` copies all
the server holds, and every `close` of the code takes an end away. Data is counted in units and a pipe holds `Capacity`. A child reads its
stdin, writes when it has seen the end of it (earlier if it is in `Eager`), ends
well or badly; one in `Hanging` may stop at any point. `Timeout` is enabled where
the code looks at the clock, that is in `waitPidTimeout`. A write to a pipe
without readers fails with EPIPE: the coordinator's framework ignores SIGPIPE.

## 3. Runs

Passing runs:

| Run | Instance | Shows |
|---|---|---|
| `TaskStore_nodes` | 2 nodes, 1 task of 2 attempts, all faults | Types; `LoadCoversWork`; `AttemptsInv`, on attempts, result rows and the handlers between them: a task fails only after `max_attempts` different nodes; `SucceededHasResult`; the store implements `TaskContract` |
| `TaskStore_live` | 1 node with prompt heartbeats, 2 tasks of different priority and limits | `QueuedIsServed`: no starvation, also of the lower priority. `OrphanIsReleased`: a node that does not report loses its tasks by the time-out. `EveryTaskIsReported`, if the worker works |
| `Pipeline_nodes` | 3 nodes, 1 job, 1 task of 2 attempts, all faults | Types; `OneReducer`; `CompletedIsComplete`; jobs keep `JobContract`; `FailedForCause` |
| `Pipeline_stages` | 1 node, 1 task, 2 jobs, COMMITs that lag, no faults | `StagesEnd`, `ReadyIsReduced` |
| `Coordinator_store` | 1 node, 1 task, 1 job, COMMITs that lag, all faults | `KeepsPipeline`: over the real store the jobs are those of `Pipeline` |
| `Worker_processes` | 2 processes, each started again and again with or without a `NODE_ID`, 2 nodes, 1 task of 2 attempts, COMMITs that lag, all faults | `CountsFromAssignee`: restarts, wrong ids, lost answers and rolled back reports make no report count that is not the assignee's, only recovery and the assign loop do; `LowerLoadFirst` for the loads the store comes to |
| `Projects_jobs` | 2 updates of image, server, or user and password, 2 jobs, 1 task, 1 worker, payloads with a server of their own or with all else | `UpdateStays`; `MapRunsSnapshot`, what the comment at the head of `003_registry_credentials.sql` says the snapshot is for; `PullsWithOwnLogin`; `TaskImageSinceStart` |
| `DockerChild_two` | 2 callers, eager children that may hang | `WholeOutput`, `NothingLeft`, `WaitEnds` |

Runs that end in a counterexample, each for something the code does (the
statement it contradicts is quoted in `PROJECT.json`, "findings"):

| Run | Property | What happens |
|---|---|---|
| `TaskStore_verdict` | `EveryTaskGetsVerdict` | With one node and `max_attempts` 2 the second failure report is a duplicate row: the task is queued, assigned and run for ever |
| `Coordinator_parts` | `OnePart` | Over the real store and without faults: a subtask is timed out and assigned to a second node, both nodes succeed, and the reduce gets both results |
| `Pipeline_stuck` | `JobsMoveOn` | The handler of the final failure of a job's subtask dies before it fails the job: the job stays in `running_children` for ever, though no fault happens any more |
| `DockerChild_hang` | `CallReturns` | The time limit is looked at only after both streams ended |

Variations to try, each of which differs from a configuration in one thing:

* `DockerChild_hang` with `Hanging = {}`: `CallReturns` holds, for one caller and a
  child that writes no more to stderr than a pipe holds. With `Size <- MCChattySize`
  it fails again: the child blocks on stderr while the server reads stdout. With
  `Caller = {a, b}` it fails as well: two children hold each other's stdin open.
* `TaskStore_live` with `Prompt = {}` and `OrphanIsReleased` alone: it holds, so the tasks of
  a node that sends no heartbeat come free as well. `QueuedIsServed` fails: with the only
  node offline nothing is assigned.
* `TaskStore_nodes`: a success is not final. A late failure report, or the assign
  loop's UPDATE by id, takes a succeeded task back to the queue or to a node;
  `TaskContract` allows it (`Assign`, `Fail`).
* `Worker_processes`: that two nodes never hold a task at once, unless it was taken, is
  false. A node that polls again while its own failure is being recorded runs the task
  once more, beside the node it is requeued to; `CountsFromAssignee` says that this second
  report is a duplicate.
* `Projects_jobs` without `overtaken[j]` in `PullsWithOwnLogin`: two jobs log in one
  after the other, and the first pulls with the login of the second.
* `Pipeline_stuck` with `Faults = FALSE`: `JobsMoveOn` fails without any fault, since the
  only handler that looks at a failed subtask may read its status before its own
  COMMIT. With `AsyncCommit = FALSE` as well it holds. With `Faults = TRUE` and
  `AsyncCommit = FALSE` there are also the jobs that a crash, or an exception in the
  tick, left in `splitting` or `reducing`.

### Bounds

* Nodes: one that reports and another one; `AttemptsInv` needs two to tell attempts
  from nodes. Three in `Pipeline_nodes`, for a subtask of which two
  nodes used up the attempts and a third reports a late success.
* One or two tasks: with two the assign loop turns twice and priorities differ. Jobs
  have one subtask: one that is missing, stored by a partial ingest or taken back is
  told from one that is done, and all that is checked of jobs but liveness is proved
  for any number.
* `Coordinator_store` has one node, one task and one job: a task can still be assigned
  and reported while its COMMIT is late, at every stage of the tick. The theorems hold
  for any number of each.
* `LoadCap` 2: `load` saturates there. Never less than the number of tasks
  (`LoadCapAssumption`), so that saturation hides no lack of load; it bounds the
  leak upwards. The theorem holds for every such cap.
* Attempts 1 and 2: the last attempt and one before it.
* Jobs 1 or 2: two to see that a tick which works on one goes on to the other.
* `Capacity` 1 unit and messages of 1 or 2: messages that fit in a pipe and
  messages that do not. `WholeOutput` and `NothingLeft` are proved for all sizes.
* Two processes in `Worker_processes`: they work as different nodes, or both as one. Two
  nodes, for one to be idle while the other holds the task; `LoadCap` 1. Starts are not
  bounded. The theorems hold for any number.
* `Asks` in `Projects_jobs` has the image, the server, and user with password, the
  columns that meet in a snapshot and in a payload; two updates overlap, follow each
  other, and one may come between the two reads of a job. The project begins without a
  login, so calls with and without one meet, and jobs with a user and no server or a
  server and no user. Proved for any `Asks`, `Payloads` and numbers.
* Symmetry only in runs of safety properties: of nodes in `Pipeline_nodes`,
  of nodes and of processes in `Worker_processes`, of updates and of jobs in `Projects_jobs`; no definition tells them apart.

### Fairness

* `CoordinatorFairness` (TaskStore): the timer fires for ever, so some step of
  the tick is taken; COMMITs are executed; deadlines pass; a handler that waits
  for a row lock gets it, as PostgreSQL queues waiters (strong fairness of
  `SubmitFailureWrite`); the reads of the assign loop do not overtake its own
  COMMITs for ever (strong fairness of `AssignFetch` and `AssignDone`). Strong
  fairness of `AssignFetch` of each task also says that clients do not for ever
  insert work of a higher priority; with finitely many tasks they cannot.
  Nothing is assumed of clients, nor of what workers do with their tasks.
* `WorkerFairness`, a premise of `EveryTaskIsReported`: a node in `Prompt` polls
  while a task is assigned to it and reports in the end. It polls every 5 s, a task
  is assigned for 60 s.
* `TickFairness` and `HandlerFairness` (Pipeline): each stage of the tick ends,
  handlers run. It is assumed that containers end by themselves: the code's time
  limit does not make them, as `DockerChild_hang` shows.
* `Fairness` (DockerChild): a caller in a call goes on if it can, the clock
  included; a child outside `Hanging` reads, writes and exits if it can.
* `Worker`, `Projects` and `Coordinator` state none: their properties are of safety. What becomes
  of tasks whose workers do nothing at all is in `TaskStore_live`.
* Liveness runs have `Faults` FALSE, but for `Pipeline_stuck`: with exceptions
  the tick may be abandoned every time. `JobsMoveOn` has as its premise that from some
  point on no fault happens any more.

## 4. Proofs

`TaskStoreProofs`, for any finite sets of nodes and tasks, any limits,
priorities, cap and switches that satisfy the assumptions of `TaskStore`:

* `TypeCorrect`: `TypeOK` is inductive; one lemma for each group of actions.
* `AttemptsInvariant`, `FailureNeedsDistinctNodes`. That a failed task has
  `max_attempts` failed nodes is not inductive: `attempts` might be too high, or a
  handler might hold a number read too high. `AttemptsInv` adds that there is one
  handler per row of `task_results`, that its row does not exist yet, and that
  neither `attempts` nor a number read exceeds the failures recorded. Then the
  row a handler inserts makes up for the 1 it adds, even if other handlers
  committed since it read: they can only have added rows.
* `FewNodesNeverFail`: a corollary, with fewer nodes than `max_attempts` no task
  ever fails. The limit is 5 unless the client says otherwise.
* `LoadIsCovered`: `LoadCoversWork`, together with the types and with
  `AttemptsInv`, is inductive. Actions are sorted into those that add no work,
  those that take one task and one unit of load (a first report), and the
  assignment, which adds one of each; a lemma treats each kind.
* `ContractKept`: every step of the store is a step of `TaskContract` or leaves
  `status` and `result` alone. It rests on `KnownTasks`: the tick, the workers and
  the handlers only know tasks that exist.
* `SuccessIsStored`: a consequence of the contract alone, by `ContractKept`.

`DockerChildProofs`, for any number of callers and any sizes: `CallTypes`,
`OutputIsWhole`, `CallLeavesNothing`. The inductive invariant `CallInv` says what
is closed at which point of `runDockerChild`, write ends and read ends; its core is that a stream read to
the end has no writer left in any process, and that an end nobody holds can never
be inherited, so nothing is added to it later.

`PipelineProofs`, for any finite sets of nodes and tasks, any jobs, attempts and
switches:

* `PipelineTypes`: types, with `TasksBegin`: only tasks that exist are handed out,
  and only subtasks have hooks.
* `PipelineOneReducer`. A claim needs a job in `running_children`, so it is enough
  that no job with a reducer is there. `ReducesBegin` says so and adds that such a
  job counts subtasks, so that it is not the one being split, which alone can
  enter `running_children`; `SplitsBegin` says what that one has and has not.
* `PipelineContract`: every step is a step of `TaskContract` for the tasks. That a
  success shown is stored, that results stay and that a failed task has used up
  its attempts follow from that alone.
* `PipelineFailedForCause`, from `FailureHasCause`: a status of `failed` that a hook
  has seen, before or after a COMMIT, has `max_attempts` failures behind it.
* `PipelineCompletedIsComplete`. A claim compares numbers; `Counted` (a job that
  was split has `children_total` subtasks) makes the succeeded subtasks all of
  them. After the claim statuses may change, stored results do not.
* `PipelineKeepsJobContract`: every step of a job is one of `Course`, and splitting
  takes no job out of `AllStored` nor puts one into it.

`CoordinatorProofs`, for any finite sets of nodes and tasks, any jobs, limits,
priorities and switches. `TaskStore` and `Pipeline` were proved apart, and these theorems
say that they may be:

* `CoordinatorUsesStore`: every step is one of `TaskStore` or leaves its variables alone.
* `CoordInv`, which carries the refinement. `StagesAgree`: the two
  parts of the tick are at the same stage, and no COMMIT of an assignment is pending
  when a split begins, as recovery has waited for the row locks. `SeenTasks`: other
  sessions see a task as it is, or as it was before an assignment that is not committed.
  `HeldAreHanded`: what a worker holds, and what a failure handler works on, was handed
  out in the sense of `Pipeline`.
* `CoordinatorRunsPipeline`: step by step, with one lemma per kind of step. A change of a
  row of `tasks` is one that the jobs see (`SeenChange`) unless it is an assignment
  whose COMMIT is late (`NothingSeen`), which they see when it is executed
  (`CommitToJobs`). That a failure for good has `max_attempts` failures behind it, which
  `Pipeline` takes from the contract, comes from `AttemptsInv` of the store.
* `CoordinatorCompletes`, `CoordinatorFailsForCause`, `CoordinatorKeepsJobContract`: what
  `PipelineProofs` proves, carried over. `JP` is `Pipeline` with its theorems,
  `SamePipeline` says it is the same specification.

`SchedulerProofs`, for lists of nodes of any length:

* `SelectNodeIsFirstBest`: `selectNode` returns the first node of the highest score. Its
  loop is a recursive function over the list, so this is an induction. The library
  states induction for predicates, which the provers cannot instantiate; but that the
  subsets of a finite set are well founded by inclusion is a theorem without
  predicates. `SmallestNat` and `NatInductionSet` follow from it, for sets of numbers.

`WorkerProofs`, for any processes, nodes and tasks:

* `SchedulerPrefersLowerLoad`: by `SelectNodeIsFirstBest`, as among nodes of equal or
  better hardware a lower load has a higher score, for any hardware that
  `HardwareAssumption` allows and any loads the store comes to.
* `WorkerTypes`; `WorkerUsesStore`: every step is one of `TaskStore` or leaves its
  variables alone, so `StoreOfWorkers` has the theorems of the store without proof.
* `ReportsCountFromAssignee`: `CountsFromAssignee` is inductive with the types and with
  `AttemptsInv`. It speaks of the reports that will still count, of batches and of handlers
  between their SELECT and UPDATE. A poll adds to a batch only what is assigned to the
  node. A report that counts is, by the property itself, the only one of its task on the
  way, so the status it writes contradicts no other; that its handler is the only one of
  its row is in `AttemptsInv`. The tick assigns what is queued, of which no report is on
  the way, or else takes the task.

`ProjectsProofs`, for any updates, jobs, tasks and workers:

* `ProjectsTypes`.
* `UpdatesStay`. Of the present row alone the property is not inductive: a handler
  writes back what it has read long ago. `HistoryInv` states it of every row there has
  been. A handler that writes takes the fields it was not asked for from the row
  number `at`; for an update up to `at` the property of that row carries over, and a
  later one was overlapped.
* `MapsRunSnapshot`, from `SnapshotInv`: there are no subtasks as long as the snapshot
  can still change, and `Merged` prefers what the snapshot has.
* `CallsPullWithOwnLogin` is inductive with the types: a login marks all calls that
  are past theirs.
* `TaskImagesSinceStart`, from `CacheInv`: the present row is the last one written, and
  what a cache holds is an image of a row written since its process began.

TLC has checked the invariants on the instances above. What stays with TLC is
liveness: `QueuedIsServed`, `OrphanIsReleased`, `EveryTaskIsReported`, `StagesEnd`,
`ReadyIsReduced`, `WaitEnds`. The prover does not treat `ENABLED`,
which fairness is made of, and most of these also need an induction over steps still to
come (the assign loop's turns, the jobs before one in the tick). The violations are TLC's
as well. All other properties of the passing runs are theorems.

## 5. What is not modelled

* The lock order of recovery and reports, which PostgreSQL may break with an
  error in one of them: the error is there (`TickAborts`, `SubmitFailureRollback`),
  its cause is not.
* The four threads of the HTTP server: a request may wait at will, but that long
  reduces are what it waits for is not said anywhere.
* `node_executor_install`: only `ensureExecutorInstalled` reads it, to save itself
  the write. Its exception is in `TickAborts`.
* The rounding of doubles in the score.
* The login that a worker's own docker client keeps after a task with credentials,
  with which a later task without any may pull: success or failure of a pull is
  free in `Worker` and `Projects`.
* The COMMIT of a request's handler (report, heartbeat, registration): in the store it
  is executed with the last statement. Only the tick's COMMITs lag there; in `Pipeline` and
  `Coordinator` a report's own continuation may still read the status from before it.
* A request that is still on its way when its sender has given up: in `Worker` a report
  is in the store or is not when the answer is awaited. In `TaskStore`, where a worker may
  drop any part of its batch and keep what it has reported, a report may come at any time
  after.
* The pipe of stdout that stays open if that of stderr could not be had: the call ends in
  `leaked`, of which `NothingLeft` says nothing, and the next call forgets it.
* That an unheard registration, or a node whose process died, wins no tasks before its
  heartbeat is too old: it does.
* Progress of the worker's thread as liveness: the composition with the store is too
  large for TLC's liveness check; `EveryTaskIsReported` has it for `TaskStore` alone.
* The HTTP controller, configuration, read-only queries, the example executors and
  the compose files: no state of their own that changes. A part of the controller
  is named in the map where it tells which calls a client can make.
* Reports from something other than a worker that has polled the task.
* Two projects: nothing relates the rows of two, except that their docker calls share
  a client, which two jobs of one project show as well.

## 6. Running

`tlc -config TaskStore_nodes.cfg MCTaskStore.tla`, likewise for the other
configurations with `MCPipeline`, `MCCoordinator`, `MCWorker`, `MCProjects` and `MCDockerChild`;
`tlapm TaskStoreProofs.tla` and so on for the modules of proofs.
No run needs more than three minutes on two cores.

## 7. Plan

What is left, in this order:

1. `Locks`: the order in which transactions take row locks, with PostgreSQL's
   deadlock detection; after an abort nothing is half done.
2. `Pipeline` with a COMMIT of the claim and of the split on its way, as
   `TaskStore` has it for the tick.
3. Liveness of the worker's thread, over an abstraction of the store.
