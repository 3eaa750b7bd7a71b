# A TLA+ model of FluentCI

FluentCI is a CI program: a workspace describes pipelines as graphs of tasks,
and the program executes them locally, on a run server, or through a desktop
studio; it supervises the services of a workspace and has a registry of
packages. The modules of this directory model the parts of it in which several
actors meet (a scheduler and its processes, a server and its clients and its
disk, commands that share a file, an indexer and its sources), and those whose
rules are easily got wrong. TLC checks them on small instances, and TLAPS
proves the most important facts for all instances.

Paths below are relative to the repository. `X/` stands for
`engine/crates/executor/src/`.

## 1. Inventory

### The engine

| Component | Source | State | Operations | What is hard | What makes it correct |
|---|---|---|---|---|---|
| Run scheduler | `X/lib.rs`, `X/workflow.rs` | status of every task, the lists `preparing`, `running`, `saving`, leases, retries, deadlines | one thread repeats: lookup, publish, reap, dispatch, check | processes, workers, deadlines, cancellation and other runs come in between any two visits; services outlive their consumers | terminal statuses are final, leases are exact, services stop after their users, the outcome tells the truth, a run ends |
| Plan graph | `X/graph.rs` | in-degrees, queue, order; the frontier's counters | build, next, complete | a task is completed several times, or together with others | topological order, right verdict, no task is forgotten or begun early |
| Resource leases, packages, primitives | `X/resources.rs`, `X/packages.rs`, `X/remote.rs` | lock files, one prefix per package manager, process groups | acquire by polling, install, find a client, run it | several engines on one host, cancellation while an installer runs | a prefix in use is not changed, no process outlives its leases, everybody gets a turn |
| Background workers | `X/worker.rs` | a flag and a result | notify, wait, poll, drop | a wake-up before the wait | no result is slept over |
| Service probes | `X/service.rs` | the phase of a service, a probe, counts | poll | late answers, hanging probes | readiness and ill health are what the probes said |
| Action cache | `X/cache.rs` | action lock, manifest, blobs, outputs | prepare, publish, restore, validate | two processes, kills, edited inputs, damaged blobs | a manifest is true, a restore is all or nothing, no two unordered tasks share files |
| Workspaces and products | `X/workspace.rs`, `X/workspace_copy.rs`, `X/workflow.rs` | a staged copy, published artifacts, the report | snapshot, copy, publish, download | the source changes meanwhile, power is lost | the copy is of one moment, the report names what is stored |
| File tasks | `X/files.rs` | the tree | write, copy, move, remove, mkdir, symlink | two tasks and an editor | files are whole, nothing is overwritten silently |
| Matrices | `X/matrix.rs` | cases | expand, join, filter | names with separators | one identity, one case |
| Run journal | `X/events.rs`, `engine/crates/cli/src/cmd/watch*.rs` | events, log positions, watchers' cursors | append, tick, page, poll | buffered writes, retries, reading while the run ends | a watcher sees all of it once, and how it ended |
| Legacy graph engine | `engine/crates/core/`, `engine/crates/common/` | a chain of vertices, services, executions | grow, execute, finalize, cancel | calls that execute at once, cancellation between two plans | runs what the chain says, saves its caches, leaves nothing behind |
| Run server | `engine/crates/server/src/runs.rs`, `runs/admission.rs` | a directory per run (state, admission record, key), in-memory entries, slots and queue | submit, cancel, worker per run, list, download, shutdown, recovery | crash between two saves, failing saves, lock order | a run is executed once, cancellations and reports are durable, the queue is fair, a run ends |

### The workspace program and the registry

| Component | Source | State | Operations | What is hard | What makes it correct |
|---|---|---|---|---|---|
| Service supervisor and its clients | `src/services/supervisor.rs`, `src/services.rs`, `src/services/definition.rs` | per service: process, state, failures, restarts, backoff; leases, `scoped`, `manual`; the lock and the socket of the manager | up, down, restart, acquire, release, shutdown, tick; find or start a manager | several clients, crashes and restarts, managers that end while they are called | dependencies run, one client does not stop what another uses, a serving manager is reachable |
| Studio runs | `src/executor.rs`, `src/server.rs`, `src/db.rs`, `src/project_git.rs` | a row per run and the executor's copy | prepare, execute, cancel, Git update | whole-row saves, failing saves, an ending server, an update that looks before it begins | a run that is read as cancelled stops, the row is coherent and goes on, an update waits for the runs it saw, a run ends |
| Projects | `src/server.rs`, `src/db.rs` | rows, statistics, listings | create, edit, rename, archive, delete, list | read and write in two statements | answered changes hold, a listing is complete |
| Account index | `src/tangled.rs`, `src/auth.rs`, `src/db.rs` | claims with a timeout, the stored repositories | sign in, claim, replace | killed workers, slow workers | one worker per account, a fresh index in the end |
| Workflow storage | `src/workflows/`, `src/project_git.rs` | a file per workflow with its revision | list, save, delete, switch branch | two clients, an editor, git | no lost update, always readable |
| Releases, lock file, modules | `src/publishing.rs`, `src/lockfile.rs`, `src/registry.rs`, `src/modules.rs`, `apps/api/.../runtime_ffi.mjs` | artifact, record, lock file, caches | publish, install, update, add, run | several commands, one of two steps fails | what is pinned is what runs, what is recorded is available |
| Registry indexer | `apps/api/src/fluentci_api/jetstream/client_ffi.mjs`, `.../db/client.gleam` | cursor per source, queue, package rows, ledger | connect, receive, apply, stop | several sources, replays, overflow, failed writes | nothing before a checkpoint is missing, no stale row |

### Components without

Secret managers, the command line, the desktop shell, the web interfaces and
templates, the translation of actions into remote commands, and the vendored
engine code: clients of other programs, user interfaces, or somebody else's
code. `PROJECT.json` lists each component with its status.

### How the components interact

The command line, the studio and the run server each compile a plan
(*graph*) and give it to the *scheduler*, which owns processes and workers,
takes *leases* and *action locks* that other runs may hold, and asks *probes*
about services. A task may be a command, a file task or a primitive; it works
in a *copy* of the workspace, its outputs come from or go to the *cache*, and
its *products* into the report. The scheduler appends to the *journal*, which
watchers read from the disk or through the run server. The run server calls
the scheduler in a worker thread of each run and passes a cancellation token.
The supervisor is a process of its own; clients talk to it through a socket,
one request at a time. The commands of a workspace share its lock file, its
module caches and the registry, and the studio's requests its database and its
workflow files. The indexer reads from Jetstream sources and writes what the
registry serves.

## 2. Modules

| Module | What it is | Lines of the program |
|---|---|---|
| `Scheduler` | a run of a plan with services, caches, resources, finalizers or retries | `X/lib.rs` 672-1620, `workflow.rs`, `resources.rs`, the action lock of `cache.rs` |
| `SchedulerProofs` | theorems about it | |
| `DependencyGraph` | `DependencyGraph::build`, Kahn's algorithm | `X/graph.rs` 59-152 |
| `Frontier` | a run of a plan of ordinary tasks, with incremental admission | `X/graph.rs` 155-203, `X/lib.rs` 682-1606 |
| `DagExecution` | the abstract specification that `Frontier` implements | |
| `FrontierProofs` | theorems about it, the refinement among them | |
| `HostTools` | tasks of several engines on one host: leases, installs, primitives and their clients, workers | `X/packages.rs`, `resources.rs`, `remote.rs`, `worker.rs`, `primitives/src/lib.rs` |
| `ServiceProbe` | the probes of one service and what the scheduler makes of them | `X/service.rs`, `X/lib.rs` 908-1090 |
| `LiveProofs` | theorems about `HostTools` and `WorkspaceCopy` | |
| `ActionCache` | processes that share a cache directory | `X/cache.rs` 10-1043 |
| `EngineProofs` | theorems about it and about `DependencyGraph` | |
| `CacheRules` | which plans of cached tasks are accepted | `X/cache.rs` 220-399, `X/lib.rs` 452-596 |
| `WorkspaceCopy` | the private copy of a workspace | `X/workspace.rs`, `workspace_copy.rs`, `cache.rs` 438-600 |
| `RunProducts` | outputs and artifacts, the report, downloads | `X/workflow.rs` 182-280, `X/lib.rs` 834-1641, `runs.rs` 990-1060 |
| `FileTasks` | native file tasks | `X/files.rs` 15-700 |
| `Matrix` | the expansion of matrices | `X/matrix.rs` |
| `Journal` | the journal of a run and its watchers | `X/events.rs`, `telemetry.rs`, `cli/src/cmd/watch.rs`, `watch_remote.rs`, `progress.rs` |
| `LegacyGraph` | a session of the legacy engine | `core/src/legacy_plan.rs`, `deps.rs`, `common/src/*.rs`, `graphql/src/schema/objects/` |
| `RunServer` | one server over one directory, with crashes | `runs.rs`, `runs/admission.rs` |
| `RunPages` | the pages of the run history | `runs.rs` 112-827 |
| `RunServerProofs` | theorems about `RunServer`, `RunProducts`, `Journal` and `RunPages` | |
| `Supervisor` | the manager of services and its requests | `supervisor.rs` |
| `ServiceClients` | managers and clients that find, start and lose each other | `services.rs`, `supervisor.rs` 650-789 |
| `StudioRun` | runs of the studio, their rows, cancellations, Git updates | `executor.rs`, `server.rs`, `db.rs`, `project_git.rs` |
| `StudioProofs` | theorems about it | |
| `Projects` | project rows, statistics, listings | `db.rs`, `server.rs` 60-871 |
| `TangledSync` | the index of an account's repositories | `tangled.rs`, `auth.rs`, `db.rs` 470-551 |
| `WorkflowFiles` | workflow files and their writers | `workflows/`, `server.rs`, `project_git.rs` |
| `Packages` | releases, lock file, modules, upload | `publishing.rs`, `lockfile.rs`, `registry.rs`, `modules.rs`, `git_source.rs`, `runtime_ffi.mjs` |
| `ServicesProofs` | theorems about `Supervisor`, `ServiceProbe`, `ServiceClients`, `Projects`, `WorkflowFiles` and `Packages` | |
| `Indexer` | sources, queue, database | `client_ffi.mjs`, `client.gleam` |
| `PackageIndex` | the abstract specification that `Indexer` implements | |
| `RegistryProofs` | theorems about `TangledSync` and `Indexer`, the refinement among them | |

The modules `MC...` hold the instances, and there is one `.cfg` per run. The
definitions whose comment begins with "Mutant:" are faulty variants of the
definition that follows them, one per property of a run. No behaviour of a
specification uses them: with one in the place of the right definition, TLC
must find the property violated.

### Runs of several parts

`MCEngine`, `MCLive`, `MCRunServer`, `MCServices`, `MCStudioRun` and
`MCRegistry` each check several modules that share an instance of constants
and do not share state. Their specification is a disjoint union: `part` is
chosen in the initial state and never changes, the variables of the other parts
are zero, and each step is a step of the chosen part. A behaviour of the union
is thus a behaviour of one module, and a property `part = "x" => P` says of
module `x` what `P` says. A part that comes to an end may stutter for ever; the
parts that never end, the server, the supervisor, the indexer and the building
of a graph, have no such step, so that TLC finds their deadlocks. Fairness is
that of each module, restricted to its part: TLC cannot take a fairness formula
that is given its actions as arguments, so that the MC modules write it out.

Where components do interact, one module has them together: the scheduler with
leases and action locks, the leases with installers, clients and workers, the
run server with its queue and its disk, the journal with its writers and
watchers, publishing with the registry and the lock file.

### Scheduler

`pc` names the phase of a pass (wait, lookup, publish, reap, dispatch, check),
`todo` the tasks it has still to visit. A visit of one task is one step and
contains every call the code makes for it; between two visits the environment
may take a step: `ProcessDone`, `LookupDone`, `PublicationDone`, `Elapse`,
`CancelRequest`, `ForeignTake`, `ForeignReturn`. `stage` says which of the
lists holds the task, `work` is the cell of its process or worker (busy, or
what it will report), `armed` and `due` are the timers that run and those that
have expired (the code compares instants; a timer that runs may expire at any
moment). `held`, `readers` and `leases` are the two sets and the lock files of
the leases, `action` the lock of the cached action, `foreign` what other runs
hold. A constant plan is a record; `ValidPlan` is what `Policy::validate` and
`compile_graph` accept. The environment of a plan is bounded by nothing but the
plan: attempts are the plan's `attempts`, and every timer expires once per
arming.

### DependencyGraph and Frontier

`DependencyGraph` interns the tasks, then pops the queue, one task per step.
`Cyclic` is not taken from the algorithm: it says that a nonempty set of tasks
each needs another one of the set.

`Frontier` is the scheduler for plans that use the incremental frontier. A
pass reaps, settles (completes what was touched, or gives up what is pending
when the run is stopping), admits while a slot is free and a task is ready,
and checks. `remaining`, `completed`, `ready` and `unfinished` are the fields
of the frontier; `touched` is the list of the same name. A task that is being
saved counts as running. `stopping` is sampled once per pass, as the code
does; what it is compared with later, `Stopping`, is computed afresh.

### HostTools and ServiceProbe

In `HostTools` each task is the one task of an engine of its own; `phase` is
where the engine has it (pending, running, ended), `stage` where its worker is,
`got` the leases it has and `left` what it has still to do. The leases of a
task are taken in the order of their names, without waiting; a task that fails
to get one gives all back and tries again (`NextName`, `CanLock`). A worker
installs, looks for a client, runs it, and ends with a result and a wake-up:
`asleep` and `flag` are the scheduler's wait and the retained wake-up. `child`
is the process group of the task, `helper` a descendant that may outlive it.

`ServiceProbe` has one service: its process, its `standing` with the scheduler,
the running `probe`, its timeout (`late`) and the interval (`due`). `passed`
and `streak` are history variables of the properties.

### ActionCache and CacheRules

`ActionCache` has several processes over one cache directory and two working
directories. The key of an action is the version of its declared inputs, read
when it is looked up (`CheckInputs`) and checked again when it is saved;
`blobs` and `actions` are the directory, `owner` the locks, `job` each
process's place in `prepare`, the restore (one output at a time, with a backup,
and a rollback that may fail) or the publication (blobs, then manifest).
`Truth` says what the task makes of a version of the inputs.

`CacheRules` is a function with one step: `validate` and `validate_workspace`
on a plan, as the code computes them, by walking up the ancestors of each path
and with the closures kept per task; what a closure's loop leaves behind is
`Walk`, the least set of tasks that holds where it starts and is closed under
the edges. The properties say on the files themselves what was to be found, and
of the order what a run makes of it: `Precedes(a, b)` when `a` is among what has
been done whenever all that `b` needs is.

### WorkspaceCopy, RunProducts, FileTasks, Matrix, Journal

`WorkspaceCopy`: two snapshots, each taken by threads that share a position in
the inventory, with a copy between them; `moments` is every state the source
has been in. `RunProducts`: the same question for one artifact that others
write in place, and then what is synchronised to the disk in which order:
`PowerFails` loses what was not. `FileTasks`: the tree as a function from paths
to nothing, a directory, a link or a file with two chunks; a task's steps are
the system calls that look at it or change it. `Matrix`: names and values are
sequences of symbols, since the property is about their encoding. `Journal`:
positions count half events, since the file is written through a buffer and may
end in the middle of one; `said` is what a task has put out, `log` its log
file, `emitted` the events, `flushed` how much of them is on the disk, `watch`
one watcher, local or remote, that follows or takes a snapshot.

### LegacyGraph

A session grows a `chain` of vertices; `run` is an execution, with a plan of
services and commands and a second one for the finalizers of its caches. The
calls of the schema are grouped by what they do to the chain and by the object
that offers them (`WaitOn`, `Toolchain`, `Chmod`, `OfADirectory`, `OfAFile`
and the like), since two objects do not do the same under one name. The
executor appears by its contract only. Calls of plugins that execute at once
(`withWorkdir`), `stdout` and `stderr`, signals, the end of the script and a
display that fails are actions. The order of the chain is stated, not computed:
`ExecutionOrder` is the one in which each vertex is, of those whose needs are
met, the one that was so first (`IsNext`), which is what the queue of
`DependencyGraph` amounts to; and a `Closure` is the least set that holds what
its members need.

### RunServer and RunPages

`state`, `admitted`, `executions`, `result` and `submission` are files;
everything else is memory, and `Crash` forgets it. A submission is five steps
(`adm.step`), one for each file written and the spawning; a cancellation
(`op.step`) four; a worker waits for a slot, starts, executes, finishes. The
control lock serialises the handlers as in the code: an action that takes it
requires `adm = None /\ op = None`. A save may fail (`MaxFaults`), and the
server may be killed and started again with either value of
`--resume-queued`. Recovery reads the directory in any order, gives a run that
was executing the outcome of its report or `interrupted`, keeps the queued ones
in the order of their admission numbers (`Place`) and resumes or interrupts
them. `Init` is `FirstStart`, a directory without runs, with all failing saves
still to come.

`RunPages` is the index of the history and a client that follows the cursors,
over a clock that may stand still or go back.

### Supervisor and ServiceClients

The variables of `Supervisor` are those of the manager: a record per service,
`leases`, `scoped`, `manual`, `shutdown`. A request is one step, since the
manager handles one at a time; a tick visits the services in `Order`, one step
each (`at`), and requests are handled between ticks only. A process may end or
become unhealthy at any time. A request works on the least set of services
that is closed under dependencies, or under dependents, in `Order` (`Required`,
`Dependents`, `Before`). `halted`, `restarted` and `revivable` are history
variables of the properties: the services a client stopped, whether a client
asked for a restart, and whether a request has left a service that had just
been found unhealthy to nobody.

`ServiceClients` is what is around it: `manager.lock`, `manager.sock`, managers
that start, bind, serve, end or are killed, and clients that connect, start a
manager, wait for it and hold a lease during their command.

### StudioRun, Projects, TangledSync, WorkflowFiles

`StudioRun`: `row` is the database, `copy` the executor's own run, `cancelling`
the one that `cancel_run` has read. Every await of the executor at which
another task may run is a step boundary; `save_run` writes the whole copy.
An action of blank commands has none (`Trivial`). `update` says where each
request for a Git update is: its look at the rows (`UpdateCheck`) and the update
itself, from the moment it has its lock (`UpdateBegins`) until Git is done, are
separate steps, as there is an await between them. `present` remembers which
runs it saw, and `cancelled` whose cancellation was answered.
`Projects`: a request is two steps, its read and its write; `held` is what was
answered, `torn` the projects written from a stale copy, which the properties
except. `TangledSync`: times are ages in ticks; a worker is killed at any time
or by its limit. `WorkflowFiles`: a save is its read, the lock, the second read
with the check of the revision, and the write; `kept` is what answered requests
wrote, `crossed` the files an editor or git changed between a read and a write.

### Packages

One `cmd` per process: publish, install, update, add, run or a bare execution
of a module, each a sequence of reads, requests and file replacements. `lock`
is `fluentci.lock`, `declared` the table of `fluentci.toml`, `guard` the
advisory lock; `store` and `records` the artifacts and records of the registry,
`index` what it serves, `head` and `mirror` the repository and the URL that
others change, `cache` the module cache and `fetched` what was put there under
a URL.

### Indexer

Each source delivers the same history of events with its own clock and pace.
`Connect`, `Message`, `Receive` are the socket's callbacks, `Process` applies
the first queued event in one transaction (ledger, rows, checkpoint).
`Disconnect`, `Stop`, `Crash` and the failing branch of `Process` are faults.
What Jetstream promises (replay from a cursor) is external and modelled from
the use the client makes of it.

## 3. Runs

A property of a run is the conjunction of the named properties of the modules,
each with the comment that says what it means; the type invariant of a module
is one of the conjuncts.

| Run | Instance | Properties |
|---|---|---|
| `scheduler` | 13 plans of 3 tasks: a service, its consumer and a finalizer of both; two services with too few slots; a lease needed by the producer of a service's consumer; two cached tasks with one action, one of them retried, and a dependent or failure handler; a writer and two readers of a resource, alone or with other runs; a service whose prerequisite a condition skips; fair | `TypeOK`, `Bookkeeping`, `MutualExclusion`; `RunsAreRight` (`Capacity`, `NoEarlySignal`, `ActionExclusion`, `OutcomeAgrees`); `NoStartWhileStopping`, `TerminalIsFinal`; `Ends` (`Termination`, `CancelTerminates`) |
| `frontier_plans` | every graph of 4 tasks in index order, 2 jobs, `fail_fast` on and off, no task or one that may fail, fair | `FrontierHolds` (`Counted`, `NoneLost`, `FinishedIsFinal`), `ImplementsDag` (refinement of `DagExecution`), `Finishes` |
| `engine` | parts of `MCEngine`: two processes and two directories with one fault; two file tasks over 12 trees; sessions of 3 vertices; every graph of 4 tasks, also naming a missing one; every plan of 3 tasks over nested paths; matrices of 2 steps with separators in their names | `CacheHolds` (`ManifestsHold`, `RestoreIsAtomic`), `FilesKept` (`FilesAreWhole`, `ClobbersNothing`, `TreeAppearsWhole`), `LegacyHolds` (`LegacyRunsAreRight`, `IdleIsFinal`), `GraphIsRight` (`Topological`, `VerdictIsRight`), `CachedPlansAgree` (`RulesAgree`), `CasesDiffer` (`MatrixTells`) |
| `live` | parts of `MCLive`: a workspace of 2 files, 2 threads and 2 edits; 2 tasks of 8 kinds of jobs on one host; 2 runs of a server with one kill and either restart mode; fair | `CopiedAtOnce` (`OneMoment`), `HostHolds` (`PrefixIsStable`, `NoneOutlives`, `WakesAreKept`), `SetupAndTasksEnd`, `ServerEnds` |
| `server` | parts of `MCRunServer`: 3 runs of which 2 are submitted, 1 key, 1 failing save, 1 kill; 3 runs without keys and failing saves, 1 slot, 1 queue place, 1 kill; a history of 4 runs in 3 milliseconds, pages of 1 or 2; an artifact of 2 pieces and 2 writes; a journal of 2 tasks | `RunsAreKept` (`CancelIsDurable`, `ExecutedOnce`, `ReportIsKept`), `QueueIsFair` (`FirstComeFirstServed`, `Bounded`, `NeverRefused`), `HistoryListed` (`HistoryIsWhole`), `ProductsStored` (`CopiesAreMoments`, `ReportsAreBacked`, `StoppedHaveNone`), `JournalHolds` (`JournalIsTrue`, `WatchersAreRight`) |
| `services` | parts of `MCServices`: 2 services that may fail, manual use and 2 scoped commands, every request; a probe with threshold up to 3; 2 clients and 2 managers; 2 projects and 2 requests; 2 writers of workflow files, 2 saves and 1 edit; 2 processes, 3 commands, 2 versions and contents of a package | `SupervisionHolds` (`Owned`, `DependenciesRun`, `StopIsFinal`), `ClientsServed` (`KeepsClients`), `ProbesJudge` (`VerdictsAreEarned`, `NoStrayProbe`), `ManagersServe` (`SocketIsTheServers`, `ScopedIsServed`), `ProjectsKeep` (`EditsSurvive`, `NamesDiffer`, `PagesAreComplete`), `WorkflowsMerge` (`FieldsMerge`, `StaysReadable`, `WritesInformed`), `PackagesHold` (`KeepsPins`, `RunsThePublished`, `ReleasesAreTrue`) |
| `studio` | parts of `MCStudioRun`: 1 run of a whole workflow or of its second job, 2 cancellations, 1 Git update, 2 faults, processes that may close their output and need not end; a chain of 3 services, and a probed one with its dependent, that crash and restart; fair | `StudioHolds` (`RunsAreCoherent`, `NoGhosts`, `SavesAdvance`), `UpdateWaits` (`WaitsForRuns`), `StudioEnds`, `ServicesSettle` |
| `registry` | parts of `MCRegistry`: 2 sources with agreeing clocks, 4 events, 4 histories (edits, recreation, account changes, unrevised records), queue of 2, 2 faults; 2 accounts, a client, 2 workers, 2 faults; fair | `IndexIsRight` (`Gapless`, `KeepsArtifacts`, refinement of `PackageIndex`), `EventsIndexed`, `IndexersExclude` (`OneIndexer`), `SyncCatchesUp` |
| `scheduler_skip` | a service whose prerequisite a condition skips, and its consumer | a violation of `OnlyFailuresFail` |
| `indexer_stale` | one clock ahead of the other | a violation of `NeverStale` |
| `journal_retry` | a native task with two attempts | a violation of `NothingLost` |
| `packages_alias` | two commands that install and add | a violation of `AdditionsKept` |

### Bounds and why they are enough

* Three tasks show every relation the scheduler distinguishes: a service, its
  consumer and a finalizer of both; a writer and two readers; two owners of an
  action and a dependent. A fourth adds no new relation to a visit, which
  looks at one task and its neighbours.
* Four tasks in `Frontier` are the smallest plans with a diamond, with two
  needs that end in one pass and with a chain beside a free task. The theorems
  of section 5 hold for any number of tasks and jobs.
* Two runs of the run server compete for the slot, the key and the lock
  (`KeyRuns`); the third is needed for the order of a queue and for a queue
  that could outgrow its place. One kill reaches every point between two
  writes. The theorems of section 5 say the same for any number of runs, keys,
  kills and, for `RunsAreKept`, failing saves; what a failing save in a queue
  can do to its order is not shown.
* Two actors are enough for the stores that are read, then written, by several
  (action cache, projects, workflow files, lock file): every check in the code
  compares a read with the present. Their bounds count commands, edits and
  faults: with two saves and an edit each may fall between the read and the
  write of another.
* Two processes, two output files and two input versions make a restore that is
  interrupted in the middle, and a key that is not the present one.
* Two sources suffice for a replay to meet a newer event; four events hold
  creation, two updates or a deletion and a recreation. `Overlap` is one tick:
  what matters is whether the replay starts before the cursor.
* Two cancellations let one be overwritten and asked for again; two faults let
  a save fail and the server end. One Git update meets every state of a run;
  several would only wait for one another, and the theorems are about any
  number of them.
* Eight jobs in `HostTools` are every kind of task with the leases it takes
  and the clients it may need, an impatient one and one without resources
  among them; two tasks with the same jobs exchanged are one state.
* An unwatched run of `Journal` has all tasks and outputs; a watched one is
  smaller (`Watched`), since a watcher adds positions and decides on its own
  reads only.
* Bounded by guards: `MaxFaults`, `MaxCrashes`, `MaxCommands`, `MaxLines`,
  `MaxCancels`, `MaxUpdates`, `MaxEdits`, `SourceEdits`, `CacheFaults`,
  `MaxSaves`, `MaxRequests`, `MaxStats`, `MaxReads`, `Commands`, `Events`,
  `Tries`, `MaxOutput`, `MaxTries`, `MaxWrites`, `MaxSyncFaults`,
  `MaxVertices`, `MaxServices`, `KeyRuns`, `MaxExecutions`, `MaxSteps`. The restart
  counter of a service saturates at its limit, which is all the code compares
  it with.
* The plans of `scheduler` are those whose runs end. Two others do not,
  see section 4. The services of `services` have no probes, which would make
  it too large; `studio` has one with a probe, and the theorems hold for any.
* Symmetric names (processes of a cache, runs, clients) are declared as such
  in runs without liveness properties only.

### Fairness and why the code justifies it

What the program cannot promise, that the commands of a user end or that other
runs give back what they hold, is never part of a specification: it is the
antecedent of the property that needs it.

* `Scheduler`: weak fairness of the pass (a thread that sleeps at most 10 ms),
  of workers (they are joined and bounded), of timers. `Termination` assumes
  `ProcessesExit` and `LocksReturn`; `CancelTerminates` assumes neither, since
  a cancelled process is killed. Nothing is assumed of a service's process:
  only signals, whose deadline ends in a kill, stop it.
* `Frontier`: weak fairness of the pass; strong fairness of `Reap`, since it is
  possible in each pass only while the thread is reaping: a process that ended
  is found by the next pass.
* `WorkspaceCopy`: weak fairness of each thread. `HostTools`: weak fairness of
  each engine's pass, of its worker and of the end of a process: installers and
  clients have deadlines.
* `RunServer`: strong fairness of "some run starts or finishes", because they
  take the control lock that requests keep taking; weak fairness of the other
  steps of workers, of admissions and cancellations once begun, and of the
  restart of a killed server. An execution is fair only once its token is set;
  the first half of `ServerEnds` assumes `ExecutionsDoEnd` and that no save
  fails, the second, about a shutdown, does not.
* `Supervisor`: strong fairness of a visit (requests come in between), weak
  fairness of the end of a manager that was asked to end and of back-offs.
* `Indexer`: weak fairness of the event loop's callbacks, of reconnection and
  of the restart. Faults are bounded, so the sources are eventually reachable.
  `EventsIndexed` assumes that connections are at some time not given up any
  more: a replay that overflows the queue every time makes no progress, and
  nothing in the code excludes that.
* `TangledSync`: weak fairness of the clock, of workers and of the statements
  of a sign-in. `SyncCatchesUp` assumes that an account keeps signing in:
  nothing else starts a worker.
* `StudioRun`: weak fairness of the executor's own steps and of requests once
  begun, strong fairness of the poll: `select!` picks a ready branch at random.
  The end of a run assumes `ProcessesDoEnd` and no faults, the end of a
  cancelled process neither.

## 4. What the checks show

The passing runs show, for these instances: the scheduler's leases, slots and
action locks are exactly those of its live tasks on every path, retries and
failed starts included; no service is signalled while it is in use; terminal
statuses are kept; runs end under the assumptions above. The frontier begins
no task early, forgets none and stops beginning tasks once the run is
aborted. Manifests of the cache are true and name what is stored; a restore is
all or nothing unless its rollback fails too; accepted plans have no two
unordered tasks on the same files. A workspace is a copy of one moment, and a
report names artifacts that are on the disk. A package prefix is not changed
under its users, leases lead to no deadlock, and no wake-up is lost. The run
server executes a run, and a key, at most once over crashes; acknowledged
cancellations and reports survive them; the queue is taken up in order.
Watchers see the whole journal. The supervisor keeps dependencies and one
client does not take away what another one uses; a serving manager is the one
that is reached. Locked modules stay what they are, and no release names the
artifact of another. Answered changes of projects and workflows hold. The
indexer leaves no gap before a checkpoint. A stored studio run is coherent and
never falsely successful, and none that succeeded or failed has a pending or
running job; no executor takes back what is stored.

The properties say "unless" where the code was found to do less than one might
expect. These cases were met with the same modules, or while they were written.

* Scheduler: with `Plans <- HeldPlans` and `fail_fast` off, `Termination` does
  not hold. A failed service keeps its lease until its finalizer has ended, the
  finalizer waits for an unrelated task, and that one waits for the lease; the
  stall check (`X/lib.rs:1550`) wants every running service ready. Likewise a
  task that ends while it waits to retry keeps the lock of its action for the
  rest of the run, and another task with the same action polls for it for ever.
* ActionCache: inputs that are edited and edited back between the lookup and
  the snapshot go unnoticed; `Edit` leaves that out.
* FileTasks: `move` without overwriting looks before it renames, and may
  replace what appears in between.
* HostTools: a primitive that installs its own client takes no lease of the
  package prefix; descendants of a client survive its normal end; an installer
  that was started with sudo is not killed, so that a cancellation waits for
  it; `terminate` signals a process group again after it was reaped; when an
  engine is killed its locks are free while its processes live on.
* RunProducts: operations within one directory are assumed to reach the disk in
  their order. A task bound to an output of a producer that was skipped, or
  allowed to fail, fails with "missing output".
* RunPages: pages follow the time of admission, so that a clock that goes back
  reorders the history; one unreadable `state.json` fails a page.
* LegacyGraph: `Directory.devbox()`, `nix()` and the like open a vertex that
  is linked to nothing, so that with three commands before it a later command
  may be run earlier; root constructors reset the chain, and `cache()` with a
  known key leaves it empty; a service that is enabled twice gives two tasks
  one identity; with `fail_fast` a finalizer that fails leaves the later caches
  unsaved; a cancellation between the two plans leaves caches unsaved with exit
  code 0.
* Supervisor: `stop` does not reset the health failures (`supervisor.rs:610`),
  so a service that is stopped when it has just been found unhealthy and could
  not be restarted is started again by the next tick. `StopIsFinal` leaves such
  services out (`halted`), `Owned` and `DependenciesRun` say "unless there was
  one" (`revivable`). `restart` records the restarted services as manual but not
  what they depend on (`:705`), and a restart of everything when nothing is
  wanted starts everything; `Owned`, `KeepsClients` and `DependenciesRun` say
  "unless there was a restart". `up` rolls back a service that crashed, awaits
  its restart and is leased by somebody else, when a later one fails (`:519`).
  That at some moment no wanted service is unserved does not hold when stops
  and starts never end; `ServicesSettle` says it of each service.
* ServiceClients: of two clients that start managers at once, the one whose
  manager found the lock taken may give up before the other's has bound its
  socket. A lease that was granted by one manager may be given back to its
  successor. The services of a killed manager survive it.
* Packages: a run with a lock still asks the registry for the metadata of
  functions; an upload whose record fails uses up the version; a module from a
  URL is cached by its URL for ever; `publish` reads the configuration twice;
  `add` may lose an edit of `fluentci.toml` between its check and its write.
* Projects: editing and archiving write back a whole row that was read before:
  one of two such requests is lost, and a deleted project may come back; the
  properties except these projects. Deletions between two pages make a listing
  miss projects, since pages are offsets.
* WorkflowFiles: an editor, and the studio's own switch of branches, do not
  take the lock of the writers.
* Indexer: a source without a checkpoint whose first write fails reconnects to
  what is new, and its checkpoint passes the lost event (`Gapless` with
  `Fresh` sources).
* StudioRun: the executor saves its own status over a cancellation that was
  stored since it read the row: at its start (`src/executor.rs:134`), with a
  line of output (250) or at its end (172). `tests/executor.rs:107-147` saves
  a cancellation as `cancel_run` does and expects it to stay; its process is
  silent from then on. As an INVARIANT of `MCStudioRun`, `CancelIsFinal` is
  refuted in four steps: a run is prepared, cancelled, and begins.
* The other way round, `cancel_run` takes back what the executor has stored
  since it read the row, an outcome included; `SavesAdvance` says that nothing
  else does. A run whose cancellation is saved last, or whose server ends, is
  stored as CANCELLED with PENDING and RUNNING jobs for good: `Coherent` says
  of successful and failed runs only that they have none. A process that has
  closed its output is not polled for cancellation.
* `update_project_git` looks at the rows (`src/server.rs:997-1005`) and then
  awaits the update (1006). A run that is prepared and started in between
  executes while the working tree changes, although
  `docs/site/studio/index.md:105-106` and `docs/site/reference/graphql.md:169`
  say that projects with active runs reject the request: `TreeIsQuiet`, as an
  INVARIANT of `MCStudioRun`, is refuted in seven steps. What the update can
  rely on is that the runs it saw are over, unless they were cancelled, whose
  processes may still be there (`WaitsForRuns`). A run whose server ended
  counts as active for ever, and updates are refused from then on: `NoGhosts`
  is about the time before faults.

## 5. What is proved

For every value of the constants that satisfies the named assumptions:

* `SchedulerProofs` (assumptions `TaskAssumption`, `LockNames`,
  `PlansAssumption`): `TypeCorrect`, `LeasesAreKept` (`Bookkeeping`),
  `LeasesExclude` (`MutualExclusion`), `TerminalStays` (`TerminalIsFinal`).
  The first three follow from one inductive invariant, `LockInv`: types, which
  statuses go with which list (`Lists`), `Bookkeeping` and `MutualExclusion`
  together. None of them is inductive alone: that a release keeps the reader
  count a natural number needs `Bookkeeping`; that a dispatch keeps the
  exclusion needs that the sets it tests are those of the live tasks; and both
  need `Lists`, so that a task leaves the lists at most once. The cardinality
  of the readers is handled by lemmas about adding or removing one task.
  `RunsKeepTheirWord` (`RunsAreRight`) and `StartsAreRight` (`NoStartWhileStopping`), so that every
  safety property of `scheduler` is proved for every set of plans. The
  inductive invariant is `RunInv`. `KindOf` says how list, action lock, status
  and requested stop of one task go together. `Blamed` and `StallBlamed` point
  at a task for every failure and every stall: one that ended badly, or a
  service that is being stopped for a reason; so no run that failed can end
  with tasks that are all forgiven. `CalmSoFar` is the converse: as long as
  nothing failed, stalled or was cancelled and no condition skipped a service,
  every ended task is forgiven. `Sampled` relates the flag read at the top of
  the pass to what it was read from. Each visit is shown to have an `Effect`
  on one task, and one lemma shows that an effect keeps the invariant; the
  steps that visit no task are `Quiet`. Capacity, signals and action locks are
  then three short lemmas on top. The exception in `OutcomeAgrees` for a
  service that a condition skipped came out of this proof, and is the
  disagreement that `scheduler_skip` shows.
* `FrontierProofs` (assumptions `TaskAssumption`, `PlanAssumption`,
  `JobsAssumption`): the inductive invariant `Inv` is `TypeOK`, `Counted` and
  `Latched`. `CompletedCounts` is the heart of it: whatever set
  `Frontier::complete` is given, ended tasks that were completed before
  included, the counters remain the cardinalities of what is left. From it
  follow `CountersAreRight`, `FinishedMeansFinal`, `NeedsComeFirst`,
  `NoneIsLost`, `JobsAreKept`, `FrontierIsRight`, the property `FrontierHolds`
  of the run, and `FrontierImplementsDag`, the refinement of `DagExecution`
  with its `aborted` mapped to `Stopping`. `Latched` is needed for the
  refinement: a running task is cancelled only on the sampled flag, which must
  still imply the condition.

* `RunServerProofs` (`RunAssumption`, `Capacities`, `Modes`, `Bounds`,
  `Distinct`, `NoAdmission`; the last two say that `None` is none of the values
  it stands beside): `RunsAreSafe` and `RunsStayKept` (`RunsAreKept`). The
  invariant `RunsInv` is `TypeOK`, `ServerFits` (which step of an admission or
  a cancellation goes with which phase) and, for each run, `RunFits`: what its
  thread, the cancellation under way, its admission, recovery, the disk and its
  worker know of one another. `CancelIsDurable` needs that a signalled token is
  seen by the worker before it executes, which needs that a run with a thread
  has a control that the cancellation finds (`ThreadOf`, `OperationOf`), which
  needs that recovery starts each run once (`FoundOf`). Since a step changes
  one run, or forgets the memory of all, most of the proof is about one run.
  `QueueIsServed` and `QueueStaysFair` (`QueueIsFair`) add `QueueInv`: numbers
  are given once and in the order of the queue, who has a slot came before who
  waits, whatever is queued on disk has a place in memory or is still to be
  found, and there are never more of those than places (`PlaceOf`,
  `PlacesBounded`). `NeverRefused` at a restart needs the bound on what is
  persisted, and that one needs that a place is kept until the run's file says
  otherwise. Their hypothesis is that no save fails, as in the part "queue": a
  run whose save failed has its place taken away while its file still says that
  it is queued.
  Of what the server keeps on disk: `ProductsAreOfOneMoment` and
  `ProductsStayWhole` (`ProductsStored`), with
  `ProductsAssumption`: a write only raises the numbers of the pieces, so that
  what the first snapshot read, what the file was when that snapshot ended and
  what the second one reads follow each other piece by piece (`Bracketed`):
  snapshots that are equal enclose one moment, and the copy is compared with
  them. `Storing` says which parts are on the disk at which step, and `Telling`
  that only a task that succeeded advertises, which together give that a report
  that can be read is backed after a loss of power.
  `WatchersStayRight`, `JournalStaysTrue` and `JournalStaysRight`
  (`JournalHolds`), with `JournalAssumption`: `WatchInv` says how far the disk,
  the run and the server's record of it have come (`DiskFits`) and what a
  watcher has in hand: its position and the end of its snapshot (`Positions`),
  and the page it has read before it asks for the state of the run (`PageHeld`:
  a page that was not full reached the end of the file, if the run was over
  when it was read). A watcher therefore never reports an end it has not read,
  whatever the tasks do. `LogInv` relates what a task has put out, its log and
  the part the journal has copied (`LogOf`), and its state, what the journal
  knows of it and its span (`StateOf`). The last two theorems have a
  hypothesis, `Uncut`: no task without a process, or no second attempt. Without
  it they are false, which is the disagreement of `journal_retry`; the part of
  the run that they are about satisfies it.
  `HistoryStaysWhole` and `HistoryStaysListed` (`HistoryListed`), with
  `PagesAssumption`: whatever was there when the client began is in its list or
  below its cursor, and what is in the list is at the cursor or above it
  (`PagesFit`). A page is the keys below the cursor by rank; the lemmas
  `RanksAre` and `PageIs` show that ranks number a finite set of keys without
  gaps, so that a page is sorted, leaves nothing out above its last key, and is
  the whole rest when it is not longer than the limit.
* `EngineProofs`. `OrdersAreRight` and `GraphStaysRight` (`GraphIsRight`), with
  `NAssumption` and `GraphAssumption`: the invariant `GraphInv` adds `Sorted`,
  that what remains to be counted of a task is the number of its needs that are
  not in the order yet, and that exactly the tasks with nothing remaining are
  queued or ordered. When all are ordered no set of tasks is cyclic, since the
  first of them in the order comes after its needs (`OrderBreaksCycles`, with
  `Least` from the well-founded order of the naturals); when some are left over
  each of them needs another one of them (`RestIsCyclic`).
  `CacheKeepsItsWord` and `CacheStaysTrue` (`CacheHolds`), with
  `CacheAssumption` and `NobodyAssumption`: the invariant `CacheInv` adds, for
  each process, that it `Fits`: it owns the key it is at work on (`Holding`);
  the outputs are as they were before, but for those it has replaced so far
  (`Restoring`), so that a rollback from any point ends where the restore
  began; and what it has made so far was made from inputs between those of its
  key and the present ones (`Saving`), so that equal inputs at the end mean
  that nothing changed between. That others do not disturb it needs that of
  the processes in one directory one is at work (`Alone`).
  `FilesStayWhole` and `FilesStayKept` (`FilesKept`), with `FileAssumption` and
  `TreesAssumption`: the invariant `FileInv` says of the directory that what is
  in a directory has one (`TreeFine`); of a file that is being read that it
  still is what it was when it was opened, wherever it has been moved, or that
  the task will see that it changed (`ReadsFrom`), so that the two chunks it
  compares are of one version (`ReadsOne`); and of a tree that is copied that
  each listed entry is still to be copied or is in the stage under its name,
  once (`CopiesStand`). An editor may write in place what a task reads, and
  another task may move it with the directory it is in: `FollowedIs` is the
  lemma that an open file keeps its content on the way. The assumptions keep
  the operations inside the paths: what is copied or moved with its entries has
  room for them (`Roomy`), and directories are made where they can hold some.
  `LegacyRunsStayRight` and `LegacyStaysRight` (`LegacyHolds`), without
  assumptions. First the order: a chain whose vertices need earlier ones only
  (`ChainFine`) has one (`OrderExists`, built vertex by vertex: `NextIs` finds
  the one that has waited longest), no vertex comes twice in it (`OrderOnce`)
  and each comes after all it depends on (`NeedsPrecede`). Then the invariant
  `LegacyInv`: what each of the two plans has come to in each phase
  (`MainsFit`, `FinalsFit`), that a task is given up only for a failure or a
  cancellation (`Excused`), which is what makes exit code 1 truthful, and that
  of two finalizers that were started one has ended, so that none is killed
  because another failed. A command needs its predecessor alone: that all
  before it have succeeded follows with `LastBefore` and is what `CommandsFit`
  keeps. That nothing is alive when the host leaves needs the token to have
  been cancelled before it waited (`HostFits`).
  `CachedPlansAreSafe` and `CachedPlansStaySafe` (`CachedPlansAgree`), with
  `RulesAssumption`: paths are locations, and no link is on a task's canonical
  directory. One step decides, so the invariant `RulesInv` is that the verdict
  is that of the check; the work is in what the check decides. `RelatedIs`: a
  walk along the needs reaches what precedes the task, and one along the
  dependents what it precedes. Both sides quantify over sets, and the sets that
  refute one are the complements of those that refute the other.
  `UnlinkedIs`: a path on which the code finds no link below the task's
  directory is what it resolves to, so that comparing declared paths compares
  files. `WorkspaceIs` then takes the comparison along the ancestors to one of
  every two paths, `PoliciesAre` and `StorageIs` do so for the paths of one
  task and for the cache.
  `MatrixAlwaysTells` and `CasesStayApart` (`CasesDiffer`), with
  `MatrixAssumption`: the separators are not plain symbols, codes are, and no
  two symbols have one code. `FlattenIs` says of the library's `FlattenSeq`,
  which folds, that it appends one sequence after the other (by the least
  place where it would not), and with it `ComponentTells`: equal components are
  of equal texts. Their last pieces are equal (`LastPiece`: a plain symbol or
  the escape of one can be told from the end), so the shorter text would be
  a counterexample before the longer one. No component has a comma or an equals
  sign, so a key is cut at its last comma in one way (`LastSeparator`), and the
  invariant `CasesFit` can be kept by `Product`, whose cases get the new axis
  last: equal keys have equal last axes and equal rests, which are cases of the
  matrix before.
* `LiveProofs` (`HostAssumption`, `CopyAssumption`): `HostIsSafe` and
  `HostStaysShared` (`HostHolds`) by `HostInv`: two tasks that hold a name share
  it (`Leased`), a task that runs or is being dropped has all its names
  (`Held`), and processes belong to tasks that run (`Attended`). A prefix is
  stable because installers hold its name alone and `Attended` ties their
  processes to `Held`. `CopyIsOfOneMoment` and `CopyStaysOfOneMoment`
  (`CopiedAtOnce`) by `CopyInv`: versions are numbered by the moments before
  them, so that a file whose digest is an old version was that version when the
  last sweep began; if every digest is what was copied, the copy is the source
  as it was at that moment (`SweptSource`). That no thread fails unnoticed and
  that the threads leave no file out is `Swept`.
* `RegistryProofs`. `SyncExcludes` and `SyncStaysExclusive`
  (`IndexersExclude`), with `SyncLimits` and `NobodyIsNobody`: the claim of an
  account is as old as its worker and names no second one. `SyncLimits` says
  that a claim outlives the start of a worker and its fetch: the proof
  needs both, while the code bounds the fetch (`tangled.rs`, 120 of 300
  seconds) and leaves the start to the host. `IndexIsGapless` and
  `IndexStaysRight` (`IndexIsRight`), with `SourceAssumption`,
  `HistoryAssumption`, `BoundAssumption` and `ClockAssumption`: what a source
  has passed since it subscribed is in the ledger or waits in the queue in the
  order of the history (`Contiguous`), so that a checkpoint passes nothing that
  is not in the ledger (`NoGaps`). `IndexIsGapless` is about sources that had a
  checkpoint from the start, whatever their clocks say. `IndexStaysRight`
  holds where every source has one (`Fresh = {}`) and their clocks agree
  (`ClocksAgree`), which is the instance of the run; the first is the hazard of
  a lost event, the second the disagreement of `indexer_stale`. It includes
  the refinement of `PackageIndex`: a row shows the newest revision in the
  ledger (`Rows`), and a step learns one event or none.
* `ServicesProofs`. `ProbesStayJudges` (`ProbesJudge`), with `ProbeAssumption`:
  the failures that are counted are the streak (`Counting`).
  `ManagersStayReached` (`ManagersServe`), with `ClientAssumption`: `Locks`,
  that the lock is held from before the socket is bound until after it is
  removed, and `Leased`, that a client in its command was `Granted` a lease
  which its manager still has or lost for a reason. `ProjectsStayKept`
  (`ProjectsKeep`), with `RowAssumption` and `PageAssumption`: names are a
  user's or made of the project's own id (`OwnNames`), which is why copies do
  not collide, and a listing has seen what its cursor has passed (`Listings`).
  `SavesStayMerged` and `WorkflowsStayMerged` (`WorkflowsMerge`), with
  `WorkflowAssumption`: a save that is past its check holds the lock, and what
  it will write is the present file with its own field changed, or the file was
  `crossed` (`AsRead`). That a file is always readable has the hypothesis that
  the branches one can switch to are (`ReadableBranches`).
  `PackagesStayTrue` (`PackagesHold`), with `PackagesAssumption`: every record,
  and what the index serves of it, is of an artifact that was stored (`Told`);
  an entry of the lock file pins what was published under its version
  (`Pinning`), and each command has in hand what fits the step it is at
  (`Fits`).
  `SupervisionStays`, `ServicesStaySupervised` (`SupervisionHolds`) and
  `ClientsStayServed` (`ClientsServed`), with `DefinitionAssumption`,
  `OrderAssumption` and `ServiceAssumption`: the invariant `SupervisorInv` says
  that `manual`, until a restart, and each lease are closed under dependencies
  (`HeldWhole`), so that a release stops only what no other holder needs; that
  what is wanted is held (`AliveOwned`); and that what the tick has passed has
  its dependencies running (`InPlace`). The last is inductive because a tick
  visits dependencies first, so that a later visit takes nothing from an
  earlier one.
* `StudioProofs` (`JobsAssumption`, `BoundAssumption`, `NoneAssumption`):
  `StudioRunsHold`, `StudioStaysTrue` (`StudioHolds`) and `UpdatesWait`
  (`UpdateWaits`) by `StudioInv`. It says of each run how its row, the
  executor's copy, its process and a cancellation under way go together: what
  is before the executor's job is done and what is after it has not begun
  (`JobsFit`), the row of an executor that has begun says RUNNING unless the
  run was cancelled, and SUCCESS or FAILURE only when it is done (`RowFits`), a
  failed process is remembered by the process, the error, the status that will
  be saved, or the row (`ProcessFits`), and the jobs of the row, and those a
  cancellation has read, are at most as far as those of the copy (`Trails`).
  The last is why a save of the executor takes nothing back whatever a
  cancellation has put in the row. A cancellation that was read before and is
  saved later is a coherent run whenever that happens, which is why
  `cancelling` is part of it. `WaitsForRuns` is a conjunct of it: a run that
  has a row, is not active and was not cancelled has lost its executor for good
  (`FinalIsOver`).

In the modules of several parts, each of these is proved of the module's own
specification, or of its step, and carried to the property of the run by the
one step in which `part` stays what it is.

What is model-checked only, and why:

* every liveness property, since the prover can deal neither with fairness nor
  with `ENABLED`. Every invariant and action property of the
  passing runs is proved.

## 6. Disagreements with the documentation

Four runs expect a violation.

* `scheduler_skip`. A service whose prerequisite is skipped by a condition is
  skipped by condition too, but the sweep takes its terminal status for a
  failure (`X/lib.rs:1319-1325`) and abandons its consumers without that mark:
  the run is reported as failed although nothing failed. The comment at
  `X/lib.rs:1316` speaks of a failed service, and
  `engine/crates/executor/tests/workflow.rs:73-77` expects success of a plan in
  which a condition skips a task. In every other case the outcome is right,
  which is what `OutcomeAgrees` and its theorem show.
* `indexer_stale`. `mutate` compares the time of an event with that of the row,
  and times come from the clocks of different sources: an old revision that is
  delivered late by a source whose clock is ahead replaces a newer one, for
  good, since the newer one is then a duplicate. The registry's documentation
  (`apps/api/README.md:43-44`) says that stale revisions never overwrite newer
  metadata. With agreeing clocks it is right, which is what `IndexIsRight`
  shows.
* `journal_retry`. A retried task without a process has its log cut to nothing
  (`X/lib.rs:1699`), and the journal goes on from the position it had reached:
  what was not copied yet, and the beginning of the next attempt, are lost.
  `engine/crates/cli/src/cmd/progress.rs:178` calls the journal lossless. For
  tasks with a process it is, which is what `JournalHolds` shows.
* `packages_alias`. `install` computes the declarations before it takes the
  lock (`src/lockfile.rs:262`) and drops an alias that another command has
  recorded in the meantime. `docs/site/reference/lockfile.md:70-72` says that
  concurrent processes cannot overwrite one another's additions.

## 7. What is not modelled

* Scheduler: the synchronisation of a Cargo worktree, logs, environment
  variables, the contents of outputs. What a probe reports is an input here,
  and what `ServiceProbe` is about.
* Frontier: conditions that skip a task are always false for these plans;
  `TimedOut` is folded into "failed"; errors that abort the whole run.
* DependencyGraph: duplicate and empty names, which are refused before.
* ActionCache, WorkspaceCopy, RunProducts: digests do not collide; modes,
  times and links inside outputs. FileTasks: queries, globs and modes.
* HostTools: the death of an engine; the arguments of primitives beyond what
  decides whether they run.
* Journal: rendering; diagnostics and exporters of telemetry.
* LegacyGraph: providers, directories and environments of commands; the
  objects of the schema that only wrap others.
* RunServer: HTTP, authentication, unreadable state files, more than one
  failing save together with a kill. A loss of power is modelled for products
  and reports only.
* Supervisor: log files, the building of commands, errors of the operating
  system when signalling. ServiceClients: following logs.
* Packages: the choice of the files of a release, search, Git transport.
* Indexer: validation of records beyond valid and invalid; download counters.
* StudioRun, Projects: settings, events, logs, search; remote runs.
* Whole components: see section 1 and the notes in `PROJECT.json`.

## 8. Plan

Written so far: every component of section 1 that keeps state.

Next modules: the command line's translation of a pipeline into a remote
plan (`src/remote.rs`, `src/pipeline.rs`), and the composition of
`ServiceClients` with `Supervisor`, for what becomes of services whose manager
is killed.

No theorem is left to prove: every invariant and every action property that the
passing runs check is one.

## 9. Running

    tlc -config MCScheduler.cfg MCScheduler
    tlc -config MCEngine.cfg MCEngine
    tlapm SchedulerProofs.tla
    tlapm FrontierProofs.tla
    tlapm RunServerProofs.tla
    tlapm LiveProofs.tla
    tlapm RegistryProofs.tla
    tlapm ServicesProofs.tla
    tlapm StudioProofs.tla
    tlapm EngineProofs.tla

`PROJECT.json` lists every run with its properties, the mutants, the map from
definitions to source lines, the hazards and the theorems.
