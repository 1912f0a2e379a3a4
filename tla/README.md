# A verification project for OntoIndex

OntoIndex indexes source repositories into a graph database (LadybugDB, "lbug")
and serves it to agents and browsers. This directory holds TLA+ models of the
parts of it in which several activities share state, the TLC configurations that
check them, and TLAPS proofs. Paths below are relative to
`src/ontoindex/ontoindex/src/` unless they start with `src/`.

    tlc -workers 2 -config pool_entry.cfg MCConnectionPool.tla
    tlc -workers 2 -config services.cfg Services.tla
    tlapm ConnectionPool_proofs.tla

## 1. Inventory of the system

The program is TypeScript on Node.js: one thread per process, so a piece of code
between two `await`s is atomic and everything hard happens at `await`s, in
callbacks and timers, between processes, and when something fails half-way.

### Processes

* the **server** (`server/`): HTTP API, analysis and embedding jobs, MCP over HTTP;
* the **MCP server** over stdio (`mcp/`), the same backend for one client;
* the **CLI** (`cli/`), which analyses a repository in its own process;
* **analysis workers** (`server/analyze-worker.ts`), forked per job, and inside
  an analysis **parse workers** (threads or processes).

Readers open the database through the connection pool, the writer (an analysis or
embedding) through the singleton adapter. Across processes they are kept apart by
the native lock of the database file, inside a server by repo locks in memory.

### Components

| component | state it keeps | operations | what is hard | what makes it correct |
|---|---|---|---|---|
| connection pool, one entry (`core/lbug/pool-adapter.ts`) | available connections, counter of those out, queue of waiters, closing/closed flags | checkout, checkin, retire after a timeout, close when idle, close by eviction | hand-offs, native calls that outlive their timeout, closes that wait, time out and overlap | a connection has one user; none leaks; the counter is exact; waiters are served in order and always answered; no entry stays "closing" |
| connection pool, registry (same file) | map of entries, cache of shared databases with reference counts, pending inits, idle timer | initLbug, closeLbug(repo), closeLbug(), eviction, idle sweep | inits that await three times, lock retries, repo ids with one path, closers that outlive their entry | counts are exact; a database is open as long as someone uses it; busy entries are spared; inits and closes end |
| analysis jobs (`server/analyze-job.ts`, `server/api-analyze-routes.ts`, `server/analyze-worker.ts`) | job records, child processes, retry/kill/timeout timers, cancel handlers | POST, DELETE, worker messages and exits, retry, timeout, cleanup | exits and messages in either order, cancels at any moment, crashes and retries, duplicates | one worker per repository, under its lock; the lock always comes back; finished or cancelled jobs stay so |
| repo locks (`server/api.ts:951-1067`) | readers and writer per storage path | read lock, write lock, waiting write lock, release by token | analysis, embedding, deletion, reads of one repository | writers exclude everybody |
| embedding jobs (`server/api-embed-routes.ts`) | job record, abort controller, timeout, lock | POST, cancel, timeout | pipelines outlive the cancellation, the timeout or the record of their job | a pipeline keeps the lock until it ends |
| job ledger (`server/analyze-job.ts:81-143`) | a file with the jobs | debounced save, load | crash between transitions and saves; saves that overlap or fail; orphaned workers | when no save is due, a restart finds every job |
| git clone (`server/git-clone.ts`) | a checkout directory | clone or pull, abort | runs before the repo lock is taken | no pull under an analysis |
| MCP sessions (`server/mcp-http.ts`) | map of sessions | create, evict, expire, close | cap tested before awaits | the cap is passed only by what is in flight together |
| MCP backend runtime (`mcp/local/local-backend-repo-runtime.ts`) | initialised repos, indexedAt per repo, pending re-inits | ensure initialised, staleness check, refresh of all handles | close and reopen that fail half-way, handles replaced under an open entry | no half-built index is served; a new one is, eventually |
| lbug writer session (`core/lbug/lbug-adapter.ts`) | one global database and connection, promise-chain lock | withLbugDb, busy retries, close | retries outside the lock, close without it | an operation runs on its own database |
| parse worker pool (`core/ingestion/workers/worker-pool.ts`) | workers, listeners and watchdog per dispatch | dispatch, timeout, respawn, terminate | failure of one chunk, overlapping dispatches | each dispatch settles once with its own results |
| phase runner (`core/ingestion/pipeline-phases/runner.ts`) | results of the phases | sort, run | cycles, missing phases | dependencies run first; a cycle is reported |
| analysis (`core/run-analyze.ts`) | files of the index | full and incremental run | crash between writing and registering, checkouts while it reads, writers of another kind beside it | `meta.json` names the database that is there, and its commit |
| repo registry (`storage/repo-manager.ts`) | registry.json, its lock file | register, unregister, reclaim a stale lock | competing processes, crashes, two-step reclaiming | mutations exclude each other; a dead holder does not block |
| audit event store (`core/audit-lifecycle/`) | event file, update lock, session locks | append, update, validate, transitions | stale lock by age, lost updates | no event is lost; findings move along allowed transitions |
| group bridge (`core/group/`) | bridge database, .bak, meta.json | swap by renames, recovery by readers | crash or reader between renames | there is always a bridge to open |
| call and scope resolution, MRO (`core/ingestion/`) | none between runs | pure functions of the graph | C3 failure cases | agrees with its definition |
| extraction, CSV, search, embeddings, wiki, LSP, MCP tools, CLI, web, eval, packs | little or none | parsing, queries, formatting | | |

`PROJECT.json` lists every component with its status and every hazard at its line.

## 2. The models

| module | models | kind |
|---|---|---|
| `ConnectionLease` | what an entry of the pool promises: at most MaxConns connections leased, each to one call, none after the shutdown | abstract specification |
| `ConnectionPool` | one `PoolEntry` and the calls that use, retire and close it | detailed; implements `ConnectionLease` |
| `PoolRegistry` | the pool as a whole: inits, shared databases, eviction, closers. An entry is reduced to its count of busy connections | detailed |
| `AnalyzeJobs` | the job manager, the POST and DELETE handlers, the worker process, the repo locks | detailed, composes four source files |
| `MCJobHistory` | `AnalyzeJobs` with a history variable, the jobs that were cancelled | for one run |
| `ParsePool` | the parse workers, dispatches with their failures and watchdogs, and the recovery around them | detailed, composes three source files |
| `RepoIndex` | the files of one index, the analyses that rebuild it, and a backend that serves it | detailed, composes `analyze`, `run-analyze` and the repo runtime |
| `RegistryLock` | processes that register repositories under the registry's lock file | detailed |
| `AuditStore` | calls that append audit events under the store's lock file | detailed |
| `LbugSession` | the promise chain around the one writable database | detailed |
| `McpSessions` | the table of MCP sessions over HTTP | detailed |
| `JobLedger` | the file of the jobs, its debounced and chained saves, restarts | detailed |
| `EmbedJobs` | embedding jobs and the deletion of a repository, as users of its lock | detailed, composes three source files |
| `ServerServices` | the last six side by side | composition |
| `PhaseRunner` | sorting, running and disposing of the pipeline's phases | algorithm |
| `MethodResolution` | C3 and breadth-first resolution of inherited methods, in the graph pass and in call resolution | algorithm |
| `Services` | `ServerServices` and the two algorithms | composition |
| `MCConnectionPool`, `MCPoolRegistry` | symmetry sets and constants for TLC | |
| `DistinctQueues` | lemmas about queues without repetitions | proofs |
| `*_proofs` | theorems about the module of that name; `Services_proofs` has those about the parts of `ServerServices`, the phase runner and the composition | proofs |

The parts of `Services` share no state, in the code or in the model. A behaviour of
`Services` follows one of them, chosen by its initial state, so the run explores
each of them completely and none of their products; the theorems about
`ServerServices` and `Services` carry the proofs of the parts over to the composition.

### ConnectionPool

Variables `available`, `checkedOut`, `waiters`, `closing`, `closed` are the fields
of `PoolEntry`. `held` and `phase` say what each call of `executeQuery` or
`executeParameterized` is doing; a call is *lingering* when its caller already has
a `QueryTimeoutError` but the native promise has not settled (`withTimeout`,
`retireWhenSettled`). `open` is the set of native connections created and not
closed; the code has no such variable, it is what a leak would be visible in.

| code | actions |
|---|---|
| `checkout` | `CheckoutAvailable`, `CheckoutThrows` (the integrity error), `CheckoutQueues`, `WaiterTimeout` |
| `checkin` | `QueryEnds` = `ReturnToClosed` or `HandOff` or `ReturnToAvailable` |
| `withTimeout`, `retireWhenSettled` | `QueryTimeout` |
| `retireConnection` | `Retire`, then `DrainCreates` / `DrainRejects` once per turn of its loop; `draining` keeps everything else still, as the loop has no await |
| `closeOneWhenIdle` | `CloseStart`, `ClosePoll`, `CloseTimeout` |
| `ensureIdleTimer`, `evictLRU` → `closeOne` | `CloseIdle` |
| `closeOneWhenIdle` of a former entry of the repo id → `closeOne` | `CloseStale` |

The loop of `retireConnection` first looks for an available connection.
`WaitersOnlyWhenBusy` shows that a call never waits beside one, so this branch is
dead code and has no action.

### PoolRegistry

`reg` is the module state of the file (pool, dbCache, reference counts, open
databases, idle timer), `entry` the entry objects, which live on after leaving the
pool while queries or closers refer to them, `init[r]` the progress of
`doInitLbug` between its awaits (stat, delay of a retry, loading of extensions) and
`closer[k]` a call of `closeLbug`. `StatDone` is everything from the stat to the next
await: eviction, the cache lookup, and either the attachment to a cached
database or the first attempt to open one. `CloseAllStart/Next/Ends` are
`closeLbug()` without argument. Entry and database identities that nobody
refers to are used again, which keeps the model finite.

### AnalyzeJobs

`job[j]` is the record of `JobManager`, `task[j]` the variables of the closure of the
POST handler (`lockReleased`, `workerProcessActive`, `workerCompleted`, the retry
timer, the registered cancel handler), `child[j]` the process with its unread IPC
messages and the timers of `registerChild` and `cancelJob`, `lock[r]` the entry of
`activeRepoPaths`. The process takes its own steps (start, progress, finish,
uncaught exception, SIGTERM, exit, crash); the server handles a message, an exit
or a timer as one step. Node promises no order between `exit` and the last
messages of a child, and the code defends itself against it, so both orders occur.
The exit listeners of `forkWorker` and of `registerChild` run in one event and are
one action, `OnExit`.

`OnSpawnError` is the child's `error` event: the process could not be spawned, or it died
before its start message could be sent and its exit is still to come. The event for a
`kill()` that fails on a live child is left out.

### ParsePool

`workers` is the array of the pool, with the holes that `workers[i] = ...` can leave
in it; `proc[w]` is a worker, what it was told (`cmd`) and what it sent (`out`);
`piece[i]` the closure of chunk i of the latest dispatch; `stale` holds closures of
earlier dispatches that never settled; `run` the dispatch and what it streamed; `todo` the calls of the recovery that are still to come; `graph`
counts how often the results of a file were applied. The isolation (thread or
process), the failure policy and the faults of the files are chosen by `Init` and
never change.

| code | actions |
|---|---|
| `parse-worker.ts`, its message handler | `WorkerRuns` |
| `terminate`, the death of a worker | `WorkerDies`, `WorkerKilled`, `OnExit` |
| `dispatch` | `StartDispatch` |
| handlers of `sub-batch-done`, parts, `result`, `error` | `OnMessage` = `OnSubBatchDone`, `OnPart`, `OnResult`, `GiveUp` |
| the watchdog, also of a piece left over from an earlier dispatch | `Watchdog`, `StaleTimer` |
| a piece left over that ends after its dispatch | `StaleSettles` |
| the reset after a failure, adaptive and sequential recovery | `ResetDone`, with `Retry` |
| the end of parsing | `Close`, `Closes` |

### RepoIndex

`disk` is what a path lookup finds (database file, `meta.json`, registry entry, lock
file); `file[d]` what is in database file d, removed ones included, since a backend
that has one open goes on reading it; `run[n]` an analysis, with the commit, the tree and
the `meta.json` it has read, and the database it has open; `backend` the
repo handle, its checks in progress and its open database.

Each analysis is of one of two kinds, chosen when it starts. A process of the command
line takes `analyze.lock`; a worker of the server does not, and only the repo lock of its
server keeps it from another worker. So one of each kind may run at once, on one database.

| code | actions |
|---|---|
| the repo lock of the server | `Start` |
| `acquireAnalyzeLock` (`cli/analyze.ts`) | `CreateLock`, `WriteLock`, `ReadLock`, `CompareLock`, `UnlinkLock`, `Release` |
| `runFullAnalysis` | `ReadCommit`, `Reregister` (the early return), `Scan`, `RemoveDb`, `CreateDb`, `Load`, `SaveMeta`, `Register`, `CloseDb`, `Fail`; `Crash` anywhere |
| the same, beside an analysis of the other kind | `OpenOtherDb`: the database it did not create is locked, or takes the rows of both |
| `refreshRepos`, for the `complete` message of a worker and at any other moment | `Reload`, `Refresh` |
| `ensureRepoInitialized`, the opening of the pool, the idle close | `EnsureInitialized`, `Preflight`, `CloseEntry` or `CloseTimesOut`, `OpenDb`, `IdleClose` |

Reading the commit, scanning the tree, removing the old database, and loading the rows (which
reads the files again) are steps of their own, and another commit may be checked out
between any two of them (`Commit`).

`upsets` remembers what went wrong or what the code does not exclude, for the properties that
cannot survive it: `fault`, an analysis crashed or failed; `checkout`, another commit was
checked out while one was read; `overlap`, analyses of both kinds at once; `unlinked`, a process
unlinked a lock that was no longer the dead owner's; `refresh`, a handle was replaced
while the database of the old one was open; `timeout`, the changed database could not be
closed, after the handle had got the new stamp. Each property names the upsets it
excludes, and holds under all others:

| property | excludes | because |
|---|---|---|
| `OneAnalyzer` (of the command line) | `unlinked` | compare and unlink are two steps |
| `MetaTellsDb` | `fault`, `overlap`; for the commit also `checkout` | the database is removed before `meta.json` is replaced; there is no lock between the kinds; the commit is read first |
| `ServesComplete` | `fault` | a crash leaves a database without its lock |
| `CatchesUp` | `fault`, `overlap`, `refresh`, `timeout` | the handle has the new stamp and the entry the old database |

### The services

* `RegistryLock` (`storage/repo-manager.ts`): `main` and `reclaim` are the lock file and
  the lock of those who take it away from a dead process; creating a file and
  writing its record are two steps, of which the second may fail and leave an empty file
  behind; every look at a file and the unlink that follows are two steps too. A process registers its repository or, if it is in `Removes`,
  unregisters it. `locker[p]` is a process in `withRegistryMutation`, with the copy of
  the registry it read. `lost` remembers that a process died, or could not write the file, while the
  reclaim file was its own.
* `AuditStore` (`core/audit-lifecycle/audit-event-store.ts`): `Acquire`, `Stat`, `Remove`
  and `GiveUp` are the turns of the lock's loop, `Load`, `Save`, `Reload`, `Project`,
  `Release` the body of `appendEvent`; `Throw`, `Crash` and `Slow` are counted in `faults`.
* `LbugSession` (`core/lbug/lbug-adapter.ts`): `chain` is the promise chain with its owner
  first. A call of `withLbugDb` enters (`Enter`), opens (`Open`, `OpenFails`), operates
  and ends (`Succeed`, `Fail`, `TimeOut`, `Busy`); one that finds the database busy while it
  opens or operates leaves the chain, joins it again to clean up (`QueueCleanup`, `Cleanup`), pauses outside and tries
  `Again`. `CloseForPath` and `Shutdown` are `closeLbugForPath` and `closeLbug`.
* `McpSessions` (`server/mcp-http.ts`): `Admit` is everything before the first await of an
  initializing request, `Register` what follows the last; `Use`, `CloseSession`,
  `SessionClosed` and `CloseAll` are the other ways the map changes.
* `JobLedger` (`server/analyze-job.ts`): `ScheduleSave` is `scheduleLedgerSave`, called by
  `Create`, `Progress`, `Finish` and `Cleanup`; `SaveBegins`, `SaveEnds`, `SaveRefused` and
  `WriteFails` are one link of the chain of saves; `Restart` is `loadLedger` in
  the next server, or in this one after it died at any moment.
* `EmbedJobs` (`server/api-embed-routes.ts`, with the locks and `DELETE /api/repo` of
  `server/api.ts`): `embedJob` is the record of a job, `embedTask` the closure of its
  request, which lives until its pipeline ends. `Post` takes the lock and starts the
  pipeline, `PipelineEnds` is both ends of the closure, `Cancelled` is `cancelJob`, called by
  `Cancel`; `TimeOut` is the timer, `Cleanup` drops a job, whether or not its pipeline
  has ended. `DeleteAsked`, `DeleteBegins`, `DeleteRefused` and `DeleteEnds` wait for the
  lock as `acquireRepoLockWhenAvailable` does; analyses and readers come and go.
* `PhaseRunner` (`core/ingestion/pipeline-phases/runner.ts`): `Drain` is one turn of Kahn's
  algorithm, `SearchFrom` and `SearchOn` are `findCyclePath` (a start, and one look at a
  dependency by its recursive `dfs`, whose stack is `search.stack`), `PhaseSucceeds` and
  `PhaseFails` run a phase and dispose of the outputs that have no reader left. The lists are those of
  `buildPhaseList` for its options and profiles.
* `MethodResolution` (`core/ingestion/mro-processor.ts`, `model/resolve.ts`,
  `model/heritage-map.ts`): one action per turn of a loop, `doing` says which loop runs.
  `ComputeNextClass`, `GatherEnds` and `ClassEnds` are the loop of `computeMRO`, with `GatherOn` for
  `gatherAncestors`; `Enter`, `MergeBegins`, `MergeOn` and `MergeEnds` are `c3Linearize` with its
  work stack, on the cache that the classes of the pass share or on the new one of the call.
  After the pass, `Call` and `CallLinearized` are `lookupMethodByOwnerWithMRO`, for any one class, and `LevelOn`,
  `LevelEnds` are `getAncestors` of the heritage map, level by level and of bounded depth.

## 3. Runs

| run | instance | states | shows |
|---|---|---|---|
| `pool_entry` | 2 connections, 3 identities, 5 calls, 2 closers | 17,506 | all safety properties of an entry, waiters answered, closes end, and that it implements `ConnectionLease` |
| `pool_registry` | repo ids a and b on one path, c on another; pool size 1, 1 connection, 2 attempts, 3 entries, 3 databases, 1 closer | 968,465 (with symmetry) | reference counts, open databases, busy entries spared |
| `pool_registry_live` | a and b, 2 entries, 2 databases | 44,222 | inits settle, closes return |
| `jobs` | 1 job, 2 retries, 2 readers, 3 unread messages | 36,118 | locks around workers, retries; the lock comes back |
| `parse_pool` | 3 files, 2 workers, sub-batches of one, every assignment of faults, both isolations and policies, 1 worker killed from outside | 618,000 | no file lost or applied twice, no partial results, no stray threads, parsing ends |
| `repo_index` | 2 analyses of either kind, 2 commits, an index and possibly a lock left by a dead analysis; in one behaviour nothing goes wrong, or upsets of one sort, or faults and an unlinked lock | 1,295,008 | one analysis of the command line at a time, `meta.json` tells the truth, a backend serves complete indexes and catches up |
| `services` | below | 1,818,985 | the locks, tables and algorithms of `Services` |
| `pool_double_open`, `jobs_cancelled`, `parse_slots`, `index_stale`, `index_uptodate` | small | violated | disagreements of the code with its own words, section 5 |

`services` takes 3 processes that register (one unregisters) with 2 crashes; 3 appends with one fault; 3
calls on 2 databases with 2 attempts; 4 requests for 2 sessions; 2 jobs with
2 saves in the chain and one fault; 2 embeddings, 2 deletions, 2 readers and an analysis on one
repository; the program's lists of phases and all lists of
three phases with up to two dependencies each; and every hierarchy, cyclic ones
included, of 4 classes with up to 2 parents.

Why the bounds are enough:

* *Pool entry.* Two connections and five calls give a full pool with three waiters,
  and, with calls lingering, a refill loop of several turns. One identity
  beyond MaxConns suffices because a connection is closed before its
  replacement is created. Two closers overlap with each other, with idle closes and
  with stale ones. The proofs remove the bounds.
* *Registry.* Repo ids of one path and of two, with a pool of size 1, evict each other,
  share a database, open it twice and close it under each other. Three entries
  leave some that linger after their close, with a query or a closer. Liveness is
  about one init or closer at a time, so two entries and one path are enough there.
* *Jobs.* A repository's lock is all that jobs share; what another job can do to it
  is what the other writer does. So one job, with all its retries and message
  orders, beside that writer and two readers. Three unread messages are enough for
  progress, error and a second error before the exit. Cancelling, timing out and
  crashing are possible in every state. The proofs have any number of jobs.
* *Parse workers.* Three files and two workers give a piece of two sub-batches beside one
  of one, a window of two with a rest, and halves of it. A failed piece, a second
  one, a watchdog and an exit then meet in every order, also during the reset. A worker's
  identity is used again once nothing refers to it; there are `NWorkers >= Size` of them.
  The proofs remove the bounds.
* *Index.* Two analyses are what it takes to overlap, of one kind through a reclaimed lock or of
  both kinds without; the index from before is the third
  database a backend may have open. A commit may come back, which the early
  return needs to be wrong. `Upsets` lets each upset happen alone, any number of times, and a
  fault with the unlinked lock it takes; the proofs have any sets of them.
* *Services.* A lock needs a holder, someone who takes it away, and a third who comes
  between; with a second crash the one who takes it away dies too. Three calls on
  the chain are a running, a waiting and a pausing one. Four requests pass a cap of
  two by two. Four classes with two parents each have diamonds, cycles above a
  class, and orders that conflict. Two embeddings
  and two deletions contend with each other, an analysis and readers while a cancelled
  pipeline goes on. The locks, the sessions and the embeddings have proofs without
  these bounds.

Symmetry is used in runs without liveness properties only. Deadlock is checked in the
pool registry, the jobs and the parse pool. It is not in `ConnectionPool`, whose life
ends when the entry is closed, in `RepoIndex`, where the last analysis ends, and in
`Services`, whose algorithms end and whose calls are used up.

### Fairness

* `ConnectionPool`: the timers fire (waiter, query, close) and the refill loop goes
  on. A native promise need not settle, and no call need arrive.
* `PoolRegistry`: an init proceeds after its stat, delay or load, which the code
  limits by timeouts, and a closer after its polls. Queries need not end.
* `AnalyzeJobs`: server timers fire (retry, 30 minutes, SIGKILL), messages and exits are
  handled, and a worker that has sent its last message exits, for which it has a timer. An
  analysis need not end, a worker need not crash and need not react to SIGTERM: that is what
  the 30 minute timer and the kill timer are for. What they do not reach is named by
  `OutOfReach`, the exception of `LockComesBack`: a hung worker whose job had already
  failed by an uncaught error when the 30 minutes were over (nothing is sent to it then), and one
  whose job was revived by a late progress message when the kill timer looked (it
  looks once). Such a worker keeps the lock of its repository as long as it hangs.
* `ParsePool`: the event loop serves messages, exits and timers, workers run, terminated
  workers die. A stuck worker never answers; the watchdog is what ends it.
* `RepoIndex`: an analysis that was started goes on until it ends, fails or crashes, and
  the backend is asked again and again (`CatchesUp` is about a backend in use). Nothing makes
  an analysis start, a commit change, a handle be replaced, an entry idle or a close time out.
* The services have no fairness and no liveness property: what their calls wait for has
  a deadline or a number of attempts after which they fail, or is the end of an
  operation that nothing forces to end.

## 4. Proofs

All theorems hold for all values of the constants under the named assumptions of the
modules, and each rests on an inductive invariant that is proved from `Init` and
kept by every action, one lemma per action or per kind of action.

| module | invariant | theorems and the properties they state |
|---|---|---|
| `ConnectionPool_proofs` | `IInv` | `Exclusive` (`ExclusiveUse`), `NoLeak` (`NoConnectionLeak`), `CounterExact` (`CheckedOutIsHolders`), `WaitersBusy` (`WaitersOnlyWhenBusy`), `InOrder` (`NoOvertaking`), `ImplementsLease` (`LeaseSpec`); `TypeCorrect` and `ClosersRemain`, which no run lists |
| `AnalyzeJobs_proofs` | `JobsInv` | `JobTypes`, which no run lists, `LockCovers` (`LockCoversWork`), `HolderReleases` (`LockHolderReleases`), `CompletedStays` (`CompletedNeverReruns`) |
| `PoolRegistry_proofs` | `PoolInv` | `CountsAreExact` (`RefCountsExact`), `UsersAreServed` (`UsersHaveOpenDb`), `BusyEntriesStay` (`OnlyStaleCloserRemovesBusy`), `PoolTypes` (`TypeOK`) |
| `RepoIndex_proofs` | `IndexInv` | `OneAnalyzerAtATime` (`OneAnalyzer`), `MetaTellsTheDb` (`MetaTellsDb`), `BackendServesComplete` (`ServesComplete`), `UpToDateWhenCalm` (conditions for `UpToDateIsComplete`, which a run refutes without them) |
| `ParsePool_proofs` | `ParseInv` | `EveryFileAccounted` (`Accounted`), `NothingPartial` (`NoPartialResults`), `NoWorkerLost` (`NoStrayWorker`), `ParseInvHolds` |
| `Services_proofs` | `LockInv` | `RegistryExcludes` (`RegistryExclusion`), `RegistryKeepsEntries` (`EntriesKept`), `RegistryTypes` |
| | `ServerInv` | `ServerKeepsEvents` (`EventsKept`), `ServerProjects` (`ProjectionCurrent`), `ServerExcludesSwitches` (`SwitchExcluded`), `ServerBoundsSessions` (`SessionsBounded`), `ServerLedgerCurrent` (`LedgerCurrent`), `ServerEmbedsUnderLock` (`EmbedsUnderLock`), `ServerTypes` (the services' part of `ServicesTypeOK`) |
| | `PhaseInv` | `ReadsStayAlive` (`ReadsAlive`), `NothingIsKept` (`NothingKept`), `SortIsCorrect` (`SortCorrect`), `FallbackIsUnreachable`, which no run lists, `PhaseInvHolds`; `RunnerTypes` (the runner's part of `ServicesTypeOK`) |
| | `ServicesInv` | `ServicesTypes` (`ServicesTypeOK`), `ServicesKeepEntries` (`EntriesKept`), `ServicesAreCorrect` (the parts' invariants, for the specification that the run checks) |
| `MethodResolution_proofs` | `MroInv` | `C3IsCorrect` (`C3Correct`), `MroInvHolds` |
| | `EdgesInv` | `EdgesAgree` (`EdgesAgreeWithCalls`) |

*ConnectionPool.* For every set of calls and closers, every `MaxConns > 0` and every set
of connections with at least that many members (`PoolAssumption`, the clamp of
`readBoundedIntEnv`). The properties alone are not
inductive. A hand-off leaves the counter alone, which is right only if the waiter
holds no connection, hence that phases match holdings and that the queue lists
exactly the waiting calls; `Tail` and `RemoveAt` keep that true only if no call is
queued twice (`DistinctQueues`). A refill creates a connection only if fewer than
MaxConns exist, which `DrainInv` remembers from turn to turn: a refill starts
with `checkedOut = MaxConns - 1` and each turn either ends it or leaves the count.
`Accounting` relates the counter to the cardinality of the set of holders, through
one lemma each for taking (`TakeHeld`), dropping (`DropHeld`) and moving
(`MoveHeld`) a connection. For
the refinement a hand-off maps to `Transfer`, a checkout and a refill to `Grant`,
a return and a retirement to `Release`, every close to `Shut`, all else stutters.

*AnalyzeJobs.* The invariant is local: `Sound` says of one job how its record, its
closure, its process and the locks fit together. Who has a process that has not
reported `complete`, and did not die before it started, has the lock; who waits for a retry has it too and has no
process; no `complete` is on its way while the worker works; who waits for a
clone has nothing. A step changes one job and leaves the others sound because it
frees only its own lock and takes only a free one (`Combine`).

*PoolRegistry.* `Books` relates the counts, the cache and the set of open databases to the sets of
users, which entries and inits make up together; every operation is a few moves of that
ledger (`OpeningKeepsBooks`, joining, leaving), and the lemmas about the moves carry the
proof. Its heart is that `RefCountsExact` has a premise, no orphans, that might come and
go: the counts could be wrong while a database is open twice, and still be wrong when
the orphan is closed and the premise holds again. They are not: once a
path was opened twice, whoever uses the orphan gives its reference back to the
other one, so some orphan keeps more references than users (`Leaked`); an orphan is only
ever closed by an init that fails as its last user, with a count of one, and so a leaked one
never is. Either that, or everything is exact. That the sets of users are finite is part of the
invariant, so that no constant has to be finite.

*RepoIndex.* Three arguments, each under the upsets that would break it, for any number of
analyses of either kind and any number of commits. (1) Until somebody unlinks another one's lock, the lock file
names the process of the command line that is inside, and who is about to reclaim
it has seen a dead owner (`LockTells`): crashes and failures do not disturb this. (2)
Without a crash or failure the database on disk is complete or locked by the analysis that
loads it, and the one a backend has open is complete (`Served`): the overlap of both kinds
does not disturb this. (3) Without either upset the lock file and the server's admission make
the analyses one after another (`Exclusive`), `Progressed` says for each place of an
analysis what it has read and written by then, and so a single one keeps `Settled`, which is
`MetaTellsDb`; what concerns the commit is under the further condition that none was
checked out meanwhile (`ReadOne`). `UpToDateWhenCalm` tells how far the comment
holds that the run `index_uptodate` refutes: without faults, overlaps and such checkouts.

*RegistryLock* (in `Services_proofs`, `LockInv`). Holders own the lock file and reclaimers the reclaim file, whose
owner is a reclaimer, hence at work; so the reclaim file is never taken away, one
process at a time compares and unlinks, and the owner of what it unlinks died or gave up. All of
this is under the condition `~lost`, that no process died or gave up while the reclaim file was
its own: then two processes may both find it dead and unlink it, the second
time a live one. The condition is needed, but only from four processes
on: there TLC refutes `RegistryExclusion` without it, even if none dies (1.4 million
states, too many for a run), while with the three processes of `services` it holds even so.

*AuditStore* (`AuditInv`). Without faults the lock file names the one call that is inside, so
loads, saves and projections do not overlap. With faults a lock is removed by its
age, without asking whose it is by then, so the condition `faults = 0` is needed.

*ParsePool.* For any number of files, any `Size` of the pool, any number of identities
from `Size` on, and any sizes of sub-batches and windows. `Tiled` says that what
waits is a row of tasks without gaps, of which a dispatch or the recovery replaces the
first by a cut of it (the lemmas on `Cut` say that its parts tile the same files);
`Booked` relates that row to the graph and the quarantine. What makes it hard is that a
dispatch may apply its results only if they are complete, and that nobody compares
them with the files: `Streaming` says that while a dispatch runs, each file of its
task was streamed once, or one open piece still owes it, or some piece has failed
and will end the dispatch by a rejection. So when the last piece ends with its
result, exactly the task's files were streamed. For this no message may reach a
piece that is not its own, although identities, slots and closures are used again:
`Wired` says which worker each open piece listens to and that what the worker does and
has sent is what the piece expects, `Leftover` that a piece left over from an
earlier dispatch is alone with its worker, and `Quiet` that a worker of the array that
nobody listens to has nothing to do and nothing to say. `Threads` is the stronger
form of `NoStrayWorker` that is inductive.

*PhaseRunner.* For the program's lists and all lists of three phases with any number of
dependencies each (`PhaseAssumption`: `MaxDeps` is a natural number). `Sorting`: the degree
of a phase is the number of places
where it names a dependency that is not sorted, and the queue holds the phases without
such a place; so whatever is sorted comes after all it depends on, and if the lengths agree
everything is sorted, once. `Disposal`: while phases run, the count of an output is the
number of places (`Mentions`, a set of pairs) where phases still to run name it, and what is
cleared is the data of outputs that nobody waits for and what phases emptied
themselves. That this is enough rests on facts about the lists (`WellFormed`), proved for
each of them: nobody reads an output without depending on its phase, and what a
phase empties only its own dependencies and itself read. A list for which this fails is what
the hazard is about. `Stuck` and `Searching`: what could not be drained depends on something
else that could not be, so the search always finds a dependency to go on to; it pops
nothing, what it visited is on its stack, and as no name is there twice it must come
to one that is. `FallbackIsUnreachable` therefore needs no induction over the depth of the search.

*LbugSession* (`SessionInv`). The chain lists each call that waits or has the lock exactly once
(`DistinctQueues` again), and who opens or operates is first.

*McpSessions* (`McpInv`). Sessions and handlers in flight together are within the bound; a handler
that registers turns one into the other.

*JobLedger* (`LedgerInv`). What the running save writes, or else what the last one wrote,
is current unless a save is due: a change asks for a save in the same step, a save takes the
jobs when it begins, and a restart recovers what a second restart would recover
(`RecoveredTwice`). It is assumed that a truncated file is not the text of any jobs.

*Embedding jobs* (`EmbedInv`). `EmbedsUnderLock` is inductive once
it is known that a request whose pipeline does not run has no timer, handler or job
left, and that one whose job is active still has its handler: so one pipeline runs at a
time, a cancellation reaches it, and no other release of the lock has its token. The
assumption is that the writers of the lock have different tokens.

*MethodResolution.* For every hierarchy of any number of classes (`MroAssumption`: the bounds are
natural numbers and null is no array). Ancestors are defined as the least closed set above the
parents, so nothing is proved by induction over a hierarchy. A cache is `Sound` when each
entry is right, given those of the parents, which have entries too: null exactly where
no C3 order exists, below a cycle or below a null. An entry is made once and never
changed, so it stays right, whichever class was asked first; that is what the
hazard of a cache filled half-way through a cycle is about. `Working` says what the work
stack means: what is above a frame to be merged is an ancestor of its class, so a class met
again while it is visited inherits from itself, and when a frame is merged its parents are
known, or a cycle was found. `Merging` says of the merge that what was taken so far agrees with
all sequences and is the beginning of no wrong order: each head that is taken comes
before all that is left in every order there may be. If no head is
good while something is left, the class that comes first in a supposed order would be one:
there is no order (`MergingFails`).

`EdgesAgreeWithCalls` compares the pass over the classes with calls that come later and have
a cache of another history. `EdgesInv` says what each has found so far, and what the
edges were made from. Where a class has a C3 order, both find the same: each order in a
cache is what the merge picks greedily from the orders of the parents
(`CacheGreedy`), and of two caches that differed in a class, a least set of ancestors
with such a difference would have parents that agree, hence merges that agree
(`OneAnswer`). Where it has none, both walk breadth first, but not by the same code: the pass
counts the class itself as found only if a cycle comes back to it, the lookup from the
beginning. `BreadthFirst` describes either walk without its history: each class found
has a source found before it that names it as a parent (`Sourced`), and of two classes the
one that was named first comes first (`ByLevel`). Two walks that found the same classes found them in the
same order (`OneWalk`), so the first definer is the same (`SameFirst`). The premise of the
property is needed: the lookup stops at `MaxAncestorDepth`, the pass does not.

*ServerServices and Services.* Every part starts in, and moves by, its own specification while the
others stand still, so the parts' invariants hold side by side.

Only model-checked: all liveness properties, because the prover has no reasoning about
fairness and `ENABLED`. Every other property of a passing run is a theorem.

## 5. Where the code and its words disagree

With a run each:

1. *Double open* (`pool_double_open`): two inits that both waited for a locked database
   open it twice and the cache forgets the first. `RefCountsExact` and
   `UsersHaveOpenDb` show that counting is right as long as this does not happen.
2. *Cancelled jobs* (`jobs_cancelled`): a progress message read after a cancellation
   sets the job back to `analyzing`; the exit of its worker is then taken for a
   crash and a new worker is forked. The repository stays protected: `LockCoversWork` and
   `LockHolderReleases` hold. But if the worker hangs as well, the kill timer finds a job that
   is not terminal and is not set again, so that the lock does not come back (`OutOfReach`).
3. *Dead slots* (`parse_slots`): a watchdog that fires while the pool is reset assigns a
   slot of the emptied array, which leaves holes before it; the next dispatch throws at
   the first hole. `Accounted` and `ParseEnds` show that the recovery survives this.
4. *Stale backend* (`index_stale`): after an analysis in the server the handle has the new
   time stamp while the old database is still open, so the staleness check sees
   no change. The same happens after an analysis by the command line if anything refreshes the
   handles before the check; otherwise it is noticed (`CatchesUp`).
5. *Up to date* (`index_uptodate`): a rebuild removes the database and leaves
   `meta.json`; after a failure before `saveMeta`, and with the former commit checked
   out again, `analyze` reports that the index is up to date.

Seen in the models, without a run:

* The integrity error of `checkout` reports a leak whenever fewer than
  MAX_CONNS_PER_REPO connections exist, also after a timed out query was retired
  while nobody waited. Nothing leaked: `NoLeak` is a theorem.
* `closeOneWhenIdle` waits for the entry it found and closes by repo id, so a busy
  successor may be closed. `OnlyStaleCloserRemovesBusy` shows that this is the only way.
* A progress message read after the exit of a worker leaves its job `analyzing` for
  ever, and requests for its repository are answered with it.
* `MAX_POOL_SIZE` ("Max repos in the pool") is exceeded when all entries are busy or inits
  overlap. `analyze-job.ts:6` promises a single active job, `createJob` and its test one
  per repository.
* With process isolation a worker that died between two dispatches makes `postMessage` throw
  with its watchdog armed; the timer later replaces a live worker, which then is in no
  array and is never terminated, and whose piece the reset of its own dispatch does not
  wait for, so that this piece is left over in turn. Hence `NoStrayWorker` is about threads, although the
  ADR expects no zombies of either.
* The edges `computeMRO` writes for the strategy `ruby-mixin` take the first definition found
  breadth first, while the lookup takes the mixin included last; for
  `implements-split` the edge prefers classes to interfaces and the lookup does not.
* In the profile that stops at the symbols, nobody reads the bindings of the parse phase and
  nobody disposes of them.
* `ensureRepoInitialized` stores the new time stamp before it closes the old entry: when that
  close times out, the old database is served and not checked again (`CloseTimesOut`).
* An analysis of the command line and a worker of the server may rebuild one index at once,
  and a checkout during an analysis makes `meta.json` name a commit that was not indexed; both
  only last until the next rebuild, and no text of the program excludes them.
* After a crash inside the audit store two calls that waited may both remove the old
  lock and be inside together.
* The job ledger is truncated before it is written: a server that dies in between
  loses all jobs (`JobLedger` has this in `Restart`).

## 6. Not modelled, and the plan

Left out of the modelled parts: externally owned databases (`initLbugWithDb`, used
by tests), which idle entry is evicted (any), close listeners, progress
streams, back pressure of the parse pool, incremental analysis and the cached
embeddings of a full one, the pruning of registry entries whose index is gone, the validation of
audit events and the life of findings, loading and schema of the graph database, the
refusal of duplicate or unregistered phases, `METHOD_IMPLEMENTS` edges, overloads, and
the contents of queries and analyses.

Not modelled at all:

* the *group bridge*: `writeBridge`, its only concurrent part, has no caller outside the
  tests at this commit;
* the *clone directory*: what two pulls in one directory do is decided by git;
* extraction, grammars, CSV, search, embeddings, wiki, LSP client, MCP tools, command line,
  web interface, evaluation: parsing, queries and formatting without shared state.

What a next version would add, in order: workers that outlive a server restart, with
`JobLedger` under `AnalyzeJobs`; pruning in `RegistryLock`; incremental analysis in
`RepoIndex`.
