# A verification of the Parallel Filesystem Scanner Daemon

TLA+ modules for the daemon under `src/src/`: its queue and thread pools, its
Scheduler, its scan pool, the way from the directory tree to the index database,
the HTTP server, the logger and the process around them; TLC configurations that
check them on small instances, and TLAPS proofs for every value of the constants.
Source files are named relative to `src/src/`.

## 1. Inventory

The daemon scans directory trees on request. An HTTP client submits a root, the
*Scheduler* queues it and hands it to the *Manager*, whose thread pool walks the
tree, one job per node; events flow through a queue to the *ExportManager*,
which writes them to SQLite; the daemon's main thread shuts it all down.

```
HTTP workers --submit, cancel--> Scheduler --start_new_scan, cancel_scan--> Manager (scan pool)
                                  ^  ^  ^                                     |  |
                                  |  |  +------ notify_scan_finished ---------+  |
                                  |  +--------- notify_dispatch_available ----+  | push (events, sentinel)
                                  +------------ notify_export_done -- ExportManager <--+--> SQLite
main thread: drain, Scheduler::shutdown (cancel, wait_to_finish, Manager::shutdown), poll metrics,
             HttpServer::shutdown, join
every thread: AsyncLogger
```

| component | state | operations | what makes it correct |
|---|---|---|---|
| **JobQueue, ThreadPool** (`concurrency/`) | deque, `stop_flag`, counters; one mutex, one condition variable; the pool's threads | `try_push`, `push`, `pop`, `shutdown`, `start`, `submit`, `work_forever`, join | each accepted item handled once; no lost wakeup although waiting for room and waiting for items share the variable; stopping drains and ends |
| **Scheduler** (`daemon_system/scheduler.*`) | `state_map`, `root_map`, `pending_queue`, `pending_scans`, `running_scans`, `manager_queue_full`, under one mutex | submit, `run`, `cancel`, `shutdown`, three callbacks, `get_state` | counters agree with the states; limit of running scans; the RequestState lifecycle; overlapping roots are never scanned at once; every scan ends |
| **Manager** (`scan_system/manager.*`) | registry of contexts with atomic `unfinished_jobs` and `canceled`; `dispatch_failed`; the scan pool | `start_new_scan`, `task_on_job_submit`, `task_on_job_finish`, `cancel_scan`, `wait_to_finish`, `shutdown` | the last job, and only the last, ends the scan; a scan that missed nodes is not exported as complete; a scan refused by a full pool is retried |
| **MultiScanner** (`scan_system/multi_scanner.*`) | none of its own | `worker_job`, `scan_one_node` | each node visited once, each job finished once, error paths included |
| **ExportManager** (`export_system/export_manager.*`) | result queue, rows of pending scans, set of exported scans, open batch | `push_result_queue`, `insert_scan_task`, `write_result_to_db`, `finalize_scan` | each sentinel finds its row; counters return to zero; each ended scan is exported and its root unblocked |
| **Index database** (`export_system/db_wrapper/`) | `index_current`, `index_history`, `scan_table`, `scan_diff` | `upsert`, `mark_deleted`, `find_scan_diff`, ids | the current index is the last complete view of each root; ids are not reused |
| **HttpServer** (`daemon_system/httpserver.*`) | listening socket, accepted descriptors in the fd pool's queue, `drain_flag`, `stop_flag` | `run` (accept loop), router and routes, `drain`, `shutdown` | each accepted descriptor answered once, closed once and not used afterwards; what was accepted is answered before the end |
| **Daemon** (`daemon_system/daemon.*`) | `shutdown_flag`, the stage of `run` | `run`, signal handler, `POST /shutdown` | the server outlives the scans; the process ends |
| **AsyncLogger** (`utils/`) | bounded queue, `stop`, file and terminal | `log`, `consume`, `start`, `shutdown` | each message written once and in order; no caller and no writer asleep for good |
| **Paths** (`utils/formater.cpp`, `index_reader.cpp`) | none | `paths_overlap`, `get_common_parent`, the GLOB pattern, grouping by folder | overlap is "one is an ancestor of the other"; the summary covers the index |
| **Metrics** (`utils/metrics.h`) | atomic counters | | the shutdown polls them for zero |

What is hard here: sections of `run()` between which a scan may be canceled,
finish or be shut down; callbacks that come before the call that causes them has
returned; atomics that are not under the mutex of the condition variable waited
on; a shared condition variable with `notify_one`; a bounded queue whose
submitters are also its workers; a shutdown at any moment. `PROJECT.json` lists
each hazard at its line, with the properties that would catch it.

## 2. The modules

| module | models | built on |
|---|---|---|
| `BoundedQueue` | abstract: a bounded queue that can be closed and delivers what it accepted | |
| `JobQueue` | `job_queue.h`, `thread_pool.h` with their threads; implements `BoundedQueue` | |
| `ScanLifecycle` | abstract: what `GET /state` may show of a scan, from submission to its end | |
| `Scheduler` | fields and critical sections of `scheduler.cpp` | |
| `OpenScheduler` | the Scheduler with *any* Manager that keeps the interface; implements `ScanLifecycle` | `Scheduler` |
| `Manager` | `manager.cpp`, `worker_job` | |
| `ScanControl` | Scheduler and Manager connected as in `daemon.cpp`; implements `OpenScheduler` | `Scheduler`, `Manager` |
| `IndexDB` | the tables, transactions and queries of `export_system/db_wrapper/` | `PathText` |
| `TreeWalk` | `scan_one_node` on a tree that changes | `IndexDB` (its paths) |
| `Export` | `export_manager.cpp` with its result thread | `IndexDB` |
| `PathText` | the algorithms on the text of paths | |
| `ScanExport` | from the tree to the index: walks, the end of `task_on_job_finish`, the exporter, the database, stop, crash and restart | `TreeWalk`, `Export` |
| `HttpServer` | `httpserver.cpp` with its threads and the process's descriptors | |
| `Daemon` | `daemon.cpp`: server, Scheduler and main thread in one process | `OpenScheduler`, `HttpServer` |
| `Logger` | `async_logger.cpp` with its callers, its writer and its owner | |
| `MCJobQueue`, `MCOpenScheduler`, `MCScanControl`, `MCScanExport` | constants for TLC | |
| `JobQueueProofs` | proofs about `JobQueue`, and that it implements `BoundedQueue` | |
| `OpenSchedulerProofs` | proofs about `OpenScheduler` | |
| `ScanControlProofs` | proofs about `ScanControl`, and that it implements `OpenScheduler` | |
| `IndexProofs` | facts about `PathText`, `IndexDB` and `TreeWalk`: batches, patterns, trees | |
| `ScanExportProofs`, `ScanViewProofs` | proofs about `ScanExport`: how a scan is handed over, and what is written of it | `IndexProofs` |
| `LoggerProofs` | proofs about `Logger` | |
| `DaemonProofs` | proofs about `Daemon` | `OpenSchedulerProofs` |

**JobQueue.** An action is a section under `mtx`. `notify_one` follows the
unlock in the code and is a step of its own (`Notify`, pc `"pushed"` or
`"popped"`); `waiting` is the wait set of the condition variable, out of which
`notify_one` takes any thread, whatever it waits for. A thread that is taken out
evaluates its `while` condition again. Spurious wakeups are allowed. A worker may
submit from inside its job, as `worker_job` does. `owner` is the thread in
`ThreadPool::start` and `shutdown`; `start` may fail to create a thread and then
shuts down those it has. Items are pairs (thread, number), so that no two are
equal. `Quota` bounds how many a thread offers.

**Scheduler.** An action is a section under `mtx` with the notify that follows it:
only `run()` waits on `cv`, so that a notify is "from *wait* to *loop*". The calls
into the Manager are made without the lock, so `run_pc` has the places
*dispatch* (inside `start_new_scan`), *returned* and *cancel* (inside
`cancel_scan`). `root_of` is `PendingRoot::root`. A state that is not in the map
is `"NONE"`. The id is drawn before the lock is taken. Roots are model values,
and `Overlap` says which pairs `formater::paths_overlap` accepts. `running_scans`
and the metric `scan_running` are changed together everywhere, so one variable
stands for both; `pending_scans` and `scan_pending` are not, and are two.

**OpenScheduler.** `mgr[id]` is how far the Manager is with a scan. It may answer
"full", accept, or throw at any time, is done before it answers or long after,
and calls back in any order the interface allows.

**Manager.** Nothing holds a lock from the counting down of the last job to the
end of `task_on_job_finish`, so each atomic access and each section under
`registry_mtx` is an action, for the pool's workers and for the Scheduler's
thread, which runs the same function when the pool refuses its root job.
`wait_to_finish` is split where the wakeup can get lost: the check of the
predicate, then the sleep, with the mutex held in between (`registry_unlocked`).
The queue is the one of `JobQueue`: a bounded LIFO sequence. A job that is run
inline (the fallback for a full queue) deepens `depth`. A node's children are
any number, up to `MaxChildren` for a scan. `truncated` collects the scans of
which some node was not visited because of a cancel or of a stop. An exception that `worker_job`
catches (multi_scanner.cpp:41-43) also loses children, and the scan still ends as DONE: for the counters, which are all that this
module has, it is a directory with fewer children, and `TreeWalk` has what it means for the index. The three
atomic accesses with which a refused root is given back (manager.cpp:80-82) are one step
(`give_root_back`): no other thread has a job of that scan, and only `run()`'s own later steps depend on
which of the three came first.

**ScanControl.** Each action is one of the two modules' actions together, e.g.
`report_finished(t) /\ notify_scan_finished(scan[t])`. `rooted` and `reported`
are history variables for the refinement mapping to `OpenScheduler`.

**IndexDB.** A table is a function from its primary key to the columns that
matter; a transaction is one action. A path is a model value, `Below` says what
GLOB `root/*` matches. `mtime` and `msize` of a node are one number, its
fingerprint; 0 is what is recorded when `lstat` fails. A batch of upserts takes
effect when it is committed (`commit` folds `upsert` over it), so a crash loses
it whole, as does an exception of BEGIN or COMMIT. A statement that SQLite refuses throws nothing: `step_write_done`
logs it and returns a `false` that nobody reads, and the transaction is committed without it. The usual case is a
key that is there already (`Insert`); for BUSY, FULL, IOERR and the like, which a deferred `BEGIN;`
leaves to the statements after it, each transaction has a second form, named `..._partly`:
`commit_partly` writes any part of a batch, `mark_deleted_partly` leaves out the history rows, the DELETE or both,
`find_scan_diff_partly` any lines, `upsert_count_partly` counts nothing or writes nothing. `get_all` is a page of
the scan table, latest scan first (`later_than` is the number of rows before one), `response_scan_diff_summary` and `response_scan_diff_detail` are what
the two diff routes answer, `group_by_folder_in_snd_layer` the summary by folder.

**PathText.** A text is the sequence of its bytes, with the bytes that decide: `'/'` and
those below and above it. `paths_overlap`, the GLOB pattern of `mark_deleted`, the
order in which `MIN(path)` and `MAX(path)` compare, `get_common_parent` and
`get_snd_layer` are operators on such texts. `MCOpenScheduler` computes the overlap
of its roots with them, `IndexDB` what is below a root and the summary; the
instances have a directory `/a`, a file `/a/b` in it, and `/a-b`, which looks alike.

**TreeWalk.** `tree` maps a path to its fingerprint, 0 if it does not exist; anyone
may create, change or remove a node between two steps of a scan. A job is a
state per scan and path. `visit_*` are the returns of `scan_one_node` with the event
each pushes; `read_dir` lists the entries, or some of them (an error of a later
`readdir` is not looked at; and `worker_job` catches an exception that leaves the loop over them,
multi_scanner.cpp:41-43), and submits those that a cancel or the stop of the pool
leaves. In which order a pool's threads take jobs, and whether a child is queued or
run inline, is `Manager`'s matter: here any waiting job may be next.

**Export.** `writer` is where the result thread is: in `pop`, or before one of the
transactions of `finalize_scan`; `"dead"` is the exception that leaves
`write_result_to_db`. The queue is `JobQueue`'s, of which only what `BoundedQueue`
promises is used: `push` waits for room, and drops its item after the stop. BEGIN or COMMIT of
any transaction may throw (`finalize_fails`, `write_throws`): `finalize_scan` logs the error and
goes on with the next sentinel, and a COMMIT that failed leaves the connection in a
transaction, so that every later one fails too (`open_tx`). An exception while a batch is
written leaves `write_result_to_db`. Any statement of a transaction may fail without one
(`commit_batch_partly`, `finalize_partly`): the export goes on to its next step, and the scan is
published although its row, its deletions, its diff or its counters are not there. `ExportStarts` is `start()`, which reads the exported
scans page by page.

**ScanExport.** Of the Scheduler only what `OpenSchedulerProofs` shows is used: a scan
starts when no overlapping root is without its export (`root_map`). Ids are taken
in any order. The end of `task_on_job_finish` is three steps: the flag is read
for the sentinel (`flag_sentinel`), read again for the row when the scan leaves
the registry and the sentinel is pushed (`push_sentinel`), the row is handed over
(`hand_over_row`). `stop_pool` and `stop_pool_before` are `Manager::shutdown` at the two
moments that a scan being dispatched may be in; `restart` is a crash, or the start
after a stop: tables and tree stay, everything else is as `ExportManager::start`
and `init_history_scan_id` leave it. `baseline` (the index below the root when the scan
started), `truncated`, `disturbed`, `reused`, `overtaken` (paths on which a scan follows one
with a higher id), `half` and `unwritten` (scans of which a statement failed, at `statements_fail`) are
history variables.

**HttpServer.** An action is a section under `server_fd_mtx`, a system call, or a read or
write of an atomic flag. `open` is the kernel's table of descriptors: a new one gets the
lowest free number, as in POSIX, so that a number used after its close is
*something else*. `run()` copies the listening descriptor (`copies_server_fd`) and calls `accept`
on the copy; the connection it gets goes to the queue of the fd pool or is answered
429 by `run()` itself. A worker is at `read`, `respond`, `call` (inside the Scheduler), `query` (its
database connection open), `write` or `close`. Routes are told apart by what they need and by
whether `router()` lets them pass while draining. `read_request` may fail, `accept` may find the
descriptor closed, the socket or the pool may not come up.

**Daemon.** The workers of the fd pool are the Scheduler's clients: `POST /scan` is
`gen_scan_id` and then `submit`, `POST /cancel` a `cancel` with its call of `cancel_scan`. `MainStep` is
`Daemon::run` from the sleep on `shutdown_flag` to the joins; the polling ends when
`MetricsAreZero` or when its time is up (`polls_in_vain`), whichever comes first.

**Logger.** As in `JobQueue`, a section under the mutex is an action, and `notify_one` after
the unlock another, which takes any of the `waiting` threads. A message of level Warn or
Error waits for room, others and those that come after the stop go to the terminal. The
owner may `start` again after a `shutdown`.

## 3. What the runs check

| run | module | instance | properties |
|---|---|---|---|
| `pool` | `MCJobQueue` | 2 submitters of 2 items, 2 workers (one submits from its job), 2 slots, LIFO | `NoLostWakeup`, `ExactlyOnce`, `JoinedMeansDrained`, `AbstractQueue` (refinement with liveness), `ShutdownCompletes` |
| `push` | `MCJobQueue` | 2 producers of 3 items in the blocking `push`, 1 consumer, 2 slots, FIFO | `NoStrandedPusher`, `ShutdownCompletes` |
| `sched` | `MCOpenScheduler` | 2 scans, 1 running, the roots `/a`, `/a/b`, `/a-b` | `PendingAccounting`, `RunningAccounting`, `ConcurrencyLimit`, `QueueShape`, `NoOverlappingScans`, `ScansAreApart`, `Lifecycle`, `PublicLifecycle` (refinement), `EveryScanEnds`, `ShutdownCompletes` |
| `one_scan` | `MCScanControl` | 2 workers, 1 scan of up to 5 jobs, 1 slot, 1 running | `RegistryCoversJobs`, `CompleteUnlessCanceled`, `ManagerKeepsInterface` (refinement) |
| `two_scans` | `MCScanControl` | 2 workers, 2 scans of one job, 1 slot, 2 running | `UnfinishedAccounting`, `ManagerKeepsInterface` |
| `lost_dispatch`, `stuck_shutdown` | `MCScanControl` | 1 worker, 2 scans of one job, 2 running | `RetryIsNotForgotten`, `ShutdownReturns` are violated |
| `scan_export` | `MCScanExport` | 2 scans, `/a` with `/a/b` in it, and `/a-b` apart, 2 fingerprints, queue of 1, batches of 2, pages of 1, 1 disruption | `CompleteViewIsExact`, `QuietScanMirrorsTree`, `DiffIsExact`, `DoneMeansComplete`, `CountIsExact`, `StoppedMeansExported`, `ExportedIsExact`, `SummaryCoversIndex`, `NothingDeletedUnseen`, `ExportedIsFinal` |
| `missing_row`, `cut_short` | `MCScanExport` | `/a` with `/a/b`, 1 disruption | `SentinelFindsRow`, `CutShortDeletesNothing` are violated |
| `logger` | `Logger` | 2 callers of 2 messages, 2 slots, 2 starts | `EveryMessageOnce`, `JoinedMeansWritten`, `EveryMessageIsWritten`, `ShutdownCompletes` |
| `daemon` | `Daemon` | 2 connections, fd pool of 1 worker and 1 slot, 4 descriptors, 1 scan | `DescriptorsAreOwned`, `ScansEndBeforeServer`, `StoppedMeansAnswered`, `DaemonStops` |

What they show, beyond their names: `pool` and `push`, that one condition variable for two
kinds of waiting loses no wakeup as the daemon uses it, and that the queue is the abstract
one. `sched`, that the Scheduler is right whatever the Manager does within its
interface, and `one_scan` and `two_scans`, that the Manager of the code stays within it,
`unfinished_jobs` counts every job that is queued, held by a thread or being submitted,
and a registered scan is one that still has some. `scan_export`, that what the clients are shown
of a scan is what it saw, across cancels, errors of the file system, transactions
that fail, stops and crashes, and that statements which fail harm no scan but the one they were for. `daemon`, that no thread uses a descriptor after it was closed and
given to somebody else, although `shutdown()` closes the one that `accept` is called on.

`CHECK_DEADLOCK FALSE` everywhere: once the bounded quota of items or ids is used
up, or the shutdown is complete, these systems are meant to stop; that they do not
stop too early is what the liveness properties say.

### Bounds

* Queue: a notify can be stolen with three threads and two kinds of waiting; 2
  slots and 4 to 6 items fill the deque, empty it and wrap it more than once, and
  the two submitters, the two workers and the owner interleave freely. That the
  properties need "no more producers than slots" shows with one slot for the two
  producers, where TLC finds everybody asleep; for all sizes it is proved.
* Scheduler: with 2 scans and a limit of 1, one runs or is dispatched while the other
  waits, is put off, or is dropped; the three roots give both outcomes of the
  overlap check, in both orders and for names that begin alike. What 3 scans and more could add is
  covered by the proofs, which bound neither. One client suffices, for its calls take effect in one section
  each and its `cancel_scan` is a pending call that others interleave with; two
  ids drawn in one order and entered in the other need a second client, which
  matters to the index database only.
* Manager: 2 workers are enough for a job to count down while another does, or
  while its parent is still submitting. In `one_scan` a directory has up to 4
  children: with 1 slot some are queued, some run inline because
  `jobs_in_queue` is at its limit, and some are refused by a queue that has filled
  between that look and the push. In `two_scans` the root job of one scan finds
  the pool full of the other, so that it is given back and retried; the two scans
  end in either order. The workers are interchangeable (symmetry). The
  refutations need 1 worker only.
* From the tree to the index: two scans are one before and one after, or two at a
  time of roots apart, in either order of ids; the directory and the file in it
  are roots that overlap. A queue of one slot and batches of two make every push
  wait, and commit both full batches and rests. `MaxDisruptions` bounds changes of
  the tree, stops, crashes and errors of the database, thrown or only logged, together: one of them, at any moment, meets every
  step of the scans and of the exporter. `MaxVersion` = 2 lets a file change
  without going away.
  The shape of the tree at the start is any with all its nodes (`Existing`), or, for the
  violated properties, the empty one.
* Logger: 2 callers and 2 slots let the queue fill while one caller waits and the other
  falls back; a second start meets messages left on both sides of a stop.
* Daemon: 2 connections through a queue of 1 and one worker are one being served, one queued or
  answered 429. The descriptors (`Fds`) are one for the server, one for each connection, one
  for each worker's query, so that none is ever refused for want of a number; all are reused.
  A second worker of the fd pool would only take from the same queue: its requests reach the
  Scheduler through sections that `sched` interleaves, and the theorems of `DaemonProofs` hold for any number.
* `MaxScanId`, `Quota`, `MaxChildren`, `MaxVersion`, `MaxDisruptions`, `MaxMessages`, `MaxStarts`,
  `Connections` and `Fds` are the only bounds that are not in the code.

### Fairness

`JobQueue`: weak fairness of each worker's, producer's and the owner's next step:
they hold the lock for a few instructions and a job ends. Nobody is obliged to
submit, push or stop, and no spurious wakeup may be hoped for. `OpenScheduler`:
weak fairness of `run()` and `shutdown()`; of the Manager finishing what it took;
strong fairness of it taking a scan (its queue is not full for ever); and of
`notify_dispatch_available` once "full" was recorded. The last one is what
`start_new_scan` and `task_on_job_finish` mean to guarantee; `lost_dispatch` shows
that they do not always, so `EveryScanEnds` is a property of the Scheduler alone.
`ScanControl`: weak fairness of each thread. `Logger`: weak fairness of each caller inside
its call, of the writer, of the owner once it is stopping, and of the first start; nobody has
to log or to stop. `Daemon` (`DaemonFairness`): weak fairness of what the process's own threads do by themselves, the Scheduler's `run()`,
the main thread, the server's `run()` and each worker: `accept` returns when a connection is there or the socket is
shut down, and a read gives up after the ten seconds of `SO_RCVTIMEO`. Nobody has to connect or to ask for the stop.

`DaemonStops` is a conditional claim, for the code does not bound every wait. `ManagerFinishes` says that
the Manager answers, that it finishes what it took and that its `cancel_scan`, `wait_to_finish` and `shutdown` return.
The code does not always keep this: `stuck_shutdown` is a `wait_to_finish` that never returns, and
a result thread that has ended (`missing_row`, or an exception of the database) under a full export queue
leaves the scan threads asleep in `push`. `ClientsRead` says that a `send` returns: it has no
timeout, so a client that keeps its connection and does not read holds a worker and with it the join of the fd pool.
With these two as premises TLC verifies the claim; without either of them it finds a process that never ends.
So it shows that nothing else keeps the process: not the polling, the drain, a full queue, or a request that is inside
the Scheduler when it stops.

### What the violated properties show

1. `lost_dispatch`: the last job may finish between `dispatch_failed = true` in
   `start_new_scan` and `manager_queue_full = true` in `run()`. Its callback comes
   first, and the scan waits for a callback that does not come before some other
   scan finishes a job; with `manager_queue_full` set none is dispatched.
2. `stuck_shutdown`: the decrement and `notify_all` in `task_on_job_finish` are not
   under `registry_mtx`; the wakeup of `wait_to_finish` can get lost.
3. `missing_row`: the sentinel is pushed before the row of its scan is handed over. If
   the result thread is fast it finds no row, throws outside the `try` of
   `finalize_scan` and ends; from then on nothing is exported.
4. `cut_short`: `Scheduler::shutdown` cancels and awaits what is registered; a scan
   between `run()`'s pop and `registry.emplace` is not. The stopped pool refuses its
   root, and `task_on_job_finish` exports it as DONE and not canceled: everything
   below its root is marked deleted, if the exporter is not stopped by then.

Other things the code does that a reader may not expect are in the models, or left out of
them, and have no run of their own:

* *Scheduler.* The root of a scan that was dropped while pending, or failed to start, stays in
  `root_map` until the daemon restarts (only the export erases it). A scan that the shutdown
  finds DISPATCHING and the stopped pool refuses is counted down without having been
  counted up: `scan_running` ends at -1 and the daemon polls for its full 1000 seconds and logs
  "metrics value not drained" (`polls_in_vain`).
* *Queue.* A blocking queue with more producers than slots can put everybody to sleep; the shipped
  configuration (524288 slots, a handful of scan threads) is far from it. The same is true
  of the logger with more threads that log warnings than slots, where `utils/Readme.md` says
  that such callers wait for room.
* *Ids.* A scan enters `scan_task_table` at its end, so after a crash the id of a scan that was
  killed is used again while its rows are in `index_current`; the new scan takes them for
  its own and does not delete what has gone (`reused` in `CompleteViewIsExact`). A scan whose row was
  committed and whose later transactions were not is shown as exported after a restart (`half` in
  `ExportedIsExact`).
* *Database.* A statement that fails is logged and its transaction committed (`unwritten`). If it was an
  `upsert`, `mark_deleted` takes a file that was seen for one that was not and deletes it. If it was the INSERT of the
  scan's row, the scan is published, but neither the table nor the summary shows it, and after a restart its
  id is given out again. If it was one of the later steps, the scan is shown without its deletions, its diff or its
  counters, and nothing but the log tells.
* *HTTP.* `run()` clears `drain_flag` when it begins (httpserver.cpp:118), on its own thread: a
  `drain()` before that is undone, and every route is served during the shutdown, while
  `daemon_system/Readme.md:40-41` has only two. The Scheduler refuses new scans by its own flag. The code
  answers 503 while draining, that document says 403. If the pool cannot start, the listening
  socket stays open and nobody accepts. `manager.start()` may fail and its result is not looked
  at (daemon.cpp:59). An exception of `DatabaseConnection`'s constructor in a route is not caught in the
  worker. `(page-1)*limit` is an `int` product of two numbers of the client (httpserver.cpp:665),
  and the pages of search and diff are read without an ORDER BY (those of the scan table have one).
* *Index.* The top root is computed from the smallest and the largest path as text and is not
  the common parent when a neighbour sorts between a directory and what is in it (`/a`, `/a-b`, `/a/b`:
  `Continued` in `SummaryCoversIndex`). The top root and the groups below it are read by two queries,
  between which the index may change. The root directory overlaps with nothing, since a path that begins with `//` is asked for. Its
  GLOB pattern is `//*`, which fits what it records: a child of `/` is written as `//name` (multi_scanner.cpp:133). A
  scan of a directory below writes the same node as `/name`, so that the two are different rows. A name with `*`, `?` or `[` matches others.

### How far the properties of `scan_export` go

`CompleteViewIsExact` compares the index after `mark_deleted` with the nodes the scan
visited, `QuietScanMirrorsTree` with the tree itself, for scans during which nothing
below the root changed and every directory could be read. `NothingDeletedUnseen` and
`DoneMeansComplete` are about cancels at any moment, between the two readings of
the flag included; the scan of `cut_short` is excepted. `DiffIsExact` compares what
`find_scan_diff` computes from the history of all scans with the index before
and after the scan; the lookup goes by id, so it is claimed for roots below which no scan was
begun after one with a higher id (`overtaken`), and while no id was used twice. That the scan itself
has the highest id so far is not enough: with three scans of one root in the order 2, 1, 3 the third is
compared with the second id, not with the index it found. It
speaks of fingerprints: a node that turns unreadable without changing is no
difference, in the code and in the property. `StoppedMeansExported` leaves out the
scan that the stopped pool refused, whose sentinel a stopped queue drops, and those whose
`finalize_scan` met an error: it is logged, the scan is not exported, and its root stays blocked.
`ExportedIsExact` and `ExportedIsFinal` are about what `GET /scan/diff` answers: a scan that is
listed as exported has all its lines and counters, and they never change again.

When statements of a scan failed, `unwritten` takes it out of `CompleteViewIsExact`, `QuietScanMirrorsTree`,
`CountIsExact` and `ExportedIsExact`, because the code then publishes what is not whole; and `DiffIsExact`, which
reads the entries of earlier scans, is claimed while no statement of any scan has failed. What remains claimed is that the other scans
are not harmed. `NothingDeletedUnseen` excepts nodes of such a scan, whose upsert may be what failed;
that only a complete scan deletes anything holds of it too. `ExportedIsFinal` is about the exported scans that have a row: of one
whose INSERT failed there is nothing to be final. `StoppedMeansExported`, `DoneMeansComplete` and `SummaryCoversIndex` have
no such exception.

## 4. What is proved

All proofs are checked by TLAPS from nothing, for every number of threads, slots
and items (`ThreadsAssumption`, `SizeAssumption`, `QuotaAssumption`), and for
every set of roots, limits and clients in the Scheduler's and the daemon's case
(`LimitsAssumption`, `OverlapAssumption`, `ClientsAreWorkers`). The scan pool has at
least one worker (`PoolAssumption`): without one a queued job would outlive the join.

* `JobQueueProofs`: `TypeCorrect`. `TypeOK` is not inductive by itself: a thread
  in `push()` must still have an item to offer (`ItemInHand`), or its item would
  not be one of `Items`. `PoolLosesNoWakeup`: without blocking producers every
  sleeping thread is a worker in `pop()` (`NextWaiters`), so every `notify_one` is
  received by one that can use it; then `Len(container)` is at most the awake
  workers plus the notifies to come, step by step (`PoolWakeup`).
  For the export queue, with one consumer and at most `QUEUE_SIZE` producers,
  the argument is that a producer only sleeps when the deque is full, that is,
  when each of the other producers' items is in it; so the invariant
  `ConsumerInvariant` bounds the sleeping producers by the queued items plus the
  consumer's pending notify, and says that a sleeping consumer faces either an
  empty deque or a notify that nobody but it can take. `NoPusherIsStranded` and
  `ConsumerLosesNoWakeup` follow. With one slot and two producers everybody can fall asleep.
  `JoinedPoolIsDrained`; `EachItemExactlyOnce`, whose
  invariant adds that no item of a thread beyond `offered[t]` is in the deque or
  delivered; and `ImplementsBoundedQueue`, each step being one of `BoundedQueue`
  or a stutter, by the same invariant.
* `OpenSchedulerProofs`, for every set of clients, roots and overlapping pairs
  and every number of scans and limit. `TypeCorrect`: the copy of the front entry
  that `run()` keeps while it is without the lock must name a known scan
  (`HandledIsKnown`), or `state_map` would be written outside its domain.
  `StatesFollowLifecycle`: an action property, from the type invariant and the
  guards of each section. `RootsNeverOverlap`: an export may only unblock the root
  of a scan that the Scheduler knows (`ManagerKnows`), hence of no scan to come;
  then a root is in `root_map` for as long as its scan is not exported, and the
  check of `submit` keeps the others away. `QueueKeepsShape`: the front is only
  popped by `run()`, and after a stop nothing is pushed any more (`StopEmpties`:
  the queue `shutdown()` has cleared stays empty), so that what `run()` pops when it
  has the lock again is the scan it dispatched.
  On top of it, `RunningIsCounted` and `PendingIsCounted`: a counter is equal to
  the cardinality of a set, and each step is shown to move both by the same. What
  makes it inductive is where the states and the Manager's progress agree
  (`StatesAgree`: a PENDING scan is not with the Manager, a scan answered as taken is), for a callback may come
  before the call that causes it has returned; then `running_scans` is short by the scans that
  ended before they were counted (`CountedEarly`). `LimitHolds` needs one thing more: while run()
  is without the lock there is room for the scan it dispatches (`RoomForNext`), since only it adds.
  `ShowsScanLifecycle` is the refinement of what a client relies on. `ScanLifecycle` has the line of waiting scans as
  the order in which they were submitted (`ahead`), which is what `pending_queue` shows once the entries that were
  dropped in it are left out; what `run()` takes is the first in this order because of `QueueShape`, and there is
  room for it to be RUNNING because of `RoomForNext`. A dispatch is one step of the abstract system and several of
  the code, in which the scan may be canceled, or be done before it was recorded as running. `EndInv`:
  a PENDING scan is in the queue, where the shutdown finds it; after the first section of `shutdown()` none
  is active; and from the join of the pool on the Manager has none.
* `DaemonProofs`: `DaemonRunsScheduler`, every step of the process is a step of `OpenScheduler` or leaves
  it alone, so that the theorems about it hold in the daemon (`DaemonBoundsScans` is two of
  them, `DaemonShowsLifecycle` the refinement). `ServerOutlivesScans`: the stages of the main thread imply those of the Scheduler, and `EndInv`
  does the rest. `HttpInv` is the invariant of the server: `Owned`, a client's descriptor is with run(),
  at one place of the queue or with one worker, and what they hold is open for a client; `Kernel`, no
  two descriptors are of the same connection and the listening one is what `server_socket_fd` says;
  `Answering`, who has not come to its close has not answered. A new number is one that nobody has
  (`Opened`), because who gives one up closes it in the same step. With it `EveryDescriptorIsOwned` and
  `NobodyIsLeftUnanswered` hold for any number of workers and connections. Assumed are descriptors
  enough for all that may be open at once (`FdsAssumption`) and at least one worker
  (`WorkersAssumption`): with a pool of none, what is queued at the stop is not answered, and
  `config.cpp` takes a zero from the configuration.
* `ScanControlProofs`, for any number of workers, slots, scans and jobs. The invariant `IInv` has a part for
  each thing that two threads rely on. `Counting`: `unfinished_jobs` is the number of places in the queue
  plus the number of pairs (thread, job) that threads hold, and every step moves both sides alike. `Link`: while
  the Scheduler's thread is in `start_new_scan` it is there for the scan `run()` dispatches, whose root no
  worker has seen unless it was accepted; so a root job that is given back or refused is the scan's only
  one (`RootAlone`). `OneEnd`: a scan without jobs that got into the pool is reported or in the hands of
  exactly one thread that will report it; a scan with a job left is neither. `Registered` and `Sentinels`
  add where a scan is registered and that `canceled` is read before the scan is taken out. From it follow
  `JobsAreCounted`, `RegistryIsComplete`, `TruncatedIsCanceled` and `FinishedOnce`.
  `ImplementsOpenScheduler`: `MgrView` computes from the threads' places how far the
  Manager is with a scan; a step of the two together moves it as a step of `OpenScheduler` does, or not at
  all. `IInv` is needed where the code trusts a counter: what `wait_to_finish` lets pass has been counted down
  (`WaitedFor`), what the joined workers leave behind has been reported or counted down (`NothingAfterJoin`),
  and only one thread takes a scan from *taken* to *drained*. So the theorems about `OpenScheduler`, which
  assume nothing of the Manager but its interface, are about the Manager of the code. This is not left to the
  reader: `Scheduled` is an instance of `OpenSchedulerProofs` by that view, its theorems hold of `ScanControl`, and
  `PoolKeepsLimits` joins both sides: a scan with a job in the pool is one the Scheduler counts and whose root it
  keeps, so at most `MAX_CONCURRENT_SCAN` trees are walked and none overlaps with another. `ManagerShowsLifecycle`
  is `ScanLifecycle` again, with this Manager. `TypeCorrect`: `IInv` and what each step assigns (`Fields`).

* `ScanExportProofs`, for any tree, any number of scans and versions and any batch size
  (`BoundsAssumption`). `ExportInv` follows what one thread tells another about a scan. `Flags`: a scan that
  skipped a node was canceled before its last job ended, so both readings of the flag, the one that goes into
  the sentinel and the one that becomes the row's end_state, see it; the exception is the scan in dispatch
  when the pool stops (`late`). `Rows` carries this to the table, and says that an id that can still be drawn
  has no row. `Tracked`: a scan that has ended and is not exported has its sentinel in the queue or in the
  hands of the result thread, unless `finalize_scan` met an exception or the pool refused its root. `Progress` and
  `Thread` say how far the registry, the row and the result thread are. From them follow `DoneIsComplete`,
  `ExporterStopsClean` and `OnlyCompleteScansDelete`.
* `IndexProofs`. A batch is a fold over a sequence and what is below a root a recursive function over the
  tree, and both are reasoned about for every length and depth. `StepByStep` gets induction over 0..N from the
  well-foundedness of finite sets under inclusion, since the library's induction rules cannot be instantiated;
  `FoldSteps` unfolds a fold with it. From these, `CommitEffect`: a commit leaves for each path the row of the
  last event of the batch that changes one, takes no path out and writes no row of another scan.
  `PatternMatchesTree`: the pattern of `mark_deleted` matches the nodes that `scan_one_node` reaches,
  by induction on the longest text. `RootsAreApart`: `paths_overlap` keeps apart what it should.
  For the summary, texts are compared where they first differ (`LessAt`): the order is total and transitive, so a
  finite set of texts has a `MIN` and a `MAX` (`IsMin`), and every text between two others begins as far as these two
  agree; hence the directory that `get_common_parent` makes of them covers all (`CommonParentCovers`), and
  `get_snd_layer` finds an entry of it on the way to each path (`SecondLayer`).
  Assumed of paths (`PathsAssumption`) is that there are finitely many, which is so because `realpath` fills a buffer of
  `PATH_MAX` bytes (scheduler.cpp:358), that no two have the same text, none has the empty one and all begin with a slash, for `realpath`
  returns absolute paths (scheduler.cpp:359); of the
  tree (`TreeAssumption`), that an entry's text is its directory's, a slash and a name, and that what has
  a text below another path's is the entry of some directory.
* `ScanViewProofs`, what is in the tables, in layers. `TableInv`: the rows under an id belong to the scan that
  drew it last, ids that can still be drawn are larger than all in the scan table, and a scan that is shown
  and of which no statement failed is whole (`Shown`); `LoadsAll` says that the pages `start()` reads, of any size, are together the whole
  table. `ExportedScansAreFinal` and `ExportedScansAreWhole` follow. `ViewInv` adds where a scan's jobs can be
  (`Jobs`), that each event a scan pushed is in the queue, in the batch or in the index under
  its id (`OnTheWay`), that nothing else is (`OnlyVisited`), and that its rows stay while its sentinel is on the
  way, for no other scan touches the paths below its root. When the sentinel is handled the queue
  has none of its events left, hence `CompleteScanIsTheView`, `CountersAreOfTheScan` and `DeletesOnlyUnseen`.
  `Mirror` compares the jobs, events and rows of an undisturbed scan with the tree, for
  `QuietScanIsTheTree`: a directory's job ends only when each of its entries has a job.
  `DiffInv` is for `DiffIsTheDifference`. `find_scan_diff` never looks at the index; it takes the entry
  of the highest id before the scan's that is not of a canceled scan. So `IndexTold` says that this
  entry tells whether a path is in the index and with which fingerprint, and `BaselineTold` the same of
  the index that each running scan found (`baseline`), with nothing of a higher id on its paths. A commit that finds
  the same fingerprint adds no entry and a canceled scan adds one that is not looked at: neither changes what the
  entries tell, which is where an error would hide. `OwnEntries` and `KeptRows` say that, below its root, only a
  scan's own events change anything, so that when each is committed the row it is compared with is still that of the
  baseline (`WrittenRows`), and `mark_deleted` enters what the scan did not write (`MarkedRows`). No event is
  committed twice (`OnlyOnce`, `CommittedOnce`), or the second would find the fingerprint of the first. As
  the code stands the last two need that no id was used twice and no statement failed (`Unspoiled`), and `BaselineTold` the order of ids: the guards
  `reused`, `unwritten` and `overtaken` of the property.
  A statement that fails is a step of its own (`statements_fail`): of a scan that is not `unwritten` afterwards it
  writes what it would have written anyway (`TableSteps`), so that each layer has this one case more.
  `TopRootCoversIndex`: `SummaryCoversIndex` for any tree and any texts, from the lemmas of `IndexProofs`; the one
  exception is that of the property itself, a directory with a name that sorts between it and what is in it.
  `TypeCorrect`: the types, and that the queue stays within `EXPORT_QUEUE_SIZE`, whoever pushes while the manager
  is stopped, and the batch below `WRITE_BATCH_SIZE` between two steps of the result thread.
* `LoggerProofs`, for any number of callers, messages, slots and starts. `Once`: the messages that are written or
  on their way are those whose calls are through, none is on both ways, none twice; `InOrder` for the
  file; `FallenBack`, that a message that waits for room goes to the terminal only after a stop.
  `Finished(t)` grows by one exactly when a message of `t` is pushed or printed. `Stops`: the writer leaves its
  loop only stopped and with an empty queue, and nothing is pushed after the stop. So
  `NoMessageIsLost` and `ShutdownDrains`.

Only model-checked: `ScansAreApart`, which is about the texts of an instance (`RootsAreApart` with
`RootsNeverOverlap` is the general fact), and all liveness, `AbstractQueue`'s fairness part included, which is out
of reach of the prover used here, as is `ENABLED`. Every other property of the passing runs is stated by a theorem
above. No module declares a RECURSIVE operator.

## 5. What is not modelled

Abstracted: the text of messages, the HTTP and JSON formats, SQL, the wording of logs; the
text of paths is kept where an algorithm depends on it (`PathText`). Memory exhaustion is
modelled in `start_new_scan`, which may throw, and in `worker_job`, whose `catch (...)` loses the children that were not
submitted yet (a partial listing, in `TreeWalk`). A node whose event is lost because the exception came before
`record_result`, and exhaustion anywhere else, are not modelled. Of the result thread's SQLite both the exceptions
(BEGIN and COMMIT) and the failing statements are modelled. Not modelled are that SQLite itself may roll back after FULL or
IOERR, so that what follows commits statement by statement, failing reads when `ExportManager` starts,
and errors in the routes, whose workers only read.

Not modelled, and why:

* The search in the index and the summary by extension: a query with a pattern each, whose
  meaning is SQLite's; names with wildcards of their own; `update_end` and `update_scan_finish`,
  which nothing calls.
* `Config`, `SyncLogger`, `os_info`: reading of a file, formatting and system calls. Their values are
  constants here.
* A scan pool that cannot start, and the parsing of requests.
* `normalize_path` and the rest of `formater.cpp`, which ask the file system or format output.
* The web front end, the tests and the benchmark, which are clients; the SQLite schema and connection.

What a continuation would do: join `ScanExport` with `ScanControl`, so that what the two say of a scan's end is
one model; and the search by extension, with a reference definition of its pattern.
