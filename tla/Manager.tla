------------------------------ MODULE Manager -------------------------------
(***************************************************************************)
(* scan_system/manager.cpp with the jobs of MultiScanner::worker_job: the  *)
(* registry of scans, the counting of their unfinished jobs, the scan pool *)
(* with the slots it reserves for root jobs, cancel and wait_to_finish.    *)
(*                                                                         *)
(* A thread is a pool worker or the Scheduler's run() inside               *)
(* start_new_scan(); `at' is where it is in the Manager's code.  The       *)
(* counters are atomics, registry_mtx covers the registry only, and        *)
(* nothing holds a lock from the counting down of the last job to the end  *)
(* of task_on_job_finish(): each of these steps is an action.              *)
(*                                                                         *)
(* The pool is the FIFO-or-LIFO queue that JobQueue shows to lose neither  *)
(* a job nor a wakeup: a job in it is popped by some idle worker.          *)
(***************************************************************************)
EXTENDS Integers, Sequences, FiniteSets

CONSTANTS
  Workers,              \* threads of the scan pool
  RunThread,            \* the Scheduler's thread, which calls start_new_scan()
  Scans,                \* scan ids
  SCAN_QUEUE_MAX_SIZE,  \* Config.manager.scan_queue_max_size
  MaxConcurrent,        \* Config.scheduler.max_concurrent_scan
  MaxChildren           \* bound: jobs of a scan besides its root job

\* The configuration's default is four threads; config.cpp does not refuse zero,
\* with which no job is ever run.
ASSUME PoolAssumption ==
  /\ RunThread \notin Workers /\ Workers # {}
  /\ SCAN_QUEUE_MAX_SIZE \in Nat
  /\ MaxConcurrent \in Nat \ {0}
  /\ MaxChildren \in Nat

VARIABLES
  registry,             \* the scans that are registered
  unfinished_jobs, canceled,   \* ScanContext of each scan
  dispatch_failed,
  scan_jobs_unfinished, \* Metrics
  jobs,                 \* the pool's queue: the scan of each job, front first
  pool_stop,            \* its stop_flag
  at, scan,             \* threads: place in the code, and the scan it is for
  depth,                \* Workers: jobs on the stack, inline ones included
  waiter,               \* wait_to_finish(): where it is in manager_cv.wait
  children_left,        \* bound: jobs each scan may still spawn
  truncated,            \* scans of which some node was not visited
  sentinels             \* what each scan ended with in the result queue

ctx_vars == <<unfinished_jobs, canceled>>
pool_vars == <<jobs, pool_stop>>
thread_vars == <<at, scan, depth>>
tree_vars == <<children_left, truncated>>
manager_vars == <<registry, ctx_vars, dispatch_failed, scan_jobs_unfinished,
                  pool_vars, thread_vars, waiter, tree_vars, sentinels>>

ManagerThreads == Workers \cup {RunThread}

Places == {"idle", "count", "submit_root", "accepted", "full", "erase",
           "job", "submit", "finish", "notify_cv", "report",
           "unregister", "exchange", "make_room", "refused", "exited"}

ManagerTypeOK ==
  /\ registry \in SUBSET Scans
  /\ unfinished_jobs \in [Scans -> Nat]
  /\ canceled \in SUBSET Scans
  /\ dispatch_failed \in BOOLEAN
  /\ scan_jobs_unfinished \in Nat
  /\ jobs \in Seq(Scans) /\ pool_stop \in BOOLEAN
  /\ at \in [ManagerThreads -> Places]
  /\ scan \in [ManagerThreads -> Scans \cup {0}]
  /\ depth \in [ManagerThreads -> Nat]
  /\ waiter \in {"awake", "checked", "asleep"}
  /\ children_left \in [Scans -> 0 .. MaxChildren]
  /\ truncated \in SUBSET Scans
  /\ sentinels \in [Scans -> {"none", "complete", "canceled"}]

ManagerInit ==
  /\ registry = {} /\ canceled = {} /\ truncated = {}
  /\ unfinished_jobs = [i \in Scans |-> 0]
  /\ dispatch_failed = FALSE /\ scan_jobs_unfinished = 0
  /\ jobs = <<>> /\ pool_stop = FALSE
  /\ at = [t \in ManagerThreads |-> "idle"]
  /\ scan = [t \in ManagerThreads |-> 0]
  /\ depth = [t \in ManagerThreads |-> 0]
  /\ waiter = "awake"
  /\ children_left = [i \in Scans |-> MaxChildren]
  /\ sentinels = [i \in Scans |-> "none"]

goto(t, place) == at' = [at EXCEPT ![t] = place]

\* Out of the Manager's code, its local variables gone.
leaves(t) == goto(t, "idle") /\ scan' = [scan EXCEPT ![t] = 0]

\* wait_to_finish() holds registry_mtx while it evaluates its predicate.
registry_unlocked == waiter # "checked"

\* manager_cv.notify_all(), mostly without registry_mtx.
manager_cv_notify == waiter' = IF waiter = "asleep" THEN "awake" ELSE waiter

add_unfinished(id, n) ==
  /\ unfinished_jobs' = [unfinished_jobs EXCEPT ![id] = @ + n]
  /\ scan_jobs_unfinished' = scan_jobs_unfinished + n
  /\ UNCHANGED canceled

-----------------------------------------------------------------------------
(* start_new_scan(), by the Scheduler's thread *)

begin_new_scan(id) ==
  /\ at[RunThread] = "idle" /\ registry_unlocked
  /\ registry' = registry \cup {id}
  /\ scan' = [scan EXCEPT ![RunThread] = id]
  /\ goto(RunThread, "count")
  /\ UNCHANGED <<ctx_vars, dispatch_failed, scan_jobs_unfinished, pool_vars,
                 depth, waiter, tree_vars, sentinels>>

count_root ==
  /\ at[RunThread] = "count"
  /\ add_unfinished(scan[RunThread], 1)
  /\ goto(RunThread, "submit_root")
  /\ UNCHANGED <<registry, dispatch_failed, pool_vars, scan, depth, waiter, tree_vars, sentinels>>

HasRoom == ~pool_stop /\ Len(jobs) < SCAN_QUEUE_MAX_SIZE

submit_root_ok ==
  /\ at[RunThread] = "submit_root" /\ HasRoom
  /\ jobs' = Append(jobs, scan[RunThread])
  /\ goto(RunThread, "accepted")
  /\ UNCHANGED <<registry, ctx_vars, dispatch_failed, scan_jobs_unfinished, pool_stop,
                 scan, depth, waiter, tree_vars, sentinels>>

\* return true, or return false after task_on_job_finish().
return_from_start(place) ==
  /\ at[RunThread] = place
  /\ leaves(RunThread)
  /\ UNCHANGED <<registry, ctx_vars, dispatch_failed, scan_jobs_unfinished, pool_vars,
                 depth, waiter, tree_vars, sentinels>>

\* Mutant: "full" is taken for "accepted".
submit_root_full_unnoticed ==
  /\ at[RunThread] = "submit_root" /\ ~pool_stop /\ ~HasRoom
  /\ goto(RunThread, "accepted")
  /\ UNCHANGED <<registry, ctx_vars, dispatch_failed, scan_jobs_unfinished, pool_vars,
                 scan, depth, waiter, tree_vars, sentinels>>

submit_root_full ==
  /\ at[RunThread] = "submit_root" /\ ~pool_stop /\ ~HasRoom
  /\ goto(RunThread, "full")
  /\ UNCHANGED <<registry, ctx_vars, dispatch_failed, scan_jobs_unfinished, pool_vars,
                 scan, depth, waiter, tree_vars, sentinels>>

\* The scan is over before it began; task_on_job_finish() runs on this thread.
submit_root_shutdown ==
  /\ at[RunThread] = "submit_root" /\ pool_stop
  /\ truncated' = truncated \cup {scan[RunThread]}
  /\ goto(RunThread, "finish")
  /\ UNCHANGED <<registry, ctx_vars, dispatch_failed, scan_jobs_unfinished, pool_vars,
                 scan, depth, waiter, children_left, sentinels>>

\* Mutant: the root job that the pool did not take stays counted.
give_root_back_uncounted ==
  /\ at[RunThread] = "full"
  /\ dispatch_failed' = TRUE
  /\ goto(RunThread, "erase")
  /\ UNCHANGED <<registry, ctx_vars, scan_jobs_unfinished, pool_vars, scan, depth,
                 waiter, tree_vars, sentinels>>

\* unfinished_jobs goes down without a notify, then dispatch_failed.store(true).
give_root_back ==
  /\ at[RunThread] = "full"
  /\ add_unfinished(scan[RunThread], -1)
  /\ dispatch_failed' = TRUE
  /\ goto(RunThread, "erase")
  /\ UNCHANGED <<registry, pool_vars, scan, depth, waiter,
                 tree_vars, sentinels>>

unregister_root ==
  /\ at[RunThread] = "erase" /\ registry_unlocked
  /\ registry' = registry \ {scan[RunThread]}
  /\ leaves(RunThread)
  /\ UNCHANGED <<ctx_vars, dispatch_failed, scan_jobs_unfinished, pool_vars, depth, waiter, tree_vars, sentinels>>

-----------------------------------------------------------------------------
(* worker_job(), on a pool thread; inline jobs deepen its stack *)

\* A popped or inline job: a canceled scan's node is skipped.
begin_job(t, id) ==
  /\ goto(t, IF id \in canceled THEN "finish" ELSE "job")
  /\ truncated' = IF id \in canceled THEN truncated \cup {id} ELSE truncated
  /\ UNCHANGED children_left

pop_job(w) ==
  /\ at[w] = "idle" /\ jobs # <<>>
  /\ LET id == jobs[Len(jobs)] IN
       /\ jobs' = SubSeq(jobs, 1, Len(jobs) - 1)
       /\ scan' = [scan EXCEPT ![w] = id]
       /\ depth' = [depth EXCEPT ![w] = 1]
       /\ begin_job(w, id)
  /\ UNCHANGED <<registry, ctx_vars, dispatch_failed, scan_jobs_unfinished, pool_stop, waiter, sentinels>>

\* The slots kept free for the root jobs of the other scans.
Reserved == MaxConcurrent - 1
Enough == SCAN_QUEUE_MAX_SIZE - Len(jobs) > Reserved

\* A child of the node: counted, and the free slots looked at; without enough
\* of them it runs on this thread, as it does when the queue is full after all.
count_child(w) ==
  /\ at[w] = "job" /\ scan[w] \notin canceled /\ children_left[scan[w]] > 0
  /\ add_unfinished(scan[w], 1)
  /\ children_left' = [children_left EXCEPT ![scan[w]] = @ - 1]
  /\ IF Enough THEN goto(w, "submit") /\ UNCHANGED depth
               ELSE UNCHANGED at /\ depth' = [depth EXCEPT ![w] = @ + 1]
  /\ UNCHANGED <<registry, dispatch_failed, pool_vars, scan,
                 waiter, truncated, sentinels>>

submit_child_ok(w) ==
  /\ at[w] = "submit" /\ HasRoom
  /\ jobs' = Append(jobs, scan[w])
  /\ goto(w, "job")
  /\ UNCHANGED <<registry, ctx_vars, dispatch_failed, scan_jobs_unfinished, pool_stop,
                 scan, depth, waiter, tree_vars, sentinels>>

submit_child_full(w) ==
  /\ at[w] = "submit" /\ ~pool_stop /\ ~HasRoom
  /\ depth' = [depth EXCEPT ![w] = @ + 1]
  /\ begin_job(w, scan[w])
  /\ UNCHANGED <<registry, ctx_vars, dispatch_failed, scan_jobs_unfinished, pool_vars,
                 scan, waiter, sentinels>>

\* task_on_job_finish() for the child, then the loop over the node's children
\* breaks: any number of those left to the scan are never submitted.
submit_child_shutdown(w) ==
  /\ at[w] = "submit" /\ pool_stop
  /\ depth' = [depth EXCEPT ![w] = @ + 1]
  /\ \E n \in 0 .. children_left[scan[w]] :
       children_left' = [children_left EXCEPT ![scan[w]] = n]
  /\ truncated' = truncated \cup {scan[w]}
  /\ goto(w, "finish")
  /\ UNCHANGED <<registry, ctx_vars, dispatch_failed, scan_jobs_unfinished, pool_vars,
                 scan, waiter, sentinels>>

\* The node's children are all submitted, or the scan was canceled meanwhile.
end_job(w) ==
  /\ at[w] = "job"
  /\ truncated' = IF scan[w] \in canceled THEN truncated \cup {scan[w]} ELSE truncated
  /\ goto(w, "finish")
  /\ UNCHANGED <<registry, ctx_vars, dispatch_failed, scan_jobs_unfinished, pool_vars,
                 scan, depth, waiter, children_left, sentinels>>

exit_worker(w) ==
  /\ at[w] = "idle" /\ jobs = <<>> /\ pool_stop
  /\ goto(w, "exited")
  /\ UNCHANGED <<registry, ctx_vars, dispatch_failed, scan_jobs_unfinished, pool_vars,
                 scan, depth, waiter, tree_vars, sentinels>>

-----------------------------------------------------------------------------
(* task_on_job_finish(), by any thread; scan_jobs_unfinished is counted    *)
(* down by its last statement, long after unfinished_jobs.                 *)

\* Mutant: fetch_sub returns the value before, taken for the value after.
finish_counts_down_early(t) ==
  /\ at[t] = "finish"
  /\ unfinished_jobs' = [unfinished_jobs EXCEPT ![scan[t]] = @ - 1]
  /\ goto(t, IF unfinished_jobs[scan[t]] - 1 = 1 THEN "notify_cv" ELSE "exchange")
  /\ UNCHANGED <<registry, canceled, dispatch_failed, scan_jobs_unfinished, pool_vars,
                 scan, depth, waiter, tree_vars, sentinels>>

\* Mutant: each job of a canceled scan takes itself for the last.
finish_counts_down_canceled(t) ==
  /\ at[t] = "finish"
  /\ unfinished_jobs' = [unfinished_jobs EXCEPT ![scan[t]] = @ - 1]
  /\ goto(t, IF unfinished_jobs[scan[t]] = 1 \/ scan[t] \in canceled
               THEN "notify_cv" ELSE "exchange")
  /\ UNCHANGED <<registry, canceled, dispatch_failed, scan_jobs_unfinished, pool_vars,
                 scan, depth, waiter, tree_vars, sentinels>>

finish_counts_down(t) ==
  /\ at[t] = "finish"
  /\ unfinished_jobs' = [unfinished_jobs EXCEPT ![scan[t]] = @ - 1]
  /\ goto(t, IF unfinished_jobs[scan[t]] = 1 THEN "notify_cv" ELSE "exchange")
  /\ UNCHANGED <<registry, canceled, dispatch_failed, scan_jobs_unfinished, pool_vars,
                 scan, depth, waiter, tree_vars, sentinels>>

notify_waiter(t) ==
  /\ at[t] = "notify_cv"
  /\ manager_cv_notify
  /\ goto(t, "report")
  /\ UNCHANGED <<registry, ctx_vars, dispatch_failed, scan_jobs_unfinished, pool_vars,
                 scan, depth, tree_vars, sentinels>>

\* The call of notify_scan_finished(): the Scheduler's section.
report_finished(t) ==
  /\ at[t] = "report"
  /\ goto(t, "unregister")
  /\ UNCHANGED <<registry, ctx_vars, dispatch_failed, scan_jobs_unfinished, pool_vars,
                 scan, depth, waiter, tree_vars, sentinels>>

\* Mutant: is_canceled is left at its default.
unregister_as_complete(t) ==
  /\ at[t] = "unregister" /\ registry_unlocked
  /\ registry' = registry \ {scan[t]}
  /\ sentinels' = [sentinels EXCEPT ![scan[t]] =
                     IF scan[t] \notin registry THEN @ ELSE "complete"]
  /\ goto(t, "exchange")
  /\ UNCHANGED <<ctx_vars, dispatch_failed, scan_jobs_unfinished, pool_vars, scan,
                 depth, waiter, tree_vars>>

\* Sentinel::is_canceled is read, the scan leaves the registry, then the sentinel
\* and its row go to the exporter.  A cancel_scan() between the first two could
\* only change end_state in the row, which is not kept here.
unregister(t) ==
  /\ at[t] = "unregister" /\ registry_unlocked
  /\ registry' = registry \ {scan[t]}
  /\ sentinels' = [sentinels EXCEPT ![scan[t]] =
                     IF scan[t] \notin registry THEN @
                     ELSE IF scan[t] \in canceled THEN "canceled" ELSE "complete"]
  /\ goto(t, "exchange")
  /\ UNCHANGED <<ctx_vars, dispatch_failed, scan_jobs_unfinished, pool_vars, scan,
                 depth, waiter, tree_vars>>

\* The end of task_on_job_finish(): back in start_new_scan(), in the job that
\* ran this one inline, or in the pool's loop.
finish_returns(t) ==
  /\ scan_jobs_unfinished' = scan_jobs_unfinished - 1
  /\ depth' = [depth EXCEPT ![t] = IF t = RunThread THEN 0 ELSE @ - 1]
  /\ \/ t = RunThread /\ goto(t, "refused") /\ UNCHANGED scan
     \/ t # RunThread /\ depth[t] > 1 /\ goto(t, "job") /\ UNCHANGED scan
     \/ t # RunThread /\ depth[t] = 1 /\ leaves(t)
  /\ UNCHANGED <<registry, ctx_vars, pool_vars, waiter, tree_vars, sentinels>>

\* dispatch_failed.exchange(false) decides whether the Scheduler is notified.
no_dispatch_failed(t) ==
  /\ at[t] = "exchange" /\ ~dispatch_failed
  /\ finish_returns(t)
  /\ UNCHANGED dispatch_failed

dispatch_did_fail(t) ==
  /\ at[t] = "exchange" /\ dispatch_failed
  /\ dispatch_failed' = FALSE
  /\ goto(t, "make_room")
  /\ UNCHANGED <<registry, ctx_vars, scan_jobs_unfinished, pool_vars, scan, depth,
                 waiter, tree_vars, sentinels>>

\* The call of notify_dispatch_available(): the Scheduler's section.
make_room(t) ==
  /\ at[t] = "make_room"
  /\ finish_returns(t)
  /\ UNCHANGED dispatch_failed

-----------------------------------------------------------------------------
(* cancel_scan(), wait_to_finish(), shutdown() *)

cancel_scan(id) ==
  /\ registry_unlocked
  /\ canceled' = canceled \cup ({id} \cap registry)
  /\ IF id \in registry THEN manager_cv_notify ELSE UNCHANGED waiter
  /\ UNCHANGED <<registry, unfinished_jobs, dispatch_failed, scan_jobs_unfinished,
                 pool_vars, thread_vars, tree_vars, sentinels>>

NothingToWaitFor(id) == id \notin registry \/ unfinished_jobs[id] = 0

\* The predicate is false: the thread is about to sleep, the lock still held.
wait_checks(id) ==
  /\ waiter = "awake" /\ ~NothingToWaitFor(id)
  /\ waiter' = "checked"
  /\ UNCHANGED <<registry, ctx_vars, dispatch_failed, scan_jobs_unfinished,
                 pool_vars, thread_vars, tree_vars, sentinels>>

wait_sleeps ==
  /\ waiter = "checked" /\ waiter' = "asleep"
  /\ UNCHANGED <<registry, ctx_vars, dispatch_failed, scan_jobs_unfinished,
                 pool_vars, thread_vars, tree_vars, sentinels>>

wait_ends(id) ==
  /\ waiter = "awake" /\ NothingToWaitFor(id)
  /\ UNCHANGED manager_vars

stop_pool ==
  /\ pool_stop' = TRUE
  /\ UNCHANGED <<registry, ctx_vars, dispatch_failed, scan_jobs_unfinished, jobs,
                 thread_vars, waiter, tree_vars, sentinels>>

PoolJoined == \A w \in Workers : at[w] = "exited"

-----------------------------------------------------------------------------
\* What a pool worker does by itself, the two callbacks left out.
JobStep(w) ==
  \/ pop_job(w) \/ count_child(w) \/ submit_child_ok(w) \/ submit_child_full(w)
  \/ submit_child_shutdown(w) \/ end_job(w) \/ exit_worker(w)

FinishStep(t) ==
  \/ finish_counts_down(t) \/ notify_waiter(t) \/ unregister(t)
  \/ no_dispatch_failed(t) \/ dispatch_did_fail(t)

=============================================================================
