---------------------------- MODULE ScanControl -----------------------------
(***************************************************************************)
(* The Scheduler and the Manager as the daemon connects them (daemon.cpp): *)
(* run() calls start_new_scan() and cancel_scan(), clients cancel,         *)
(* shutdown() cancels, waits and stops the Manager, and the pool's workers *)
(* call notify_scan_finished() and notify_dispatch_available() back.       *)
(* The exporter is seen as far as it unblocks roots.                       *)
(***************************************************************************)
EXTENDS Scheduler, Manager

ASSUME ConnectionAssumption ==
  MaxConcurrent = MAX_CONCURRENT_SCAN /\ Scans = ScanIds

VARIABLES
  exported,   \* scans that notify_export_done() was called for
  rooted,     \* history: scans whose root job got into the pool
  reported    \* history: scans that notify_scan_finished() was called for

history == <<rooted, reported>>
vars == <<scheduler_vars, manager_vars, exported, history>>

TypeOK ==
  /\ SchedulerTypeOK /\ ManagerTypeOK
  /\ exported \in SUBSET ScanIds /\ rooted \in SUBSET ScanIds
  /\ reported \in SUBSET ScanIds

Init ==
  /\ SchedulerInit /\ ManagerInit
  /\ exported = {} /\ rooted = {} /\ reported = {}

-----------------------------------------------------------------------------
(* Threads *)

Client(c) ==
  /\ \/ ClientStep(c) /\ UNCHANGED manager_vars
     \/ cancel_call[c] # 0 /\ cancel_scan(cancel_call[c]) /\ cancel_call_returns(c)
  /\ UNCHANGED <<exported, history>>

\* The body of start_new_scan(), then its three ways to return.
Starts ==
  /\ \/ run_pc = "dispatch" /\ begin_new_scan(run_id)
     \/ count_root \/ submit_root_full \/ submit_root_shutdown \/ give_root_back
  /\ UNCHANGED <<scheduler_vars, exported, history>>

RootQueued ==
  /\ submit_root_ok
  /\ rooted' = rooted \cup {scan[RunThread]}
  /\ UNCHANGED <<scheduler_vars, exported, reported>>

StartReturns ==
  /\ \/ return_from_start("accepted") /\ start_new_scan_returns("accepted")
     \/ unregister_root /\ start_new_scan_returns("full")
     \/ return_from_start("refused") /\ start_new_scan_returns("failed")
  /\ UNCHANGED <<exported, history>>

\* No memory for the registry's entry: run() catches the exception.
StartThrows ==
  /\ at[RunThread] = "idle" /\ start_new_scan_returns("failed")
  /\ UNCHANGED <<manager_vars, exported, history>>

Run ==
  \/ /\ \/ RunStep /\ UNCHANGED manager_vars
        \/ run_pc = "cancel" /\ cancel_scan(run_id) /\ run_cancel_returns
     /\ UNCHANGED <<exported, history>>
  \/ Starts \/ RootQueued \/ StartReturns

\* task_on_job_finish(), on whichever thread counted the job down.
Finish(t) ==
  \/ FinishStep(t) /\ UNCHANGED <<scheduler_vars, exported, history>>
  \/ /\ report_finished(t) /\ notify_scan_finished(scan[t])
     /\ reported' = reported \cup {scan[t]}
     /\ UNCHANGED <<exported, rooted>>
  \/ /\ make_room(t) /\ notify_dispatch_available
     /\ UNCHANGED <<exported, history>>

Worker(w) ==
  \/ JobStep(w) /\ UNCHANGED <<scheduler_vars, exported, history>>
  \/ Finish(w)

WaitToFinish ==
  /\ sd = "wait" /\ sd_now # 0
  /\ \/ (wait_checks(sd_now) \/ wait_sleeps) /\ UNCHANGED scheduler_vars
     \/ wait_ends(sd_now) /\ shutdown_finds_finished

ShutdownThread ==
  /\ \/ \E id \in ScanIds : shutdown_cancels(id) /\ cancel_scan(id)
     \/ /\ \/ shutdown_canceled \/ shutdown_waited \/ shutdown_notifies
           \/ \E id \in ScanIds : shutdown_waits_for(id)
           \/ PoolJoined /\ shutdown_joined_manager
        /\ UNCHANGED manager_vars
     \/ WaitToFinish
     \/ shutdown_stops_manager /\ stop_pool
  /\ UNCHANGED <<exported, history>>

\* finalize_scan() gets to its callback, while the result thread lives.
Export(id) ==
  /\ sentinels[id] # "none" /\ id \notin exported
  /\ sd \notin {"notify", "done"}
  /\ exported' = exported \cup {id}
  /\ notify_export_done(root_of[id])
  /\ UNCHANGED <<manager_vars, history>>

\* The standard's spurious wakeups of both condition variables.
SpuriousWakeup ==
  /\ \/ run_wakes_spuriously /\ UNCHANGED manager_vars
     \/ waiter = "asleep" /\ manager_cv_notify /\
        UNCHANGED <<scheduler_vars, registry, ctx_vars, dispatch_failed,
                    scan_jobs_unfinished, pool_vars, thread_vars, tree_vars, sentinels>>
  /\ UNCHANGED <<exported, history>>

Shutdown == shutdown /\ UNCHANGED <<manager_vars, exported, history>>

Next ==
  \/ \E c \in Clients : Client(c)
  \/ Run \/ StartThrows \/ Finish(RunThread)
  \/ \E w \in Workers : Worker(w)
  \/ Shutdown \/ ShutdownThread
  \/ \E id \in ScanIds : Export(id)
  \/ SpuriousWakeup

\* Every thread inside the daemon's code goes on whenever it can.
Fairness ==
  /\ WF_vars(Run) /\ WF_vars(Finish(RunThread)) /\ WF_vars(ShutdownThread)
  /\ \A w \in Workers : WF_vars(Worker(w))

SafeSpec == Init /\ [][Next]_vars
Spec == SafeSpec /\ Fairness

-----------------------------------------------------------------------------
(* Properties *)

FinishPlaces == {"notify_cv", "report", "unregister", "exchange", "make_room"}
CountedDown(t) == at[t] \in FinishPlaces

\* The jobs on a thread's stack, and the one it is about to submit.
Stack(t) ==
  IF t = RunThread
    THEN IF at[t] \in {"submit_root", "full", "finish"} \cup FinishPlaces THEN 1 ELSE 0
    ELSE depth[t] + (IF at[t] = "submit" THEN 1 ELSE 0)

\* Those of them that it has not counted down yet.
Held(t) == Stack(t) - (IF CountedDown(t) THEN 1 ELSE 0)

QueuedJobs(id) == {k \in DOMAIN jobs : jobs[k] = id}

\* f[t] jobs of each thread t, as pairs of the thread and a number.
JobsOf(f) == UNION {{t} \X (1 .. f[t]) : t \in DOMAIN f}

HeldJobs(id) == JobsOf([t \in ManagerThreads |-> IF scan[t] = id THEN Held(t) ELSE 0])
Stacks == JobsOf([t \in ManagerThreads |-> Stack(t)])

(* "atomic counters coordinate completion detection across threads"        *)
(* (scan_system/Readme.md:164): unfinished_jobs is the number of jobs of   *)
(* the scan that are queued, running, inline or about to be queued, so it  *)
(* reaches zero once, with the last of them; the metric that the daemon    *)
(* polls counts the jobs of all scans until their threads have left them.  *)
UnfinishedAccounting ==
  /\ \A id \in ScanIds :
       unfinished_jobs[id] = Cardinality(QueuedJobs(id)) + Cardinality(HeldJobs(id))
  /\ scan_jobs_unfinished = Len(jobs) + Cardinality(Stacks)

(* A scan with jobs left is in the registry, where cancel_scan() finds it; *)
(* one reported to the Scheduler has none.                                 *)
RegistryCoversJobs ==
  \A id \in ScanIds :
    /\ unfinished_jobs[id] > 0 => id \in registry
    /\ id \in reported => unfinished_jobs[id] = 0

(* The sentinel of a scan that missed a node says canceled, or the index   *)
(* would take the missing ones for deleted (multi_scanner.cpp:21-37,       *)
(* manager.cpp:188), unless the pool was stopped under it.                 *)
CompleteUnlessCanceled ==
  \A id \in ScanIds : id \in truncated /\ ~pool_stop => sentinels[id] # "complete"

(* The Manager of the code is one the Scheduler was designed for.          *)
MgrView(id) ==
  IF id \in reported THEN IF id \in rooted THEN "ended" ELSE "given_up"
  ELSE IF \E t \in ManagerThreads : at[t] \in {"notify_cv", "report"} /\ scan[t] = id
    THEN IF id \in rooted THEN "drained" ELSE "refused"
  ELSE IF id \in rooted THEN "taken"
  ELSE IF at[RunThread] = "finish" /\ scan[RunThread] = id THEN "refused" ELSE "none"

Open == INSTANCE OpenScheduler WITH
          mgr <- [id \in ScanIds |-> MgrView(id)], manager_stopped <- pool_stop
ManagerKeepsInterface == Open!SafeSpec

-----------------------------------------------------------------------------
(* What a document says and the code does not do *)

(* "notify scheduler job_queue is not full, scheduler can try to push      *)
(* root_path" (manager.cpp:229): a dispatch that the full queue put off is *)
(* tried again.                                                            *)
RetryIsNotForgotten ==
  manager_queue_full ~> (~manager_queue_full \/ stop_flag)

(* scheduler.shutdown(): "cancel all running / pending scans", then the    *)
(* daemon polls (daemon_system/Readme.md:54-62): shutdown() returns.       *)
ShutdownReturns == stop_flag ~> (sd = "done")

=============================================================================
