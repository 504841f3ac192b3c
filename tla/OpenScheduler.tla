--------------------------- MODULE OpenScheduler ----------------------------
(***************************************************************************)
(* The Scheduler with any Manager that keeps the interface: it answers     *)
(* start_new_scan(), works off the jobs of the scans it took, calls        *)
(* notify_scan_finished() once for each and notify_export_done() at most   *)
(* once.  `mgr' says how far it is with each scan.  ScanControl shows that *)
(* the Manager of the code is one of these.                                *)
(***************************************************************************)
EXTENDS Scheduler

VARIABLES
  mgr,              \* how far the Manager is with each scan
  manager_stopped,  \* its pool no longer accepts jobs
  exported          \* the scans that notify_export_done() was called for

mgr_vars == <<mgr, manager_stopped, exported>>
vars == <<scheduler_vars, mgr_vars>>

(* Not given to the Manager (or given back), with jobs in the pool, with   *)
(* the last job counted down, reported by notify_scan_finished(); a root   *)
(* job refused by a stopped pool is counted down and reported like a       *)
(* finished one: "refused", then "given_up".                               *)
MgrState == {"none", "taken", "drained", "ended", "refused", "given_up"}

TypeOK ==
  /\ SchedulerTypeOK
  /\ mgr \in [ScanIds -> MgrState]
  /\ manager_stopped \in BOOLEAN
  /\ exported \in SUBSET ScanIds

Init ==
  /\ SchedulerInit
  /\ mgr = [i \in ScanIds |-> "none"]
  /\ manager_stopped = FALSE /\ exported = {}

-----------------------------------------------------------------------------
(* The Manager *)

set_mgr(id, from, to) ==
  /\ mgr[id] = from /\ mgr' = [mgr EXCEPT ![id] = to]
  /\ UNCHANGED <<manager_stopped, exported>>

\* start_new_scan() gets the root job into the pool, whose workers may be done
\* with the whole scan before it returns true.
ManagerTakes ==
  /\ run_pc = "dispatch" /\ ~manager_stopped
  /\ set_mgr(run_id, "none", "taken")
  /\ UNCHANGED scheduler_vars

\* A stopped pool: the root job is counted down again, as if it had run.
ManagerRefuses ==
  /\ run_pc = "dispatch" /\ manager_stopped
  /\ set_mgr(run_id, "none", "refused")
  /\ UNCHANGED scheduler_vars

\* "full" is the queue's answer, "failed" without having been taken or refused
\* an exception out of start_new_scan().
AnswersAfter(s) == CASE s = "none" -> {"full", "failed"}
                     [] s \in {"taken", "drained", "ended"} -> {"accepted"}
                     [] s = "refused" -> {}
                     [] s = "given_up" -> {"failed"}

ManagerAnswers ==
  /\ run_pc = "dispatch"
  /\ \E a \in AnswersAfter(mgr[run_id]) : start_new_scan_returns(a)
  /\ UNCHANGED mgr_vars

ManagerDrains(id) == set_mgr(id, "taken", "drained") /\ UNCHANGED scheduler_vars

ManagerReports(id) ==
  /\ set_mgr(id, "drained", "ended") \/ set_mgr(id, "refused", "given_up")
  /\ notify_scan_finished(id)

ManagerMakesRoom == notify_dispatch_available /\ UNCHANGED mgr_vars

ManagerExports(id) ==
  /\ mgr[id] \in {"ended", "given_up"} /\ id \notin exported
  /\ exported' = exported \cup {id}
  /\ notify_export_done(root_of[id])
  /\ UNCHANGED <<mgr, manager_stopped>>

-----------------------------------------------------------------------------
(* The calls that wait for the Manager *)

\* manager.cancel_scan() returns to a client; to run() after it was accepted.
cancel_returns(c) == cancel_call_returns(c) /\ UNCHANGED mgr_vars
run_cancels == run_cancel_returns /\ UNCHANGED mgr_vars

ShutdownStep ==
  \/ /\ \/ \E id \in ScanIds : shutdown_cancels(id) \/ shutdown_waits_for(id)
        \/ shutdown_canceled
        \/ sd_now # 0 /\ mgr[sd_now] # "taken" /\ shutdown_finds_finished
        \/ shutdown_waited
        \/ /\ \A i \in ScanIds : mgr[i] \notin {"taken", "drained"}
           /\ shutdown_joined_manager
        \/ shutdown_notifies
     /\ UNCHANGED mgr_vars
  \/ /\ shutdown_stops_manager
     /\ manager_stopped' = TRUE /\ UNCHANGED <<mgr, exported>>

-----------------------------------------------------------------------------
RunLoop == (RunStep /\ UNCHANGED mgr_vars) \/ run_cancels

Next ==
  \/ \E c \in Clients : (ClientStep(c) /\ UNCHANGED mgr_vars) \/ cancel_returns(c)
  \/ RunLoop
  \/ run_wakes_spuriously /\ UNCHANGED mgr_vars
  \/ shutdown /\ UNCHANGED mgr_vars
  \/ ShutdownStep
  \/ ManagerTakes \/ ManagerRefuses \/ ManagerAnswers \/ ManagerMakesRoom
  \/ \E id \in ScanIds : ManagerDrains(id) \/ ManagerReports(id) \/ ManagerExports(id)

(***************************************************************************)
(* Fairness: run() goes on whenever it can; the Manager answers, finishes  *)
(* the scans it took, does not find its queue full for ever (SF), and      *)
(* calls back after an answer of "full" was recorded, which is what        *)
(* start_new_scan() and task_on_job_finish() mean to guarantee; shutdown() *)
(* goes on when the Manager's calls return.  Clients owe nothing, and      *)
(* neither does the exporter.                                              *)
(***************************************************************************)
ManagerFairness ==
  /\ SF_vars(ManagerTakes) /\ WF_vars(ManagerRefuses) /\ WF_vars(ManagerAnswers)
  /\ WF_vars(manager_queue_full /\ ManagerMakesRoom)
  /\ \A id \in ScanIds : WF_vars(ManagerDrains(id)) /\ WF_vars(ManagerReports(id))

Fairness == WF_vars(RunLoop) /\ WF_vars(ShutdownStep) /\ ManagerFairness

SafeSpec == Init /\ [][Next]_vars
Spec == SafeSpec /\ Fairness

-----------------------------------------------------------------------------
(* Properties *)

InManager(id) == mgr[id] \in {"taken", "drained"}

(* pending_scans exists "to avoid O(n) erase of pending scan"              *)
(* (scheduler.h:39): it counts exactly the queued scans that cancel() has  *)
(* not dropped, and the metric counts every queued entry.                  *)
PendingAccounting ==
  ~stop_flag =>
    /\ pending_scans =
         Cardinality({k \in DOMAIN pending_queue : state_map[pending_queue[k]] # "DROPPED"})
    /\ scan_pending = Len(pending_queue)

(* running_scans, "increment: manager_accept; decrement:                   *)
(* notify_scan_finished" (scheduler.h:38), counts the recorded scans that  *)
(* the Manager still has, less one when the scan in flight was canceled    *)
(* and finished before run() could count it.                               *)
Counted == {i \in ScanIds : InManager(i) /\ i \notin InFlight}
CountedEarly == {i \in InFlight : state_map[i] = "CANCELED" /\ mgr[i] = "ended"}
RunningAccounting ==
  ~stop_flag => running_scans = Cardinality(Counted) - Cardinality(CountedEarly)

(* However cancel(), run() and the callbacks interleave, no more than      *)
(* MAX_CONCURRENT_SCAN scans have jobs in the pool.                        *)
ConcurrencyLimit ==
  Cardinality({i \in ScanIds : InManager(i)}) <= MAX_CONCURRENT_SCAN

(* What run() pops after it retook the lock is the scan it dispatched:     *)
(* that scan is still at the front, everything behind it is PENDING or     *)
(* DROPPED, every queued scan is in state_map (scheduler.h:42), and none   *)
(* is queued twice.                                                        *)
QueueShape ==
  /\ \A k \in DOMAIN pending_queue :
       /\ state_map[pending_queue[k]] # "NONE"
       /\ k > 1 => state_map[pending_queue[k]] \in {"PENDING", "DROPPED"}
       /\ \A j \in DOMAIN pending_queue : pending_queue[j] = pending_queue[k] => j = k
  /\ InFlight # {} /\ ~stop_flag => pending_queue # <<>> /\ Front = run_id

(* Two scans whose results are not yet exported never overlap: each keeps  *)
(* its root in root_map until notify_export_done() (scheduler.cpp:294,     *)
(* "erase overlap root blocking").                                         *)
Unexported == {i \in ScanIds : state_map[i] # "NONE" /\ i \notin exported}
NoOverlappingScans ==
  /\ \A i \in Unexported : root_of[i] \in root_map
  /\ \A i, j \in Unexported : i # j => /\ root_of[i] # root_of[j]
                                       /\ \/ <<root_of[i], root_of[j]>> \notin Overlap
                                          \/ <<root_of[j], root_of[i]>> \notin Overlap

(* The transitions of RequestState: those of request_state.h:18-24, with   *)
(* the retry after "full" (daemon_system/Readme.md:162-166) and the scan   *)
(* that is done before it was recorded as running (scheduler.cpp:272).     *)
Transitions ==
  {<<"NONE", "PENDING">>, <<"RUNNING", "DONE">>, <<"RUNNING", "CANCELED">>,
   <<"PENDING", "DROPPED">>, <<"PENDING", "DISPATCHING">>,
   <<"DISPATCHING", "RUNNING">>, <<"DISPATCHING", "CANCELED">>,
   <<"DISPATCHING", "FAILED">>, <<"DISPATCHING", "PENDING">>, <<"DISPATCHING", "DONE">>}
Lifecycle ==
  [][\A i \in ScanIds : state_map'[i] # state_map[i] =>
       <<state_map[i], state_map'[i]>> \in Transitions]_vars

(* Every submitted scan reaches an end: no dispatch, cancel or callback is *)
(* forgotten by the run loop.                                              *)
EveryScanEnds ==
  \A i \in ScanIds : (state_map[i] \in {"PENDING", "DISPATCHING", "RUNNING"}) ~>
                     (state_map[i] \in {"DONE", "CANCELED", "DROPPED", "FAILED"})

(* shutdown() returns and run() leaves its loop.                           *)
ShutdownCompletes == stop_flag ~> (sd = "done" /\ run_pc = "exit")

(* The Scheduler gives clients the lifecycle of ScanLifecycle.             *)
Public(i) == IF state_map[i] = "DISPATCHING" THEN "PENDING" ELSE state_map[i]
PublicState == [i \in ScanIds |-> Public(i)]
QueuedAhead ==
  {p \in ScanIds \X ScanIds :
     /\ Public(p[1]) = "PENDING" /\ Public(p[2]) = "PENDING"
     /\ \E j, k \in DOMAIN pending_queue :
          j < k /\ pending_queue[j] = p[1] /\ pending_queue[k] = p[2]}
Lifecycles == INSTANCE ScanLifecycle WITH state <- PublicState, ahead <- QueuedAhead
PublicLifecycle == Lifecycles!Spec

=============================================================================
