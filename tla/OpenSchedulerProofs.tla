------------------------- MODULE OpenSchedulerProofs --------------------------
(***************************************************************************)
(* Proofs about the Scheduler with any Manager that keeps the interface,   *)
(* for any number of clients, roots and scans and any limits: the          *)
(* lifecycle and the roots; running_scans keeps the limit whatever         *)
(* cancel() and the callbacks do while run() is without the lock,          *)
(* pending_scans counts what is queued, shutdown() leaves nothing behind,  *)
(* and clients are shown the lifecycle of ScanLifecycle.                   *)
(***************************************************************************)
EXTENDS OpenScheduler, SequenceTheorems, FiniteSetTheorems, TLAPS

-----------------------------------------------------------------------------
(* Type correctness *)

\* While run() handles a scan, its copy of the entry names one in state_map.
HandledIsKnown ==
  run_pc \in {"dispatch", "returned", "cancel"} =>
    run_id \in ScanIds /\ state_map[run_id] # "NONE"

TypeInv == TypeOK /\ HandledIsKnown


LEMMA FrontIsScan ==
  ASSUME TypeOK, pending_queue # <<>>
  PROVE  Front \in ScanIds /\ Tail(pending_queue) \in Seq(ScanIds)
  BY HeadTailProperties DEF TypeOK, SchedulerTypeOK, Front

LEMMA PopType ==
  ASSUME TypeOK, NEW id, pop_if_front(id)
  PROVE  pending_queue' \in Seq(ScanIds) /\ scan_pending' \in Nat
<1>1. pending_queue' \in Seq(ScanIds)
  BY FrontIsScan DEF pop_if_front, TypeOK, SchedulerTypeOK
<1>2. scan_pending' \in Nat
  BY DEF pop_if_front, count_down, TypeOK, SchedulerTypeOK
<1> QED
  BY <1>1, <1>2

LEMMA ScanIdsNat == ScanIds \subseteq Nat /\ MaxScanId \in Nat /\ 0 \notin ScanIds
  BY LimitsAssumption DEF ScanIds

LEMMA InitType == Init => TypeInv
<1> SUFFICES ASSUME Init PROVE TypeInv
  OBVIOUS
<1>1. pending_queue \in Seq(ScanIds)
  BY EmptySeq DEF Init, SchedulerInit
<1>2. stop_flag \in BOOLEAN /\ manager_queue_full \in BOOLEAN /\ manager_stopped \in BOOLEAN
  BY DEF Init, SchedulerInit
<1>3. /\ running_scans \in Int /\ pending_scans \in Int /\ scan_pending \in Nat
      /\ next_scan_id \in 1 .. MaxScanId + 1
      /\ run_id \in 0 .. MaxScanId /\ sd_now \in 0 .. MaxScanId
      /\ new_id \in [Clients -> 0 .. MaxScanId]
      /\ cancel_call \in [Clients -> 0 .. MaxScanId]
  BY LimitsAssumption DEF Init, SchedulerInit
<1>4. /\ state_map \in [ScanIds -> RequestState \cup {"NONE"}]
      /\ root_of \in [ScanIds -> Roots \cup {NoRoot}]
      /\ mgr \in [ScanIds -> MgrState]
  BY DEF Init, SchedulerInit, MgrState
<1>5. /\ root_map \in SUBSET Roots /\ exported \in SUBSET ScanIds
      /\ run_pc \in {"loop", "wait", "dispatch", "returned", "cancel", "exit"}
      /\ answer \in {"none", "accepted", "full", "failed"}
      /\ sd \in {"none", "cancel", "wait", "stop_manager", "join_manager", "notify", "done"}
      /\ sd_cancels \in SUBSET ScanIds /\ sd_scans \in SUBSET ScanIds
  BY DEF Init, SchedulerInit
<1>6. HandledIsKnown
  BY DEF Init, SchedulerInit, HandledIsKnown
<1> QED
  BY <1>1, <1>2, <1>3, <1>4, <1>5, <1>6 DEF TypeInv, TypeOK, SchedulerTypeOK

LEMMA ClientType ==
  ASSUME TypeInv, NEW c \in Clients, ClientStep(c), UNCHANGED mgr_vars
  PROVE  TypeInv'
<1> USE ScanIdsNat DEF TypeInv, TypeOK, SchedulerTypeOK, HandledIsKnown, mgr_vars, fields, clients,
       run_vars, sd_vars, queue_vars
<1>1. CASE gen_scan_id(c)
  BY <1>1, LimitsAssumption DEF gen_scan_id
<1>2. CASE submit_rejected(c)
  BY <1>2 DEF submit_rejected
<1>3. ASSUME NEW root \in Roots, submit_ok(c, root) PROVE TypeInv'
  <2>1. new_id[c] \in ScanIds
    BY <1>3, LimitsAssumption DEF submit_ok, ScanIds
  <2>2. pending_queue' \in Seq(ScanIds)
    BY <1>3, <2>1, AppendProperties DEF submit_ok
  <2>3. state_map' \in [ScanIds -> RequestState \cup {"NONE"}]
    BY <1>3, <2>1 DEF submit_ok, set_state, RequestState
  <2>4. run_pc' \in {"loop", "wait", "dispatch", "returned", "cancel", "exit"}
    BY <1>3 DEF submit_ok, wake_run
  <2>5. HandledIsKnown'
    BY <1>3, <2>1, <2>3 DEF submit_ok, set_state, wake_run, RequestState
  <2>6. /\ root_of' \in [ScanIds -> Roots \cup {NoRoot}]
        /\ root_map' \in SUBSET Roots
        /\ new_id' \in [Clients -> 0 .. MaxScanId]
    BY <1>3, <2>1 DEF submit_ok
  <2>7. pending_scans' \in Int /\ scan_pending' \in Nat
    BY <1>3 DEF submit_ok
  <2> QED
    BY <1>3, <2>2, <2>3, <2>4, <2>5, <2>6, <2>7 DEF submit_ok
<1>4. ASSUME NEW id \in ScanIds, cancel_running(c, id) PROVE TypeInv'
  <2>1. state_map' \in [ScanIds -> RequestState \cup {"NONE"}]
    BY <1>4 DEF cancel_running, set_state, RequestState
  <2>2. HandledIsKnown'
    BY <1>4, <2>1 DEF cancel_running, set_state
  <2>3. cancel_call' \in [Clients -> 0 .. MaxScanId]
    BY <1>4, LimitsAssumption DEF cancel_running, ScanIds
  <2> QED
    BY <1>4, <2>1, <2>2, <2>3 DEF cancel_running
<1>5. ASSUME NEW id \in ScanIds, cancel_pending(c, id) PROVE TypeInv'
  <2>1. state_map' \in [ScanIds -> RequestState \cup {"NONE"}]
    BY <1>5 DEF cancel_pending, set_state, RequestState
  <2>2. HandledIsKnown'
    BY <1>5, <2>1 DEF cancel_pending, set_state
  <2>3. pending_scans' \in Int
    BY <1>5 DEF cancel_pending
  <2> QED
    BY <1>5, <2>1, <2>2, <2>3 DEF cancel_pending
<1> QED
  BY <1>1, <1>2, <1>3, <1>4, <1>5 DEF ClientStep

LEMMA RunType ==
  ASSUME TypeInv, RunLoop
  PROVE  TypeInv'
<1> USE ScanIdsNat DEF TypeInv, TypeOK, SchedulerTypeOK, HandledIsKnown, mgr_vars, fields, clients,
       run_vars, sd_vars, queue_vars
<1>1. CASE run_waits /\ UNCHANGED mgr_vars
  BY <1>1 DEF run_waits
<1>2. CASE run_exits /\ UNCHANGED mgr_vars
  BY <1>2 DEF run_exits
<1>3. CASE run_skips /\ UNCHANGED mgr_vars
  <2>1. run_id' \in ScanIds /\ pending_scans' \in Int
    BY <1>3, FrontIsScan DEF run_skips, CanPop, Blocked
  <2>2. pending_queue' \in Seq(ScanIds) /\ scan_pending' \in Nat
    BY <1>3, PopType DEF run_skips
  <2>3. HandledIsKnown'
    BY <1>3 DEF run_skips, CanPop
  <2>4. run_id' \in 0 .. MaxScanId
    BY <2>1, LimitsAssumption DEF ScanIds
  <2> QED
    BY <1>3, <2>1, <2>2, <2>3, <2>4 DEF run_skips
<1>4. CASE run_dispatches /\ UNCHANGED mgr_vars
  <2>1. run_id' \in ScanIds /\ run_id' = Front
    BY <1>4, FrontIsScan DEF run_dispatches, CanPop, Blocked
  <2>2. run_id' \in 0 .. MaxScanId
    BY <2>1, LimitsAssumption DEF ScanIds
  <2>3. state_map' \in [ScanIds -> RequestState \cup {"NONE"}] /\ HandledIsKnown'
    BY <1>4, <2>1 DEF run_dispatches, set_state, RequestState
  <2> QED
    BY <1>4, <2>2, <2>3 DEF run_dispatches
<1>5. ASSUME UNCHANGED mgr_vars, NEW s, NEW next \in {"loop", "cancel"}, Returned(s, next),
             UNCHANGED state_map \/ \E t \in RequestState : set_state(run_id, t),
             UNCHANGED queue_vars \/ leaves_queue,
             UNCHANGED running_scans \/ running_scans' = running_scans + 1,
             UNCHANGED manager_queue_full \/ manager_queue_full' = TRUE
      PROVE  TypeInv'
  <2>1. pending_queue' \in Seq(ScanIds) /\ scan_pending' \in Nat /\ pending_scans' \in Int
    BY SMTT(30), <1>5, PopType DEF leaves_queue
  <2>2. state_map' \in [ScanIds -> RequestState \cup {"NONE"}]
    BY <1>5 DEF set_state
  <2>3. HandledIsKnown'
    BY <1>5, <2>2 DEF Returned, set_state, RequestState
  <2>4. running_scans' \in Int
    BY <1>5
  <2>5. manager_queue_full' \in BOOLEAN
    BY <1>5
  <2> QED
    BY <1>5, <2>1, <2>2, <2>3, <2>4, <2>5 DEF Returned
<1>6. CASE (\/ run_records_running \/ run_records_canceled \/ run_retries_later
            \/ run_records_failed \/ run_finds_done) /\ UNCHANGED mgr_vars
  BY <1>5, <1>6 DEF run_records_running, run_records_canceled, run_retries_later,
                    run_records_failed, run_finds_done, RequestState
<1>7. CASE run_cancels
  BY <1>7 DEF run_cancels, run_cancel_returns
<1> QED
  BY <1>1, <1>2, <1>3, <1>4, <1>6, <1>7 DEF RunLoop, RunStep

LEMMA ShutdownType ==
  ASSUME TypeInv, (shutdown /\ UNCHANGED mgr_vars) \/ ShutdownStep
  PROVE  TypeInv'
<1> USE ScanIdsNat DEF TypeInv, TypeOK, SchedulerTypeOK, HandledIsKnown, mgr_vars, fields, clients,
       run_vars, sd_vars, queue_vars
<1>1. CASE shutdown /\ UNCHANGED mgr_vars
  <2>1. sd_scans' \in SUBSET ScanIds /\ sd_cancels' \in SUBSET ScanIds
    BY <1>1 DEF shutdown
  <2>2. state_map' \in [ScanIds -> RequestState \cup {"NONE"}]
    BY <1>1 DEF shutdown, RequestState
  <2>3. \A i \in ScanIds : state_map[i] # "NONE" => state_map'[i] # "NONE"
    BY <1>1 DEF shutdown
  <2>4. HandledIsKnown'
    BY <1>1, <2>3 DEF shutdown
  <2>5. pending_queue' \in Seq(ScanIds) /\ stop_flag' \in BOOLEAN
    BY <1>1, EmptySeq DEF shutdown
  <2> QED
    BY <1>1, <2>1, <2>2, <2>4, <2>5 DEF shutdown
<1>2. ASSUME NEW id \in ScanIds, shutdown_cancels(id) \/ shutdown_waits_for(id), UNCHANGED mgr_vars
      PROVE  TypeInv'
  <2>1. id \in 0 .. MaxScanId
    BY LimitsAssumption DEF ScanIds
  <2> QED
    BY ZenonT(30), <1>2, <2>1 DEF shutdown_cancels, shutdown_waits_for
<1>3. CASE shutdown_finds_finished /\ UNCHANGED mgr_vars
  BY <1>3, LimitsAssumption DEF shutdown_finds_finished
<1>4. CASE (shutdown_canceled \/ shutdown_waited \/ shutdown_joined_manager) /\ UNCHANGED mgr_vars
  BY ZenonT(30), <1>4 DEF shutdown_canceled, shutdown_waited, shutdown_joined_manager, sd_goto
<1>5. CASE shutdown_notifies /\ UNCHANGED mgr_vars
  BY <1>5 DEF shutdown_notifies, sd_goto, wake_run
<1>6. CASE shutdown_stops_manager /\ manager_stopped' = TRUE /\ UNCHANGED <<mgr, exported>>
  BY <1>6 DEF shutdown_stops_manager, sd_goto
<1> QED
  BY <1>1, <1>2, <1>3, <1>4, <1>5, <1>6 DEF ShutdownStep

ManagerStep ==
  \/ ManagerTakes \/ ManagerRefuses \/ ManagerAnswers \/ ManagerMakesRoom
  \/ \E id \in ScanIds : ManagerDrains(id) \/ ManagerReports(id) \/ ManagerExports(id)

LEMMA ManagerType ==
  ASSUME TypeInv, ManagerStep
  PROVE  TypeInv'
<1> USE ScanIdsNat DEF TypeInv, TypeOK, SchedulerTypeOK, HandledIsKnown, mgr_vars, fields, clients,
       run_vars, sd_vars, queue_vars, scheduler_vars
<1>1. ASSUME NEW id, NEW from, NEW to \in MgrState, set_mgr(id, from, to)
      PROVE  mgr' \in [ScanIds -> MgrState] /\ UNCHANGED <<manager_stopped, exported>>
  BY <1>1 DEF set_mgr
<1>2. CASE ManagerTakes \/ ManagerRefuses \/ \E id \in ScanIds : ManagerDrains(id)
  <2>1. mgr' \in [ScanIds -> MgrState] /\ UNCHANGED <<manager_stopped, exported, scheduler_vars>>
    BY <1>1, <1>2 DEF ManagerTakes, ManagerRefuses, ManagerDrains, MgrState
  <2> QED
    BY <2>1
<1>3. CASE ManagerAnswers
  <2>1. PICK a \in AnswersAfter(mgr[run_id]) : start_new_scan_returns(a)
    BY <1>3 DEF ManagerAnswers
  <2>2. mgr[run_id] \in MgrState
    BY <1>3 DEF ManagerAnswers
  <2>3. a \in {"none", "accepted", "full", "failed"}
    BY <2>1, <2>2 DEF AnswersAfter, MgrState
  <2> QED
    BY <1>3, <2>1, <2>3 DEF ManagerAnswers, start_new_scan_returns
<1>4. CASE ManagerMakesRoom
  BY ZenonT(30), <1>4 DEF ManagerMakesRoom, notify_dispatch_available, wake_run
<1>5. ASSUME NEW id \in ScanIds, ManagerReports(id) PROVE TypeInv'
  <2>1. mgr' \in [ScanIds -> MgrState] /\ UNCHANGED <<manager_stopped, exported>>
    BY <1>1, <1>5 DEF ManagerReports, MgrState
  <2>2. state_map' \in [ScanIds -> RequestState \cup {"NONE"}]
    BY <1>5 DEF ManagerReports, notify_scan_finished, RequestState
  <2>3. running_scans' \in Int
    BY <1>5 DEF ManagerReports, notify_scan_finished
  <2>4. HandledIsKnown'
    BY <1>5 DEF ManagerReports, notify_scan_finished, wake_run
  <2> QED
    BY <1>5, <2>1, <2>2, <2>3, <2>4 DEF ManagerReports, notify_scan_finished, wake_run
<1>6. ASSUME NEW id \in ScanIds, ManagerExports(id) PROVE TypeInv'
  BY <1>6 DEF ManagerExports, notify_export_done
<1> QED
  BY <1>2, <1>3, <1>4, <1>5, <1>6 DEF ManagerStep

LEMMA NextType == TypeInv /\ [Next]_vars => TypeInv'
<1> SUFFICES ASSUME TypeInv, [Next]_vars PROVE TypeInv'
  OBVIOUS
<1>1. ASSUME NEW c \in Clients, cancel_returns(c) PROVE TypeInv'
  BY <1>1, LimitsAssumption DEF cancel_returns, cancel_call_returns, TypeInv, TypeOK, SchedulerTypeOK,
     HandledIsKnown, fields, run_vars, sd_vars, queue_vars, mgr_vars
<1>2. CASE run_wakes_spuriously /\ UNCHANGED mgr_vars
  BY <1>2 DEF run_wakes_spuriously, TypeInv, TypeOK, SchedulerTypeOK, HandledIsKnown, fields,
     clients, sd_vars, queue_vars, mgr_vars
<1>3. CASE UNCHANGED vars
  BY <1>3 DEF vars, scheduler_vars, TypeInv, TypeOK, SchedulerTypeOK, HandledIsKnown, fields,
     clients, run_vars, sd_vars, queue_vars, mgr_vars
<1> QED
  BY <1>1, <1>2, <1>3, ClientType, RunType, ShutdownType, ManagerType DEF Next, ManagerStep

(* Every field of the Scheduler keeps its type; in particular run() never  *)
(* looks up a scan that is not in state_map (scheduler.h:42).              *)
THEOREM TypeCorrect == SafeSpec => []TypeOK
<1>1. TypeInv => TypeOK
  BY DEF TypeInv
<1> QED
  BY <1>1, InitType, NextType, PTL DEF SafeSpec

-----------------------------------------------------------------------------
(* The lifecycle of a scan *)

Allowed == \A i \in ScanIds : state_map'[i] # state_map[i] =>
             <<state_map[i], state_map'[i]>> \in Transitions

LEMMA SetAllowed ==
  ASSUME TypeOK, NEW id, NEW t, set_state(id, t),
         id \in ScanIds => <<state_map[id], t>> \in Transitions
  PROVE  Allowed
  BY DEF TypeOK, SchedulerTypeOK, set_state, Allowed

LEMMA NextAllowed == TypeOK /\ [Next]_vars => Allowed
<1> SUFFICES ASSUME TypeOK, [Next]_vars PROVE Allowed
  OBVIOUS
<1>1. CASE UNCHANGED state_map
  BY <1>1 DEF Allowed
<1>2. ASSUME NEW c \in Clients, NEW root \in Roots, submit_ok(c, root) PROVE Allowed
  BY <1>2, SetAllowed DEF submit_ok, Transitions
<1>3. ASSUME NEW c \in Clients, NEW id \in ScanIds,
             cancel_running(c, id) \/ cancel_pending(c, id)
      PROVE  Allowed
  BY <1>3, SetAllowed DEF cancel_running, cancel_pending, Transitions
<1>4. CASE run_dispatches
  BY <1>4, SetAllowed DEF run_dispatches, Transitions
<1>5. CASE run_records_running \/ run_retries_later \/ run_records_failed
  BY <1>5, SetAllowed DEF run_records_running, run_retries_later, run_records_failed,
                          Returned, Transitions
<1>6. CASE shutdown
  BY <1>6 DEF shutdown, TypeOK, SchedulerTypeOK, Allowed, Transitions
<1>7. ASSUME NEW id \in ScanIds, notify_scan_finished(id) PROVE Allowed
  BY <1>7 DEF notify_scan_finished, TypeOK, SchedulerTypeOK, Allowed, Transitions
<1> USE DEF fields
<1>8. ASSUME NEW c \in Clients, ClientStep(c) PROVE Allowed
  BY <1>1, <1>2, <1>3, <1>8 DEF ClientStep, gen_scan_id, submit_rejected
<1>9. CASE RunLoop
  BY <1>1, <1>4, <1>5, <1>9 DEF RunLoop, RunStep, run_waits, run_exits, run_skips,
     run_records_canceled, run_finds_done, run_cancels, run_cancel_returns
<1>10. CASE ShutdownStep
  BY <1>1, <1>10 DEF ShutdownStep, shutdown_cancels, shutdown_waits_for, shutdown_canceled,
     shutdown_finds_finished, shutdown_waited, shutdown_joined_manager, shutdown_notifies,
     shutdown_stops_manager, sd_goto
<1>11. CASE ManagerStep
  BY <1>1, <1>7, <1>11 DEF ManagerStep, ManagerTakes, ManagerRefuses, ManagerAnswers,
     start_new_scan_returns, ManagerMakesRoom, notify_dispatch_available, ManagerDrains,
     ManagerReports, ManagerExports, notify_export_done, scheduler_vars
<1>12. CASE run_wakes_spuriously \/ (\E c \in Clients : cancel_returns(c)) \/ UNCHANGED vars
  BY <1>1, <1>12 DEF run_wakes_spuriously, cancel_returns, cancel_call_returns, vars, scheduler_vars
<1> QED
  BY <1>6, <1>8, <1>9, <1>10, <1>11, <1>12 DEF Next, ManagerStep

(* Whatever the order of dispatches, cancels, callbacks and shutdown, a    *)
(* scan changes its RequestState only as request_state.h:18-24 allows; no  *)
(* final state is ever left.                                               *)
THEOREM StatesFollowLifecycle == SafeSpec => Lifecycle
<1>1. TypeInv /\ [Next]_vars => [Allowed]_vars
  BY NextAllowed DEF TypeInv
<1>2. TypeInv /\ [Next]_vars =>
        [\A i \in ScanIds : state_map'[i] # state_map[i] =>
           <<state_map[i], state_map'[i]>> \in Transitions]_vars
  BY <1>1 DEF Allowed
<1> QED
  BY <1>2, InitType, NextType, PTL DEF SafeSpec, Lifecycle

-----------------------------------------------------------------------------
(* Overlapping roots *)

\* The Manager only ever gets scans that were submitted.
ManagerKnows == \A i \in ScanIds : mgr[i] # "none" => state_map[i] # "NONE"

RootInv == TypeInv /\ ManagerKnows /\ NoOverlappingScans

LEMMA InitRoot == Init => RootInv
<1> SUFFICES ASSUME Init PROVE RootInv
  OBVIOUS
<1>1. TypeInv
  BY InitType
<1>2. \A i \in ScanIds : mgr[i] = "none" /\ state_map[i] = "NONE"
  BY DEF Init, SchedulerInit
<1>3. Unexported = {}
  BY <1>2 DEF Unexported
<1> QED
  BY <1>1, <1>2, <1>3 DEF RootInv, ManagerKnows, NoOverlappingScans

\* A state that changes is not, and does not become, "NONE", but for submit_ok.
LEMMA KnownStaysKnown ==
  ASSUME TypeOK, [Next]_vars, NEW i \in ScanIds, state_map[i] # "NONE"
  PROVE  state_map'[i] # "NONE"
  BY NextAllowed DEF Allowed, Transitions

LEMMA NextManagerKnows ==
  ASSUME TypeInv, ManagerKnows, [Next]_vars PROVE ManagerKnows'
<1>1. ASSUME NEW i \in ScanIds, mgr'[i] # "none" PROVE mgr[i] # "none" \/ state_map[i] # "NONE"
  <2>1. CASE UNCHANGED mgr
    BY <1>1, <2>1
  <2>2. CASE ManagerTakes \/ ManagerRefuses
    <3>1. run_pc = "dispatch" /\ \E s : mgr' = [mgr EXCEPT ![run_id] = s]
      BY <2>2 DEF ManagerTakes, ManagerRefuses, set_mgr
    <3> QED
      BY <1>1, <3>1 DEF TypeInv, TypeOK, HandledIsKnown
  <2>3. CASE \E id \in ScanIds : ManagerDrains(id) \/ ManagerReports(id)
    BY <1>1, <2>3 DEF ManagerDrains, ManagerReports, set_mgr, TypeInv, TypeOK
  <2>4. CASE ManagerAnswers \/ ManagerMakesRoom \/ \E id \in ScanIds : ManagerExports(id)
    BY <2>1, <2>4 DEF ManagerAnswers, ManagerMakesRoom, ManagerExports, mgr_vars
  <2>5. CASE RunLoop \/ ShutdownStep \/ \E c \in Clients : cancel_returns(c)
    BY <2>1, <2>5 DEF RunLoop, run_cancels, ShutdownStep, cancel_returns, mgr_vars
  <2> QED
    BY <2>1, <2>2, <2>3, <2>4, <2>5 DEF Next, mgr_vars, vars
<1> QED
  BY <1>1, KnownStaysKnown DEF ManagerKnows, TypeInv

LEMMA NextOverlap ==
  ASSUME RootInv, [Next]_vars PROVE NoOverlappingScans'
<1> USE DEF RootInv
<1>0. TypeOK
  BY DEF TypeInv
<1>1. ASSUME NEW c \in Clients, NEW root \in Roots, submit_ok(c, root), UNCHANGED mgr_vars
      PROVE  NoOverlappingScans'
  <2> DEFINE id == new_id[c]
  <2>1. /\ id \in ScanIds /\ state_map[id] = "NONE" /\ CanSubmit(root)
        /\ state_map' = [state_map EXCEPT ![id] = "PENDING"]
        /\ root_map' = root_map \cup {root}
        /\ root_of' = [root_of EXCEPT ![id] = root]
        /\ UNCHANGED exported
    BY <1>0, <1>1, LimitsAssumption
       DEF submit_ok, set_state, mgr_vars, TypeOK, SchedulerTypeOK, ScanIds
  <2>2. /\ \A i \in Unexported' : i = id \/ i \in Unexported
        /\ root_of'[id] = root
        /\ \A i \in ScanIds : i # id => root_of'[i] = root_of[i]
        /\ id \notin Unexported
    BY <1>0, <2>1 DEF Unexported, TypeOK, SchedulerTypeOK
  <2>3. \A r \in root_map : r # root /\ <<root, r>> \notin Overlap
    BY <2>1 DEF CanSubmit, check_non_overlap_path
  <2>4. Unexported \subseteq ScanIds
    BY DEF Unexported
  <2> HIDE DEF id
  <2> QED
    BY <2>1, <2>2, <2>3, <2>4 DEF NoOverlappingScans
<1>2. ASSUME NEW id \in ScanIds, ManagerExports(id) PROVE NoOverlappingScans'
  <2>1. /\ exported' = exported \cup {id} /\ root_map' = root_map \ {root_of[id]}
        /\ UNCHANGED <<state_map, root_of>>
        /\ id \in Unexported
    BY <1>0, <1>2 DEF ManagerExports, notify_export_done, ManagerKnows, Unexported
  <2>2. Unexported' = Unexported \ {id}
    BY <2>1 DEF Unexported
  <2> QED
    BY <2>1, <2>2 DEF NoOverlappingScans
<1>3. ASSUME UNCHANGED <<root_map, root_of, exported>>,
             \A i \in ScanIds : state_map'[i] # "NONE" => state_map[i] # "NONE"
      PROVE  NoOverlappingScans'
  <2>1. Unexported' \subseteq Unexported
    BY <1>3 DEF Unexported
  <2> QED
    BY <1>3, <2>1 DEF NoOverlappingScans
<1>4. ASSUME NEW id, NEW t, set_state(id, t), state_map[id] # "NONE"
      PROVE  \A i \in ScanIds : state_map'[i] # "NONE" => state_map[i] # "NONE"
  BY <1>0, <1>4 DEF set_state, TypeOK, SchedulerTypeOK
<1> USE DEF fields, mgr_vars
<1>5. ASSUME NEW c \in Clients, ClientStep(c), UNCHANGED mgr_vars PROVE NoOverlappingScans'
  BY <1>1, <1>3, <1>4, <1>5 DEF ClientStep, gen_scan_id, submit_rejected, cancel_running,
                                cancel_pending
<1>6. CASE RunLoop
  BY <1>3, <1>4, <1>6 DEF RunLoop, RunStep, run_waits, run_exits, run_skips, run_dispatches,
     Returned, run_records_running, run_records_canceled, run_retries_later, run_records_failed,
     run_finds_done, run_cancels, run_cancel_returns
<1>7. CASE shutdown /\ UNCHANGED mgr_vars
  BY <1>3, <1>7 DEF shutdown
<1>8. CASE ShutdownStep
  BY <1>3, <1>8 DEF ShutdownStep, shutdown_cancels, shutdown_waits_for, shutdown_canceled,
     shutdown_finds_finished, shutdown_waited, shutdown_joined_manager, shutdown_notifies,
     shutdown_stops_manager, sd_goto
<1>9. ASSUME NEW id \in ScanIds, ManagerReports(id) PROVE NoOverlappingScans'
  BY <1>0, <1>3, <1>9 DEF ManagerReports, set_mgr, notify_scan_finished, TypeOK, SchedulerTypeOK
<1>10. CASE ManagerStep
  BY <1>2, <1>3, <1>9, <1>10 DEF ManagerStep, ManagerTakes, ManagerRefuses, ManagerAnswers, set_mgr,
     start_new_scan_returns, ManagerMakesRoom, notify_dispatch_available, ManagerDrains,
     scheduler_vars
<1>11. CASE run_wakes_spuriously /\ UNCHANGED mgr_vars
  BY <1>3, <1>11 DEF run_wakes_spuriously
<1>12. CASE (\E c \in Clients : cancel_returns(c)) \/ UNCHANGED vars
  BY <1>3, <1>12 DEF cancel_returns, cancel_call_returns, vars, scheduler_vars
<1> QED
  BY <1>5, <1>6, <1>7, <1>8, <1>10, <1>11, <1>12 DEF Next, ManagerStep

(* Two scans whose results are still on their way to the database never    *)
(* overlap, for any relation Overlap: the roots stay in root_map from the  *)
(* submission to notify_export_done() (scheduler.cpp:294).                 *)
THEOREM RootsNeverOverlap == SafeSpec => []NoOverlappingScans
<1>1. RootInv /\ [Next]_vars => RootInv'
  BY NextType, NextManagerKnows, NextOverlap DEF RootInv
<1>2. RootInv => NoOverlappingScans
  BY DEF RootInv
<1> QED
  BY <1>1, <1>2, InitRoot, PTL DEF SafeSpec

-----------------------------------------------------------------------------
(* The queue under run() *)

\* After shutdown() nothing is queued any more, and nothing is added.
StopEmpties == stop_flag => pending_queue = <<>>

QueueInv == TypeInv /\ StopEmpties /\ QueueShape

Waits(i) == state_map[i] \in {"PENDING", "DROPPED"}

\* QueueShape without the scan in flight.
InOrder(q) ==
  \A k \in DOMAIN q :
    /\ state_map[q[k]] # "NONE"
    /\ k > 1 => Waits(q[k])
    /\ \A j \in DOMAIN q : q[j] = q[k] => j = k

LEMMA QueueShapeParts ==
  QueueShape <=> /\ InOrder(pending_queue)
                 /\ InFlight # {} /\ ~stop_flag => pending_queue # <<>> /\ Front = run_id
  BY DEF QueueShape, InOrder, Waits

LEMMA InitQueue == Init => QueueInv
<1> SUFFICES ASSUME Init PROVE QueueInv
  OBVIOUS
<1>1. TypeInv
  BY InitType
<1>2. pending_queue = <<>> /\ InFlight = {}
  BY DEF Init, SchedulerInit, InFlight
<1>3. InOrder(pending_queue)
  BY <1>2, EmptySeq DEF InOrder
<1> QED
  BY <1>1, <1>2, <1>3, QueueShapeParts DEF QueueInv, StopEmpties

\* Popping keeps the order, and what is left waits.
LEMMA PopInOrder ==
  ASSUME TypeOK, InOrder(pending_queue), pending_queue # <<>>
  PROVE  LET q == Tail(pending_queue) IN
         /\ InOrder(q)
         /\ \A k \in DOMAIN q : Waits(q[k]) /\ q[k] # Front
<1> DEFINE q == Tail(pending_queue)
<1>1. /\ pending_queue \in Seq(ScanIds) /\ Len(pending_queue) \in Nat
      /\ Front = pending_queue[1]
      /\ q \in Seq(ScanIds) /\ Len(q) = Len(pending_queue) - 1
      /\ \A k \in 1 .. Len(q) : q[k] = pending_queue[k + 1]
  BY HeadTailProperties, LenProperties DEF TypeOK, SchedulerTypeOK, Front
<1>2. DOMAIN q = 1 .. Len(q) /\ DOMAIN pending_queue = 1 .. Len(pending_queue)
  BY <1>1, LenProperties
<1>3. 1 \in DOMAIN pending_queue
  BY <1>1, <1>2, EmptySeq, LenProperties
<1>4. \A k \in DOMAIN q : k + 1 \in DOMAIN pending_queue /\ k + 1 > 1 /\ q[k] = pending_queue[k + 1]
  BY <1>1, <1>2
<1> HIDE DEF q
<1>5. \A k \in DOMAIN q : Waits(q[k]) /\ state_map[q[k]] # "NONE" /\ q[k] # Front
  <2> SUFFICES ASSUME NEW k \in DOMAIN q
               PROVE  Waits(q[k]) /\ state_map[q[k]] # "NONE" /\ q[k] # Front
    OBVIOUS
  <2>1. k + 1 # 1
    BY <1>1, <1>2
  <2> QED
    BY <1>1, <1>3, <1>4, <2>1 DEF InOrder
<1>6. \A j, k \in DOMAIN q : q[j] = q[k] => j = k
  <2> SUFFICES ASSUME NEW j \in DOMAIN q, NEW k \in DOMAIN q, q[j] = q[k] PROVE j = k
    OBVIOUS
  <2>1. j + 1 = k + 1
    BY <1>4 DEF InOrder
  <2> QED
    BY <1>1, <1>2, <2>1
<1> QED
  BY <1>5, <1>6 DEF InOrder, q

\* Nothing in the queue but its front can change from a state it does not wait in.
LEMMA OthersChange ==
  ASSUME TypeOK, InOrder(pending_queue), UNCHANGED pending_queue,
         \A i \in ScanIds : state_map[i] # "NONE" => state_map'[i] # "NONE",
         \A i \in ScanIds : Waits(i) => Waits(i)' \/ (pending_queue # <<>> /\ i = Front)
  PROVE  InOrder(pending_queue)'
<1>1. /\ pending_queue \in Seq(ScanIds) /\ DOMAIN pending_queue = 1 .. Len(pending_queue)
      /\ Len(pending_queue) \in Nat
  BY LenProperties DEF TypeOK, SchedulerTypeOK
<1>2. ASSUME NEW k \in DOMAIN pending_queue, k > 1
      PROVE  Waits(pending_queue[k])'
  <2>1. pending_queue # <<>> /\ 1 \in DOMAIN pending_queue /\ Front = pending_queue[1]
    BY <1>1, <1>2, EmptySeq, LenProperties, HeadTailProperties DEF Front
  <2>2. Front # pending_queue[k]
    BY <1>2, <2>1 DEF InOrder
  <2>3. pending_queue[k] \in ScanIds /\ Waits(pending_queue[k])
    BY <1>1, <1>2, ElementOfSeq DEF InOrder
  <2> QED
    BY <2>2, <2>3 DEF Waits
<1>3. ASSUME NEW k \in DOMAIN pending_queue PROVE state_map'[pending_queue[k]] # "NONE"
  BY <1>1, ElementOfSeq DEF InOrder
<1> QED
  BY <1>2, <1>3 DEF InOrder, Waits

\* submit_scan_root() appends a scan that is not in the queue.
LEMMA SubmitInOrder ==
  ASSUME TypeOK, InOrder(pending_queue),
         NEW c \in Clients, NEW root \in Roots, submit_ok(c, root)
  PROVE  InOrder(pending_queue)' /\ pending_queue' # <<>>
         /\ (pending_queue # <<>> => Front' = Front)
<1> DEFINE id == new_id[c]
           q == pending_queue
<1>1. /\ id \in ScanIds /\ state_map[id] = "NONE"
      /\ state_map' = [state_map EXCEPT ![id] = "PENDING"]
      /\ pending_queue' = Append(q, id)
  BY LimitsAssumption DEF submit_ok, set_state, TypeOK, SchedulerTypeOK, ScanIds
<1>2. /\ q \in Seq(ScanIds) /\ Len(q) \in Nat /\ DOMAIN q = 1 .. Len(q)
      /\ Append(q, id) \in Seq(ScanIds) /\ Len(Append(q, id)) = Len(q) + 1
      /\ \A k \in 1 .. Len(q) : Append(q, id)[k] = q[k] /\ q[k] \in ScanIds
      /\ Append(q, id)[Len(q) + 1] = id
  BY <1>1, LenProperties, AppendProperties, ElementOfSeq DEF TypeOK, SchedulerTypeOK
<1>3. DOMAIN pending_queue' = 1 .. Len(q) + 1
  BY <1>1, <1>2, LenProperties
<1>4. \A k \in 1 .. Len(q) : q[k] # id
  BY <1>1, <1>2 DEF InOrder
<1>5. /\ state_map'[id] = "PENDING"
      /\ \A i \in ScanIds : i # id => state_map'[i] = state_map[i]
  BY <1>1 DEF TypeOK, SchedulerTypeOK
<1> HIDE DEF id
<1>6. ASSUME NEW k \in 1 .. Len(q) + 1
      PROVE  /\ state_map'[pending_queue'[k]] # "NONE"
             /\ k > 1 => state_map'[pending_queue'[k]] \in {"PENDING", "DROPPED"}
  <2>1. CASE k \in 1 .. Len(q)
    <3>1. pending_queue'[k] = q[k] /\ q[k] \in ScanIds /\ q[k] # id
      BY <1>1, <1>2, <1>4, <2>1
    <3> QED
      BY <1>2, <1>5, <2>1, <3>1 DEF InOrder, Waits
  <2>2. CASE k = Len(q) + 1
    BY <1>1, <1>2, <1>5, <2>2 DEF Waits
  <2> QED
    BY <1>2, <2>1, <2>2
<1>7. ASSUME NEW j \in 1 .. Len(q) + 1, NEW k \in 1 .. Len(q) + 1,
             pending_queue'[j] = pending_queue'[k]
      PROVE  j = k
  <2>1. CASE j \in 1 .. Len(q) /\ k \in 1 .. Len(q)
    BY <1>1, <1>2, <1>7, <2>1 DEF InOrder
  <2>2. CASE j = Len(q) + 1 \/ k = Len(q) + 1
    BY <1>1, <1>2, <1>4, <1>7, <2>2
  <2> QED
    BY <1>2, <2>1, <2>2
<1>8. InOrder(pending_queue)'
  BY <1>3, <1>6, <1>7 DEF InOrder, Waits
<1>9. pending_queue' # <<>>
  BY <1>1, <1>2, EmptySeq
<1>10. ASSUME q # <<>> PROVE Front' = Front
  <2>1. 1 \in 1 .. Len(q) /\ Front = q[1]
    BY <1>2, <1>10, EmptySeq, HeadTailProperties DEF Front
  <2>2. Front' = pending_queue'[1]
    BY <1>1, <1>2, <1>9, HeadTailProperties DEF Front
  <2> QED
    BY <1>1, <1>2, <2>1, <2>2
<1> QED
  BY <1>8, <1>9, <1>10

\* run() removes the scan it handled, which is at the front unless shutdown()
\* has emptied the queue, and gives no other scan a new state.
LEMMA PopQueue ==
  ASSUME QueueInv, NEW id \in ScanIds, pop_if_front(id),
         ~stop_flag => pending_queue # <<>> /\ Front = id,
         \A i \in ScanIds : i # id => state_map'[i] = state_map[i]
  PROVE  InOrder(pending_queue)' /\ (pending_queue = <<>> => pending_queue' = <<>>)
<1>1. TypeOK /\ InOrder(pending_queue)
  BY QueueShapeParts DEF QueueInv, TypeInv
<1>2. CASE pending_queue = <<>>
  <2>1. pending_queue' = <<>>
    BY <1>2 DEF pop_if_front
  <2> QED
    BY <2>1, EmptySeq DEF InOrder
<1>3. CASE pending_queue # <<>>
  <2>1. ~stop_flag
    BY <1>3 DEF QueueInv, StopEmpties
  <2>2. pending_queue' = Tail(pending_queue) /\ Front = id
    BY <1>3, <2>1 DEF pop_if_front
  <2>3. pending_queue' \in Seq(ScanIds)
    BY <1>1, <1>3, <2>2, FrontIsScan
  <2>4. \A k \in DOMAIN pending_queue' : pending_queue'[k] \in ScanIds /\ pending_queue'[k] # id
    BY <1>1, <1>3, <2>2, <2>3, PopInOrder, ElementOfSeq, LenProperties
  <2>5. \A k \in DOMAIN pending_queue' : state_map'[pending_queue'[k]] = state_map[pending_queue'[k]]
    BY <2>4
  <2>6. InOrder(Tail(pending_queue))
    BY <1>1, <1>3, PopInOrder
  <2> QED
    BY <1>3, <2>2, <2>5, <2>6 DEF InOrder, Waits
<1> QED
  BY <1>2, <1>3

LEMMA NextStopEmpties ==
  ASSUME StopEmpties, [Next]_vars PROVE StopEmpties'
<1> USE DEF StopEmpties, fields, queue_vars
<1>1. CASE UNCHANGED <<stop_flag, pending_queue>>
  BY <1>1
<1>2. ASSUME NEW c \in Clients, ClientStep(c) PROVE StopEmpties'
  BY <1>2 DEF ClientStep, gen_scan_id, submit_rejected, submit_ok, CanSubmit, cancel_running,
              cancel_pending
<1>3. CASE RunLoop
  BY <1>3 DEF RunLoop, RunStep, run_waits, run_exits, run_skips, run_dispatches, Returned,
     pop_if_front, leaves_queue, run_records_running, run_records_canceled, run_retries_later,
     run_records_failed, run_finds_done, run_cancels, run_cancel_returns
<1>4. CASE shutdown
  BY <1>4 DEF shutdown
<1>5. CASE ShutdownStep
  BY <1>5 DEF ShutdownStep, shutdown_cancels, shutdown_waits_for, shutdown_canceled,
     shutdown_finds_finished, shutdown_waited, shutdown_joined_manager, shutdown_notifies,
     shutdown_stops_manager, sd_goto
<1>6. CASE ManagerStep
  BY <1>6 DEF ManagerStep, ManagerTakes, ManagerRefuses, ManagerAnswers, ManagerReports,
     start_new_scan_returns, ManagerMakesRoom, notify_dispatch_available, ManagerDrains,
     notify_scan_finished, ManagerExports, notify_export_done, scheduler_vars
<1>7. CASE run_wakes_spuriously \/ (\E c \in Clients : cancel_returns(c)) \/ UNCHANGED vars
  BY <1>7 DEF run_wakes_spuriously, cancel_returns, cancel_call_returns, vars, scheduler_vars
<1> QED
  BY <1>2, <1>3, <1>4, <1>5, <1>6, <1>7 DEF Next, ManagerStep

\* Steps that leave the queue alone and the scan in flight, if any, in flight.
LEMMA QuietQueue ==
  ASSUME QueueInv, [Next]_vars, UNCHANGED <<pending_queue, stop_flag>>,
         InFlight' = {} \/ UNCHANGED <<InFlight, run_id>>,
         \A i \in ScanIds : Waits(i) => Waits(i)' \/ (pending_queue # <<>> /\ i = Front)
  PROVE  QueueShape'
<1>1. TypeOK /\ InOrder(pending_queue)
  BY QueueShapeParts DEF QueueInv, TypeInv
<1>2. InOrder(pending_queue)'
  BY <1>1, KnownStaysKnown, OthersChange
<1>3. InFlight' # {} /\ ~stop_flag' => pending_queue' # <<>> /\ Front' = run_id'
  BY QueueShapeParts DEF QueueInv, Front
<1>4. InOrder(pending_queue)' /\ (InFlight' # {} /\ ~stop_flag' => pending_queue' # <<>> /\ Front' = run_id')
        => QueueShape'
  BY DEF QueueShape, InOrder, Waits
<1> QED
  BY <1>2, <1>3, <1>4

LEMMA NextQueue == QueueInv /\ [Next]_vars => QueueShape'
<1> SUFFICES ASSUME QueueInv, [Next]_vars PROVE QueueShape'
  OBVIOUS
<1>0. TypeOK /\ HandledIsKnown /\ InOrder(pending_queue) /\ StopEmpties
      /\ (InFlight # {} /\ ~stop_flag => pending_queue # <<>> /\ Front = run_id)
  BY QueueShapeParts DEF QueueInv, TypeInv
<1>00. ASSUME InOrder(pending_queue)',
              InFlight' # {} /\ ~stop_flag' => pending_queue' # <<>> /\ Front' = run_id'
       PROVE  QueueShape'
  BY <1>00 DEF QueueShape, InOrder, Waits
<1> USE DEF fields, queue_vars, run_vars
<1>1. ASSUME UNCHANGED <<pending_queue, stop_flag, state_map>>,
             InFlight' = {} \/ UNCHANGED <<InFlight, run_id>>
      PROVE  QueueShape'
  BY <1>1, QuietQueue DEF Waits
<1>2. ASSUME NEW c \in Clients, NEW root \in Roots, submit_ok(c, root) PROVE QueueShape'
  <2>1. InFlight' = InFlight /\ UNCHANGED <<run_id, stop_flag>>
    BY <1>2 DEF submit_ok, wake_run, InFlight
  <2> QED
    BY <1>0, <1>00, <1>2, <2>1, SubmitInOrder
<1>3. ASSUME NEW c \in Clients, NEW id \in ScanIds,
             cancel_running(c, id) \/ cancel_pending(c, id)
      PROVE  QueueShape'
  <2>1. UNCHANGED <<pending_queue, stop_flag, InFlight, run_id>>
    BY <1>3 DEF cancel_running, cancel_pending, InFlight
  <2>2. \A i \in ScanIds : Waits(i) => Waits(i)'
    BY <1>0, <1>3 DEF cancel_running, cancel_pending, set_state, Waits, TypeOK, SchedulerTypeOK
  <2> QED
    BY <2>1, <2>2, QuietQueue
<1>4. CASE run_skips
  <2>1. /\ Front \in ScanIds /\ pending_queue # <<>> /\ pop_if_front(Front)
        /\ UNCHANGED <<state_map, stop_flag>> /\ InFlight' = {}
    BY <1>0, <1>4, FrontIsScan DEF run_skips, CanPop, Blocked, InFlight
  <2> QED
    BY <1>00, <2>1, PopQueue
<1>5. CASE run_dispatches
  <2>1. /\ Front \in ScanIds /\ pending_queue # <<>> /\ run_id' = Front
        /\ state_map' = [state_map EXCEPT ![Front] = "DISPATCHING"]
        /\ UNCHANGED <<pending_queue, stop_flag>>
    BY <1>0, <1>5, FrontIsScan DEF run_dispatches, CanPop, Blocked, set_state
  <2>2. \A i \in ScanIds : Waits(i) => Waits(i)' \/ i = Front
    BY <1>0, <2>1 DEF Waits, TypeOK, SchedulerTypeOK
  <2>3. InOrder(pending_queue)'
    BY <1>0, <2>1, <2>2, KnownStaysKnown, OthersChange
  <2>4. Front' = Front
    BY <2>1 DEF Front
  <2> QED
    BY <1>00, <2>1, <2>3, <2>4
<1>6. CASE run_records_running \/ run_records_canceled \/ run_records_failed
  <2>1. /\ run_pc = "returned" /\ run_id \in ScanIds /\ pop_if_front(run_id)
        /\ \A i \in ScanIds : i # run_id => state_map'[i] = state_map[i]
        /\ InFlight' = {}
    BY <1>0, <1>6 DEF HandledIsKnown, run_records_running, run_records_canceled, run_records_failed,
       Returned, leaves_queue, set_state, InFlight, TypeOK, SchedulerTypeOK
  <2>2. ~stop_flag => pending_queue # <<>> /\ Front = run_id
    BY <1>0, <2>1 DEF InFlight
  <2> QED
    BY <1>00, <2>1, <2>2, PopQueue
<1>7. CASE run_retries_later
  <2>1. UNCHANGED <<pending_queue, stop_flag>> /\ InFlight' = {}
    BY <1>7 DEF run_retries_later, Returned, InFlight
  <2>2. \A i \in ScanIds : Waits(i) => Waits(i)'
    BY <1>0, <1>7 DEF run_retries_later, set_state, Waits, TypeOK, SchedulerTypeOK
  <2> QED
    BY <2>1, <2>2, QuietQueue
<1>8. CASE run_finds_done \/ run_cancels \/ run_waits \/ run_exits
  <2>1. UNCHANGED <<pending_queue, stop_flag, state_map>> /\ InFlight' = {}
    BY <1>8 DEF run_finds_done, run_cancels, run_cancel_returns, run_waits, run_exits, Returned,
                InFlight
  <2> QED
    BY <1>1, <2>1
<1>9. CASE shutdown
  <2>1. pending_queue' = <<>> /\ stop_flag'
    BY <1>9 DEF shutdown
  <2> QED
    BY <1>00, <2>1, EmptySeq DEF InOrder
<1>10. ASSUME NEW id \in ScanIds, ManagerReports(id) PROVE QueueShape'
  <2>1. UNCHANGED <<pending_queue, stop_flag, InFlight, run_id>>
    BY <1>10 DEF ManagerReports, notify_scan_finished, wake_run, InFlight
  <2>2. \A i \in ScanIds : Waits(i) => Waits(i)'
    BY <1>0, <1>10 DEF ManagerReports, notify_scan_finished, Waits, TypeOK, SchedulerTypeOK
  <2> QED
    BY <2>1, <2>2, QuietQueue
<1>11. CASE ManagerStep
  <2>1. CASE ManagerAnswers
    BY <1>1, <2>1 DEF ManagerAnswers, start_new_scan_returns, InFlight
  <2>2. CASE ManagerMakesRoom
    BY <1>1, <2>2 DEF ManagerMakesRoom, notify_dispatch_available, wake_run, InFlight
  <2>3. CASE ManagerTakes \/ ManagerRefuses
             \/ \E id \in ScanIds : ManagerDrains(id) \/ ManagerExports(id)
    BY <1>1, <2>3 DEF ManagerTakes, ManagerRefuses, ManagerDrains, ManagerExports,
                      notify_export_done, InFlight, scheduler_vars
  <2> QED
    BY <1>10, <1>11, <2>1, <2>2, <2>3 DEF ManagerStep
<1>12. CASE ShutdownStep
  BY <1>1, <1>12 DEF ShutdownStep, shutdown_cancels, shutdown_waits_for, shutdown_canceled,
     shutdown_finds_finished, shutdown_waited, shutdown_joined_manager, shutdown_notifies,
     shutdown_stops_manager, sd_goto, wake_run, InFlight
<1>13. CASE run_wakes_spuriously \/ (\E c \in Clients : cancel_returns(c)) \/ UNCHANGED vars
  BY <1>1, <1>13 DEF run_wakes_spuriously, cancel_returns, cancel_call_returns, vars,
                     scheduler_vars, InFlight
<1>14. ASSUME NEW c \in Clients, ClientStep(c) PROVE QueueShape'
  BY <1>1, <1>2, <1>3, <1>14 DEF ClientStep, gen_scan_id, submit_rejected, InFlight
<1> QED
  BY <1>4, <1>5, <1>6, <1>7, <1>8, <1>9, <1>11, <1>12, <1>13, <1>14
     DEF Next, ManagerStep, RunLoop, RunStep

(* What run() pops after it retook the lock is the scan it dispatched,     *)
(* whatever clients, callbacks and shutdown() did meanwhile, and no scan   *)
(* is queued twice (scheduler.cpp:83, :127, :143, :153).                   *)
THEOREM QueueKeepsShape == SafeSpec => []QueueShape
<1>1. QueueInv /\ [Next]_vars => QueueInv'
  BY NextType, NextQueue, NextStopEmpties DEF QueueInv
<1>2. QueueInv => QueueShape
  BY DEF QueueInv
<1> QED
  BY <1>1, <1>2, InitQueue, PTL DEF SafeSpec

-----------------------------------------------------------------------------
(* Stopping the Scheduler *)

Queued(i) == \E k \in DOMAIN pending_queue : pending_queue[k] = i

\* No PENDING scan is forgotten outside the queue, where shutdown() finds it.
PendingIsQueued == \A i \in ScanIds : state_map[i] = "PENDING" => Queued(i)

\* After the first section of shutdown() no scan becomes active any more.
StopEndsScans ==
  stop_flag => \A i \in ScanIds : state_map[i] \notin {"PENDING", "DISPATCHING", "RUNNING"}

\* The Manager's pool is joined: it takes nothing and has nothing left.
StagesOfShutdown ==
  /\ sd # "none" => stop_flag
  /\ sd \in {"join_manager", "notify", "done"} => manager_stopped
  /\ sd \in {"notify", "done"} => \A i \in ScanIds : ~InManager(i)

EndInv == QueueInv /\ PendingIsQueued /\ StopEndsScans /\ StagesOfShutdown

LEMMA InitEnd == Init => EndInv
<1> SUFFICES ASSUME Init PROVE EndInv
  OBVIOUS
<1>1. QueueInv
  BY InitQueue
<1>2. PendingIsQueued /\ StopEndsScans /\ StagesOfShutdown
  BY DEF Init, SchedulerInit, PendingIsQueued, StopEndsScans, StagesOfShutdown
<1> QED
  BY <1>1, <1>2 DEF EndInv

\* Popping a scan leaves the others in the queue.
LEMMA PopKeepsOthers ==
  ASSUME TypeOK, NEW id, pop_if_front(id), NEW i \in ScanIds, i # id, Queued(i)
  PROVE  Queued(i)'
<1>1. CASE pending_queue = <<>> \/ Front # id
  BY <1>1 DEF pop_if_front, Queued
<1>2. CASE pending_queue # <<>> /\ Front = id
  <2> DEFINE q == Tail(pending_queue)
  <2>1. /\ pending_queue' = q /\ pending_queue \in Seq(ScanIds)
        /\ Len(pending_queue) \in Nat /\ DOMAIN pending_queue = 1 .. Len(pending_queue)
        /\ pending_queue[1] = id
        /\ q \in Seq(ScanIds) /\ DOMAIN q = 1 .. Len(q) /\ Len(q) = Len(pending_queue) - 1
        /\ \A k \in 1 .. Len(q) : q[k] = pending_queue[k + 1]
    BY <1>2, HeadTailProperties, LenProperties
       DEF pop_if_front, TypeOK, SchedulerTypeOK, Front
  <2>2. PICK k \in DOMAIN pending_queue : pending_queue[k] = i
    BY DEF Queued
  <2>3. k - 1 \in 1 .. Len(q) /\ (k - 1) + 1 = k
    BY <2>1, <2>2
  <2>4. q[k - 1] = i
    BY <2>1, <2>2, <2>3
  <2> QED
    BY <2>1, <2>3, <2>4 DEF Queued
<1> QED
  BY <1>1, <1>2

LEMMA AppendKeepsQueued ==
  ASSUME TypeOK, NEW id \in ScanIds, pending_queue' = Append(pending_queue, id),
         NEW i \in ScanIds, Queued(i) \/ i = id
  PROVE  Queued(i)'
<1> DEFINE q == pending_queue
<1>1. /\ q \in Seq(ScanIds) /\ Len(q) \in Nat /\ DOMAIN q = 1 .. Len(q)
      /\ Append(q, id) \in Seq(ScanIds) /\ Len(Append(q, id)) = Len(q) + 1
      /\ \A k \in 1 .. Len(q) : Append(q, id)[k] = q[k]
      /\ Append(q, id)[Len(q) + 1] = id
  BY LenProperties, AppendProperties DEF TypeOK, SchedulerTypeOK
<1>2. DOMAIN pending_queue' = 1 .. Len(q) + 1
  BY <1>1, LenProperties
<1>3. \E k \in 1 .. Len(q) + 1 : pending_queue'[k] = i
  BY <1>1 DEF Queued
<1> QED
  BY <1>2, <1>3 DEF Queued

LEMMA NextPendingIsQueued ==
  ASSUME EndInv, [Next]_vars PROVE PendingIsQueued'
<1>0. /\ TypeOK /\ HandledIsKnown /\ PendingIsQueued /\ StopEndsScans
      /\ state_map \in [ScanIds -> RequestState \cup {"NONE"}]
      /\ InFlight # {} /\ ~stop_flag => pending_queue # <<>> /\ Front = run_id
  BY QueueShapeParts DEF EndInv, QueueInv, TypeInv, TypeOK, SchedulerTypeOK
<1> USE DEF fields, queue_vars
<1>1. ASSUME UNCHANGED pending_queue,
             \A i \in ScanIds : state_map'[i] = "PENDING" => state_map[i] = "PENDING"
      PROVE  PendingIsQueued'
  BY <1>0, <1>1 DEF PendingIsQueued, Queued
<1>2. ASSUME NEW id, pop_if_front(id), state_map'[id] # "PENDING",
             \A i \in ScanIds : i # id => state_map'[i] = state_map[i]
      PROVE  PendingIsQueued'
  <2> SUFFICES ASSUME NEW i \in ScanIds, state_map'[i] = "PENDING" PROVE Queued(i)'
    BY DEF PendingIsQueued, Queued
  <2>1. i # id /\ Queued(i)
    BY <1>0, <1>2 DEF PendingIsQueued
  <2> QED
    BY <1>0, <1>2, <2>1, PopKeepsOthers
<1>3. ASSUME NEW c \in Clients, NEW root \in Roots, submit_ok(c, root) PROVE PendingIsQueued'
  <2>1. new_id[c] \in ScanIds /\ pending_queue' = Append(pending_queue, new_id[c])
    BY <1>0, <1>3, LimitsAssumption DEF submit_ok, ScanIds, TypeOK, SchedulerTypeOK
  <2> SUFFICES ASSUME NEW i \in ScanIds, state_map'[i] = "PENDING" PROVE Queued(i)'
    BY DEF PendingIsQueued, Queued
  <2>2. i = new_id[c] \/ state_map[i] = "PENDING"
    BY <1>0, <1>3 DEF submit_ok, set_state
  <2> QED
    BY <1>0, <2>1, <2>2, AppendKeepsQueued DEF PendingIsQueued
<1>4. CASE run_skips
  <2>1. pop_if_front(Front) /\ state_map[Front] # "PENDING" /\ UNCHANGED state_map
    BY <1>4 DEF run_skips
  <2> QED
    BY <1>2, <2>1
<1>5. CASE run_records_running \/ run_records_canceled \/ run_records_failed
  <2>1. /\ run_id \in ScanIds /\ pop_if_front(run_id) /\ state_map'[run_id] # "PENDING"
        /\ \A i \in ScanIds : i # run_id => state_map'[i] = state_map[i]
    BY <1>0, <1>5 DEF HandledIsKnown, run_records_running, run_records_canceled,
       run_records_failed, Returned, leaves_queue, set_state
  <2> QED
    BY <1>2, <2>1
<1>6. CASE run_retries_later
  <2>1. /\ run_id \in ScanIds /\ state_map[run_id] = "DISPATCHING" /\ run_pc = "returned"
        /\ UNCHANGED pending_queue
        /\ \A i \in ScanIds : i # run_id => state_map'[i] = state_map[i]
    BY <1>0, <1>6 DEF HandledIsKnown, run_retries_later, Returned, set_state
  <2>2. pending_queue # <<>> /\ Front = run_id
    BY <1>0, <2>1 DEF StopEndsScans, InFlight
  <2>3. Queued(run_id)
    BY <1>0, <2>2, EmptySeq, LenProperties, HeadTailProperties
       DEF Queued, Front, TypeOK, SchedulerTypeOK
  <2> QED
    BY <1>0, <2>1, <2>3 DEF PendingIsQueued, Queued
<1>7. CASE shutdown
  <2>1. \A i \in ScanIds : state_map'[i] # "PENDING"
    BY <1>0, <1>7 DEF shutdown, PendingIsQueued, Queued
  <2> QED
    BY <2>1 DEF PendingIsQueued
<1>8. ASSUME NEW c \in Clients, ClientStep(c) PROVE PendingIsQueued'
  <2>1. ASSUME NEW id \in ScanIds, cancel_running(c, id) \/ cancel_pending(c, id)
        PROVE  PendingIsQueued'
    BY <1>0, <1>1, <2>1 DEF cancel_running, cancel_pending, set_state
  <2>2. CASE gen_scan_id(c) \/ submit_rejected(c)
    BY <1>1, <2>2 DEF gen_scan_id, submit_rejected
  <2> QED
    BY <1>3, <1>8, <2>1, <2>2 DEF ClientStep
<1>9. CASE run_dispatches
  BY <1>0, <1>1, <1>9 DEF run_dispatches, set_state
<1>10. CASE run_finds_done \/ run_cancels \/ run_waits \/ run_exits
  BY <1>1, <1>10 DEF run_finds_done, run_cancels, run_cancel_returns, run_waits, run_exits, Returned
<1>11. ASSUME NEW id \in ScanIds, ManagerReports(id) PROVE PendingIsQueued'
  BY <1>0, <1>1, <1>11 DEF ManagerReports, notify_scan_finished
<1>12. CASE ManagerStep
  BY <1>1, <1>11, <1>12 DEF ManagerStep, ManagerTakes, ManagerRefuses, ManagerAnswers,
     start_new_scan_returns, ManagerMakesRoom, notify_dispatch_available, ManagerDrains,
     ManagerExports, notify_export_done, scheduler_vars
<1>13. CASE ShutdownStep
  BY <1>1, <1>13 DEF ShutdownStep, shutdown_cancels, shutdown_waits_for, shutdown_canceled,
     shutdown_finds_finished, shutdown_waited, shutdown_joined_manager, shutdown_notifies,
     shutdown_stops_manager, sd_goto
<1>14. CASE run_wakes_spuriously \/ (\E c \in Clients : cancel_returns(c)) \/ UNCHANGED vars
  BY <1>1, <1>14 DEF run_wakes_spuriously, cancel_returns, cancel_call_returns, vars,
     scheduler_vars
<1> QED
  BY <1>4, <1>5, <1>6, <1>7, <1>8, <1>9, <1>10, <1>12, <1>13, <1>14
     DEF Next, ManagerStep, RunLoop, RunStep

LEMMA NextStopEndsScans ==
  ASSUME EndInv, [Next]_vars PROVE StopEndsScans'
<1>0. /\ TypeOK /\ HandledIsKnown /\ PendingIsQueued /\ StopEndsScans
      /\ state_map \in [ScanIds -> RequestState \cup {"NONE"}]
  BY DEF EndInv, QueueInv, TypeInv, TypeOK, SchedulerTypeOK
<1> USE DEF fields, queue_vars, StopEndsScans
<1>1. CASE UNCHANGED <<state_map, stop_flag>>
  BY <1>0, <1>1
<1>2. ASSUME NEW c \in Clients, ClientStep(c) PROVE StopEndsScans'
  BY <1>0, <1>2 DEF ClientStep, gen_scan_id, submit_rejected, submit_ok, CanSubmit,
     cancel_running, cancel_pending, set_state
<1>3. CASE RunLoop
  BY <1>0, <1>3 DEF HandledIsKnown, RunLoop, RunStep, run_waits, run_exits, run_skips,
     run_dispatches, CanPop, Returned, run_records_running, run_records_canceled,
     run_retries_later, run_records_failed, run_finds_done, run_cancels, run_cancel_returns,
     set_state
<1>4. CASE shutdown
  BY <1>0, <1>4 DEF shutdown, PendingIsQueued, Queued
<1>5. CASE ShutdownStep
  BY <1>1, <1>5 DEF ShutdownStep, shutdown_cancels, shutdown_waits_for, shutdown_canceled,
     shutdown_finds_finished, shutdown_waited, shutdown_joined_manager, shutdown_notifies,
     shutdown_stops_manager, sd_goto
<1>6. ASSUME NEW id \in ScanIds, ManagerReports(id) PROVE StopEndsScans'
  BY <1>0, <1>6 DEF ManagerReports, notify_scan_finished
<1>7. CASE ManagerStep
  BY <1>1, <1>6, <1>7 DEF ManagerStep, ManagerTakes, ManagerRefuses, ManagerAnswers,
     start_new_scan_returns, ManagerMakesRoom, notify_dispatch_available, ManagerDrains,
     ManagerExports, notify_export_done, scheduler_vars
<1>8. CASE run_wakes_spuriously \/ (\E c \in Clients : cancel_returns(c)) \/ UNCHANGED vars
  BY <1>1, <1>8 DEF run_wakes_spuriously, cancel_returns, cancel_call_returns, vars,
     scheduler_vars
<1> QED
  BY <1>2, <1>3, <1>4, <1>5, <1>7, <1>8 DEF Next, ManagerStep

LEMMA NextStages ==
  ASSUME EndInv, [Next]_vars PROVE StagesOfShutdown'
<1>0. TypeOK /\ StagesOfShutdown /\ mgr \in [ScanIds -> MgrState]
  BY DEF EndInv, QueueInv, TypeInv, TypeOK
<1> USE DEF fields, queue_vars, sd_vars, mgr_vars, StagesOfShutdown, InManager
<1>1. CASE UNCHANGED <<sd, stop_flag, mgr, manager_stopped>>
  BY <1>0, <1>1
<1>2. ASSUME NEW c \in Clients, ClientStep(c), UNCHANGED mgr_vars PROVE StagesOfShutdown'
  BY <1>1, <1>2 DEF ClientStep, gen_scan_id, submit_rejected, submit_ok, cancel_running,
     cancel_pending
<1>3. CASE RunLoop
  BY <1>1, <1>3 DEF RunLoop, RunStep, run_waits, run_exits, run_skips, run_dispatches, Returned,
     run_records_running, run_records_canceled, run_retries_later, run_records_failed,
     run_finds_done, run_cancels, run_cancel_returns
<1>4. CASE shutdown /\ UNCHANGED mgr_vars
  BY <1>0, <1>4 DEF shutdown
<1>5. CASE ShutdownStep
  BY <1>0, <1>5 DEF ShutdownStep, shutdown_cancels, shutdown_waits_for, shutdown_canceled,
     shutdown_finds_finished, shutdown_waited, shutdown_joined_manager, shutdown_notifies,
     shutdown_stops_manager, sd_goto
<1>6. CASE ManagerStep
  BY <1>0, <1>6 DEF ManagerStep, ManagerTakes, ManagerRefuses, ManagerAnswers, ManagerReports,
     start_new_scan_returns, ManagerMakesRoom, notify_dispatch_available, ManagerDrains, set_mgr,
     notify_scan_finished, ManagerExports, notify_export_done, scheduler_vars
<1>7. CASE (run_wakes_spuriously /\ UNCHANGED mgr_vars)
           \/ (\E c \in Clients : cancel_returns(c)) \/ UNCHANGED vars
  BY <1>1, <1>7 DEF run_wakes_spuriously, cancel_returns, cancel_call_returns, vars,
     scheduler_vars
<1> QED
  BY <1>2, <1>3, <1>4, <1>5, <1>6, <1>7 DEF Next, ManagerStep

LEMMA NextEnd == EndInv /\ [Next]_vars => EndInv'
<1> SUFFICES ASSUME EndInv, [Next]_vars PROVE EndInv'
  OBVIOUS
<1>1. TypeInv' /\ StopEmpties' /\ QueueShape'
  BY NextType, NextStopEmpties, NextQueue DEF EndInv, QueueInv
<1>2. PendingIsQueued' /\ StopEndsScans' /\ StagesOfShutdown'
  BY NextPendingIsQueued, NextStopEndsScans, NextStages
<1> QED
  BY <1>1, <1>2 DEF EndInv, QueueInv

-----------------------------------------------------------------------------
(* What the Manager has of a scan in each of its states *)

\* Until the stop.  DONE before it was recorded is done in the Manager; what the
\* Manager has and run() does not handle any more is recorded.
ManagerAgrees(i) ==
  /\ mgr[i] \in {"none", "taken", "drained", "ended"}
  /\ state_map[i] \in {"NONE", "PENDING", "DROPPED", "FAILED"} => mgr[i] = "none"
  /\ state_map[i] = "RUNNING" => InManager(i) /\ i \notin InFlight
  /\ state_map[i] = "DISPATCHING" => ~(mgr[i] = "ended") /\ i \in InFlight
  /\ state_map[i] = "DONE" => mgr[i] = "ended"
  /\ i \in InFlight => state_map[i] \in {"DISPATCHING", "CANCELED", "DONE"}

AnswerAgrees ==
  run_pc = "returned" =>
    \/ answer = "accepted" /\ mgr[run_id] \in {"taken", "drained", "ended"}
    \/ answer \in {"full", "failed"} /\ mgr[run_id] = "none"

StatesAgree ==
  /\ manager_stopped => stop_flag
  /\ ~stop_flag => AnswerAgrees /\ \A i \in ScanIds : ManagerAgrees(i)

LEMMA InitAgree == Init => StatesAgree
  BY DEF Init, SchedulerInit, StatesAgree, AnswerAgrees, ManagerAgrees, InFlight

LEMMA AnswersBeforeStop ==
  ASSUME NEW s \in {"none", "taken", "drained", "ended"}, NEW a \in AnswersAfter(s)
  PROVE  \/ s = "none" /\ a \in {"full", "failed"}
         \/ s # "none" /\ a = "accepted"
<1>1. CASE s = "none"
  BY <1>1 DEF AnswersAfter
<1>2. CASE s \in {"taken", "drained", "ended"}
  BY <1>2 DEF AnswersAfter
<1> QED
  BY <1>1, <1>2

LEMMA NextAgree ==
  ASSUME RootInv, QueueInv, StagesOfShutdown, StatesAgree, [Next]_vars
  PROVE  StatesAgree'
<1>0. /\ TypeOK /\ HandledIsKnown /\ StatesAgree /\ ManagerKnows
      /\ state_map \in [ScanIds -> RequestState \cup {"NONE"}]
      /\ mgr \in [ScanIds -> MgrState]
      /\ run_id \in 0 .. MaxScanId
  BY DEF RootInv, TypeInv, TypeOK, SchedulerTypeOK
<1> USE DEF fields, queue_vars, run_vars, mgr_vars, StatesAgree
<1>1. CASE UNCHANGED <<stop_flag, manager_stopped, state_map, mgr, InFlight, run_id, run_pc, answer>>
  BY <1>0, <1>1 DEF AnswerAgrees, ManagerAgrees, InManager
<1>2. ASSUME NEW c \in Clients, ClientStep(c), UNCHANGED mgr_vars PROVE StatesAgree'
  <2>1. CASE gen_scan_id(c) \/ submit_rejected(c)
    BY <1>1, <1>2, <2>1 DEF gen_scan_id, submit_rejected, InFlight
  <2>2. ASSUME NEW root \in Roots, submit_ok(c, root) PROVE StatesAgree'
    <3>1. new_id[c] \in ScanIds /\ mgr[new_id[c]] = "none"
      BY <1>0, <2>2, LimitsAssumption DEF submit_ok, ScanIds, TypeOK, SchedulerTypeOK, ManagerKnows
    <3> QED
      BY <1>0, <1>2, <2>2, <3>1 DEF submit_ok, set_state, wake_run, InFlight, AnswerAgrees,
         ManagerAgrees, InManager
  <2>3. ASSUME NEW id \in ScanIds, cancel_running(c, id) \/ cancel_pending(c, id)
        PROVE  StatesAgree'
    BY <1>0, <1>2, <2>3 DEF cancel_running, cancel_pending, set_state, InFlight, AnswerAgrees,
       ManagerAgrees, InManager
  <2> QED
    BY <1>2, <2>1, <2>2, <2>3 DEF ClientStep
<1>3. CASE (run_waits \/ run_exits \/ run_skips) /\ UNCHANGED mgr_vars
  BY <1>0, <1>3 DEF run_waits, run_exits, run_skips, CanPop, InFlight, AnswerAgrees,
     ManagerAgrees, InManager
<1>4. CASE run_dispatches /\ UNCHANGED mgr_vars
  <2>1. Front \in ScanIds
    BY <1>0, <1>4, FrontIsScan DEF run_dispatches, CanPop, Blocked
  <2> QED
    BY <1>0, <1>4, <2>1 DEF run_dispatches, CanPop, set_state, InFlight, AnswerAgrees,
       ManagerAgrees, InManager
<1>5. CASE (run_records_running \/ run_records_canceled \/ run_retries_later
            \/ run_records_failed \/ run_finds_done) /\ UNCHANGED mgr_vars
  BY <1>0, <1>5 DEF HandledIsKnown, run_records_running, run_records_canceled,
     run_retries_later, run_records_failed, run_finds_done, Returned, set_state, InFlight,
     AnswerAgrees, ManagerAgrees, InManager
<1>6. CASE run_cancels \/ (run_wakes_spuriously /\ UNCHANGED mgr_vars)
           \/ (\E c \in Clients : cancel_returns(c)) \/ UNCHANGED vars
  BY <1>1, <1>0, <1>6 DEF run_cancels, run_cancel_returns, run_wakes_spuriously, cancel_returns,
     cancel_call_returns, vars, scheduler_vars, InFlight, AnswerAgrees, ManagerAgrees, InManager
<1>7. CASE shutdown /\ UNCHANGED mgr_vars
  BY <1>7 DEF shutdown
<1>8. CASE ShutdownStep
  BY <1>0, <1>1, <1>8 DEF ShutdownStep, shutdown_cancels, shutdown_waits_for,
     shutdown_canceled, shutdown_finds_finished, shutdown_waited, shutdown_joined_manager,
     shutdown_notifies, shutdown_stops_manager, sd_goto, wake_run, InFlight, AnswerAgrees,
     ManagerAgrees, InManager, StagesOfShutdown
<1>9. CASE ManagerTakes \/ ManagerRefuses
  BY <1>0, <1>9 DEF ManagerTakes, ManagerRefuses, set_mgr, scheduler_vars, InFlight,
     AnswerAgrees, ManagerAgrees, InManager
<1>10. CASE ManagerAnswers
  <2>1. PICK a \in AnswersAfter(mgr[run_id]) : start_new_scan_returns(a)
    BY <1>10 DEF ManagerAnswers
  <2>2. run_pc = "dispatch" /\ run_pc' = "returned" /\ answer' = a /\ InFlight' = InFlight
        /\ UNCHANGED <<stop_flag, manager_stopped, state_map, mgr, run_id>>
    BY <1>10, <2>1 DEF ManagerAnswers, start_new_scan_returns, InFlight
  <2>3. ASSUME ~stop_flag PROVE AnswerAgrees'
    <3>1. mgr[run_id] \in {"none", "taken", "drained", "ended"}
      BY <1>0, <2>2, <2>3 DEF HandledIsKnown, ManagerAgrees
    <3> QED
      BY <2>1, <2>2, <3>1, AnswersBeforeStop DEF AnswerAgrees
  <2> QED
    BY <1>0, <2>2, <2>3 DEF ManagerAgrees, InManager
<1>11. ASSUME NEW id \in ScanIds, ManagerDrains(id) PROVE StatesAgree'
  <2>1. /\ mgr[id] = "taken" /\ mgr' = [mgr EXCEPT ![id] = "drained"]
        /\ UNCHANGED <<stop_flag, manager_stopped, state_map, run_pc, run_id, answer, InFlight>>
    BY <1>11 DEF ManagerDrains, set_mgr, scheduler_vars, InFlight
  <2>2. ASSUME ~stop_flag, NEW i \in ScanIds PROVE ManagerAgrees(i)'
    BY <1>0, <2>1, <2>2 DEF ManagerAgrees, InManager
  <2>3. ASSUME ~stop_flag PROVE AnswerAgrees'
    BY <1>0, <2>1, <2>3 DEF AnswerAgrees, HandledIsKnown
  <2> QED
    BY <1>0, <2>1, <2>2, <2>3
<1>12. ASSUME NEW id \in ScanIds, ManagerReports(id) PROVE StatesAgree'
  <2>1. UNCHANGED <<stop_flag, manager_stopped, run_id, answer, InFlight>>
        /\ (run_pc' = "returned" <=> run_pc = "returned")
    BY <1>12 DEF ManagerReports, set_mgr, notify_scan_finished, wake_run, InFlight
  <2>2. /\ ~stop_flag => mgr[id] = "drained" /\ mgr' = [mgr EXCEPT ![id] = "ended"]
        /\ state_map' = IF state_map[id] \in {"RUNNING", "DISPATCHING"}
                          THEN [state_map EXCEPT ![id] = "DONE"] ELSE state_map
    BY <1>0, <1>12 DEF ManagerReports, set_mgr, notify_scan_finished, ManagerAgrees
  <2>3. ASSUME ~stop_flag, NEW i \in ScanIds PROVE ManagerAgrees(i)'
    <3>1. CASE i = id
      BY <1>0, <2>1, <2>2, <2>3, <3>1 DEF ManagerAgrees, InManager, RequestState
    <3>2. CASE i # id
      <4>1. state_map'[i] = state_map[i] /\ mgr'[i] = mgr[i]
        BY <1>0, <2>2, <2>3, <3>2
      <4> QED
        BY <1>0, <2>1, <2>3, <4>1 DEF ManagerAgrees, InManager
    <3> QED
      BY <3>1, <3>2
  <2>4. ASSUME ~stop_flag PROVE AnswerAgrees'
    BY <1>0, <2>1, <2>2, <2>4 DEF AnswerAgrees, HandledIsKnown
  <2> QED
    BY <1>0, <2>1, <2>3, <2>4
<1>14. ASSUME NEW id \in ScanIds, ManagerExports(id) PROVE StatesAgree'
  BY <1>1, <1>14 DEF ManagerExports, notify_export_done, InFlight
<1>13. CASE ManagerMakesRoom
  BY <1>0, <1>13 DEF ManagerMakesRoom, notify_dispatch_available, wake_run, InFlight,
     AnswerAgrees, ManagerAgrees, InManager
<1> QED
  BY <1>2, <1>3, <1>4, <1>5, <1>6, <1>7, <1>8, <1>9, <1>10, <1>11, <1>12, <1>13, <1>14
     DEF Next, RunLoop, RunStep

-----------------------------------------------------------------------------
(* Counting the scans that run *)

LEMMA CountedFinite ==
  /\ IsFiniteSet(ScanIds)
  /\ IsFiniteSet(Counted) /\ Cardinality(Counted) \in Nat
  /\ IsFiniteSet(Counted') /\ Cardinality(Counted') \in Nat
<1>1. IsFiniteSet(ScanIds)
  BY FS_Interval, LimitsAssumption DEF ScanIds
<1>2. Counted \in SUBSET ScanIds /\ Counted' \in SUBSET ScanIds
  BY DEF Counted
<1> QED
  BY <1>1, <1>2, FS_Subset, FS_CardinalityType

\* The scan in flight that was canceled and ended before run() counted it.
EndedEarly == /\ run_pc \in {"dispatch", "returned"}
              /\ state_map[run_id] = "CANCELED" /\ mgr[run_id] = "ended"

LEMMA EarlyCardinality ==
  /\ Cardinality(CountedEarly) = IF EndedEarly THEN 1 ELSE 0
  /\ Cardinality(CountedEarly)' = IF EndedEarly' THEN 1 ELSE 0
<1>1. CountedEarly = (IF EndedEarly THEN {run_id} ELSE {})
      /\ CountedEarly' = (IF EndedEarly' THEN {run_id'} ELSE {})
  BY DEF CountedEarly, InFlight, EndedEarly
<1> QED
  BY <1>1, FS_Singleton, FS_EmptySet

\* RunningAccounting in the form that the steps change.
RunningSum == running_scans = Cardinality(Counted) - IF EndedEarly THEN 1 ELSE 0

LEMMA RunningForm ==
  /\ RunningAccounting <=> (~stop_flag => RunningSum)
  /\ RunningAccounting' <=> (~stop_flag' => RunningSum')
  BY EarlyCardinality DEF RunningAccounting, RunningSum

LEMMA StopStays == ASSUME [Next]_vars, stop_flag PROVE stop_flag'
<1> USE DEF fields, queue_vars
<1>1. ASSUME NEW c \in Clients, ClientStep(c) PROVE stop_flag'
  BY <1>1 DEF ClientStep, gen_scan_id, submit_rejected, submit_ok, cancel_running,
              cancel_pending
<1>2. CASE RunLoop \/ run_wakes_spuriously
  BY <1>2 DEF RunLoop, RunStep, run_waits, run_exits, run_skips, run_dispatches, Returned,
     run_records_running, run_records_canceled, run_retries_later,
     run_records_failed, run_finds_done, run_cancels, run_cancel_returns, run_wakes_spuriously
<1>3. CASE ShutdownStep \/ shutdown
  BY <1>3 DEF ShutdownStep, shutdown_cancels, shutdown_waits_for, shutdown_canceled,
     shutdown_finds_finished, shutdown_waited, shutdown_joined_manager, shutdown_notifies,
     shutdown_stops_manager, sd_goto, shutdown
<1>4. CASE ManagerStep
  BY <1>4 DEF ManagerStep, ManagerTakes, ManagerRefuses, ManagerAnswers, ManagerReports,
     start_new_scan_returns, ManagerMakesRoom, notify_dispatch_available, ManagerDrains,
     notify_scan_finished, ManagerExports, notify_export_done, scheduler_vars
<1>5. CASE (\E c \in Clients : cancel_returns(c)) \/ UNCHANGED vars
  BY <1>5 DEF cancel_returns, cancel_call_returns, vars, scheduler_vars
<1> QED
  BY <1>1, <1>2, <1>3, <1>4, <1>5 DEF Next, ManagerStep

LEMMA NextRunningSum ==
  ASSUME TypeInv, StatesAgree, RunningSum, [Next]_vars, ~stop_flag'
  PROVE  RunningSum'
<1>0. /\ ~stop_flag /\ TypeOK /\ HandledIsKnown /\ AnswerAgrees
      /\ \A i \in ScanIds : ManagerAgrees(i)
      /\ running_scans \in Int
      /\ state_map \in [ScanIds -> RequestState \cup {"NONE"}]
      /\ mgr \in [ScanIds -> MgrState]
  BY StopStays DEF TypeInv, TypeOK, SchedulerTypeOK, StatesAgree
<1> USE CountedFinite DEF fields, queue_vars, run_vars, mgr_vars
<1>1. ASSUME Counted' = Counted, (EndedEarly' <=> EndedEarly), UNCHANGED running_scans
      PROVE  RunningSum'
  BY <1>1 DEF RunningSum
<1>2. ASSUME NEW id \in ScanIds, id \notin Counted, Counted' = Counted \cup {id},
             ~EndedEarly, ~EndedEarly', running_scans' = running_scans + 1
      PROVE  RunningSum'
  BY <1>0, <1>2, FS_AddElement DEF RunningSum
<1>3. ASSUME NEW c \in Clients, ClientStep(c), UNCHANGED mgr_vars PROVE RunningSum'
  <2>1. UNCHANGED <<InFlight, run_id, running_scans>>
        /\ (run_pc' \in {"dispatch", "returned"} <=> run_pc \in {"dispatch", "returned"})
    BY <1>3 DEF ClientStep, gen_scan_id, submit_rejected, submit_ok, cancel_running,
       cancel_pending, wake_run, InFlight
  <2>2. ASSUME run_pc \in {"dispatch", "returned"}
        PROVE  \/ state_map'[run_id] = state_map[run_id]
               \/ mgr[run_id] # "ended" /\ state_map[run_id] = "DISPATCHING"
    <3>1. run_id \in ScanIds /\ run_id \in InFlight /\ ManagerAgrees(run_id)
      BY <1>0, <2>2 DEF HandledIsKnown, InFlight
    <3> QED
      BY <1>0, <1>3, <3>1 DEF ClientStep, gen_scan_id, submit_rejected, submit_ok,
         cancel_running, cancel_pending, set_state, ManagerAgrees
  <2>3. (EndedEarly' <=> EndedEarly)
    BY <1>3, <2>1, <2>2 DEF EndedEarly
  <2>4. Counted' = Counted
    BY <1>3, <2>1 DEF Counted, InManager
  <2> QED
    BY <1>1, <2>1, <2>3, <2>4
<1>4. CASE (run_waits \/ run_exits \/ run_skips) /\ UNCHANGED mgr_vars
  <2>1. InFlight = {} /\ InFlight' = {} /\ ~EndedEarly /\ ~EndedEarly' /\ UNCHANGED running_scans
    BY <1>4 DEF run_waits, run_exits, run_skips, CanPop, InFlight, EndedEarly
  <2> QED
    BY <1>1, <1>4, <2>1 DEF Counted, InManager
<1>5. CASE run_dispatches /\ UNCHANGED mgr_vars
  <2>1. Front \in ScanIds /\ run_id' = Front /\ state_map[Front] = "PENDING"
        /\ InFlight = {} /\ InFlight' = {Front} /\ UNCHANGED running_scans
    BY <1>0, <1>5, FrontIsScan DEF run_dispatches, CanPop, Blocked, InFlight
  <2>2. mgr[Front] = "none"
    BY <1>0, <2>1 DEF ManagerAgrees
  <2>3. ~EndedEarly /\ ~EndedEarly'
    BY <1>5, <2>1, <2>2 DEF EndedEarly, run_dispatches, CanPop
  <2>4. Counted' = Counted
    BY <1>5, <2>1, <2>2 DEF Counted, InManager
  <2> QED
    BY <1>1, <2>1, <2>3, <2>4
<1>6. CASE (run_records_running \/ run_records_canceled \/ run_retries_later
            \/ run_records_failed \/ run_finds_done) /\ UNCHANGED mgr_vars
  <2>1. /\ run_pc = "returned" /\ run_id \in ScanIds /\ InFlight = {run_id} /\ InFlight' = {}
        /\ ManagerAgrees(run_id) /\ ~EndedEarly'
    BY <1>0, <1>6 DEF HandledIsKnown, run_records_running, run_records_canceled,
       run_retries_later, run_records_failed, run_finds_done, Returned, InFlight, EndedEarly
  <2>2. Counted' = (IF InManager(run_id) THEN Counted \cup {run_id} ELSE Counted)
        /\ run_id \notin Counted
    BY <1>6, <2>1 DEF Counted, InManager
  <2>3. CASE run_records_running
    <3>1. InManager(run_id) /\ ~EndedEarly /\ running_scans' = running_scans + 1
      BY <1>0, <2>1, <2>3 DEF run_records_running, Returned, AnswerAgrees, ManagerAgrees,
         InManager, EndedEarly
    <3> QED
      BY <1>2, <2>1, <2>2, <3>1
  <2>4. CASE run_records_canceled /\ answer = "accepted"
    <3>1. running_scans' = running_scans + 1 /\ state_map[run_id] = "CANCELED"
      BY <2>4 DEF run_records_canceled, Returned
    <3>2. CASE mgr[run_id] = "ended"
      <4>1. EndedEarly /\ Counted' = Counted
        BY <2>1, <2>2, <3>1, <3>2 DEF EndedEarly, InManager
      <4> QED
        BY <1>0, <2>1, <3>1, <4>1 DEF RunningSum
    <3>3. CASE mgr[run_id] \in {"taken", "drained"}
      BY <1>2, <2>1, <2>2, <3>1, <3>3 DEF EndedEarly, InManager
    <3> QED
      BY <1>0, <2>1, <2>4, <3>2, <3>3 DEF AnswerAgrees
  <2>5. CASE (run_records_canceled /\ answer # "accepted") \/ run_retries_later
             \/ run_records_failed
    <3>1. mgr[run_id] = "none" /\ UNCHANGED running_scans
      BY <1>0, <2>1, <2>5 DEF run_records_canceled, run_retries_later, run_records_failed,
         Returned, AnswerAgrees
    <3> QED
      BY <1>1, <2>1, <2>2, <3>1 DEF InManager, EndedEarly
  <2>6. CASE run_finds_done
    <3>1. mgr[run_id] = "ended" /\ state_map[run_id] = "DONE" /\ UNCHANGED running_scans
      BY <2>1, <2>6 DEF run_finds_done, Returned, ManagerAgrees
    <3> QED
      BY <1>1, <2>1, <2>2, <3>1 DEF InManager, EndedEarly
  <2> QED
    BY <1>6, <2>3, <2>4, <2>5, <2>6
<1>7. CASE run_cancels \/ (run_wakes_spuriously /\ UNCHANGED mgr_vars) \/ ManagerMakesRoom
           \/ (\E c \in Clients : cancel_returns(c)) \/ UNCHANGED vars
  <2>1. UNCHANGED <<InFlight, mgr, state_map, run_id, running_scans>>
        /\ (run_pc' \in {"dispatch", "returned"} <=> run_pc \in {"dispatch", "returned"})
    BY <1>7 DEF run_cancels, run_cancel_returns, run_wakes_spuriously, cancel_returns,
       cancel_call_returns, vars, scheduler_vars, ManagerMakesRoom, notify_dispatch_available,
       wake_run, InFlight
  <2> QED
    BY <1>1, <2>1 DEF Counted, InManager, EndedEarly
<1>8. CASE ShutdownStep
  <2>1. UNCHANGED <<InFlight, mgr, state_map, run_id, running_scans>>
        /\ (run_pc' \in {"dispatch", "returned"} <=> run_pc \in {"dispatch", "returned"})
    BY <1>8 DEF ShutdownStep, shutdown_cancels, shutdown_waits_for, shutdown_canceled,
       shutdown_finds_finished, shutdown_waited, shutdown_joined_manager, shutdown_notifies,
       shutdown_stops_manager, sd_goto, wake_run, InFlight
  <2> QED
    BY <1>1, <2>1 DEF Counted, InManager, EndedEarly
<1>9. CASE ManagerTakes \/ ManagerRefuses
  <2>1. /\ run_pc = "dispatch" /\ mgr[run_id] = "none" /\ mgr'[run_id] \in {"taken", "refused"}
        /\ \A i \in ScanIds : i # run_id => mgr'[i] = mgr[i]
        /\ UNCHANGED <<InFlight, state_map, run_id, running_scans>>
    BY <1>0, <1>9 DEF ManagerTakes, ManagerRefuses, set_mgr, scheduler_vars, HandledIsKnown,
       InFlight
  <2> QED
    BY <1>1, <2>1 DEF Counted, InManager, EndedEarly, InFlight
<1>10. CASE ManagerAnswers
  <2>1. /\ run_pc = "dispatch" /\ run_pc' = "returned"
        /\ UNCHANGED <<InFlight, mgr, state_map, run_id, running_scans>>
    BY <1>10 DEF ManagerAnswers, start_new_scan_returns, InFlight
  <2> QED
    BY <1>1, <2>1 DEF Counted, InManager, EndedEarly
<1>11. ASSUME NEW id \in ScanIds, ManagerDrains(id) \/ ManagerExports(id) PROVE RunningSum'
  <2>1. /\ \A i \in ScanIds : \/ mgr'[i] = mgr[i]
                              \/ mgr[i] = "taken" /\ mgr'[i] = "drained"
        /\ UNCHANGED <<InFlight, run_pc, state_map, run_id, running_scans>>
    BY <1>0, <1>11 DEF ManagerDrains, ManagerExports, set_mgr, notify_export_done,
       scheduler_vars, InFlight
  <2>2. (EndedEarly' <=> EndedEarly)
    BY <1>0, <2>1 DEF EndedEarly, HandledIsKnown
  <2> QED
    BY <1>1, <2>1, <2>2 DEF Counted, InManager
<1>12. ASSUME NEW id \in ScanIds, ManagerReports(id) PROVE RunningSum'
  <2>1. /\ mgr[id] = "drained" /\ mgr'[id] = "ended"
        /\ \A i \in ScanIds : i # id => mgr'[i] = mgr[i] /\ state_map'[i] = state_map[i]
        /\ state_map[id] \in {"RUNNING", "CANCELED", "DISPATCHING"}
        /\ state_map'[id] = IF state_map[id] = "CANCELED" THEN "CANCELED" ELSE "DONE"
        /\ running_scans' = IF state_map[id] = "DISPATCHING" THEN running_scans
                                                           ELSE running_scans - 1
    BY <1>0, <1>12 DEF ManagerReports, set_mgr, notify_scan_finished, ManagerAgrees, RequestState
  <2>2. UNCHANGED <<InFlight, run_id>>
        /\ (run_pc' \in {"dispatch", "returned"} <=> run_pc \in {"dispatch", "returned"})
    BY <1>12 DEF ManagerReports, notify_scan_finished, wake_run, InFlight
  <2>3. CASE id \in InFlight
    <3>1. id = run_id /\ run_pc \in {"dispatch", "returned"} /\ ~EndedEarly
          /\ state_map[id] \in {"CANCELED", "DISPATCHING"}
      BY <1>0, <2>1, <2>3 DEF InFlight, EndedEarly, ManagerAgrees
    <3>2. Counted' = Counted
      BY <2>1, <2>2, <2>3 DEF Counted, InManager
    <3>3. EndedEarly' <=> state_map[id] = "CANCELED"
      BY <2>1, <2>2, <3>1 DEF EndedEarly
    <3> QED
      BY <1>0, <2>1, <3>1, <3>2, <3>3 DEF RunningSum
  <2>4. CASE id \notin InFlight
    <3>1. id \in Counted /\ Counted' = Counted \ {id}
      BY <2>1, <2>2, <2>4 DEF Counted, InManager
    <3>2. Cardinality(Counted') = Cardinality(Counted) - 1
      BY <3>1, FS_RemoveElement
    <3>3. state_map[id] # "DISPATCHING"
      BY <1>0, <2>4 DEF ManagerAgrees
    <3>4. (EndedEarly' <=> EndedEarly)
      BY <1>0, <2>1, <2>2, <2>4 DEF EndedEarly, InFlight, HandledIsKnown
    <3> QED
      BY <1>0, <2>1, <3>2, <3>3, <3>4 DEF RunningSum
  <2> QED
    BY <2>3, <2>4
<1>13. CASE shutdown
  BY <1>0, <1>13 DEF shutdown
<1> QED
  BY <1>3, <1>4, <1>5, <1>6, <1>7, <1>8, <1>9, <1>10, <1>11, <1>12, <1>13
     DEF Next, RunLoop, RunStep

\* A scan on its way into the pool still has a place there: run() looked at
\* the limit, and until it answers the Manager can only lose scans.
InPool == {i \in ScanIds : InManager(i)}
RoomForNext ==
  run_pc \in {"dispatch", "returned"} /\ mgr[run_id] = "none"
    => Cardinality(InPool) < MAX_CONCURRENT_SCAN

LEMMA InPoolFinite ==
  /\ IsFiniteSet(InPool) /\ Cardinality(InPool) \in Nat
  /\ IsFiniteSet(InPool') /\ Cardinality(InPool') \in Nat
<1>1. InPool \in SUBSET ScanIds /\ InPool' \in SUBSET ScanIds
  BY DEF InPool
<1> QED
  BY <1>1, CountedFinite, FS_Subset, FS_CardinalityType

LEMMA NextRoom ==
  ASSUME TypeInv, StatesAgree, RunningAccounting, ConcurrencyLimit, RoomForNext, [Next]_vars
  PROVE  ConcurrencyLimit' /\ RoomForNext'
<1>0. /\ TypeOK /\ HandledIsKnown
      /\ mgr \in [ScanIds -> MgrState]
      /\ MAX_CONCURRENT_SCAN \in Nat /\ running_scans \in Int
      /\ Cardinality(InPool) <= MAX_CONCURRENT_SCAN
  BY LimitsAssumption DEF TypeInv, TypeOK, SchedulerTypeOK, ConcurrencyLimit, InPool
<1>00. ASSUME Cardinality(InPool') <= MAX_CONCURRENT_SCAN PROVE ConcurrencyLimit'
  BY <1>00 DEF ConcurrencyLimit, InPool
<1> USE InPoolFinite DEF fields, queue_vars, run_vars, mgr_vars
<1>1. ASSUME InPool' \subseteq InPool, UNCHANGED run_id,
             run_pc' \in {"dispatch", "returned"} /\ mgr'[run_id] = "none"
               => run_pc \in {"dispatch", "returned"} /\ mgr[run_id] = "none"
      PROVE  ConcurrencyLimit' /\ RoomForNext'
  <2>1. Cardinality(InPool') <= Cardinality(InPool)
    BY <1>1, FS_Subset
  <2>2. ConcurrencyLimit'
    BY <1>0, <1>00, <2>1
  <2>3. ASSUME run_pc' \in {"dispatch", "returned"}, mgr'[run_id'] = "none"
        PROVE  Cardinality(InPool') < MAX_CONCURRENT_SCAN
    <3>1. Cardinality(InPool) < MAX_CONCURRENT_SCAN
      BY <1>1, <2>3 DEF RoomForNext
    <3> QED
      BY <1>0, <2>1, <3>1
  <2> QED
    BY <2>2, <2>3 DEF RoomForNext
<1>2. ASSUME NEW c \in Clients, ClientStep(c), UNCHANGED mgr_vars
      PROVE  ConcurrencyLimit' /\ RoomForNext'
  <2>1. UNCHANGED <<run_id, mgr>>
        /\ (run_pc' \in {"dispatch", "returned"} <=> run_pc \in {"dispatch", "returned"})
    BY <1>2 DEF ClientStep, gen_scan_id, submit_rejected, submit_ok, cancel_running,
       cancel_pending, wake_run
  <2> QED
    BY <1>1, <2>1 DEF InPool, InManager
<1>3. CASE run_dispatches /\ UNCHANGED mgr_vars
  <2>1. /\ ~stop_flag /\ running_scans < MAX_CONCURRENT_SCAN
        /\ InFlight = {} /\ ~EndedEarly /\ UNCHANGED mgr
    BY <1>0, <1>3 DEF run_dispatches, CanPop, Blocked, InFlight, EndedEarly
  <2>2. Counted = InPool /\ InPool' = InPool
    BY <2>1 DEF Counted, InPool, InManager
  <2>3. running_scans = Cardinality(InPool)
    BY <2>1, <2>2, RunningForm DEF RunningSum
  <2> QED
    BY <1>0, <1>00, <2>1, <2>2, <2>3 DEF RoomForNext
<1>4. CASE RunLoop /\ run_pc' \notin {"dispatch", "returned"}
  <2>1. UNCHANGED mgr
    BY <1>4 DEF RunLoop, run_cancels
  <2>2. InPool' = InPool
    BY <2>1 DEF InPool, InManager
  <2> QED
    BY <1>0, <1>00, <1>4, <2>2 DEF RoomForNext
<1>5. CASE RunLoop
  <2>1. run_dispatches \/ run_pc' \notin {"dispatch", "returned"}
    BY <1>5 DEF RunLoop, RunStep, run_waits, run_exits, run_skips, CanPop, Returned,
       run_records_running, run_records_canceled, run_retries_later, run_records_failed,
       run_finds_done, run_cancels, run_cancel_returns
  <2>2. run_dispatches => UNCHANGED mgr_vars
    BY <1>5 DEF RunLoop, run_cancels
  <2> QED
    BY <1>3, <1>4, <1>5, <2>1, <2>2
<1>6. CASE ManagerTakes
  <2>1. /\ run_id \in ScanIds /\ mgr[run_id] = "none" /\ run_pc = "dispatch"
        /\ mgr' = [mgr EXCEPT ![run_id] = "taken"] /\ UNCHANGED <<run_id, run_pc>>
    BY <1>0, <1>6 DEF ManagerTakes, set_mgr, scheduler_vars, HandledIsKnown
  <2>2. InPool' = InPool \cup {run_id} /\ mgr'[run_id] = "taken"
    BY <1>0, <2>1 DEF InPool, InManager
  <2>3. Cardinality(InPool) < MAX_CONCURRENT_SCAN
    BY <2>1 DEF RoomForNext
  <2>4. Cardinality(InPool') <= Cardinality(InPool) + 1
    BY <2>2, FS_AddElement
  <2> QED
    BY <1>0, <1>00, <2>1, <2>2, <2>3, <2>4 DEF RoomForNext
<1>7. CASE ManagerRefuses \/ ManagerAnswers \/ ManagerMakesRoom
  <2>1. /\ InPool' \subseteq InPool /\ UNCHANGED run_id
        /\ run_pc' \in {"dispatch", "returned"} => run_pc \in {"dispatch", "returned"}
    BY <1>0, <1>7 DEF ManagerRefuses, ManagerAnswers, ManagerMakesRoom, set_mgr,
       start_new_scan_returns, notify_dispatch_available, wake_run, scheduler_vars, InPool,
       InManager
  <2>2. ASSUME run_pc \in {"dispatch", "returned"}, mgr'[run_id] = "none"
        PROVE  mgr[run_id] = "none"
    BY <1>0, <1>7, <2>2 DEF ManagerRefuses, ManagerAnswers, ManagerMakesRoom, set_mgr,
       HandledIsKnown
  <2> QED
    BY <1>1, <2>1, <2>2
<1>8. ASSUME NEW id \in ScanIds, ManagerDrains(id) \/ ManagerReports(id) \/ ManagerExports(id)
      PROVE  ConcurrencyLimit' /\ RoomForNext'
  <2>1. /\ InPool' \subseteq InPool /\ UNCHANGED run_id
        /\ run_pc' \in {"dispatch", "returned"} => run_pc \in {"dispatch", "returned"}
    BY <1>0, <1>8 DEF ManagerDrains, ManagerReports, ManagerExports, set_mgr,
       notify_scan_finished, notify_export_done, wake_run, scheduler_vars, InPool, InManager
  <2>2. \A i \in ScanIds : mgr'[i] = "none" => mgr[i] = "none"
    BY <1>0, <1>8 DEF ManagerDrains, ManagerReports, ManagerExports, set_mgr
  <2>3. run_pc \in {"dispatch", "returned"} => run_id \in ScanIds
    BY <1>0 DEF HandledIsKnown
  <2> QED
    BY <1>1, <2>1, <2>2, <2>3
<1>9. CASE (shutdown /\ UNCHANGED mgr_vars) \/ (run_wakes_spuriously /\ UNCHANGED mgr_vars)
           \/ (\E c \in Clients : cancel_returns(c)) \/ UNCHANGED vars
  <2>1. UNCHANGED <<run_id, mgr>>
        /\ (run_pc' \in {"dispatch", "returned"} <=> run_pc \in {"dispatch", "returned"})
    BY <1>9 DEF shutdown, run_wakes_spuriously, cancel_returns, cancel_call_returns, vars,
       scheduler_vars
  <2> QED
    BY <1>1, <2>1 DEF InPool, InManager
<1>10. CASE ShutdownStep
  <2>1. UNCHANGED <<run_id, mgr>>
        /\ (run_pc' \in {"dispatch", "returned"} <=> run_pc \in {"dispatch", "returned"})
    BY <1>10 DEF ShutdownStep, shutdown_cancels, shutdown_waits_for, shutdown_canceled,
       shutdown_finds_finished, shutdown_waited, shutdown_joined_manager, shutdown_notifies,
       shutdown_stops_manager, sd_goto, wake_run
  <2> QED
    BY <1>1, <2>1 DEF InPool, InManager
<1> QED
  BY <1>2, <1>5, <1>6, <1>7, <1>8, <1>9, <1>10 DEF Next

CountInv == EndInv /\ RootInv /\ StatesAgree /\ RunningAccounting
            /\ ConcurrencyLimit /\ RoomForNext

LEMMA InitCount == Init => CountInv
<1> SUFFICES ASSUME Init PROVE CountInv
  OBVIOUS
<1>1. EndInv /\ RootInv /\ StatesAgree
  BY InitEnd, InitRoot, InitAgree
<1>2. Counted = {} /\ InPool = {} /\ running_scans = 0 /\ ~EndedEarly /\ run_pc = "loop"
  BY DEF Init, SchedulerInit, Counted, InPool, InManager, EndedEarly
<1>3. RunningAccounting
  BY <1>2, RunningForm, FS_EmptySet DEF RunningSum
<1>4. ConcurrencyLimit /\ RoomForNext
  BY <1>2, FS_EmptySet, LimitsAssumption DEF ConcurrencyLimit, InPool, RoomForNext
<1> QED
  BY <1>1, <1>3, <1>4 DEF CountInv

LEMMA NextCount == CountInv /\ [Next]_vars => CountInv'
<1> SUFFICES ASSUME CountInv, [Next]_vars PROVE CountInv'
  OBVIOUS
<1>1. EndInv' /\ RootInv'
  BY NextEnd, NextType, NextManagerKnows, NextOverlap DEF CountInv, RootInv
<1>2. StatesAgree'
  BY NextAgree DEF CountInv, EndInv
<1>3. RunningAccounting'
  <2>1. ~stop_flag' => ~stop_flag
    BY StopStays
  <2> QED
    BY <2>1, NextRunningSum, RunningForm DEF CountInv, RootInv
<1>4. ConcurrencyLimit' /\ RoomForNext'
  BY NextRoom DEF CountInv, RootInv
<1> QED
  BY <1>1, <1>2, <1>3, <1>4 DEF CountInv

(* running_scans is the number of recorded scans in the pool, less the one *)
(* that ended before run() could count it (scheduler.cpp:130, :140, :265): *)
(* no interleaving of cancel(), callbacks and run() makes it drift.        *)
THEOREM RunningIsCounted == SafeSpec => []RunningAccounting
<1>1. CountInv => RunningAccounting
  BY DEF CountInv
<1> QED
  BY <1>1, InitCount, NextCount, PTL DEF SafeSpec

(* No more than MAX_CONCURRENT_SCAN scans have jobs in the pool, although  *)
(* the limit is read before the lock is given up and the scan is counted   *)
(* only when it is taken again (scheduler.cpp:64-71, :137-146).            *)
THEOREM LimitHolds == SafeSpec => []ConcurrencyLimit
<1>1. CountInv => ConcurrencyLimit
  BY DEF CountInv
<1> QED
  BY <1>1, InitCount, NextCount, PTL DEF SafeSpec

-----------------------------------------------------------------------------
(* Counting the scans that wait *)

\* What pending_scans counts, as scans and as places in the queue.
Alive == {i \in ScanIds : Queued(i) /\ state_map[i] # "DROPPED"}
AlivePlaces == {k \in DOMAIN pending_queue : state_map[pending_queue[k]] # "DROPPED"}

LEMMA AliveFinite ==
  /\ IsFiniteSet(Alive) /\ Cardinality(Alive) \in Nat
  /\ IsFiniteSet(Alive') /\ Cardinality(Alive') \in Nat
<1>1. Alive \in SUBSET ScanIds /\ Alive' \in SUBSET ScanIds
  BY DEF Alive
<1> QED
  BY <1>1, CountedFinite, FS_Subset, FS_CardinalityType

\* No scan is queued twice, so there are as many places as scans.
LEMMA PlacesAreScans ==
  ASSUME TypeOK, InOrder(pending_queue)
  PROVE  Cardinality(AlivePlaces) = Cardinality(Alive)
<1> DEFINE f == [k \in AlivePlaces |-> pending_queue[k]]
<1>1. \A k \in DOMAIN pending_queue : pending_queue[k] \in ScanIds
  BY ElementOfSeq, LenProperties DEF TypeOK, SchedulerTypeOK
<1>2. f \in [AlivePlaces -> Alive]
  BY <1>1 DEF AlivePlaces, Alive, Queued
<1>3. \A j, k \in AlivePlaces : f[j] = f[k] => j = k
  BY DEF AlivePlaces, InOrder
<1>4. \A i \in Alive : \E k \in AlivePlaces : f[k] = i
  BY DEF AlivePlaces, Alive, Queued
<1>5. f \in Bijection(AlivePlaces, Alive)
  BY <1>2, <1>3, <1>4 DEF Bijection, Injection, Surjection, IsInjective
<1>6. IsFiniteSet(AlivePlaces)
  <2>1. DOMAIN pending_queue = 1 .. Len(pending_queue) /\ Len(pending_queue) \in Int
    BY LenProperties DEF TypeOK, SchedulerTypeOK
  <2>2. IsFiniteSet(1 .. Len(pending_queue))
    BY <2>1, FS_Interval
  <2>3. AlivePlaces \in SUBSET (1 .. Len(pending_queue))
    BY <2>1 DEF AlivePlaces
  <2> QED
    BY <2>2, <2>3, FS_Subset
<1>7. ExistsBijection(AlivePlaces, Alive)
  BY <1>5 DEF ExistsBijection
<1> QED
  BY <1>6, <1>7, FS_Bijection

PendingSum == pending_scans = Cardinality(Alive) /\ scan_pending = Len(pending_queue)

LEMMA PendingForm ==
  ASSUME TypeOK, InOrder(pending_queue)
  PROVE  PendingAccounting <=> (~stop_flag => PendingSum)
  BY PlacesAreScans DEF PendingAccounting, PendingSum, AlivePlaces

\* run() takes the front out of the queue and counts it down unless cancel() has.
LEMMA PopPendingSum ==
  ASSUME QueueInv, PendingSum, pending_queue # <<>>,
         NEW id, Front = id, pop_if_front(id),
         pending_scans' = (IF state_map[id] # "DROPPED" THEN pending_scans - 1
                                                        ELSE pending_scans),
         \A i \in ScanIds : i # id => state_map'[i] = state_map[i]
  PROVE  PendingSum'
<1>1. /\ TypeOK /\ InOrder(pending_queue) /\ id \in ScanIds
      /\ pending_queue' = Tail(pending_queue)
  BY QueueShapeParts, FrontIsScan DEF QueueInv, TypeInv, pop_if_front
<1>2. /\ pending_queue \in Seq(ScanIds) /\ Len(pending_queue) \in Nat
      /\ Len(pending_queue) # 0 /\ Len(pending_queue') = Len(pending_queue) - 1
      /\ pending_queue' \in Seq(ScanIds)
  BY <1>1, HeadTailProperties, LenProperties, EmptySeq DEF TypeOK, SchedulerTypeOK
<1>3. scan_pending' = Len(pending_queue')
  BY <1>2 DEF pop_if_front, count_down, PendingSum
<1>4. Queued(id) /\ ~Queued(id)'
  <2>1. Queued(id)
    BY <1>1, <1>2, HeadTailProperties, LenProperties DEF Queued, Front
  <2>2. \A k \in DOMAIN pending_queue' : pending_queue'[k] # id
    BY <1>1, PopInOrder
  <2> QED
    BY <2>1, <2>2 DEF Queued
<1>5. \A i \in ScanIds : i # id => (Queued(i)' <=> Queued(i))
  <2> SUFFICES ASSUME NEW i \in ScanIds, i # id PROVE Queued(i)' <=> Queued(i)
    OBVIOUS
  <2>1. Queued(i) => Queued(i)'
    BY <1>1, PopKeepsOthers
  <2>2. Queued(i)' => Queued(i)
    <3> SUFFICES ASSUME NEW k \in DOMAIN pending_queue', pending_queue'[k] = i PROVE Queued(i)
      BY DEF Queued
    <3>1. /\ k \in 1 .. Len(pending_queue') /\ k + 1 \in 1 .. Len(pending_queue)
          /\ DOMAIN pending_queue = 1 .. Len(pending_queue)
      BY <1>2, LenProperties
    <3>2. pending_queue[k + 1] = i
      BY <1>1, <1>2, <3>1, HeadTailProperties
    <3> QED
      BY <3>1, <3>2 DEF Queued
  <2> QED
    BY <2>1, <2>2
<1>6. Alive' = Alive \ {id}
  BY <1>4, <1>5 DEF Alive
<1>7. id \in Alive <=> state_map[id] # "DROPPED"
  BY <1>1, <1>4 DEF Alive
<1>8. Cardinality(Alive') = IF id \in Alive THEN Cardinality(Alive) - 1 ELSE Cardinality(Alive)
  BY <1>6, AliveFinite, FS_RemoveElement
<1>9. pending_scans' = Cardinality(Alive')
  BY <1>7, <1>8 DEF PendingSum
<1> QED
  BY <1>3, <1>9 DEF PendingSum

LEMMA SubmitPendingSum ==
  ASSUME QueueInv, PendingSum, NEW c \in Clients, NEW root \in Roots, submit_ok(c, root)
  PROVE  PendingSum'
<1> DEFINE id == new_id[c]
<1>1. /\ TypeOK /\ InOrder(pending_queue) /\ id \in ScanIds /\ state_map[id] = "NONE"
      /\ pending_queue' = Append(pending_queue, id)
      /\ state_map'[id] = "PENDING"
      /\ \A i \in ScanIds : i # id => state_map'[i] = state_map[i]
  BY QueueShapeParts, LimitsAssumption DEF QueueInv, TypeInv, submit_ok, set_state, TypeOK,
     SchedulerTypeOK, ScanIds
<1>2. /\ pending_queue \in Seq(ScanIds) /\ Len(pending_queue) \in Nat
      /\ Len(pending_queue') = Len(pending_queue) + 1
  BY <1>1, AppendProperties, LenProperties DEF TypeOK, SchedulerTypeOK
<1>3. ~Queued(id)
  BY <1>1 DEF Queued, InOrder
<1> HIDE DEF id
<1>4. \A i \in ScanIds : Queued(i)' <=> Queued(i) \/ i = id
  <2> SUFFICES ASSUME NEW i \in ScanIds PROVE Queued(i)' <=> Queued(i) \/ i = id
    OBVIOUS
  <2>1. Queued(i) \/ i = id => Queued(i)'
    BY <1>1, AppendKeepsQueued
  <2>2. Queued(i)' => Queued(i) \/ i = id
    BY <1>1, <1>2, AppendProperties, LenProperties DEF Queued
  <2> QED
    BY <2>1, <2>2
<1>5. Alive' = Alive \cup {id} /\ id \notin Alive
  BY <1>1, <1>3, <1>4 DEF Alive
<1>6. Cardinality(Alive') = Cardinality(Alive) + 1
  BY <1>5, AliveFinite, FS_AddElement
<1> QED
  BY <1>2, <1>6 DEF PendingSum, submit_ok

LEMMA NextPendingSum ==
  ASSUME EndInv, PendingSum, [Next]_vars, ~stop_flag'
  PROVE  PendingSum'
<1>0. /\ ~stop_flag /\ QueueInv /\ TypeOK /\ HandledIsKnown /\ PendingIsQueued
      /\ pending_scans \in Int
      /\ state_map \in [ScanIds -> RequestState \cup {"NONE"}]
      /\ InFlight # {} => pending_queue # <<>> /\ Front = run_id
  BY StopStays, QueueShapeParts DEF EndInv, QueueInv, TypeInv, TypeOK, SchedulerTypeOK
<1> USE AliveFinite DEF fields, queue_vars
<1>1. ASSUME UNCHANGED queue_vars,
             \A i \in ScanIds : state_map'[i] = "DROPPED" <=> state_map[i] = "DROPPED"
      PROVE  PendingSum'
  <2>1. Alive' = Alive
    BY <1>1 DEF Alive, Queued
  <2> QED
    BY <1>1, <2>1 DEF PendingSum
<1>2. ASSUME NEW c \in Clients, ClientStep(c) PROVE PendingSum'
  <2>1. ASSUME NEW root \in Roots, submit_ok(c, root) PROVE PendingSum'
    BY <1>0, <2>1, SubmitPendingSum
  <2>2. ASSUME NEW id \in ScanIds, cancel_pending(c, id) PROVE PendingSum'
    <3>1. /\ state_map[id] = "PENDING" /\ state_map'[id] = "DROPPED"
          /\ \A i \in ScanIds : i # id => state_map'[i] = state_map[i]
          /\ UNCHANGED <<pending_queue, scan_pending>> /\ pending_scans' = pending_scans - 1
      BY <1>0, <2>2 DEF cancel_pending, set_state
    <3>2. id \in Alive /\ Alive' = Alive \ {id}
      BY <1>0, <3>1 DEF Alive, Queued, PendingIsQueued
    <3>3. Cardinality(Alive') = Cardinality(Alive) - 1
      BY <3>2, FS_RemoveElement
    <3> QED
      BY <3>1, <3>3 DEF PendingSum
  <2>3. CASE gen_scan_id(c) \/ submit_rejected(c)
             \/ \E id \in ScanIds : cancel_running(c, id)
    BY <1>0, <1>1, <2>3 DEF gen_scan_id, submit_rejected, cancel_running, set_state
  <2> QED
    BY <1>2, <2>1, <2>2, <2>3 DEF ClientStep
<1>3. CASE run_skips
  <2>1. PICK id : id = Front
    OBVIOUS
  <2>2. pending_queue # <<>> /\ UNCHANGED state_map
    BY <1>3 DEF run_skips, CanPop, Blocked
  <2> QED
    BY <1>0, <1>3, <2>1, <2>2, PopPendingSum DEF run_skips
<1>4. CASE run_records_running \/ run_records_canceled \/ run_records_failed
  <2>0. PICK id : id = run_id
    OBVIOUS
  <2>1. /\ pending_queue # <<>> /\ Front = run_id
        /\ pop_if_front(run_id) /\ pending_scans' = pending_scans - 1
        /\ state_map[run_id] # "DROPPED"
        /\ \A i \in ScanIds : i # run_id => state_map'[i] = state_map[i]
    BY <1>0, <1>4 DEF HandledIsKnown, run_records_running, run_records_canceled,
       run_records_failed, Returned, leaves_queue, set_state, InFlight
  <2> QED
    BY <1>0, <2>0, <2>1, PopPendingSum
<1>5. CASE run_dispatches \/ run_retries_later
  BY <1>0, <1>1, <1>5 DEF run_dispatches, run_retries_later, Returned, set_state
<1>6. CASE run_finds_done \/ run_cancels \/ run_waits \/ run_exits
  BY <1>1, <1>6 DEF run_finds_done, run_cancels, run_cancel_returns, run_waits, run_exits, Returned
<1>7. CASE ShutdownStep
  BY <1>1, <1>7 DEF ShutdownStep, shutdown_cancels, shutdown_waits_for, shutdown_canceled,
     shutdown_finds_finished, shutdown_waited, shutdown_joined_manager, shutdown_notifies,
     shutdown_stops_manager, sd_goto
<1>8. ASSUME NEW id \in ScanIds, ManagerReports(id) PROVE PendingSum'
  BY <1>0, <1>1, <1>8 DEF ManagerReports, notify_scan_finished
<1>9. CASE ManagerStep
  BY <1>1, <1>8, <1>9 DEF ManagerStep, ManagerTakes, ManagerRefuses, ManagerAnswers,
     start_new_scan_returns, ManagerMakesRoom, notify_dispatch_available, ManagerDrains,
     ManagerExports, notify_export_done, scheduler_vars
<1>10. CASE run_wakes_spuriously \/ (\E c \in Clients : cancel_returns(c)) \/ UNCHANGED vars
  BY <1>1, <1>10 DEF run_wakes_spuriously, cancel_returns, cancel_call_returns, vars,
     scheduler_vars
<1>11. CASE shutdown
  BY <1>0, <1>11 DEF shutdown
<1> QED
  BY <1>2, <1>3, <1>4, <1>5, <1>6, <1>7, <1>9, <1>10, <1>11 DEF Next, ManagerStep, RunLoop, RunStep

(* pending_scans is what is queued and not dropped, and the metric what is *)
(* queued: cancel() and run() between them discount each scan once         *)
(* (scheduler.cpp:84-92, :143-145, :205), so that neither the limit of     *)
(* submit_scan_root() nor the predicate of run() goes wrong.               *)
THEOREM PendingIsCounted == SafeSpec => []PendingAccounting
<1> DEFINE Inv == EndInv /\ (~stop_flag => PendingSum)
<1>1. Init => Inv
  <2> SUFFICES ASSUME Init PROVE Inv
    OBVIOUS
  <2>1. EndInv /\ Alive = {} /\ pending_queue = <<>> /\ pending_scans = 0 /\ scan_pending = 0
    BY InitEnd, EmptySeq DEF Init, SchedulerInit, Alive, Queued
  <2> QED
    BY <2>1, FS_EmptySet, EmptySeq, LenProperties DEF PendingSum
<1>2. Inv /\ [Next]_vars => Inv'
  BY NextEnd, NextPendingSum, StopStays
<1>3. Inv => PendingAccounting
  BY PendingForm, QueueShapeParts DEF EndInv, QueueInv, TypeInv
<1> QED
  BY <1>1, <1>2, <1>3, PTL DEF SafeSpec

-----------------------------------------------------------------------------
(* The lifecycle that clients are shown *)

\* The order of the queue; the abstract `ahead' is that of the scans shown as PENDING.
QueuedBefore(i, j) ==
  \E a, b \in DOMAIN pending_queue : a < b /\ pending_queue[a] = i /\ pending_queue[b] = j

Shown(i) == Public(i) = "PENDING"

LEMMA AheadForm ==
  /\ QueuedAhead = {p \in ScanIds \X ScanIds : Shown(p[1]) /\ Shown(p[2]) /\ QueuedBefore(p[1], p[2])}
  /\ QueuedAhead' = {p \in ScanIds \X ScanIds :
                       Shown(p[1])' /\ Shown(p[2])' /\ QueuedBefore(p[1], p[2])'}
  BY DEF QueuedAhead, Shown, QueuedBefore

\* What is submitted is behind everything that is queued.
LEMMA AppendOrder ==
  ASSUME TypeOK, NEW id \in ScanIds, pending_queue' = Append(pending_queue, id),
         NEW i \in ScanIds, NEW j \in ScanIds
  PROVE  QueuedBefore(i, j)' <=> QueuedBefore(i, j) \/ (Queued(i) /\ j = id)
<1> DEFINE q == pending_queue  r == Append(pending_queue, id)
<1>1. /\ Len(q) \in Nat /\ DOMAIN q = 1 .. Len(q) /\ DOMAIN r = 1 .. Len(q) + 1
      /\ \A k \in 1 .. Len(q) : r[k] = q[k]
      /\ r[Len(q) + 1] = id
  <2>1. /\ q \in Seq(ScanIds) /\ Len(q) \in Nat /\ DOMAIN q = 1 .. Len(q)
        /\ r \in Seq(ScanIds) /\ Len(r) = Len(q) + 1
        /\ \A k \in 1 .. Len(q) : r[k] = q[k]
        /\ r[Len(q) + 1] = id
    BY LenProperties, AppendProperties DEF TypeOK, SchedulerTypeOK
  <2> QED
    BY <2>1, LenProperties
<1>2. QueuedBefore(i, j)' <=> \E a, b \in DOMAIN r : a < b /\ r[a] = i /\ r[b] = j
  BY DEF QueuedBefore
<1>3. QueuedBefore(i, j) <=> \E a, b \in DOMAIN q : a < b /\ q[a] = i /\ q[b] = j
  BY DEF QueuedBefore
<1>4. Queued(i) <=> \E a \in DOMAIN q : q[a] = i
  BY DEF Queued
<1> HIDE DEF q, r
<1>5. ASSUME NEW a \in DOMAIN r, NEW b \in DOMAIN r, a < b, r[a] = i, r[b] = j
      PROVE  \/ \E c, d \in DOMAIN q : c < d /\ q[c] = i /\ q[d] = j
             \/ (\E c \in DOMAIN q : q[c] = i) /\ j = id
  <2>1. a \in DOMAIN q /\ q[a] = i
    BY <1>1, <1>5
  <2>2. CASE b = Len(q) + 1
    BY <1>1, <1>5, <2>1, <2>2
  <2>3. CASE b # Len(q) + 1
    <3>1. b \in DOMAIN q /\ q[b] = j
      BY <1>1, <1>5, <2>3
    <3> QED
      BY <1>5, <2>1, <3>1
  <2> QED
    BY <2>2, <2>3
<1>6. ASSUME NEW c \in DOMAIN q, NEW d \in DOMAIN q, c < d, q[c] = i, q[d] = j
      PROVE  \E a, b \in DOMAIN r : a < b /\ r[a] = i /\ r[b] = j
  <2>1. c \in DOMAIN r /\ d \in DOMAIN r /\ r[c] = i /\ r[d] = j
    BY <1>1, <1>6
  <2> QED
    BY <1>6, <2>1
<1>7. ASSUME NEW c \in DOMAIN q, q[c] = i, j = id
      PROVE  \E a, b \in DOMAIN r : a < b /\ r[a] = i /\ r[b] = j
  <2>1. c \in DOMAIN r /\ Len(q) + 1 \in DOMAIN r /\ c < Len(q) + 1 /\ r[c] = i /\ r[Len(q) + 1] = j
    BY <1>1, <1>7
  <2> QED
    BY <2>1
<1> QED
  BY <1>2, <1>3, <1>4, <1>5, <1>6, <1>7

\* Popping a scan keeps the order of the others.
LEMMA PopOrder ==
  ASSUME TypeOK, NEW id, pop_if_front(id),
         NEW i \in ScanIds, NEW j \in ScanIds, i # id, j # id
  PROVE  QueuedBefore(i, j)' <=> QueuedBefore(i, j)
<1>1. CASE pending_queue = <<>> \/ Front # id
  BY <1>1 DEF pop_if_front, QueuedBefore
<1>2. CASE pending_queue # <<>> /\ Front = id
  <2> DEFINE q == pending_queue  r == Tail(pending_queue)
  <2>1. /\ Len(q) \in Nat /\ DOMAIN q = 1 .. Len(q) /\ DOMAIN r = 1 .. Len(q) - 1
        /\ q[1] = id /\ \A k \in DOMAIN r : r[k] = q[k + 1]
    <3>1. /\ q \in Seq(ScanIds) /\ Len(q) \in Nat /\ DOMAIN q = 1 .. Len(q) /\ q[1] = id
          /\ r \in Seq(ScanIds) /\ Len(r) = Len(q) - 1
          /\ \A k \in 1 .. Len(r) : r[k] = q[k + 1]
      BY <1>2, HeadTailProperties, LenProperties DEF TypeOK, SchedulerTypeOK, Front
    <3> QED
      BY <3>1, LenProperties
  <2>2. QueuedBefore(i, j)' <=> \E a, b \in DOMAIN r : a < b /\ r[a] = i /\ r[b] = j
    BY <1>2 DEF QueuedBefore, pop_if_front
  <2>3. QueuedBefore(i, j) <=> \E a, b \in DOMAIN q : a < b /\ q[a] = i /\ q[b] = j
    BY DEF QueuedBefore
  <2> HIDE DEF q, r
  <2>4. ASSUME NEW a \in DOMAIN r, NEW b \in DOMAIN r, a < b, r[a] = i, r[b] = j
        PROVE  \E c, d \in DOMAIN q : c < d /\ q[c] = i /\ q[d] = j
    <3>1. a + 1 \in DOMAIN q /\ b + 1 \in DOMAIN q /\ a + 1 < b + 1 /\ q[a + 1] = i /\ q[b + 1] = j
      BY <2>1, <2>4
    <3> QED
      BY <3>1
  <2>5. ASSUME NEW c \in DOMAIN q, NEW d \in DOMAIN q, c < d, q[c] = i, q[d] = j
        PROVE  \E a, b \in DOMAIN r : a < b /\ r[a] = i /\ r[b] = j
    <3>1. c - 1 \in DOMAIN r /\ d - 1 \in DOMAIN r /\ c - 1 < d - 1
          /\ (c - 1) + 1 = c /\ (d - 1) + 1 = d
      BY <2>1, <2>5
    <3>2. r[c - 1] = i /\ r[d - 1] = j
      BY <2>1, <2>5, <3>1
    <3> QED
      BY <3>1, <3>2
  <2> QED
    BY <2>2, <2>3, <2>4, <2>5
<1> QED
  BY <1>1, <1>2

LEMMA NothingBeforeFront ==
  ASSUME TypeOK, QueueShape, pending_queue # <<>>
  PROVE  Queued(Front) /\ \A j : ~QueuedBefore(j, Front)
<1>1. /\ DOMAIN pending_queue = 1 .. Len(pending_queue) /\ Len(pending_queue) \in Nat
      /\ 1 \in DOMAIN pending_queue /\ Front = pending_queue[1]
  BY EmptySeq, LenProperties, HeadTailProperties DEF TypeOK, SchedulerTypeOK, Front
<1>2. ASSUME NEW b \in DOMAIN pending_queue, pending_queue[b] = Front PROVE b = 1
  BY <1>1, <1>2 DEF QueueShape
<1>3. ASSUME NEW j, QueuedBefore(j, Front) PROVE FALSE
  <2>1. PICK a, b \in DOMAIN pending_queue : a < b /\ pending_queue[b] = Front
    BY <1>3 DEF QueuedBefore
  <2> QED
    BY <1>1, <1>2, <2>1
<1> QED
  BY <1>1, <1>3 DEF Queued

LifeStep == [Lifecycles!Next]_(Lifecycles!vars)

LEMMA Unseen ==
  ASSUME UNCHANGED PublicState, UNCHANGED QueuedAhead PROVE LifeStep
  BY DEF LifeStep, Lifecycles!vars

\* One scan is shown in another state.
ShownAs(i, to) ==
  /\ i \in ScanIds /\ Public(i)' = to
  /\ \A j \in ScanIds : j # i => Public(j)' = Public(j)

LEMMA OneMoves ==
  ASSUME NEW i, NEW to, ShownAs(i, to)
  PROVE  Lifecycles!Move(i, to)
  BY DEF ShownAs, PublicState, Lifecycles!Move

LEMMA OneLeaves ==
  ASSUME NEW i, NEW to, ShownAs(i, to), to # "PENDING",
         \A j, k \in ScanIds : j # i /\ k # i => (QueuedBefore(j, k)' <=> QueuedBefore(j, k))
  PROVE  QueuedAhead' = Lifecycles!Without(i)
<1>1. /\ ~Shown(i)' /\ \A j \in ScanIds : j # i => (Shown(j)' <=> Shown(j))
  BY DEF ShownAs, Shown
<1>2. QueuedAhead' = {p \in QueuedAhead : p[1] # i /\ p[2] # i}
  BY <1>1, AheadForm DEF ShownAs
<1> QED
  BY <1>2 DEF Lifecycles!Without

LEMMA SameAhead ==
  ASSUME UNCHANGED PublicState,
         \A j, k \in ScanIds : Shown(j) /\ Shown(k) => (QueuedBefore(j, k)' <=> QueuedBefore(j, k))
  PROVE  LifeStep
<1>1. \A j \in ScanIds : Shown(j)' <=> Shown(j)
  BY DEF PublicState, Shown
<1>2. QueuedAhead' = QueuedAhead
  BY <1>1, AheadForm
<1> QED
  BY <1>2, Unseen

LEMMA FrontIsNext ==
  ASSUME TypeOK, QueueShape, pending_queue # <<>>, Shown(Front)
  PROVE  Lifecycles!IsNext(Front)
<1>1. Front \in ScanIds /\ \A j : ~QueuedBefore(j, Front)
  BY FrontIsScan, NothingBeforeFront
<1>2. \A j \in ScanIds : <<j, Front>> \notin QueuedAhead
  BY <1>1, AheadForm
<1> QED
  BY <1>1, <1>2 DEF Lifecycles!IsNext, Lifecycles!Waiting, PublicState, Shown

\* While a scan is DISPATCHING it is the one at the front.
LEMMA DispatchingIsFront ==
  ASSUME CountInv, NEW i \in ScanIds, state_map[i] = "DISPATCHING"
  PROVE  /\ ~stop_flag /\ i \in InFlight /\ i = run_id /\ pending_queue # <<>> /\ i = Front
         /\ InManager(i) \/ mgr[i] = "none"
<1>1. ~stop_flag
  BY DEF CountInv, EndInv, StopEndsScans
<1>2. i \in InFlight /\ (InManager(i) \/ mgr[i] = "none")
  BY <1>1 DEF CountInv, StatesAgree, ManagerAgrees, InManager
<1> QED
  BY <1>1, <1>2, QueueShapeParts DEF CountInv, EndInv, QueueInv, InFlight

LEMMA ShownForm ==
  ASSUME TypeOK, NEW i \in ScanIds
  PROVE  /\ Shown(i) <=> state_map[i] \in {"PENDING", "DISPATCHING"}
         /\ state_map[i] # "DISPATCHING" => Public(i) = state_map[i]
         /\ state_map'[i] # "DISPATCHING" => Public(i)' = state_map'[i]
         /\ state_map'[i] = "DISPATCHING" => Public(i)' = "PENDING"
         /\ state_map'[i] = state_map[i] => Public(i)' = Public(i)
  BY DEF Shown, Public

LEMMA SetShown ==
  ASSUME TypeOK, NEW i \in ScanIds, NEW to, set_state(i, to), to # "DISPATCHING"
  PROVE  ShownAs(i, to)
  BY ShownForm DEF ShownAs, set_state, TypeOK, SchedulerTypeOK

LEMMA SameCardinality ==
  ASSUME NEW S PROVE Lifecycles!Cardinality(S) = Cardinality(S)
  BY DEF Lifecycles!Cardinality, Cardinality

\* run() records a scan that is RUNNING, failed or, by the callback, done.
LEMMA FrontLeaves ==
  ASSUME CountInv, NEW i \in ScanIds, NEW to \in {"RUNNING", "DONE", "FAILED"},
         state_map[i] = "DISPATCHING", ShownAs(i, to), UNCHANGED pending_queue \/ pop_if_front(i),
         to = "RUNNING" => Cardinality({j \in ScanIds : state_map[j] = "RUNNING"}) < MAX_CONCURRENT_SCAN
  PROVE  LifeStep
<1>1. TypeOK /\ QueueShape
  BY DEF CountInv, RootInv, TypeInv, EndInv, QueueInv
<1>2. Lifecycles!IsNext(i)
  BY <1>1, DispatchingIsFront, FrontIsNext, ShownForm
<1>3. \A j, k \in ScanIds : j # i /\ k # i => (QueuedBefore(j, k)' <=> QueuedBefore(j, k))
  <2>1. CASE UNCHANGED pending_queue
    BY <2>1 DEF QueuedBefore
  <2>2. CASE pop_if_front(i)
    BY <1>1, <2>2, PopOrder
  <2> QED
    BY <2>1, <2>2
<1>4. QueuedAhead' = Lifecycles!Without(i) /\ Lifecycles!Move(i, to)
  BY <1>3, OneMoves, OneLeaves
<1>5. to = "RUNNING" =>
        Lifecycles!Cardinality({j \in ScanIds : PublicState[j] = "RUNNING"}) < MAX_CONCURRENT_SCAN
  <2>1. {j \in ScanIds : PublicState[j] = "RUNNING"} = {j \in ScanIds : state_map[j] = "RUNNING"}
    BY DEF PublicState, Public
  <2> QED
    BY <2>1, SameCardinality
<1>6. Lifecycles!Leaves(i, to)
  BY <1>2, <1>4, <1>5 DEF Lifecycles!Leaves
<1>7. Lifecycles!Next
  BY <1>6 DEF Lifecycles!Next
<1> QED
  BY <1>7 DEF LifeStep

\* There is room for the scan that run() counts as running.
LEMMA RoomToRun ==
  ASSUME CountInv, run_records_running
  PROVE  Cardinality({j \in ScanIds : state_map[j] = "RUNNING"}) < MAX_CONCURRENT_SCAN
<1> DEFINE R == {j \in ScanIds : state_map[j] = "RUNNING"}
<1>1. /\ ~stop_flag /\ run_id \in ScanIds /\ state_map[run_id] = "DISPATCHING"
      /\ run_pc = "returned" /\ answer = "accepted"
  <2>1. HandledIsKnown /\ StopEndsScans
    BY DEF CountInv, RootInv, TypeInv, EndInv
  <2> QED
    BY <2>1 DEF run_records_running, Returned, HandledIsKnown, StopEndsScans
<1>2. InManager(run_id)
  <2>1. AnswerAgrees /\ ManagerAgrees(run_id)
    BY <1>1 DEF CountInv, StatesAgree
  <2> QED
    BY <1>1, <2>1 DEF AnswerAgrees, ManagerAgrees, InManager
<1>3. \A j \in R : InManager(j) /\ j # run_id
  BY <1>1 DEF CountInv, StatesAgree, ManagerAgrees
<1>4. R \cup {run_id} \in SUBSET InPool /\ run_id \notin R /\ R \in SUBSET ScanIds
  BY <1>1, <1>2, <1>3 DEF InPool
<1> HIDE DEF R
<1>5. IsFiniteSet(R) /\ Cardinality(R) \in Nat
  BY <1>4, CountedFinite, FS_Subset, FS_CardinalityType
<1>6. Cardinality(R \cup {run_id}) = Cardinality(R) + 1
  BY <1>4, <1>5, FS_AddElement
<1>7. Cardinality(R \cup {run_id}) <= Cardinality(InPool)
  BY <1>4, InPoolFinite, FS_Subset
<1>8. Cardinality(InPool) <= MAX_CONCURRENT_SCAN /\ MAX_CONCURRENT_SCAN \in Nat
  BY LimitsAssumption DEF CountInv, ConcurrencyLimit, InPool
<1>9. Cardinality(R) < MAX_CONCURRENT_SCAN
  BY <1>5, <1>6, <1>7, <1>8, InPoolFinite
<1> QED
  BY <1>9 DEF R

LEMMA NextShown ==
  ASSUME CountInv, [Next]_vars PROVE LifeStep
<1>0. /\ TypeOK /\ HandledIsKnown /\ QueueShape /\ PendingIsQueued /\ StopEndsScans /\ StopEmpties
      /\ state_map \in [ScanIds -> RequestState \cup {"NONE"}]
  BY DEF CountInv, EndInv, QueueInv, TypeInv, TypeOK, SchedulerTypeOK
<1>1. CASE UNCHANGED <<state_map, pending_queue>>
  <2>1. UNCHANGED PublicState /\ UNCHANGED QueuedAhead
    BY <1>1 DEF PublicState, QueuedAhead, Public
  <2> QED
    BY <2>1, Unseen
<1>2. ASSUME NEW c \in Clients, NEW root \in Roots, submit_ok(c, root) PROVE LifeStep
  <2>0. new_id[c] \in ScanIds
    BY <1>0, <1>2, LimitsAssumption DEF submit_ok, ScanIds, TypeOK, SchedulerTypeOK
  <2>1. PICK id \in ScanIds : /\ state_map[id] = "NONE" /\ set_state(id, "PENDING")
                              /\ pending_queue' = Append(pending_queue, id)
    BY <1>2, <2>0 DEF submit_ok, set_state
  <2>2. ShownAs(id, "PENDING") /\ ~Shown(id)
    BY <1>0, <2>1, SetShown, ShownForm
  <2>3. Lifecycles!Move(id, "PENDING") /\ PublicState[id] = "NONE"
    BY <2>1, <2>2, OneMoves DEF PublicState, Public
  <2>4. ASSUME NEW i \in ScanIds, NEW j \in ScanIds
        PROVE  Shown(i)' /\ Shown(j)' /\ QueuedBefore(i, j)' <=>
                 \/ Shown(i) /\ Shown(j) /\ QueuedBefore(i, j)
                 \/ Shown(i) /\ j = id
    <3>1. /\ \A k \in ScanIds : Shown(k)' <=> Shown(k) \/ k = id
          /\ \A k \in ScanIds : Shown(k) => Queued(k)
      <4>1. \A k \in ScanIds : Shown(k)' <=> Shown(k) \/ k = id
        BY <2>2 DEF ShownAs, Shown
      <4>2. \A k \in ScanIds : state_map[k] = "DISPATCHING" => Queued(k)
        BY <1>0, DispatchingIsFront, NothingBeforeFront
      <4> QED
        BY <1>0, <4>1, <4>2, ShownForm DEF PendingIsQueued
    <3>2. QueuedBefore(i, j)' <=> QueuedBefore(i, j) \/ (Queued(i) /\ j = id)
      BY <1>0, <2>1, AppendOrder
    <3>3. ~Queued(id)
      BY <1>0, <2>1 DEF Queued, QueueShape
    <3>4. ~QueuedBefore(i, id) /\ ~QueuedBefore(id, j)
      BY <3>3 DEF QueuedBefore, Queued
    <3> QED
      BY <2>2, <3>1, <3>2, <3>3, <3>4
  <2>5. QueuedAhead' = QueuedAhead \cup ({i \in ScanIds : Shown(i)} \X {id})
    BY <2>1, <2>4, AheadForm
  <2>6. Lifecycles!Waiting = {i \in ScanIds : Shown(i)}
    BY DEF Lifecycles!Waiting, PublicState, Shown
  <2>7. Lifecycles!Submitted(id)
    BY <2>3, <2>5, <2>6 DEF Lifecycles!Submitted
  <2>8. Lifecycles!Next
    BY <2>1, <2>7 DEF Lifecycles!Next
  <2> QED
    BY <2>8 DEF LifeStep
<1>3. ASSUME NEW i \in ScanIds, NEW to, UNCHANGED pending_queue, ShownAs(i, to),
             \/ state_map[i] = "RUNNING" /\ to \in {"DONE", "CANCELED"}
             \/ Shown(i) /\ to \in {"DROPPED", "CANCELED"}
      PROVE  LifeStep
  <2>1. Lifecycles!Move(i, to)
    BY <1>3, OneMoves
  <2>2. \A j, k \in ScanIds : QueuedBefore(j, k)' <=> QueuedBefore(j, k)
    BY <1>3 DEF QueuedBefore
  <2>3. QueuedAhead' = Lifecycles!Without(i)
    BY <1>3, <2>2, OneLeaves
  <2>4. CASE Shown(i) /\ to \in {"DROPPED", "CANCELED"}
    <3>1. Lifecycles!Withdrawn(i, to)
      BY <2>1, <2>3, <2>4 DEF Lifecycles!Withdrawn, PublicState, Shown
    <3>2. Lifecycles!Next
      BY <2>4, <3>1 DEF Lifecycles!Next
    <3> QED
      BY <3>2 DEF LifeStep
  <2>5. CASE state_map[i] = "RUNNING" /\ to \in {"DONE", "CANCELED"}
    <3>1. ~Shown(i) /\ PublicState[i] = "RUNNING"
      BY <2>5 DEF Shown, PublicState, Public
    <3>2. Lifecycles!Without(i) = QueuedAhead
      BY <3>1, AheadForm DEF Lifecycles!Without
    <3>3. Lifecycles!Ends(i, to)
      BY <2>1, <2>3, <3>1, <3>2 DEF Lifecycles!Ends
    <3>4. Lifecycles!Next
      BY <2>5, <3>3 DEF Lifecycles!Next
    <3> QED
      BY <3>4 DEF LifeStep
  <2> QED
    BY <1>3, <2>4, <2>5
<1>4. ASSUME NEW id \in ScanIds, state_map[id] = "DISPATCHING" \/ state_map[id] = "RUNNING",
             state_map' = [state_map EXCEPT ![id] = "DONE"], UNCHANGED pending_queue
      PROVE  LifeStep
  <2>1. ShownAs(id, "DONE")
    BY <1>0, <1>4, SetShown DEF set_state
  <2>2. CASE state_map[id] = "RUNNING"
    BY <1>3, <1>4, <2>1, <2>2
  <2>3. CASE state_map[id] = "DISPATCHING"
    BY <1>4, <2>1, <2>3, FrontLeaves
  <2> QED
    BY <1>4, <2>2, <2>3
<1>5. ASSUME NEW c \in Clients, NEW id \in ScanIds, cancel_running(c, id) \/ cancel_pending(c, id)
      PROVE  LifeStep
  <2>1. CASE cancel_running(c, id)
    <3>1. ShownAs(id, "CANCELED") /\ UNCHANGED pending_queue
      BY <1>0, <2>1, SetShown DEF cancel_running, queue_vars
    <3>2. state_map[id] = "RUNNING" \/ Shown(id)
      BY <1>0, <2>1, ShownForm DEF cancel_running
    <3> QED
      BY <1>3, <3>1, <3>2
  <2>2. CASE cancel_pending(c, id)
    <3>1. ShownAs(id, "DROPPED") /\ UNCHANGED pending_queue
      BY <1>0, <2>2, SetShown DEF cancel_pending
    <3>2. Shown(id)
      BY <1>0, <2>2, ShownForm DEF cancel_pending
    <3> QED
      BY <1>3, <3>1, <3>2
  <2> QED
    BY <1>5, <2>1, <2>2
<1>6. CASE run_dispatches \/ run_retries_later
  <2>1. PICK i \in ScanIds : /\ state_map[i] \in {"PENDING", "DISPATCHING"}
                             /\ state_map' = [state_map EXCEPT ![i] = IF state_map[i] = "PENDING"
                                                                       THEN "DISPATCHING" ELSE "PENDING"]
    <3>1. CASE run_dispatches
      BY <1>0, <3>1, FrontIsScan DEF run_dispatches, set_state, CanPop, Blocked
    <3>2. CASE run_retries_later
      BY <1>0, <3>2 DEF run_retries_later, Returned, set_state, HandledIsKnown
    <3> QED
      BY <1>6, <3>1, <3>2
  <2>2. UNCHANGED PublicState
    BY <1>0, <2>1 DEF PublicState, Public
  <2>3. UNCHANGED pending_queue
    BY <1>6 DEF run_dispatches, run_retries_later, queue_vars
  <2>4. UNCHANGED QueuedAhead
    BY <2>2, <2>3, SameAhead DEF QueuedAhead, PublicState
  <2> QED
    BY <2>2, <2>4, Unseen
<1>7. ASSUME NEW id \in ScanIds, pop_if_front(id), ~Shown(id), UNCHANGED state_map
      PROVE  LifeStep
  <2>1. UNCHANGED PublicState
    BY <1>7 DEF PublicState, Public
  <2>2. \A j, k \in ScanIds : Shown(j) /\ Shown(k) => (QueuedBefore(j, k)' <=> QueuedBefore(j, k))
    BY <1>0, <1>7, PopOrder
  <2> QED
    BY <2>1, <2>2, SameAhead
<1>8. CASE run_skips \/ run_records_canceled
  <2>1. CASE run_skips
    <3>1. Front \in ScanIds /\ run_pc = "loop" /\ state_map[Front] # "PENDING"
      BY <1>0, <2>1, FrontIsScan DEF run_skips, CanPop, Blocked
    <3>2. state_map[Front] # "DISPATCHING"
      BY <3>1, DispatchingIsFront DEF InFlight
    <3> QED
      BY <1>0, <1>7, <2>1, <3>1, <3>2, ShownForm DEF run_skips
  <2>2. CASE run_records_canceled
    <3>1. run_id \in ScanIds /\ state_map[run_id] = "CANCELED"
      BY <1>0, <2>2 DEF run_records_canceled, Returned, HandledIsKnown
    <3> QED
      BY <1>0, <1>7, <2>2, <3>1, ShownForm DEF run_records_canceled, leaves_queue
  <2> QED
    BY <1>8, <2>1, <2>2
<1>9. CASE run_records_running \/ run_records_failed
  <2>1. run_id \in ScanIds /\ state_map[run_id] = "DISPATCHING" /\ pop_if_front(run_id)
    BY <1>0, <1>9 DEF run_records_running, run_records_failed, Returned, HandledIsKnown, leaves_queue
  <2>2. CASE run_records_running
    <3>1. ShownAs(run_id, "RUNNING")
      BY <1>0, <2>1, <2>2, SetShown DEF run_records_running
    <3> QED
      BY <2>1, <2>2, <3>1, FrontLeaves, RoomToRun
  <2>3. CASE run_records_failed
    <3>1. ShownAs(run_id, "FAILED")
      BY <1>0, <2>1, <2>3, SetShown DEF run_records_failed
    <3> QED
      BY <2>1, <3>1, FrontLeaves
  <2> QED
    BY <1>9, <2>2, <2>3
<1>10. CASE shutdown
  <2> DEFINE handed == {i \in ScanIds : state_map[i] = "DISPATCHING"}
  <2>1. handed \in SUBSET {i \in ScanIds : Lifecycles!IsNext(i)}
    <3>1. ASSUME NEW i \in ScanIds, state_map[i] = "DISPATCHING" PROVE Lifecycles!IsNext(i)
      BY <1>0, <3>1, DispatchingIsFront, FrontIsNext, ShownForm
    <3> QED
      BY <3>1
  <2>2. PublicState' = [i \in ScanIds |->
                          IF PublicState[i] = "RUNNING" \/ i \in handed THEN "CANCELED"
                          ELSE IF PublicState[i] = "PENDING" THEN "DROPPED" ELSE PublicState[i]]
    <3>1. ASSUME NEW i \in ScanIds
          PROVE  Public(i)' = IF Public(i) = "RUNNING" \/ i \in handed THEN "CANCELED"
                              ELSE IF Public(i) = "PENDING" THEN "DROPPED" ELSE Public(i)
      <4>1. state_map'[i] = IF state_map[i] \in {"RUNNING", "DISPATCHING", "CANCELED"} THEN "CANCELED"
                            ELSE IF state_map[i] = "PENDING" THEN "DROPPED" ELSE state_map[i]
        BY <1>0, <1>10 DEF shutdown, PendingIsQueued, Queued
      <4> QED
        BY <4>1 DEF Public
    <3> QED
      BY <3>1 DEF PublicState
  <2>3. QueuedAhead' = {}
    <3>1. pending_queue' = <<>> /\ DOMAIN <<>> = {}
      BY <1>10, EmptySeq DEF shutdown
    <3> QED
      BY <3>1 DEF QueuedAhead
  <2> HIDE DEF handed
  <2>4. Lifecycles!ShutDown
    BY <2>1, <2>2, <2>3 DEF Lifecycles!ShutDown
  <2>5. Lifecycles!Next
    BY <2>4 DEF Lifecycles!Next
  <2> QED
    BY <2>5 DEF LifeStep
<1> USE DEF fields, queue_vars
<1>11. ASSUME NEW c \in Clients, ClientStep(c) PROVE LifeStep
  BY <1>1, <1>2, <1>5, <1>11 DEF ClientStep, gen_scan_id, submit_rejected
<1>12. CASE RunLoop
  BY <1>1, <1>6, <1>8, <1>9, <1>12 DEF RunLoop, RunStep, run_waits, run_exits,
     Returned, run_finds_done, run_cancels, run_cancel_returns
<1>13. CASE ShutdownStep
  BY <1>1, <1>13 DEF ShutdownStep, shutdown_cancels, shutdown_waits_for, shutdown_canceled,
     shutdown_finds_finished, shutdown_waited, shutdown_joined_manager, shutdown_notifies,
     shutdown_stops_manager, sd_goto
<1>14. ASSUME NEW id \in ScanIds, ManagerReports(id) PROVE LifeStep
  BY <1>1, <1>4, <1>14 DEF ManagerReports, notify_scan_finished
<1>15. CASE ManagerStep
  BY <1>1, <1>14, <1>15 DEF ManagerStep, ManagerTakes, ManagerRefuses, ManagerAnswers,
     start_new_scan_returns, ManagerMakesRoom, notify_dispatch_available, ManagerDrains,
     ManagerExports, notify_export_done, scheduler_vars
<1>16. CASE run_wakes_spuriously \/ (\E c \in Clients : cancel_returns(c)) \/ UNCHANGED vars
  BY <1>1, <1>16 DEF run_wakes_spuriously, cancel_returns, cancel_call_returns, vars,
     scheduler_vars
<1> QED
  BY <1>10, <1>11, <1>12, <1>13, <1>15, <1>16 DEF Next, ManagerStep

LEMMA InitShown == Init => Lifecycles!Init
<1> SUFFICES ASSUME Init PROVE Lifecycles!Init
  OBVIOUS
<1>1. QueuedAhead = {}
  BY EmptySeq DEF Init, SchedulerInit, QueuedAhead
<1>2. PublicState = [i \in ScanIds |-> "NONE"]
  BY DEF Init, SchedulerInit, PublicState, Public
<1> QED
  BY <1>1, <1>2 DEF Lifecycles!Init

(* What GET /state shows of the scans, in whatever way clients, run(), the *)
(* callbacks and shutdown() interleave, is a behaviour of ScanLifecycle:   *)
(* scans leave the line in the order of submission unless they are         *)
(* withdrawn, at most MAX_CONCURRENT_SCAN of them are RUNNING, an end is   *)
(* final (scheduler.cpp:54-170, :172-344).                                 *)
THEOREM ShowsScanLifecycle == SafeSpec => PublicLifecycle
<1>1. CountInv /\ [Next]_vars => [Lifecycles!Next]_(Lifecycles!vars)
  BY NextShown DEF LifeStep
<1> QED
  BY <1>1, InitShown, InitCount, NextCount, PTL DEF SafeSpec, PublicLifecycle, Lifecycles!Spec

=============================================================================
