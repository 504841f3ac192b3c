----------------------------- MODULE Scheduler ------------------------------
(***************************************************************************)
(* daemon_system/scheduler.cpp: scans are submitted, queued, dispatched to *)
(* the Manager, canceled and shut down.                                    *)
(*                                                                         *)
(* Threads: HTTP workers (Clients) that submit and cancel, the thread of   *)
(* run(), the daemon's main thread in shutdown(), and whatever thread of   *)
(* the Manager calls back.  An action is one section under mtx together    *)
(* with the notify of cv that follows it (only run() ever waits on cv).    *)
(* Calls into the Manager are made without the lock: between the two       *)
(* sections of run() anything can happen to the scan being dispatched.     *)
(*                                                                         *)
(* This module has the fields and the sections; OpenScheduler puts them    *)
(* together with a Manager seen through its interface, ScanControl with    *)
(* the Manager itself.                                                     *)
(***************************************************************************)
EXTENDS Integers, Sequences, FiniteSets

CONSTANTS
  Clients,              \* HTTP worker threads
  Roots,                \* normalized root paths
  Overlap,              \* the pairs that formater::paths_overlap() accepts
  MAX_CONCURRENT_SCAN,
  QUEUE_MAX_SIZE,
  MaxScanId             \* bound: scan ids are 1 .. MaxScanId

ScanIds == 1 .. MaxScanId
NoRoot == "no root"

ASSUME OverlapAssumption == Overlap \subseteq Roots \X Roots
ASSUME LimitsAssumption ==
  /\ MAX_CONCURRENT_SCAN \in Nat \ {0}
  /\ QUEUE_MAX_SIZE \in Nat \ {0}
  /\ MaxScanId \in Nat
ASSUME NoRootAssumption == NoRoot \notin Roots

VARIABLES
  \* the Scheduler's fields, all under mtx
  stop_flag, running_scans, pending_scans, manager_queue_full,
  state_map,      \* RequestState of every scan, "NONE" when not in the map
  root_map,       \* roots that block a new submission
  pending_queue,  \* scan ids; PendingRoot::root is root_of
  root_of,        \* the root each accepted scan was submitted with
  next_scan_id,
  scan_pending,   \* Metrics::scan_pending
  \* threads
  new_id,         \* Clients: id drawn in submit_scan_root(), 0 outside it
  cancel_call,    \* Clients: id whose manager.cancel_scan() is to be called, or 0
  run_pc, run_id, \* run(): where it is, and its local copy `data'
  answer,         \* run(): what start_new_scan() returned
  sd,             \* shutdown(): where it is
  sd_cancels,     \* shutdown(): scans of maybe_running_container to be canceled
  sd_scans,       \* shutdown(): those to be waited for
  sd_now          \* shutdown(): the scan it is waiting for, or 0

clients == <<new_id, cancel_call>>
run_vars == <<run_pc, run_id, answer>>
sd_vars == <<sd, sd_cancels, sd_scans, sd_now>>
queue_vars == <<pending_queue, pending_scans, scan_pending>>
fields == <<stop_flag, running_scans, manager_queue_full, state_map,
            root_map, root_of, next_scan_id, queue_vars>>
scheduler_vars == <<fields, clients, run_vars, sd_vars>>

RequestState == {"PENDING", "DISPATCHING", "RUNNING", "DONE",
                 "CANCELED", "DROPPED", "FAILED"}

SchedulerTypeOK ==
  /\ stop_flag \in BOOLEAN /\ manager_queue_full \in BOOLEAN
  /\ running_scans \in Int /\ pending_scans \in Int /\ scan_pending \in Nat
  /\ state_map \in [ScanIds -> RequestState \cup {"NONE"}]
  /\ root_map \in SUBSET Roots
  /\ pending_queue \in Seq(ScanIds)
  /\ root_of \in [ScanIds -> Roots \cup {NoRoot}]
  /\ next_scan_id \in 1 .. MaxScanId + 1
  /\ new_id \in [Clients -> 0 .. MaxScanId]
  /\ cancel_call \in [Clients -> 0 .. MaxScanId]
  /\ run_pc \in {"loop", "wait", "dispatch", "returned", "cancel", "exit"}
  /\ run_id \in 0 .. MaxScanId
  /\ answer \in {"none", "accepted", "full", "failed"}
  /\ sd \in {"none", "cancel", "wait", "stop_manager", "join_manager", "notify", "done"}
  /\ sd_cancels \in SUBSET ScanIds /\ sd_scans \in SUBSET ScanIds
  /\ sd_now \in 0 .. MaxScanId

SchedulerInit ==
  /\ stop_flag = FALSE /\ manager_queue_full = FALSE
  /\ running_scans = 0 /\ pending_scans = 0 /\ scan_pending = 0
  /\ state_map = [i \in ScanIds |-> "NONE"]
  /\ root_map = {} /\ pending_queue = <<>>
  /\ root_of = [i \in ScanIds |-> NoRoot]
  /\ next_scan_id = 1
  /\ new_id = [c \in Clients |-> 0] /\ cancel_call = [c \in Clients |-> 0]
  /\ run_pc = "loop" /\ run_id = 0 /\ answer = "none"
  /\ sd = "none" /\ sd_cancels = {} /\ sd_scans = {} /\ sd_now = 0

set_state(id, s) == state_map' = [state_map EXCEPT ![id] = s]

\* cv.notify_one and cv.notify_all: run() is the only thread that waits.
wake_run == run_pc' = IF run_pc = "wait" THEN "loop" ELSE run_pc

-----------------------------------------------------------------------------
(* submit_scan_root() *)

\* The id is drawn before mtx is taken; ids of rejected submissions are lost.
gen_scan_id(c) ==
  /\ new_id[c] = 0 /\ cancel_call[c] = 0
  /\ next_scan_id <= MaxScanId
  /\ new_id' = [new_id EXCEPT ![c] = next_scan_id]
  /\ next_scan_id' = next_scan_id + 1
  /\ UNCHANGED <<stop_flag, running_scans, manager_queue_full, state_map, root_map,
                 root_of, queue_vars, cancel_call, run_vars, sd_vars>>

\* Mutant: only the very same root is refused.
check_same_path(root) == root \notin root_map

check_non_overlap_path(root) ==
  root \notin root_map /\ \A r \in root_map : <<root, r>> \notin Overlap

CanSubmit(root) ==
  /\ ~stop_flag
  /\ pending_scans < QUEUE_MAX_SIZE
  /\ check_non_overlap_path(root)

\* 503, 429 or 409 to the client.
submit_rejected(c) ==
  /\ new_id[c] # 0
  /\ \E root \in Roots : ~CanSubmit(root)
  /\ new_id' = [new_id EXCEPT ![c] = 0]
  /\ UNCHANGED <<fields, cancel_call, run_vars, sd_vars>>

\* Mutants: the new scan jumps the queue; run() is not notified.
submit_in_front(c, root) ==
  LET id == new_id[c] IN
  /\ id # 0 /\ state_map[id] = "NONE"
  /\ CanSubmit(root)
  /\ set_state(id, "PENDING")
  /\ root_map' = root_map \cup {root}
  /\ root_of' = [root_of EXCEPT ![id] = root]
  /\ pending_queue' = <<id>> \o pending_queue
  /\ scan_pending' = scan_pending + 1
  /\ pending_scans' = pending_scans + 1
  /\ wake_run
  /\ new_id' = [new_id EXCEPT ![c] = 0]
  /\ UNCHANGED <<stop_flag, running_scans, manager_queue_full, next_scan_id,
                 cancel_call, run_id, answer, sd_vars>>

submit_without_notify(c, root) ==
  LET id == new_id[c] IN
  /\ id # 0 /\ state_map[id] = "NONE"
  /\ CanSubmit(root)
  /\ set_state(id, "PENDING")
  /\ root_map' = root_map \cup {root}
  /\ root_of' = [root_of EXCEPT ![id] = root]
  /\ pending_queue' = Append(pending_queue, id)
  /\ scan_pending' = scan_pending + 1
  /\ pending_scans' = pending_scans + 1
  /\ new_id' = [new_id EXCEPT ![c] = 0]
  /\ UNCHANGED <<stop_flag, running_scans, manager_queue_full, next_scan_id,
                 cancel_call, run_vars, sd_vars>>

submit_ok(c, root) ==
  LET id == new_id[c] IN
  /\ id # 0 /\ state_map[id] = "NONE"
  /\ CanSubmit(root)
  /\ set_state(id, "PENDING")
  /\ root_map' = root_map \cup {root}
  /\ root_of' = [root_of EXCEPT ![id] = root]
  /\ pending_queue' = Append(pending_queue, id)
  /\ scan_pending' = scan_pending + 1
  /\ pending_scans' = pending_scans + 1
  /\ wake_run
  /\ new_id' = [new_id EXCEPT ![c] = 0]
  /\ UNCHANGED <<stop_flag, running_scans, manager_queue_full, next_scan_id,
                 cancel_call, run_id, answer, sd_vars>>

-----------------------------------------------------------------------------
(* run() *)

\* Mutant: the limit on running scans is not looked at.
BlockedByQueueOnly ==
  pending_queue = <<>> \/ pending_scans = 0 \/ manager_queue_full

Blocked ==
  \/ pending_queue = <<>> \/ pending_scans = 0
  \/ manager_queue_full
  \/ running_scans >= MAX_CONCURRENT_SCAN

run_waits ==
  /\ run_pc = "loop" /\ ~stop_flag /\ Blocked
  /\ run_pc' = "wait"
  /\ UNCHANGED <<fields, clients, run_id, answer, sd_vars>>

run_wakes_spuriously ==
  /\ run_pc = "wait" /\ run_pc' = "loop"
  /\ UNCHANGED <<fields, clients, run_id, answer, sd_vars>>

run_exits ==
  /\ run_pc = "loop" /\ stop_flag
  /\ run_pc' = "exit"
  /\ UNCHANGED <<fields, clients, run_id, answer, sd_vars>>

CanPop == run_pc = "loop" /\ ~stop_flag /\ ~Blocked
Front == Head(pending_queue)

\* scan_pending is an unsigned metric: it is only counted down above zero.
count_down(n) == IF n > 0 THEN n - 1 ELSE n

pop_if_front(id) ==
  /\ pending_queue' = IF pending_queue # <<>> /\ Front = id
                        THEN Tail(pending_queue) ELSE pending_queue
  /\ scan_pending' = count_down(scan_pending)

\* Mutant: a DROPPED scan, which cancel() has discounted, is discounted again.
run_skips_and_discounts ==
  /\ CanPop /\ state_map[Front] # "PENDING"
  /\ pop_if_front(Front)
  /\ pending_scans' = pending_scans - 1
  /\ run_id' = Front
  /\ UNCHANGED <<stop_flag, running_scans, manager_queue_full, state_map, root_map,
                 root_of, next_scan_id, clients, run_pc, answer, sd_vars>>

\* DROPPED while it was queued, or DONE before run() could record RUNNING.
run_skips ==
  /\ CanPop /\ state_map[Front] # "PENDING"
  /\ pop_if_front(Front)
  /\ pending_scans' = IF state_map[Front] # "DROPPED" THEN pending_scans - 1
                                                     ELSE pending_scans
  /\ run_id' = Front
  /\ UNCHANGED <<stop_flag, running_scans, manager_queue_full, state_map, root_map,
                 root_of, next_scan_id, clients, run_pc, answer, sd_vars>>

run_dispatches ==
  /\ CanPop /\ state_map[Front] = "PENDING"
  /\ run_id' = Front
  /\ set_state(Front, "DISPATCHING")
  /\ run_pc' = "dispatch"
  /\ UNCHANGED <<stop_flag, running_scans, manager_queue_full, root_map, root_of,
                 next_scan_id, queue_vars, answer, clients, sd_vars>>

\* Back from start_new_scan(), under mtx again.  `next' is where run() goes.
Returned(state, next) ==
  /\ run_pc = "returned" /\ state_map[run_id] = state
  /\ run_pc' = next /\ answer' = "none"
  /\ UNCHANGED <<stop_flag, root_map, root_of, next_scan_id, run_id,
                 clients, sd_vars>>

leaves_queue == pop_if_front(run_id) /\ pending_scans' = pending_scans - 1

run_records_running ==
  /\ Returned("DISPATCHING", "loop") /\ answer = "accepted"
  /\ running_scans' = running_scans + 1
  /\ set_state(run_id, "RUNNING")
  /\ leaves_queue
  /\ UNCHANGED manager_queue_full

run_records_canceled ==
  /\ Returned("CANCELED", IF answer = "accepted" THEN "cancel" ELSE "loop")
  /\ leaves_queue
  /\ running_scans' = IF answer = "accepted" THEN running_scans + 1 ELSE running_scans
  /\ UNCHANGED <<state_map, manager_queue_full>>

\* Mutant: the scan is queued again although it never left the queue.
run_queues_again ==
  /\ Returned("DISPATCHING", "loop") /\ answer = "full"
  /\ manager_queue_full' = TRUE
  /\ set_state(run_id, "PENDING")
  /\ pending_queue' = Append(pending_queue, run_id)
  /\ UNCHANGED <<running_scans, pending_scans, scan_pending>>

run_retries_later ==
  /\ Returned("DISPATCHING", "loop") /\ answer = "full"
  /\ manager_queue_full' = TRUE
  /\ set_state(run_id, "PENDING")
  /\ UNCHANGED <<running_scans, queue_vars>>

run_records_failed ==
  /\ Returned("DISPATCHING", "loop") /\ answer = "failed"
  /\ leaves_queue
  /\ set_state(run_id, "FAILED")
  /\ UNCHANGED <<running_scans, manager_queue_full>>

\* The scan finished between the two sections: popped by run_skips next time.
run_finds_done ==
  /\ Returned("DONE", "loop")
  /\ UNCHANGED <<running_scans, state_map, manager_queue_full, queue_vars>>

\* cancel_after_manager_accept: back from manager.cancel_scan().
run_cancel_returns ==
  /\ run_pc = "cancel" /\ run_pc' = "loop"
  /\ UNCHANGED <<fields, clients, run_id, answer, sd_vars>>

-----------------------------------------------------------------------------
(* cancel() *)

cancel_running(c, id) ==
  /\ new_id[c] = 0 /\ cancel_call[c] = 0
  /\ state_map[id] \in {"RUNNING", "DISPATCHING"}
  /\ set_state(id, "CANCELED")
  /\ cancel_call' = [cancel_call EXCEPT ![c] = id]
  /\ UNCHANGED <<stop_flag, running_scans, manager_queue_full, root_map, root_of,
                 next_scan_id, queue_vars, new_id, run_vars, sd_vars>>

cancel_pending(c, id) ==
  /\ new_id[c] = 0 /\ cancel_call[c] = 0
  /\ state_map[id] = "PENDING"
  /\ set_state(id, "DROPPED")
  /\ pending_scans' = pending_scans - 1
  /\ UNCHANGED <<stop_flag, running_scans, manager_queue_full, root_map, root_of,
                 next_scan_id, pending_queue, scan_pending, clients, run_vars,
                 sd_vars>>

\* manager.cancel_scan(), called after the unlock, has returned.
cancel_call_returns(c) ==
  /\ cancel_call[c] # 0
  /\ cancel_call' = [cancel_call EXCEPT ![c] = 0]
  /\ UNCHANGED <<fields, new_id, run_vars, sd_vars>>

-----------------------------------------------------------------------------
(* shutdown(), called once by the daemon's main thread *)

shutdown ==
  /\ sd = "none" /\ sd' = "cancel"
  /\ stop_flag' = TRUE
  /\ sd_scans' = {i \in ScanIds : state_map[i] \in {"RUNNING", "DISPATCHING", "CANCELED"}}
  /\ sd_cancels' = sd_scans'
  /\ state_map' = [i \in ScanIds |->
       IF i \in sd_scans' THEN "CANCELED"
       ELSE IF state_map[i] = "PENDING" /\ \E k \in DOMAIN pending_queue : pending_queue[k] = i
         THEN "DROPPED" ELSE state_map[i]]
  /\ pending_queue' = <<>> /\ scan_pending' = 0 /\ pending_scans' = 0
  /\ UNCHANGED <<running_scans, manager_queue_full, root_map, root_of,
                 next_scan_id, clients, run_vars, sd_now>>

sd_goto(from, to) ==
  /\ sd = from /\ sd' = to
  /\ UNCHANGED <<fields, clients, run_id, answer, sd_cancels, sd_scans, sd_now>>

\* manager.cancel_scan() is called on every scan collected,
shutdown_cancels(id) ==
  /\ sd = "cancel" /\ id \in sd_cancels
  /\ sd_cancels' = sd_cancels \ {id}
  /\ UNCHANGED <<fields, clients, run_vars, sd, sd_scans, sd_now>>

shutdown_canceled == sd_cancels = {} /\ sd_goto("cancel", "wait") /\ UNCHANGED run_pc

\* then manager.wait_to_finish(), on one after the other in the map's order.
shutdown_waits_for(id) ==
  /\ sd = "wait" /\ sd_now = 0 /\ id \in sd_scans
  /\ sd_now' = id
  /\ sd_scans' = sd_scans \ {id}
  /\ UNCHANGED <<fields, clients, run_vars, sd, sd_cancels>>

shutdown_finds_finished ==
  /\ sd = "wait" /\ sd_now # 0
  /\ sd_now' = 0
  /\ UNCHANGED <<fields, clients, run_vars, sd, sd_cancels, sd_scans>>

shutdown_waited ==
  sd_scans = {} /\ sd_now = 0 /\ sd_goto("wait", "stop_manager") /\ UNCHANGED run_pc

\* manager.shutdown() stops the pool, then joins its workers.
shutdown_stops_manager == sd_goto("stop_manager", "join_manager") /\ UNCHANGED run_pc
shutdown_joined_manager == sd_goto("join_manager", "notify") /\ UNCHANGED run_pc

\* Mutant: run() is not woken.
shutdown_is_silent == sd_goto("notify", "done") /\ UNCHANGED run_pc

shutdown_notifies == sd_goto("notify", "done") /\ wake_run

-----------------------------------------------------------------------------
(* What the Manager calls or returns *)

start_new_scan_returns(a) ==
  /\ run_pc = "dispatch" /\ run_pc' = "returned" /\ answer' = a
  /\ UNCHANGED <<fields, clients, run_id, sd_vars>>

\* Mutants: a canceled scan is not counted down; a canceled scan becomes DONE.
finished_only_if_running(id) ==
  /\ running_scans' = IF state_map[id] = "RUNNING" THEN running_scans - 1 ELSE running_scans
  /\ state_map' = IF state_map[id] \in {"RUNNING", "DISPATCHING"}
                    THEN [state_map EXCEPT ![id] = "DONE"] ELSE state_map
  /\ wake_run
  /\ UNCHANGED <<stop_flag, manager_queue_full, root_map, root_of, next_scan_id,
                 queue_vars, clients, run_id, answer, sd_vars>>

finished_is_done(id) ==
  /\ running_scans' = IF state_map[id] \in {"RUNNING", "CANCELED"}
                        THEN running_scans - 1 ELSE running_scans
  /\ set_state(id, "DONE")
  /\ wake_run
  /\ UNCHANGED <<stop_flag, manager_queue_full, root_map, root_of, next_scan_id,
                 queue_vars, clients, run_id, answer, sd_vars>>

notify_scan_finished(id) ==
  /\ running_scans' = IF state_map[id] \in {"RUNNING", "CANCELED"}
                        THEN running_scans - 1 ELSE running_scans
  /\ state_map' = IF state_map[id] \in {"RUNNING", "DISPATCHING"}
                    THEN [state_map EXCEPT ![id] = "DONE"] ELSE state_map
  /\ wake_run
  /\ UNCHANGED <<stop_flag, manager_queue_full, root_map, root_of, next_scan_id,
                 queue_vars, clients, run_id, answer, sd_vars>>

notify_dispatch_available ==
  /\ manager_queue_full' = FALSE
  /\ wake_run
  /\ UNCHANGED <<stop_flag, running_scans, state_map, root_map, root_of, next_scan_id,
                 queue_vars, clients, run_id, answer, sd_vars>>

notify_export_done(root) ==
  /\ root_map' = root_map \ {root}
  /\ UNCHANGED <<stop_flag, running_scans, manager_queue_full, state_map, root_of,
                 next_scan_id, queue_vars, clients, run_vars, sd_vars>>

-----------------------------------------------------------------------------
(* The steps of each thread that involve the Scheduler alone *)

ClientStep(c) ==
  \/ gen_scan_id(c) \/ submit_rejected(c)
  \/ \E root \in Roots : submit_ok(c, root)
  \/ \E id \in ScanIds : cancel_running(c, id) \/ cancel_pending(c, id)

RunStep ==
  \/ run_waits \/ run_exits \/ run_skips \/ run_dispatches
  \/ run_records_running \/ run_records_canceled \/ run_retries_later
  \/ run_records_failed \/ run_finds_done

\* The scan that run() has handed to start_new_scan() and not recorded yet.
InFlight == IF run_pc \in {"dispatch", "returned"} THEN {run_id} ELSE {}

=============================================================================
