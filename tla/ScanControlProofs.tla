-------------------------- MODULE ScanControlProofs ---------------------------
(***************************************************************************)
(* Proofs about the Scheduler and the Manager together, for any number of  *)
(* workers, slots, scans and jobs: the counting of unfinished jobs, the    *)
(* registry and the one end of each scan; and that the Manager of the code *)
(* keeps the interface that OpenScheduler assumes, so that what is proved  *)
(* of the Scheduler there holds with this Manager: the limit of the pool,  *)
(* the roots kept apart and the lifecycle that clients are shown.          *)
(***************************************************************************)
EXTENDS ScanControl, SequenceTheorems, FiniteSetTheorems, TLAPS

-----------------------------------------------------------------------------
(* Counting jobs *)

LEMMA JobsOfElements ==
  ASSUME NEW f
  PROVE  /\ \A t, n : <<t, n>> \in JobsOf(f) <=> t \in DOMAIN f /\ n \in 1 .. f[t]
         /\ \A x \in JobsOf(f) : x = <<x[1], x[2]>>
BY DEF JobsOf

LEMMA OneJobMore ==
  ASSUME NEW T, NEW f \in [T -> Nat], NEW g \in [T -> Nat], NEW t \in T,
         g[t] = f[t] + 1, \A u \in T : u # t => g[u] = f[u]
  PROVE  JobsOf(g) = JobsOf(f) \cup {<<t, g[t]>>} /\ <<t, g[t]>> \notin JobsOf(f)
<1>1. \A n : n \in 1 .. g[t] <=> n \in 1 .. f[t] \/ n = g[t]
  BY f[t] \in Nat
<1>2. \A u, n : <<u, n>> \in JobsOf(g) <=> <<u, n>> \in JobsOf(f) \/ <<u, n>> = <<t, g[t]>>
  BY <1>1, JobsOfElements
<1>3. ASSUME NEW x PROVE x \in JobsOf(g) <=> x \in JobsOf(f) \/ x = <<t, g[t]>>
  <2>1. ASSUME x \in JobsOf(g) \/ x \in JobsOf(f) PROVE x = <<x[1], x[2]>>
    BY <2>1, JobsOfElements
  <2> QED
    BY <1>2, <2>1
<1>4. <<t, g[t]>> \notin JobsOf(f)
  BY JobsOfElements, f[t] \in Nat
<1> QED
  BY <1>3, <1>4

\* d: by how much one thread's number of jobs changes.
LEMMA CountOfJobs ==
  ASSUME NEW T, NEW f \in [T -> Nat], NEW g \in [T -> Nat], NEW t \in T,
         NEW d \in {-1, 0, 1}, g[t] = f[t] + d, \A u \in T : u # t => g[u] = f[u],
         IsFiniteSet(JobsOf(f))
  PROVE  /\ IsFiniteSet(JobsOf(g))
         /\ Cardinality(JobsOf(g)) = Cardinality(JobsOf(f)) + d
<1>0. f[t] \in Nat /\ g[t] \in Nat
  OBVIOUS
<1>1. CASE d = 1
  <2>1. JobsOf(g) = JobsOf(f) \cup {<<t, g[t]>>} /\ <<t, g[t]>> \notin JobsOf(f)
    BY <1>1, OneJobMore
  <2> QED
    BY <1>1, <2>1, FS_AddElement
<1>2. CASE d = -1
  <2>0. f[t] = g[t] + 1
    BY <1>0, <1>2
  <2>1. JobsOf(f) = JobsOf(g) \cup {<<t, f[t]>>} /\ <<t, f[t]>> \notin JobsOf(g)
    BY <2>0, OneJobMore
  <2>2. JobsOf(g) = JobsOf(f) \ {<<t, f[t]>>} /\ <<t, f[t]>> \in JobsOf(f)
    BY <2>1
  <2>3. Cardinality(JobsOf(g)) = Cardinality(JobsOf(f)) - 1 /\ IsFiniteSet(JobsOf(g))
    BY ZenonT(30), <2>2, FS_RemoveElement
  <2> QED
    BY <1>2, <2>3, FS_CardinalityType
<1>3. CASE d = 0
  <2>1. \A u \in T : g[u] = f[u]
    BY <1>0, <1>3
  <2>2. g = f
    BY <2>1
  <2> QED
    BY <1>3, <2>2, FS_CardinalityType
<1> QED
  BY <1>1, <1>2, <1>3

\* The places of a scan's jobs in a queue.
PlacesIn(q, id) == {k \in DOMAIN q : q[k] = id}

LEMMA PlacesAreFinite ==
  ASSUME NEW S, NEW q \in Seq(S), NEW id
  PROVE  IsFiniteSet(PlacesIn(q, id)) /\ Cardinality(PlacesIn(q, id)) \in Nat
<1>1. DOMAIN q = 1 .. Len(q) /\ Len(q) \in Nat
  BY LenProperties
<1>2. IsFiniteSet(1 .. Len(q)) /\ PlacesIn(q, id) \in SUBSET (1 .. Len(q))
  BY <1>1, FS_Interval DEF PlacesIn
<1> QED
  BY <1>2, FS_Subset, FS_CardinalityType

LEMMA PlacesAfterAppend ==
  ASSUME NEW S, NEW q \in Seq(S), NEW x \in S, NEW id
  PROVE  Cardinality(PlacesIn(Append(q, x), id))
           = Cardinality(PlacesIn(q, id)) + (IF x = id THEN 1 ELSE 0)
<1>1. /\ Len(q) \in Nat /\ DOMAIN q = 1 .. Len(q)
      /\ Len(Append(q, x)) = Len(q) + 1 /\ Append(q, x) \in Seq(S)
      /\ \A k \in 1 .. Len(q) : Append(q, x)[k] = q[k]
      /\ Append(q, x)[Len(q) + 1] = x
  BY LenProperties, AppendProperties
<1>2. DOMAIN Append(q, x) = 1 .. Len(q) + 1
  BY <1>1, LenProperties
<1>3. Len(q) + 1 \notin PlacesIn(q, id)
  BY <1>1 DEF PlacesIn
<1>4. PlacesIn(Append(q, x), id)
        = IF x = id THEN PlacesIn(q, id) \cup {Len(q) + 1} ELSE PlacesIn(q, id)
  <2>1. ASSUME NEW k
        PROVE  k \in DOMAIN Append(q, x) <=> k \in DOMAIN q \/ k = Len(q) + 1
    BY <1>1, <1>2
  <2>2. \A k \in DOMAIN q : k # Len(q) + 1 /\ Append(q, x)[k] = q[k]
    BY <1>1
  <2> QED
    BY <1>1, <2>1, <2>2 DEF PlacesIn
<1>5. IsFiniteSet(PlacesIn(q, id)) /\ Cardinality(PlacesIn(q, id)) \in Nat
  BY PlacesAreFinite
<1>6. CASE x = id
  BY <1>3, <1>4, <1>5, <1>6, FS_AddElement
<1>7. CASE x # id
  BY <1>4, <1>5, <1>7
<1> QED
  BY <1>6, <1>7

LEMMA PlacesAfterPop ==
  ASSUME NEW S, NEW q \in Seq(S), q # <<>>, NEW id
  PROVE  /\ SubSeq(q, 1, Len(q) - 1) \in Seq(S)
         /\ Len(q) \in Nat \ {0} /\ q[Len(q)] \in S
         /\ Len(SubSeq(q, 1, Len(q) - 1)) = Len(q) - 1
         /\ \A k \in DOMAIN SubSeq(q, 1, Len(q) - 1) :
              k \in DOMAIN q /\ SubSeq(q, 1, Len(q) - 1)[k] = q[k]
         /\ Cardinality(PlacesIn(SubSeq(q, 1, Len(q) - 1), id))
              = Cardinality(PlacesIn(q, id)) - (IF q[Len(q)] = id THEN 1 ELSE 0)
<1> DEFINE n == Len(q)  r == SubSeq(q, 1, n - 1)
<1>1. /\ n \in Nat /\ n > 0 /\ DOMAIN q = 1 .. n /\ \A k \in 1 .. n : q[k] \in S
  BY EmptySeq, LenProperties, ElementOfSeq
<1>2. r \in Seq(S) /\ Len(r) = n - 1 /\ \A k \in 1 .. n - 1 : r[k] = q[k]
  <2>1. /\ r \in Seq(S) /\ Len(r) = (IF 1 <= n - 1 THEN (n - 1) - 1 + 1 ELSE 0)
        /\ \A k \in 1 .. (n - 1) - 1 + 1 : r[k] = q[1 + k - 1]
    <3>1. \A i \in 1 .. n - 1 : q[i] \in S
      BY <1>1
    <3>2. 1 \in Int /\ n - 1 \in Int
      BY <1>1
    <3> HIDE DEF n
    <3> DEFINE m == n - 1
    <3>3. m \in Int /\ \A i \in 1 .. m : q[i] \in S
      BY <3>1, <3>2
    <3> HIDE DEF m
    <3>4. /\ SubSeq(q, 1, m) \in Seq(S)
          /\ Len(SubSeq(q, 1, m)) = (IF 1 <= m THEN m - 1 + 1 ELSE 0)
          /\ \A i \in 1 .. m - 1 + 1 : SubSeq(q, 1, m)[i] = q[1 + i - 1]
      BY <3>3, SubSeqProperties
    <3> QED
      BY <3>4 DEF m
  <2>2. (IF 1 <= n - 1 THEN (n - 1) - 1 + 1 ELSE 0) = n - 1 /\ (n - 1) - 1 + 1 = n - 1
    BY <1>1
  <2>3. \A k \in 1 .. n - 1 : 1 + k - 1 = k
    BY <1>1
  <2> HIDE DEF n, r
  <2> QED
    BY <2>1, <2>2, <2>3
<1>3. DOMAIN r = 1 .. n - 1
  BY <1>2, LenProperties
<1> HIDE DEF n, r
<1>4. \A k : k \in DOMAIN r <=> k \in DOMAIN q /\ k # n
  BY <1>1, <1>3
<1>5. \A k \in DOMAIN r : r[k] = q[k]
  BY <1>2, <1>3
<1>6. n \in DOMAIN q
  BY <1>1
<1>7. PlacesIn(r, id) = PlacesIn(q, id) \ {n} /\ (n \in PlacesIn(q, id) <=> q[n] = id)
  BY <1>4, <1>5, <1>6 DEF PlacesIn
<1>8. Cardinality(PlacesIn(r, id))
        = Cardinality(PlacesIn(q, id)) - (IF q[n] = id THEN 1 ELSE 0)
  <2>1. IsFiniteSet(PlacesIn(q, id)) /\ Cardinality(PlacesIn(q, id)) \in Nat
    BY PlacesAreFinite
  <2>2. CASE q[n] = id
    BY <1>7, <2>1, <2>2, FS_RemoveElement
  <2>3. CASE q[n] # id
    <3>1. PlacesIn(r, id) = PlacesIn(q, id)
      BY <1>7, <2>3
    <3> QED
      BY <2>1, <2>3, <3>1
  <2> QED
    BY <2>2, <2>3
<1> QED
  BY <1>1, <1>2, <1>4, <1>5, <1>8 DEF n, r

-----------------------------------------------------------------------------
(* The Scheduler's part, as far as the Manager depends on it *)

SchedulerTypes ==
  /\ state_map \in [ScanIds -> RequestState \cup {"NONE"}]
  /\ pending_queue \in Seq(ScanIds)
  /\ new_id \in [Clients -> 0 .. MaxScanId] /\ next_scan_id \in 1 .. MaxScanId + 1
  /\ run_pc \in {"dispatch", "returned"} => run_id \in ScanIds
  /\ sd_now \in 0 .. MaxScanId

\* Given to the Manager, or past that.
Settled(id) == state_map[id] \notin {"NONE", "PENDING"}

\* A step of the Scheduler, not into or out of start_new_scan().
Calm ==
  /\ \A i \in ScanIds : Settled(i) => Settled(i)'
  /\ run_pc' \in {"dispatch", "returned"} => UNCHANGED <<run_pc, run_id, answer>>
  /\ run_pc = "dispatch" => run_pc' = "dispatch"

LEMMA ScanIdsNat == ScanIds \subseteq Nat /\ MaxScanId \in Nat /\ 0 \notin ScanIds
  BY LimitsAssumption DEF ScanIds

LEMMA FrontIsScan ==
  ASSUME SchedulerTypes, pending_queue # <<>>
  PROVE  Front \in ScanIds /\ Tail(pending_queue) \in Seq(ScanIds)
  BY HeadTailProperties DEF SchedulerTypes, Front

LEMMA PopType ==
  ASSUME SchedulerTypes, NEW id, pop_if_front(id)
  PROVE  pending_queue' \in Seq(ScanIds)
  BY FrontIsScan DEF pop_if_front, SchedulerTypes

LEMMA InitScheduler == SchedulerInit => SchedulerTypes
<1> SUFFICES ASSUME SchedulerInit PROVE SchedulerTypes
  OBVIOUS
<1>1. pending_queue \in Seq(ScanIds)
  BY EmptySeq DEF SchedulerInit
<1>2. state_map \in [ScanIds -> RequestState \cup {"NONE"}]
  BY DEF SchedulerInit
<1>3. new_id \in [Clients -> 0 .. MaxScanId] /\ next_scan_id \in 1 .. MaxScanId + 1
  BY LimitsAssumption DEF SchedulerInit
<1>4. sd_now \in 0 .. MaxScanId
  BY LimitsAssumption DEF SchedulerInit
<1> QED
  BY <1>1, <1>2, <1>3, <1>4 DEF SchedulerInit, SchedulerTypes

LEMMA ClientIsCalm ==
  ASSUME SchedulerTypes, NEW c \in Clients, ClientStep(c) \/ cancel_call_returns(c)
  PROVE  SchedulerTypes' /\ Calm
<1> USE ScanIdsNat DEF SchedulerTypes, Calm, Settled, fields, run_vars, sd_vars, queue_vars
<1>1. CASE gen_scan_id(c)
  BY <1>1, LimitsAssumption DEF gen_scan_id
<1>2. CASE submit_rejected(c) \/ cancel_call_returns(c)
  BY <1>2 DEF submit_rejected, cancel_call_returns
<1>3. ASSUME NEW root \in Roots, submit_ok(c, root) PROVE SchedulerTypes' /\ Calm
  <2>1. new_id[c] \in ScanIds /\ new_id' \in [Clients -> 0 .. MaxScanId]
    BY <1>3, LimitsAssumption DEF submit_ok, ScanIds
  <2>2. pending_queue' \in Seq(ScanIds)
    BY <1>3, <2>1, AppendProperties DEF submit_ok
  <2>3. /\ state_map' \in [ScanIds -> RequestState \cup {"NONE"}]
        /\ \A i \in ScanIds : Settled(i) => state_map'[i] = state_map[i]
    BY <1>3, <2>1 DEF submit_ok, set_state, RequestState
  <2>4. run_pc' = IF run_pc = "wait" THEN "loop" ELSE run_pc
    BY <1>3 DEF submit_ok, wake_run
  <2> QED
    BY <1>3, <2>1, <2>2, <2>3, <2>4 DEF submit_ok
<1>4. ASSUME NEW id \in ScanIds, cancel_running(c, id) \/ cancel_pending(c, id)
      PROVE  SchedulerTypes' /\ Calm
  <2>1. /\ state_map' \in [ScanIds -> RequestState \cup {"NONE"}]
        /\ \A i \in ScanIds : Settled(i) => Settled(i)'
    BY <1>4 DEF cancel_running, cancel_pending, set_state, RequestState
  <2> QED
    BY <1>4, <2>1 DEF cancel_running, cancel_pending, clients
<1> QED
  BY <1>1, <1>2, <1>3, <1>4 DEF ClientStep

LEMMA RunIsCalm ==
  ASSUME SchedulerTypes, RunStep \/ run_cancel_returns
  PROVE  SchedulerTypes' /\ (Calm \/ run_dispatches \/ run_retries_later)
<1> USE ScanIdsNat DEF SchedulerTypes, Calm, Settled, fields, clients, sd_vars, queue_vars
<1>1. CASE run_waits \/ run_exits \/ run_cancel_returns
  BY <1>1 DEF run_waits, run_exits, run_cancel_returns
<1>2. CASE run_skips
  BY <1>2, PopType DEF run_skips, CanPop
<1>3. CASE run_dispatches
  <2>1. Front \in ScanIds
    BY <1>3, FrontIsScan DEF run_dispatches, CanPop, Blocked
  <2> QED
    BY <1>3, <2>1 DEF run_dispatches, set_state, RequestState
<1>4. ASSUME NEW s, NEW next \in {"loop", "cancel"}, Returned(s, next),
             UNCHANGED state_map \/ \E t \in RequestState \ {"PENDING"} : set_state(run_id, t),
             UNCHANGED queue_vars \/ leaves_queue
      PROVE  SchedulerTypes' /\ Calm
  <2>1. pending_queue' \in Seq(ScanIds)
    BY <1>4, PopType DEF leaves_queue
  <2>2. /\ state_map' \in [ScanIds -> RequestState \cup {"NONE"}]
        /\ \A i \in ScanIds : Settled(i) => Settled(i)'
    BY <1>4 DEF set_state, RequestState
  <2>3. run_pc = "returned" /\ run_pc' \in {"loop", "cancel"} /\ UNCHANGED <<new_id, next_scan_id, sd_now>>
    BY <1>4 DEF Returned
  <2> QED
    BY <2>1, <2>2, <2>3
<1>5. CASE run_records_running \/ run_records_canceled \/ run_records_failed \/ run_finds_done
  BY <1>4, <1>5 DEF run_records_running, run_records_canceled, run_records_failed,
     run_finds_done, RequestState
<1>6. CASE run_retries_later
  BY <1>6 DEF run_retries_later, Returned, set_state, RequestState
<1> QED
  BY <1>1, <1>2, <1>3, <1>5, <1>6 DEF RunStep

LEMMA ShutdownIsCalm ==
  ASSUME SchedulerTypes,
         \/ shutdown \/ shutdown_canceled \/ shutdown_waited \/ shutdown_notifies
         \/ shutdown_finds_finished \/ shutdown_stops_manager \/ shutdown_joined_manager
         \/ \E id \in ScanIds : shutdown_cancels(id) \/ shutdown_waits_for(id)
  PROVE  SchedulerTypes' /\ Calm
<1> USE LimitsAssumption DEF SchedulerTypes, Calm, Settled, fields, clients, run_vars, queue_vars, ScanIds
<1>1. CASE shutdown
  <2>1. state_map' \in [ScanIds -> RequestState \cup {"NONE"}]
    BY <1>1 DEF shutdown, RequestState
  <2>2. \A i \in ScanIds : Settled(i) => Settled(i)'
    BY <1>1 DEF shutdown
  <2> QED
    BY <1>1, <2>1, <2>2, EmptySeq DEF shutdown
<1>2. CASE \/ shutdown_canceled \/ shutdown_waited \/ shutdown_notifies
           \/ shutdown_stops_manager \/ shutdown_joined_manager
  BY <1>2 DEF shutdown_canceled, shutdown_waited, shutdown_notifies, shutdown_stops_manager,
     shutdown_joined_manager, sd_goto, wake_run
<1>3. CASE shutdown_finds_finished \/ \E id \in ScanIds : shutdown_cancels(id) \/ shutdown_waits_for(id)
  BY <1>3 DEF shutdown_finds_finished, shutdown_cancels, shutdown_waits_for
<1> QED
  BY <1>1, <1>2, <1>3

LEMMA CallbackIsCalm ==
  ASSUME SchedulerTypes,
         \/ notify_dispatch_available \/ run_wakes_spuriously
         \/ \E id : notify_scan_finished(id) \/ notify_export_done(id)
         \/ UNCHANGED scheduler_vars
  PROVE  SchedulerTypes' /\ Calm
<1> USE DEF SchedulerTypes, Calm, Settled, fields, clients, run_vars, sd_vars, queue_vars, scheduler_vars
<1>1. ASSUME NEW id, notify_scan_finished(id) PROVE SchedulerTypes' /\ Calm
  <2>1. /\ state_map' \in [ScanIds -> RequestState \cup {"NONE"}]
        /\ \A i \in ScanIds : Settled(i) => Settled(i)'
    BY <1>1 DEF notify_scan_finished, RequestState
  <2> QED
    BY <1>1, <2>1 DEF notify_scan_finished, wake_run
<1>2. ASSUME NEW id, notify_export_done(id) PROVE SchedulerTypes' /\ Calm
  BY <1>2 DEF notify_export_done
<1>3. CASE notify_dispatch_available \/ run_wakes_spuriously \/ UNCHANGED scheduler_vars
  BY <1>3 DEF notify_dispatch_available, run_wakes_spuriously, wake_run
<1> QED
  BY <1>1, <1>2, <1>3

\* What the Scheduler's threads and the waiting do in the Manager.
Quiet ==
  /\ UNCHANGED <<registry, unfinished_jobs, dispatch_failed, scan_jobs_unfinished, jobs,
                 thread_vars, tree_vars, sentinels>>
  /\ canceled \subseteq canceled' /\ canceled' \ canceled \subseteq registry
  /\ pool_stop => pool_stop'

LEMMA QuietSteps ==
  ASSUME \/ UNCHANGED manager_vars \/ stop_pool \/ wait_sleeps
         \/ \E id : cancel_scan(id) \/ wait_checks(id) \/ wait_ends(id)
         \/ UNCHANGED <<registry, ctx_vars, dispatch_failed, scan_jobs_unfinished,
                        pool_vars, thread_vars, tree_vars, sentinels>>
  PROVE  Quiet
BY DEF Quiet, manager_vars, ctx_vars, pool_vars, thread_vars, tree_vars, stop_pool, wait_sleeps,
   cancel_scan, wait_checks, wait_ends

(* Every step of the system, sorted by what it does to the two parts.      *)
SchedulerMoves == Calm /\ Quiet /\ UNCHANGED history
RunDecides == (run_dispatches \/ run_retries_later) /\ UNCHANGED <<manager_vars, history>>
WorkerMoves == \E w \in Workers : JobStep(w) /\ UNCHANGED <<scheduler_vars, history>>

LEMMA StepsSorted ==
  ASSUME SchedulerTypes, [Next]_vars
  PROVE  \/ SchedulerMoves \/ RunDecides \/ WorkerMoves
         \/ Starts \/ RootQueued \/ StartReturns \/ StartThrows
         \/ \E t \in ManagerThreads : Finish(t)
<1>1. CASE UNCHANGED vars
  BY <1>1, CallbackIsCalm, QuietSteps DEF vars, SchedulerMoves
<1>2. ASSUME NEW c \in Clients, Client(c) PROVE SchedulerMoves
  BY <1>2, ClientIsCalm, QuietSteps DEF Client, SchedulerMoves
<1>3. ASSUME Run
      PROVE  SchedulerMoves \/ RunDecides \/ Starts \/ RootQueued \/ StartReturns
  <2>1. CASE RunStep /\ UNCHANGED <<manager_vars, exported, history>>
    <3>1. UNCHANGED manager_vars /\ UNCHANGED history /\ Quiet
      BY <2>1, QuietSteps
    <3> QED
      BY <2>1, <3>1, RunIsCalm DEF SchedulerMoves, RunDecides
  <2>2. CASE run_pc = "cancel" /\ cancel_scan(run_id) /\ run_cancel_returns /\ UNCHANGED history
    <3>1. Quiet
      BY <2>2, QuietSteps
    <3>2. ~run_dispatches /\ ~run_retries_later
      BY <2>2 DEF run_dispatches, run_retries_later, CanPop, Returned
    <3> QED
      BY <2>2, <3>1, <3>2, RunIsCalm DEF SchedulerMoves
  <2> QED
    BY <1>3, <2>1, <2>2 DEF Run
<1>4. ASSUME NEW w \in Workers, Worker(w) PROVE WorkerMoves \/ \E t \in ManagerThreads : Finish(t)
  BY <1>4 DEF Worker, WorkerMoves, ManagerThreads
<1>5. CASE Shutdown
  BY <1>5, ShutdownIsCalm, QuietSteps DEF Shutdown, SchedulerMoves
<1>6. CASE ShutdownThread
  <2>1. CASE WaitToFinish /\ UNCHANGED <<exported, history>>
    BY <2>1, ShutdownIsCalm, CallbackIsCalm, QuietSteps DEF WaitToFinish, SchedulerMoves
  <2>2. CASE ~WaitToFinish
    BY <1>6, <2>2, ShutdownIsCalm, QuietSteps DEF ShutdownThread, SchedulerMoves
  <2> QED
    BY <1>6, <2>1, <2>2 DEF ShutdownThread
<1>7. ASSUME NEW id \in ScanIds, Export(id) PROVE SchedulerMoves
  BY <1>7, CallbackIsCalm, QuietSteps DEF Export, SchedulerMoves
<1>8. CASE SpuriousWakeup
  BY <1>8, CallbackIsCalm, QuietSteps DEF SpuriousWakeup, SchedulerMoves
<1>9. RunThread \in ManagerThreads
  BY DEF ManagerThreads
<1> QED
  BY <1>1, <1>2, <1>3, <1>4, <1>5, <1>6, <1>7, <1>8, <1>9 DEF Next

LEMMA NextSchedulerTypes ==
  ASSUME SchedulerTypes, [Next]_vars PROVE SchedulerTypes'
<1>1. CASE UNCHANGED scheduler_vars
  BY <1>1, CallbackIsCalm
<1>2. ASSUME NEW c \in Clients, Client(c) PROVE SchedulerTypes'
  BY <1>2, ClientIsCalm DEF Client
<1>3. ASSUME NEW a, start_new_scan_returns(a) PROVE SchedulerTypes'
  BY <1>3 DEF start_new_scan_returns, SchedulerTypes, fields, clients, sd_vars, queue_vars
<1>4. CASE Run \/ StartThrows
  BY <1>1, <1>3, <1>4, RunIsCalm DEF Run, Starts, RootQueued, StartReturns, StartThrows
<1>5. ASSUME NEW t, Finish(t) PROVE SchedulerTypes'
  BY <1>1, <1>5, CallbackIsCalm DEF Finish
<1>6. ASSUME NEW w \in Workers, Worker(w) PROVE SchedulerTypes'
  BY <1>1, <1>5, <1>6 DEF Worker
<1>7. CASE Shutdown \/ ShutdownThread
  BY <1>1, <1>7, ShutdownIsCalm DEF Shutdown, ShutdownThread, WaitToFinish
<1>8. CASE SpuriousWakeup \/ \E id \in ScanIds : Export(id)
  BY <1>1, <1>8, CallbackIsCalm DEF SpuriousWakeup, Export
<1>9. CASE UNCHANGED vars
  BY <1>1, <1>9 DEF vars
<1> QED
  BY <1>2, <1>4, <1>5, <1>6, <1>7, <1>8, <1>9 DEF Next

-----------------------------------------------------------------------------
(* The Manager's types, and where its threads can be *)

FinishingPlaces == {"finish"} \cup FinishPlaces
WorkerPlaces == {"idle", "job", "submit", "exited"} \cup FinishingPlaces
RunPlaces == {"idle", "count", "submit_root", "accepted", "full", "erase", "refused"}
               \cup FinishingPlaces

ManagerTypes ==
  /\ unfinished_jobs \in [ScanIds -> Int] /\ scan_jobs_unfinished \in Int
  /\ jobs \in Seq(ScanIds)
  /\ at \in [ManagerThreads -> Places]
  /\ scan \in [ManagerThreads -> ScanIds \cup {0}]
  /\ depth \in [ManagerThreads -> Nat]
  /\ children_left \in [ScanIds -> 0 .. MaxChildren]
  /\ sentinels \in [ScanIds -> {"none", "complete", "canceled"}]

ThreadShape ==
  /\ \A w \in Workers : /\ at[w] \in WorkerPlaces
                        /\ scan[w] = 0 <=> at[w] \in {"idle", "exited"}
                        /\ depth[w] = 0 <=> at[w] \in {"idle", "exited"}
  /\ at[RunThread] \in RunPlaces /\ depth[RunThread] = 0
  /\ scan[RunThread] = 0 <=> at[RunThread] = "idle"

\* A step of one thread in the Manager's code.
Steps(t) ==
  \/ t = RunThread /\ \/ run_pc = "dispatch" /\ begin_new_scan(run_id)
                      \/ count_root \/ submit_root_ok \/ submit_root_full
                      \/ submit_root_shutdown \/ give_root_back \/ unregister_root
                      \/ return_from_start("accepted") \/ return_from_start("refused")
  \/ t \in Workers /\ JobStep(t)
  \/ FinishStep(t) \/ report_finished(t) \/ make_room(t)

LEMMA ThreadsDistinct ==
  /\ RunThread \in ManagerThreads /\ RunThread \notin Workers
  /\ \A w \in Workers : w \in ManagerThreads
  /\ \A t \in ManagerThreads : t = RunThread \/ t \in Workers
  BY PoolAssumption DEF ManagerThreads

LEMMA BusyHasScan ==
  ASSUME ManagerTypes, ThreadShape, NEW t \in ManagerThreads, at[t] \notin {"idle", "exited"}
  PROVE  /\ scan[t] \in ScanIds /\ unfinished_jobs[scan[t]] \in Int
         /\ children_left[scan[t]] \in 0 .. MaxChildren
         /\ t \in Workers => depth[t] \in Nat \ {0}
<1>1. scan[t] \in ScanIds /\ (t \in Workers => depth[t] \in Nat \ {0})
  BY ThreadsDistinct DEF ManagerTypes, ThreadShape
<1> QED
  BY <1>1 DEF ManagerTypes

LEMMA StepTypes ==
  ASSUME SchedulerTypes, ManagerTypes, ThreadShape, NEW t \in ManagerThreads, Steps(t)
  PROVE  /\ ManagerTypes' /\ ThreadShape'
         /\ \A u \in ManagerThreads : u # t =>
              at'[u] = at[u] /\ scan'[u] = scan[u] /\ depth'[u] = depth[u]
<1> DEFINE Done == /\ ManagerTypes' /\ ThreadShape'
                   /\ \A u \in ManagerThreads : u # t =>
                        at'[u] = at[u] /\ scan'[u] = scan[u] /\ depth'[u] = depth[u]
<1> USE ThreadsDistinct, ScanIdsNat, LimitsAssumption, PoolAssumption
    DEF Places, FinishPlaces, FinishingPlaces, WorkerPlaces, RunPlaces, goto, leaves,
        ctx_vars, pool_vars, thread_vars, tree_vars, add_unfinished
<1>1. CASE t = RunThread /\ run_pc = "dispatch" /\ begin_new_scan(run_id)
  BY <1>1 DEF SchedulerTypes, ManagerTypes, ThreadShape, begin_new_scan
<1>2. CASE t = RunThread /\ (count_root \/ give_root_back)
  BY SMTT(30), <1>2 DEF ManagerTypes, ThreadShape, count_root, give_root_back
<1>3. CASE t = RunThread /\ submit_root_ok
  <2>1. scan[RunThread] \in ScanIds
    BY <1>3 DEF ManagerTypes, ThreadShape, submit_root_ok
  <2>2. jobs' \in Seq(ScanIds)
    BY <1>3, <2>1, AppendProperties DEF ManagerTypes, submit_root_ok
  <2> QED
    BY <1>3, <2>2 DEF ManagerTypes, ThreadShape, submit_root_ok
<1>4. CASE t = RunThread /\ (submit_root_full \/ submit_root_shutdown)
  BY ZenonT(30), <1>4 DEF ManagerTypes, ThreadShape, submit_root_full, submit_root_shutdown
<1>5. CASE t = RunThread /\ (unregister_root \/ return_from_start("accepted")
                                             \/ return_from_start("refused"))
  BY ZenonT(30), <1>5 DEF ManagerTypes, ThreadShape, unregister_root, return_from_start
<1>6. CASE t \in Workers /\ pop_job(t)
  <2>1. jobs' \in Seq(ScanIds) /\ jobs[Len(jobs)] \in ScanIds
    BY <1>6, PlacesAfterPop DEF ManagerTypes, pop_job
  <2>2. PICK id \in ScanIds : /\ scan' = [scan EXCEPT ![t] = id] /\ depth' = [depth EXCEPT ![t] = 1]
                              /\ \E p \in {"job", "finish"} : goto(t, p)
                              /\ UNCHANGED children_left
    BY <1>6, <2>1 DEF pop_job, begin_job
  <2> QED
    BY SMTT(30), <1>6, <2>1, <2>2 DEF ManagerTypes, ThreadShape, pop_job
<1>7. CASE t \in Workers /\ count_child(t)
  <2>1. /\ scan[t] \in ScanIds /\ children_left[scan[t]] \in 1 .. MaxChildren
        /\ unfinished_jobs[scan[t]] \in Int
    BY <1>7, BusyHasScan DEF count_child
  <2>2. children_left' \in [ScanIds -> 0 .. MaxChildren]
    <3>1. children_left[scan[t]] - 1 \in 0 .. MaxChildren
      BY <2>1
    <3> QED
      BY <1>7, <3>1 DEF ManagerTypes, count_child
  <2>3. /\ unfinished_jobs' \in [ScanIds -> Int] /\ scan_jobs_unfinished' \in Int
        /\ UNCHANGED <<jobs, scan, sentinels>>
    <3>1. unfinished_jobs[scan[t]] + 1 \in Int
      BY <2>1
    <3>2. unfinished_jobs' \in [ScanIds -> Int]
      BY <1>7, <3>1 DEF ManagerTypes, count_child
    <3> QED
      BY <1>7, <3>2 DEF ManagerTypes, count_child
  <2>4. CASE goto(t, "submit") /\ UNCHANGED depth
    BY SMTT(30), <1>7, <2>1, <2>2, <2>3, <2>4 DEF ManagerTypes, ThreadShape, count_child
  <2>5. CASE UNCHANGED at /\ depth' = [depth EXCEPT ![t] = @ + 1]
    BY SMTT(30), <1>7, <2>1, <2>2, <2>3, <2>5 DEF ManagerTypes, ThreadShape, count_child
  <2> QED
    BY <1>7, <2>4, <2>5 DEF count_child
<1>8. CASE t \in Workers /\ submit_child_ok(t)
  <2>1. scan[t] \in ScanIds
    BY <1>8 DEF ManagerTypes, ThreadShape, submit_child_ok
  <2>2. jobs' \in Seq(ScanIds)
    BY <1>8, <2>1, AppendProperties DEF ManagerTypes, submit_child_ok
  <2> QED
    BY <1>8, <2>2 DEF ManagerTypes, ThreadShape, submit_child_ok
<1>9. CASE t \in Workers /\ submit_child_full(t)
  BY <1>9 DEF ManagerTypes, ThreadShape, submit_child_full, begin_job
<1>10. CASE t \in Workers /\ submit_child_shutdown(t)
  <2>1. scan[t] \in ScanIds
    BY <1>10 DEF ManagerTypes, ThreadShape, submit_child_shutdown
  <2>2. children_left' \in [ScanIds -> 0 .. MaxChildren]
    <3>1. PICK n \in 0 .. children_left[scan[t]] : children_left' = [children_left EXCEPT ![scan[t]] = n]
      BY <1>10 DEF submit_child_shutdown
    <3>2. n \in 0 .. MaxChildren
      <4>1. children_left[scan[t]] \in 0 .. MaxChildren
        BY <2>1 DEF ManagerTypes
      <4> HIDE DEF Done
      <4> QED
        BY <3>1, <4>1
    <3> QED
      BY <3>1, <3>2 DEF ManagerTypes
  <2> QED
    BY <1>10, <2>2 DEF ManagerTypes, ThreadShape, submit_child_shutdown
<1>11. CASE t \in Workers /\ (end_job(t) \/ exit_worker(t))
  BY ZenonT(30), <1>11 DEF ManagerTypes, ThreadShape, end_job, exit_worker
<1>12. CASE finish_counts_down(t)
  <2>1. PICK p \in {"notify_cv", "exchange"} : goto(t, p)
    BY <1>12 DEF finish_counts_down
  <2>2. scan[t] \in ScanIds /\ unfinished_jobs' \in [ScanIds -> Int]
    <3>1. scan[t] \in ScanIds /\ unfinished_jobs[scan[t]] - 1 \in Int
      BY <1>12, BusyHasScan DEF finish_counts_down
    <3> QED
      BY <1>12, <3>1 DEF ManagerTypes, finish_counts_down
  <2> QED
    BY <1>12, <2>1, <2>2 DEF ManagerTypes, ThreadShape, finish_counts_down
<1>13. CASE notify_waiter(t) \/ report_finished(t) \/ dispatch_did_fail(t)
  BY ZenonT(30), <1>13 DEF ManagerTypes, ThreadShape, notify_waiter, report_finished, dispatch_did_fail
<1>14. CASE unregister(t)
  BY <1>14 DEF ManagerTypes, ThreadShape, unregister
<1>15. ASSUME at[t] \in {"exchange", "make_room"}, finish_returns(t) PROVE Done
  <2>1. CASE t = RunThread
    BY <1>15, <2>1 DEF ManagerTypes, ThreadShape, finish_returns
  <2>2. ASSUME t \in Workers
        PROVE  /\ scan_jobs_unfinished' \in Int /\ UNCHANGED <<unfinished_jobs, jobs>>
               /\ UNCHANGED <<children_left, sentinels>>
               /\ depth[t] \in Nat \ {0} /\ depth' = [depth EXCEPT ![t] = depth[t] - 1]
               /\ depth[t] - 1 \in Nat
    <3>1. depth[t] \in Nat \ {0} /\ depth[t] - 1 \in Nat
      BY <1>15, <2>2, BusyHasScan
    <3>2. t # RunThread
      BY <2>2
    <3>3. depth' = [depth EXCEPT ![t] = depth[t] - 1]
      BY <1>15, <3>2 DEF finish_returns
    <3>4. scan_jobs_unfinished' \in Int /\ UNCHANGED <<unfinished_jobs, jobs, children_left, sentinels>>
      BY <1>15 DEF ManagerTypes, finish_returns
    <3> QED
      BY <3>1, <3>3, <3>4
  <2>3. CASE t \in Workers /\ depth[t] > 1
    <3>1. goto(t, "job") /\ UNCHANGED scan
      BY <1>15, <2>3 DEF finish_returns
    <3>2. depth[t] - 1 # 0
      BY <2>2, <2>3
    <3> QED
      BY <1>15, <2>2, <2>3, <3>1, <3>2 DEF ManagerTypes, ThreadShape
  <2>4. CASE t \in Workers /\ depth[t] = 1
    <3>1. leaves(t) /\ depth' = [depth EXCEPT ![t] = 0]
      BY <1>15, <2>2, <2>4 DEF finish_returns
    <3> QED
      BY <1>15, <2>2, <2>4, <3>1 DEF ManagerTypes, ThreadShape
  <2> QED
    BY <1>15, <2>1, <2>3, <2>4 DEF finish_returns
<1>16. CASE no_dispatch_failed(t) \/ make_room(t)
  BY <1>15, <1>16 DEF no_dispatch_failed, make_room
<1> QED
  BY <1>1, <1>2, <1>3, <1>4, <1>5, <1>6, <1>7, <1>8, <1>9, <1>10, <1>11, <1>12, <1>13,
     <1>14, <1>16 DEF Steps, JobStep, FinishStep

-----------------------------------------------------------------------------
(* The inductive invariant *)

\* Between the submission of the root job and the callback, the Scheduler knows
\* as much of the scan as the Manager does.
BeforeReport == RunPlaces \ {"accepted", "unregister", "exchange", "make_room", "refused"}
AfterReport == {"unregister", "exchange", "make_room", "refused"}

Link ==
  /\ run_pc \in {"dispatch", "returned"} => Settled(run_id)
  /\ \A id \in rooted \cup reported : id \in ScanIds /\ Settled(id)
  /\ at[RunThread] # "idle" => run_pc = "dispatch" /\ scan[RunThread] = run_id
  /\ run_pc = "dispatch" =>
       /\ at[RunThread] # "accepted" => run_id \notin rooted
       /\ at[RunThread] \in BeforeReport => run_id \notin reported
  /\ at[RunThread] = "accepted" => run_id \in rooted
  /\ at[RunThread] \in AfterReport => run_id \in reported
  /\ run_pc = "returned" /\ answer = "full" => run_id \notin rooted \cup reported
  /\ \A k \in DOMAIN jobs : jobs[k] \in rooted
  /\ \A w \in Workers : scan[w] # 0 => scan[w] \in rooted

Counting ==
  /\ \A id \in ScanIds :
       /\ IsFiniteSet(HeldJobs(id))
       /\ unfinished_jobs[id] = Cardinality(QueuedJobs(id)) + Cardinality(HeldJobs(id))
  /\ IsFiniteSet(Stacks)
  /\ scan_jobs_unfinished = Len(jobs) + Cardinality(Stacks)

\* The last job of a scan is counted down, and the Scheduler not yet told.
Ending(t) == at[t] \in {"notify_cv", "report"}

OneEnd ==
  /\ \A id \in reported : unfinished_jobs[id] = 0
  /\ \A t \in ManagerThreads :
       /\ Ending(t) => unfinished_jobs[scan[t]] = 0 /\ scan[t] \notin reported
       /\ at[t] = "unregister" => scan[t] \in reported
  /\ \A t, u \in ManagerThreads : Ending(t) /\ Ending(u) /\ scan[t] = scan[u] => t = u
  /\ \A id \in rooted : unfinished_jobs[id] = 0 =>
       id \in reported \/ \E t \in ManagerThreads : Ending(t) /\ scan[t] = id

Registered ==
  /\ \A id \in ScanIds : unfinished_jobs[id] > 0 => id \in registry
  /\ at[RunThread] \in {"count", "submit_root", "full", "erase", "finish", "notify_cv",
                        "report", "unregister"} => scan[RunThread] \in registry

Sentinels ==
  /\ ~pool_stop => truncated \subseteq canceled
  /\ \A id \in ScanIds : sentinels[id] # "none" => id \in reported /\ id \notin registry
  /\ \A id \in ScanIds : sentinels[id] = "complete" => id \notin canceled

Exited == \A w \in Workers : at[w] = "exited" => pool_stop /\ jobs = <<>>

IInv == /\ SchedulerTypes /\ ManagerTypes /\ ThreadShape /\ Link
        /\ Counting /\ OneEnd /\ Registered /\ Sentinels /\ Exited

LEMMA HeldIsNat ==
  ASSUME ManagerTypes, ThreadShape, NEW t \in ManagerThreads
  PROVE  Stack(t) \in Nat /\ Held(t) \in Nat
<1> USE ThreadsDistinct DEF Stack, Held, CountedDown, FinishPlaces
<1>1. CASE t = RunThread
  BY <1>1 DEF ThreadShape
<1>2. CASE t \in Workers
  <2>1. depth[t] \in Nat
    BY DEF ManagerTypes
  <2>2. at[t] \in FinishPlaces => depth[t] # 0
    BY <1>2 DEF ThreadShape
  <2>3. t # RunThread
    BY <1>2
  <2> QED
    BY <2>1, <2>2, <2>3
<1> QED
  BY <1>1, <1>2

LEMMA AllHeldAreNats ==
  ManagerTypes /\ ThreadShape => \A t \in ManagerThreads : Stack(t) \in Nat /\ Held(t) \in Nat
  BY HeldIsNat

LEMMA NextHeldAreNats ==
  (ManagerTypes /\ ThreadShape)' => (\A t \in ManagerThreads : Stack(t) \in Nat /\ Held(t) \in Nat)'
  BY AllHeldAreNats, PTL

\* What a thread holds for a scan.
Part(t, id) == IF scan[t] = id THEN Held(t) ELSE 0

LEMMA HeldPairs ==
  ASSUME NEW id
  PROVE  /\ \A t, n : <<t, n>> \in HeldJobs(id) <=> t \in ManagerThreads /\ n \in 1 .. Part(t, id)
         /\ \A x \in HeldJobs(id) : x = <<x[1], x[2]>>
<1>1. HeldJobs(id) = JobsOf([t \in ManagerThreads |-> Part(t, id)])
  BY DEF HeldJobs, Part
<1> QED
  BY <1>1, JobsOfElements

LEMMA HeldIsCounted ==
  ASSUME ManagerTypes, ThreadShape, Counting, NEW t \in ManagerThreads,
         scan[t] \in ScanIds, Held(t) > 0
  PROVE  unfinished_jobs[scan[t]] \in Nat \ {0}
<1> DEFINE s == scan[t]
<1>1. <<t, 1>> \in HeldJobs(s)
  BY HeldPairs, HeldIsNat DEF Part
<1>2. Cardinality(HeldJobs(s)) \in Nat \ {0}
  BY <1>1, FS_EmptySet, FS_CardinalityType DEF Counting
<1>3. Cardinality(QueuedJobs(s)) \in Nat
  BY PlacesAreFinite DEF ManagerTypes, QueuedJobs, PlacesIn
<1>4. unfinished_jobs[s] = Cardinality(QueuedJobs(s)) + Cardinality(HeldJobs(s))
  BY DEF Counting
<1> HIDE DEF s
<1>5. unfinished_jobs[s] \in Nat \ {0}
  BY <1>2, <1>3, <1>4
<1> QED
  BY <1>5 DEF s

\* Before its root job is in the pool, a scan has no job but the root job.
LEMMA RootAlone ==
  ASSUME ManagerTypes, ThreadShape, Link, Counting,
         at[RunThread] \in {"count", "submit_root", "full", "erase", "finish"}
  PROVE  unfinished_jobs[scan[RunThread]] =
           IF at[RunThread] \in {"count", "erase"} THEN 0 ELSE 1
<1> DEFINE s == scan[RunThread]
<1>1. s \in ScanIds /\ s \notin rooted /\ s # 0
  BY ThreadsDistinct, BusyHasScan, ScanIdsNat DEF Link
<1>2. Cardinality(QueuedJobs(s)) = 0
  BY <1>1, FS_EmptySet DEF Link, QueuedJobs
<1>3. \A t \in ManagerThreads : t # RunThread => Part(t, s) = 0
  BY <1>1, ThreadsDistinct DEF Link, Part
<1>4. Part(RunThread, s) = IF at[RunThread] \in {"count", "erase"} THEN 0 ELSE 1
  BY DEF Part, Held, Stack, CountedDown, FinishPlaces
<1> HIDE DEF s
<1>5. CASE at[RunThread] \in {"count", "erase"}
  <2>1. \A t \in ManagerThreads : Part(t, s) = 0
    BY <1>3, <1>4, <1>5
  <2>2. HeldJobs(s) = {}
    BY <2>1, HeldPairs
  <2> QED
    BY <1>1, <1>2, <1>5, <2>2, FS_EmptySet DEF Counting, s
<1>6. CASE at[RunThread] \notin {"count", "erase"}
  <2>1. Part(RunThread, s) = 1
    BY <1>4, <1>6
  <2>2. ASSUME NEW t, NEW n PROVE <<t, n>> \in HeldJobs(s) <=> <<t, n>> = <<RunThread, 1>>
    BY <2>1, <1>3, HeldPairs, ThreadsDistinct
  <2>3. HeldJobs(s) = {<<RunThread, 1>>}
    BY <2>2, HeldPairs
  <2>4. Cardinality(HeldJobs(s)) = 1
    BY <2>3, FS_Singleton
  <2>5. unfinished_jobs[s] = 1
    BY <1>1, <1>2, <2>4 DEF Counting
  <2> QED
    BY <1>6, <2>5 DEF s
<1> QED
  BY <1>5, <1>6

-----------------------------------------------------------------------------
(* Link is kept *)

LEMMA SchedulerKeepsLink ==
  ASSUME SchedulerTypes, Link, SchedulerMoves
  PROVE  Link'
<1> USE DEF SchedulerMoves, Quiet, thread_vars, history
<1>1. \A id \in rooted \cup reported : id \in ScanIds /\ Settled(id)'
  BY DEF Link, Calm
<1>2. CASE run_pc' \in {"dispatch", "returned"}
  <2>1. UNCHANGED <<run_pc, run_id, answer>>
    BY <1>2 DEF Calm
  <2>2. run_id \in ScanIds /\ Settled(run_id)
    BY <1>2, <2>1 DEF Link, SchedulerTypes
  <2>3. Settled(run_id)'
    BY <2>1, <2>2 DEF Calm, Settled
  <2> QED
    BY <1>1, <1>2, <2>1, <2>3 DEF Link
<1>3. CASE run_pc' \notin {"dispatch", "returned"}
  <2>1. run_pc # "dispatch"
    BY <1>3 DEF Calm
  <2> QED
    BY <1>1, <1>3, <2>1 DEF Link, BeforeReport, AfterReport, RunPlaces, FinishingPlaces, FinishPlaces
<1> QED
  BY <1>2, <1>3

LEMMA RunKeepsLink ==
  ASSUME SchedulerTypes, ManagerTypes, ThreadShape, Link, Counting,
         RunDecides \/ Starts \/ RootQueued \/ StartReturns \/ StartThrows
  PROVE  Link'
<1> DEFINE R == RunThread
<1> USE ThreadsDistinct, ScanIdsNat
    DEF BeforeReport, AfterReport, RunPlaces, FinishingPlaces, FinishPlaces, thread_vars, goto, leaves,
        Settled, manager_vars, pool_vars, history, fields, scheduler_vars, run_vars
<1>1. CASE RunDecides /\ run_dispatches
  <2>1. /\ Front \in ScanIds /\ run_pc = "loop" /\ state_map[Front] = "PENDING"
        /\ run_pc' = "dispatch" /\ run_id' = Front /\ state_map' = [state_map EXCEPT ![Front] = "DISPATCHING"]
    BY <1>1, FrontIsScan DEF run_dispatches, CanPop, Blocked, set_state
  <2>2. Front \notin rooted \cup reported /\ at[R] = "idle"
    BY <2>1 DEF Link
  <2>3. UNCHANGED <<rooted, reported, at, scan, jobs>>
    BY <1>1 DEF RunDecides
  <2>4. \A i \in ScanIds : Settled(i) => Settled(i)'
    BY <2>1 DEF SchedulerTypes
  <2>5. Settled(run_id)'
    BY <2>1 DEF SchedulerTypes
  <2>6. \A id \in rooted' \cup reported' : id \in ScanIds /\ Settled(id)'
    BY <2>3, <2>4 DEF Link
  <2> HIDE DEF Settled
  <2>7. at'[R] = "idle" /\ run_id' \notin rooted' \cup reported'
    BY <2>1, <2>2, <2>3
  <2> QED
    BY <2>1, <2>3, <2>5, <2>6, <2>7 DEF Link
<1>2. CASE RunDecides /\ run_retries_later
  <2>1. /\ run_pc = "returned" /\ answer = "full" /\ run_pc' = "loop"
        /\ state_map' = [state_map EXCEPT ![run_id] = "PENDING"] /\ run_id \in ScanIds
    BY <1>2 DEF run_retries_later, Returned, set_state, SchedulerTypes
  <2>2. run_id \notin rooted \cup reported /\ at[R] = "idle"
    BY <2>1 DEF Link
  <2>3. UNCHANGED <<rooted, reported, at, scan, jobs>>
    BY <1>2 DEF RunDecides
  <2>4. \A id \in rooted' \cup reported' : id \in ScanIds /\ Settled(id)'
    BY <2>1, <2>2, <2>3 DEF Link, SchedulerTypes
  <2> HIDE DEF Settled
  <2> QED
    BY <2>1, <2>2, <2>3, <2>4 DEF Link
<1>3. CASE Starts
  <2>1. /\ UNCHANGED <<run_pc, run_id, answer, state_map, rooted, reported, jobs>>
        /\ \A w \in Workers : scan'[w] = scan[w]
    BY <1>3 DEF Starts, begin_new_scan, count_root, submit_root_full, submit_root_shutdown,
       give_root_back, add_unfinished, ManagerTypes, pool_vars
  <2>2. at[R] = "idle" => run_pc = "dispatch" /\ scan' = [scan EXCEPT ![R] = run_id]
    BY <1>3 DEF Starts, begin_new_scan, count_root, submit_root_full, submit_root_shutdown, give_root_back
  <2>3. at[R] # "idle" => scan' = scan
    BY <1>3 DEF Starts, begin_new_scan, count_root, submit_root_full, submit_root_shutdown, give_root_back
  <2>4. at[R] \in BeforeReport /\ at'[R] \in BeforeReport \ {"idle"}
    BY <1>3 DEF Starts, begin_new_scan, count_root, submit_root_full, submit_root_shutdown, give_root_back,
       ManagerTypes
  <2>5. scan'[R] = run_id /\ run_pc = "dispatch"
    BY <2>2, <2>3 DEF Link, ManagerTypes
  <2> QED
    BY <2>1, <2>4, <2>5 DEF Link
<1>4. CASE RootQueued
  <2>1. /\ UNCHANGED <<run_pc, run_id, answer, state_map, reported, scan>> /\ run_pc = "dispatch"
        /\ scan[R] = run_id /\ at[R] = "submit_root" /\ at'[R] = "accepted"
    BY <1>4 DEF RootQueued, submit_root_ok, Link, ManagerTypes
  <2>2. rooted' = rooted \cup {run_id} /\ run_id \in ScanIds /\ Settled(run_id)
    BY <1>4, <2>1 DEF RootQueued, Link, SchedulerTypes
  <2>3. \A k \in DOMAIN jobs' : jobs'[k] \in rooted'
    <3>1. jobs' = Append(jobs, run_id)
      BY <1>4, <2>1 DEF RootQueued, submit_root_ok
    <3> QED
      BY <2>2, <3>1, AppendProperties DEF Link, ManagerTypes
  <2> QED
    BY <2>1, <2>2, <2>3 DEF Link
<1>5. CASE StartReturns \/ StartThrows
  <2>1. /\ UNCHANGED <<run_id, state_map, rooted, reported, jobs>> /\ run_pc = "dispatch" /\ run_pc' = "returned"
        /\ at'[R] = "idle" /\ \A w \in Workers : scan'[w] = scan[w]
    BY <1>5 DEF StartReturns, StartThrows, start_new_scan_returns, return_from_start, unregister_root,
       ManagerTypes, pool_vars
  <2>2. answer' = "full" => at[R] = "erase"
    BY <1>5 DEF StartReturns, StartThrows, start_new_scan_returns, unregister_root
  <2> QED
    BY <2>1, <2>2 DEF Link
<1> QED
  BY <1>1, <1>2, <1>3, <1>4, <1>5 DEF RunDecides

LEMMA WorkersKeepLink ==
  ASSUME SchedulerTypes, ManagerTypes, ThreadShape, Link, WorkerMoves
  PROVE  Link'
<1>1. PICK w \in Workers : JobStep(w) /\ UNCHANGED <<scheduler_vars, history>>
  BY DEF WorkerMoves
<1>2. /\ UNCHANGED <<run_pc, run_id, answer, state_map, rooted, reported>>
      /\ at'[RunThread] = at[RunThread] /\ scan'[RunThread] = scan[RunThread]
      /\ \A u \in Workers : u # w => scan'[u] = scan[u]
  BY <1>1, StepTypes, ThreadsDistinct DEF scheduler_vars, fields, run_vars, history, Steps
<1>3. (\A k \in DOMAIN jobs' : jobs'[k] \in rooted) /\ (scan'[w] # 0 => scan'[w] \in rooted)
  <2> USE <1>1, ThreadsDistinct DEF Link, ManagerTypes
  <2>1. CASE pop_job(w)
    BY SMTT(30), <2>1, PlacesAfterPop, LenProperties DEF pop_job
  <2>2. CASE submit_child_ok(w)
    <3>1. scan[w] \in ScanIds /\ scan[w] # 0 /\ jobs' = Append(jobs, scan[w]) /\ UNCHANGED scan
      BY <2>2, BusyHasScan, ScanIdsNat DEF submit_child_ok
    <3> QED
      BY <3>1, AppendProperties
  <2>3. CASE count_child(w) \/ submit_child_full(w) \/ submit_child_shutdown(w)
             \/ end_job(w) \/ exit_worker(w)
    BY <2>3 DEF count_child, submit_child_full, submit_child_shutdown, end_job, exit_worker, pool_vars
  <2> QED
    BY <2>1, <2>2, <2>3 DEF JobStep
<1> QED
  BY <1>2, <1>3 DEF Link, Settled

LEMMA FinishKeepsLink ==
  ASSUME SchedulerTypes, ManagerTypes, ThreadShape, Link, Counting,
         NEW t \in ManagerThreads, Finish(t)
  PROVE  Link'
<1> DEFINE R == RunThread
<1> USE ThreadsDistinct, ScanIdsNat
    DEF BeforeReport, AfterReport, RunPlaces, FinishingPlaces, FinishPlaces, goto, leaves
<1>1. Steps(t)
  BY DEF Finish, Steps
<1>2. /\ ManagerTypes' /\ ThreadShape' /\ UNCHANGED jobs /\ Calm
      /\ \A u \in ManagerThreads : u # t => at'[u] = at[u] /\ scan'[u] = scan[u]
      /\ scan'[t] \in {0, scan[t]} /\ scan[t] \in ScanIds
  <2>1. Calm
    BY CallbackIsCalm DEF Finish
  <2>2. at[t] \notin {"idle", "exited"} /\ UNCHANGED jobs
    BY DEF Finish, FinishStep, finish_counts_down, notify_waiter, report_finished, unregister, no_dispatch_failed,
       dispatch_did_fail, make_room, finish_returns, pool_vars
  <2>3. scan'[t] \in {0, scan[t]}
    BY DEF Finish, FinishStep, finish_counts_down, notify_waiter, report_finished, unregister, no_dispatch_failed,
       dispatch_did_fail, make_room, finish_returns, ManagerTypes
  <2> QED
    BY <1>1, <2>1, <2>2, <2>3, StepTypes, BusyHasScan
<1>3. CASE t \in Workers
  <2>1. at'[R] = at[R] /\ scan'[R] = scan[R] /\ \A w \in Workers : scan'[w] \in {0, scan[w]}
    BY <1>2, <1>3
  <2>2. UNCHANGED rooted /\ \A id \in reported' : id \in reported \/ id \in rooted
    BY <1>2, <1>3 DEF Finish, history, Link
  <2>3. reported \subseteq reported'
    BY DEF Finish, history
  <2>4. run_id \notin rooted => (run_id \in reported' => run_id \in reported)
    BY <2>2
  <2>5. \A id \in rooted' \cup reported' : id \in ScanIds /\ Settled(id)'
    BY <1>2, <2>2 DEF Link, Calm
  <2>6. run_pc' \in {"dispatch", "returned"} => Settled(run_id)'
    BY <1>2 DEF Link, Calm, SchedulerTypes, Settled
  <2>7. run_pc' \in {"dispatch", "returned"} => UNCHANGED <<run_pc, run_id, answer>>
    BY <1>2 DEF Calm
  <2>8. run_pc = "dispatch" => run_pc' = "dispatch"
    BY <1>2 DEF Calm
  <2> HIDE DEF Settled
  <2>9. at'[R] # "idle" => run_pc' = "dispatch" /\ scan'[R] = run_id'
    BY <2>1, <2>7, <2>8 DEF Link
  <2>10. run_pc' = "dispatch" =>
           /\ at'[R] # "accepted" => run_id' \notin rooted'
           /\ at'[R] \in BeforeReport => run_id' \notin reported'
    BY <2>1, <2>2, <2>4, <2>7 DEF Link
  <2>11. /\ at'[R] = "accepted" => run_id' \in rooted'
         /\ at'[R] \in AfterReport => run_id' \in reported'
    BY <2>1, <2>2, <2>3, <2>7, <2>8 DEF Link
  <2>12. run_pc' = "returned" /\ answer' = "full" => run_id' \notin rooted' \cup reported'
    BY <2>2, <2>4, <2>7 DEF Link
  <2>13. /\ \A k \in DOMAIN jobs' : jobs'[k] \in rooted'
         /\ \A w \in Workers : scan'[w] # 0 => scan'[w] \in rooted'
    BY <1>2, <2>1, <2>2 DEF Link
  <2> QED
    BY <2>5, <2>6, <2>9, <2>10, <2>11, <2>12, <2>13 DEF Link
<1>4. CASE t = R
  <2>1. /\ run_pc = "dispatch" /\ scan[R] = run_id /\ run_id \notin rooted
        /\ run_pc' = "dispatch" /\ run_id' = run_id /\ Settled(run_id) /\ run_id \in ScanIds
    <3>1. at[R] \in FinishingPlaces
      BY <1>4 DEF Finish, FinishStep, finish_counts_down, notify_waiter, report_finished, unregister,
         no_dispatch_failed, dispatch_did_fail, make_room
    <3> QED
      BY <1>2, <3>1 DEF Link, Calm, SchedulerTypes
  <2>2. \A w \in Workers : scan'[w] = scan[w]
    BY <1>2, <1>4
  <2>3. /\ UNCHANGED rooted
        /\ IF at[R] = "report" THEN reported' = reported \cup {run_id} ELSE UNCHANGED reported
    BY <1>4, <2>1 DEF Finish, history, FinishStep, finish_counts_down, notify_waiter, report_finished, unregister,
       no_dispatch_failed, dispatch_did_fail, make_room
  <2>4. CASE at[R] \in {"finish", "notify_cv"}
    <3>1. at'[R] \in {"notify_cv", "report"} /\ UNCHANGED scan
      BY <1>2, <1>4, <2>4, RootAlone DEF Finish, FinishStep, finish_counts_down, notify_waiter, report_finished,
         unregister, no_dispatch_failed, dispatch_did_fail, make_room, ManagerTypes
    <3>2. UNCHANGED reported /\ run_id \notin reported
      BY <2>1, <2>3, <2>4 DEF Link
    <3>3. \A id \in rooted' \cup reported' : id \in ScanIds /\ Settled(id)'
      BY <1>2, <2>3, <3>2 DEF Link, Calm
    <3>4. Settled(run_id)'
      BY <1>2, <2>1 DEF Calm, Settled
    <3> HIDE DEF Settled
    <3> QED
      BY <1>2, <2>1, <2>2, <2>3, <3>1, <3>2, <3>3, <3>4 DEF Link
  <2>5. CASE at[R] \in {"report", "unregister", "exchange", "make_room"}
    <3>1. at'[R] \in AfterReport /\ UNCHANGED scan
      BY <1>2, <1>4, <2>5 DEF Finish, FinishStep, finish_counts_down, notify_waiter, report_finished,
         unregister, no_dispatch_failed, dispatch_did_fail, make_room, finish_returns, ManagerTypes
    <3>2. run_id \in reported'
      BY <2>1, <2>3, <2>5 DEF Link
    <3>3. \A id \in rooted' \cup reported' : id \in ScanIds /\ Settled(id)'
      <4>1. \A id \in rooted' \cup reported' : id \in ScanIds /\ Settled(id)
        BY <2>1, <2>3 DEF Link
      <4> QED
        BY <1>2, <4>1 DEF Calm
    <3>4. Settled(run_id)'
      BY <1>2, <2>1 DEF Calm, Settled
    <3> HIDE DEF Settled
    <3> QED
      BY <1>2, <2>1, <2>2, <2>3, <3>1, <3>2, <3>3, <3>4 DEF Link
  <2> QED
    BY <1>4, <2>4, <2>5 DEF Finish, FinishStep, finish_counts_down, notify_waiter, report_finished, unregister,
       no_dispatch_failed, dispatch_did_fail, make_room
<1> QED
  BY <1>3, <1>4

-----------------------------------------------------------------------------
(* The jobs are counted *)

LEMMA HeldAfterMove ==
  ASSUME ManagerTypes, ThreadShape, ManagerTypes', ThreadShape',
         NEW t \in ManagerThreads, NEW id, NEW d \in {-1, 0, 1},
         \A u \in ManagerThreads : u # t =>
           at'[u] = at[u] /\ scan'[u] = scan[u] /\ depth'[u] = depth[u],
         Part(t, id)' = Part(t, id) + d, IsFiniteSet(HeldJobs(id))
  PROVE  /\ IsFiniteSet(HeldJobs(id)')
         /\ Cardinality(HeldJobs(id)') = Cardinality(HeldJobs(id)) + d
<1> DEFINE f == [u \in ManagerThreads |-> Part(u, id)]
           g == [u \in ManagerThreads |-> Part(u, id)']
<1>1. HeldJobs(id) = JobsOf(f) /\ HeldJobs(id)' = JobsOf(g)
  BY DEF HeldJobs, Part, JobsOf
<1>2. f \in [ManagerThreads -> Nat]
  BY HeldIsNat DEF Part
<1>3. g \in [ManagerThreads -> Nat]
  <2>1. (\A u \in ManagerThreads : Stack(u) \in Nat /\ Held(u) \in Nat)'
    BY NextHeldAreNats
  <2>2. \A u \in ManagerThreads : Held(u)' \in Nat
    BY <2>1
  <2> QED
    BY <2>2 DEF Part
<1>4. \A u \in ManagerThreads : u # t => g[u] = f[u]
  BY DEF Part, Held, Stack, CountedDown
<1>5. g[t] = f[t] + d
  OBVIOUS
<1>6. IsFiniteSet(JobsOf(f))
  BY <1>1
<1> HIDE DEF f, g
<1>7. IsFiniteSet(JobsOf(g)) /\ Cardinality(JobsOf(g)) = Cardinality(JobsOf(f)) + d
  BY <1>2, <1>3, <1>4, <1>5, <1>6, CountOfJobs
<1> QED
  BY <1>1, <1>7

LEMMA StacksAfterMove ==
  ASSUME ManagerTypes, ThreadShape, ManagerTypes', ThreadShape',
         NEW t \in ManagerThreads, NEW a \in {-1, 0, 1},
         \A u \in ManagerThreads : u # t =>
           at'[u] = at[u] /\ scan'[u] = scan[u] /\ depth'[u] = depth[u],
         Stack(t)' = Stack(t) + a, IsFiniteSet(Stacks)
  PROVE  IsFiniteSet(Stacks') /\ Cardinality(Stacks') = Cardinality(Stacks) + a
<1> DEFINE f == [u \in ManagerThreads |-> Stack(u)]
           g == [u \in ManagerThreads |-> Stack(u)']
<1>1. Stacks = JobsOf(f) /\ Stacks' = JobsOf(g)
  BY DEF Stacks, Stack, JobsOf
<1>2. f \in [ManagerThreads -> Nat]
  BY HeldIsNat
<1>3. g \in [ManagerThreads -> Nat]
  <2>1. (\A u \in ManagerThreads : Stack(u) \in Nat /\ Held(u) \in Nat)'
    BY NextHeldAreNats
  <2>2. \A u \in ManagerThreads : Stack(u)' \in Nat
    BY <2>1
  <2> QED
    BY <2>2
<1>4. \A u \in ManagerThreads : u # t => g[u] = f[u]
  BY DEF Stack
<1>5. g[t] = f[t] + a
  OBVIOUS
<1>6. IsFiniteSet(JobsOf(f))
  BY <1>1
<1> HIDE DEF f, g
<1>7. IsFiniteSet(JobsOf(g)) /\ Cardinality(JobsOf(g)) = Cardinality(JobsOf(f)) + a
  BY <1>2, <1>3, <1>4, <1>5, <1>6, CountOfJobs
<1> QED
  BY <1>1, <1>7

\* One thread moves: its stack by a, its jobs of scan s by h, the queue by q.
Moves(t, s, a, h, q) ==
  /\ \A u \in ManagerThreads : u # t =>
       at'[u] = at[u] /\ scan'[u] = scan[u] /\ depth'[u] = depth[u]
  /\ Stack(t)' = Stack(t) + a
  /\ \A id \in ScanIds : Part(t, id)' = Part(t, id) + (IF id = s THEN h ELSE 0)
  /\ \A id \in ScanIds : Cardinality(PlacesIn(jobs', id)) =
                           Cardinality(PlacesIn(jobs, id)) + (IF id = s THEN q ELSE 0)
  /\ Len(jobs') = Len(jobs) + q
  /\ unfinished_jobs' = [unfinished_jobs EXCEPT ![s] = @ + h + q]
  /\ scan_jobs_unfinished' = scan_jobs_unfinished + a + q

LEMMA CountsMove ==
  ASSUME ManagerTypes, ThreadShape, ManagerTypes', ThreadShape', Counting,
         NEW t \in ManagerThreads, NEW s,
         NEW a \in {-1, 0, 1}, NEW h \in {-1, 0, 1}, NEW q \in {-1, 0, 1},
         Moves(t, s, a, h, q)
  PROVE  Counting'
<1>1. ASSUME NEW id \in ScanIds
      PROVE  /\ IsFiniteSet(HeldJobs(id)')
             /\ Cardinality(HeldJobs(id)') = Cardinality(HeldJobs(id)) + (IF id = s THEN h ELSE 0)
             /\ Cardinality(HeldJobs(id)) \in Nat
  <2>1. IsFiniteSet(HeldJobs(id)) /\ Cardinality(HeldJobs(id)) \in Nat
    BY FS_CardinalityType DEF Counting
  <2>2. CASE id = s
    BY <2>1, <2>2, HeldAfterMove DEF Moves
  <2>3. CASE id # s
    BY <2>1, <2>3, HeldAfterMove DEF Moves
  <2> QED
    BY <2>2, <2>3
<1>2. /\ IsFiniteSet(Stacks') /\ Cardinality(Stacks') = Cardinality(Stacks) + a
      /\ Cardinality(Stacks) \in Nat
  BY StacksAfterMove, FS_CardinalityType DEF Counting, Moves
<1>3. ASSUME NEW id \in ScanIds
      PROVE  unfinished_jobs'[id] = Cardinality(QueuedJobs(id)') + Cardinality(HeldJobs(id)')
  <2>1. unfinished_jobs[id] = Cardinality(QueuedJobs(id)) + Cardinality(HeldJobs(id))
    BY DEF Counting
  <2>2. Cardinality(QueuedJobs(id)') = Cardinality(QueuedJobs(id)) + (IF id = s THEN q ELSE 0)
    BY DEF QueuedJobs, PlacesIn, Moves
  <2>3. Cardinality(QueuedJobs(id)) \in Nat
    <3>1. QueuedJobs(id) = PlacesIn(jobs, id) /\ jobs \in Seq(ScanIds)
      BY DEF ManagerTypes, QueuedJobs, PlacesIn
    <3> QED
      BY <3>1, PlacesAreFinite
  <2>4. CASE id = s
    <3>1. unfinished_jobs'[id] = unfinished_jobs[id] + h + q
      BY <2>4 DEF ManagerTypes, Moves
    <3> QED
      BY <1>1, <2>1, <2>2, <2>3, <2>4, <3>1
  <2>5. CASE id # s
    <3>1. unfinished_jobs'[id] = unfinished_jobs[id]
      BY <2>5 DEF ManagerTypes, Moves
    <3> QED
      BY <1>1, <2>1, <2>2, <2>3, <2>5, <3>1
  <2> QED
    BY <2>4, <2>5
<1>4. scan_jobs_unfinished' = Len(jobs') + Cardinality(Stacks')
  <2>1. Len(jobs) \in Nat /\ scan_jobs_unfinished = Len(jobs) + Cardinality(Stacks)
    BY LenProperties DEF ManagerTypes, Counting
  <2> QED
    BY <1>2, <2>1 DEF Moves
<1> QED
  BY <1>1, <1>2, <1>3, <1>4 DEF Counting

LEMMA StepCounts ==
  ASSUME SchedulerTypes, ManagerTypes, ThreadShape, Counting, NEW t \in ManagerThreads, Steps(t)
  PROVE  Counting'
<1> DEFINE Stacked(a) == Stack(t)' = Stack(t) + a
           Holding(s, h) == \A id \in ScanIds : Part(t, id)' = Part(t, id) + (IF id = s THEN h ELSE 0)
           Queued(s, q) == /\ \A id \in ScanIds : Cardinality(PlacesIn(jobs', id)) =
                                Cardinality(PlacesIn(jobs, id)) + (IF id = s THEN q ELSE 0)
                           /\ Len(jobs') = Len(jobs) + q
           Unfinished(s, n) == unfinished_jobs' = [unfinished_jobs EXCEPT ![s] = @ + n]
           Total(n) == scan_jobs_unfinished' = scan_jobs_unfinished + n
<1>1. ASSUME NEW s \in ScanIds, NEW a \in {-1, 0, 1}, NEW h \in {-1, 0, 1}, NEW q \in {-1, 0, 1},
             Stacked(a), Holding(s, h), Queued(s, q), Unfinished(s, h + q), Total(a + q)
      PROVE  Counting'
  <2>1. unfinished_jobs' = [unfinished_jobs EXCEPT ![s] = @ + h + q]
    <3>1. unfinished_jobs[s] \in Int
      BY DEF ManagerTypes
    <3>2. unfinished_jobs[s] + (h + q) = unfinished_jobs[s] + h + q
      BY <3>1
    <3> QED
      BY <1>1, <3>2
  <2>2. scan_jobs_unfinished' = scan_jobs_unfinished + a + q
    <3>1. scan_jobs_unfinished \in Int
      BY DEF ManagerTypes
    <3> QED
      BY <1>1, <3>1
  <2>3. /\ Stack(t)' = Stack(t) + a
        /\ \A id \in ScanIds : Part(t, id)' = Part(t, id) + (IF id = s THEN h ELSE 0)
        /\ \A id \in ScanIds : Cardinality(PlacesIn(jobs', id)) =
                                 Cardinality(PlacesIn(jobs, id)) + (IF id = s THEN q ELSE 0)
        /\ Len(jobs') = Len(jobs) + q
    BY <1>1
  <2> HIDE DEF Stacked, Holding, Queued, Unfinished, Total
  <2>4. /\ ManagerTypes' /\ ThreadShape'
        /\ \A u \in ManagerThreads : u # t =>
             at'[u] = at[u] /\ scan'[u] = scan[u] /\ depth'[u] = depth[u]
    BY StepTypes
  <2>5. Moves(t, s, a, h, q)
    BY <2>1, <2>2, <2>3, <2>4 DEF Moves
  <2> QED
    BY <2>4, <2>5, CountsMove
<1>2. ASSUME NEW s, UNCHANGED jobs PROVE Queued(s, 0)
  BY <1>2, PlacesAreFinite, LenProperties DEF ManagerTypes
<1>3. ASSUME NEW s \in ScanIds, jobs' = Append(jobs, s) PROVE Queued(s, 1)
  BY <1>3, PlacesAfterAppend, AppendProperties, PlacesAreFinite DEF ManagerTypes
<1>4. ASSUME jobs # <<>>, jobs' = SubSeq(jobs, 1, Len(jobs) - 1) PROVE Queued(jobs[Len(jobs)], -1)
  <2>1. jobs \in Seq(ScanIds)
    BY DEF ManagerTypes
  <2>2. Len(jobs') = Len(jobs) - 1 /\ Len(jobs) \in Nat
    BY <1>4, <2>1, PlacesAfterPop
  <2>3. ASSUME NEW id \in ScanIds
        PROVE  Cardinality(PlacesIn(jobs', id)) =
                 Cardinality(PlacesIn(jobs, id)) + (IF id = jobs[Len(jobs)] THEN -1 ELSE 0)
    <3>1. Cardinality(PlacesIn(jobs, id)) \in Nat
      BY <2>1, PlacesAreFinite
    <3>2. Cardinality(PlacesIn(jobs', id))
            = Cardinality(PlacesIn(jobs, id)) - (IF jobs[Len(jobs)] = id THEN 1 ELSE 0)
      BY <1>4, <2>1, PlacesAfterPop
    <3> QED
      BY <3>1, <3>2
  <2> QED
    BY <2>2, <2>3
<1>5. ASSUME UNCHANGED unfinished_jobs PROVE \A s \in ScanIds : Unfinished(s, 0)
  BY <1>5 DEF ManagerTypes
<1>6. UNCHANGED scan_jobs_unfinished => Total(0)
  BY DEF ManagerTypes
<1>7. /\ Stack(t) \in Nat /\ Held(t) \in Nat /\ 0 \notin ScanIds
      /\ at \in [ManagerThreads -> Places] /\ scan \in [ManagerThreads -> ScanIds \cup {0}]
      /\ depth \in [ManagerThreads -> Nat]
  BY HeldIsNat, ScanIdsNat DEF ManagerTypes
<1>8. at[t] \notin {"idle", "exited"} => scan[t] \in ScanIds
  BY BusyHasScan
<1> HIDE DEF Queued, Unfinished, Total
<1> USE ThreadsDistinct
    DEF Part, Held, Stack, CountedDown, FinishPlaces, goto, leaves, add_unfinished, ctx_vars, pool_vars
<1>9. CASE t = RunThread /\ run_pc = "dispatch" /\ begin_new_scan(run_id)
  <2>1. /\ at[t] = "idle" /\ scan' = [scan EXCEPT ![t] = run_id] /\ at' = [at EXCEPT ![t] = "count"]
        /\ UNCHANGED <<unfinished_jobs, scan_jobs_unfinished, jobs, depth>> /\ run_id \in ScanIds
    BY <1>9 DEF begin_new_scan, SchedulerTypes
  <2>2. Stacked(0) /\ Holding(run_id, 0)
    BY <1>7, <1>9, <2>1
  <2> QED
    BY <1>1, <1>2, <1>5, <1>6, <2>1, <2>2
<1>10. CASE t = RunThread /\ count_root
  <2>1. /\ at[t] = "count" /\ UNCHANGED <<scan, jobs, depth>> /\ at' = [at EXCEPT ![t] = "submit_root"]
        /\ Unfinished(scan[t], 1) /\ Total(1)
    BY <1>10 DEF count_root, Unfinished, Total
  <2>2. Stacked(1) /\ Holding(scan[t], 1)
    BY <1>7, <1>10, <2>1
  <2> QED
    BY <1>1, <1>2, <1>8, <2>1, <2>2
<1>11. CASE t = RunThread /\ submit_root_ok
  <2>1. /\ at[t] = "submit_root" /\ UNCHANGED <<scan, unfinished_jobs, scan_jobs_unfinished, depth>>
        /\ at' = [at EXCEPT ![t] = "accepted"] /\ jobs' = Append(jobs, scan[t])
    BY <1>11 DEF submit_root_ok
  <2>2. Stacked(-1) /\ Holding(scan[t], -1)
    BY <1>7, <1>11, <2>1
  <2> QED
    BY <1>1, <1>3, <1>5, <1>6, <1>8, <2>1, <2>2
<1>12. CASE t = RunThread /\ (submit_root_full \/ submit_root_shutdown)
  <2>1. /\ at[t] = "submit_root" /\ UNCHANGED <<scan, unfinished_jobs, scan_jobs_unfinished, depth, jobs>>
        /\ \E p \in {"full", "finish"} : at' = [at EXCEPT ![t] = p]
    BY <1>12 DEF submit_root_full, submit_root_shutdown
  <2>2. Stacked(0) /\ Holding(scan[t], 0)
    BY <1>7, <1>12, <2>1
  <2> QED
    BY <1>1, <1>2, <1>5, <1>6, <1>8, <2>1, <2>2
<1>13. CASE t = RunThread /\ give_root_back
  <2>1. /\ at[t] = "full" /\ UNCHANGED <<scan, jobs, depth>> /\ at' = [at EXCEPT ![t] = "erase"]
        /\ Unfinished(scan[t], -1) /\ Total(-1)
    BY <1>13 DEF give_root_back, Unfinished, Total
  <2>2. Stacked(-1) /\ Holding(scan[t], -1)
    BY <1>7, <1>13, <2>1
  <2> QED
    BY <1>1, <1>2, <1>8, <2>1, <2>2
<1>14. CASE t = RunThread /\ (unregister_root \/ return_from_start("accepted")
                                              \/ return_from_start("refused"))
  <2>1. /\ at[t] \in {"erase", "accepted", "refused"}
        /\ UNCHANGED <<unfinished_jobs, scan_jobs_unfinished, depth, jobs>>
        /\ at' = [at EXCEPT ![t] = "idle"] /\ scan' = [scan EXCEPT ![t] = 0]
    BY <1>14 DEF unregister_root, return_from_start
  <2>2. Stacked(0) /\ Holding(scan[t], 0)
    BY <1>7, <1>14, <2>1
  <2> QED
    BY SMTT(30), <1>1, <1>2, <1>5, <1>6, <1>8, <2>1, <2>2
<1>15. CASE t \in Workers /\ pop_job(t)
  <2> DEFINE id == jobs[Len(jobs)]
  <2>1. /\ at[t] = "idle" /\ jobs # <<>> /\ jobs' = SubSeq(jobs, 1, Len(jobs) - 1)
        /\ UNCHANGED <<unfinished_jobs, scan_jobs_unfinished>> /\ id \in ScanIds
        /\ scan' = [scan EXCEPT ![t] = id] /\ depth' = [depth EXCEPT ![t] = 1]
        /\ \E p \in {"job", "finish"} : at' = [at EXCEPT ![t] = p]
    BY <1>15, PlacesAfterPop DEF pop_job, begin_job, ManagerTypes
  <2>2. t # RunThread /\ scan[t] = 0 /\ depth[t] = 0
    BY <1>15, <2>1 DEF ThreadShape
  <2>3. Queued(id, -1)
    BY <1>4, <2>1
  <2> HIDE DEF id
  <2>4. Stacked(1) /\ Holding(id, 1)
    BY <1>7, <2>1, <2>2
  <2>5. Unfinished(id, 1 + -1) /\ Total(1 + -1)
    BY <1>5, <1>6, <2>1
  <2> QED
    BY <1>1, <2>1, <2>3, <2>4, <2>5
<1>16. CASE t \in Workers /\ count_child(t)
  <2>1. /\ at[t] = "job" /\ UNCHANGED <<scan, jobs>>
        /\ \/ at' = [at EXCEPT ![t] = "submit"] /\ UNCHANGED depth
           \/ UNCHANGED at /\ depth' = [depth EXCEPT ![t] = @ + 1]
        /\ Unfinished(scan[t], 1) /\ Total(1)
    BY <1>16 DEF count_child, Unfinished, Total
  <2>2. Stacked(1) /\ Holding(scan[t], 1)
    BY <1>7, <1>16, <2>1
  <2> QED
    BY <1>1, <1>2, <1>8, <2>1, <2>2
<1>17. CASE t \in Workers /\ submit_child_ok(t)
  <2>1. /\ at[t] = "submit" /\ UNCHANGED <<scan, unfinished_jobs, scan_jobs_unfinished, depth>>
        /\ at' = [at EXCEPT ![t] = "job"] /\ jobs' = Append(jobs, scan[t])
    BY <1>17 DEF submit_child_ok
  <2>2. Stacked(-1) /\ Holding(scan[t], -1)
    BY <1>7, <1>17, <2>1
  <2> QED
    BY <1>1, <1>3, <1>5, <1>6, <1>8, <2>1, <2>2
<1>18. CASE t \in Workers /\ (submit_child_full(t) \/ submit_child_shutdown(t))
  <2>1. /\ at[t] = "submit" /\ UNCHANGED <<scan, unfinished_jobs, scan_jobs_unfinished, jobs>>
        /\ depth' = [depth EXCEPT ![t] = @ + 1]
        /\ \E p \in {"job", "finish"} : at' = [at EXCEPT ![t] = p]
    BY <1>18 DEF submit_child_full, submit_child_shutdown, begin_job
  <2>2. Stacked(0) /\ Holding(scan[t], 0)
    BY <1>7, <1>18, <2>1
  <2> QED
    BY <1>1, <1>2, <1>5, <1>6, <1>8, <2>1, <2>2
<1>19. CASE t \in Workers /\ end_job(t)
  <2>1. /\ UNCHANGED <<scan, unfinished_jobs, scan_jobs_unfinished, depth, jobs>>
        /\ at[t] = "job" /\ at' = [at EXCEPT ![t] = "finish"]
    BY <1>19 DEF end_job
  <2>2. Stacked(0) /\ Holding(scan[t], 0)
    BY <1>7, <1>19, <2>1
  <2> QED
    BY <1>1, <1>2, <1>5, <1>6, <1>8, <2>1, <2>2
<1>24. CASE t \in Workers /\ exit_worker(t)
  <2>1. /\ UNCHANGED <<scan, unfinished_jobs, scan_jobs_unfinished, depth, jobs>>
        /\ at[t] = "idle" /\ at' = [at EXCEPT ![t] = "exited"]
    BY <1>24 DEF exit_worker
  <2>2. Stack(t)' = Stack(t) + 0 /\ Holding(0, 0) /\ Queued(0, 0)
    BY <1>2, <1>7, <1>24, <2>1
  <2>3. /\ unfinished_jobs' = [unfinished_jobs EXCEPT ![0] = @ + 0 + 0]
        /\ scan_jobs_unfinished' = scan_jobs_unfinished + 0 + 0
    BY <1>7, <2>1 DEF ManagerTypes
  <2>4. /\ \A id \in ScanIds : Part(t, id)' = Part(t, id) + (IF id = 0 THEN 0 ELSE 0)
        /\ \A id \in ScanIds : Cardinality(PlacesIn(jobs', id)) =
                                 Cardinality(PlacesIn(jobs, id)) + (IF id = 0 THEN 0 ELSE 0)
        /\ Len(jobs') = Len(jobs) + 0
    BY <2>2 DEF Queued
  <2>5. /\ ManagerTypes' /\ ThreadShape'
        /\ \A u \in ManagerThreads : u # t =>
             at'[u] = at[u] /\ scan'[u] = scan[u] /\ depth'[u] = depth[u]
    BY StepTypes
  <2> HIDE DEF Part, Held, Stack
  <2>6. Moves(t, 0, 0, 0, 0)
    BY <2>2, <2>3, <2>4, <2>5 DEF Moves
  <2> QED
    BY <2>5, <2>6, CountsMove
<1>20. CASE finish_counts_down(t)
  <2>1. /\ at[t] = "finish" /\ UNCHANGED <<scan, scan_jobs_unfinished, jobs, depth>>
        /\ \E p \in {"notify_cv", "exchange"} : at' = [at EXCEPT ![t] = p]
        /\ unfinished_jobs' = [unfinished_jobs EXCEPT ![scan[t]] = @ - 1]
    BY <1>20 DEF finish_counts_down
  <2>2. Unfinished(scan[t], -1)
    <3>1. unfinished_jobs[scan[t]] \in Int
      BY <1>8, <2>1 DEF ManagerTypes
    <3>2. unfinished_jobs[scan[t]] - 1 = unfinished_jobs[scan[t]] + -1
      BY <3>1
    <3> QED
      BY <2>1, <3>2 DEF Unfinished
  <2>3. Stacked(0) /\ Holding(scan[t], -1)
    BY <1>7, <2>1
  <2> QED
    BY <1>1, <1>2, <1>6, <1>8, <2>1, <2>2, <2>3
<1>21. CASE notify_waiter(t) \/ report_finished(t) \/ unregister(t) \/ dispatch_did_fail(t)
  <2>1. /\ UNCHANGED <<scan, unfinished_jobs, scan_jobs_unfinished, depth, jobs>>
        /\ at[t] \in FinishPlaces /\ \E p \in FinishPlaces : at' = [at EXCEPT ![t] = p]
    BY <1>21 DEF notify_waiter, report_finished, unregister, dispatch_did_fail
  <2>2. Stacked(0) /\ Holding(scan[t], 0)
    BY <1>7, <2>1
  <2> QED
    BY SMTT(30), <1>1, <1>2, <1>5, <1>6, <1>8, <2>1, <2>2
<1>22. ASSUME at[t] \in {"exchange", "make_room"}, finish_returns(t) PROVE Counting'
  <2>1. /\ UNCHANGED <<unfinished_jobs, jobs>> /\ Total(-1) /\ scan[t] \in ScanIds
    <3>1. scan_jobs_unfinished - 1 = scan_jobs_unfinished + -1
      BY DEF ManagerTypes
    <3> QED
      BY <1>8, <1>22, <3>1 DEF finish_returns, Total
  <2>2. Stacked(-1) /\ Holding(scan[t], 0)
    <3>1. CASE t = RunThread
      BY <1>7, <1>22, <3>1 DEF finish_returns
    <3>2. CASE t # RunThread /\ depth[t] > 1
      BY <1>7, <1>22, <3>2 DEF finish_returns
    <3>3. CASE t # RunThread /\ depth[t] = 1
      BY <1>7, <1>22, <3>3 DEF finish_returns
    <3> QED
      BY <1>22, <3>1, <3>2, <3>3 DEF finish_returns
  <2> QED
    BY SMTT(30), <1>1, <1>2, <1>5, <2>1, <2>2
<1>23. CASE no_dispatch_failed(t) \/ make_room(t)
  BY <1>22, <1>23 DEF no_dispatch_failed, make_room
<1> QED
  BY <1>9, <1>10, <1>11, <1>12, <1>13, <1>14, <1>15, <1>16, <1>17, <1>18, <1>19, <1>20, <1>21, <1>23,
     <1>24 DEF Steps, JobStep, FinishStep

-----------------------------------------------------------------------------
(* Each scan ends once *)

OthersStay(t) ==
  \A u \in ManagerThreads : u # t => at'[u] = at[u] /\ scan'[u] = scan[u] /\ depth'[u] = depth[u]

LEMMA EndsUntouched ==
  ASSUME OneEnd, NEW t \in ManagerThreads, OthersStay(t),
         UNCHANGED <<unfinished_jobs, reported, rooted>>,
         Ending(t) <=> Ending(t)', Ending(t) => scan'[t] = scan[t],
         at'[t] # "unregister"
  PROVE  OneEnd'
<1>1. \A u \in ManagerThreads : (Ending(u)' <=> Ending(u)) /\ (Ending(u) => scan'[u] = scan[u])
  BY DEF OthersStay, Ending
<1>2. \A u \in ManagerThreads : at'[u] = "unregister" => at[u] = "unregister" /\ scan'[u] = scan[u]
  BY DEF OthersStay
<1> QED
  BY <1>1, <1>2 DEF OneEnd

\* A scan with a counted job has not ended, and does not when it gets one more.
LEMMA EndsAfterCount ==
  ASSUME ManagerTypes, OneEnd, NEW t \in ManagerThreads, OthersStay(t), NEW s \in ScanIds,
         s \notin reported, \A u \in ManagerThreads : Ending(u) => scan[u] # s,
         unfinished_jobs' = [unfinished_jobs EXCEPT ![s] = @ + 1], unfinished_jobs[s] \in Nat,
         UNCHANGED <<reported, rooted>>, ~Ending(t), ~Ending(t)', at'[t] # "unregister"
  PROVE  OneEnd'
<1>1. \A u \in ManagerThreads : (Ending(u)' <=> Ending(u)) /\ (Ending(u) => scan'[u] = scan[u])
  BY DEF OthersStay, Ending
<1>2. \A u \in ManagerThreads : at'[u] = "unregister" => at[u] = "unregister" /\ scan'[u] = scan[u]
  BY DEF OthersStay
<1>3. unfinished_jobs'[s] # 0 /\ \A id : id # s => unfinished_jobs'[id] = unfinished_jobs[id]
  BY DEF ManagerTypes
<1> QED
  BY <1>1, <1>2, <1>3 DEF OneEnd

LEMMA StepEnds ==
  ASSUME SchedulerTypes, ManagerTypes, ThreadShape, Link, Counting, OneEnd,
         NEW t \in ManagerThreads, Steps(t),
         rooted' = IF t = RunThread /\ at[t] = "submit_root" /\ at'[t] = "accepted"
                     THEN rooted \cup {scan[t]} ELSE rooted,
         reported' = IF at[t] = "report" THEN reported \cup {scan[t]} ELSE reported
  PROVE  OneEnd'
<1>1. OthersStay(t) /\ ManagerTypes' /\ ThreadShape'
  BY StepTypes DEF OthersStay
<1>2. at[t] \notin {"idle", "exited"} => scan[t] \in ScanIds
  BY BusyHasScan
<1>3. /\ at \in [ManagerThreads -> Places] /\ scan \in [ManagerThreads -> ScanIds \cup {0}]
      /\ unfinished_jobs \in [ScanIds -> Int]
  BY DEF ManagerTypes
<1>4. ASSUME NEW u \in ManagerThreads, scan[u] \in ScanIds, Held(u) > 0
      PROVE  /\ unfinished_jobs[scan[u]] \in Nat \ {0} /\ scan[u] \notin reported
             /\ \A v \in ManagerThreads : Ending(v) => scan[v] # scan[u]
  <2>1. unfinished_jobs[scan[u]] \in Nat \ {0}
    BY <1>4, HeldIsCounted
  <2> QED
    BY <2>1 DEF OneEnd
<1> USE ThreadsDistinct DEF goto, leaves, ctx_vars, pool_vars, thread_vars, Ending
<1>5. CASE \/ t = RunThread /\ run_pc = "dispatch" /\ begin_new_scan(run_id)
           \/ t = RunThread /\ (submit_root_full \/ submit_root_shutdown \/ unregister_root
                                \/ return_from_start("accepted") \/ return_from_start("refused"))
  <2>1. /\ UNCHANGED unfinished_jobs /\ at[t] \in {"idle", "submit_root", "erase", "accepted", "refused"}
        /\ at'[t] \in {"count", "full", "finish", "idle"}
    BY <1>3, <1>5 DEF begin_new_scan, submit_root_full, submit_root_shutdown, unregister_root, return_from_start
  <2> QED
    BY <1>1, <2>1, EndsUntouched
<1>6. CASE t = RunThread /\ count_root
  <2>1. /\ at[t] = "count" /\ at'[t] = "submit_root" /\ scan[t] \in ScanIds
        /\ unfinished_jobs' = [unfinished_jobs EXCEPT ![scan[t]] = @ + 1]
    BY <1>2, <1>3, <1>6 DEF count_root, add_unfinished
  <2>2. unfinished_jobs[scan[t]] \in Nat
    BY <1>6, <2>1, RootAlone
  <2>3. scan[t] \notin reported /\ scan[t] \notin rooted
    BY <1>6, <2>1 DEF Link, BeforeReport, RunPlaces
  <2>4. \A u \in ManagerThreads : Ending(u) => scan[u] # scan[t]
    <3>1. \A w \in Workers : scan[w] # scan[t]
      BY <2>1, <2>3, ScanIdsNat DEF Link
    <3> QED
      BY <1>6, <2>1, <3>1
  <2> QED
    BY <1>1, <2>1, <2>2, <2>3, <2>4, EndsAfterCount
<1>7. CASE t = RunThread /\ submit_root_ok
  <2>1. /\ UNCHANGED <<unfinished_jobs, scan>> /\ at[t] = "submit_root" /\ at'[t] = "accepted"
    BY <1>3, <1>7 DEF submit_root_ok
  <2>2. rooted' = rooted \cup {scan[t]} /\ reported' = reported
    BY <1>7, <2>1
  <2>3. unfinished_jobs[scan[t]] = 1
    BY <1>7, <2>1, RootAlone
  <2>4. \A u \in ManagerThreads : (Ending(u)' <=> Ending(u))
    BY <1>1, <2>1 DEF OthersStay
  <2>5. \A u \in ManagerThreads : at'[u] = "unregister" => at[u] = "unregister"
    BY <1>1, <2>1 DEF OthersStay
  <2> HIDE DEF Ending
  <2> QED
    BY <2>1, <2>2, <2>3, <2>4, <2>5 DEF OneEnd
<1>8. CASE t = RunThread /\ give_root_back
  <2>1. /\ at[t] = "full" /\ at'[t] = "erase" /\ scan[t] \in ScanIds /\ UNCHANGED <<scan, rooted, reported>>
        /\ unfinished_jobs' = [unfinished_jobs EXCEPT ![scan[t]] = @ + -1]
    BY <1>2, <1>3, <1>8 DEF give_root_back, add_unfinished
  <2>2. scan[t] \notin reported /\ scan[t] \notin rooted
    BY <1>8, <2>1 DEF Link, BeforeReport, RunPlaces
  <2>3. \A id : id # scan[t] => unfinished_jobs'[id] = unfinished_jobs[id]
    BY <1>3, <2>1
  <2>4. \A u \in ManagerThreads : (Ending(u)' <=> Ending(u))
    BY <1>1, <2>1 DEF OthersStay
  <2>5. \A u \in ManagerThreads : at'[u] = "unregister" => at[u] = "unregister"
    BY <1>1, <2>1 DEF OthersStay
  <2>6. \A u \in ManagerThreads : Ending(u) => scan[u] # scan[t]
    <3>1. \A w \in Workers : scan[w] # scan[t]
      BY <2>1, <2>2, ScanIdsNat DEF Link
    <3> QED
      BY <1>8, <2>1, <3>1
  <2> HIDE DEF Ending
  <2> QED
    BY <2>1, <2>2, <2>3, <2>4, <2>5, <2>6 DEF OneEnd
<1>9. CASE t \in Workers /\ (pop_job(t) \/ submit_child_ok(t) \/ submit_child_full(t)
                             \/ submit_child_shutdown(t) \/ end_job(t) \/ exit_worker(t))
  <2>1. /\ UNCHANGED unfinished_jobs /\ at[t] \in {"idle", "submit", "job"}
        /\ at'[t] \in {"job", "finish", "exited"}
    BY <1>3, <1>9 DEF pop_job, submit_child_ok, submit_child_full, submit_child_shutdown, end_job,
       exit_worker, begin_job
  <2>2. UNCHANGED <<rooted, reported>>
    BY <1>9, <2>1
  <2> QED
    BY <1>1, <2>1, <2>2, EndsUntouched
<1>10. CASE t \in Workers /\ count_child(t)
  <2>1. /\ at[t] = "job" /\ at'[t] \in {"job", "submit"} /\ scan[t] \in ScanIds
        /\ unfinished_jobs' = [unfinished_jobs EXCEPT ![scan[t]] = @ + 1]
    BY <1>2, <1>3, <1>10 DEF count_child, add_unfinished
  <2>2. Held(t) > 0
    BY <1>10, <2>1, BusyHasScan DEF Held, Stack, CountedDown, FinishPlaces
  <2>3. UNCHANGED <<rooted, reported>>
    BY <1>10, <2>1
  <2>4. /\ unfinished_jobs[scan[t]] \in Nat /\ scan[t] \notin reported
        /\ \A v \in ManagerThreads : Ending(v) => scan[v] # scan[t]
    BY <1>4, <2>1, <2>2
  <2> QED
    BY <1>1, <2>1, <2>3, <2>4, EndsAfterCount
<1>11. CASE finish_counts_down(t)
  <2>1. /\ at[t] = "finish" /\ scan[t] \in ScanIds /\ UNCHANGED <<scan, rooted, reported>>
        /\ unfinished_jobs' = [unfinished_jobs EXCEPT ![scan[t]] = @ - 1]
        /\ at'[t] = IF unfinished_jobs[scan[t]] = 1 THEN "notify_cv" ELSE "exchange"
    BY <1>2, <1>3, <1>11 DEF finish_counts_down
  <2>2. Held(t) > 0
    <3>1. CASE t = RunThread
      BY <2>1, <3>1 DEF Held, Stack, CountedDown, FinishPlaces
    <3>2. CASE t \in Workers
      BY <2>1, <3>2, BusyHasScan DEF Held, Stack, CountedDown, FinishPlaces
    <3> QED
      BY <3>1, <3>2
  <2>3. /\ unfinished_jobs[scan[t]] \in Nat \ {0} /\ scan[t] \notin reported
        /\ \A v \in ManagerThreads : Ending(v) => scan[v] # scan[t]
    BY <1>4, <2>1, <2>2
  <2>4. /\ \A id : id # scan[t] => unfinished_jobs'[id] = unfinished_jobs[id]
        /\ unfinished_jobs'[scan[t]] = 0 <=> unfinished_jobs[scan[t]] = 1
    BY <1>3, <2>1, <2>3
  <2>5. /\ ~Ending(t) /\ (Ending(t)' <=> unfinished_jobs[scan[t]] = 1)
        /\ \A u \in ManagerThreads : u # t => (Ending(u)' <=> Ending(u))
    BY <1>1, <2>1 DEF OthersStay
  <2>6. \A u \in ManagerThreads : at'[u] = "unregister" => at[u] = "unregister"
    BY <1>1, <2>1 DEF OthersStay
  <2> HIDE DEF Ending
  <2>7. \A id \in reported' : unfinished_jobs'[id] = 0
    BY <2>1, <2>3, <2>4 DEF OneEnd
  <2>8. \A u \in ManagerThreads :
          /\ Ending(u)' => unfinished_jobs'[scan'[u]] = 0 /\ scan'[u] \notin reported'
          /\ at'[u] = "unregister" => scan'[u] \in reported'
    BY <2>1, <2>3, <2>4, <2>5, <2>6 DEF OneEnd
  <2>9. \A u, v \in ManagerThreads : Ending(u)' /\ Ending(v)' /\ scan'[u] = scan'[v] => u = v
    BY <2>1, <2>3, <2>5 DEF OneEnd
  <2>10. \A id \in rooted' : unfinished_jobs'[id] = 0 =>
           id \in reported' \/ \E u \in ManagerThreads : Ending(u)' /\ scan'[u] = id
    BY <2>1, <2>4, <2>5 DEF OneEnd
  <2> QED
    BY <2>7, <2>8, <2>9, <2>10 DEF OneEnd
<1>12. CASE notify_waiter(t)
  <2>1. at[t] = "notify_cv" /\ at'[t] = "report" /\ UNCHANGED <<scan, unfinished_jobs, reported, rooted>>
    BY <1>3, <1>12 DEF notify_waiter
  <2> QED
    BY <1>1, <2>1, EndsUntouched
<1>13. CASE report_finished(t)
  <2>1. /\ at[t] = "report" /\ at'[t] = "unregister" /\ UNCHANGED <<scan, unfinished_jobs, rooted>>
        /\ reported' = reported \cup {scan[t]}
    BY <1>3, <1>13 DEF report_finished
  <2>2. /\ unfinished_jobs[scan[t]] = 0
        /\ \A u \in ManagerThreads : u # t /\ Ending(u) => scan[u] # scan[t]
    BY <2>1 DEF OneEnd
  <2>3. ~Ending(t)' /\ Ending(t) /\ \A u \in ManagerThreads : u # t => (Ending(u)' <=> Ending(u))
    BY <1>1, <2>1 DEF OthersStay
  <2>4. \A u \in ManagerThreads : at'[u] = "unregister" => at[u] = "unregister" \/ u = t
    BY <1>1, <2>1 DEF OthersStay
  <2> HIDE DEF Ending
  <2> QED
    BY <2>1, <2>2, <2>3, <2>4 DEF OneEnd
<1>14. CASE unregister(t) \/ dispatch_did_fail(t)
  <2>1. /\ at[t] \in {"unregister", "exchange"} /\ at'[t] \in {"exchange", "make_room"}
        /\ UNCHANGED <<scan, unfinished_jobs, rooted, reported>>
    BY <1>3, <1>14 DEF unregister, dispatch_did_fail
  <2> QED
    BY <1>1, <2>1, EndsUntouched
<1>15. ASSUME at[t] \in {"exchange", "make_room"}, finish_returns(t) PROVE OneEnd'
  <2>1. /\ at'[t] \in {"refused", "job", "idle"} /\ UNCHANGED <<unfinished_jobs, rooted, reported>>
    BY <1>3, <1>15 DEF finish_returns
  <2> QED
    BY <1>1, <1>15, <2>1, EndsUntouched
<1>16. CASE no_dispatch_failed(t) \/ make_room(t)
  BY <1>15, <1>16 DEF no_dispatch_failed, make_room
<1> QED
  BY <1>5, <1>6, <1>7, <1>8, <1>9, <1>10, <1>11, <1>12, <1>13, <1>14, <1>16 DEF Steps, JobStep, FinishStep

-----------------------------------------------------------------------------
(* The registry and the sentinels *)

LEMMA StepRegistered ==
  ASSUME SchedulerTypes, ManagerTypes, ThreadShape, Link, Counting, OneEnd, Registered,
         NEW t \in ManagerThreads, Steps(t)
  PROVE  Registered'
<1> DEFINE Held4 == {"count", "submit_root", "full", "erase", "finish", "notify_cv",
                     "report", "unregister"}
<1>1. OthersStay(t)
  BY StepTypes DEF OthersStay
<1>2. at[t] \notin {"idle", "exited"} => scan[t] \in ScanIds /\ unfinished_jobs[scan[t]] \in Int
  BY BusyHasScan
<1>3. /\ at \in [ManagerThreads -> Places] /\ scan \in [ManagerThreads -> ScanIds \cup {0}]
      /\ unfinished_jobs \in [ScanIds -> Int]
  BY DEF ManagerTypes
<1> USE ThreadsDistinct DEF goto, leaves, ctx_vars, pool_vars, thread_vars
<1>4. CASE t = RunThread /\ run_pc = "dispatch" /\ begin_new_scan(run_id)
  <2>1. /\ registry' = registry \cup {run_id} /\ scan'[t] = run_id /\ UNCHANGED unfinished_jobs
    BY <1>3, <1>4 DEF begin_new_scan
  <2> QED
    BY <1>4, <2>1 DEF Registered
<1>5. CASE t = RunThread /\ (submit_root_ok \/ submit_root_full \/ submit_root_shutdown)
  <2>1. /\ at[t] = "submit_root" /\ UNCHANGED <<registry, scan, unfinished_jobs>>
    BY <1>5 DEF submit_root_ok, submit_root_full, submit_root_shutdown
  <2> QED
    BY <1>5, <2>1 DEF Registered
<1>6. CASE t = RunThread /\ (count_root \/ give_root_back)
  <2>1. /\ at[t] \in {"count", "full"} /\ UNCHANGED <<registry, scan>> /\ scan[t] \in ScanIds
        /\ \A id \in ScanIds : id # scan[t] => unfinished_jobs'[id] = unfinished_jobs[id]
    BY <1>2, <1>3, <1>6 DEF count_root, give_root_back, add_unfinished
  <2>2. scan[t] \in registry
    BY <1>6, <2>1 DEF Registered
  <2> QED
    BY <1>6, <2>1, <2>2 DEF Registered
<1>7. CASE t = RunThread /\ unregister_root
  <2>1. /\ at[t] = "erase" /\ at'[t] = "idle" /\ registry' = registry \ {scan[t]}
        /\ UNCHANGED unfinished_jobs
    BY <1>3, <1>7 DEF unregister_root
  <2>2. unfinished_jobs[scan[t]] = 0
    BY <1>7, <2>1, RootAlone
  <2> QED
    BY <1>7, <2>1, <2>2 DEF Registered
<1>8. CASE t = RunThread /\ (return_from_start("accepted") \/ return_from_start("refused"))
  <2>1. at'[t] = "idle" /\ UNCHANGED <<registry, unfinished_jobs>>
    BY <1>3, <1>8 DEF return_from_start
  <2> QED
    BY <1>8, <2>1 DEF Registered
<1>9. CASE t \in Workers /\ JobStep(t)
  <2>1. at'[RunThread] = at[RunThread] /\ scan'[RunThread] = scan[RunThread] /\ UNCHANGED registry
    BY <1>1, <1>9 DEF OthersStay, JobStep, pop_job, count_child, submit_child_ok, submit_child_full,
       submit_child_shutdown, end_job, exit_worker
  <2>2. CASE count_child(t)
    <3>1. /\ at[t] = "job" /\ scan[t] \in ScanIds
          /\ \A id \in ScanIds : id # scan[t] => unfinished_jobs'[id] = unfinished_jobs[id]
      BY <1>2, <1>3, <2>2 DEF count_child, add_unfinished
    <3>2. Held(t) > 0
      BY <1>9, <3>1, BusyHasScan DEF Held, Stack, CountedDown, FinishPlaces
    <3>3. unfinished_jobs[scan[t]] > 0
      BY <3>1, <3>2, HeldIsCounted
    <3>4. scan[t] \in registry
      BY <3>1, <3>3 DEF Registered
    <3> QED
      BY <2>1, <3>1, <3>4 DEF Registered
  <2>3. CASE ~count_child(t)
    <3>1. UNCHANGED unfinished_jobs
      BY <1>9, <2>3 DEF JobStep, pop_job, submit_child_ok, submit_child_full, submit_child_shutdown, end_job, exit_worker
    <3> QED
      BY <2>1, <3>1 DEF Registered
  <2> QED
    BY <2>2, <2>3
<1>10. CASE finish_counts_down(t)
  <2>1. /\ at[t] = "finish" /\ UNCHANGED <<registry, scan>> /\ at'[t] \in {"notify_cv", "exchange"}
        /\ scan[t] \in ScanIds /\ unfinished_jobs' = [unfinished_jobs EXCEPT ![scan[t]] = @ - 1]
    BY <1>2, <1>3, <1>10 DEF finish_counts_down
  <2>2. \A id \in ScanIds : unfinished_jobs'[id] > 0 => unfinished_jobs[id] > 0
    BY <1>3, <2>1
  <2>3. at'[RunThread] \in Held4 => at[RunThread] \in Held4
    BY <1>1, <2>1 DEF OthersStay
  <2> QED
    BY <2>1, <2>2, <2>3 DEF Registered
<1>11. CASE notify_waiter(t) \/ report_finished(t)
  <2>1. at[t] \in {"notify_cv", "report"} /\ UNCHANGED <<registry, scan, unfinished_jobs>>
    BY <1>11 DEF notify_waiter, report_finished
  <2>2. at'[RunThread] \in Held4 => at[RunThread] \in Held4
    BY <1>1, <2>1 DEF OthersStay
  <2> QED
    BY <2>1, <2>2 DEF Registered
<1>12. CASE unregister(t)
  <2>1. /\ at[t] = "unregister" /\ at'[t] = "exchange" /\ registry' = registry \ {scan[t]}
        /\ UNCHANGED <<scan, unfinished_jobs>>
    BY <1>3, <1>12 DEF unregister
  <2>2. unfinished_jobs[scan[t]] = 0
    BY <2>1 DEF OneEnd
  <2>3. at'[RunThread] \in Held4 => at[RunThread] \in Held4 /\ scan[RunThread] # scan[t]
    <3>1. CASE t = RunThread
      BY <2>1, <3>1
    <3>2. CASE t \in Workers
      <4>1. scan[t] \in rooted
        BY <1>2, <2>1, <3>2, ScanIdsNat DEF Link
      <4>2. at'[RunThread] = at[RunThread]
        BY <1>1, <3>2 DEF OthersStay
      <4> QED
        BY <4>1, <4>2 DEF Link
    <3> QED
      BY <3>1, <3>2
  <2> QED
    BY <2>1, <2>2, <2>3 DEF Registered
<1>13. CASE dispatch_did_fail(t) \/ no_dispatch_failed(t) \/ make_room(t)
  <2>1. at'[t] \notin Held4 \/ t # RunThread
    BY <1>3, <1>13 DEF dispatch_did_fail, no_dispatch_failed, make_room, finish_returns
  <2>2. UNCHANGED <<registry, unfinished_jobs>>
    BY <1>13 DEF dispatch_did_fail, no_dispatch_failed, make_room, finish_returns
  <2> QED
    BY <1>1, <2>1, <2>2 DEF OthersStay, Registered
<1> QED
  BY <1>4, <1>5, <1>6, <1>7, <1>8, <1>9, <1>10, <1>11, <1>12, <1>13 DEF Steps, FinishStep

LEMMA StepSentinels ==
  ASSUME SchedulerTypes, ManagerTypes, ThreadShape, Link, OneEnd, Registered, Sentinels,
         NEW t \in ManagerThreads, Steps(t), reported \subseteq reported'
  PROVE  Sentinels'
<1> USE ThreadsDistinct DEF goto, leaves, ctx_vars, pool_vars, thread_vars, tree_vars
<1>1. ASSUME UNCHANGED <<canceled, sentinels, pool_stop>>, registry' \subseteq registry,
             truncated' \subseteq truncated \/ pool_stop
             \/ \E id \in canceled : truncated' = truncated \cup {id}
      PROVE  Sentinels'
  BY <1>1 DEF Sentinels
<1>2. CASE t = RunThread /\ run_pc = "dispatch" /\ begin_new_scan(run_id)
  <2>1. registry' = registry \cup {run_id} /\ UNCHANGED <<canceled, sentinels, pool_stop, truncated>>
    BY <1>2 DEF begin_new_scan
  <2>2. run_id \notin reported
    BY <1>2 DEF begin_new_scan, Link, BeforeReport, RunPlaces
  <2> QED
    BY <2>1, <2>2 DEF Sentinels
<1>3. CASE t = RunThread /\ (count_root \/ submit_root_ok \/ submit_root_full \/ submit_root_shutdown
                             \/ give_root_back \/ unregister_root
                             \/ return_from_start("accepted") \/ return_from_start("refused"))
  BY <1>1, <1>3 DEF count_root, submit_root_ok, submit_root_full, submit_root_shutdown,
     give_root_back, unregister_root, return_from_start, add_unfinished
<1>4. CASE t \in Workers /\ (count_child(t) \/ submit_child_ok(t) \/ exit_worker(t)
                             \/ submit_child_shutdown(t))
  BY <1>1, <1>4 DEF count_child, submit_child_ok, exit_worker, submit_child_shutdown, add_unfinished
<1>5. CASE t \in Workers /\ (pop_job(t) \/ submit_child_full(t) \/ end_job(t))
  <2>1. UNCHANGED <<canceled, sentinels, pool_stop, registry>>
    BY <1>5 DEF pop_job, submit_child_full, end_job
  <2>2. truncated' = truncated \/ \E id \in canceled : truncated' = truncated \cup {id}
    BY <1>5 DEF pop_job, submit_child_full, end_job, begin_job
  <2> QED
    BY <1>1, <2>1, <2>2
<1>6. CASE finish_counts_down(t) \/ notify_waiter(t) \/ report_finished(t) \/ dispatch_did_fail(t)
  BY <1>1, <1>6 DEF finish_counts_down, notify_waiter, report_finished, dispatch_did_fail
<1>7. CASE no_dispatch_failed(t) \/ make_room(t)
  BY <1>1, <1>7 DEF no_dispatch_failed, make_room, finish_returns
<1>8. CASE unregister(t)
  <2>1. /\ at[t] = "unregister" /\ registry' = registry \ {scan[t]} /\ scan[t] \in ScanIds
        /\ UNCHANGED <<canceled, truncated, pool_stop>>
        /\ sentinels' = [sentinels EXCEPT ![scan[t]] =
             IF scan[t] \notin registry THEN @ ELSE IF scan[t] \in canceled THEN "canceled" ELSE "complete"]
    BY <1>8, BusyHasScan DEF unregister
  <2>2. scan[t] \in reported
    BY <2>1 DEF OneEnd
  <2>3. \A id \in ScanIds : id # scan[t] => sentinels'[id] = sentinels[id]
    BY <2>1 DEF ManagerTypes
  <2>4. CASE scan[t] \notin registry
    <3>1. sentinels'[scan[t]] = sentinels[scan[t]]
      BY <2>1, <2>4 DEF ManagerTypes
    <3> QED
      BY <2>1, <2>3, <2>4, <3>1 DEF Sentinels
  <2>5. CASE scan[t] \in registry
    <3>1. sentinels'[scan[t]] = IF scan[t] \in canceled THEN "canceled" ELSE "complete"
      BY <2>1, <2>5 DEF ManagerTypes
    <3> QED
      BY <2>1, <2>2, <2>3, <3>1 DEF Sentinels
  <2> QED
    BY <2>4, <2>5
<1> QED
  BY <1>2, <1>3, <1>4, <1>5, <1>6, <1>7, <1>8 DEF Steps, JobStep, FinishStep

LEMMA StepExited ==
  ASSUME ManagerTypes, Exited, NEW t \in ManagerThreads, Steps(t)
  PROVE  Exited'
<1> USE ThreadsDistinct DEF goto, leaves, ctx_vars, pool_vars, thread_vars, tree_vars
<1>1. ASSUME UNCHANGED pool_stop, jobs' = <<>> \/ jobs' = jobs \/ ~pool_stop,
             \A w \in Workers : at'[w] = "exited" => at[w] = "exited"
      PROVE  Exited'
  BY <1>1 DEF Exited
<1>2. CASE t \in Workers /\ exit_worker(t)
  BY <1>2 DEF exit_worker, Exited
<1>3. CASE t \in Workers /\ pop_job(t)
  <2>1. jobs # <<>> /\ UNCHANGED pool_stop
    BY <1>3 DEF pop_job
  <2>2. \A w \in Workers : at[w] # "exited"
    BY <2>1 DEF Exited
  <2>3. at'[t] \in {"job", "finish"} /\ \A u \in ManagerThreads : u # t => at'[u] = at[u]
    BY <1>3 DEF pop_job, begin_job, ManagerTypes
  <2> QED
    BY <2>2, <2>3 DEF Exited
<1>4. CASE t = RunThread
  <2>1. /\ UNCHANGED pool_stop /\ (jobs' = jobs \/ ~pool_stop)
        /\ \A w \in Workers : at'[w] = at[w]
    BY <1>4 DEF Steps, begin_new_scan, count_root, submit_root_ok, submit_root_full, submit_root_shutdown,
       give_root_back, unregister_root, return_from_start, FinishStep, finish_counts_down, notify_waiter,
       report_finished, unregister, no_dispatch_failed, dispatch_did_fail, make_room, finish_returns, HasRoom,
       ManagerTypes
  <2> QED
    BY <1>1, <2>1
<1>5. CASE t \in Workers /\ (count_child(t) \/ submit_child_ok(t) \/ submit_child_full(t)
                             \/ submit_child_shutdown(t) \/ end_job(t))
  <2>1. /\ UNCHANGED pool_stop /\ (jobs' = jobs \/ ~pool_stop)
        /\ \A w \in Workers : at'[w] = "exited" => at[w] = "exited"
    BY <1>5 DEF count_child, submit_child_ok, submit_child_full, submit_child_shutdown, end_job, HasRoom,
       ManagerTypes, begin_job
  <2> QED
    BY <1>1, <2>1
<1>6. CASE t \in Workers /\ (FinishStep(t) \/ report_finished(t) \/ make_room(t))
  <2>1. /\ UNCHANGED <<pool_stop, jobs>>
        /\ \A w \in Workers : at'[w] = "exited" => at[w] = "exited"
    BY <1>6 DEF FinishStep, finish_counts_down, notify_waiter, report_finished, unregister,
       no_dispatch_failed, dispatch_did_fail, make_room, finish_returns, ManagerTypes
  <2> QED
    BY <1>1, <2>1
<1> QED
  BY <1>2, <1>3, <1>4, <1>5, <1>6 DEF Steps, JobStep

-----------------------------------------------------------------------------
(* The theorems *)

LEMMA InitHolds == Init => IInv
<1> SUFFICES ASSUME Init PROVE IInv
  OBVIOUS
<1> USE ThreadsDistinct, ScanIdsNat DEF Init, ManagerInit
<1>1. SchedulerTypes
  BY InitScheduler
<1>2. ManagerTypes
  BY EmptySeq, ConnectionAssumption, PoolAssumption DEF ManagerTypes, Places
<1>3. ThreadShape
  BY DEF ThreadShape, WorkerPlaces, RunPlaces
<1>4. Link
  BY DEF Link, AfterReport, SchedulerInit
<1>5. Counting
  <2>1. \A t \in ManagerThreads : Stack(t) = 0 /\ Held(t) = 0
    BY DEF Stack, Held, CountedDown, FinishPlaces
  <2>2. ASSUME NEW id \in ScanIds
        PROVE  HeldJobs(id) = {} /\ QueuedJobs(id) = {} /\ unfinished_jobs[id] = 0
    <3>1. \A t \in ManagerThreads : Part(t, id) = 0
      BY <2>1 DEF Part
    <3>2. HeldJobs(id) = {}
      BY <3>1, HeldPairs
    <3> QED
      BY <3>2, ConnectionAssumption DEF QueuedJobs
  <2>3. Stacks = {}
    <3> DEFINE z == [t \in ManagerThreads |-> Stack(t)]
    <3>1. Stacks = JobsOf(z) /\ DOMAIN z = ManagerThreads
      BY DEF Stacks
    <3>0. \A t \in ManagerThreads : z[t] = 0
      BY <2>1
    <3> HIDE DEF z
    <3>2. ASSUME NEW t, NEW n PROVE <<t, n>> \notin JobsOf(z)
      <4>1. <<t, n>> \in JobsOf(z) => t \in DOMAIN z /\ n \in 1 .. z[t]
        BY JobsOfElements
      <4>2. 1 .. 0 = {}
        OBVIOUS
      <4> QED
        BY <3>0, <3>1, <4>1, <4>2
    <3> QED
      BY <3>1, <3>2, JobsOfElements
  <2>4. Len(jobs) = 0 /\ scan_jobs_unfinished = 0
    OBVIOUS
  <2>5. IsFiniteSet({}) /\ Cardinality({}) = 0
    BY FS_EmptySet
  <2>6. ASSUME NEW id \in ScanIds
        PROVE  /\ IsFiniteSet(HeldJobs(id))
               /\ unfinished_jobs[id] = Cardinality(QueuedJobs(id)) + Cardinality(HeldJobs(id))
    <3>1. Cardinality(QueuedJobs(id)) = 0 /\ Cardinality(HeldJobs(id)) = 0
      BY <2>2, <2>5
    <3>2. IsFiniteSet(HeldJobs(id)) /\ unfinished_jobs[id] = 0
      BY <2>2, <2>5
    <3> HIDE DEF Init, ManagerInit
    <3> QED
      BY <3>1, <3>2
  <2> QED
    BY <2>3, <2>4, <2>5, <2>6 DEF Counting
<1>6. OneEnd
  BY DEF OneEnd, Ending
<1>7. Registered
  BY ConnectionAssumption DEF Registered
<1>8. Sentinels /\ Exited
  BY ConnectionAssumption DEF Sentinels, Exited
<1> QED
  BY <1>1, <1>2, <1>3, <1>4, <1>5, <1>6, <1>7, <1>8 DEF IInv

LEMMA NextKeeps == IInv /\ [Next]_vars => IInv'
<1> SUFFICES ASSUME IInv, [Next]_vars PROVE IInv'
  OBVIOUS
<1>0. /\ SchedulerTypes /\ ManagerTypes /\ ThreadShape /\ Link
      /\ Counting /\ OneEnd /\ Registered /\ Sentinels /\ Exited
  BY DEF IInv
<1>1. SchedulerTypes'
  BY <1>0, NextSchedulerTypes
\* A step of a thread.
<1>2. ASSUME NEW t \in ManagerThreads, Steps(t), Link',
             rooted' = IF t = RunThread /\ at[t] = "submit_root" /\ at'[t] = "accepted"
                         THEN rooted \cup {scan[t]} ELSE rooted,
             reported' = IF at[t] = "report" THEN reported \cup {scan[t]} ELSE reported
      PROVE  IInv'
  <2>1. ManagerTypes' /\ ThreadShape'
    BY <1>0, <1>2, StepTypes
  <2>2. Counting'
    BY <1>0, <1>2, StepCounts
  <2>3. OneEnd'
    BY <1>0, <1>2, StepEnds
  <2>4. Registered'
    BY <1>0, <1>2, StepRegistered
  <2>5. Sentinels'
    <3>1. reported \subseteq reported'
      BY <1>2
    <3> QED
      BY <1>0, <1>2, <3>1, StepSentinels
  <2>6. Exited'
    BY <1>0, <1>2, StepExited
  <2> QED
    BY <1>1, <1>2, <2>1, <2>2, <2>3, <2>4, <2>5, <2>6 DEF IInv
\* A step of the Scheduler.
<1>3. ASSUME Quiet, UNCHANGED history, Link' PROVE IInv'
  <2> USE DEF Quiet, thread_vars, tree_vars, history
  <2>1. ManagerTypes' /\ ThreadShape'
    BY <1>0, <1>3 DEF ManagerTypes, ThreadShape
  <2>2. Counting'
    BY <1>0, <1>3 DEF Counting, HeldJobs, Stacks, QueuedJobs, Held, Stack, CountedDown, JobsOf
  <2>3. OneEnd' /\ Registered'
    BY <1>0, <1>3 DEF OneEnd, Ending, Registered
  <2>4. Sentinels' /\ Exited'
    BY <1>0, <1>3 DEF Sentinels, Exited
  <2> QED
    BY <1>1, <1>3, <2>1, <2>2, <2>3, <2>4 DEF IInv
<1>4. CASE SchedulerMoves
  <2>1. Link'
    BY <1>0, <1>4, SchedulerKeepsLink
  <2> QED
    BY <1>3, <1>4, <2>1 DEF SchedulerMoves
<1>5. CASE RunDecides \/ StartThrows
  <2>1. Link'
    BY <1>0, <1>5, RunKeepsLink
  <2>2. Quiet /\ UNCHANGED history
    BY <1>5, QuietSteps DEF RunDecides, StartThrows
  <2> QED
    BY <1>3, <2>1, <2>2
<1>6. CASE WorkerMoves
  <2>1. Link'
    BY <1>0, <1>6, WorkersKeepLink
  <2>2. PICK w \in Workers : JobStep(w) /\ UNCHANGED history
    BY <1>6 DEF WorkerMoves
  <2>3. at[w] # "report"
    BY <2>2 DEF JobStep, pop_job, count_child, submit_child_ok, submit_child_full,
       submit_child_shutdown, end_job, exit_worker
  <2>4. Steps(w) /\ w # RunThread /\ w \in ManagerThreads
    BY <2>2, ThreadsDistinct DEF Steps
  <2> QED
    BY <1>2, <2>1, <2>2, <2>3, <2>4 DEF history
<1>7. CASE Starts \/ StartReturns
  <2>1. Link'
    BY <1>0, <1>7, RunKeepsLink
  <2>2. Steps(RunThread) /\ UNCHANGED history
    BY <1>7 DEF Starts, StartReturns, Steps
  <2>3. at[RunThread] # "report" /\ ~(at[RunThread] = "submit_root" /\ at'[RunThread] = "accepted")
    BY <1>0, <1>7, ThreadsDistinct DEF Starts, StartReturns, begin_new_scan, count_root, submit_root_full,
       submit_root_shutdown, give_root_back, unregister_root, return_from_start, leaves, goto, ManagerTypes
  <2> QED
    BY <1>2, <2>1, <2>2, <2>3, ThreadsDistinct DEF history
<1>8. CASE RootQueued
  <2>1. Link'
    BY <1>0, <1>8, RunKeepsLink
  <2>2. Steps(RunThread) /\ rooted' = rooted \cup {scan[RunThread]} /\ UNCHANGED reported
    BY <1>8 DEF RootQueued, Steps
  <2>3. at[RunThread] = "submit_root" /\ at'[RunThread] = "accepted"
    BY <1>0, <1>8, ThreadsDistinct DEF RootQueued, submit_root_ok, goto, ManagerTypes
  <2> QED
    BY <1>2, <2>1, <2>2, <2>3, ThreadsDistinct
<1>9. ASSUME NEW t \in ManagerThreads, Finish(t) PROVE IInv'
  <2>1. Link'
    BY <1>0, <1>9, FinishKeepsLink
  <2>2. Steps(t) /\ at[t] # "submit_root" /\ UNCHANGED rooted
    BY <1>9 DEF Finish, Steps, FinishStep, finish_counts_down, notify_waiter, report_finished, unregister,
       no_dispatch_failed, dispatch_did_fail, make_room, history
  <2>3. reported' = IF at[t] = "report" THEN reported \cup {scan[t]} ELSE reported
    BY <1>9 DEF Finish, FinishStep, finish_counts_down, notify_waiter, report_finished, unregister,
       no_dispatch_failed, dispatch_did_fail, make_room, history
  <2> QED
    BY <1>2, <2>1, <2>2, <2>3
<1> QED
  BY <1>0, <1>4, <1>5, <1>6, <1>7, <1>8, <1>9, StepsSorted

LEMMA AlwaysIInv == SafeSpec => []IInv
  BY InitHolds, NextKeeps, PTL DEF SafeSpec

(* unfinished_jobs of a scan is the number of its jobs that are queued, on *)
(* a stack or about to be queued; the metric counts those of all scans.    *)
THEOREM JobsAreCounted == SafeSpec => []UnfinishedAccounting
<1>1. IInv => UnfinishedAccounting
  BY DEF IInv, Counting, UnfinishedAccounting
<1> QED
  BY <1>1, AlwaysIInv, PTL

(* cancel_scan() and wait_to_finish() find every scan with jobs left; one  *)
(* that the Scheduler was told of has none.                                *)
THEOREM RegistryIsComplete == SafeSpec => []RegistryCoversJobs
<1>1. IInv => RegistryCoversJobs
  BY DEF IInv, Registered, OneEnd, RegistryCoversJobs
<1> QED
  BY <1>1, AlwaysIInv, PTL

(* The exporter is not told that a scan is complete that missed a node.    *)
THEOREM TruncatedIsCanceled == SafeSpec => []CompleteUnlessCanceled
<1>1. IInv => CompleteUnlessCanceled
  BY DEF IInv, Sentinels, CompleteUnlessCanceled
<1> QED
  BY <1>1, AlwaysIInv, PTL

(* The last job of a scan is counted down by one thread, which reports the *)
(* scan: notify_scan_finished() is called once for it.                     *)
ReportedOnce ==
  [][\A t \in ManagerThreads : at[t] = "report" /\ at'[t] # "report" => scan[t] \notin reported]_vars
THEOREM FinishedOnce == SafeSpec => ReportedOnce
<1>1. IInv => \A t \in ManagerThreads : at[t] = "report" /\ at'[t] # "report" => scan[t] \notin reported
  BY DEF IInv, OneEnd, Ending
<1> QED
  BY <1>1, AlwaysIInv, PTL DEF ReportedOnce

-----------------------------------------------------------------------------
(* The Scheduler's sections are the same on both sides *)

LEMMA SameClient ==
  ASSUME NEW c
  PROVE  /\ ClientStep(c) <=> Open!ClientStep(c)
         /\ cancel_call_returns(c) <=> Open!cancel_call_returns(c)
BY DEF ClientStep, gen_scan_id, submit_rejected, submit_ok, cancel_running, cancel_pending,
   cancel_call_returns, CanSubmit, check_non_overlap_path, set_state, wake_run, fields, clients,
   run_vars, sd_vars, queue_vars, ScanIds,
   Open!ClientStep, Open!gen_scan_id, Open!submit_rejected, Open!submit_ok, Open!cancel_running,
   Open!cancel_pending, Open!cancel_call_returns, Open!CanSubmit, Open!check_non_overlap_path,
   Open!set_state, Open!wake_run, Open!fields, Open!clients, Open!run_vars, Open!sd_vars,
   Open!queue_vars, Open!ScanIds

LEMMA SameRun ==
  /\ RunStep <=> Open!RunStep
  /\ run_cancel_returns <=> Open!run_cancel_returns
  /\ run_wakes_spuriously <=> Open!run_wakes_spuriously
BY DEF RunStep, run_waits, run_exits, run_skips, run_dispatches, run_records_running,
   run_records_canceled, run_retries_later, run_records_failed, run_finds_done,
   run_cancel_returns, run_wakes_spuriously, Blocked, CanPop, Front, pop_if_front, count_down,
   Returned, leaves_queue, set_state, fields, clients, run_vars, sd_vars, queue_vars,
   Open!RunStep, Open!run_waits, Open!run_exits, Open!run_skips, Open!run_dispatches,
   Open!run_records_running, Open!run_records_canceled, Open!run_retries_later,
   Open!run_records_failed, Open!run_finds_done, Open!run_cancel_returns,
   Open!run_wakes_spuriously, Open!Blocked, Open!CanPop, Open!Front, Open!pop_if_front,
   Open!count_down, Open!Returned, Open!leaves_queue, Open!set_state, Open!fields,
   Open!clients, Open!run_vars, Open!sd_vars, Open!queue_vars

LEMMA SameShutdown ==
  /\ shutdown <=> Open!shutdown
  /\ shutdown_canceled <=> Open!shutdown_canceled
  /\ shutdown_finds_finished <=> Open!shutdown_finds_finished
  /\ shutdown_waited <=> Open!shutdown_waited
  /\ shutdown_stops_manager <=> Open!shutdown_stops_manager
  /\ shutdown_joined_manager <=> Open!shutdown_joined_manager
  /\ shutdown_notifies <=> Open!shutdown_notifies
  /\ \A id : /\ shutdown_cancels(id) <=> Open!shutdown_cancels(id)
             /\ shutdown_waits_for(id) <=> Open!shutdown_waits_for(id)
BY DEF shutdown, shutdown_cancels, shutdown_canceled, shutdown_waits_for, shutdown_finds_finished,
   shutdown_waited, shutdown_stops_manager, shutdown_joined_manager, shutdown_notifies, sd_goto,
   wake_run, fields, clients, run_vars, queue_vars, ScanIds,
   Open!shutdown, Open!shutdown_cancels, Open!shutdown_canceled, Open!shutdown_waits_for,
   Open!shutdown_finds_finished, Open!shutdown_waited, Open!shutdown_stops_manager,
   Open!shutdown_joined_manager, Open!shutdown_notifies, Open!sd_goto, Open!wake_run,
   Open!fields, Open!clients, Open!run_vars, Open!queue_vars, Open!ScanIds

LEMMA SameCallbacks ==
  /\ notify_dispatch_available <=> Open!notify_dispatch_available
  /\ \A a : start_new_scan_returns(a) <=> Open!start_new_scan_returns(a)
  /\ \A id : notify_scan_finished(id) <=> Open!notify_scan_finished(id)
  /\ \A root : notify_export_done(root) <=> Open!notify_export_done(root)
BY DEF notify_dispatch_available, start_new_scan_returns, notify_scan_finished, notify_export_done,
   wake_run, fields, clients, run_vars, sd_vars, queue_vars,
   Open!notify_dispatch_available, Open!start_new_scan_returns, Open!notify_scan_finished,
   Open!notify_export_done, Open!wake_run, Open!fields, Open!clients, Open!run_vars,
   Open!sd_vars, Open!queue_vars

-----------------------------------------------------------------------------
(* How far the Manager is with each scan *)

MgrMap == [id \in ScanIds |-> MgrView(id)]

EndingOf(id) == \E t \in ManagerThreads : Ending(t) /\ scan[t] = id
RefusedRoot(id) == at[RunThread] = "finish" /\ scan[RunThread] = id

LEMMA ViewCases ==
  ASSUME NEW id
  PROVE  /\ id \in reported /\ id \in rooted => MgrView(id) = "ended"
         /\ id \in reported /\ id \notin rooted => MgrView(id) = "given_up"
         /\ id \notin reported /\ EndingOf(id) /\ id \in rooted => MgrView(id) = "drained"
         /\ id \notin reported /\ EndingOf(id) /\ id \notin rooted => MgrView(id) = "refused"
         /\ id \notin reported /\ ~EndingOf(id) /\ id \in rooted => MgrView(id) = "taken"
         /\ id \notin reported /\ ~EndingOf(id) /\ id \notin rooted /\ RefusedRoot(id)
              => MgrView(id) = "refused"
         /\ id \notin reported /\ ~EndingOf(id) /\ id \notin rooted /\ ~RefusedRoot(id)
              => MgrView(id) = "none"
BY DEF MgrView, EndingOf, Ending, RefusedRoot

LEMMA ViewKept ==
  ASSUME NEW id, id \in reported <=> id \in reported', id \in rooted <=> id \in rooted',
         EndingOf(id) <=> EndingOf(id)', RefusedRoot(id) <=> RefusedRoot(id)'
  PROVE  MgrView(id)' = MgrView(id)
BY DEF MgrView, EndingOf, Ending, RefusedRoot

LEMMA QuietKeepsMap ==
  ASSUME Quiet, UNCHANGED history
  PROVE  MgrMap' = MgrMap
<1>1. \A id \in ScanIds : MgrView(id)' = MgrView(id)
  BY ViewKept DEF Quiet, history, thread_vars, EndingOf, Ending, RefusedRoot, MgrView
<1> QED
  BY <1>1 DEF MgrMap

LEMMA ThreadKeepsMap ==
  ASSUME NEW t \in ManagerThreads, OthersStay(t), UNCHANGED history,
         Ending(t) <=> Ending(t)', Ending(t) => scan'[t] = scan[t],
         t = RunThread => (at[t] = "finish" <=> at'[t] = "finish"),
         at[t] = "finish" => scan'[t] = scan[t] \/ t # RunThread
  PROVE  MgrMap' = MgrMap
<1>1. \A u \in ManagerThreads : (Ending(u) <=> Ending(u)') /\ (Ending(u) => scan'[u] = scan[u])
  BY DEF OthersStay, Ending
<1>2. ASSUME NEW id \in ScanIds PROVE MgrView(id)' = MgrView(id)
  <2>1. EndingOf(id) <=> EndingOf(id)'
    BY <1>1 DEF EndingOf
  <2>2. RefusedRoot(id) <=> RefusedRoot(id)'
    BY ThreadsDistinct DEF RefusedRoot, OthersStay
  <2> QED
    BY <2>1, <2>2, ViewKept DEF history
<1> QED
  BY <1>2 DEF MgrMap

LEMMA MapSet ==
  ASSUME NEW s \in ScanIds, NEW x, MgrView(s)' = x,
         \A id \in ScanIds : id # s => MgrView(id)' = MgrView(id)
  PROVE  MgrMap' = [MgrMap EXCEPT ![s] = x]
BY DEF MgrMap

\* The Manager moves on with one scan, or with none.
LEMMA SetMgr ==
  ASSUME NEW s \in ScanIds, NEW x, NEW y, MgrView(s) = x, MgrMap' = [MgrMap EXCEPT ![s] = y],
         UNCHANGED <<pool_stop, exported>>
  PROVE  Open!set_mgr(s, x, y)
BY DEF Open!set_mgr, MgrMap

LEMMA MgrVarsKept ==
  ASSUME MgrMap' = MgrMap, UNCHANGED <<pool_stop, exported>>
  PROVE  UNCHANGED Open!mgr_vars
BY DEF Open!mgr_vars, MgrMap

LEMMA SameVars == UNCHANGED scheduler_vars <=> UNCHANGED Open!scheduler_vars
BY DEF scheduler_vars, fields, clients, run_vars, sd_vars, queue_vars, Open!scheduler_vars,
   Open!fields, Open!clients, Open!run_vars, Open!sd_vars, Open!queue_vars

LEMMA OpenStutters ==
  ASSUME UNCHANGED scheduler_vars, MgrMap' = MgrMap, UNCHANGED <<pool_stop, exported>>
  PROVE  UNCHANGED Open!vars
BY SameVars, MgrVarsKept DEF Open!vars

-----------------------------------------------------------------------------
(* The steps *)

LEMMA StepKeepsPool ==
  ASSUME NEW t, Steps(t)
  PROVE  UNCHANGED pool_stop
BY DEF pool_vars, Steps, begin_new_scan, count_root, submit_root_ok, submit_root_full, submit_root_shutdown,
   give_root_back, unregister_root, return_from_start, JobStep, pop_job, count_child,
   submit_child_ok, submit_child_full, submit_child_shutdown, end_job, exit_worker, FinishStep,
   finish_counts_down, notify_waiter, report_finished, unregister, no_dispatch_failed,
   dispatch_did_fail, make_room, finish_returns

LEMMA StepKeepsMap ==
  ASSUME IInv, NEW t \in ManagerThreads, Steps(t), UNCHANGED history,
         ~Ending(t) \/ at[t] = "notify_cv", ~(t = RunThread /\ submit_root_shutdown),
         ~(finish_counts_down(t) /\ at'[t] = "notify_cv")
  PROVE  MgrMap' = MgrMap
<1>1. OthersStay(t) /\ ManagerTypes /\ ThreadShape /\ Link /\ Counting
  BY StepTypes DEF IInv, OthersStay
<1> USE ThreadsDistinct
    DEF Ending, goto, leaves, ManagerTypes, ctx_vars, pool_vars, thread_vars, tree_vars
<1>3. /\ Ending(t) <=> Ending(t)'
      /\ Ending(t) => scan'[t] = scan[t]
      /\ t = RunThread => (at[t] = "finish" <=> at'[t] = "finish")
      /\ at[t] = "finish" => scan'[t] = scan[t] \/ t # RunThread
  <2>1. CASE t = RunThread /\ (begin_new_scan(run_id) \/ count_root \/ submit_root_ok
             \/ submit_root_full \/ give_root_back \/ unregister_root
             \/ return_from_start("accepted") \/ return_from_start("refused"))
    BY <1>1, <2>1 DEF begin_new_scan, count_root, submit_root_ok, submit_root_full,
       give_root_back, unregister_root, return_from_start
  <2>2. CASE t \in Workers /\ JobStep(t)
    BY <1>1, <2>2 DEF JobStep, pop_job, count_child, submit_child_ok, submit_child_full,
       submit_child_shutdown, end_job, exit_worker, begin_job
  <2>3. CASE finish_counts_down(t)
    <3>1. at[t] = "finish" /\ at'[t] = "exchange" /\ UNCHANGED scan
      BY <1>1, <2>3 DEF finish_counts_down
    <3>2. t # RunThread
      <4>1. t = RunThread => unfinished_jobs[scan[t]] = 1
        BY <1>1, <3>1, RootAlone
      <4> QED
        BY <1>1, <2>3, <3>1, <4>1 DEF finish_counts_down
    <3> QED
      BY <3>1, <3>2
  <2>4. CASE notify_waiter(t) \/ unregister(t) \/ dispatch_did_fail(t)
    BY <1>1, <2>4 DEF notify_waiter, unregister, dispatch_did_fail
  <2>5. CASE no_dispatch_failed(t) \/ make_room(t)
    BY <1>1, <2>5 DEF no_dispatch_failed, make_room, finish_returns
  <2>6. ~report_finished(t)
    BY DEF report_finished
  <2> QED
    BY <2>1, <2>2, <2>3, <2>4, <2>5, <2>6 DEF Steps, FinishStep
<1> QED
  BY <1>1, <1>3, ThreadKeepsMap

LEMMA ThreadStutters ==
  ASSUME IInv, NEW t \in ManagerThreads, Steps(t), UNCHANGED <<scheduler_vars, history, exported>>,
         ~Ending(t) \/ at[t] = "notify_cv", ~(t = RunThread /\ submit_root_shutdown),
         ~(finish_counts_down(t) /\ at'[t] = "notify_cv")
  PROVE  UNCHANGED Open!vars
BY StepKeepsMap, StepKeepsPool, OpenStutters

LEMMA ViewCasesNext ==
  ASSUME NEW id
  PROVE  /\ id \in reported' /\ id \in rooted' => MgrView(id)' = "ended"
         /\ id \in reported' /\ id \notin rooted' => MgrView(id)' = "given_up"
         /\ id \notin reported' /\ EndingOf(id)' /\ id \in rooted' => MgrView(id)' = "drained"
         /\ id \notin reported' /\ EndingOf(id)' /\ id \notin rooted' => MgrView(id)' = "refused"
         /\ id \notin reported' /\ ~EndingOf(id)' /\ id \in rooted' => MgrView(id)' = "taken"
         /\ id \notin reported' /\ ~EndingOf(id)' /\ id \notin rooted' /\ RefusedRoot(id)'
              => MgrView(id)' = "refused"
BY DEF MgrView, EndingOf, Ending, RefusedRoot

\* The scans that the moving thread is not for.
LEMMA OtherViews ==
  ASSUME NEW t \in ManagerThreads, OthersStay(t), scan'[t] = scan[t], NEW id, id # scan[t],
         id \in reported <=> id \in reported', id \in rooted <=> id \in rooted'
  PROVE  MgrView(id)' = MgrView(id)
<1>1. EndingOf(id) <=> EndingOf(id)'
  BY DEF EndingOf, Ending, OthersStay
<1>2. RefusedRoot(id) <=> RefusedRoot(id)'
  BY ThreadsDistinct DEF RefusedRoot, OthersStay
<1> QED
  BY <1>1, <1>2, ViewKept

\* No other thread ends a scan that still has an uncounted job or no jobs at all.
LEMMA NotEnding ==
  ASSUME IInv, NEW t \in ManagerThreads, at[t] \notin {"idle", "exited", "notify_cv", "report"},
         \/ Held(t) > 0
         \/ t = RunThread /\ scan[t] \notin rooted
  PROVE  ~EndingOf(scan[t])
<1>0. ManagerTypes /\ ThreadShape /\ Link /\ Counting /\ OneEnd
  BY DEF IInv
<1>1. scan[t] \in ScanIds /\ scan[t] # 0
  BY <1>0, BusyHasScan, ScanIdsNat
<1>2. CASE Held(t) > 0
  <2>1. unfinished_jobs[scan[t]] \in Nat \ {0}
    BY <1>0, <1>1, <1>2, HeldIsCounted
  <2> QED
    BY <1>0, <2>1 DEF EndingOf, OneEnd
<1>3. CASE t = RunThread /\ scan[t] \notin rooted
  <2>1. ASSUME NEW u \in ManagerThreads, Ending(u) PROVE scan[u] # scan[t]
    BY <1>0, <1>1, <1>3, <2>1, ThreadsDistinct DEF Link, Ending
  <2> QED
    BY <2>1 DEF EndingOf
<1> QED
  BY <1>2, <1>3

LEMMA RootViewIsNone ==
  ASSUME IInv, at[RunThread] = "submit_root"
  PROVE  /\ scan[RunThread] \in ScanIds /\ run_pc = "dispatch" /\ scan[RunThread] = run_id
         /\ scan[RunThread] \notin rooted /\ scan[RunThread] \notin reported
         /\ MgrView(scan[RunThread]) = "none"
<1>1. /\ scan[RunThread] \in ScanIds /\ run_pc = "dispatch" /\ scan[RunThread] = run_id
      /\ scan[RunThread] \notin rooted /\ scan[RunThread] \notin reported
  BY BusyHasScan, ThreadsDistinct DEF IInv, Link, BeforeReport, RunPlaces
<1>2. ~EndingOf(scan[RunThread])
  BY <1>1, NotEnding, ThreadsDistinct
<1>3. ~RefusedRoot(scan[RunThread])
  BY DEF RefusedRoot
<1> QED
  BY <1>1, <1>2, <1>3, ViewCases

LEMMA RootIsTaken ==
  ASSUME IInv, RootQueued PROVE Open!ManagerTakes
<1> DEFINE R == RunThread
<1>0. PICK s \in ScanIds : s = scan[R]
  BY RootViewIsNone DEF RootQueued, submit_root_ok
<1> USE ThreadsDistinct
<1>1. /\ s = scan[R] /\ at[R] = "submit_root" /\ at'[R] = "accepted" /\ OthersStay(R) /\ UNCHANGED scan
      /\ ~pool_stop /\ pool_stop' = pool_stop
      /\ rooted' = rooted \cup {s} /\ reported' = reported /\ exported' = exported
      /\ UNCHANGED scheduler_vars
  <2>1. Steps(R)
    BY DEF RootQueued, Steps
  <2>2. OthersStay(R)
    BY <2>1, StepTypes DEF OthersStay, IInv
  <2> QED
    BY <1>0, <2>2 DEF RootQueued, submit_root_ok, HasRoom, goto, IInv, ManagerTypes, pool_vars
<1>2. s \in ScanIds /\ run_pc = "dispatch" /\ s = run_id /\ s \notin reported /\ MgrView(s) = "none"
  BY <1>1, RootViewIsNone
<1>3. ~EndingOf(s)'
  <2>1. ~EndingOf(s)
    BY <1>1, RootViewIsNone, NotEnding
  <2> QED
    BY <1>1, <2>1 DEF EndingOf, Ending, OthersStay
<1>4. MgrView(s)' = "taken"
  BY <1>1, <1>2, <1>3, ViewCasesNext
<1>5. \A id \in ScanIds : id # s => MgrView(id)' = MgrView(id)
  BY <1>1, OtherViews
<1>6. MgrMap' = [MgrMap EXCEPT ![s] = "taken"]
  BY <1>2, <1>4, <1>5, MapSet
<1>7. Open!set_mgr(s, "none", "taken")
  BY <1>1, <1>2, <1>6, SetMgr
<1> QED
  BY <1>1, <1>2, <1>7, SameVars DEF Open!ManagerTakes

LEMMA RootIsRefused ==
  ASSUME IInv, submit_root_shutdown, UNCHANGED <<scheduler_vars, history, exported>>
  PROVE  Open!ManagerRefuses
<1> DEFINE R == RunThread
<1> USE ThreadsDistinct
<1>0. PICK s \in ScanIds : s = scan[R]
  BY RootViewIsNone DEF submit_root_shutdown
<1>1. /\ s = scan[R] /\ at[R] = "submit_root" /\ at'[R] = "finish" /\ OthersStay(R) /\ UNCHANGED scan
      /\ pool_stop /\ UNCHANGED <<pool_stop, rooted, reported, exported, scheduler_vars>>
  <2>1. Steps(R)
    BY DEF Steps
  <2>2. OthersStay(R)
    BY <2>1, StepTypes DEF OthersStay, IInv
  <2> QED
    BY <1>0, <2>2 DEF submit_root_shutdown, goto, IInv, ManagerTypes, pool_vars, history
<1>2. /\ run_pc = "dispatch" /\ s = run_id /\ s \notin reported /\ s \notin rooted
      /\ MgrView(s) = "none"
  BY <1>1, RootViewIsNone
<1>3. ~EndingOf(s)'
  <2>1. ~EndingOf(s)
    BY <1>1, RootViewIsNone, NotEnding
  <2> QED
    BY <1>1, <2>1 DEF EndingOf, Ending, OthersStay
<1>4. MgrView(s)' = "refused"
  <2>1. RefusedRoot(s)'
    BY <1>1 DEF RefusedRoot
  <2> QED
    BY <1>1, <1>2, <1>3, <2>1, ViewCasesNext
<1>5. \A id \in ScanIds : id # s => MgrView(id)' = MgrView(id)
  BY <1>1, OtherViews
<1>6. MgrMap' = [MgrMap EXCEPT ![s] = "refused"]
  BY <1>2, <1>4, <1>5, MapSet
<1>7. Open!set_mgr(s, "none", "refused")
  BY <1>1, <1>2, <1>6, SetMgr
<1> QED
  BY <1>1, <1>2, <1>7, SameVars DEF Open!ManagerRefuses

\* The last job of a scan is counted down; of a refused root, nothing changes.
LEMMA LastJobDrains ==
  ASSUME IInv, NEW t \in ManagerThreads, finish_counts_down(t), at'[t] = "notify_cv",
         UNCHANGED <<scheduler_vars, history, exported>>
  PROVE  UNCHANGED Open!vars \/ \E id \in ScanIds : Open!ManagerDrains(id)
<1> USE ThreadsDistinct
<1>0. PICK s \in ScanIds : s = scan[t]
  BY BusyHasScan DEF finish_counts_down, IInv
<1>1. /\ s = scan[t] /\ at[t] = "finish" /\ OthersStay(t) /\ UNCHANGED scan
      /\ UNCHANGED <<pool_stop, rooted, reported, exported, scheduler_vars>>
  <2>1. Steps(t)
    BY DEF Steps, FinishStep
  <2>2. OthersStay(t)
    BY <2>1, StepTypes DEF OthersStay, IInv
  <2> QED
    BY <1>0, <2>2 DEF finish_counts_down, pool_vars, history
<1>2. Held(t) > 0
  <2>1. CASE t = RunThread
    BY <1>1, <2>1 DEF Held, Stack, CountedDown, FinishPlaces
  <2>2. CASE t \in Workers
    BY <1>1, <2>2, BusyHasScan DEF IInv, Held, Stack, CountedDown, FinishPlaces
  <2> QED
    BY <2>1, <2>2
<1>3. s \notin reported
  <2>1. unfinished_jobs[s] \in Nat \ {0}
    BY <1>1, <1>2, HeldIsCounted DEF IInv
  <2> QED
    BY <2>1 DEF IInv, OneEnd
<1>4. ~EndingOf(s) /\ EndingOf(s)'
  BY <1>1, <1>2, NotEnding DEF EndingOf, Ending
<1>5. \A id \in ScanIds : id # s => MgrView(id)' = MgrView(id)
  BY <1>1, OtherViews
<1>6. CASE t = RunThread
  <2>1. s \notin rooted /\ RefusedRoot(s)
    BY <1>1, <1>6 DEF IInv, Link, RefusedRoot
  <2>2. MgrView(s) = "refused" /\ MgrView(s)' = "refused"
    BY <1>1, <1>3, <1>4, <2>1, ViewCases, ViewCasesNext
  <2>3. MgrMap' = MgrMap
    BY <1>5, <2>2 DEF MgrMap
  <2> QED
    BY <1>1, <2>3, OpenStutters
<1>7. CASE t \in Workers
  <2>1. s \in rooted
    BY <1>1, <1>7, ScanIdsNat DEF IInv, Link
  <2>2. MgrView(s) = "taken" /\ MgrView(s)' = "drained"
    BY <1>1, <1>3, <1>4, <2>1, ViewCases, ViewCasesNext
  <2>3. MgrMap' = [MgrMap EXCEPT ![s] = "drained"]
    BY <1>5, <2>2, MapSet
  <2>4. Open!set_mgr(s, "taken", "drained")
    BY <1>1, <2>2, <2>3, SetMgr
  <2> QED
    BY <1>1, <2>4, SameVars DEF Open!ManagerDrains
<1> QED
  BY <1>6, <1>7

LEMMA ReportIsMapped ==
  ASSUME IInv, NEW t \in ManagerThreads, report_finished(t), notify_scan_finished(scan[t]),
         reported' = reported \cup {scan[t]}, UNCHANGED <<exported, rooted>>
  PROVE  \E id \in ScanIds : Open!ManagerReports(id)
<1> USE ThreadsDistinct
<1>0. PICK s \in ScanIds : s = scan[t]
  BY BusyHasScan DEF report_finished, IInv
<1>1. /\ s = scan[t] /\ at[t] = "report" /\ OthersStay(t) /\ UNCHANGED scan
      /\ UNCHANGED <<pool_stop, rooted, exported>> /\ reported' = reported \cup {s}
  <2>1. Steps(t)
    BY DEF Steps
  <2>2. OthersStay(t)
    BY <2>1, StepTypes DEF OthersStay, IInv
  <2> QED
    BY <1>0, <2>2 DEF report_finished, pool_vars
<1>2. s \notin reported /\ EndingOf(s)
  BY <1>1 DEF IInv, OneEnd, Ending, EndingOf
<1>3. \A id \in ScanIds : id # s => MgrView(id)' = MgrView(id)
  BY <1>1, OtherViews
<1>4. Open!notify_scan_finished(s)
  BY <1>1, SameCallbacks
<1>5. CASE s \in rooted
  <2>1. MgrView(s) = "drained" /\ MgrView(s)' = "ended"
    BY <1>1, <1>2, <1>5, ViewCases, ViewCasesNext
  <2>2. MgrMap' = [MgrMap EXCEPT ![s] = "ended"]
    BY <1>3, <2>1, MapSet
  <2>3. Open!set_mgr(s, "drained", "ended")
    BY <1>1, <2>1, <2>2, SetMgr
  <2> QED
    BY <1>4, <2>3 DEF Open!ManagerReports
<1>6. CASE s \notin rooted
  <2>1. MgrView(s) = "refused" /\ MgrView(s)' = "given_up"
    BY <1>1, <1>2, <1>6, ViewCases, ViewCasesNext
  <2>2. MgrMap' = [MgrMap EXCEPT ![s] = "given_up"]
    BY <1>3, <2>1, MapSet
  <2>3. Open!set_mgr(s, "refused", "given_up")
    BY <1>1, <2>1, <2>2, SetMgr
  <2> QED
    BY <1>4, <2>3 DEF Open!ManagerReports
<1> QED
  BY <1>5, <1>6

LEMMA RoomIsMapped ==
  ASSUME IInv, NEW t \in ManagerThreads, make_room(t), notify_dispatch_available,
         UNCHANGED <<exported, history>>
  PROVE  Open!ManagerMakesRoom
<1>1. Steps(t) /\ at[t] = "make_room"
  BY DEF Steps, make_room
<1>2. UNCHANGED pool_stop
  BY <1>1, StepKeepsPool
<1>3. MgrMap' = MgrMap
  BY <1>1, StepKeepsMap DEF Ending, submit_root_shutdown, finish_counts_down
<1> QED
  BY <1>2, <1>3, MgrVarsKept, SameCallbacks DEF Open!ManagerMakesRoom

LEMMA AnswerIsMapped ==
  ASSUME run_id \in ScanIds, NEW a \in Open!AnswersAfter(MgrView(run_id)),
         start_new_scan_returns(a), MgrMap' = MgrMap, UNCHANGED <<pool_stop, exported>>
  PROVE  Open!ManagerAnswers
<1>1. MgrMap[run_id] = MgrView(run_id)
  BY DEF MgrMap
<1>2. Open!start_new_scan_returns(a) /\ run_pc = "dispatch"
  BY SameCallbacks DEF start_new_scan_returns
<1>3. a \in Open!AnswersAfter(MgrMap[run_id])
  BY <1>1
<1> QED
  BY <1>2, <1>3, MgrVarsKept DEF Open!ManagerAnswers, MgrMap

LEMMA Answers ==
  ASSUME NEW s
  PROVE  /\ s = "none" => "full" \in Open!AnswersAfter(s) /\ "failed" \in Open!AnswersAfter(s)
         /\ s \in {"taken", "drained", "ended"} => "accepted" \in Open!AnswersAfter(s)
         /\ s = "given_up" => "failed" \in Open!AnswersAfter(s)
<1>1. CASE s = "none"
  BY <1>1 DEF Open!AnswersAfter
<1>2. CASE s \in {"taken", "drained", "ended"}
  BY <1>2 DEF Open!AnswersAfter
<1>3. CASE s = "given_up"
  BY <1>3 DEF Open!AnswersAfter
<1> QED
  BY <1>1, <1>2, <1>3

LEMMA ReturnIsMapped ==
  ASSUME IInv, StartReturns
  PROVE  Open!ManagerAnswers
<1> DEFINE R == RunThread
<1> USE ThreadsDistinct
<1>1. /\ Steps(R) /\ UNCHANGED <<pool_stop, exported>>
      /\ at[R] \in {"accepted", "erase", "refused"}
  BY StepKeepsPool DEF StartReturns, Steps, unregister_root, return_from_start
<1>2. MgrMap' = MgrMap
  <2>1. UNCHANGED history
    BY DEF StartReturns
  <2> QED
    BY <1>1, <2>1, StepKeepsMap DEF Ending, submit_root_shutdown, finish_counts_down
<1>3. /\ run_id \in ScanIds /\ scan[R] = run_id
      /\ at[R] = "accepted" => run_id \in rooted
      /\ at[R] # "accepted" => run_id \notin rooted
      /\ at[R] = "refused" => run_id \in reported
      /\ at[R] = "erase" => run_id \notin reported
  BY <1>1, BusyHasScan DEF IInv, Link, AfterReport, BeforeReport, RunPlaces
<1>4. CASE return_from_start("accepted") /\ start_new_scan_returns("accepted")
  <2>1. MgrView(run_id) \in {"taken", "drained", "ended"}
    BY <1>3, <1>4, ViewCases DEF return_from_start
  <2> QED
    BY <1>1, <1>2, <1>3, <1>4, <2>1, Answers, AnswerIsMapped
<1>5. CASE unregister_root /\ start_new_scan_returns("full")
  <2>1. at[R] = "erase" /\ ~EndingOf(run_id) /\ ~RefusedRoot(run_id)
    BY <1>3, <1>5, NotEnding DEF unregister_root, RefusedRoot
  <2>2. MgrView(run_id) = "none"
    BY <1>3, <2>1, ViewCases
  <2> QED
    BY <1>1, <1>2, <1>3, <1>5, <2>2, Answers, AnswerIsMapped
<1>6. CASE return_from_start("refused") /\ start_new_scan_returns("failed")
  <2>1. MgrView(run_id) = "given_up"
    BY <1>3, <1>6, ViewCases DEF return_from_start
  <2> QED
    BY <1>1, <1>2, <1>3, <1>6, <2>1, Answers, AnswerIsMapped
<1> QED
  BY <1>4, <1>5, <1>6 DEF StartReturns

\* The Manager keeps still, or only a scan is canceled or waited for.
LEMMA QuietKeepsMgr ==
  ASSUME Quiet, UNCHANGED <<pool_stop, exported, history>>
  PROVE  UNCHANGED Open!mgr_vars
BY QuietKeepsMap, MgrVarsKept

LEMMA QuietKinds ==
  ASSUME \/ UNCHANGED manager_vars \/ wait_sleeps
         \/ \E id : cancel_scan(id) \/ wait_checks(id) \/ wait_ends(id)
         \/ UNCHANGED <<registry, ctx_vars, dispatch_failed, scan_jobs_unfinished,
                        pool_vars, thread_vars, tree_vars, sentinels>>,
         UNCHANGED <<exported, history>>
  PROVE  UNCHANGED Open!mgr_vars
<1>1. Quiet
  BY QuietSteps
<1>2. UNCHANGED pool_stop
  BY DEF manager_vars, pool_vars, wait_sleeps, cancel_scan, wait_checks, wait_ends
<1> QED
  BY <1>1, <1>2, QuietKeepsMgr

LEMMA ThrowIsMapped ==
  ASSUME IInv, StartThrows
  PROVE  Open!ManagerAnswers
<1>1. /\ run_pc = "dispatch" /\ at[RunThread] = "idle" /\ start_new_scan_returns("failed")
      /\ UNCHANGED <<manager_vars, exported, history>>
  BY DEF StartThrows, start_new_scan_returns
<1>2. run_id \in ScanIds /\ run_id \notin rooted /\ run_id \notin reported /\ run_id # 0
  BY <1>1, ScanIdsNat DEF IInv, SchedulerTypes, Link, BeforeReport, RunPlaces
<1>3. ~EndingOf(run_id) /\ ~RefusedRoot(run_id)
  <2>1. \A w \in Workers : scan[w] # run_id
    BY <1>2 DEF IInv, Link
  <2> QED
    BY <1>1, <2>1, ThreadsDistinct DEF EndingOf, Ending, RefusedRoot
<1>4. MgrView(run_id) = "none"
  BY <1>2, <1>3, ViewCases
<1>5. MgrMap' = MgrMap /\ UNCHANGED <<pool_stop, exported>>
  <2>1. Quiet /\ UNCHANGED <<pool_stop, exported, history>>
    BY <1>1, QuietSteps DEF manager_vars, pool_vars
  <2> QED
    BY <2>1, QuietKeepsMap
<1> QED
  BY <1>1, <1>2, <1>4, <1>5, Answers, AnswerIsMapped

LEMMA ExportIsMapped ==
  ASSUME IInv, NEW id \in ScanIds, Export(id)
  PROVE  Open!ManagerExports(id)
<1>1. MgrView(id) \in {"ended", "given_up"}
  BY ViewCases DEF Export, IInv, Sentinels
<1>2. Quiet /\ UNCHANGED <<pool_stop, history>>
  BY QuietSteps DEF Export, manager_vars, pool_vars
<1>3. MgrMap' = MgrMap
  BY <1>2, QuietKeepsMap
<1>4. /\ id \notin exported /\ exported' = exported \cup {id}
      /\ Open!notify_export_done(root_of[id])
  BY SameCallbacks DEF Export
<1> QED
  BY <1>1, <1>2, <1>3, <1>4 DEF Open!ManagerExports, MgrMap

\* wait_to_finish() ends when the scan's last job is counted down.
LEMMA WaitedFor ==
  ASSUME IInv, NEW id \in ScanIds, NothingToWaitFor(id)
  PROVE  MgrView(id) # "taken"
<1>1. unfinished_jobs[id] = 0
  <2>1. Cardinality(QueuedJobs(id)) \in Nat
    <3>1. jobs \in Seq(ScanIds)
      BY DEF IInv, ManagerTypes
    <3> QED
      BY <3>1, PlacesAreFinite DEF QueuedJobs, PlacesIn
  <2>2. Cardinality(HeldJobs(id)) \in Nat
    BY FS_CardinalityType DEF IInv, Counting
  <2>3. unfinished_jobs[id] = Cardinality(QueuedJobs(id)) + Cardinality(HeldJobs(id))
    BY DEF IInv, Counting
  <2>4. unfinished_jobs[id] \in Nat
    BY <2>1, <2>2, <2>3
  <2>5. ~(unfinished_jobs[id] > 0) \/ unfinished_jobs[id] = 0
    BY DEF NothingToWaitFor, IInv, Registered
  <2> QED
    BY <2>4, <2>5
<1>2. id \in rooted => id \in reported \/ EndingOf(id)
  BY <1>1 DEF IInv, OneEnd, EndingOf
<1> QED
  BY <1>2, ViewCases

\* The joined workers have left nothing behind.
LEMMA NothingAfterJoin ==
  ASSUME IInv, PoolJoined, NEW id \in ScanIds
  PROVE  MgrView(id) \notin {"taken", "drained"}
<1> USE ThreadsDistinct
<1>1. jobs = <<>> /\ \A w \in Workers : at[w] = "exited" /\ scan[w] = 0
  BY PoolAssumption DEF IInv, Exited, PoolJoined, ThreadShape
<1>2. ASSUME id \in rooted PROVE id \in reported
  <2>1. at[RunThread] = "accepted" \/ scan[RunThread] # id
    BY <1>2, ScanIdsNat DEF IInv, Link, ThreadShape
  <2>2. ~EndingOf(id)
    BY <1>1, <2>1 DEF EndingOf, Ending
  <2>3. \A t \in ManagerThreads : Part(t, id) = 0
    BY <1>1, <2>1, ScanIdsNat DEF Part, Held, Stack, CountedDown, FinishPlaces
  <2>4. HeldJobs(id) = {} /\ QueuedJobs(id) = {}
    <3>1. HeldJobs(id) = {}
      BY <2>3, HeldPairs
    <3> QED
      BY <1>1, <3>1 DEF QueuedJobs
  <2>5. unfinished_jobs[id] = 0
    <3>1. unfinished_jobs[id] = Cardinality(QueuedJobs(id)) + Cardinality(HeldJobs(id))
      BY DEF IInv, Counting
    <3> QED
      BY <2>4, <3>1, FS_EmptySet
  <2> QED
    BY <1>2, <2>2, <2>5 DEF IInv, OneEnd, EndingOf
<1> QED
  BY <1>2, ViewCases

LEMMA ShutdownIsMapped ==
  ASSUME IInv, ShutdownThread
  PROVE  UNCHANGED Open!vars \/ Open!ShutdownStep
<1>0. UNCHANGED <<exported, history>>
  BY DEF ShutdownThread
<1>1. ASSUME NEW id \in ScanIds, shutdown_cancels(id), cancel_scan(id)
      PROVE  Open!ShutdownStep
  <2>1. UNCHANGED Open!mgr_vars
    BY <1>0, <1>1, QuietKinds
  <2> QED
    BY <1>1, <2>1, SameShutdown DEF Open!ShutdownStep, ScanIds, Open!ScanIds
<1>2. ASSUME \/ shutdown_canceled \/ shutdown_waited \/ shutdown_notifies
             \/ \E id \in ScanIds : shutdown_waits_for(id),
             UNCHANGED manager_vars
      PROVE  Open!ShutdownStep
  <2>1. UNCHANGED Open!mgr_vars
    BY <1>0, <1>2, QuietKinds
  <2> QED
    BY <1>2, <2>1, SameShutdown DEF Open!ShutdownStep, ScanIds, Open!ScanIds
<1>3. ASSUME PoolJoined, shutdown_joined_manager, UNCHANGED manager_vars
      PROVE  Open!ShutdownStep
  <2>1. UNCHANGED Open!mgr_vars
    BY <1>0, <1>3, QuietKinds
  <2>2. \A i \in ScanIds : MgrMap[i] \notin {"taken", "drained"}
    BY <1>3, NothingAfterJoin DEF MgrMap
  <2>3. Open!shutdown_joined_manager
    BY <1>3, SameShutdown
  <2> QED
    BY <2>1, <2>2, <2>3 DEF Open!ShutdownStep, MgrMap, ScanIds, Open!ScanIds
<1>4. ASSUME (wait_checks(sd_now) \/ wait_sleeps), UNCHANGED scheduler_vars
      PROVE  UNCHANGED Open!vars
  <2>1. UNCHANGED Open!mgr_vars
    BY <1>0, <1>4, QuietKinds
  <2> QED
    BY <1>4, <2>1, SameVars DEF Open!vars
<1>5. ASSUME sd_now # 0, wait_ends(sd_now), shutdown_finds_finished
      PROVE  Open!ShutdownStep
  <2>1. UNCHANGED Open!mgr_vars
    BY <1>0, <1>5, QuietKinds
  <2>2. sd_now \in ScanIds
    BY <1>5 DEF IInv, SchedulerTypes, ScanIds
  <2>3. MgrMap[sd_now] # "taken"
    BY <1>5, <2>2, WaitedFor DEF wait_ends, MgrMap
  <2>4. Open!shutdown_finds_finished
    BY <1>5, SameShutdown
  <2> QED
    BY <1>5, <2>1, <2>3, <2>4 DEF Open!ShutdownStep, MgrMap
<1>6. ASSUME shutdown_stops_manager, stop_pool PROVE Open!ShutdownStep
  <2>1. Quiet /\ pool_stop' = TRUE
    BY <1>6, QuietSteps DEF stop_pool
  <2>2. MgrMap' = MgrMap
    BY <1>0, <2>1, QuietKeepsMap
  <2>3. Open!shutdown_stops_manager /\ exported' = exported
    BY <1>0, <1>6, SameShutdown
  <2> QED
    BY <2>1, <2>2, <2>3 DEF Open!ShutdownStep, MgrMap
<1> QED
  BY <1>1, <1>2, <1>3, <1>4, <1>5, <1>6 DEF ShutdownThread, WaitToFinish

LEMMA FinishIsMapped ==
  ASSUME IInv, NEW t \in ManagerThreads, Finish(t)
  PROVE  \/ UNCHANGED Open!vars \/ Open!ManagerMakesRoom
         \/ \E id \in ScanIds : Open!ManagerDrains(id) \/ Open!ManagerReports(id)
<1>1. CASE make_room(t) /\ notify_dispatch_available /\ UNCHANGED <<exported, history>>
  BY <1>1, RoomIsMapped
<1>2. CASE report_finished(t) /\ notify_scan_finished(scan[t]) /\ reported' = reported \cup {scan[t]}
           /\ UNCHANGED <<exported, rooted>>
  BY <1>2, ReportIsMapped
<1>3. CASE FinishStep(t) /\ UNCHANGED <<scheduler_vars, exported, history>>
  <2>1. CASE finish_counts_down(t) /\ at'[t] = "notify_cv"
    BY <1>3, <2>1, LastJobDrains
  <2>2. CASE ~(finish_counts_down(t) /\ at'[t] = "notify_cv")
    <3>1. Steps(t) /\ (~Ending(t) \/ at[t] = "notify_cv")
      BY <1>3 DEF Steps, FinishStep, finish_counts_down, notify_waiter, unregister,
         no_dispatch_failed, dispatch_did_fail, Ending
    <3>2. ~(t = RunThread /\ submit_root_shutdown)
      BY <1>3 DEF FinishStep, finish_counts_down, notify_waiter, unregister,
         no_dispatch_failed, dispatch_did_fail, submit_root_shutdown
    <3> QED
      BY <1>3, <2>2, <3>1, <3>2, ThreadStutters
  <2> QED
    BY <2>1, <2>2
<1> QED
  BY <1>1, <1>2, <1>3 DEF Finish

LEMMA StartIsMapped ==
  ASSUME IInv, Starts
  PROVE  UNCHANGED Open!vars \/ Open!ManagerRefuses
<1>0. UNCHANGED <<scheduler_vars, exported, history>>
  BY DEF Starts
<1>1. CASE submit_root_shutdown
  BY <1>0, <1>1, RootIsRefused
<1>2. CASE ~submit_root_shutdown
  <2>1. /\ Steps(RunThread) /\ ~Ending(RunThread) /\ ~finish_counts_down(RunThread)
    BY <1>2 DEF Starts, Steps, Ending, finish_counts_down, begin_new_scan, count_root,
       submit_root_full, give_root_back
  <2> QED
    BY <1>0, <1>2, <2>1, ThreadsDistinct, ThreadStutters
<1> QED
  BY <1>1, <1>2

LEMMA JobIsMapped ==
  ASSUME IInv, NEW w \in Workers, JobStep(w), UNCHANGED <<scheduler_vars, exported, history>>
  PROVE  UNCHANGED Open!vars
<1>1. Steps(w) /\ w \in ManagerThreads /\ w # RunThread
  BY ThreadsDistinct DEF Steps
<1>2. ~Ending(w) /\ ~finish_counts_down(w)
  BY DEF JobStep, pop_job, count_child, submit_child_ok, submit_child_full,
     submit_child_shutdown, end_job, exit_worker, Ending, finish_counts_down
<1> QED
  BY <1>1, <1>2, ThreadStutters

LEMMA NextRefines == IInv /\ [Next]_vars => [Open!Next]_(Open!vars)
<1> SUFFICES ASSUME IInv, [Next]_vars PROVE UNCHANGED Open!vars \/ Open!Next
  OBVIOUS
<1> USE DEF Open!Next
<1>1. CASE UNCHANGED vars
  BY <1>1, QuietKinds, SameVars DEF vars, Open!vars
<1>2. ASSUME NEW c \in Clients, Client(c) PROVE Open!Next
  <2>1. UNCHANGED Open!mgr_vars
    BY <1>2, QuietKinds DEF Client
  <2> QED
    BY <1>2, <2>1, SameClient DEF Client, Open!cancel_returns
<1>3. CASE Run
  <2>1. CASE Starts
    BY <2>1, StartIsMapped
  <2>2. CASE RootQueued
    BY <2>2, RootIsTaken
  <2>3. CASE StartReturns
    BY <2>3, ReturnIsMapped
  <2>4. ASSUME \/ RunStep /\ UNCHANGED manager_vars
               \/ cancel_scan(run_id) /\ run_cancel_returns,
               UNCHANGED <<exported, history>>
        PROVE  Open!Next
    <3>1. UNCHANGED Open!mgr_vars
      BY <2>4, QuietKinds
    <3> QED
      BY <2>4, <3>1, SameRun DEF Open!RunLoop, Open!run_cancels
  <2> QED
    BY <1>3, <2>1, <2>2, <2>3, <2>4 DEF Run
<1>4. CASE StartThrows
  BY <1>4, ThrowIsMapped
<1>5. ASSUME NEW t \in ManagerThreads, Finish(t) PROVE UNCHANGED Open!vars \/ Open!Next
  BY <1>5, FinishIsMapped DEF ScanIds, Open!ScanIds
<1>6. ASSUME NEW w \in Workers, Worker(w) PROVE UNCHANGED Open!vars \/ Open!Next
  BY <1>5, <1>6, JobIsMapped, ThreadsDistinct DEF Worker
<1>7. CASE Shutdown
  <2>1. UNCHANGED Open!mgr_vars
    BY <1>7, QuietKinds DEF Shutdown
  <2> QED
    BY <1>7, <2>1, SameShutdown DEF Shutdown
<1>8. CASE ShutdownThread
  BY <1>8, ShutdownIsMapped
<1>9. ASSUME NEW id \in ScanIds, Export(id) PROVE Open!Next
  BY <1>9, ExportIsMapped DEF ScanIds, Open!ScanIds
<1>10. CASE SpuriousWakeup
  <2>1. UNCHANGED Open!mgr_vars
    BY <1>10, QuietKinds DEF SpuriousWakeup
  <2> QED
    BY <1>10, <2>1, SameRun, SameVars DEF SpuriousWakeup, Open!vars
<1> HIDE DEF Open!Next
<1> QED
  BY <1>1, <1>2, <1>3, <1>4, <1>5, <1>6, <1>7, <1>8, <1>9, <1>10, ThreadsDistinct DEF Next

LEMMA InitRefines == Init => Open!Init
<1> SUFFICES ASSUME Init PROVE Open!Init
  OBVIOUS
<1>1. Open!SchedulerInit
  BY DEF Init, SchedulerInit, Open!SchedulerInit, ScanIds, Open!ScanIds, NoRoot, Open!NoRoot
<1>2. MgrMap = [i \in ScanIds |-> "none"]
  <2>1. ASSUME NEW id \in ScanIds PROVE MgrView(id) = "none"
    BY ThreadsDistinct DEF Init, ManagerInit, MgrView
  <2> QED
    BY <2>1 DEF MgrMap
<1>3. pool_stop = FALSE /\ exported = {}
  BY DEF Init, ManagerInit
<1> QED
  BY <1>1, <1>2, <1>3 DEF Open!Init, MgrMap, ScanIds, Open!ScanIds

(* The Manager of the code answers, works off, reports and makes room as   *)
(* the Scheduler expects of it: every run of the two together is one of    *)
(* the Scheduler with the Manager of OpenScheduler.                        *)
THEOREM ImplementsOpenScheduler == SafeSpec => ManagerKeepsInterface
  BY AlwaysIInv, InitRefines, NextRefines, PTL DEF SafeSpec, ManagerKeepsInterface, Open!SafeSpec

-----------------------------------------------------------------------------
(* The Manager of the code under the theorems about the Scheduler *)

Scheduled == INSTANCE OpenSchedulerProofs WITH
               mgr <- [id \in ScanIds |-> MgrView(id)], manager_stopped <- pool_stop

\* The scans with a job in the pool, queued or on a worker's stack.
Walking == {id \in rooted : unfinished_jobs[id] > 0}

(* The pool walks no more than MAX_CONCURRENT_SCAN trees at a time         *)
(* (scheduler.cpp:70), and none of them overlaps with another: the limit   *)
(* and the roots are the Scheduler's, the jobs the Manager's.              *)
PoolIsShared ==
  /\ Cardinality(Walking) <= MAX_CONCURRENT_SCAN
  /\ \A i, j \in Walking : i # j =>
       /\ root_of[i] # root_of[j]
       /\ <<root_of[i], root_of[j]>> \notin Overlap \/ <<root_of[j], root_of[i]>> \notin Overlap

\* Open and Scheduled are instances of OpenScheduler by the same substitution: with
\* every definition expanded, one formula.
LEMMA SameInit == Open!Init <=> Scheduled!Init
BY DEF
       Open!ScanIds, Scheduled!ScanIds, Open!NoRoot, Scheduled!NoRoot, Open!SchedulerInit,
       Scheduled!SchedulerInit, Open!Init, Scheduled!Init

LEMMA SameState == Open!vars = Scheduled!vars /\ Open!vars' = Scheduled!vars'
BY DEF
       Open!clients, Scheduled!clients, Open!run_vars, Scheduled!run_vars, Open!sd_vars,
       Scheduled!sd_vars, Open!queue_vars, Scheduled!queue_vars, Open!fields,
       Scheduled!fields, Open!scheduler_vars, Scheduled!scheduler_vars, Open!mgr_vars,
       Scheduled!mgr_vars, Open!vars, Scheduled!vars

LEMMA SameNext == Open!Next <=> Scheduled!Next
BY DEF
       Open!ScanIds, Scheduled!ScanIds, Open!clients, Scheduled!clients, Open!run_vars,
       Scheduled!run_vars, Open!sd_vars, Scheduled!sd_vars, Open!queue_vars,
       Scheduled!queue_vars, Open!fields, Scheduled!fields, Open!scheduler_vars,
       Scheduled!scheduler_vars, Open!set_state, Scheduled!set_state, Open!wake_run,
       Scheduled!wake_run, Open!gen_scan_id, Scheduled!gen_scan_id,
       Open!check_non_overlap_path, Scheduled!check_non_overlap_path, Open!CanSubmit,
       Scheduled!CanSubmit, Open!submit_rejected, Scheduled!submit_rejected, Open!submit_ok,
       Scheduled!submit_ok, Open!Blocked, Scheduled!Blocked, Open!run_waits,
       Scheduled!run_waits, Open!run_wakes_spuriously, Scheduled!run_wakes_spuriously,
       Open!run_exits, Scheduled!run_exits, Open!CanPop, Scheduled!CanPop, Open!Front,
       Scheduled!Front, Open!count_down, Scheduled!count_down, Open!pop_if_front,
       Scheduled!pop_if_front, Open!run_skips, Scheduled!run_skips, Open!run_dispatches,
       Scheduled!run_dispatches, Open!Returned, Scheduled!Returned, Open!leaves_queue,
       Scheduled!leaves_queue, Open!run_records_running, Scheduled!run_records_running,
       Open!run_records_canceled, Scheduled!run_records_canceled, Open!run_retries_later,
       Scheduled!run_retries_later, Open!run_records_failed, Scheduled!run_records_failed,
       Open!run_finds_done, Scheduled!run_finds_done, Open!run_cancel_returns,
       Scheduled!run_cancel_returns, Open!cancel_running, Scheduled!cancel_running,
       Open!cancel_pending, Scheduled!cancel_pending, Open!cancel_call_returns,
       Scheduled!cancel_call_returns, Open!shutdown, Scheduled!shutdown, Open!sd_goto,
       Scheduled!sd_goto, Open!shutdown_cancels, Scheduled!shutdown_cancels,
       Open!shutdown_canceled, Scheduled!shutdown_canceled, Open!shutdown_waits_for,
       Scheduled!shutdown_waits_for, Open!shutdown_finds_finished,
       Scheduled!shutdown_finds_finished, Open!shutdown_waited, Scheduled!shutdown_waited,
       Open!shutdown_stops_manager, Scheduled!shutdown_stops_manager,
       Open!shutdown_joined_manager, Scheduled!shutdown_joined_manager,
       Open!shutdown_notifies, Scheduled!shutdown_notifies, Open!start_new_scan_returns,
       Scheduled!start_new_scan_returns, Open!notify_scan_finished,
       Scheduled!notify_scan_finished, Open!notify_dispatch_available,
       Scheduled!notify_dispatch_available, Open!notify_export_done,
       Scheduled!notify_export_done, Open!ClientStep, Scheduled!ClientStep, Open!RunStep,
       Scheduled!RunStep, Open!mgr_vars, Scheduled!mgr_vars, Open!vars, Scheduled!vars,
       Open!set_mgr, Scheduled!set_mgr, Open!ManagerTakes, Scheduled!ManagerTakes,
       Open!ManagerRefuses, Scheduled!ManagerRefuses, Open!AnswersAfter,
       Scheduled!AnswersAfter, Open!ManagerAnswers, Scheduled!ManagerAnswers,
       Open!ManagerDrains, Scheduled!ManagerDrains, Open!ManagerReports,
       Scheduled!ManagerReports, Open!ManagerMakesRoom, Scheduled!ManagerMakesRoom,
       Open!ManagerExports, Scheduled!ManagerExports, Open!cancel_returns,
       Scheduled!cancel_returns, Open!run_cancels, Scheduled!run_cancels, Open!ShutdownStep,
       Scheduled!ShutdownStep, Open!RunLoop, Scheduled!RunLoop, Open!Next, Scheduled!Next

LEMMA RunsScheduler == SafeSpec => Scheduled!SafeSpec
<1>1. [Open!Next]_(Open!vars) => [Scheduled!Next]_(Scheduled!vars)
  BY SameState, SameNext
<1> QED
  BY <1>1, ImplementsOpenScheduler, SameInit, PTL
     DEF ManagerKeepsInterface, Open!SafeSpec, Scheduled!SafeSpec

\* What is assumed of the constants is what the theorems about the Scheduler need.
LEMMA AboutScheduler ==
  /\ Scheduled!SafeSpec => []Scheduled!TypeOK
  /\ Scheduled!SafeSpec => []Scheduled!ConcurrencyLimit
  /\ Scheduled!SafeSpec => []Scheduled!NoOverlappingScans
  /\ Scheduled!SafeSpec => Scheduled!PublicLifecycle
<1>1. Scheduled!NoRoot = NoRoot
  BY DEF Scheduled!NoRoot, NoRoot
<1> USE NoRootAssumption, LimitsAssumption, OverlapAssumption
<1>2. Scheduled!SafeSpec => []Scheduled!TypeOK
  BY <1>1, Scheduled!TypeCorrect
<1>3. Scheduled!SafeSpec => []Scheduled!ConcurrencyLimit
  BY <1>1, Scheduled!LimitHolds
<1>4. Scheduled!SafeSpec => []Scheduled!NoOverlappingScans
  BY <1>1, Scheduled!RootsNeverOverlap
<1>5. Scheduled!SafeSpec => Scheduled!PublicLifecycle
  BY <1>1, Scheduled!ShowsScanLifecycle
<1> QED
  BY <1>2, <1>3, <1>4, <1>5

\* Only what has a sentinel is exported.
LEMMA Exports ==
  ASSUME [Next]_vars
  PROVE  UNCHANGED exported \/ \E id \in ScanIds : sentinels[id] # "none" /\ exported' = exported \cup {id}
BY DEF Next, Client, Run, Starts, RootQueued, StartReturns, StartThrows, Finish, Worker,
   Shutdown, ShutdownThread, Export, SpuriousWakeup, vars

ExportedAreReported == exported \subseteq reported

LEMMA ExportsReported == IInv /\ ExportedAreReported /\ [Next]_vars => ExportedAreReported'
<1> SUFFICES ASSUME IInv, ExportedAreReported, [Next]_vars PROVE ExportedAreReported'
  OBVIOUS
<1>1. UNCHANGED reported \/ \E id : reported' = reported \cup {id}
  BY DEF Next, Client, Run, Starts, RootQueued, StartReturns, StartThrows, Finish, Worker,
         Shutdown, ShutdownThread, Export, SpuriousWakeup, vars, history
<1> QED
  BY Exports, <1>1 DEF IInv, Sentinels, ExportedAreReported

(* In the daemon's pool: the scans with a job left are at most             *)
(* MAX_CONCURRENT_SCAN and walk trees that do not overlap, however the     *)
(* threads of the Manager interleave with submissions, cancels, retries    *)
(* after a full queue and the shutdown (scheduler.cpp:26-170,              *)
(* manager.cpp:59-241).                                                    *)
THEOREM PoolKeepsLimits == SafeSpec => []PoolIsShared
<1>1. SafeSpec => [](Scheduled!ConcurrencyLimit /\ Scheduled!NoOverlappingScans)
  BY RunsScheduler, AboutScheduler, PTL
<1>2. SafeSpec => []ExportedAreReported
  <2>1. Init => ExportedAreReported
    BY DEF Init, ExportedAreReported
  <2> QED
    BY <2>1, ExportsReported, AlwaysIInv, PTL DEF SafeSpec
<1>3. ASSUME IInv, ExportedAreReported, Scheduled!ConcurrencyLimit,
             Scheduled!NoOverlappingScans
      PROVE  PoolIsShared
  <2>1. ASSUME NEW id \in Walking
        PROVE  /\ id \in ScanIds /\ MgrView(id) \in {"taken", "drained"}
               /\ state_map[id] # "NONE" /\ id \notin exported
    <3>1. id \in rooted /\ unfinished_jobs[id] > 0
      BY DEF Walking
    <3>2. id \in ScanIds /\ id \notin reported /\ state_map[id] # "NONE"
      BY <1>3, <3>1 DEF IInv, Link, OneEnd, Settled
    <3> QED
      BY <1>3, <3>1, <3>2, ViewCases DEF ExportedAreReported
  <2> DEFINE InPool == {i \in ScanIds : Scheduled!InManager(i)}
  <2>2. Walking \subseteq InPool /\ Walking \subseteq Scheduled!Unexported
    BY <2>1 DEF Scheduled!InManager, Scheduled!Unexported, Scheduled!ScanIds, ScanIds
  <2>3. Cardinality(Walking) <= MAX_CONCURRENT_SCAN
    <3>1. IsFiniteSet(InPool) /\ Cardinality(InPool) \in Nat
      <4>1. IsFiniteSet(ScanIds) /\ InPool \subseteq ScanIds
        BY LimitsAssumption, FS_Interval DEF ScanIds
      <4> HIDE DEF InPool
      <4> QED
        BY <4>1, FS_Subset, FS_CardinalityType
    <3>2. Cardinality(InPool) <= MAX_CONCURRENT_SCAN
      BY <1>3 DEF Scheduled!ConcurrencyLimit, Scheduled!ScanIds, ScanIds, Scheduled!Cardinality,
         Cardinality
    <3> HIDE DEF InPool
    <3>3. Cardinality(Walking) <= Cardinality(InPool) /\ Cardinality(Walking) \in Nat
      BY <2>2, <3>1, FS_Subset, FS_CardinalityType
    <3> QED
      BY <3>1, <3>2, <3>3, LimitsAssumption
  <2> QED
    BY <1>3, <2>2, <2>3 DEF PoolIsShared, Scheduled!NoOverlappingScans
<1> QED
  BY <1>1, <1>2, <1>3, AlwaysIInv, PTL

(* To a client the two together are ScanLifecycle, with the Manager of the *)
(* code in the place of its interface: what GET /state shows are scans     *)
(* that start in the order of submission, at most MAX_CONCURRENT_SCAN at   *)
(* a time, and end once (scheduler.cpp:54-344).                            *)
THEOREM ManagerShowsLifecycle == SafeSpec => Scheduled!PublicLifecycle
BY RunsScheduler, AboutScheduler, PTL

-----------------------------------------------------------------------------
(* The types of the Manager's fields *)

\* What IInv leaves out of them.
Fields ==
  /\ registry \in SUBSET ScanIds /\ canceled \in SUBSET ScanIds /\ truncated \in SUBSET ScanIds
  /\ dispatch_failed \in BOOLEAN /\ pool_stop \in BOOLEAN
  /\ waiter \in {"awake", "checked", "asleep"}
  /\ exported \in SUBSET ScanIds

\* A call from outside the Manager's threads.
Calls ==
  \/ UNCHANGED manager_vars \/ stop_pool \/ wait_sleeps
  \/ \E id : cancel_scan(id) \/ wait_checks(id) \/ wait_ends(id)
  \/ /\ manager_cv_notify
     /\ UNCHANGED <<registry, ctx_vars, dispatch_failed, scan_jobs_unfinished,
                    pool_vars, thread_vars, tree_vars, sentinels>>

LEMMA StepsOrCalls == [Next]_vars => Calls \/ \E t \in ManagerThreads : Steps(t)
<1> SUFFICES ASSUME [Next]_vars PROVE Calls \/ \E t \in ManagerThreads : Steps(t)
  OBVIOUS
<1>1. ASSUME NEW t \in ManagerThreads, Finish(t) PROVE Steps(t)
  BY <1>1 DEF Finish, Steps
<1>2. ASSUME NEW w \in Workers, Worker(w) PROVE w \in ManagerThreads /\ Steps(w)
  BY <1>1, <1>2, ThreadsDistinct DEF Worker, Steps
<1>3. CASE Starts \/ RootQueued \/ StartReturns
  BY <1>3, ThreadsDistinct DEF Starts, RootQueued, StartReturns, Steps
<1>4. CASE (\E c \in Clients : Client(c)) \/ StartThrows \/ Shutdown \/ ShutdownThread
           \/ (\E id \in ScanIds : Export(id)) \/ SpuriousWakeup \/ UNCHANGED vars
  BY <1>4 DEF Client, StartThrows, Shutdown, ShutdownThread, WaitToFinish, Export,
     SpuriousWakeup, Calls, vars
<1>5. CASE Run /\ ~(Starts \/ RootQueued \/ StartReturns)
  BY <1>5 DEF Run, Calls
<1> QED
  BY <1>1, <1>2, <1>3, <1>4, <1>5, ThreadsDistinct DEF Next

LEMMA StepFields ==
  ASSUME IInv, Fields, NEW t \in ManagerThreads, Steps(t)
  PROVE  /\ registry' \in SUBSET ScanIds /\ truncated' \in SUBSET ScanIds
         /\ UNCHANGED <<canceled, pool_stop>>
         /\ dispatch_failed' \in {dispatch_failed, TRUE, FALSE}
         /\ waiter' \in {waiter, "awake"}
<1> USE DEF ctx_vars, pool_vars, tree_vars, thread_vars
<1>0. /\ ManagerTypes /\ ThreadShape
      /\ registry \in SUBSET ScanIds /\ truncated \in SUBSET ScanIds
      /\ run_pc = "dispatch" => run_id \in ScanIds
  BY DEF IInv, Fields, SchedulerTypes
<1>1. at[t] \notin {"idle", "exited"} => scan[t] \in ScanIds
  BY <1>0, BusyHasScan
<1>2. CASE t = RunThread /\ \/ run_pc = "dispatch" /\ begin_new_scan(run_id)
                            \/ unregister_root
  BY <1>0, <1>2 DEF begin_new_scan, unregister_root
<1>3. CASE t = RunThread /\ \/ count_root \/ submit_root_ok \/ submit_root_full \/ give_root_back
                            \/ return_from_start("accepted") \/ return_from_start("refused")
  BY <1>0, <1>3 DEF count_root, submit_root_ok, submit_root_full, give_root_back,
     return_from_start, add_unfinished
<1>4. CASE t = RunThread /\ submit_root_shutdown
  BY <1>0, <1>1, <1>4 DEF submit_root_shutdown
<1>5. CASE pop_job(t)
  <2>1. jobs[Len(jobs)] \in ScanIds
    <3>1. Len(jobs) \in 1 .. Len(jobs)
      BY <1>0, <1>5, EmptySeq DEF pop_job, ManagerTypes
    <3> QED
      BY <1>0, <3>1, ElementOfSeq DEF ManagerTypes
  <2> QED
    BY <1>0, <1>5, <2>1 DEF pop_job, begin_job
<1>6. CASE count_child(t) \/ submit_child_ok(t) \/ exit_worker(t)
  BY <1>0, <1>6 DEF count_child, submit_child_ok, exit_worker, add_unfinished
<1>7. CASE submit_child_full(t) \/ submit_child_shutdown(t) \/ end_job(t)
  BY <1>0, <1>1, <1>7 DEF submit_child_full, submit_child_shutdown, end_job, begin_job
<1>8. CASE finish_counts_down(t) \/ notify_waiter(t) \/ report_finished(t) \/ unregister(t)
  BY <1>0, <1>8 DEF finish_counts_down, notify_waiter, report_finished, unregister,
     manager_cv_notify
<1>9. CASE no_dispatch_failed(t) \/ dispatch_did_fail(t) \/ make_room(t)
  BY <1>0, <1>9 DEF no_dispatch_failed, dispatch_did_fail, make_room, finish_returns
<1> QED
  BY <1>2, <1>3, <1>4, <1>5, <1>6, <1>7, <1>8, <1>9 DEF Steps, JobStep, FinishStep

LEMMA NextFields == IInv /\ Fields /\ [Next]_vars => Fields'
<1> SUFFICES ASSUME IInv, Fields, [Next]_vars PROVE Fields'
  OBVIOUS
<1>1. exported' \in SUBSET ScanIds
  BY Exports DEF Fields
<1>2. ASSUME NEW t \in ManagerThreads, Steps(t) PROVE Fields'
  BY <1>1, <1>2, StepFields DEF Fields
<1>3. CASE Calls
  <2>1. UNCHANGED <<registry, truncated, dispatch_failed>> /\ canceled' \subseteq canceled \cup registry
    BY <1>3 DEF Calls, manager_vars, ctx_vars, tree_vars, stop_pool, wait_sleeps, cancel_scan,
       wait_checks, wait_ends
  <2>2. waiter' \in {waiter, "awake", "checked", "asleep"}
    BY <1>3 DEF Calls, manager_vars, stop_pool, wait_sleeps, cancel_scan, wait_checks, wait_ends,
       manager_cv_notify
  <2>3. UNCHANGED pool_stop \/ pool_stop' = TRUE
    BY <1>3 DEF Calls, manager_vars, pool_vars, stop_pool, wait_sleeps, cancel_scan, wait_checks,
       wait_ends
  <2> QED
    BY <1>1, <2>1, <2>2, <2>3 DEF Fields
<1> QED
  BY <1>2, <1>3, StepsOrCalls

(* The Scheduler's and the Manager's fields have their types, and no       *)
(* counter of jobs is ever negative (scan_system/manager.h).               *)
THEOREM TypeCorrect == SafeSpec => []TypeOK
<1>1. Init => Fields
  BY DEF Init, ManagerInit, Fields
<1>2. SafeSpec => []Fields
  BY <1>1, NextFields, AlwaysIInv, PTL DEF SafeSpec
<1>3. SafeSpec => []Scheduled!TypeOK
  BY RunsScheduler, AboutScheduler, PTL
<1>4. ASSUME IInv, Fields, Scheduled!TypeOK PROVE TypeOK
  <2>1. SchedulerTypeOK
    <3>1. Scheduled!NoRoot = NoRoot
      BY DEF Scheduled!NoRoot, NoRoot
    <3> QED
      BY <1>4, <3>1 DEF Scheduled!TypeOK, Scheduled!SchedulerTypeOK, SchedulerTypeOK,
         Scheduled!ScanIds, ScanIds, Scheduled!RequestState, RequestState
  <2>2. ASSUME NEW id \in Scans PROVE unfinished_jobs[id] \in Nat
    <3>1. id \in ScanIds /\ jobs \in Seq(ScanIds) /\ IsFiniteSet(HeldJobs(id))
      BY <1>4, <2>2, ConnectionAssumption DEF IInv, ManagerTypes, Counting
    <3>2. Cardinality(QueuedJobs(id)) \in Nat /\ Cardinality(HeldJobs(id)) \in Nat
      BY <3>1, PlacesAreFinite, FS_CardinalityType DEF QueuedJobs, PlacesIn
    <3> QED
      BY <1>4, <3>1, <3>2 DEF IInv, Counting
  <2>3. scan_jobs_unfinished \in Nat
    <3>1. Len(jobs) \in Nat /\ Cardinality(Stacks) \in Nat
      BY <1>4, FS_CardinalityType, LenProperties DEF IInv, Counting, ManagerTypes
    <3> QED
      BY <1>4, <3>1 DEF IInv, Counting
  <2>4. ManagerTypeOK
    <3>1. unfinished_jobs \in [Scans -> Nat]
      BY <1>4, <2>2, ConnectionAssumption DEF IInv, ManagerTypes
    <3> QED
      BY <1>4, <2>3, <3>1, ConnectionAssumption DEF IInv, ManagerTypes, ManagerTypeOK, Fields
  <2>5. rooted \in SUBSET ScanIds /\ reported \in SUBSET ScanIds
    BY <1>4 DEF IInv, Link
  <2> QED
    BY <1>4, <2>1, <2>4, <2>5 DEF TypeOK, Fields
<1> QED
  BY <1>2, <1>3, <1>4, AlwaysIInv, PTL

=============================================================================
