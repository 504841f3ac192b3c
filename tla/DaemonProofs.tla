------------------------------ MODULE DaemonProofs -----------------------------
(***************************************************************************)
(* Proofs about the whole process, for any number of connections, workers, *)
(* roots and scans: to the Scheduler inside it the daemon is one of the    *)
(* environments OpenScheduler allows, the HTTP server is only told to stop *)
(* when the scans have ended, and every descriptor of a client has one     *)
(* owner until it is answered and closed.                                  *)
(***************************************************************************)
EXTENDS Daemon, OpenSchedulerProofs, WellFoundedInduction

-----------------------------------------------------------------------------
(* The daemon's steps are steps of the Scheduler and its Manager           *)

LEMMA DaemonStep == [DaemonNext]_all_vars => [Next]_vars
<1> SUFFICES ASSUME [DaemonNext]_all_vars PROVE [Next]_vars
  OBVIOUS
<1>1. CASE HttpStep
  BY <1>1 DEF HttpStep
<1>2. ASSUME NEW w \in Workers, WorkerStep(w) PROVE [Next]_vars
  <2>1. w \in Clients
    BY ClientsAreWorkers
  <2>2. CASE response_scan(w)
    BY <2>1, <2>2 DEF response_scan, Next, ClientStep
  <2>3. CASE response_cancel(w)
    BY <2>1, <2>3 DEF response_cancel, Next, ClientStep
  <2>4. CASE (PoolStep(w) /\ UNCHANGED <<vars, daemon_vars>>) \/ response_shutdown(w)
             \/ response_error(w)
    BY <2>4 DEF response_shutdown, response_error
  <2> QED
    BY <1>2, <2>2, <2>3, <2>4 DEF WorkerStep
<1>3. CASE MainStep
  BY <1>3 DEF MainStep, wakes_up, drains_server, shuts_down_scheduler, shutdown_returns,
              polls_zero, polls_in_vain, closes_server, joins_threads, Next
<1>4. CASE SchedulerStep
  BY <1>4 DEF SchedulerStep, Next
<1>5. CASE terminate_handler \/ UNCHANGED all_vars
  BY <1>5 DEF terminate_handler, all_vars
<1> QED
  BY <1>1, <1>2, <1>3, <1>4, <1>5 DEF DaemonNext

(* Whatever the server, its workers and the main thread do, the Scheduler  *)
(* sees clients, a shutdown and a Manager as OpenScheduler has them        *)
(* (daemon.cpp:20-37), so all that is proved there holds in the daemon.    *)
THEOREM DaemonRunsScheduler == DaemonSpec => SafeSpec
<1>1. DaemonInit => Init
  BY DEF DaemonInit
<1> QED
  BY <1>1, DaemonStep, PTL DEF DaemonSpec, SafeSpec

(* Two cases of it: under any load of requests and at any stop, roots that *)
(* overlap are kept apart, and the pool has jobs of no more scans than     *)
(* MAX_CONCURRENT_SCAN (scheduler.cpp:366, :70).                           *)
THEOREM DaemonBoundsScans == DaemonSpec => [](NoOverlappingScans /\ ConcurrencyLimit)
<1>1. SafeSpec => [](NoOverlappingScans /\ ConcurrencyLimit)
  BY RootsNeverOverlap, LimitHolds, PTL
<1> QED
  BY <1>1, DaemonRunsScheduler, PTL

(* And what GET /state answers is a behaviour of ScanLifecycle, whatever   *)
(* is requested through whichever workers, and however the process stops:  *)
(* scans start in the order of submission, never more than                 *)
(* MAX_CONCURRENT_SCAN run, an end is final (scheduler.cpp:54-170).        *)
THEOREM DaemonShowsLifecycle == DaemonSpec => PublicLifecycle
BY DaemonRunsScheduler, ShowsScanLifecycle, PTL

-----------------------------------------------------------------------------
(* Stopping the server *)

StagesOfMain ==
  /\ main_pc \in {"poll", "close", "join", "exit"} => sd = "done"
  /\ http_stop => main_pc \in {"join", "exit"}

LEMMA NextStagesOfMain == StagesOfMain /\ [DaemonNext]_all_vars => StagesOfMain'
<1> SUFFICES ASSUME StagesOfMain, [DaemonNext]_all_vars PROVE StagesOfMain'
  OBVIOUS
<1> USE DEF StagesOfMain, vars, scheduler_vars, sd_vars, http_vars, flags, daemon_vars
<1>1. CASE UNCHANGED <<main_pc, sd, http_stop>>
  BY <1>1
<1>2. CASE HttpStep
  BY <1>1, <1>2 DEF HttpStep, connect, HttpRunStep, run_begins, setup_server_socket,
     setup_fails, start_pool, start_pool_fails, looks_at_stop, copies_server_fd, accept_ok,
     accept_fails, setup_client_socket_fails, submit_fd, submit_full, answers_busy, closes_busy,
     stops_pool, joins_pool
<1>3. ASSUME NEW w \in Workers, PoolStep(w) PROVE UNCHANGED http_stop
  BY <1>3 DEF PoolStep, pop_fd, worker_exits, read_request, read_fails, answers_at_once,
     router_refuses, response_state, opens_database, closes_database, response_call,
     write_response, close_client
<1>4. ASSUME NEW w \in Workers, WorkerStep(w) PROVE UNCHANGED <<main_pc, sd, http_stop>>
  BY <1>3, <1>4 DEF WorkerStep, response_shutdown, response_scan, response_cancel,
     response_error, answers_at_once, call_returns, gen_scan_id, submit_rejected, submit_ok,
     cancel_running, cancel_pending, cancel_returns, cancel_call_returns
<1>5. CASE MainStep
  BY <1>5 DEF MainStep, wakes_up, drains_server, shuts_down_scheduler, shutdown_returns,
     polls_zero, polls_in_vain, closes_server, joins_threads, main_goto, drain, shutdown
<1>6. CASE SchedulerStep /\ UNCHANGED <<http_vars, daemon_vars>>
  <2>1. CASE ShutdownStep
    BY <1>6, <2>1 DEF ShutdownStep, shutdown_cancels, shutdown_waits_for, shutdown_canceled,
       shutdown_finds_finished, shutdown_waited, shutdown_joined_manager, shutdown_notifies,
       shutdown_stops_manager, sd_goto
  <2>2. CASE RunLoop \/ run_wakes_spuriously
    BY <1>1, <1>6, <2>2 DEF RunLoop, RunStep, run_waits, run_exits, run_skips, run_dispatches,
       Returned, run_records_running, run_records_canceled, run_retries_later,
       run_records_failed, run_finds_done, run_cancels, run_cancel_returns,
       run_wakes_spuriously
  <2>3. CASE ManagerStep
    BY <1>1, <1>6, <2>3 DEF ManagerStep, ManagerTakes, ManagerRefuses, ManagerAnswers,
       ManagerReports, start_new_scan_returns, ManagerMakesRoom, notify_dispatch_available,
       ManagerDrains, notify_scan_finished, ManagerExports, notify_export_done
  <2> QED
    BY <1>6, <2>1, <2>2, <2>3 DEF SchedulerStep, ManagerStep
<1>7. CASE terminate_handler \/ UNCHANGED all_vars
  BY <1>1, <1>7 DEF terminate_handler, all_vars
<1> QED
  BY <1>1, <1>2, <1>4, <1>5, <1>6, <1>7 DEF DaemonNext

(* The server is only told to stop (daemon.cpp:35) when every scan that    *)
(* was ever accepted has reached an end and the Manager's pool is empty;   *)
(* nothing is accepted later, although the server still routes requests.   *)
THEOREM ServerOutlivesScans == DaemonSpec => []ScansEndBeforeServer
<1>1. DaemonInit => EndInv /\ StagesOfMain
  BY InitEnd DEF DaemonInit, HttpInit, StagesOfMain
<1>2. EndInv /\ StagesOfMain /\ [DaemonNext]_all_vars => EndInv' /\ StagesOfMain'
  BY DaemonStep, NextEnd, NextStagesOfMain
<1>3. EndInv /\ StagesOfMain => ScansEndBeforeServer
  <2> SUFFICES ASSUME EndInv, StagesOfMain, http_stop, NEW id \in ScanIds
               PROVE  /\ state_map[id] \in {"NONE", "DONE", "CANCELED", "DROPPED", "FAILED"}
                      /\ ~InManager(id)
    BY DEF ScansEndBeforeServer
  <2>1. stop_flag /\ ~InManager(id)
    BY DEF EndInv, StagesOfShutdown, StagesOfMain
  <2>2. state_map[id] \in RequestState \cup {"NONE"}
    BY DEF EndInv, QueueInv, TypeInv, TypeOK, SchedulerTypeOK
  <2>3. state_map[id] \notin {"PENDING", "DISPATCHING", "RUNNING"}
    BY <2>1 DEF EndInv, StopEndsScans
  <2> QED
    BY <2>1, <2>2, <2>3 DEF RequestState
<1> QED
  BY <1>1, <1>2, <1>3, PTL DEF DaemonSpec

-----------------------------------------------------------------------------
(* Who has which descriptor *)

Has(s, x) == \E k \in DOMAIN s : s[k] = x
NoRepeat(s) == \A j, k \in DOMAIN s : s[j] = s[k] => j = k

\* Where run() and the workers are when they hold a client's descriptor.
HttpPlaces ==
  /\ client_fd # NoFd <=> http_pc \in {"submit", "busy", "close"}
  /\ \A w \in Workers : worker_fd[w] # NoFd <=> HoldsClient(w)
  /\ http_pc \in {"begin", "setup", "start_pool"} =>
       fd_queue = <<>> /\ \A w \in Workers : worker_pc[w] = "none"
  /\ http_pc \in {"begin", "setup"} => \A f \in Fds : open[f] # "server"
  /\ pool_stop => http_pc \in {"join", "exit"}
  /\ \A w \in Workers : worker_pc[w] = "exit" => pool_stop /\ fd_queue = <<>>
  /\ http_pc = "exit" =>
       fd_queue = <<>> /\ \A w \in Workers : worker_pc[w] \in {"none", "exit"}

\* run(), the queue or one worker has it, and no two of them.
Owned ==
  /\ client_fd # NoFd => open[client_fd] \in Connections /\ ~Has(fd_queue, client_fd)
  /\ NoRepeat(fd_queue) /\ \A f \in Fds : Has(fd_queue, f) => open[f] \in Connections
  /\ \A w \in Workers : HoldsClient(w) =>
       /\ open[worker_fd[w]] \in Connections
       /\ worker_fd[w] # client_fd /\ ~Has(fd_queue, worker_fd[w])
       /\ \A v \in Workers : HoldsClient(v) /\ worker_fd[v] = worker_fd[w] => v = w
  /\ \A f \in Fds : open[f] \in Connections =>
       \/ client_fd = f \/ Has(fd_queue, f)
       \/ \E w \in Workers : HoldsClient(w) /\ worker_fd[w] = f

\* What the kernel has given out, and what it holds back.
Kernel ==
  /\ server_socket_fd # NoFd => open[server_socket_fd] = "server"
  /\ \A f, g \in Fds : open[f] = open[g] /\ open[f] \in Connections \cup {"server"} => f = g
  /\ \A f \in Fds : open[f] \in Connections => conn[open[f]] = "accepted"
  /\ NoRepeat(backlog) /\ \A c \in Connections : Has(backlog, c) => conn[c] = "waiting"

\* A connection is answered right before its descriptor is closed.
Answering ==
  /\ client_fd # NoFd => answers[open[client_fd]] = (IF http_pc = "close" THEN 1 ELSE 0)
  /\ \A f \in Fds : Has(fd_queue, f) => answers[open[f]] = 0
  /\ \A w \in Workers : HoldsClient(w) =>
       answers[open[worker_fd[w]]] = (IF worker_pc[w] = "close" THEN 1 ELSE 0)
  /\ \A c \in Connections : (\A f \in Fds : open[f] # c) =>
       answers[c] = (IF conn[c] = "accepted" THEN 1 ELSE 0)

HttpInv == HttpTypeOK /\ HttpPlaces /\ Owned /\ Kernel /\ Answering

LEMMA HasAppended ==
  ASSUME NEW S, NEW s \in Seq(S), NEW e \in S
  PROVE  /\ \A x : Has(Append(s, e), x) <=> Has(s, x) \/ x = e
         /\ NoRepeat(s) /\ ~Has(s, e) => NoRepeat(Append(s, e))
<1>1. /\ DOMAIN s = 1..Len(s) /\ DOMAIN Append(s, e) = 1..(Len(s) + 1) /\ Len(s) \in Nat
      /\ \A i \in 1..Len(s) : Append(s, e)[i] = s[i]
      /\ Append(s, e)[Len(s) + 1] = e
  BY AppendProperties, LenProperties
<1> DEFINE t == Append(s, e)
<1> HIDE DEF t
<1>2. /\ DOMAIN t = DOMAIN s \cup {Len(s) + 1} /\ Len(s) + 1 \notin DOMAIN s
      /\ \A i \in DOMAIN s : t[i] = s[i]
      /\ t[Len(s) + 1] = e
  BY <1>1 DEF t
<1> QED
  BY <1>2 DEF Has, NoRepeat, t

LEMMA HasTail ==
  ASSUME NEW S, NEW s \in Seq(S), s # <<>>
  PROVE  /\ Has(s, Head(s)) /\ Head(s) \in S
         /\ \A x : Has(Tail(s), x) => Has(s, x)
         /\ \A x : Has(s, x) => x = Head(s) \/ Has(Tail(s), x)
         /\ NoRepeat(s) => NoRepeat(Tail(s)) /\ ~Has(Tail(s), Head(s))
<1>1. /\ Len(s) \in Nat \ {0} /\ DOMAIN s = 1..Len(s) /\ DOMAIN Tail(s) = 1..(Len(s) - 1)
      /\ \A i \in 1..(Len(s) - 1) : Tail(s)[i] = s[i + 1]
      /\ Head(s) \in S /\ Head(s) = s[1]
  BY HeadTailProperties, LenProperties, EmptySeq
<1> DEFINE t == Tail(s)  h == Head(s)
<1>2. Has(s, h)
  BY <1>1 DEF Has
<1>3. /\ \A i \in DOMAIN t : i + 1 \in DOMAIN s /\ i + 1 # 1 /\ t[i] = s[i + 1]
      /\ \A i \in DOMAIN s : i = 1 \/ (i - 1 \in DOMAIN t /\ t[i - 1] = s[i])
      /\ \A i, j \in DOMAIN t : i + 1 = j + 1 => i = j
      /\ h = s[1] /\ 1 \in DOMAIN s
  BY <1>1
<1> HIDE DEF t, h
<1>4. \A x : Has(t, x) => Has(s, x)
  BY <1>3 DEF Has
<1>5. \A x : Has(s, x) => x = h \/ Has(t, x)
  BY <1>3 DEF Has
<1>6. NoRepeat(s) => NoRepeat(t) /\ ~Has(t, h)
  BY <1>3 DEF Has, NoRepeat
<1> QED
  BY <1>1, <1>2, <1>4, <1>5, <1>6 DEF t, h

LEMMA HasMinimum ==
  ASSUME NEW T, T \subseteq Nat, IsFiniteSet(T), T # {}
  PROVE  \E x \in T : \A y \in T : x <= y
<1> DEFINE Below(x) == {y \in T : y <= x}
           U == {Below(x) : x \in T}
<1>1. U \subseteq FiniteSubsetsOf(T) /\ U # {}
  <2>1. ASSUME NEW x \in T PROVE Below(x) \in SUBSET T /\ IsFiniteSet(Below(x))
    <3>1. Below(x) \in SUBSET T
      OBVIOUS
    <3> QED
      BY <3>1, FS_Subset
  <2> QED
    BY <2>1 DEF FiniteSubsetsOf
<1>2. IsWellFoundedOn(StrictSubsetOrdering(T), FiniteSubsetsOf(T))
  BY FS_StrictSubsetOrderingWellFounded
<1>3. \E u \in U : \A v \in U : ~ (<<v, u>> \in StrictSubsetOrdering(T))
  <2> DEFINE R == StrictSubsetOrdering(T)  S == FiniteSubsetsOf(T)
  <2>1. IsWellFoundedOn(R, S) /\ U \subseteq S /\ U # {}
    BY <1>1, <1>2
  <2> HIDE DEF U, R, S
  <2>2. \E u \in U : \A v \in U : ~ (<<v, u>> \in R)
    BY <2>1, WFMin
  <2> QED
    BY <2>2 DEF R
<1>4. PICK x \in T : \A v \in U : ~ (<<v, Below(x)>> \in StrictSubsetOrdering(T))
  BY <1>3
<1>5. ASSUME NEW z \in T, z < x PROVE FALSE
  <2>0. \A y \in T : y \in Nat
    OBVIOUS
  <2>1. Below(z) \subseteq Below(x) /\ x \notin Below(z) /\ x \in Below(x)
    <3>1. x <= x /\ ~(x <= z) /\ \A y \in T : y <= z => y <= x
      BY <1>5, <2>0
    <3> QED
      BY <3>1
  <2>2. <<Below(z), Below(x)>> \in StrictSubsetOrdering(T)
    BY <2>1 DEF StrictSubsetOrdering
  <2> QED
    BY <1>4, <2>2
<1> QED
  BY <1>5

\* The kernel's choice is a descriptor that was free, and no other changes.
LEMMA Opened ==
  ASSUME HttpTypeOK, NEW what, opens(what)
  PROVE  /\ lowest_free \in Fds /\ open[lowest_free] = "free"
         /\ \A f \in Fds : open'[f] = IF f = lowest_free THEN what ELSE open[f]
         /\ open' = [open EXCEPT ![lowest_free] = what]
<1> DEFINE T == {f \in Fds : open[f] = "free"}
<1>1. T \subseteq Nat /\ T # {}
  BY FdsAssumption DEF opens
<1>2. IsFiniteSet(T)
  BY FdsAssumption, FS_Subset
<1>3. \E x \in T : \A y \in T : x <= y
  <2> HIDE DEF T
  <2> QED BY <1>1, <1>2, HasMinimum
<1>4. lowest_free \in Fds /\ open[lowest_free] = "free"
  BY <1>3 DEF lowest_free
<1> QED
  BY <1>4 DEF opens, HttpTypeOK

-----------------------------------------------------------------------------
(* The steps of the server *)

HttpMove ==
  \/ HttpRunStep \/ connect \/ drain \/ http_shutdown \/ UNCHANGED http_vars
  \/ \E w \in Workers : PoolStep(w) \/ answers_at_once(w) \/ call_returns(w)

LEMMA HttpMoves == [DaemonNext]_all_vars => HttpMove
<1> SUFFICES ASSUME [DaemonNext]_all_vars PROVE HttpMove
  OBVIOUS
<1>1. CASE HttpStep
  BY <1>1 DEF HttpStep, HttpMove
<1>2. ASSUME NEW w \in Workers, WorkerStep(w) PROVE HttpMove
  <2>1. CASE response_scan(w)
    BY <2>1 DEF response_scan, HttpMove
  <2>2. CASE response_cancel(w)
    BY <2>2 DEF response_cancel, HttpMove
  <2> QED
    BY <1>2, <2>1, <2>2 DEF WorkerStep, response_shutdown, response_error, HttpMove
<1>3. CASE MainStep
  BY <1>3 DEF MainStep, wakes_up, drains_server, shuts_down_scheduler, shutdown_returns,
              polls_zero, polls_in_vain, closes_server, joins_threads, HttpMove
<1> QED
  BY <1>1, <1>2, <1>3 DEF DaemonNext, terminate_handler, all_vars, HttpMove

LEMMA NextHttpType == HttpTypeOK /\ HttpPlaces /\ HttpMove => HttpTypeOK'
<1> SUFFICES ASSUME HttpTypeOK, HttpPlaces, HttpMove PROVE HttpTypeOK'
  OBVIOUS
<1> USE DEF HttpTypeOK, http_vars, flags, net_vars, http_run_vars, pool_vars, http_goto,
            worker_goto
<1>1. CASE connect
  BY <1>1, AppendProperties DEF connect
<1>2. CASE HttpRunStep
  <2>1. CASE setup_server_socket
    <3>1. lowest_free \in Fds
      BY <2>1, Opened DEF setup_server_socket
    <3> QED
      BY <2>1, <3>1 DEF setup_server_socket, opens
  <2>2. CASE accept_ok
    <3>1. lowest_free \in Fds /\ Head(backlog) \in Connections /\ Tail(backlog) \in Seq(Connections)
      BY <2>2, Opened, HeadTailProperties DEF accept_ok
    <3> QED
      BY <2>2, <3>1 DEF accept_ok, opens
  <2>3. CASE submit_fd
    <3>1. client_fd \in Fds
      BY <2>3 DEF submit_fd, HttpPlaces
    <3> QED
      BY <2>3, <3>1, AppendProperties DEF submit_fd
  <2>4. CASE answers_busy
    BY <2>4 DEF answers_busy, sends
  <2>5. CASE setup_client_socket_fails \/ closes_busy
    BY <2>5 DEF setup_client_socket_fails, closes_busy, closes
  <2> QED
    BY <1>2, <2>1, <2>2, <2>3, <2>4, <2>5 DEF HttpRunStep, run_begins, setup_fails, start_pool,
       start_pool_fails, looks_at_stop, copies_server_fd, accept_fails, submit_full, stops_pool,
       joins_pool
<1>3. CASE drain \/ http_shutdown \/ UNCHANGED http_vars
  <2>1. CASE http_shutdown
    <3>1. /\ open' \in [Fds -> Connections \cup {"free", "server", "database"}]
          /\ conn' \in [Connections -> {"none", "waiting", "accepted", "dropped"}]
          /\ backlog' \in Seq(Connections)
      BY <2>1 DEF http_shutdown
    <3> QED
      BY <2>1, <3>1 DEF http_shutdown
  <2> QED
    BY <1>3, <2>1 DEF drain
<1>4. ASSUME NEW w \in Workers, PoolStep(w) \/ answers_at_once(w) \/ call_returns(w)
      PROVE HttpTypeOK'
  <2>1. CASE pop_fd(w)
    BY <2>1, HeadTailProperties DEF pop_fd
  <2>2. CASE write_response(w)
    BY <2>2 DEF write_response, sends
  <2>3. CASE opens_database(w) \/ closes_database(w) \/ close_client(w)
    BY ZenonT(30), <2>3 DEF opens_database, closes_database, close_client, opens, closes
  <2>4. CASE worker_exits(w) \/ read_request(w) \/ read_fails(w)
    BY ZenonT(30), <2>4 DEF worker_exits, read_request, read_fails
  <2>5. CASE response_call(w) \/ answers_at_once(w) \/ call_returns(w)
    BY ZenonT(30), <2>5 DEF response_call, answers_at_once, call_returns
  <2> QED
    BY <1>4, <2>1, <2>2, <2>3, <2>4, <2>5 DEF PoolStep, router_refuses, response_state
<1> QED
  BY <1>1, <1>2, <1>3, <1>4 DEF HttpMove

LEMMA NextHttpPlaces == HttpTypeOK /\ HttpPlaces /\ HttpMove => HttpPlaces'
<1> SUFFICES ASSUME HttpTypeOK, HttpPlaces, HttpMove PROVE HttpPlaces'
  OBVIOUS
<1> USE DEF HttpPlaces, HoldsClient, http_vars, flags, net_vars, http_run_vars, pool_vars,
            http_goto, worker_goto
<1>0. worker_pc \in [Workers -> {"none", "pop", "read", "respond", "call", "query",
                                  "write", "close", "exit"}]
      /\ worker_fd \in [Workers -> Fds \cup {NoFd}] /\ NoFd \notin Fds
  BY FdsAssumption DEF HttpTypeOK, NoFd
<1>1. CASE HttpRunStep
  <2>1. CASE setup_server_socket
    BY <2>1 DEF setup_server_socket
  <2>2. CASE accept_ok
    <3>1. lowest_free \in Fds
      BY <2>2, Opened DEF accept_ok
    <3> QED
      BY <1>0, <2>2, <3>1 DEF accept_ok
  <2>3. CASE setup_client_socket_fails \/ closes_busy \/ submit_fd
    BY <2>3 DEF setup_client_socket_fails, closes_busy, submit_fd
  <2>4. CASE joins_pool
    BY <2>4, WorkersAssumption DEF joins_pool
  <2>5. CASE start_pool
    BY <2>5 DEF start_pool
  <2> QED
    BY <1>1, <2>1, <2>2, <2>3, <2>4, <2>5 DEF HttpRunStep, run_begins, setup_fails,
       start_pool_fails, looks_at_stop, copies_server_fd, accept_fails, submit_full,
       answers_busy, stops_pool
<1>2. CASE connect \/ drain \/ UNCHANGED http_vars
  BY <1>2 DEF connect, drain
<1>3. CASE http_shutdown
  <2>1. \A f \in Fds : open'[f] = "server" => open[f] = "server"
    BY <1>3 DEF http_shutdown
  <2> QED
    BY <1>3, <2>1 DEF http_shutdown
<1>4. ASSUME NEW w \in Workers, PoolStep(w) \/ answers_at_once(w) \/ call_returns(w)
      PROVE HttpPlaces'
  <2>1. CASE pop_fd(w)
    <3>1. Head(fd_queue) \in Fds
      BY <2>1, HeadTailProperties DEF pop_fd, HttpTypeOK
    <3> QED
      BY <1>0, <2>1, <3>1 DEF pop_fd
  <2>2. CASE write_response(w) \/ worker_exits(w)
    BY <1>0, <2>2 DEF write_response, worker_exits
  <2>3. CASE opens_database(w)
    BY <1>0, <2>3 DEF opens_database
  <2>4. CASE closes_database(w)
    BY <1>0, <2>4 DEF closes_database
  <2>5. CASE close_client(w)
    BY <1>0, <2>5 DEF close_client
  <2>6. CASE read_request(w) \/ read_fails(w)
    BY <1>0, <2>6 DEF read_request, read_fails
  <2>7. CASE response_call(w) \/ answers_at_once(w) \/ call_returns(w)
    BY <1>0, <2>7 DEF response_call, answers_at_once, call_returns
  <2> QED
    BY <1>4, <2>1, <2>2, <2>3, <2>4, <2>5, <2>6, <2>7 DEF PoolStep, router_refuses, response_state
<1> QED
  BY <1>1, <1>2, <1>3, <1>4 DEF HttpMove

-----------------------------------------------------------------------------
(* What each step does to the descriptors *)

Ownership == Owned /\ Kernel /\ Answering

\* What every step below starts from.
LEMMA Numbers ==
  HttpInv =>
    /\ NoFd \notin Fds /\ "free" \notin Connections /\ "server" \notin Connections
    /\ "database" \notin Connections
    /\ open \in [Fds -> Connections \cup {"free", "server", "database"}]
    /\ conn \in [Connections -> {"none", "waiting", "accepted", "dropped"}]
    /\ answers \in [Connections -> Nat]
    /\ server_socket_fd \in Fds \cup {NoFd} /\ client_fd \in Fds \cup {NoFd}
    /\ worker_fd \in [Workers -> Fds \cup {NoFd}]
    /\ \A w \in Workers : worker_fd[w] \in Fds <=> HoldsClient(w)
    /\ \A f : Has(fd_queue, f) => f \in Fds
    /\ \A c : Has(backlog, c) => c \in Connections
BY FdsAssumption, ConnectionsAssumption, LenProperties
   DEF HttpInv, HttpTypeOK, HttpPlaces, NoFd, Has

\* A step that moves neither a descriptor nor a connection.
LEMMA NothingMoves ==
  ASSUME HttpInv, UNCHANGED <<net_vars, server_socket_fd, client_fd, fd_queue, worker_fd>>,
         http_pc' = "close" <=> http_pc = "close",
         \A w \in Workers : /\ HoldsClient(w)' <=> HoldsClient(w)
                            /\ worker_pc'[w] = "close" <=> worker_pc[w] = "close"
  PROVE  Ownership'
<1>1. UNCHANGED <<open, conn, backlog, answers>>
  BY DEF net_vars
<1>2. Owned'
  BY <1>1 DEF HttpInv, Owned
<1>3. Kernel'
  BY <1>1 DEF HttpInv, Kernel
<1>4. Answering'
  BY <1>1 DEF HttpInv, Answering
<1> QED
  BY <1>2, <1>3, <1>4 DEF Ownership

\* A descriptor is opened that is no client's.
LEMMA OpensOwn ==
  ASSUME HttpInv, NEW what \in {"server", "database"}, opens(what),
         what = "server" => (\A f \in Fds : open[f] # "server") /\ server_socket_fd' = lowest_free,
         what = "database" => UNCHANGED server_socket_fd,
         UNCHANGED <<conn, backlog, answers, client_fd, fd_queue, worker_fd>>,
         http_pc' = "close" <=> http_pc = "close",
         \A w \in Workers : /\ HoldsClient(w)' <=> HoldsClient(w)
                            /\ worker_pc'[w] = "close" <=> worker_pc[w] = "close"
  PROVE  Ownership'
<1> DEFINE n == lowest_free
<1>1. /\ n \in Fds /\ open[n] = "free"
      /\ \A f \in Fds : open'[f] = IF f = n THEN what ELSE open[f]
  BY Opened DEF HttpInv
<1> HIDE DEF n
<1>2. \A f \in Fds : open[f] \in Connections \/ open'[f] \in Connections => open'[f] = open[f]
  BY <1>1, Numbers
<1>3. Owned'
  BY <1>2, Numbers DEF HttpInv, Owned
<1>4. Kernel'
  BY <1>1, <1>2, Numbers DEF HttpInv, Kernel, n
<1>5. Answering'
  <2>1. \A f \in Fds, c \in Connections : open'[f] = c <=> open[f] = c
    BY <1>2
  <2>2. /\ client_fd # NoFd => open'[client_fd] = open[client_fd]
        /\ \A f \in Fds : Has(fd_queue, f) => open'[f] = open[f]
        /\ \A w \in Workers : HoldsClient(w) => open'[worker_fd[w]] = open[worker_fd[w]]
    BY <1>2, Numbers DEF HttpInv, Owned
  <2> QED
    BY <2>1, <2>2 DEF HttpInv, Answering
<1> QED
  BY <1>3, <1>4, <1>5 DEF Ownership

\* A descriptor is closed that is no client's.
LEMMA ClosesOwn ==
  ASSUME HttpInv,
         \A f \in Fds : open'[f] # open[f] =>
           open[f] \in {"server", "database"} /\ open'[f] = "free",
         server_socket_fd' = NoFd \/ (server_socket_fd' = server_socket_fd
           /\ \A f \in Fds : open[f] = "server" => open'[f] = "server"),
         UNCHANGED <<answers, client_fd, fd_queue, worker_fd>>,
         \A c \in Connections : conn'[c] = "accepted" <=> conn[c] = "accepted",
         NoRepeat(backlog'), \A c \in Connections : Has(backlog', c) => conn'[c] = "waiting",
         http_pc' = "close" <=> http_pc = "close",
         \A w \in Workers : /\ HoldsClient(w)' <=> HoldsClient(w)
                            /\ worker_pc'[w] = "close" <=> worker_pc[w] = "close"
  PROVE  Ownership'
<1>2. \A f \in Fds : open[f] \in Connections \/ open'[f] \in Connections => open'[f] = open[f]
  BY Numbers
<1>3. Owned'
  BY <1>2, Numbers DEF HttpInv, Owned
<1>4. Kernel'
  BY <1>2, Numbers DEF HttpInv, Kernel
<1>5. Answering'
  <2>1. \A f \in Fds, c \in Connections : open'[f] = c <=> open[f] = c
    BY <1>2
  <2>2. /\ client_fd # NoFd => open'[client_fd] = open[client_fd]
        /\ \A f \in Fds : Has(fd_queue, f) => open'[f] = open[f]
        /\ \A w \in Workers : HoldsClient(w) => open'[worker_fd[w]] = open[worker_fd[w]]
    BY <1>2, Numbers DEF HttpInv, Owned
  <2> QED
    BY <2>1, <2>2 DEF HttpInv, Answering
<1> QED
  BY <1>3, <1>4, <1>5 DEF Ownership

LEMMA NextConnect == HttpInv /\ connect => Ownership'
<1> SUFFICES ASSUME HttpInv, connect PROVE Ownership'
  OBVIOUS
<1> DEFINE c == CHOOSE c \in Connections : conn[c] = "none"
<1>1. /\ c \in Connections /\ conn[c] = "none"
      /\ conn' = [conn EXCEPT ![c] = "waiting"] /\ backlog' = Append(backlog, c)
      /\ UNCHANGED <<open, answers, server_socket_fd, client_fd, fd_queue, http_pc, worker_pc,
                     worker_fd>>
  BY DEF connect, flags, http_run_vars, pool_vars
<1> HIDE DEF c
<1>2. /\ \A b : Has(backlog', b) <=> Has(backlog, b) \/ b = c
      /\ NoRepeat(backlog) /\ ~Has(backlog, c) => NoRepeat(backlog')
  BY <1>1, HasAppended DEF HttpInv, HttpTypeOK
<1>3. Owned'
  BY <1>1 DEF HttpInv, Owned, HoldsClient
<1>4. Kernel'
  BY <1>1, <1>2, Numbers DEF HttpInv, Kernel
<1>5. Answering'
  BY <1>1, Numbers DEF HttpInv, Answering, HoldsClient
<1> QED
  BY <1>3, <1>4, <1>5 DEF Ownership

\* run() has the new connection, on a number that nobody uses.
LEMMA NextAccept == HttpInv /\ accept_ok => Ownership'
<1> SUFFICES ASSUME HttpInv, accept_ok PROVE Ownership'
  OBVIOUS
<1> DEFINE n == lowest_free  c == Head(backlog)
<1>1. /\ n \in Fds /\ open[n] = "free" /\ client_fd' = n
      /\ \A f \in Fds : open'[f] = IF f = n THEN c ELSE open[f]
      /\ open' = [open EXCEPT ![n] = c]
      /\ conn' = [conn EXCEPT ![c] = "accepted"]
      /\ http_pc = "accept" /\ http_pc' = "submit"
      /\ UNCHANGED <<answers, server_socket_fd, fd_queue, worker_pc, worker_fd>>
  BY Opened DEF HttpInv, accept_ok, flags, pool_vars, http_goto
<1>2. /\ c \in Connections /\ Has(backlog, c) /\ ~Has(backlog', c)
      /\ NoRepeat(backlog') /\ \A b : Has(backlog', b) => Has(backlog, b)
  BY HasTail DEF HttpInv, HttpTypeOK, accept_ok, Kernel
<1> HIDE DEF n, c
<1>3. /\ conn[c] = "waiting" /\ answers[c] = 0
      /\ client_fd = NoFd /\ \A f \in Fds : open[f] # c
  <2>1. conn[c] = "waiting" /\ \A f \in Fds : open[f] # c
    BY <1>2 DEF HttpInv, Kernel
  <2> QED
    BY <1>1, <1>2, <2>1 DEF HttpInv, Answering, HttpPlaces
<1>4. ~Has(fd_queue, n) /\ \A w \in Workers : HoldsClient(w) => worker_fd[w] # n
  BY <1>1, Numbers DEF HttpInv, Owned
<1>5. Owned'
  BY <1>1, <1>2, <1>3, <1>4, Numbers DEF HttpInv, Owned, HoldsClient
<1>6. Kernel'
  BY <1>1, <1>2, <1>3, Numbers DEF HttpInv, Kernel
<1>7. Answering'
  <2>1. /\ \A f \in Fds : Has(fd_queue, f) => open'[f] = open[f]
        /\ \A w \in Workers : HoldsClient(w) => open'[worker_fd[w]] = open[worker_fd[w]]
    BY <1>1, <1>4, Numbers
  <2>2. \A b \in Connections : (\A f \in Fds : open'[f] # b) =>
          b # c /\ (\A f \in Fds : open[f] # b) /\ conn'[b] = conn[b]
    BY <1>1, <1>2, Numbers
  <2>3. open'[client_fd'] = c /\ http_pc' # "close"
    BY <1>1
  <2> QED
    BY <1>1, <1>3, <2>1, <2>2, <2>3 DEF HttpInv, Answering, HoldsClient
<1> QED
  BY <1>5, <1>6, <1>7 DEF Ownership

\* run() closes what it holds: a connection it answered, or one it gives up.
LEMMA NextRunCloses == HttpInv /\ (setup_client_socket_fails \/ closes_busy) => Ownership'
<1> SUFFICES ASSUME HttpInv, setup_client_socket_fails \/ closes_busy PROVE Ownership'
  OBVIOUS
<1> DEFINE f0 == client_fd  c == open[client_fd]
<1>1. /\ f0 \in Fds /\ c \in Connections /\ ~Has(fd_queue, f0)
      /\ \A w \in Workers : HoldsClient(w) => worker_fd[w] # f0
  BY Numbers DEF HttpInv, Owned, HttpPlaces, setup_client_socket_fails, closes_busy, http_goto
<1>2. /\ \A f \in Fds : open'[f] = IF f = f0 THEN "free" ELSE open[f]
      /\ client_fd' = NoFd /\ http_pc' = "loop"
      /\ UNCHANGED <<answers, backlog, server_socket_fd, fd_queue, worker_pc, worker_fd>>
      /\ \/ http_pc = "submit" /\ conn' = [conn EXCEPT ![c] = "dropped"]
         \/ http_pc = "close" /\ conn' = conn
  BY <1>1, Numbers DEF setup_client_socket_fails, closes_busy, closes, http_goto, flags, pool_vars
<1>3. \A f \in Fds : open[f] = c => f = f0
  BY <1>1 DEF HttpInv, Kernel
<1>4. /\ conn[c] = "accepted" /\ ~Has(backlog, c)
      /\ answers[c] = IF http_pc = "close" THEN 1 ELSE 0
  BY <1>1, Numbers DEF HttpInv, Kernel, Answering
<1>5. answers[c] = IF conn'[c] = "accepted" THEN 1 ELSE 0
  BY <1>1, <1>2, <1>4, Numbers
<1>6. \A b \in Connections : b # c => conn'[b] = conn[b]
  BY <1>2, Numbers
<1>7. client_fd = f0 /\ open[f0] = c
  OBVIOUS
<1> HIDE DEF f0, c
<1>8. Owned'
  BY <1>1, <1>2, <1>7, Numbers DEF HttpInv, Owned, HoldsClient
<1>9. Kernel'
  <2>1. server_socket_fd' # NoFd => open'[server_socket_fd'] = "server"
    BY <1>1, <1>2, <1>7, Numbers DEF HttpInv, Kernel
  <2>2. \A f \in Fds : open'[f] \in Connections \cup {"server"} => open'[f] = open[f] /\ f # f0
    BY <1>2, Numbers
  <2>3. \A f \in Fds : open'[f] \in Connections => conn'[open'[f]] = "accepted"
    BY <1>3, <1>6, <2>2 DEF HttpInv, Kernel
  <2>4. \A b \in Connections : Has(backlog', b) => conn'[b] = "waiting"
    BY <1>2, <1>4, <1>6 DEF HttpInv, Kernel
  <2> QED
    BY <1>2, <2>1, <2>2, <2>3, <2>4 DEF HttpInv, Kernel
<1>10. Answering'
  <2>1. /\ \A f \in Fds : Has(fd_queue, f) => open'[f] = open[f]
        /\ \A w \in Workers : HoldsClient(w) => open'[worker_fd[w]] = open[worker_fd[w]]
    BY <1>1, <1>2, Numbers
  <2>2. ASSUME NEW b \in Connections, \A f \in Fds : open'[f] # b
        PROVE  answers[b] = IF conn'[b] = "accepted" THEN 1 ELSE 0
    <3>1. CASE b = c
      BY <3>1, <1>5
    <3>2. CASE b # c
      <4>1. \A f \in Fds : open[f] # b
        BY <1>2, <1>7, <2>2, <3>2
      <4> QED
        BY <1>6, <3>2, <4>1 DEF HttpInv, Answering
    <3> QED
      BY <3>1, <3>2
  <2> QED
    BY <1>2, <2>1, <2>2 DEF HttpInv, Answering, HoldsClient
<1> QED
  BY <1>8, <1>9, <1>10 DEF Ownership

\* From run() to the queue.
LEMMA NextSubmit == HttpInv /\ submit_fd => Ownership'
<1> SUFFICES ASSUME HttpInv, submit_fd PROVE Ownership'
  OBVIOUS
<1>1. /\ client_fd \in Fds /\ client_fd' = NoFd /\ http_pc = "submit" /\ http_pc' = "loop"
      /\ fd_queue' = Append(fd_queue, client_fd)
      /\ UNCHANGED <<open, conn, backlog, answers, server_socket_fd, worker_pc, worker_fd>>
  BY Numbers DEF HttpInv, HttpPlaces, submit_fd, http_goto, flags, net_vars
<1>2. /\ \A f : Has(fd_queue', f) <=> Has(fd_queue, f) \/ f = client_fd
      /\ NoRepeat(fd_queue) /\ ~Has(fd_queue, client_fd) => NoRepeat(fd_queue')
  BY <1>1, HasAppended DEF HttpInv, HttpTypeOK
<1>3. Owned'
  BY <1>1, <1>2, Numbers DEF HttpInv, Owned, HoldsClient
<1>4. Kernel'
  BY <1>1 DEF HttpInv, Kernel
<1>5. Answering'
  BY <1>1, <1>2, Numbers DEF HttpInv, Answering, HoldsClient
<1> QED
  BY <1>3, <1>4, <1>5 DEF Ownership

\* From the queue to a worker.
LEMMA NextPop == ASSUME NEW w \in Workers PROVE HttpInv /\ pop_fd(w) => Ownership'
<1> SUFFICES ASSUME HttpInv, pop_fd(w) PROVE Ownership'
  OBVIOUS
<1> DEFINE h == Head(fd_queue)
<1>1. /\ worker_pc[w] = "pop" /\ worker_pc' = [worker_pc EXCEPT ![w] = "read"]
      /\ worker_fd' = [worker_fd EXCEPT ![w] = h]
      /\ UNCHANGED <<open, conn, backlog, answers, server_socket_fd, client_fd, http_pc>>
  BY DEF pop_fd, worker_goto, flags, net_vars, http_run_vars
<1>2. /\ h \in Fds /\ Has(fd_queue, h) /\ ~Has(fd_queue', h) /\ NoRepeat(fd_queue')
      /\ \A f : Has(fd_queue', f) => Has(fd_queue, f)
      /\ \A f : Has(fd_queue, f) => f = h \/ Has(fd_queue', f)
  BY HasTail DEF HttpInv, HttpTypeOK, Owned, pop_fd
<1> HIDE DEF h
<1>3. /\ \A v \in Workers : HoldsClient(v)' <=> HoldsClient(v) \/ v = w
      /\ \A v \in Workers : v # w => worker_fd'[v] = worker_fd[v] /\ worker_pc'[v] = worker_pc[v]
      /\ worker_fd'[w] = h /\ worker_pc'[w] = "read" /\ ~HoldsClient(w)
  BY <1>1 DEF HttpInv, HttpTypeOK, HoldsClient
<1>4. Owned'
  BY <1>1, <1>2, <1>3, Numbers DEF HttpInv, Owned
<1>5. Kernel'
  BY <1>1 DEF HttpInv, Kernel
<1>6. Answering'
  BY <1>1, <1>2, <1>3, Numbers DEF HttpInv, Answering
<1> QED
  BY <1>4, <1>5, <1>6 DEF Ownership

\* 429 from run(), which then has it to close.
LEMMA NextAnswersBusy == HttpInv /\ answers_busy => Ownership'
<1> SUFFICES ASSUME HttpInv, answers_busy PROVE Ownership'
  OBVIOUS
<1>1. /\ client_fd \in Fds /\ http_pc = "busy" /\ http_pc' = "close"
      /\ UNCHANGED <<open, conn, backlog, server_socket_fd, client_fd, fd_queue, worker_pc,
                     worker_fd>>
  BY Numbers DEF HttpInv, HttpPlaces, answers_busy, http_goto, flags, pool_vars
<1>2. /\ open[client_fd] \in Connections /\ ~Has(fd_queue, client_fd)
      /\ \A w \in Workers : HoldsClient(w) => worker_fd[w] # client_fd
      /\ \A f \in Fds : f # client_fd => open[f] # open[client_fd]
  BY <1>1, Numbers DEF HttpInv, Owned, Kernel
<1>3. answers' = [answers EXCEPT ![open[client_fd]] = @ + 1] /\ answers[open[client_fd]] = 0
  BY <1>1, <1>2, Numbers DEF answers_busy, sends, HttpInv, Answering
<1>4. Owned'
  BY <1>1 DEF HttpInv, Owned, HoldsClient
<1>5. Kernel'
  BY <1>1 DEF HttpInv, Kernel
<1>6. Answering'
  BY <1>1, <1>2, <1>3, Numbers DEF HttpInv, Answering, HoldsClient
<1> QED
  BY <1>4, <1>5, <1>6 DEF Ownership

\* A worker answers what it has, then closes it.
LEMMA NextWrite == ASSUME NEW w \in Workers PROVE HttpInv /\ write_response(w) => Ownership'
<1> SUFFICES ASSUME HttpInv, write_response(w) PROVE Ownership'
  OBVIOUS
<1> DEFINE f0 == worker_fd[w]
<1>1. /\ worker_pc[w] = "write" /\ worker_pc' = [worker_pc EXCEPT ![w] = "close"]
      /\ UNCHANGED <<open, conn, backlog, server_socket_fd, client_fd, fd_queue, http_pc,
                     worker_fd>>
  BY DEF write_response, worker_goto, flags, http_run_vars
<1>2. /\ f0 \in Fds /\ open[f0] \in Connections /\ ~Has(fd_queue, f0) /\ client_fd # f0
      /\ \A v \in Workers : HoldsClient(v) /\ v # w => worker_fd[v] # f0
      /\ \A f \in Fds : f # f0 => open[f] # open[f0]
  BY <1>1, Numbers DEF HttpInv, Owned, Kernel, HoldsClient
<1>3. answers' = [answers EXCEPT ![open[f0]] = @ + 1] /\ answers[open[f0]] = 0
  BY <1>1, <1>2 DEF write_response, sends, HttpInv, Answering, HoldsClient
<1>4. /\ \A v \in Workers : HoldsClient(v)' <=> HoldsClient(v)
      /\ \A v \in Workers : v # w => worker_pc'[v] = worker_pc[v]
      /\ worker_pc'[w] = "close" /\ HoldsClient(w)
  BY <1>1 DEF HttpInv, HttpTypeOK, HoldsClient
<1>5. Owned'
  BY <1>1, <1>4 DEF HttpInv, Owned
<1>6. Kernel'
  BY <1>1 DEF HttpInv, Kernel
<1>7. Answering'
  BY <1>1, <1>2, <1>3, <1>4, Numbers DEF HttpInv, Answering
<1> QED
  BY <1>5, <1>6, <1>7 DEF Ownership

LEMMA NextClose == ASSUME NEW w \in Workers PROVE HttpInv /\ close_client(w) => Ownership'
<1> SUFFICES ASSUME HttpInv, close_client(w) PROVE Ownership'
  OBVIOUS
<1> DEFINE f0 == worker_fd[w]  c == open[f0]
<1>1. /\ worker_pc[w] = "close" /\ worker_pc' = [worker_pc EXCEPT ![w] = "pop"]
      /\ worker_fd' = [worker_fd EXCEPT ![w] = NoFd]
      /\ UNCHANGED <<conn, backlog, answers, server_socket_fd, client_fd, fd_queue, http_pc>>
  BY DEF close_client, worker_goto, flags, http_run_vars
<1>2. /\ f0 \in Fds /\ c \in Connections /\ ~Has(fd_queue, f0) /\ client_fd # f0
      /\ \A v \in Workers : HoldsClient(v) /\ v # w => worker_fd[v] # f0
      /\ \A f \in Fds : f # f0 => open[f] # c
      /\ conn[c] = "accepted" /\ answers[c] = 1
  BY <1>1, Numbers DEF HttpInv, Owned, Kernel, Answering, HoldsClient
<1>3. \A f \in Fds : open'[f] = IF f = f0 THEN "free" ELSE open[f]
  BY <1>2, Numbers DEF close_client, closes
<1>4. /\ \A v \in Workers : HoldsClient(v)' <=> HoldsClient(v) /\ v # w
      /\ \A v \in Workers : v # w => worker_pc'[v] = worker_pc[v] /\ worker_fd'[v] = worker_fd[v]
      /\ HoldsClient(w)
  BY <1>1 DEF HttpInv, HttpTypeOK, HoldsClient
<1>5. open[f0] = c /\ worker_fd[w] = f0
  OBVIOUS
<1> HIDE DEF f0, c
<1>6. Owned'
  BY <1>1, <1>2, <1>3, <1>4, <1>5, Numbers DEF HttpInv, Owned
<1>7. Kernel'
  <2>1. server_socket_fd' # NoFd => open'[server_socket_fd'] = "server"
    BY <1>1, <1>2, <1>3, <1>5, Numbers DEF HttpInv, Kernel
  <2>2. \A f \in Fds : open'[f] \in Connections \cup {"server"} => open'[f] = open[f]
    BY <1>3, Numbers
  <2> QED
    BY <1>1, <2>1, <2>2 DEF HttpInv, Kernel
<1>8. Answering'
  <2>1. /\ \A f \in Fds : Has(fd_queue, f) => open'[f] = open[f]
        /\ client_fd # NoFd => open'[client_fd] = open[client_fd]
        /\ \A v \in Workers : HoldsClient(v)' => open'[worker_fd[v]] = open[worker_fd[v]]
    BY <1>2, <1>3, <1>4, Numbers
  <2>2. ASSUME NEW b \in Connections, \A f \in Fds : open'[f] # b
        PROVE  answers[b] = IF conn[b] = "accepted" THEN 1 ELSE 0
    <3>1. CASE b = c
      BY <3>1, <1>2
    <3>2. CASE b # c
      <4>1. \A f \in Fds : open[f] # b
        BY <1>3, <1>5, <2>2, <3>2
      <4> QED
        BY <3>2, <4>1 DEF HttpInv, Answering
    <3> QED
      BY <3>1, <3>2
  <2> QED
    BY <1>1, <1>4, <2>1, <2>2 DEF HttpInv, Answering
<1> QED
  BY <1>6, <1>7, <1>8 DEF Ownership

LEMMA NextOwnership == HttpInv /\ HttpMove => Ownership'
<1> SUFFICES ASSUME HttpInv, HttpMove PROVE Ownership'
  OBVIOUS
<1> USE DEF flags, net_vars, http_run_vars, pool_vars, http_goto, worker_goto
<1>0. worker_pc \in [Workers -> {"none", "pop", "read", "respond", "call", "query",
                                  "write", "close", "exit"}]
  BY DEF HttpInv, HttpTypeOK
<1>1. CASE HttpRunStep
  <2>1. CASE setup_server_socket
    <3>1. \A f \in Fds : open[f] # "server"
      BY <2>1 DEF setup_server_socket, HttpInv, HttpPlaces
    <3> QED
      BY <2>1, <3>1, OpensOwn DEF setup_server_socket, HoldsClient
  <2>2. CASE start_pool
    <3>1. \A w \in Workers : worker_pc[w] = "none"
      BY <2>2 DEF start_pool, HttpInv, HttpPlaces
    <3> QED
      BY <2>2, <3>1, NothingMoves DEF start_pool, HoldsClient
  <2>3. CASE \/ run_begins \/ setup_fails \/ start_pool_fails \/ looks_at_stop
             \/ copies_server_fd \/ accept_fails \/ submit_full \/ stops_pool \/ joins_pool
    <3>1. /\ UNCHANGED <<open, conn, backlog, answers, server_socket_fd, client_fd, fd_queue,
                         worker_pc, worker_fd>>
          /\ http_pc' # "close" /\ http_pc # "close"
      BY <2>3 DEF run_begins, setup_fails, start_pool_fails, looks_at_stop, copies_server_fd,
         accept_fails, submit_full, stops_pool, joins_pool
    <3> QED
      BY <3>1, NothingMoves DEF HoldsClient
  <2> QED
    BY <1>1, <2>1, <2>2, <2>3, NextAccept, NextRunCloses, NextSubmit, NextAnswersBusy
       DEF HttpRunStep
<1>2. CASE drain \/ UNCHANGED http_vars
  BY <1>2, NothingMoves DEF drain, http_vars, HoldsClient
<1>3. CASE http_shutdown
  <2>1. \A f \in Fds : open'[f] # open[f] =>
          open[f] \in {"server", "database"} /\ open'[f] = "free"
    BY <1>3, Numbers DEF http_shutdown, HttpInv, Kernel
  <2>2. /\ \A c \in Connections : conn'[c] = "accepted" <=> conn[c] = "accepted"
        /\ NoRepeat(backlog')
        /\ \A c \in Connections : Has(backlog', c) => conn'[c] = "waiting"
    BY <1>3 DEF http_shutdown, NoRepeat, Has
  <2> QED
    BY <1>3, <2>1, <2>2, ClosesOwn DEF http_shutdown, HoldsClient
<1>4. ASSUME NEW w \in Workers, PoolStep(w) \/ answers_at_once(w) \/ call_returns(w)
      PROVE  Ownership'
  <2>1. CASE opens_database(w)
    <3>1. \A v \in Workers : /\ HoldsClient(v)' <=> HoldsClient(v)
                             /\ worker_pc'[v] = "close" <=> worker_pc[v] = "close"
      BY <1>0, <2>1 DEF opens_database, HoldsClient
    <3> QED
      BY <2>1, <3>1, OpensOwn DEF opens_database
  <2>2. CASE closes_database(w)
    <3>1. \A v \in Workers : /\ HoldsClient(v)' <=> HoldsClient(v)
                             /\ worker_pc'[v] = "close" <=> worker_pc[v] = "close"
      BY <1>0, <2>2 DEF closes_database, HoldsClient
    <3>2. /\ \A f \in Fds : open'[f] # open[f] => open[f] = "database" /\ open'[f] = "free"
          /\ \A f \in Fds : open[f] = "server" => open'[f] = "server"
      BY <2>2, Numbers DEF closes_database, closes
    <3>3. UNCHANGED <<conn, backlog, answers, server_socket_fd, client_fd, fd_queue, worker_fd,
                      http_pc>>
      BY <2>2 DEF closes_database
    <3>4. /\ \A c \in Connections : conn'[c] = "accepted" <=> conn[c] = "accepted"
          /\ NoRepeat(backlog')
          /\ \A c \in Connections : Has(backlog', c) => conn'[c] = "waiting"
      BY <3>3 DEF HttpInv, Kernel
    <3> QED
      BY <3>1, <3>2, <3>3, <3>4, ClosesOwn
  <2>3. CASE \/ worker_exits(w) \/ read_request(w) \/ read_fails(w) \/ response_call(w)
             \/ answers_at_once(w) \/ call_returns(w)
    <3>1. \A v \in Workers : /\ HoldsClient(v)' <=> HoldsClient(v)
                             /\ worker_pc'[v] = "close" <=> worker_pc[v] = "close"
      BY <1>0, <2>3 DEF worker_exits, read_request, read_fails, response_call, answers_at_once,
         call_returns, HoldsClient
    <3>2. UNCHANGED <<open, conn, backlog, answers, server_socket_fd, client_fd, fd_queue,
                      worker_fd, http_pc>>
      BY <2>3 DEF worker_exits, read_request, read_fails, response_call, answers_at_once,
         call_returns
    <3> QED
      BY <3>1, <3>2, NothingMoves
  <2> QED
    BY <1>4, <2>1, <2>2, <2>3, NextPop, NextWrite, NextClose
       DEF PoolStep, router_refuses, response_state
<1> QED
  BY <1>1, <1>2, <1>3, <1>4, NextConnect DEF HttpMove

LEMMA InitHttp == HttpInit => HttpInv
<1> SUFFICES ASSUME HttpInit PROVE HttpInv
  OBVIOUS
<1> USE DEF HttpInit
<1>1. \A x : ~Has(<<>>, x) /\ NoRepeat(<<>>)
  BY DEF Has, NoRepeat
<1>2. HttpTypeOK
  <2>1. <<>> \in Seq(Connections) /\ <<>> \in Seq(Fds)
    OBVIOUS
  <2>2. /\ open \in [Fds -> Connections \cup {"free", "server", "database"}]
        /\ answers \in [Connections -> Nat]
        /\ worker_pc \in [Workers -> {"none", "pop", "read", "respond", "call", "query",
                                      "write", "close", "exit"}]
        /\ worker_fd \in [Workers -> Fds \cup {NoFd}]
        /\ request \in [Workers -> Routes \cup {"none"}]
        /\ conn \in [Connections -> {"none", "waiting", "accepted", "dropped"}]
    OBVIOUS
  <2> QED
    BY <2>1, <2>2 DEF HttpTypeOK
<1>3. HttpPlaces
  BY DEF HttpPlaces, HoldsClient
<1>4. Owned
  BY <1>1, ConnectionsAssumption DEF Owned, HoldsClient
<1>5. Kernel
  BY <1>1, ConnectionsAssumption DEF Kernel
<1>6. Answering
  BY <1>1, ConnectionsAssumption DEF Answering, HoldsClient
<1> QED
  BY <1>2, <1>3, <1>4, <1>5, <1>6 DEF HttpInv

LEMMA NextHttp == HttpInv /\ [DaemonNext]_all_vars => HttpInv'
BY HttpMoves, NextHttpType, NextHttpPlaces, NextOwnership DEF HttpInv, Ownership

\* The invariant counts holders one by one; the property, by a set of them.
LEMMA OneHolder ==
  ASSUME HttpInv, NEW f \in Fds
  PROVE  Cardinality(Holders(f)) = IF open[f] \in Connections THEN 1 ELSE 0
<1>1. CASE client_fd = f
  <2>1. Holders(f) = {<<"run", 1>>} /\ open[f] \in Connections
    BY <1>1, Numbers DEF HttpInv, Owned, Holders, Has
  <2> QED
    BY <2>1, FS_Singleton
<1>2. CASE Has(fd_queue, f)
  <2>1. PICK k \in DOMAIN fd_queue : fd_queue[k] = f
    BY <1>2 DEF Has
  <2>2. /\ {j \in DOMAIN fd_queue : fd_queue[j] = f} = {k}
        /\ {v \in Workers : HoldsClient(v) /\ worker_fd[v] = f} = {}
        /\ client_fd # f /\ open[f] \in Connections
    BY <1>2, <2>1, Numbers DEF HttpInv, Owned, NoRepeat
  <2>3. Holders(f) = {<<"queue", k>>}
    BY <2>2 DEF Holders
  <2> QED
    BY <2>2, <2>3, FS_Singleton
<1>3. ASSUME NEW w \in Workers, HoldsClient(w), worker_fd[w] = f
      PROVE  Cardinality(Holders(f)) = IF open[f] \in Connections THEN 1 ELSE 0
  <2>1. /\ {j \in DOMAIN fd_queue : fd_queue[j] = f} = {}
        /\ {v \in Workers : HoldsClient(v) /\ worker_fd[v] = f} = {w}
        /\ client_fd # f /\ open[f] \in Connections
    BY <1>3 DEF HttpInv, Owned, Has
  <2>2. Holders(f) = {<<"worker", w>>}
    BY <2>1 DEF Holders
  <2> QED
    BY <2>1, <2>2, FS_Singleton
<1>4. CASE /\ client_fd # f /\ ~Has(fd_queue, f)
           /\ \A w \in Workers : ~(HoldsClient(w) /\ worker_fd[w] = f)
  <2>1. Holders(f) = {} /\ open[f] \notin Connections
    BY <1>4 DEF HttpInv, Owned, Holders, Has
  <2> QED
    BY <2>1, FS_EmptySet
<1> QED
  BY <1>1, <1>2, <1>3, <1>4

(* Every descriptor that accept() returned (httpserver.cpp:143) has one    *)
(* owner until it is closed, and what is closed was answered once: no      *)
(* number is used after its close or closed twice, for any number of       *)
(* workers and connections, whatever requests, drains and stops do.        *)
THEOREM EveryDescriptorIsOwned == DaemonSpec => []DescriptorsAreOwned
<1>1. DaemonInit => HttpInv
  BY InitHttp DEF DaemonInit
<1>2. HttpInv => DescriptorsAreOwned
  <2> SUFFICES ASSUME HttpInv PROVE DescriptorsAreOwned
    OBVIOUS
  <2>1. ASSUME NEW c \in Connections
        PROVE  answers[c] <= 1 /\ (Closed(c) => answers[c] = 1)
    <3>1. CASE \A f \in Fds : open[f] # c
      BY <3>1 DEF HttpInv, Answering, Closed
    <3>2. ASSUME NEW f \in Fds, open[f] = c PROVE answers[c] \in {0, 1}
      <4>1. \/ client_fd = f \/ Has(fd_queue, f)
            \/ \E w \in Workers : HoldsClient(w) /\ worker_fd[w] = f
        BY <3>2 DEF HttpInv, Owned
      <4> QED
        BY <3>2, <4>1, Numbers DEF HttpInv, Answering
    <3> QED
      BY <3>1, <3>2 DEF Closed
  <2>2. server_socket_fd # NoFd => open[server_socket_fd] = "server"
    BY DEF HttpInv, Kernel
  <2> QED
    BY <2>1, <2>2, OneHolder DEF DescriptorsAreOwned
<1> QED
  BY <1>1, <1>2, NextHttp, PTL DEF DaemonSpec

(* The process ends with run() (httpserver.cpp:170): by then the workers   *)
(* have emptied the queue and closed what they had.                        *)
THEOREM NobodyIsLeftUnanswered == DaemonSpec => []StoppedMeansAnswered
<1> DEFINE ServerIsJoined == main_pc = "exit" => http_pc = "exit"
<1>1. DaemonInit => HttpInv /\ ServerIsJoined
  BY InitHttp DEF DaemonInit
<1>2. ServerIsJoined /\ [DaemonNext]_all_vars => ServerIsJoined'
  <2> SUFFICES ASSUME ServerIsJoined, [DaemonNext]_all_vars PROVE ServerIsJoined'
    OBVIOUS
  <2>1. http_pc = "exit" => http_pc' = "exit"
    <3> SUFFICES ASSUME http_pc = "exit" PROVE http_pc' = "exit"
      OBVIOUS
    <3>1. ASSUME NEW w \in Workers, PoolStep(w) \/ answers_at_once(w) \/ call_returns(w)
          PROVE  UNCHANGED http_pc
      BY <3>1 DEF PoolStep, pop_fd, worker_exits, read_request, read_fails, answers_at_once,
         router_refuses, response_state, opens_database, closes_database, response_call,
         write_response, close_client, call_returns, http_run_vars
    <3>2. ~HttpRunStep
      BY DEF HttpRunStep, run_begins, setup_server_socket, setup_fails, start_pool,
         start_pool_fails, looks_at_stop, copies_server_fd, accept_ok, accept_fails,
         setup_client_socket_fails, submit_fd, submit_full, answers_busy, closes_busy,
         stops_pool, joins_pool, http_goto
    <3> QED
      BY <3>1, <3>2, HttpMoves DEF HttpMove, connect, drain, http_shutdown, http_vars,
         http_run_vars
  <2>2. UNCHANGED main_pc \/ MainStep
    BY DEF DaemonNext, HttpStep, WorkerStep, response_shutdown, response_scan, response_cancel,
       response_error, terminate_handler, all_vars, daemon_vars
  <2>3. CASE MainStep
    BY <2>1, <2>3 DEF MainStep, wakes_up, drains_server, shuts_down_scheduler, shutdown_returns,
       polls_zero, polls_in_vain, closes_server, joins_threads, main_goto, http_vars,
       daemon_vars
  <2> QED
    BY <2>1, <2>2, <2>3
<1>3. HttpInv /\ ServerIsJoined => StoppedMeansAnswered
  <2> SUFFICES ASSUME HttpInv, http_pc = "exit", NEW c \in Connections, conn[c] = "accepted"
               PROVE  Closed(c) /\ answers[c] = 1
    BY DEF StoppedMeansAnswered
  <2>1. /\ client_fd = NoFd /\ fd_queue = <<>>
        /\ \A w \in Workers : ~HoldsClient(w)
    BY DEF HttpInv, HttpPlaces, HoldsClient
  <2>2. \A f \in Fds : open[f] \notin Connections
    BY <2>1, Numbers DEF HttpInv, Owned, Has
  <2> QED
    BY <2>2 DEF HttpInv, Answering, Closed
<1> QED
  BY <1>1, <1>2, <1>3, NextHttp, PTL DEF DaemonSpec

=============================================================================
