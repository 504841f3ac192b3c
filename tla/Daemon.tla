-------------------------------- MODULE Daemon -------------------------------
(***************************************************************************)
(* daemon_system/daemon.cpp: the HTTP server and the Scheduler in one      *)
(* process, and the main thread that waits for a signal or a request to    *)
(* stop, then drains the server, shuts down the Scheduler, polls the       *)
(* metrics, shuts down the server and joins both threads.                  *)
(*                                                                         *)
(* The Scheduler's clients are the workers of the fd pool: a submit or a   *)
(* cancel is a request that one of them serves.  Scheduler and Manager are *)
(* those of OpenScheduler.                                                 *)
(***************************************************************************)
EXTENDS OpenScheduler, HttpServer

ASSUME ClientsAreWorkers == Clients = Workers

VARIABLES
  shutdown_flag,   \* set by a signal's handler and by POST /shutdown
  main_pc          \* where Daemon::run() is

daemon_vars == <<shutdown_flag, main_pc>>
all_vars == <<vars, http_vars, daemon_vars>>

DaemonTypeOK ==
  /\ TypeOK /\ HttpTypeOK
  /\ shutdown_flag \in BOOLEAN
  /\ main_pc \in {"sleep", "drain", "shutdown", "poll", "close", "join", "exit"}

\* Both threads are created; neither has done anything yet.
DaemonInit ==
  /\ Init /\ HttpInit
  /\ shutdown_flag = FALSE /\ main_pc = "sleep"

-----------------------------------------------------------------------------
(* Requests *)

response_shutdown(w) ==
  /\ request[w] = "shutdown" /\ ~Refused(w) /\ answers_at_once(w)
  /\ shutdown_flag' = TRUE
  /\ UNCHANGED <<vars, main_pc>>

\* submit_scan_root() draws an id, then takes the lock: two steps.
response_scan(w) ==
  /\ worker_pc[w] = "call" /\ request[w] = "scan"
  /\ \/ gen_scan_id(w) /\ UNCHANGED http_vars
     \/ \/ submit_rejected(w) \/ \E root \in Roots : submit_ok(w, root)
        /\ call_returns(w)
  /\ UNCHANGED <<mgr_vars, daemon_vars>>

\* The Manager is called for a scan that is running; a pending one is dropped.
response_cancel(w) ==
  /\ worker_pc[w] = "call" /\ request[w] = "cancel"
  /\ \/ \E id \in ScanIds : cancel_running(w, id) /\ UNCHANGED <<mgr_vars, http_vars>>
     \/ \E id \in ScanIds : cancel_pending(w, id) /\ UNCHANGED mgr_vars /\ call_returns(w)
     \/ cancel_returns(w) /\ call_returns(w)
  /\ UNCHANGED daemon_vars

\* 400, 409, or a root that does not exist.
response_error(w) ==
  /\ call_returns(w) /\ new_id[w] = 0 /\ cancel_call[w] = 0
  /\ UNCHANGED <<vars, daemon_vars>>

WorkerStep(w) ==
  \/ PoolStep(w) /\ UNCHANGED <<vars, daemon_vars>>
  \/ response_shutdown(w) \/ response_scan(w) \/ response_cancel(w) \/ response_error(w)

-----------------------------------------------------------------------------
(* The main thread *)

terminate_handler ==
  /\ shutdown_flag' = TRUE
  /\ UNCHANGED <<vars, http_vars, main_pc>>

main_goto(from, to) == main_pc = from /\ main_pc' = to /\ UNCHANGED shutdown_flag

wakes_up ==
  /\ main_goto("sleep", "drain") /\ shutdown_flag
  /\ UNCHANGED <<vars, http_vars>>

drains_server ==
  /\ main_goto("drain", "shutdown") /\ drain
  /\ UNCHANGED vars

shuts_down_scheduler ==
  /\ main_pc = "shutdown" /\ shutdown
  /\ UNCHANGED <<mgr_vars, http_vars, daemon_vars>>

\* Mutant: the call returns with the scans canceled and not waited for.
shutdown_returns_early ==
  /\ main_goto("shutdown", "poll") /\ sd = "wait"
  /\ UNCHANGED <<vars, http_vars>>

shutdown_returns ==
  /\ main_goto("shutdown", "poll") /\ sd = "done"
  /\ UNCHANGED <<vars, http_vars>>

\* scan_running and scan_jobs_unfinished, signed; scan_pending; those of the
\* exporter, which are zero when it has exported what was pushed.
MetricsAreZero ==
  /\ running_scans = 0 /\ scan_pending = 0
  /\ \A id \in ScanIds : mgr[id] # "taken"
  /\ \A id \in ScanIds : mgr[id] \in {"drained", "ended", "given_up"} => id \in exported

polls_zero ==
  /\ main_goto("poll", "close") /\ MetricsAreZero
  /\ UNCHANGED <<vars, http_vars>>

\* drain_time has run out.
polls_in_vain ==
  /\ main_goto("poll", "close") /\ ~MetricsAreZero
  /\ UNCHANGED <<vars, http_vars>>

\* Mutant: the server is not told to stop.
joins_server_first ==
  /\ main_goto("close", "join")
  /\ UNCHANGED <<vars, http_vars>>

closes_server ==
  /\ main_goto("close", "join") /\ http_shutdown
  /\ UNCHANGED vars

joins_threads ==
  /\ main_goto("join", "exit")
  /\ run_pc = "exit" /\ http_pc = "exit"
  /\ UNCHANGED <<vars, http_vars>>

MainStep ==
  \/ wakes_up \/ drains_server \/ shuts_down_scheduler \/ shutdown_returns
  \/ polls_zero \/ polls_in_vain \/ closes_server \/ joins_threads

-----------------------------------------------------------------------------
(* The threads of the Scheduler and the Manager go on by themselves. *)
SchedulerStep ==
  \/ RunLoop \/ ShutdownStep
  \/ run_wakes_spuriously /\ UNCHANGED mgr_vars
  \/ ManagerTakes \/ ManagerRefuses \/ ManagerAnswers \/ ManagerMakesRoom
  \/ \E id \in ScanIds : ManagerDrains(id) \/ ManagerReports(id) \/ ManagerExports(id)

HttpStep == (HttpRunStep \/ connect) /\ UNCHANGED <<vars, daemon_vars>>

DaemonNext ==
  \/ HttpStep
  \/ \E w \in Workers : WorkerStep(w)
  \/ terminate_handler \/ MainStep
  \/ SchedulerStep /\ UNCHANGED <<http_vars, daemon_vars>>

(***************************************************************************)
(* Fairness: what the process's own threads do by themselves.  The main    *)
(* thread, the Scheduler's run(), the server's run() and every worker take *)
(* their next step: accept() returns when there is a connection, read()    *)
(* after ten seconds.  That the Manager answers, that its wait_to_finish() *)
(* returns and that a client takes what send() gives it is not among this: *)
(* nothing bounds these waits.  Nobody has to connect or to ask for a      *)
(* stop.                                                                   *)
(***************************************************************************)
serves == HttpRunStep /\ UNCHANGED <<vars, daemon_vars>>

DaemonFairness ==
  /\ WF_vars(RunLoop)
  /\ WF_all_vars(MainStep)
  /\ WF_all_vars(http_pc # "busy" /\ serves)
  /\ \A w \in Workers : WF_all_vars(worker_pc[w] # "write" /\ WorkerStep(w))

DaemonSpec == DaemonInit /\ [][DaemonNext]_all_vars /\ DaemonFairness

-----------------------------------------------------------------------------
(* Properties *)

HoldsClient(w) == worker_pc[w] \in {"read", "respond", "call", "query", "write", "close"}
Holders(f) ==
  (IF client_fd = f THEN {<<"run", 1>>} ELSE {})
    \cup {<<"queue", k>> : k \in {j \in DOMAIN fd_queue : fd_queue[j] = f}}
    \cup {<<"worker", w>> : w \in {v \in Workers : HoldsClient(v) /\ worker_fd[v] = f}}
Closed(c) == conn[c] = "accepted" /\ \A f \in Fds : open[f] # c

(* Between accept() (httpserver.cpp:143) and close(), a connection's       *)
(* descriptor is with run(), in the queue or with one worker, never with   *)
(* two of them and never with none, and no one holds a number that has     *)
(* become something else; what is closed has been answered once.           *)
DescriptorsAreOwned ==
  /\ \A f \in Fds : Cardinality(Holders(f)) = (IF open[f] \in Connections THEN 1 ELSE 0)
  /\ \A c \in Connections : answers[c] <= 1 /\ (Closed(c) => answers[c] = 1)
  /\ server_socket_fd # NoFd => open[server_socket_fd] = "server"

(* While the server still answers, "GET /state" and "GET /exporting" serve *)
(* those who wait for their scans (daemon_system/Readme.md:43-44): it is   *)
(* told to stop only when every scan that was accepted has ended and none  *)
(* has a job in the pool, and none is accepted from then on.               *)
ScansEndBeforeServer ==
  http_stop => \A id \in ScanIds :
    /\ state_map[id] \in {"NONE", "DONE", "CANCELED", "DROPPED", "FAILED"}
    /\ ~InManager(id)

(* When the process ends, fd_pool.shutdown() (httpserver.cpp:170) has      *)
(* worked off its queue: whoever was accepted was answered, through a full *)
(* queue, a drain and a stop, and no descriptor of a client is open.       *)
StoppedMeansAnswered ==
  main_pc = "exit" =>
    \A c \in Connections : conn[c] = "accepted" => Closed(c) /\ answers[c] = 1

\* What the Scheduler's shutdown() takes for granted: the Manager answers and
\* finishes every scan, and its cancel, wait and shutdown calls return.
ManagerFinishes == ManagerFairness /\ WF_vars(ShutdownStep)

\* send() has no timeout: each client reads its answer or goes away.
ClientsRead ==
  /\ WF_all_vars(http_pc = "busy" /\ serves)
  /\ \A w \in Workers : WF_all_vars(worker_pc[w] = "write" /\ WorkerStep(w))

(* A signal or a POST /shutdown ends the process, whatever requests, scans *)
(* and descriptors are underway (Daemon::run(), daemon.cpp:68-108), on two *)
(* conditions that the code does not guarantee: that the Manager finishes, *)
(* which stuck_shutdown of ScanControl refutes, as does a result thread    *)
(* that has ended under a full export queue; and that clients read.        *)
DaemonStops == ManagerFinishes /\ ClientsRead => (shutdown_flag ~> main_pc = "exit")

=============================================================================
