------------------------------ MODULE HttpServer -----------------------------
(***************************************************************************)
(* daemon_system/httpserver.cpp: the accept loop of run(), the fd pool     *)
(* whose workers read, route, answer and close one connection each, and    *)
(* the flags drain_flag and stop_flag that the daemon's main thread sets.  *)
(*                                                                         *)
(* The process's descriptors are a table that the kernel fills from the    *)
(* lowest free number on, so that a number which was closed comes back as  *)
(* something else: a thread that keeps one too long uses another's.        *)
(* The fd pool is BoundedQueue, which the JobQueue modules show its queue  *)
(* to implement.  What a route does beyond the answer is left to Daemon.   *)
(***************************************************************************)
EXTENDS Integers, Sequences, FiniteSets

CONSTANTS
  Workers,           \* the threads of fd_pool
  Connections,       \* bound: connections that clients ever make
  Fds,               \* bound: descriptors, those of run() not counted
  FD_QUEUE_MAX_SIZE

NoFd == -1

\* One for the server, one for each connection, one for each worker's query.
ASSUME FdsAssumption ==
  /\ Fds \subseteq Nat /\ IsFiniteSet(Fds)
  /\ Cardinality(Fds) >= 1 + Cardinality(Connections) + Cardinality(Workers)
ASSUME QueueAssumption == FD_QUEUE_MAX_SIZE \in Nat \ {0}
ASSUME ConnectionsAssumption ==
  Connections \cap {"free", "server", "database"} = {} /\ IsFiniteSet(Connections)
\* The configuration's default is four threads; config.cpp does not refuse zero.
ASSUME WorkersAssumption == IsFiniteSet(Workers) /\ Workers # {}

VARIABLES
  drain_flag, http_stop,    \* HttpServer::drain_flag, stop_flag
  server_socket_fd,         \* under server_fd_mtx
  open,                     \* what each descriptor is
  backlog,                  \* connections the kernel holds for accept()
  conn,                     \* what became of each connection
  answers,                  \* how often each connection was answered
  http_pc, server_fd, client_fd,   \* run(): where it is, and its copies
  fd_queue, pool_stop,             \* fd_pool
  worker_pc, worker_fd, request    \* its threads

http_vars == <<drain_flag, http_stop, server_socket_fd, open, backlog, conn, answers,
               http_pc, server_fd, client_fd, fd_queue, pool_stop,
               worker_pc, worker_fd, request>>
flags == <<drain_flag, http_stop, server_socket_fd>>
net_vars == <<open, backlog, conn, answers>>
http_run_vars == <<http_pc, server_fd, client_fd>>
pool_vars == <<fd_queue, pool_stop, worker_pc, worker_fd, request>>

(* The routes, by what tells them apart here: whether they are served      *)
(* while draining, and whether they need the database, the Scheduler or    *)
(* the daemon.  "state": /, /metrics, /state, /exporting; "index": the     *)
(* diffs and the index.  /download_time is like "state", but refused when  *)
(* draining; that, 400 and 404 are answers like any other.                 *)
Routes == {"state", "index", "history", "scan", "cancel", "shutdown"}
AllowedInDrain == {"state", "index"}
NeedDatabase == {"index", "history"}

HttpTypeOK ==
  /\ drain_flag \in BOOLEAN /\ http_stop \in BOOLEAN /\ pool_stop \in BOOLEAN
  /\ server_socket_fd \in Fds \cup {NoFd}
  /\ open \in [Fds -> Connections \cup {"free", "server", "database"}]
  /\ backlog \in Seq(Connections)
  /\ conn \in [Connections -> {"none", "waiting", "accepted", "dropped"}]
  /\ answers \in [Connections -> Nat]
  /\ http_pc \in {"begin", "setup", "start_pool", "loop", "copy", "accept", "submit",
                  "busy", "close", "stop_pool", "join", "exit"}
  /\ server_fd \in Fds \cup {NoFd} /\ client_fd \in Fds \cup {NoFd}
  /\ fd_queue \in Seq(Fds)
  /\ worker_pc \in [Workers -> {"none", "pop", "read", "respond", "call", "query",
                                "write", "close", "exit"}]
  /\ worker_fd \in [Workers -> Fds \cup {NoFd}]
  /\ request \in [Workers -> Routes \cup {"none"}]

HttpInit ==
  /\ drain_flag = FALSE /\ http_stop = FALSE /\ pool_stop = FALSE
  /\ server_socket_fd = NoFd
  /\ open = [f \in Fds |-> "free"] /\ backlog = <<>>
  /\ conn = [c \in Connections |-> "none"] /\ answers = [c \in Connections |-> 0]
  /\ http_pc = "begin" /\ server_fd = NoFd /\ client_fd = NoFd
  /\ fd_queue = <<>>
  /\ worker_pc = [w \in Workers |-> "none"] /\ worker_fd = [w \in Workers |-> NoFd]
  /\ request = [w \in Workers |-> "none"]

-----------------------------------------------------------------------------
(* The kernel *)

lowest_free == CHOOSE f \in Fds : /\ open[f] = "free"
                                  /\ \A g \in Fds : open[g] = "free" => f <= g

\* FdsAssumption leaves one free.
opens(what) ==
  /\ \E f \in Fds : open[f] = "free"
  /\ open' = [open EXCEPT ![lowest_free] = what]
closes(f) == open' = [open EXCEPT ![f] = "free"]

\* send() on a descriptor reaches whoever is behind that number by now.
sends(f) == answers' = IF open[f] \in Connections
                         THEN [answers EXCEPT ![open[f]] = @ + 1] ELSE answers

\* A client connects; which of those that have not is all the same.
connect ==
  /\ \E f \in Fds : open[f] = "server"
  /\ \E c \in Connections : conn[c] = "none"
  /\ LET c == CHOOSE c \in Connections : conn[c] = "none" IN
       /\ conn' = [conn EXCEPT ![c] = "waiting"]
       /\ backlog' = Append(backlog, c)
  /\ UNCHANGED <<flags, open, answers, http_run_vars, pool_vars>>

-----------------------------------------------------------------------------
(* run() *)

http_goto(from, to) == http_pc = from /\ http_pc' = to

run_begins ==
  /\ http_goto("begin", "setup") /\ drain_flag' = FALSE
  /\ UNCHANGED <<http_stop, server_socket_fd, net_vars, server_fd, client_fd, pool_vars>>

\* setup_server_socket(): a stop that came first is seen under the lock.
setup_server_socket ==
  /\ http_goto("setup", "start_pool") /\ ~http_stop
  /\ opens("server") /\ server_socket_fd' = lowest_free
  /\ UNCHANGED <<drain_flag, http_stop, backlog, conn, answers, server_fd, client_fd, pool_vars>>

setup_fails ==
  /\ http_goto("setup", "exit")
  /\ UNCHANGED <<flags, net_vars, server_fd, client_fd, pool_vars>>

start_pool ==
  /\ http_goto("start_pool", "loop")
  /\ worker_pc' = [w \in Workers |-> "pop"]
  /\ UNCHANGED <<flags, net_vars, server_fd, client_fd, fd_queue, pool_stop, worker_fd, request>>

\* A thread could not be created: the server's socket stays open.
start_pool_fails ==
  /\ http_goto("start_pool", "exit")
  /\ UNCHANGED <<flags, net_vars, server_fd, client_fd, pool_vars>>

looks_at_stop ==
  /\ http_pc = "loop"
  /\ http_pc' = IF http_stop THEN "stop_pool" ELSE "copy"
  /\ UNCHANGED <<flags, net_vars, server_fd, client_fd, pool_vars>>

\* The copy is used after the unlock.
copies_server_fd ==
  /\ http_pc = "copy"
  /\ server_fd' = server_socket_fd
  /\ http_pc' = IF server_socket_fd # NoFd THEN "accept"
                ELSE IF http_stop THEN "stop_pool" ELSE "loop"
  /\ UNCHANGED <<flags, net_vars, client_fd, pool_vars>>

accept_ok ==
  /\ http_goto("accept", "submit")
  /\ open[server_fd] = "server" /\ backlog # <<>>
  /\ opens(Head(backlog)) /\ client_fd' = lowest_free
  /\ backlog' = Tail(backlog)
  /\ conn' = [conn EXCEPT ![Head(backlog)] = "accepted"]
  /\ server_fd' = NoFd
  /\ UNCHANGED <<flags, answers, pool_vars>>

\* Closed, or closed and opened again as something that takes no connections.
accept_fails ==
  /\ http_pc = "accept" /\ open[server_fd] # "server"
  /\ http_pc' = IF http_stop THEN "stop_pool" ELSE "loop"
  /\ server_fd' = NoFd
  /\ UNCHANGED <<flags, net_vars, client_fd, pool_vars>>

\* setup_client_socket() cannot set the timeout for reading.
setup_client_socket_fails ==
  /\ http_goto("submit", "loop")
  /\ closes(client_fd)
  /\ conn' = [conn EXCEPT ![open[client_fd]] = "dropped"]
  /\ client_fd' = NoFd
  /\ UNCHANGED <<flags, backlog, answers, server_fd, pool_vars>>

submit_fd ==
  /\ http_goto("submit", "loop")
  /\ Len(fd_queue) < FD_QUEUE_MAX_SIZE
  /\ fd_queue' = Append(fd_queue, client_fd) /\ client_fd' = NoFd
  /\ UNCHANGED <<flags, net_vars, server_fd, pool_stop, worker_pc, worker_fd, request>>

\* 429, from the accepting thread itself.
submit_full ==
  /\ http_goto("submit", "busy")
  /\ Len(fd_queue) = FD_QUEUE_MAX_SIZE
  /\ UNCHANGED <<flags, net_vars, server_fd, client_fd, pool_vars>>

answers_busy ==
  /\ http_goto("busy", "close") /\ sends(client_fd)
  /\ UNCHANGED <<flags, open, backlog, conn, server_fd, client_fd, pool_vars>>

closes_busy ==
  /\ http_goto("close", "loop") /\ closes(client_fd) /\ client_fd' = NoFd
  /\ UNCHANGED <<flags, backlog, conn, answers, server_fd, pool_vars>>

stops_pool ==
  /\ http_goto("stop_pool", "join") /\ pool_stop' = TRUE
  /\ UNCHANGED <<flags, net_vars, server_fd, client_fd, fd_queue, worker_pc, worker_fd, request>>

joins_pool ==
  /\ http_goto("join", "exit")
  /\ \A w \in Workers : worker_pc[w] = "exit"
  /\ UNCHANGED <<flags, net_vars, server_fd, client_fd, pool_vars>>

HttpRunStep ==
  \/ run_begins \/ setup_server_socket \/ setup_fails \/ start_pool \/ start_pool_fails
  \/ looks_at_stop \/ copies_server_fd \/ accept_ok \/ accept_fails
  \/ setup_client_socket_fails \/ submit_fd \/ submit_full \/ answers_busy \/ closes_busy
  \/ stops_pool \/ joins_pool

-----------------------------------------------------------------------------
(* The threads of fd_pool *)

worker_goto(w, from, to) ==
  worker_pc[w] = from /\ worker_pc' = [worker_pc EXCEPT ![w] = to]

pop_fd(w) ==
  /\ worker_goto(w, "pop", "read") /\ fd_queue # <<>>
  /\ worker_fd' = [worker_fd EXCEPT ![w] = Head(fd_queue)]
  /\ fd_queue' = Tail(fd_queue)
  /\ UNCHANGED <<flags, net_vars, http_run_vars, pool_stop, request>>

\* Mutant: a stopped pool leaves the connections that are queued.
worker_exits_at_once(w) ==
  /\ worker_goto(w, "pop", "exit") /\ pool_stop
  /\ UNCHANGED <<flags, net_vars, http_run_vars, fd_queue, pool_stop, worker_fd, request>>

worker_exits(w) ==
  /\ worker_goto(w, "pop", "exit") /\ pool_stop /\ fd_queue = <<>>
  /\ UNCHANGED <<flags, net_vars, http_run_vars, fd_queue, pool_stop, worker_fd, request>>

\* read_request(), which gives up after ten seconds, and on to router(),
read_request(w) ==
  /\ worker_goto(w, "read", "respond")
  /\ \E r \in Routes : request' = [request EXCEPT ![w] = r]
  /\ UNCHANGED <<flags, net_vars, http_run_vars, fd_queue, pool_stop, worker_fd>>

\* or to 400 for what cannot be parsed.
read_fails(w) ==
  /\ worker_goto(w, "read", "write")
  /\ UNCHANGED <<flags, net_vars, http_run_vars, fd_queue, pool_stop, worker_fd, request>>

\* router() reads drain_flag once; the Scheduler may be called long after.
Refused(w) == drain_flag /\ request[w] \notin AllowedInDrain

\* 503, or 404 and 400 for what no route takes.
answers_at_once(w) ==
  /\ worker_goto(w, "respond", "write")
  /\ request' = [request EXCEPT ![w] = "none"]
  /\ UNCHANGED <<flags, net_vars, http_run_vars, fd_queue, pool_stop, worker_fd>>
router_refuses(w) == Refused(w) /\ answers_at_once(w)

\* Answered from the configuration, the metrics or a map of the Scheduler.
response_state(w) == request[w] = "state" /\ answers_at_once(w)

\* DatabaseConnection opens a file for as long as the handler runs.
opens_database(w) ==
  /\ request[w] \in NeedDatabase /\ ~Refused(w) /\ worker_goto(w, "respond", "query")
  /\ opens("database")
  /\ request' = [request EXCEPT ![w] = "none"]
  /\ UNCHANGED <<flags, backlog, conn, answers, http_run_vars, fd_queue, pool_stop, worker_fd>>

\* The descriptors of the queries are interchangeable: any of them is closed.
closes_database(w) ==
  /\ worker_goto(w, "query", "write")
  /\ \E f \in Fds : open[f] = "database" /\ closes(f)
  /\ UNCHANGED <<flags, backlog, conn, answers, http_run_vars, fd_queue, pool_stop,
                 worker_fd, request>>

\* response_scan() and response_cancel() call the Scheduler, or answer 400.
response_call(w) ==
  /\ request[w] \in {"scan", "cancel"} /\ ~Refused(w)
  /\ worker_goto(w, "respond", "call")
  /\ UNCHANGED <<flags, net_vars, http_run_vars, fd_queue, pool_stop, worker_fd, request>>

\* Back from the Scheduler, or from a query without a root or an id.
call_returns(w) ==
  /\ worker_goto(w, "call", "write")
  /\ request' = [request EXCEPT ![w] = "none"]
  /\ UNCHANGED <<flags, net_vars, http_run_vars, fd_queue, pool_stop, worker_fd>>

\* write_response(); what happens on the client's side is not looked at.
write_response(w) ==
  /\ worker_goto(w, "write", "close") /\ sends(worker_fd[w])
  /\ UNCHANGED <<flags, open, backlog, conn, http_run_vars, fd_queue, pool_stop,
                 worker_fd, request>>

\* Mutant: on some path the descriptor is closed a second time.
close_twice(w) ==
  /\ worker_pc[w] = "close" /\ closes(worker_fd[w])
  /\ \/ /\ worker_pc' = [worker_pc EXCEPT ![w] = "pop"]
        /\ worker_fd' = [worker_fd EXCEPT ![w] = NoFd]
     \/ UNCHANGED <<worker_pc, worker_fd>>
  /\ UNCHANGED <<flags, backlog, conn, answers, http_run_vars, fd_queue, pool_stop, request>>

close_client(w) ==
  /\ worker_goto(w, "close", "pop") /\ closes(worker_fd[w])
  /\ worker_fd' = [worker_fd EXCEPT ![w] = NoFd]
  /\ UNCHANGED <<flags, backlog, conn, answers, http_run_vars, fd_queue, pool_stop, request>>

\* The steps of a worker that need nobody else.
PoolStep(w) ==
  \/ pop_fd(w) \/ worker_exits(w) \/ read_request(w) \/ read_fails(w)
  \/ router_refuses(w) \/ response_state(w) \/ opens_database(w) \/ closes_database(w)
  \/ response_call(w) \/ write_response(w) \/ close_client(w)

-----------------------------------------------------------------------------
(* What the daemon's main thread calls *)

drain ==
  /\ drain_flag' = TRUE
  /\ UNCHANGED <<http_stop, server_socket_fd, net_vars, http_run_vars, pool_vars>>

\* The flag and the descriptor under the lock, then shutdown() and close():
\* the kernel resets what accept() has not been given.
http_shutdown ==
  /\ http_stop' = TRUE /\ server_socket_fd' = NoFd
  /\ open' = [f \in Fds |-> IF f = server_socket_fd THEN "free" ELSE open[f]]
  /\ backlog' = <<>>
  /\ conn' = [c \in Connections |-> IF conn[c] = "waiting" THEN "dropped" ELSE conn[c]]
  /\ UNCHANGED <<drain_flag, answers, http_run_vars, pool_vars>>

=============================================================================
