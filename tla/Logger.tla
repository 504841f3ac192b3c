------------------------------- MODULE Logger -------------------------------
(***************************************************************************)
(* utils/async_logger.cpp: threads that log, the thread that writes their  *)
(* messages to the file, and the owner that starts and stops it.           *)
(*                                                                         *)
(* As in JobQueue one mutex protects the queue, and one condition variable *)
(* is shared by the callers that wait for room and the writer that waits   *)
(* for a message; an action is a critical section or what a thread does    *)
(* outside of one.  A caller that must not wait, or comes after the stop,  *)
(* writes to the terminal instead.                                         *)
(***************************************************************************)
EXTENDS Integers, FiniteSets, SequencesExt

CONSTANTS
  Callers,
  MAX_QUEUE_SIZE,
  MaxMessages,          \* bound: messages of a caller
  MaxStarts             \* bound: how often the logger is started

ASSUME LoggerAssumption ==
  MAX_QUEUE_SIZE \in Nat \ {0} /\ MaxMessages \in Nat /\ MaxStarts \in Nat

\* The thread that runs worker_loop(); no caller is called so.
Writer == "log_worker"
ASSUME WriterAssumption == Writer \notin Callers

\* The n-th message of a thread; waits: its level is Warn or Error.
Messages == [from : Callers, n : 1 .. MaxMessages, waits : BOOLEAN]

VARIABLES
  log_queue, stop,
  waiting,              \* threads in cv.wait
  pc,                   \* where each caller, and the writer, is
  item,                 \* callers: the message of the call; writer: the one it popped
  file, terminal,       \* what has been written, in this order
  owner, starts         \* the thread that calls start() and shutdown()

vars == <<log_queue, stop, waiting, pc, item, file, terminal, owner, starts>>

Threads == Callers \cup {Writer}
None == <<>>

TypeOK ==
  /\ log_queue \in Seq(Messages) /\ Len(log_queue) <= MAX_QUEUE_SIZE
  /\ stop \in BOOLEAN /\ waiting \subseteq Threads
  /\ pc \in [Threads -> {"out", "helper", "to_terminal", "pushed",
                         "consume", "popped", "write"}]
  /\ \A t \in Threads : item[t] = None \/ item[t][1] \in Messages
  /\ file \in Seq(Messages) /\ terminal \in Seq(Messages)
  /\ owner \in {"down", "up", "stopping", "joining"} /\ starts \in 0 .. MaxStarts

Init ==
  /\ log_queue = <<>> /\ stop = FALSE /\ waiting = {}
  /\ pc = [t \in Threads |-> "out"] /\ item = [t \in Threads |-> None]
  /\ file = <<>> /\ terminal = <<>> /\ owner = "down" /\ starts = 0

goto(t, place) == pc' = [pc EXCEPT ![t] = place]

wait(t) ==
  /\ waiting' = waiting \cup {t}
  /\ UNCHANGED <<log_queue, stop, pc, item, file, terminal, owner, starts>>

spurious_wakeup(t) ==
  /\ t \in waiting /\ waiting' = waiting \ {t}
  /\ UNCHANGED <<log_queue, stop, pc, item, file, terminal, owner, starts>>

-----------------------------------------------------------------------------
(* helper()                                                                *)

logged(t) == IF item[t] = None THEN 0 ELSE item[t][1].n

log(t, waits) ==
  /\ pc[t] = "out" /\ logged(t) < MaxMessages
  /\ item' = [item EXCEPT ![t] = <<[from |-> t, n |-> logged(t) + 1, waits |-> waits]>>]
  /\ goto(t, "helper")
  /\ UNCHANGED <<log_queue, stop, waiting, file, terminal, owner, starts>>

InHelper(t) == pc[t] = "helper" /\ t \notin waiting
Full == Len(log_queue) >= MAX_QUEUE_SIZE

helper_waits(t) == InHelper(t) /\ Full /\ ~stop /\ item[t][1].waits /\ wait(t)

helper_falls_back(t) ==
  /\ InHelper(t) /\ (stop \/ (Full /\ ~item[t][1].waits))
  /\ goto(t, "to_terminal")
  /\ UNCHANGED <<log_queue, stop, waiting, item, file, terminal, owner, starts>>

helper_pushes(t) ==
  /\ InHelper(t) /\ ~Full /\ ~stop
  /\ log_queue' = Append(log_queue, item[t][1])
  /\ goto(t, "pushed")
  /\ UNCHANGED <<stop, waiting, item, file, terminal, owner, starts>>

print_to_terminal(t) ==
  /\ pc[t] = "to_terminal"
  /\ terminal' = Append(terminal, item[t][1])
  /\ goto(t, "out")
  /\ UNCHANGED <<log_queue, stop, waiting, item, file, owner, starts>>

\* Mutant: the writer tells nobody that there is room.
notify_when_pushed(t) ==
  /\ pc[t] \in {"pushed", "popped"}
  /\ IF waiting = {} \/ t = Writer THEN UNCHANGED waiting
     ELSE \E w \in waiting : waiting' = waiting \ {w}
  /\ goto(t, IF t = Writer THEN "write" ELSE "out")
  /\ UNCHANGED <<log_queue, stop, item, file, terminal, owner, starts>>

\* After the unlock, by a caller or the writer.
notify_one(t) ==
  /\ pc[t] \in {"pushed", "popped"}
  /\ IF waiting = {} THEN UNCHANGED waiting ELSE \E w \in waiting : waiting' = waiting \ {w}
  /\ goto(t, IF t = Writer THEN "write" ELSE "out")
  /\ UNCHANGED <<log_queue, stop, item, file, terminal, owner, starts>>

-----------------------------------------------------------------------------
(* worker_loop()                                                           *)

InConsume == pc[Writer] = "consume" /\ Writer \notin waiting

consume_waits == InConsume /\ log_queue = <<>> /\ ~stop /\ wait(Writer)

\* Mutant: a stopped writer leaves what is in the queue.
consume_false_at_once ==
  /\ InConsume /\ stop
  /\ goto(Writer, "out")
  /\ UNCHANGED <<log_queue, stop, waiting, item, file, terminal, owner, starts>>

consume_false ==
  /\ InConsume /\ log_queue = <<>> /\ stop
  /\ goto(Writer, "out")
  /\ UNCHANGED <<log_queue, stop, waiting, item, file, terminal, owner, starts>>

\* Mutant: the latest message is taken.
consume_true_latest ==
  /\ InConsume /\ log_queue # <<>>
  /\ item' = [item EXCEPT ![Writer] = <<Last(log_queue)>>]
  /\ log_queue' = Front(log_queue)
  /\ goto(Writer, "popped")
  /\ UNCHANGED <<stop, waiting, file, terminal, owner, starts>>

consume_true ==
  /\ InConsume /\ log_queue # <<>>
  /\ item' = [item EXCEPT ![Writer] = <<Head(log_queue)>>]
  /\ log_queue' = Tail(log_queue)
  /\ goto(Writer, "popped")
  /\ UNCHANGED <<stop, waiting, file, terminal, owner, starts>>

write_log ==
  /\ pc[Writer] = "write"
  /\ file' = Append(file, item[Writer][1])
  /\ item' = [item EXCEPT ![Writer] = None]
  /\ goto(Writer, "consume")
  /\ UNCHANGED <<log_queue, stop, waiting, terminal, owner, starts>>

-----------------------------------------------------------------------------
(* start() and shutdown(); the second shutdown(), of the destructor, finds *)
(* stop set and returns.                                                   *)

start ==
  /\ owner = "down" /\ starts < MaxStarts
  /\ stop' = FALSE
  /\ goto(Writer, "consume")
  /\ owner' = "up" /\ starts' = starts + 1
  /\ UNCHANGED <<log_queue, waiting, item, file, terminal>>

shutdown ==
  /\ owner = "up" /\ owner' = "stopping"
  /\ stop' = TRUE
  /\ UNCHANGED <<log_queue, waiting, pc, item, file, terminal, starts>>

\* Mutant: nobody is woken.
shutdown_is_silent ==
  /\ owner = "stopping" /\ owner' = "joining"
  /\ UNCHANGED <<log_queue, stop, waiting, pc, item, file, terminal, starts>>

shutdown_notifies ==
  /\ owner = "stopping" /\ owner' = "joining"
  /\ waiting' = {}
  /\ UNCHANGED <<log_queue, stop, pc, item, file, terminal, starts>>

join ==
  /\ owner = "joining" /\ pc[Writer] = "out"
  /\ owner' = "down"
  /\ UNCHANGED <<log_queue, stop, waiting, pc, item, file, terminal, starts>>

CallerStep(t) ==
  helper_waits(t) \/ helper_falls_back(t) \/ helper_pushes(t) \/ print_to_terminal(t)
    \/ (t # Writer /\ notify_one(t))
WriterStep ==
  consume_waits \/ consume_false \/ consume_true \/ write_log \/ notify_one(Writer)

Next ==
  \/ \E t \in Callers : CallerStep(t) \/ \E waits \in BOOLEAN : log(t, waits)
  \/ WriterStep
  \/ \E t \in Threads : spurious_wakeup(t)
  \/ start \/ shutdown \/ shutdown_notifies \/ join

(* Nobody has to log or to call shutdown(), and the logger need not be     *)
(* started again; what is begun goes on.                                   *)
Fairness ==
  /\ \A t \in Callers : WF_vars(CallerStep(t))
  /\ WF_vars(WriterStep) /\ WF_vars(starts = 0 /\ start)
  /\ WF_vars(shutdown_notifies) /\ WF_vars(join)

Spec == Init /\ [][Next]_vars /\ Fairness

-----------------------------------------------------------------------------
(* The messages the logger has taken over, wherever they are.              *)
Taken == file \o (IF pc[Writer] \in {"popped", "write"} THEN item[Writer] ELSE <<>>)
              \o log_queue
Finished(t) == logged(t) - (IF pc[t] \in {"helper", "to_terminal"} THEN 1 ELSE 0)

(* No message is lost and none is written twice, on its way through a full *)
(* queue, a stop and a restart; the file has each thread's in the order it *)
(* logged them, and of those that wait for room only messages that came    *)
(* after a stop are on the terminal (utils/Readme.md, "Queue-Full Policy").*)
EveryMessageOnce ==
  LET all == Taken \o terminal
  IN /\ \A t \in Callers :
          {all[i].n : i \in {i \in DOMAIN all : all[i].from = t}}
            = 1 .. Finished(t)
     /\ \A i, j \in DOMAIN all : i # j => all[i] # all[j]
     /\ \A i, j \in DOMAIN Taken : i < j /\ Taken[i].from = Taken[j].from
                                     => Taken[i].n < Taken[j].n
     /\ \A i \in DOMAIN terminal : terminal[i].waits => stop \/ starts > 1

(* When shutdown() has joined the writer, everything that was taken is in  *)
(* the file ("drains", async_logger.cpp:126).                              *)
JoinedMeansWritten == owner = "down" /\ starts > 0 => Taken = file

(* A call returns and what it queued is written, although callers and the  *)
(* writer sleep on one variable and wake one thread each; the callers are  *)
(* not more than the slots.                                                *)
EveryMessageIsWritten ==
  \A t \in Callers, n \in 1 .. MaxMessages :
    (logged(t) = n) ~>
      \E waits \in BOOLEAN :
        [from |-> t, n |-> n, waits |-> waits] \in ToSet(file) \cup ToSet(terminal)

(* shutdown() returns, whoever sleeps when it is called.                   *)
ShutdownCompletes == (owner = "stopping") ~> (owner = "down")

=============================================================================
