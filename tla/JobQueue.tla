------------------------------ MODULE JobQueue ------------------------------
(***************************************************************************)
(* JobQueue<T> (concurrency/job_queue.h) with the threads that use it: the *)
(* ThreadPool<T> that owns one (concurrency/thread_pool.h), the callers of *)
(* its submit(), and the callers of the blocking push() of a bare queue.   *)
(*                                                                         *)
(* One mutex protects the deque, and ONE condition variable is shared by   *)
(* the threads that wait for room and by those that wait for an item.  An  *)
(* action is a critical section; notify_one comes after the unlock, so it  *)
(* is a step of its own, and `waiting' is the wait set of the variable.    *)
(* A thread in its loop with pc "pop" or "push" is awake unless it is in   *)
(* `waiting'; waking up means evaluating the while condition again.        *)
(***************************************************************************)
EXTENDS Integers, Sequences, FiniteSets

CONSTANTS
  Submitters,   \* outside threads that call submit(), i.e. try_push()
  Pushers,      \* threads that call the blocking push()
  Workers,      \* the threads that pop: the pool, or the export result thread
  QUEUE_SIZE,   \* the capacity
  Lifo,         \* policy: TRUE is QueueType::Lifo, FALSE is QueueType::Fifo
  Quota         \* bound: how many items each thread ever offers

Threads == Submitters \cup Pushers \cup Workers

ASSUME ThreadsAssumption ==
  /\ Submitters \cap Pushers = {}
  /\ (Submitters \cup Pushers) \cap Workers = {}
  /\ IsFiniteSet(Threads)
ASSUME SizeAssumption == QUEUE_SIZE \in Nat /\ Lifo \in BOOLEAN
ASSUME QuotaAssumption == Quota \in [Threads -> Nat]

VARIABLES
  container,        \* the deque, front first
  stop_flag,
  submitted_total, submitted_failed, queued_number,   \* QueueMetrics
  waiting,          \* threads blocked in cv.wait
  pc,               \* where each thread is
  offered,          \* how many items each thread has offered
  delivered,        \* items handed to a worker by pop()
  owner             \* where the thread that starts and stops the pool is

metrics == <<submitted_total, submitted_failed, queued_number>>
vars == <<container, stop_flag, metrics, waiting, pc, offered, delivered, owner>>

\* The n-th item of a thread is the pair of the two, so that no two are equal.
Items == UNION {{<<t, n>> : n \in 1 .. Quota[t]} : t \in Threads}
NextItem(t) == <<t, offered[t] + 1>>

PCs == {"new", "call", "push", "pop", "popped", "job", "pushed",
        "closing", "exiting", "done"}

TypeOK ==
  /\ container \in Seq(Items)
  /\ stop_flag \in BOOLEAN
  /\ submitted_total \in Nat /\ submitted_failed \in Nat /\ queued_number \in Int
  /\ waiting \in SUBSET Threads
  /\ pc \in [Threads -> PCs]
  /\ offered \in [Threads -> Nat]
  /\ delivered \in SUBSET Items
  /\ owner \in {"starting", "up", "stopping", "joining", "down"}

Init ==
  /\ container = <<>> /\ stop_flag = FALSE
  /\ submitted_total = 0 /\ submitted_failed = 0 /\ queued_number = 0
  /\ waiting = {}
  /\ pc = [t \in Threads |-> IF t \in Workers THEN "new" ELSE "call"]
  /\ offered = [t \in Threads |-> 0]
  /\ delivered = {}
  /\ owner = "starting"

goto(t, where) == pc' = [pc EXCEPT ![t] = where]

-----------------------------------------------------------------------------
(* The condition variable *)

notify_one ==
  \/ waiting = {} /\ UNCHANGED waiting
  \/ \E t \in waiting : waiting' = waiting \ {t}

notify_all == waiting' = {}

wait(t) ==
  /\ waiting' = waiting \cup {t}
  /\ UNCHANGED <<container, stop_flag, metrics, pc, offered, delivered, owner>>

\* The standard lets a wait return for no reason.
SpuriousWakeup(t) ==
  /\ t \in waiting
  /\ waiting' = waiting \ {t}
  /\ UNCHANGED <<container, stop_flag, metrics, pc, offered, delivered, owner>>

-----------------------------------------------------------------------------
(* submit() and push() *)

\* Mutant: notify_one only when the deque was empty.
push_back_notifies_if_empty(t) ==
  /\ container' = Append(container, NextItem(t))
  /\ submitted_total' = submitted_total + 1
  /\ queued_number' = queued_number + 1
  /\ goto(t, IF container = <<>> THEN "pushed" ELSE IF t \in Workers THEN "job" ELSE "call")
  /\ UNCHANGED <<stop_flag, submitted_failed, waiting, delivered, owner>>

\* push_back with its metrics, then the unlock that leaves a notify_one to do.
push_back(t) ==
  /\ container' = Append(container, NextItem(t))
  /\ submitted_total' = submitted_total + 1
  /\ queued_number' = queued_number + 1
  /\ goto(t, "pushed")
  /\ UNCHANGED <<stop_flag, submitted_failed, waiting, delivered, owner>>

Offers(t) ==
  /\ offered[t] < Quota[t]
  /\ owner # "starting"
  /\ offered' = [offered EXCEPT ![t] = @ + 1]

\* Outside callers submit at will, and a worker may from inside its job.
CanSubmit(t) == pc[t] = IF t \in Workers THEN "job" ELSE "call"

try_push_rejected(t) ==
  /\ t \notin Pushers /\ CanSubmit(t) /\ Offers(t)
  /\ stop_flag \/ Len(container) >= QUEUE_SIZE
  /\ submitted_failed' = submitted_failed + 1
  /\ UNCHANGED <<container, stop_flag, submitted_total, queued_number,
                 waiting, pc, delivered, owner>>

\* Mutant: stop_flag is not looked at.
try_push_after_stop(t) ==
  /\ t \notin Pushers /\ CanSubmit(t) /\ Offers(t)
  /\ Len(container) < QUEUE_SIZE
  /\ push_back(t)

try_push_ok(t) ==
  /\ t \notin Pushers /\ CanSubmit(t) /\ Offers(t)
  /\ ~stop_flag /\ Len(container) < QUEUE_SIZE
  /\ push_back(t)

\* A caller of push() enters its loop; the item stays NextItem until it is out.
PushCalled(t) ==
  /\ t \in Pushers /\ pc[t] = "call"
  /\ offered[t] < Quota[t] /\ owner # "starting"
  /\ goto(t, "push")
  /\ UNCHANGED <<container, stop_flag, metrics, waiting, offered, delivered, owner>>

InPush(t) == t \in Pushers /\ pc[t] = "push" /\ t \notin waiting

push_waits(t) ==
  /\ InPush(t) /\ ~stop_flag /\ Len(container) >= QUEUE_SIZE
  /\ wait(t)

\* After the stop the item is dropped without a word.
push_returns(t) ==
  /\ InPush(t) /\ stop_flag
  /\ offered' = [offered EXCEPT ![t] = @ + 1]
  /\ goto(t, "call")
  /\ UNCHANGED <<container, stop_flag, metrics, waiting, delivered, owner>>

push_ok(t) ==
  /\ InPush(t) /\ ~stop_flag /\ Len(container) < QUEUE_SIZE
  /\ offered' = [offered EXCEPT ![t] = @ + 1]
  /\ push_back(t)

\* The notify_one of try_push, push or pop, after the unlock.
Notify(t) ==
  /\ pc[t] \in {"pushed", "popped"}
  /\ notify_one
  /\ goto(t, IF t \in Workers THEN "job" ELSE "call")
  /\ UNCHANGED <<container, stop_flag, metrics, offered, delivered, owner>>

-----------------------------------------------------------------------------
(* pop() and the worker's loop *)

InPop(w) == w \in Workers /\ pc[w] = "pop" /\ w \notin waiting

pop_waits(w) ==
  /\ InPop(w) /\ container = <<>> /\ ~stop_flag
  /\ wait(w)

\* Mutant: the stop is looked at first, as in a pool that drops its backlog.
pop_false_when_stopped(w) ==
  /\ InPop(w) /\ stop_flag
  /\ goto(w, "closing")
  /\ UNCHANGED <<container, stop_flag, metrics, waiting, offered, delivered, owner>>

\* pop() returns false and work_forever() leaves its loop.
pop_false(w) ==
  /\ InPop(w) /\ container = <<>> /\ stop_flag
  /\ goto(w, "closing")
  /\ UNCHANGED <<container, stop_flag, metrics, waiting, offered, delivered, owner>>

PopIndex == IF Lifo THEN Len(container) ELSE 1

\* Mutant: the item is read at one end and erased at the other.
RemoveOtherEnd ==
  IF Lifo THEN Tail(container) ELSE SubSeq(container, 1, Len(container) - 1)

RemovePopped ==
  IF Lifo THEN SubSeq(container, 1, Len(container) - 1) ELSE Tail(container)

\* Mutant: pop() does not notify the threads that wait for room.
pop_without_notify(w) ==
  /\ InPop(w) /\ container # <<>>
  /\ delivered' = delivered \cup {container[PopIndex]}
  /\ container' = RemovePopped
  /\ queued_number' = queued_number - 1
  /\ goto(w, "job")
  /\ UNCHANGED <<stop_flag, submitted_total, submitted_failed, waiting, offered, owner>>

pop_true(w) ==
  /\ InPop(w) /\ container # <<>>
  /\ delivered' = delivered \cup {container[PopIndex]}
  /\ container' = RemovePopped
  /\ queued_number' = queued_number - 1
  /\ goto(w, "popped")
  /\ UNCHANGED <<stop_flag, submitted_total, submitted_failed, waiting, offered, owner>>

JobReturns(w) ==
  /\ w \in Workers /\ pc[w] = "job"
  /\ goto(w, "pop")
  /\ UNCHANGED <<container, stop_flag, metrics, waiting, offered, delivered, owner>>

\* The queue's shutdown() that ends work_forever(), and its notify_all.
WorkerCloses(w) ==
  /\ w \in Workers /\ pc[w] = "closing"
  /\ stop_flag' = TRUE
  /\ goto(w, "exiting")
  /\ UNCHANGED <<container, metrics, waiting, offered, delivered, owner>>

WorkerExits(w) ==
  /\ w \in Workers /\ pc[w] = "exiting"
  /\ notify_all
  /\ goto(w, "done")
  /\ UNCHANGED <<container, stop_flag, metrics, offered, delivered, owner>>

-----------------------------------------------------------------------------
(* The owner: start(), shutdown() *)

StartThread(w) ==
  /\ owner = "starting" /\ w \in Workers /\ pc[w] = "new"
  /\ goto(w, "pop")
  /\ UNCHANGED <<container, stop_flag, metrics, waiting, offered, delivered, owner>>

start_returns ==
  /\ owner = "starting" /\ \A w \in Workers : pc[w] # "new"
  /\ owner' = "up"
  /\ UNCHANGED <<container, stop_flag, metrics, waiting, pc, offered, delivered>>

\* Called when the daemon stops, or by start() when a thread cannot be created.
shutdown ==
  /\ owner \in {"starting", "up"}
  /\ stop_flag' = TRUE
  /\ owner' = "stopping"
  /\ UNCHANGED <<container, metrics, waiting, pc, offered, delivered>>

\* Mutant: the flag is set and nobody is woken.
shutdown_wakes_nobody ==
  /\ owner = "stopping" /\ owner' = "joining"
  /\ UNCHANGED <<container, stop_flag, metrics, waiting, pc, offered, delivered>>

shutdown_notifies ==
  /\ owner = "stopping"
  /\ notify_all
  /\ owner' = "joining"
  /\ UNCHANGED <<container, stop_flag, metrics, pc, offered, delivered>>

join ==
  /\ owner = "joining"
  /\ \A w \in Workers : pc[w] \in {"new", "done"}
  /\ owner' = "down"
  /\ UNCHANGED <<container, stop_flag, metrics, waiting, pc, offered, delivered>>

-----------------------------------------------------------------------------
OwnerStep == start_returns \/ shutdown \/ shutdown_notifies \/ join

\* The steps a thread takes by itself once it is inside the queue or a job.
WorkerStep(w) ==
  \/ pop_waits(w) \/ pop_false(w) \/ pop_true(w) \/ JobReturns(w)
  \/ WorkerCloses(w) \/ WorkerExits(w) \/ Notify(w)

PusherStep(t) == push_waits(t) \/ push_returns(t) \/ push_ok(t) \/ Notify(t)

Next ==
  \/ OwnerStep
  \/ \E w \in Workers : StartThread(w) \/ WorkerStep(w)
  \/ \E t \in Pushers : PushCalled(t) \/ PusherStep(t)
  \/ \E t \in Submitters : Notify(t)
  \/ \E t \in Threads :
       try_push_rejected(t) \/ try_push_ok(t) \/ SpuriousWakeup(t)

(***************************************************************************)
(* Fairness: every thread that can take its next step takes it (the locks  *)
(* are held for a few instructions and a job ends).  Nobody has to call    *)
(* submit(), push() or shutdown(), and no spurious wakeup may be hoped for *)
(***************************************************************************)
Fairness ==
  /\ WF_vars(shutdown_notifies) /\ WF_vars(join)
  /\ \A w \in Workers : WF_vars(WorkerStep(w))
  /\ \A t \in Pushers : WF_vars(PusherStep(t))
  /\ \A t \in Submitters : WF_vars(Notify(t))

SafeSpec == Init /\ [][Next]_vars
Spec == SafeSpec /\ Fairness

-----------------------------------------------------------------------------
(* Properties *)

Awake == {w \in Workers : pc[w] = "pop" /\ w \notin waiting}
Notifying == {t \in Threads : pc[t] = "pushed"}

(* No lost wakeup (job_queue.h:109, "notify cv.wait in pop"): while a      *)
(* worker sleeps in pop(), every queued item has a worker already awake    *)
(* for it or a notify_one still to come, so none lies there unseen.        *)
NoLostWakeup ==
  \/ stop_flag
  \/ Workers \cap waiting = {}
  \/ Len(container) <= Cardinality(Awake) + Cardinality(Notifying)

(* No stranded producer (job_queue.h:142, "notify cv.wait in push()"): the *)
(* threads asleep in push() are at most as many as the items whose pop is  *)
(* still to come plus the notify_one calls that pops have still to make.   *)
NoStrandedPusher ==
  \/ stop_flag
  \/ Cardinality(Pushers \cap waiting) <=
       Len(container) + Cardinality({w \in Workers : pc[w] = "popped"})

(* What submit() counted as accepted is in the deque or has been handed to *)
(* a worker, once: pop() neither loses nor repeats a job.                  *)
ExactlyOnce ==
  /\ submitted_total = Len(container) + Cardinality(delivered)
  /\ queued_number = Len(container)
  /\ \A i, j \in DOMAIN container : container[i] = container[j] => i = j
  /\ \A i \in DOMAIN container : container[i] \notin delivered

(* pop() returns false only on an empty queue (job_queue.h:120), so a pool *)
(* that was joined has run every job it accepted.                          *)
JoinedMeansDrained ==
  \A w \in Workers : pc[w] \in {"closing", "exiting", "done"} =>
                       stop_flag /\ container = <<>>

(* ThreadPool::shutdown returns: after the stop every sleeping thread is   *)
(* woken, leaves pop() and is joined (concurrency/Readme.md:61-68).        *)
ShutdownCompletes == (owner = "stopping") ~> (owner = "down")

(* The queue with its threads implements the abstract bounded queue; with  *)
(* its fairness: an accepted item is delivered, whoever sleeps on the cv.  *)
Abstract == INSTANCE BoundedQueue WITH queue <- container, closed <- stop_flag
AbstractQueue == Abstract!Spec

=============================================================================
