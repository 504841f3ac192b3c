---------------------------- MODULE BoundedQueue ----------------------------
(***************************************************************************)
(* What JobQueue<T> promises, with no threads, locks or condition variable *)
(* in sight: a bounded queue that can be closed.  Items are accepted while *)
(* the queue is open and has room, leave it one at a time at the end that  *)
(* the policy names, and whatever was accepted is delivered, closed or not *)
(***************************************************************************)
EXTENDS Integers, Sequences

CONSTANTS
  Items,        \* everything that may be offered, each once
  QUEUE_SIZE,   \* capacity
  Lifo          \* TRUE: newest first, FALSE: oldest first

VARIABLES queue, closed, delivered

vars == <<queue, closed, delivered>>

Init == queue = <<>> /\ closed = FALSE /\ delivered = {}

Queued == {queue[i] : i \in DOMAIN queue}

Accept(i) ==
  /\ ~closed
  /\ Len(queue) < QUEUE_SIZE
  /\ i \notin Queued \cup delivered
  /\ queue' = Append(queue, i)
  /\ UNCHANGED <<closed, delivered>>

DeliverAt(k) ==
  /\ delivered' = delivered \cup {queue[k]}
  /\ queue' = [j \in 1 .. Len(queue) - 1 |-> IF j < k THEN queue[j] ELSE queue[j + 1]]
  /\ UNCHANGED closed

Deliver ==
  /\ queue # <<>>
  /\ DeliverAt(IF Lifo THEN Len(queue) ELSE 1)

Close == closed' = TRUE /\ UNCHANGED <<queue, delivered>>

Next == (\E i \in Items : Accept(i)) \/ Deliver \/ Close

SafeSpec == Init /\ [][Next]_vars
Spec == SafeSpec /\ WF_vars(Deliver)

=============================================================================
