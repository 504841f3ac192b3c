---------------------------- MODULE JobQueueProofs ----------------------------
(***************************************************************************)
(* Proofs about JobQueue, for any number of threads, any capacity and      *)
(* either policy: no wakeup is lost, each item is handled once, a joined   *)
(* pool is drained, and the threads do what BoundedQueue promises: every   *)
(* step accepts an item, delivers the one the policy names, closes the     *)
(* queue or changes nothing that BoundedQueue speaks of.                   *)
(***************************************************************************)
EXTENDS JobQueue, SequenceTheorems, FiniteSetTheorems, TLAPS

-----------------------------------------------------------------------------
(* The two ways to take an item out of the deque *)

LEMMA FrontType ==
  ASSUME NEW S, NEW s \in Seq(S), s # <<>>
  PROVE  /\ SubSeq(s, 1, Len(s) - 1) \in Seq(S)
         /\ Len(SubSeq(s, 1, Len(s) - 1)) = Len(s) - 1
         /\ \A i \in 1 .. Len(s) - 1 : SubSeq(s, 1, Len(s) - 1)[i] = s[i]
<1>1. Len(s) \in Nat /\ Len(s) > 0
  BY EmptySeq, LenProperties
<1>2. \A i \in 1 .. Len(s) - 1 : s[i] \in S
  BY <1>1, ElementOfSeq
<1> DEFINE n == Len(s) - 1
<1>3. /\ SubSeq(s, 1, n) \in Seq(S)
      /\ Len(SubSeq(s, 1, n)) = IF 1 <= n THEN n - 1 + 1 ELSE 0
      /\ \A i \in 1 .. n - 1 + 1 : SubSeq(s, 1, n)[i] = s[1 + i - 1]
  <2>1. n \in Int /\ 1 \in Int
    BY <1>1
  <2> HIDE DEF n
  <2> QED
    BY <1>2, <2>1, SubSeqProperties DEF n
<1>4. n - 1 + 1 = Len(s) - 1 /\ \A i \in 1 .. n : 1 + i - 1 = i
  BY <1>1
<1>5. ASSUME NEW i \in 1 .. n PROVE SubSeq(s, 1, n)[i] = s[i]
  <2> HIDE DEF n
  <2> QED BY <1>3, <1>4 DEF n
<1>6. Len(SubSeq(s, 1, n)) = n
  <2>1. n \in Nat
    BY <1>1
  <2> HIDE DEF n
  <2>2. CASE 1 <= n
    BY <1>3, <2>1, <2>2
  <2>3. CASE n < 1
    BY <1>3, <2>1, <2>3
  <2> QED BY <2>1, <2>2, <2>3
<1> QED
  BY <1>3, <1>5, <1>6 DEF n

\* pop() takes an item that is there and leaves the others in their order.
LEMMA Popping ==
  ASSUME container \in Seq(Items), container # <<>>
  PROVE  /\ PopIndex \in 1 .. Len(container) /\ container[PopIndex] \in Items
         /\ RemovePopped \in Seq(Items)
         /\ Len(RemovePopped) = Len(container) - 1
         /\ \A i \in 1 .. Len(container) - 1 :
              RemovePopped[i] = IF i < PopIndex THEN container[i] ELSE container[i + 1]
<1>1. Len(container) \in Nat /\ Len(container) > 0
  BY EmptySeq, LenProperties
<1>2. CASE Lifo
  BY <1>1, <1>2, FrontType, ElementOfSeq DEF PopIndex, RemovePopped
<1>3. CASE ~Lifo
  <2>1. /\ Tail(container) \in Seq(Items)
        /\ Len(Tail(container)) = Len(container) - 1
        /\ \A i \in 1 .. Len(container) - 1 : Tail(container)[i] = container[i + 1]
    BY HeadTailProperties
  <2> QED
    BY <1>1, <1>3, <2>1, ElementOfSeq DEF PopIndex, RemovePopped
<1> QED
  BY <1>2, <1>3

-----------------------------------------------------------------------------
(* Type correctness *)

LEMMA NextItemType ==
  ASSUME NEW t \in Threads, offered \in [Threads -> Nat], offered[t] < Quota[t]
  PROVE  NextItem(t) \in Items
<1>1. offered[t] + 1 \in 1 .. Quota[t]
  BY QuotaAssumption
<1> QED
  BY <1>1 DEF NextItem, Items

LEMMA PushBackType ==
  ASSUME TypeOK, NEW t \in Threads, offered[t] < Quota[t], push_back(t),
         offered' = [offered EXCEPT ![t] = @ + 1]
  PROVE  TypeOK'
<1>1. Append(container, NextItem(t)) \in Seq(Items)
  BY NextItemType, AppendProperties DEF TypeOK
<1> QED
  BY <1>1 DEF TypeOK, push_back, goto, PCs

\* An item is in hand while its thread is in push().
ItemInHand == \A t \in Pushers : pc[t] = "push" => offered[t] < Quota[t]

TypeInv == TypeOK /\ ItemInHand

LEMMA InitType == Init => TypeInv
<1> SUFFICES ASSUME Init PROVE TypeInv
  OBVIOUS
<1>1. container \in Seq(Items)
  BY EmptySeq DEF Init
<1>2. pc \in [Threads -> PCs] /\ offered \in [Threads -> Nat]
  BY DEF Init, PCs
<1>3. stop_flag \in BOOLEAN
  BY DEF Init
<1>5. /\ submitted_total \in Nat /\ submitted_failed \in Nat
      /\ queued_number \in Int /\ waiting \in SUBSET Threads /\ delivered \in SUBSET Items
      /\ owner \in {"starting", "up", "stopping", "joining", "down"}
  BY DEF Init
<1>4. ItemInHand
  BY DEF Init, ItemInHand, Threads
<1> QED
  BY <1>1, <1>2, <1>3, <1>4, <1>5 DEF TypeOK, TypeInv

LEMMA NextType == TypeInv /\ [Next]_vars => TypeInv'
<1> SUFFICES ASSUME TypeInv, [Next]_vars PROVE TypeInv'
  OBVIOUS
<1> USE DEF TypeInv
<1>0. Workers \subseteq Threads /\ Pushers \subseteq Threads /\ Submitters \subseteq Threads
  BY DEF Threads
<1>1. ASSUME NEW t \in Threads, try_push_ok(t) PROVE TypeInv'
  <2>1. TypeOK'
    BY <1>1, PushBackType DEF try_push_ok, Offers
  <2>2. ItemInHand'
    BY <1>0, <1>1 DEF ItemInHand, TypeOK, try_push_ok, Offers, push_back, goto
  <2> QED
    BY <2>1, <2>2
<1>2. ASSUME NEW t \in Pushers, push_ok(t) PROVE TypeInv'
  <2>1. TypeOK'
    BY <1>0, <1>2, PushBackType DEF push_ok, InPush, ItemInHand
  <2>2. ItemInHand'
    BY <1>0, <1>2 DEF ItemInHand, TypeOK, push_ok, push_back, goto
  <2> QED
    BY <2>1, <2>2
<1>3. ASSUME NEW w \in Workers, pop_true(w) PROVE TypeInv'
  <2>1. TypeOK'
    BY <1>0, <1>3, Popping DEF TypeOK, pop_true, goto, PCs
  <2>2. ItemInHand'
    BY <1>0, <1>3 DEF ItemInHand, TypeOK, pop_true, goto
  <2> QED
    BY <2>1, <2>2
<1>4. ASSUME OwnerStep PROVE TypeInv'
  BY <1>4 DEF TypeOK, ItemInHand, OwnerStep, start_returns, shutdown, shutdown_notifies,
              join, notify_all, metrics
<1>5. ASSUME NEW t \in Threads, Notify(t) PROVE TypeInv'
  BY <1>0, <1>5 DEF TypeOK, ItemInHand, Notify, notify_one, goto, PCs, metrics
<1>6. ASSUME NEW w \in Workers, StartThread(w) \/ pop_waits(w) \/ pop_false(w)
               \/ JobReturns(w) \/ WorkerCloses(w) \/ WorkerExits(w)
      PROVE  TypeInv'
  BY <1>0, <1>6 DEF TypeOK, ItemInHand, StartThread, pop_waits, wait, pop_false,
       JobReturns, WorkerCloses, WorkerExits, notify_all, goto, PCs, metrics
<1>7. ASSUME NEW t \in Pushers, PushCalled(t) \/ push_waits(t) \/ push_returns(t)
      PROVE  TypeInv'
  <2>1. TypeOK'
    <3>1. CASE PushCalled(t)
      BY <1>0, <3>1 DEF TypeOK, PushCalled, goto, PCs, metrics
    <3>2. CASE push_waits(t)
      BY <1>0, <3>2 DEF TypeOK, push_waits, wait, PCs, metrics
    <3>3. CASE push_returns(t)
      BY <1>0, <3>3 DEF TypeOK, push_returns, goto, PCs, metrics
    <3> QED
      BY <1>7, <3>1, <3>2, <3>3
  <2>2. ASSUME NEW u \in Pushers, pc'[u] = "push" PROVE offered'[u] < Quota[u]
    <3>1. CASE PushCalled(t)
      BY <1>0, <2>2, <3>1 DEF TypeOK, ItemInHand, PushCalled, goto
    <3>2. CASE push_waits(t)
      BY <1>0, <2>2, <3>2 DEF TypeOK, ItemInHand, push_waits, wait
    <3>3. CASE push_returns(t)
      BY <1>0, <2>2, <3>3 DEF TypeOK, ItemInHand, push_returns, InPush, goto
    <3> QED
      BY <1>7, <3>1, <3>2, <3>3
  <2> QED
    BY <2>1, <2>2 DEF ItemInHand
<1>8. ASSUME NEW t \in Threads, try_push_rejected(t) PROVE TypeInv'
  <2>1. TypeOK'
    BY <1>0, <1>8 DEF TypeOK, try_push_rejected, Offers
  <2>2. ItemInHand'
    BY <1>0, <1>8 DEF TypeOK, ItemInHand, try_push_rejected, Offers
  <2> QED
    BY <2>1, <2>2
<1>10. ASSUME NEW t \in Threads, SpuriousWakeup(t) PROVE TypeInv'
  BY <1>10 DEF TypeOK, ItemInHand, SpuriousWakeup, metrics
<1>9. CASE UNCHANGED vars
  BY <1>9 DEF TypeOK, ItemInHand, vars, metrics
<1> QED
  BY <1>0, <1>1, <1>2, <1>3, <1>4, <1>5, <1>6, <1>7, <1>8, <1>9, <1>10
     DEF Next, WorkerStep, PusherStep

(* The program's variables keep their types (job_queue.h:34-43).           *)
THEOREM TypeCorrect == SafeSpec => []TypeOK
<1>1. TypeInv => TypeOK
  BY DEF TypeInv
<1> QED
  BY <1>1, InitType, NextType, PTL DEF SafeSpec

-----------------------------------------------------------------------------
(* Who waits on the condition variable *)

\* A thread in the wait set is a worker in pop() or a pusher in push().
WaitersInside ==
  \A t \in waiting : \/ t \in Workers /\ pc[t] = "pop"
                     \/ t \in Pushers /\ pc[t] = "push"

LEMMA NextWaiters == TypeInv /\ WaitersInside /\ [Next]_vars => WaitersInside'
<1> SUFFICES ASSUME TypeInv, WaitersInside, [Next]_vars PROVE WaitersInside'
  OBVIOUS
<1> USE DEF TypeInv, TypeOK, WaitersInside
<1>0. Workers \subseteq Threads /\ Pushers \subseteq Threads /\ Submitters \subseteq Threads
      /\ Workers \cap Pushers = {}
  BY ThreadsAssumption DEF Threads
<1>1. ASSUME NEW t \in Threads, try_push_ok(t) PROVE WaitersInside'
  BY <1>0, <1>1 DEF try_push_ok, push_back, CanSubmit, goto
<1>2. ASSUME NEW t \in Pushers, push_ok(t) PROVE WaitersInside'
  BY <1>0, <1>2 DEF push_ok, InPush, push_back, goto
<1>3. ASSUME NEW w \in Workers, pop_true(w) PROVE WaitersInside'
  BY <1>0, <1>3 DEF pop_true, InPop, goto
<1>4. ASSUME OwnerStep PROVE WaitersInside'
  BY <1>4 DEF OwnerStep, start_returns, shutdown, shutdown_notifies, join, notify_all
<1>5. ASSUME NEW t \in Threads, Notify(t) PROVE WaitersInside'
  BY <1>0, <1>5 DEF Notify, notify_one, goto
<1>6. ASSUME NEW w \in Workers, StartThread(w) \/ pop_waits(w) \/ pop_false(w)
               \/ JobReturns(w) \/ WorkerCloses(w) \/ WorkerExits(w)
      PROVE  WaitersInside'
  BY <1>0, <1>6 DEF StartThread, pop_waits, wait, pop_false, InPop, JobReturns,
       WorkerCloses, WorkerExits, notify_all, goto
<1>7. ASSUME NEW t \in Pushers, PushCalled(t) \/ push_waits(t) \/ push_returns(t)
      PROVE  WaitersInside'
  BY <1>0, <1>7 DEF PushCalled, push_waits, wait, push_returns, InPush, goto
<1>8. ASSUME NEW t \in Threads, try_push_rejected(t) \/ SpuriousWakeup(t) PROVE WaitersInside'
  BY <1>0, <1>8 DEF try_push_rejected, SpuriousWakeup
<1>9. CASE UNCHANGED vars
  BY <1>9 DEF vars
<1> QED
  BY <1>0, <1>1, <1>2, <1>3, <1>4, <1>5, <1>6, <1>7, <1>8, <1>9
     DEF Next, WorkerStep, PusherStep

-----------------------------------------------------------------------------
(* The pool: nobody waits for room *)

LEMMA FiniteThreads ==
  /\ IsFiniteSet(Awake) /\ Cardinality(Awake) \in Nat
  /\ IsFiniteSet(Notifying) /\ Cardinality(Notifying) \in Nat
<1>1. Awake \in SUBSET Threads /\ Notifying \in SUBSET Threads
  BY DEF Awake, Notifying, Threads
<1> QED
  BY <1>1, ThreadsAssumption, FS_Subset, FS_CardinalityType

LEMMA PoolWakeup ==
  ASSUME Pushers = {}, TypeInv, WaitersInside, NoLostWakeup, [Next]_vars
  PROVE  NoLostWakeup'
<1> SUFFICES ASSUME ~stop_flag', Workers \cap waiting' # {}
             PROVE  Len(container') <= Cardinality(Awake') + Cardinality(Notifying')
  BY DEF NoLostWakeup
<1> USE DEF TypeInv, TypeOK
<1>0. Workers \subseteq Threads /\ Submitters \subseteq Threads
  BY DEF Threads
<1>f. /\ IsFiniteSet(Awake) /\ Cardinality(Awake) \in Nat
      /\ IsFiniteSet(Notifying) /\ Cardinality(Notifying) \in Nat
      /\ IsFiniteSet(Awake') /\ Cardinality(Awake') \in Nat
      /\ IsFiniteSet(Notifying') /\ Cardinality(Notifying') \in Nat
  <2>1. Awake' \in SUBSET Threads /\ Notifying' \in SUBSET Threads
    BY <1>0 DEF Awake, Notifying
  <2> QED
    BY <2>1, FiniteThreads, ThreadsAssumption, FS_Subset, FS_CardinalityType
<1>n. Len(container) \in Nat
  BY LenProperties
<1>w. ASSUME ~stop_flag, Workers \cap waiting # {}
      PROVE  Len(container) <= Cardinality(Awake) + Cardinality(Notifying)
  BY <1>w DEF NoLostWakeup
\* A step that takes no worker out of Awake and leaves the rest alone.
<1>m. ASSUME ~stop_flag, Workers \cap waiting # {}, UNCHANGED container,
             Awake \subseteq Awake', Notifying' = Notifying
      PROVE  Len(container') <= Cardinality(Awake') + Cardinality(Notifying')
  <2>1. Cardinality(Awake) <= Cardinality(Awake')
    BY <1>f, <1>m, FS_Subset
  <2> QED
    BY <1>f, <1>m, <1>n, <1>w, <2>1
<1>1. ASSUME NEW t \in Threads, try_push_ok(t)
      PROVE  Len(container') <= Cardinality(Awake') + Cardinality(Notifying')
  <2>1. ~stop_flag /\ waiting' = waiting /\ Len(container') = Len(container) + 1
    BY <1>1, AppendProperties DEF try_push_ok, push_back
  <2>2. Awake' = Awake
    BY <1>0, <1>1 DEF try_push_ok, push_back, CanSubmit, goto, Awake
  <2>3. Notifying' = Notifying \cup {t} /\ t \notin Notifying
    BY <1>1 DEF try_push_ok, push_back, CanSubmit, goto, Notifying
  <2>4. Cardinality(Notifying') = Cardinality(Notifying) + 1
    BY <1>f, <2>3, FS_AddElement
  <2> QED
    BY <1>f, <1>n, <1>w, <2>1, <2>2, <2>4
<1>2. ASSUME NEW t \in Threads, Notify(t)
      PROVE  Len(container') <= Cardinality(Awake') + Cardinality(Notifying')
  <2>1. PICK u \in waiting : waiting' = waiting \ {u}
    BY <1>2 DEF Notify, notify_one
  <2>2. u \in Workers /\ pc[u] = "pop" /\ u # t
    BY <1>2, <2>1 DEF WaitersInside, Notify
  <2>3. ~stop_flag /\ UNCHANGED container /\ Workers \cap waiting # {}
    BY <1>2, <2>1 DEF Notify
  <2>4. Awake' = Awake \cup {u} /\ u \notin Awake
    BY <1>0, <1>2, <2>1, <2>2 DEF Awake, Notify, goto
  <2>5. Cardinality(Awake') = Cardinality(Awake) + 1
    BY <1>f, <2>4, FS_AddElement
  <2>6. CASE pc[t] = "pushed"
    <3>1. Notifying' = Notifying \ {t} /\ t \in Notifying
      BY <1>0, <1>2, <2>6 DEF Notifying, Notify, goto
    <3>2. Cardinality(Notifying') = Cardinality(Notifying) - 1
      BY <1>f, <3>1, FS_RemoveElement
    <3> QED
      BY <1>f, <1>n, <1>w, <2>3, <2>5, <3>2
  <2>7. CASE pc[t] = "popped"
    <3>1. Notifying' = Notifying
      BY <1>0, <1>2, <2>7 DEF Notifying, Notify, goto
    <3> QED
      BY <1>m, <2>3, <2>4, <3>1
  <2> QED
    BY <1>2, <2>6, <2>7 DEF Notify
<1>3. ASSUME NEW w \in Workers, pop_true(w)
      PROVE  Len(container') <= Cardinality(Awake') + Cardinality(Notifying')
  <2>1. ~stop_flag /\ waiting' = waiting /\ Len(container') = Len(container) - 1
    BY <1>3, Popping DEF pop_true
  <2>2. Awake' = Awake \ {w} /\ w \in Awake
    BY <1>0, <1>3 DEF pop_true, InPop, goto, Awake
  <2>3. Notifying' = Notifying
    BY <1>0, <1>3 DEF pop_true, InPop, goto, Notifying
  <2>4. Cardinality(Awake') = Cardinality(Awake) - 1
    BY <1>f, <2>2, FS_RemoveElement
  <2> QED
    BY <1>f, <1>n, <1>w, <2>1, <2>3, <2>4
<1>4. ASSUME NEW w \in Workers, pop_waits(w)
      PROVE  Len(container') <= Cardinality(Awake') + Cardinality(Notifying')
  BY <1>4, <1>f, EmptySeq DEF pop_waits, wait
<1>5. ASSUME NEW w \in Workers, StartThread(w) \/ JobReturns(w)
      PROVE  Len(container') <= Cardinality(Awake') + Cardinality(Notifying')
  <2>1. Awake \subseteq Awake' /\ Notifying' = Notifying
    BY <1>0, <1>5 DEF StartThread, JobReturns, goto, Awake, Notifying
  <2> QED
    BY <1>5, <1>m, <2>1 DEF StartThread, JobReturns
<1>6. ASSUME NEW t \in Threads, try_push_rejected(t) \/ SpuriousWakeup(t)
      PROVE  Len(container') <= Cardinality(Awake') + Cardinality(Notifying')
  <2>1. Awake \subseteq Awake' /\ Notifying' = Notifying
    BY <1>6 DEF try_push_rejected, SpuriousWakeup, Awake, Notifying
  <2> QED
    BY <1>6, <1>m, <2>1 DEF try_push_rejected, SpuriousWakeup
<1>7. ASSUME start_returns \/ join \/ UNCHANGED vars
      PROVE  Len(container') <= Cardinality(Awake') + Cardinality(Notifying')
  <2>1. Awake' = Awake /\ Notifying' = Notifying
    BY <1>7 DEF start_returns, join, vars, Awake, Notifying
  <2> QED
    BY <1>7, <1>m, <2>1 DEF start_returns, join, vars
\* The others stop the queue, find it stopped or wake everybody.
<1>8. ~shutdown /\ ~shutdown_notifies
  BY DEF shutdown, shutdown_notifies, notify_all
<1>9. ASSUME NEW w \in Workers
      PROVE  ~pop_false(w) /\ ~WorkerCloses(w) /\ ~WorkerExits(w)
  BY DEF pop_false, WorkerCloses, WorkerExits, notify_all
<1> QED
  BY <1>0, <1>1, <1>2, <1>3, <1>4, <1>5, <1>6, <1>7, <1>8, <1>9
     DEF Next, OwnerStep, WorkerStep

(* No wakeup is lost in a pool whatever its size and however many threads  *)
(* submit to it (job_queue.h:67-90, 113-145): with nobody in push(), each  *)
(* notify_one goes to a worker that waits in pop().                        *)
THEOREM PoolLosesNoWakeup ==
  ASSUME Pushers = {}
  PROVE  SafeSpec => []NoLostWakeup
<1> DEFINE I == TypeInv /\ WaitersInside /\ NoLostWakeup
<1>1. Init => I
  BY InitType DEF Init, WaitersInside, NoLostWakeup
<1>2. I /\ [Next]_vars => I'
  BY NextType, NextWaiters, PoolWakeup
<1> QED
  BY <1>1, <1>2, PTL DEF SafeSpec

-----------------------------------------------------------------------------
(* The blocking push() of job_queue.h and its one condition variable: with *)
(* one consumer and no more producers than the queue has slots, as the     *)
(* export system uses it, neither side can be left asleep.  (With one slot *)
(* and two producers it can: the bound is needed.)                         *)

Producers == Pushers \cup Submitters
StrandedPushers == Pushers \cap waiting
Popped == {w \in Workers : pc[w] = "popped"}

\* While the consumer sleeps no producer does, and each item has its notify to come.
ConsumerWillSee ==
  \/ stop_flag
  \/ Workers \cap waiting = {}
  \/ StrandedPushers = {} /\ Len(container) <= Cardinality(Notifying)

LEMMA FiniteProducers ==
  /\ IsFiniteSet(Producers) /\ Cardinality(Producers) \in Nat
  /\ IsFiniteSet(Pushers) /\ Cardinality(Pushers) <= Cardinality(Producers)
<1>1. Producers \in SUBSET Threads /\ Pushers \in SUBSET Producers
  BY DEF Producers, Threads
<1> QED
  BY <1>1, ThreadsAssumption, FS_Subset, FS_CardinalityType

LEMMA FiniteWaiters ==
  /\ IsFiniteSet(StrandedPushers) /\ Cardinality(StrandedPushers) \in Nat
  /\ IsFiniteSet(Popped) /\ Cardinality(Popped) \in Nat
<1>1. StrandedPushers \in SUBSET Threads /\ Popped \in SUBSET Threads
  BY DEF StrandedPushers, Popped, Threads
<1> QED
  BY <1>1, ThreadsAssumption, FS_Subset, FS_CardinalityType

LEMMA FiniteWaitersNext ==
  /\ IsFiniteSet(StrandedPushers') /\ Cardinality(StrandedPushers') \in Nat
  /\ IsFiniteSet(Popped') /\ Cardinality(Popped') \in Nat
  /\ IsFiniteSet(Notifying') /\ Cardinality(Notifying') \in Nat
<1>1. /\ StrandedPushers' \in SUBSET Threads /\ Popped' \in SUBSET Threads
      /\ Notifying' \in SUBSET Threads
  BY DEF StrandedPushers, Popped, Notifying, Threads
<1> QED
  BY <1>1, ThreadsAssumption, FS_Subset, FS_CardinalityType

\* No producer can find the queue full while the consumer sleeps.
LEMMA NeverFullBehindSleeper ==
  ASSUME Cardinality(Producers) <= QUEUE_SIZE, TypeInv, WaitersInside, ConsumerWillSee,
         NEW c, Workers = {c}, c \in waiting, ~stop_flag, NEW t \in Pushers, push_waits(t)
  PROVE  FALSE
<1>1. Notifying \in SUBSET (Producers \ {t}) /\ t \in Producers
  BY DEF Notifying, Producers, Threads, push_waits, InPush, WaitersInside
<1>2. Cardinality(Producers \ {t}) = Cardinality(Producers) - 1 /\ IsFiniteSet(Producers \ {t})
  BY <1>1, FiniteProducers, FS_RemoveElement
<1>3. Cardinality(Notifying) <= Cardinality(Producers) - 1
  BY <1>1, <1>2, FS_Subset
<1>4. Len(container) <= Cardinality(Notifying) /\ Len(container) >= QUEUE_SIZE
  BY DEF ConsumerWillSee, push_waits
<1>5. Len(container) \in Nat
  BY LenProperties DEF TypeInv, TypeOK
<1> QED
  BY <1>3, <1>4, <1>5, FiniteProducers, FiniteThreads, SizeAssumption

LEMMA NextConsumer ==
  ASSUME Cardinality(Producers) <= QUEUE_SIZE, TypeInv, WaitersInside, NoStrandedPusher,
         ConsumerWillSee, NEW c, Workers = {c}, [Next]_vars
  PROVE  ConsumerWillSee'
<1> SUFFICES ASSUME ~stop_flag', c \in waiting'
             PROVE  StrandedPushers' = {} /\ Len(container') <= Cardinality(Notifying')
  BY DEF ConsumerWillSee
<1> USE DEF TypeInv, TypeOK
<1>0. Workers \subseteq Threads /\ Pushers \subseteq Threads /\ Submitters \subseteq Threads
      /\ Workers \cap Pushers = {} /\ Workers \cap Submitters = {}
  BY ThreadsAssumption DEF Threads
<1>n. Len(container) \in Nat
  BY LenProperties
<1>w. ASSUME ~stop_flag, c \in waiting
      PROVE  /\ StrandedPushers = {} /\ Len(container) <= Cardinality(Notifying)
             /\ pc[c] = "pop" /\ waiting = {c}
  BY <1>0, <1>w DEF ConsumerWillSee, WaitersInside, StrandedPushers
<1>1. ASSUME NEW t \in Threads, push_back(t), ~stop_flag, pc[t] \notin {"pushed", "pop"}
      PROVE  StrandedPushers' = {} /\ Len(container') <= Cardinality(Notifying')
  <2>1. waiting' = waiting /\ Len(container') = Len(container) + 1
    BY <1>1, AppendProperties DEF push_back
  <2>2. Notifying' = Notifying \cup {t} /\ t \notin Notifying
    BY <1>1 DEF push_back, goto, Notifying
  <2>3. Cardinality(Notifying') = Cardinality(Notifying) + 1
    BY <2>2, FiniteThreads, FS_AddElement
  <2> QED
    BY <1>1, <1>n, <1>w, <2>1, <2>3, FiniteThreads DEF StrandedPushers
<1>2. ASSUME NEW t \in Threads, try_push_ok(t)
      PROVE  StrandedPushers' = {} /\ Len(container') <= Cardinality(Notifying')
  BY <1>1, <1>2 DEF try_push_ok, CanSubmit
<1>3. ASSUME NEW t \in Pushers, push_ok(t)
      PROVE  StrandedPushers' = {} /\ Len(container') <= Cardinality(Notifying')
  BY <1>0, <1>1, <1>3 DEF push_ok, InPush
<1>4. ASSUME NEW t \in Threads, Notify(t) PROVE FALSE
  <2>1. PICK u \in waiting : waiting' = waiting \ {u}
    BY <1>4 DEF Notify, notify_one
  <2>2. ~stop_flag /\ c \in waiting
    BY <1>4, <2>1 DEF Notify
  <2> QED
    BY <1>w, <2>1, <2>2
<1>5. ASSUME pop_waits(c)
      PROVE  StrandedPushers' = {} /\ Len(container') <= Cardinality(Notifying')
  <2>1. Len(container) = 0 /\ UNCHANGED <<container, pc>> /\ StrandedPushers' = StrandedPushers
    BY <1>0, <1>5, EmptySeq DEF pop_waits, wait, StrandedPushers
  <2>2. Popped = {} /\ ~stop_flag
    BY <1>5 DEF pop_waits, InPop, Popped
  <2>3. Cardinality(StrandedPushers) <= Len(container) + Cardinality(Popped)
    BY <2>2 DEF NoStrandedPusher, Popped, StrandedPushers
  <2>4. StrandedPushers = {}
    BY <2>1, <2>2, <2>3, FiniteWaiters, FS_EmptySet
  <2> QED
    BY <2>1, <2>4, FiniteWaitersNext
<1>6. ASSUME NEW t \in Pushers, push_waits(t) PROVE FALSE
  <2>1. c \in waiting /\ ~stop_flag
    BY <1>0, <1>6 DEF push_waits, wait
  <2> QED
    BY <1>6, <2>1, NeverFullBehindSleeper
\* Steps that leave the consumer asleep, with no more pushers beside it.
<1>m. ASSUME waiting' \subseteq waiting, ~stop_flag, UNCHANGED container,
             Notifying' = Notifying
      PROVE  StrandedPushers' = {} /\ Len(container') <= Cardinality(Notifying')
  BY <1>m, <1>w DEF StrandedPushers
<1>7. ASSUME NEW t \in Threads, try_push_rejected(t) \/ SpuriousWakeup(t)
      PROVE  StrandedPushers' = {} /\ Len(container') <= Cardinality(Notifying')
  <2>1. waiting' \subseteq waiting /\ ~stop_flag /\ UNCHANGED container /\ Notifying' = Notifying
    BY <1>7 DEF try_push_rejected, SpuriousWakeup, Notifying
  <2> QED
    BY <1>m, <2>1
<1>8. ASSUME start_returns \/ join \/ UNCHANGED vars
      PROVE  StrandedPushers' = {} /\ Len(container') <= Cardinality(Notifying')
  <2>1. waiting' \subseteq waiting /\ ~stop_flag /\ UNCHANGED container /\ Notifying' = Notifying
    BY <1>8 DEF start_returns, join, vars, Notifying
  <2> QED
    BY <1>m, <2>1
<1>9. ASSUME NEW t \in Pushers, PushCalled(t)
      PROVE  StrandedPushers' = {} /\ Len(container') <= Cardinality(Notifying')
  <2>1. waiting' \subseteq waiting /\ ~stop_flag /\ UNCHANGED container /\ Notifying' = Notifying
    BY <1>0, <1>9 DEF PushCalled, goto, Notifying
  <2> QED
    BY <1>m, <2>1
\* The consumer is not asleep after any other step, or the queue is stopped.
<1>10. ~shutdown /\ ~shutdown_notifies /\ \A t \in Pushers : ~push_returns(t)
  BY DEF shutdown, shutdown_notifies, notify_all, push_returns
<1>11. ~pop_false(c) /\ ~WorkerCloses(c) /\ ~WorkerExits(c)
  BY DEF pop_false, WorkerCloses, WorkerExits, notify_all
<1>12. ~pop_true(c) /\ ~StartThread(c) /\ ~JobReturns(c)
  BY <1>0 DEF pop_true, InPop, StartThread, JobReturns, WaitersInside
<1> QED
  BY <1>0, <1>2, <1>3, <1>4, <1>5, <1>6, <1>7, <1>8, <1>9, <1>10, <1>11, <1>12
     DEF Next, OwnerStep, WorkerStep, PusherStep

-----------------------------------------------------------------------------
LEMMA NextPushers ==
  ASSUME Cardinality(Producers) <= QUEUE_SIZE, TypeInv, WaitersInside, NoStrandedPusher,
         ConsumerWillSee, NEW c, Workers = {c}, [Next]_vars
  PROVE  NoStrandedPusher'
<1> DEFINE Goal == Cardinality(StrandedPushers') <= Len(container') + Cardinality(Popped')
<1> SUFFICES ASSUME ~stop_flag' PROVE Goal
  BY DEF NoStrandedPusher, StrandedPushers, Popped
<1> USE DEF TypeInv, TypeOK
<1>0. Workers \subseteq Threads /\ Pushers \subseteq Threads /\ Submitters \subseteq Threads
      /\ Workers \cap Pushers = {} /\ Workers \cap Submitters = {}
  BY ThreadsAssumption DEF Threads
<1>n. Len(container) \in Nat
  BY LenProperties
<1>w. ~stop_flag => Cardinality(StrandedPushers) <= Len(container) + Cardinality(Popped)
  BY DEF NoStrandedPusher, StrandedPushers, Popped
\* Steps after which no more pushers sleep, and as many items or pops await them.
<1>m. ASSUME ~stop_flag, waiting' \cap Pushers \subseteq waiting, Popped' = Popped,
             Len(container') \in Nat, Len(container') >= Len(container)
      PROVE  Goal
  <2>1. StrandedPushers' \in SUBSET StrandedPushers
    BY <1>m DEF StrandedPushers
  <2>2. Cardinality(StrandedPushers') <= Cardinality(StrandedPushers)
    BY <2>1, FiniteWaiters, FS_Subset
  <2> QED
    BY <1>m, <1>n, <1>w, <2>2, FiniteWaiters, FiniteWaitersNext
<1>1. ASSUME NEW t \in Threads, push_back(t), ~stop_flag, pc[t] # "popped" PROVE Goal
  <2>1. waiting' = waiting /\ Len(container') = Len(container) + 1
    BY <1>1, AppendProperties DEF push_back
  <2>2. Popped' = Popped
    BY <1>0, <1>1 DEF push_back, goto, Popped
  <2> QED
    BY <1>1, <1>m, <1>n, <2>1, <2>2
<1>2. ASSUME NEW t \in Threads, try_push_ok(t) PROVE Goal
  BY <1>1, <1>2 DEF try_push_ok, CanSubmit
<1>3. ASSUME NEW t \in Pushers, push_ok(t) PROVE Goal
  BY <1>0, <1>1, <1>3 DEF push_ok, InPush
<1>4. ASSUME Notify(c), pc[c] = "popped" PROVE Goal
  <2>1. ~stop_flag /\ UNCHANGED container
    BY <1>4 DEF Notify
  <2>a. Popped = {c}
    BY <1>4 DEF Popped
  <2>2. Cardinality(Popped) = 1
    BY <2>a, FS_Singleton
  <2>3. CASE waiting = {} /\ UNCHANGED waiting
    <3>1. StrandedPushers' = {}
      BY <2>3 DEF StrandedPushers
    <3> QED
      BY <1>n, <2>1, <3>1, FS_EmptySet, FiniteWaitersNext
  <2>4. ASSUME NEW u \in waiting, waiting' = waiting \ {u} PROVE Goal
    <3>1. u \in Pushers
      BY <1>4, <2>4 DEF WaitersInside
    <3>2. StrandedPushers' = StrandedPushers \ {u} /\ u \in StrandedPushers
      BY <2>4, <3>1 DEF StrandedPushers
    <3>3. Cardinality(StrandedPushers') = Cardinality(StrandedPushers) - 1
      BY <3>2, FiniteWaiters, FS_RemoveElement
    <3> QED
      BY <1>n, <1>w, <2>1, <2>2, <3>3, FiniteWaiters, FiniteWaitersNext
  <2> QED
    BY <1>4, <2>3, <2>4 DEF Notify, notify_one
<1>5. ASSUME NEW t \in Threads, Notify(t), ~(t = c /\ pc[c] = "popped") PROVE Goal
  <2>1. ~stop_flag /\ UNCHANGED container /\ waiting' \cap Pushers \subseteq waiting
    BY <1>5 DEF Notify, notify_one
  <2>2. Popped' = Popped
    BY <1>0, <1>5 DEF Notify, goto, Popped
  <2> QED
    BY <1>m, <1>n, <2>1, <2>2
<1>6. ASSUME NEW t \in Pushers, push_waits(t) PROVE Goal
  <2>1. StrandedPushers' \in SUBSET Pushers
    BY DEF StrandedPushers
  <2>2. Cardinality(StrandedPushers') <= Cardinality(Pushers)
    BY <2>1, FiniteProducers, FS_Subset
  <2>3. Cardinality(Pushers) \in Nat
    BY FiniteProducers, FS_CardinalityType
  <2>4. Len(container') >= QUEUE_SIZE /\ Len(container') \in Nat
    BY <1>6, <1>n DEF push_waits, wait
  <2> QED
    BY <2>2, <2>3, <2>4, FiniteProducers, FiniteWaitersNext, SizeAssumption
<1>7. ASSUME pop_true(c) PROVE Goal
  <2>1. ~stop_flag /\ waiting' = waiting /\ Len(container') = Len(container) - 1
    BY <1>7, Popping DEF pop_true
  <2>2. Popped = {} /\ Popped' = {c}
    BY <1>0, <1>7 DEF pop_true, InPop, goto, Popped
  <2>3. Cardinality(Popped) = 0 /\ Cardinality(Popped') = 1
    BY <2>2, FS_EmptySet, FS_Singleton
  <2>4. StrandedPushers' = StrandedPushers
    BY <2>1 DEF StrandedPushers
  <2> QED
    BY <1>n, <1>w, <2>1, <2>3, <2>4, FiniteWaiters
<1>8. ASSUME NEW w \in Workers, StartThread(w) \/ JobReturns(w) \/ pop_waits(w) PROVE Goal
  <2>1. ~stop_flag /\ UNCHANGED container /\ waiting' \cap Pushers \subseteq waiting
    BY <1>0, <1>8 DEF StartThread, JobReturns, pop_waits, wait
  <2>2. Popped' = Popped
    BY <1>0, <1>8 DEF StartThread, JobReturns, pop_waits, InPop, wait, goto, Popped
  <2> QED
    BY <1>m, <1>n, <2>1, <2>2
<1>9. ASSUME NEW w \in Workers, WorkerExits(w) PROVE Goal
  <2>1. StrandedPushers' = {} /\ UNCHANGED container
    BY <1>9 DEF WorkerExits, notify_all, StrandedPushers
  <2> QED
    BY <1>n, <2>1, FS_EmptySet, FiniteWaitersNext
<1>10. ASSUME NEW t \in Threads, try_push_rejected(t) \/ SpuriousWakeup(t) PROVE Goal
  <2>1. ~stop_flag /\ UNCHANGED container /\ waiting' \cap Pushers \subseteq waiting
        /\ Popped' = Popped
    BY <1>10 DEF try_push_rejected, SpuriousWakeup, Popped
  <2> QED
    BY <1>m, <1>n, <2>1
<1>11. ASSUME NEW t \in Pushers, PushCalled(t) PROVE Goal
  <2>1. ~stop_flag /\ UNCHANGED <<container, waiting>> /\ Popped' = Popped
    BY <1>0, <1>11 DEF PushCalled, goto, Popped
  <2> QED
    BY <1>m, <1>n, <2>1
<1>12. ASSUME start_returns \/ shutdown_notifies \/ join \/ UNCHANGED vars PROVE Goal
  <2>1. ~stop_flag /\ UNCHANGED container /\ waiting' \cap Pushers \subseteq waiting
        /\ Popped' = Popped
    BY <1>12 DEF start_returns, shutdown_notifies, notify_all, join, vars, Popped
  <2> QED
    BY <1>m, <1>n, <2>1
\* The others stop the queue or find it stopped.
<1>13. ~shutdown /\ \A t \in Pushers : ~push_returns(t)
  BY DEF shutdown, push_returns
<1>14. \A w \in Workers : ~pop_false(w) /\ ~WorkerCloses(w)
  BY DEF pop_false, WorkerCloses
<1> QED
  BY <1>0, <1>2, <1>3, <1>4, <1>5, <1>6, <1>7, <1>8, <1>9, <1>10, <1>11, <1>12, <1>13, <1>14
     DEF Next, OwnerStep, WorkerStep, PusherStep

LEMMA ConsumerInvariant ==
  ASSUME Cardinality(Producers) <= QUEUE_SIZE, NEW c, Workers = {c}
  PROVE  SafeSpec => [](TypeInv /\ WaitersInside /\ NoStrandedPusher /\ ConsumerWillSee)
<1> DEFINE I == TypeInv /\ WaitersInside /\ NoStrandedPusher /\ ConsumerWillSee
<1>1. ASSUME Init PROVE I
  <2>1. TypeInv /\ WaitersInside /\ ConsumerWillSee
    BY <1>1, InitType DEF Init, WaitersInside, ConsumerWillSee
  <2>2. StrandedPushers = {} /\ Len(container) = 0
    BY <1>1, EmptySeq DEF Init, StrandedPushers
  <2>3. NoStrandedPusher
    BY <2>2, FS_EmptySet, FiniteWaiters DEF NoStrandedPusher, StrandedPushers, Popped
  <2> QED
    BY <2>1, <2>3
<1>2. I /\ [Next]_vars => I'
  BY NextType, NextWaiters, NextConsumer, NextPushers
<1> QED
  BY <1>1, <1>2, PTL DEF SafeSpec

(* With one consumer and no more producers than slots, the pops to come    *)
(* are enough for every thread that waits for room (job_queue.h:97-98,     *)
(* 142).                                                                   *)
THEOREM NoPusherIsStranded ==
  ASSUME Cardinality(Producers) <= QUEUE_SIZE, NEW c, Workers = {c}
  PROVE  SafeSpec => []NoStrandedPusher
BY ConsumerInvariant, PTL

(* And no item lies unseen while the consumer sleeps (job_queue.h:109,     *)
(* 117-118), although producers and consumer share the condition variable. *)
THEOREM ConsumerLosesNoWakeup ==
  ASSUME Cardinality(Producers) <= QUEUE_SIZE, NEW c, Workers = {c}
  PROVE  SafeSpec => []NoLostWakeup
<1>1. ASSUME TypeInv, ConsumerWillSee PROVE NoLostWakeup
  <2>1. Len(container) \in Nat
    BY <1>1, LenProperties DEF TypeInv, TypeOK
  <2> QED
    BY <1>1, <2>1, FiniteThreads DEF ConsumerWillSee, NoLostWakeup
<1> QED
  BY <1>1, ConsumerInvariant, PTL

-----------------------------------------------------------------------------
(* A stop loses nothing *)

LEMMA NextDrained == TypeInv /\ JoinedMeansDrained /\ [Next]_vars => JoinedMeansDrained'
<1> SUFFICES ASSUME TypeInv, JoinedMeansDrained, [Next]_vars PROVE JoinedMeansDrained'
  OBVIOUS
<1> USE DEF TypeInv, TypeOK, JoinedMeansDrained
<1>0. Workers \subseteq Threads /\ Pushers \subseteq Threads /\ Submitters \subseteq Threads
      /\ Workers \cap Pushers = {}
  BY ThreadsAssumption DEF Threads
<1>1. ASSUME NEW t \in Threads, try_push_ok(t) PROVE JoinedMeansDrained'
  BY <1>0, <1>1 DEF try_push_ok, push_back, goto
<1>2. ASSUME NEW t \in Pushers, push_ok(t) PROVE JoinedMeansDrained'
  BY <1>0, <1>2 DEF push_ok, push_back, goto
<1>3. ASSUME NEW w \in Workers, pop_true(w) PROVE JoinedMeansDrained'
  BY <1>0, <1>3 DEF pop_true, goto
<1>4. ASSUME OwnerStep PROVE JoinedMeansDrained'
  BY <1>4 DEF OwnerStep, start_returns, shutdown, shutdown_notifies, join
<1>5. ASSUME NEW t \in Threads, Notify(t) PROVE JoinedMeansDrained'
  BY <1>0, <1>5 DEF Notify, goto
<1>6. ASSUME NEW w \in Workers, StartThread(w) \/ pop_waits(w) \/ JobReturns(w)
      PROVE  JoinedMeansDrained'
  BY <1>0, <1>6 DEF StartThread, pop_waits, wait, JobReturns, goto
<1>10. ASSUME NEW w \in Workers, pop_false(w) PROVE JoinedMeansDrained'
  BY <1>0, <1>10 DEF pop_false, goto
<1>11. ASSUME NEW w \in Workers, WorkerCloses(w) \/ WorkerExits(w)
       PROVE  JoinedMeansDrained'
  <2>1. stop_flag' /\ container' = container
    BY <1>11 DEF WorkerCloses, WorkerExits
  <2>2. container = <<>>
    BY <1>11 DEF WorkerCloses, WorkerExits
  <2> QED
    BY <2>1, <2>2
<1>7. ASSUME NEW t \in Pushers, PushCalled(t) \/ push_waits(t) \/ push_returns(t)
      PROVE  JoinedMeansDrained'
  BY <1>0, <1>7 DEF PushCalled, push_waits, wait, push_returns, goto
<1>8. ASSUME NEW t \in Threads, try_push_rejected(t) \/ SpuriousWakeup(t)
      PROVE  JoinedMeansDrained'
  BY <1>8 DEF try_push_rejected, SpuriousWakeup
<1>9. CASE UNCHANGED vars
  BY <1>9 DEF vars
<1> HIDE DEF TypeInv, TypeOK, JoinedMeansDrained
<1> QED
  BY <1>0, <1>1, <1>2, <1>3, <1>4, <1>5, <1>6, <1>7, <1>8, <1>9, <1>10, <1>11
     DEF Next, WorkerStep, PusherStep

(* ThreadPool::shutdown() (thread_pool.h:65-75) joins workers that left    *)
(* their loop only once the deque was empty: every accepted job was run.   *)
THEOREM JoinedPoolIsDrained == SafeSpec => []JoinedMeansDrained
<1>1. Init => TypeInv /\ JoinedMeansDrained
  <2> SUFFICES ASSUME Init PROVE JoinedMeansDrained
    BY InitType
  <2> QED
    BY DEF Init, JoinedMeansDrained, Threads
<1> QED
  BY <1>1, NextType, NextDrained, PTL DEF SafeSpec

-----------------------------------------------------------------------------
(* Nothing is lost or handed out twice *)

Seen == {container[k] : k \in DOMAIN container} \cup delivered

\* A thread numbers its items, and those it has yet to offer are nowhere.
Numbered == \A i \in Seen : i[2] <= offered[i[1]]

OnceInv == TypeInv /\ ExactlyOnce /\ Numbered /\ IsFiniteSet(delivered)

LEMMA NextItemIsNew ==
  ASSUME TypeOK, Numbered, NEW t \in Threads
  PROVE  NextItem(t) \notin Seen
<1>1. offered[t] \in Nat
  BY DEF TypeOK
<1>2. NextItem(t)[1] = t /\ NextItem(t)[2] = offered[t] + 1
  BY DEF NextItem
<1> QED
  BY <1>1, <1>2 DEF Numbered

LEMMA ItemFields ==
  ASSUME NEW i \in Items
  PROVE  i[1] \in Threads /\ i[2] \in Nat
BY QuotaAssumption DEF Items

LEMMA PushBackOnce ==
  ASSUME OnceInv, TypeInv', NEW t \in Threads, offered[t] < Quota[t], push_back(t),
         offered' = [offered EXCEPT ![t] = @ + 1]
  PROVE  OnceInv'
<1> USE DEF OnceInv, TypeInv, TypeOK
<1> DEFINE x == NextItem(t)  n == Len(container)
<1>1. x \in Items /\ x \notin Seen
  BY NextItemType, NextItemIsNew
<1>2. n \in Nat /\ DOMAIN container = 1 .. n /\ \A k \in 1 .. n : container[k] \in Items
  BY LenProperties, ElementOfSeq
<1>3. /\ container' \in Seq(Items) /\ Len(container') = n + 1
      /\ \A k \in 1 .. n : container'[k] = container[k]
      /\ container'[n + 1] = x
  BY <1>1, AppendProperties DEF push_back
<1>4. DOMAIN container' = 1 .. n + 1 /\ delivered' = delivered
  BY <1>3, LenProperties DEF push_back
<1> HIDE DEF x, n
<1>5. \A k \in 1 .. n : container[k] # x /\ container[k] \notin delivered
  BY <1>1, <1>2 DEF ExactlyOnce, Seen
<1>6. x \notin delivered
  BY <1>1 DEF Seen
<1>7. ExactlyOnce'
  <2>1. submitted_total' = Len(container') + Cardinality(delivered')
        /\ queued_number' = Len(container')
    BY <1>2, <1>3, <1>4, FS_CardinalityType DEF push_back, ExactlyOnce, n
  <2>a. \A k \in 1 .. n + 1 : k \in 1 .. n \/ k = n + 1
    BY <1>2
  <2>2. ASSUME NEW i \in 1 .. n + 1, NEW j \in 1 .. n + 1, container'[i] = container'[j]
        PROVE  i = j
    <3>1. CASE i \in 1 .. n /\ j \in 1 .. n
      BY <1>2, <1>3, <2>2, <3>1 DEF ExactlyOnce
    <3>2. CASE i = n + 1 \/ j = n + 1
      BY <1>3, <1>5, <2>a, <2>2, <3>2
    <3> QED
      BY <2>a, <3>1, <3>2
  <2>3. ASSUME NEW i \in 1 .. n + 1 PROVE container'[i] \notin delivered'
    <3>1. CASE i \in 1 .. n
      BY <1>3, <1>4, <1>5, <3>1
    <3> QED
      BY <1>3, <1>4, <1>6, <2>a, <3>1
  <2> QED
    BY <1>4, <2>1, <2>2, <2>3 DEF ExactlyOnce
<1>8. Numbered'
  <2>1. Seen' = Seen \cup {x}
    BY SMTT(30), <1>2, <1>3, <1>4 DEF Seen
  <2>2. x[1] = t /\ x[2] = offered[t] + 1
    BY DEF x, NextItem
  <2>3. ASSUME NEW i \in Seen PROVE i[2] <= offered'[i[1]]
    <3>1. i \in Items
      BY <1>2, <2>3 DEF Seen
    <3> QED
      BY <2>3, <3>1, ItemFields DEF Numbered
  <2> QED
    BY <2>1, <2>2, <2>3 DEF Numbered
<1> QED
  BY <1>4, <1>7, <1>8

LEMMA PopOnce ==
  ASSUME OnceInv, TypeInv', NEW w \in Workers, pop_true(w)
  PROVE  OnceInv'
<1> USE DEF OnceInv, TypeInv, TypeOK
<1> DEFINE x == container[PopIndex]  n == Len(container)  p == PopIndex
<1>1. n \in Nat /\ DOMAIN container = 1 .. n /\ \A k \in 1 .. n : container[k] \in Items
  BY LenProperties, ElementOfSeq
<1>2. /\ p \in 1 .. n /\ container' \in Seq(Items) /\ Len(container') = n - 1
      /\ \A k \in 1 .. n - 1 : container'[k] = IF k < p THEN container[k] ELSE container[k + 1]
      /\ delivered' = delivered \cup {x}
  BY Popping DEF pop_true
<1>3. DOMAIN container' = 1 .. n - 1
  BY <1>2, LenProperties
<1>4. x = container[p] /\ x \notin delivered
  BY <1>1, <1>2 DEF ExactlyOnce
<1>5. /\ submitted_total = n + Cardinality(delivered) /\ queued_number = n
      /\ \A i, j \in 1 .. n : container[i] = container[j] => i = j
      /\ \A i \in 1 .. n : container[i] \notin delivered
  BY <1>1 DEF ExactlyOnce
<1> HIDE DEF x, n, p
\* Where the item now at k was before.
<1> DEFINE was(k) == IF k < p THEN k ELSE k + 1
<1>a. \A k \in 1 .. n - 1 : /\ was(k) \in 1 .. n /\ was(k) # p
                             /\ container'[k] = container[was(k)]
  BY <1>1, <1>2
<1>b. \A i, j \in 1 .. n - 1 : was(i) = was(j) => i = j
  BY <1>1, <1>2
<1> HIDE DEF was
<1>6. Cardinality(delivered') = Cardinality(delivered) + 1 /\ IsFiniteSet(delivered')
  BY <1>2, <1>4, FS_AddElement
<1>7. ExactlyOnce'
  <2>1. submitted_total' = Len(container') + Cardinality(delivered')
        /\ queued_number' = Len(container')
    BY <1>1, <1>2, <1>5, <1>6, FS_CardinalityType DEF pop_true
  <2>2. \A i, j \in DOMAIN container' : container'[i] = container'[j] => i = j
    BY <1>3, <1>5, <1>a, <1>b
  <2>3. ASSUME NEW i \in 1 .. n - 1 PROVE container'[i] \notin delivered'
    <3>1. container'[i] = container[was(i)] /\ was(i) \in 1 .. n /\ was(i) # p
      BY <1>a
    <3>2. container[was(i)] # x
      BY <1>2, <1>4, <1>5, <3>1
    <3> QED
      BY <1>2, <1>5, <3>1, <3>2
  <2> QED
    BY <1>3, <2>1, <2>2, <2>3 DEF ExactlyOnce
<1>8. Numbered'
  <2>1. Seen' \subseteq Seen
    BY <1>1, <1>2, <1>3, <1>4, <1>a DEF Seen
  <2>2. offered' = offered
    BY DEF pop_true
  <2> QED
    BY <2>1, <2>2 DEF Numbered
<1> QED
  BY <1>6, <1>7, <1>8

LEMMA NextOnce == OnceInv /\ [Next]_vars => OnceInv'
<1> SUFFICES ASSUME OnceInv, [Next]_vars PROVE OnceInv'
  OBVIOUS
<1>t. TypeInv'
  BY NextType DEF OnceInv
<1>0. Workers \subseteq Threads /\ Pushers \subseteq Threads /\ Submitters \subseteq Threads
  BY DEF Threads
<1>1. ASSUME NEW t \in Threads, try_push_ok(t) PROVE OnceInv'
  BY <1>t, <1>1, PushBackOnce DEF try_push_ok, Offers
<1>2. ASSUME NEW t \in Pushers, push_ok(t) PROVE OnceInv'
  BY <1>t, <1>0, <1>2, PushBackOnce DEF push_ok, InPush, OnceInv, TypeInv, ItemInHand
<1>3. ASSUME NEW w \in Workers, pop_true(w) PROVE OnceInv'
  BY <1>t, <1>3, PopOnce
\* The other steps touch neither items nor counters.
<1>4. ASSUME UNCHANGED <<container, submitted_total, queued_number, delivered, offered>>
      PROVE  OnceInv'
  BY <1>t, <1>4 DEF OnceInv, ExactlyOnce, Numbered, Seen
<1>5. ASSUME NEW t \in Threads, UNCHANGED <<container, submitted_total, queued_number, delivered>>,
             offered' = [offered EXCEPT ![t] = @ + 1]
      PROVE  OnceInv'
  <2>1. \A i \in Seen : i[1] \in Threads /\ i[2] \in Nat /\ i[2] <= offered[i[1]]
    BY ItemFields, ElementOfSeq, LenProperties DEF Seen, OnceInv, TypeInv, TypeOK, Numbered
  <2>2. \A i \in Seen : i[2] <= offered'[i[1]]
    BY <1>5, <2>1 DEF OnceInv, TypeInv, TypeOK
  <2>3. Numbered'
    BY <1>5, <2>2 DEF Numbered, Seen
  <2> QED
    BY <1>t, <1>5, <2>3 DEF OnceInv, ExactlyOnce
<1>6. ASSUME NEW t \in Threads, try_push_rejected(t) PROVE OnceInv'
  BY <1>5, <1>6 DEF try_push_rejected, Offers
<1>7. ASSUME NEW t \in Pushers, push_returns(t) PROVE OnceInv'
  BY <1>0, <1>5, <1>7 DEF push_returns, metrics
<1>8. ASSUME OwnerStep PROVE OnceInv'
  BY <1>4, <1>8 DEF OwnerStep, start_returns, shutdown, shutdown_notifies, join, metrics
<1>9. ASSUME NEW t \in Threads, Notify(t) \/ SpuriousWakeup(t) PROVE OnceInv'
  BY <1>4, <1>9 DEF Notify, SpuriousWakeup, metrics
<1>10. ASSUME NEW w \in Workers, StartThread(w) \/ pop_waits(w) \/ pop_false(w)
               \/ JobReturns(w) \/ WorkerCloses(w) \/ WorkerExits(w)
      PROVE  OnceInv'
  BY <1>4, <1>10 DEF StartThread, pop_waits, wait, pop_false, JobReturns, WorkerCloses,
                    WorkerExits, metrics
<1>11. ASSUME NEW t \in Pushers, PushCalled(t) \/ push_waits(t) PROVE OnceInv'
  BY <1>4, <1>11 DEF PushCalled, push_waits, wait, metrics
<1>12. CASE UNCHANGED vars
  BY <1>4, <1>12 DEF vars, metrics
<1> QED
  BY <1>0, <1>1, <1>2, <1>3, <1>6, <1>7, <1>8, <1>9, <1>10, <1>11, <1>12
     DEF Next, WorkerStep, PusherStep

LEMMA OnceInvariant == SafeSpec => []OnceInv
<1>1. ASSUME Init PROVE OnceInv
  <2>1. container = <<>> /\ delivered = {} /\ submitted_total = 0 /\ queued_number = 0
    BY <1>1 DEF Init
  <2>2. Len(container) = 0 /\ DOMAIN container = {} /\ Cardinality(delivered) = 0
        /\ IsFiniteSet(delivered)
    BY <2>1, FS_EmptySet
  <2>3. ExactlyOnce /\ Numbered
    BY <2>1, <2>2 DEF ExactlyOnce, Numbered, Seen
  <2> QED
    BY <1>1, <2>2, <2>3, InitType DEF OnceInv
<1> QED
  BY <1>1, NextOnce, PTL DEF SafeSpec

(* What submit() counted as accepted is queued or was handed out, and      *)
(* nothing twice (job_queue.h:81-84, 123-139).                             *)
THEOREM EachItemExactlyOnce == SafeSpec => []ExactlyOnce
BY OnceInvariant, PTL DEF OnceInv

-----------------------------------------------------------------------------
(* The refinement *)

LEMMA PushBackAccepts ==
  ASSUME OnceInv, NEW t \in Threads, offered[t] < Quota[t], push_back(t),
         ~stop_flag, Len(container) < QUEUE_SIZE
  PROVE  Abstract!Next
<1>1. NextItem(t) \in Items /\ NextItem(t) \notin Seen
  BY NextItemType, NextItemIsNew DEF OnceInv, TypeInv, TypeOK
<1>2. Abstract!Accept(NextItem(t))
  BY <1>1 DEF Abstract!Accept, Abstract!Queued, Seen, push_back
<1> QED
  BY <1>1, <1>2 DEF Abstract!Next

LEMMA PopDelivers ==
  ASSUME TypeOK, NEW w \in Workers, pop_true(w)
  PROVE  Abstract!Next
<1> DEFINE n == Len(container)  p == PopIndex
           rest == [j \in 1 .. n - 1 |-> IF j < p THEN container[j] ELSE container[j + 1]]
<1>1. /\ container # <<>> /\ container' \in Seq(Items) /\ Len(container') = n - 1
      /\ \A j \in 1 .. n - 1 : container'[j] = IF j < p THEN container[j] ELSE container[j + 1]
  BY Popping DEF TypeOK, pop_true
<1>2. container' \in [1 .. n - 1 -> Items]
  BY <1>1, LenProperties
<1>3. container' = rest
  BY <1>1, <1>2
<1>4. delivered' = delivered \cup {container[p]} /\ stop_flag' = stop_flag
  BY DEF pop_true
<1>5. p = IF Lifo THEN Len(container) ELSE 1
  BY DEF PopIndex
<1>6. Abstract!DeliverAt(p)
  BY <1>3, <1>4 DEF Abstract!DeliverAt
<1> QED
  BY <1>1, <1>5, <1>6 DEF Abstract!Next, Abstract!Deliver

LEMMA StepRefines == OnceInv /\ [Next]_vars => [Abstract!Next]_(Abstract!vars)
<1> SUFFICES ASSUME OnceInv, [Next]_vars, ~ UNCHANGED <<container, stop_flag, delivered>>
             PROVE  Abstract!Next
  BY DEF Abstract!vars
<1>0. Workers \subseteq Threads /\ Pushers \subseteq Threads /\ Submitters \subseteq Threads
  BY DEF Threads
<1>1. ASSUME NEW t \in Threads, try_push_ok(t) PROVE Abstract!Next
  BY <1>1, PushBackAccepts DEF try_push_ok, Offers
<1>2. ASSUME NEW t \in Pushers, push_ok(t) PROVE Abstract!Next
  BY <1>0, <1>2, PushBackAccepts DEF push_ok, InPush, OnceInv, TypeInv, ItemInHand
<1>3. ASSUME NEW w \in Workers, pop_true(w) PROVE Abstract!Next
  BY <1>3, PopDelivers DEF OnceInv, TypeInv
<1>4. ASSUME shutdown \/ \E w \in Workers : WorkerCloses(w) PROVE Abstract!Next
  BY <1>4 DEF shutdown, WorkerCloses, Abstract!Next, Abstract!Close
<1>5. ~start_returns /\ ~shutdown_notifies /\ ~join
  BY DEF start_returns, shutdown_notifies, join
<1>6. \A t \in Threads : ~Notify(t) /\ ~SpuriousWakeup(t) /\ ~try_push_rejected(t)
  BY DEF Notify, SpuriousWakeup, try_push_rejected
<1>7. \A w \in Workers : ~StartThread(w) /\ ~pop_waits(w) /\ ~pop_false(w)
                         /\ ~JobReturns(w) /\ ~WorkerExits(w)
  BY DEF StartThread, pop_waits, wait, pop_false, JobReturns, WorkerExits
<1>8. \A t \in Pushers : ~PushCalled(t) /\ ~push_waits(t) /\ ~push_returns(t)
  BY DEF PushCalled, push_waits, wait, push_returns
<1>9. ~ UNCHANGED vars
  BY DEF vars
<1> QED
  BY <1>0, <1>1, <1>2, <1>3, <1>4, <1>5, <1>6, <1>7, <1>8, <1>9
     DEF Next, OwnerStep, WorkerStep, PusherStep

(* The safety part of AbstractQueue: JobQueue<T> with its pool is the      *)
(* bounded queue that can be closed, whatever its threads do in between.   *)
THEOREM ImplementsBoundedQueue == SafeSpec => Abstract!SafeSpec
<1>1. Init => Abstract!Init
  BY DEF Init, Abstract!Init
<1> QED
  BY <1>1, StepRefines, OnceInvariant, PTL DEF SafeSpec, Abstract!SafeSpec
=============================================================================
