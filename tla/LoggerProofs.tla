---------------------------- MODULE LoggerProofs ----------------------------
(***************************************************************************)
(* Proofs about Logger, for any number of callers, any size of the queue,  *)
(* and any number of messages and restarts: no message is lost, doubled or *)
(* reordered, and shutdown() leaves nothing unwritten.                     *)
(***************************************************************************)
EXTENDS Logger, SequenceTheorems, TLAPS

Types ==
  /\ log_queue \in Seq(Messages) /\ file \in Seq(Messages) /\ terminal \in Seq(Messages)
  /\ stop \in BOOLEAN /\ starts \in Nat
  /\ pc \in [Threads -> {"out", "helper", "to_terminal", "pushed", "consume", "popped", "write"}]
  /\ item \in [Threads -> {None} \cup {<<m>> : m \in Messages}]

\* Where the threads are, and what they hold there.
Places ==
  /\ pc[Writer] \in {"out", "consume", "popped", "write"}
  /\ pc[Writer] \in {"popped", "write"} <=> item[Writer] # None
  /\ \A t \in Callers :
       /\ pc[t] \in {"out", "helper", "to_terminal", "pushed"}
       /\ pc[t] \in {"helper", "to_terminal", "pushed"} => item[t] # None
       /\ item[t] # None => item[t][1].from = t

\* Who stops the logger and when the writer has left its loop.
Stops ==
  /\ stop => starts > 0
  /\ owner = "up" => starts > 0
  /\ owner \in {"stopping", "joining"} => stop
  /\ owner = "down" => pc[Writer] = "out" /\ (starts > 0 => stop)
  /\ pc[Writer] = "out" /\ starts > 0 => log_queue = <<>> /\ stop

\* The messages that are written, or will be, are those whose calls are through.
Once ==
  /\ \A t \in Callers : \A n \in 1 .. Finished(t) :
       \E m \in ToSet(Taken) \cup ToSet(terminal) : m.from = t /\ m.n = n
  /\ \A m \in ToSet(Taken) \cup ToSet(terminal) : m.n <= Finished(m.from)
  /\ ToSet(Taken) \cap ToSet(terminal) = {}
  /\ \A i, j \in 1 .. Len(terminal) : i # j => terminal[i] # terminal[j]

InOrder ==
  \A i, j \in 1 .. Len(Taken) :
    i < j => Taken[i] # Taken[j]
             /\ (Taken[i].from = Taken[j].from => Taken[i].n < Taken[j].n)

\* What is too late for the file, and what need not wait for room.
FallenBack ==
  /\ \A m \in ToSet(terminal) : m.waits => stop \/ starts > 1
  /\ \A t \in Callers : pc[t] = "to_terminal" /\ item[t][1].waits => stop \/ starts > 1

LogInv == Types /\ Places /\ Stops /\ Once /\ InOrder /\ FallenBack

-----------------------------------------------------------------------------
LEMMA Single == ASSUME NEW x PROVE <<x>> # <<>> /\ <<x>>[1] = x
<1>1. Len(<<x>>) = 1 /\ Len(<<>>) = 0
  OBVIOUS
<1> QED
  BY <1>1

LEMMA Held ==
  ASSUME Types, NEW t \in Threads, item[t] # None
  PROVE  item[t][1] \in Messages /\ item[t] = <<item[t][1]>>
<1>1. PICK m \in Messages : item[t] = <<m>>
  BY DEF Types, None
<1> QED
  BY <1>1, Single

LEMMA MessageFields ==
  ASSUME NEW m \in Messages
  PROVE  m.from \in Callers /\ m.n \in Nat \ {0} /\ m.waits \in BOOLEAN
BY LoggerAssumption DEF Messages

LEMMA Others == Writer \in Threads /\ \A t \in Callers : t \in Threads /\ t # Writer
BY WriterAssumption DEF Threads

LEMMA ItemsAppended ==
  ASSUME NEW S, NEW s \in Seq(S), NEW e \in S
  PROVE  ToSet(Append(s, e)) = ToSet(s) \cup {e} /\ Len(Append(s, e)) = Len(s) + 1
<1>1. /\ DOMAIN s = 1..Len(s) /\ DOMAIN Append(s, e) = 1..(Len(s) + 1) /\ Len(s) \in Nat
      /\ \A i \in 1..Len(s) : Append(s, e)[i] = s[i]
      /\ Append(s, e)[Len(s) + 1] = e /\ Len(Append(s, e)) = Len(s) + 1
  BY AppendProperties, LenProperties
<1>2. \A i \in 1..(Len(s) + 1) : i \in 1..Len(s) \/ i = Len(s) + 1
  BY <1>1
<1>3. ToSet(Append(s, e)) \subseteq ToSet(s) \cup {e}
  BY <1>1, <1>2 DEF ToSet
<1>4. ToSet(s) \cup {e} \subseteq ToSet(Append(s, e))
  <2>1. \A i \in 1..Len(s) : i \in 1..(Len(s) + 1)
    BY <1>1
  <2> QED
    BY <1>1, <2>1 DEF ToSet
<1> QED
  BY <1>1, <1>3, <1>4

LEMMA ItemsOfAppend ==
  ASSUME NEW S, NEW s \in Seq(S), NEW e \in S
  PROVE  /\ ToSet(Append(s, e)) = ToSet(s) \cup {e} /\ Len(Append(s, e)) = Len(s) + 1
         /\ \A i \in 1 .. Len(s) : Append(s, e)[i] = s[i] /\ s[i] \in ToSet(s)
         /\ Append(s, e)[Len(s) + 1] = e
<1>1. \A i \in 1 .. Len(s) : s[i] \in ToSet(s)
  BY LenProperties DEF ToSet
<1>2. /\ \A i \in 1 .. Len(s) : Append(s, e)[i] = s[i]
      /\ Append(s, e)[Len(s) + 1] = e
  BY AppendProperties, LenProperties
<1> QED
  BY <1>1, <1>2, ItemsAppended

\* The message that the writer holds.
InHand == IF pc[Writer] \in {"popped", "write"} THEN item[Writer] ELSE <<>>

TakenTypes ==
  /\ InHand \in Seq(Messages) /\ Taken \in Seq(Messages)
  /\ Taken = file \o (InHand \o log_queue)
  /\ \A t \in Callers : logged(t) \in Nat /\ Finished(t) \in Int
  /\ \A m \in ToSet(Taken) \cup ToSet(terminal) : m \in Messages

LEMMA HandAndFile == Types /\ Places => TakenTypes
<1> SUFFICES ASSUME Types, Places PROVE TakenTypes
  OBVIOUS
<1>1. InHand \in Seq(Messages)
  <2>1. CASE pc[Writer] \in {"popped", "write"}
    <3>1. item[Writer] # None /\ Writer \in Threads
      BY <2>1, Others DEF Places
    <3>2. item[Writer][1] \in Messages /\ item[Writer] = <<item[Writer][1]>>
      BY <3>1, Held
    <3> DEFINE m == item[Writer][1]
    <3> HIDE DEF m
    <3>3. <<m>> \in Seq(Messages)
      BY <3>2 DEF m
    <3> QED
      BY <2>1, <3>2, <3>3 DEF InHand, m
  <2> QED
    BY <2>1, EmptySeq DEF InHand
<1>2. Taken = (file \o InHand) \o log_queue
  BY DEF Taken, InHand
<1> HIDE DEF Taken, InHand
<1>3. file \in Seq(Messages) /\ log_queue \in Seq(Messages) /\ terminal \in Seq(Messages)
  BY DEF Types
<1>4. Taken \in Seq(Messages) /\ Taken = file \o (InHand \o log_queue)
  BY SMTT(30), <1>1, <1>2, <1>3, ConcatProperties, ConcatAssociative
<1>5. ASSUME NEW t \in Callers PROVE logged(t) \in Nat /\ Finished(t) \in Int
  <2>1. logged(t) \in Nat
    BY Held, MessageFields, Others DEF logged
  <2> QED
    BY <2>1 DEF Finished
<1>6. \A m \in ToSet(Taken) \cup ToSet(terminal) : m \in Messages
  BY SMTT(30), <1>3, <1>4, LenProperties DEF ToSet
<1> QED
  BY <1>1, <1>4, <1>5, <1>6 DEF TakenTypes

\* A message moves from the queue to the writer's hand and from there to the file.
LEMMA MovesIn ==
  ASSUME NEW f \in Seq(Messages), NEW h \in Seq(Messages), NEW q \in Seq(Messages),
         NEW m \in Messages
  PROVE  f \o (h \o Append(q, m)) = Append(f \o (h \o q), m)
<1>0. <<m>> \in Seq(Messages) /\ f \o h \in Seq(Messages) /\ h \o q \in Seq(Messages) /\ f \o (h \o q) \in Seq(Messages)
  BY ConcatProperties
<1>1. Append(q, m) = q \o <<m>> /\ Append(f \o (h \o q), m) = (f \o (h \o q)) \o <<m>>
  BY <1>0, AppendIsConcat
<1>2. h \o (q \o <<m>>) = (h \o q) \o <<m>>
  BY <1>0, ConcatAssociative
<1>3. f \o ((h \o q) \o <<m>>) = (f \o (h \o q)) \o <<m>>
  BY <1>0, ConcatAssociative
<1> QED
  BY <1>1, <1>2, <1>3

LEMMA Moves ==
  ASSUME NEW f \in Seq(Messages), NEW h \in Seq(Messages), NEW q \in Seq(Messages)
  PROVE  /\ h = <<>> /\ q # <<>> => f \o (<<Head(q)>> \o Tail(q)) = f \o (h \o q)
         /\ \A m \in Messages : h = <<m>> => Append(f, m) \o (<<>> \o q) = f \o (h \o q)
<1>1. ASSUME h = <<>>, q # <<>> PROVE f \o (<<Head(q)>> \o Tail(q)) = f \o (h \o q)
  <2>0. /\ Head(q) \in Messages /\ Tail(q) \in Seq(Messages) /\ Len(Tail(q)) = Len(q) - 1 /\ Len(q) \in Nat \ {0}
        /\ Head(q) = q[1] /\ \A i \in 1 .. Len(q) - 1 : Tail(q)[i] = q[i + 1]
    BY <1>1, HeadTailProperties, LenProperties, EmptySeq
  <2>1. <<Head(q)>> \o Tail(q) = q
    <3> DEFINE one == <<Head(q)>>
    <3>1. one \in Seq(Messages) /\ Len(one) = 1 /\ one[1] = Head(q)
      BY <2>0
    <3> HIDE DEF one
    <3>2. /\ one \o Tail(q) \in Seq(Messages) /\ Len(one \o Tail(q)) = Len(one) + Len(Tail(q))
          /\ \A i \in 1 .. Len(one) + Len(Tail(q)) :
               (one \o Tail(q))[i] = IF i <= Len(one) THEN one[i] ELSE Tail(q)[i - Len(one)]
      BY <2>0, <3>1, ConcatProperties
    <3>3. \A i \in 1 .. Len(q) : (one \o Tail(q))[i] = q[i]
      BY <2>0, <3>1, <3>2
    <3>4. Len(one \o Tail(q)) = Len(q)
      BY <2>0, <3>1, <3>2
    <3>5. one \o Tail(q) = q
      BY <3>2, <3>3, <3>4, SeqEqual
    <3> QED
      BY <3>5 DEF one
  <2>2. h \o q = q
    BY <1>1, ConcatEmptySeq
  <2> QED
    BY <2>1, <2>2
<1>2. ASSUME NEW m \in Messages, h = <<m>> PROVE Append(f, m) \o (<<>> \o q) = f \o (h \o q)
  <2>1. <<>> \o q = q
    BY ConcatEmptySeq
  <2>2. Append(f, m) = f \o h
    BY <1>2, AppendIsConcat
  <2> QED
    BY <2>1, <2>2, ConcatAssociative
<1> QED
  BY <1>1, <1>2

\* Messages are taken in one place, the end of the queue.
LEMMA NextTaken ==
  ASSUME Types, Places, Stops, Next, Types', Places'
  PROVE  \/ /\ Taken' = Taken /\ ~\E t \in Callers : helper_pushes(t)
         \/ \E t \in Callers : helper_pushes(t) /\ Taken' = Append(Taken, item[t][1])
<1>0. /\ file \in Seq(Messages) /\ log_queue \in Seq(Messages) /\ InHand \in Seq(Messages)
      /\ Taken = file \o (InHand \o log_queue) /\ Taken' = file' \o (InHand' \o log_queue')
  <2>1. TakenTypes'
    BY HandAndFile, PTL
  <2> QED
    BY <2>1, HandAndFile DEF Types, TakenTypes
<1> HIDE DEF Taken
<1>1. ASSUME UNCHANGED <<file, log_queue, InHand>> PROVE Taken' = Taken
  BY <1>0, <1>1
<1>2. ASSUME NEW t \in Callers, CallerStep(t) \/ \E waits \in BOOLEAN : log(t, waits)
      PROVE  InHand' = InHand
  BY <1>2, Others DEF CallerStep, helper_waits, helper_falls_back, helper_pushes, print_to_terminal,
     notify_one, log, wait, goto, Types, InHand
<1>3. ASSUME NEW t \in Callers, helper_pushes(t) PROVE Taken' = Append(Taken, item[t][1])
  <2>1. InHand' = InHand /\ file' = file /\ log_queue' = Append(log_queue, item[t][1])
    BY <1>2, <1>3 DEF CallerStep, helper_pushes
  <2>2. item[t][1] \in Messages
    BY <1>3, Held, Others DEF helper_pushes, InHelper, Places
  <2> DEFINE m == item[t][1]
  <2> HIDE DEF m
  <2>3. m \in Messages
    BY <2>2 DEF m
  <2>4. file \o (InHand \o Append(log_queue, m)) = Append(file \o (InHand \o log_queue), m)
    <3>1. file \in Seq(Messages) /\ log_queue \in Seq(Messages) /\ InHand \in Seq(Messages)
      BY <1>0
    <3> QED
      BY ZenonT(30), <2>3, <3>1, MovesIn
  <2> QED
    BY <1>0, <2>1, <2>4 DEF m
<1>4. ASSUME NEW t \in Callers,
             \/ helper_waits(t) \/ helper_falls_back(t) \/ print_to_terminal(t)
             \/ (t # Writer /\ notify_one(t)) \/ \E waits \in BOOLEAN : log(t, waits)
      PROVE  Taken' = Taken
  <2>1. UNCHANGED <<file, log_queue>>
    BY <1>4 DEF helper_waits, helper_falls_back, print_to_terminal, notify_one, log, wait
  <2>2. InHand' = InHand
    BY <1>2, <1>4 DEF CallerStep
  <2> QED
    BY <1>1, <2>1, <2>2
<1>5. ASSUME consume_true PROVE Taken' = Taken
  <2>1. /\ pc[Writer] = "consume" /\ pc'[Writer] = "popped" /\ log_queue # <<>>
        /\ item'[Writer] = <<Head(log_queue)>> /\ log_queue' = Tail(log_queue) /\ file' = file
    BY <1>5, Others DEF consume_true, InConsume, goto, Types
  <2>2. InHand = <<>> /\ InHand' = <<Head(log_queue)>>
    BY <2>1 DEF InHand
  <2>3. file \o (<<Head(log_queue)>> \o Tail(log_queue)) = file \o (InHand \o log_queue)
    BY <1>0, <2>1, <2>2, Moves
  <2> QED
    BY <1>0, <2>1, <2>2, <2>3
<1>6. ASSUME write_log PROVE Taken' = Taken
  <2>1. /\ pc[Writer] = "write" /\ pc'[Writer] = "consume" /\ log_queue' = log_queue
        /\ file' = Append(file, item[Writer][1])
    BY <1>6, Others DEF write_log, goto, Types
  <2>2. item[Writer][1] \in Messages /\ item[Writer] = <<item[Writer][1]>>
    BY <2>1, Held, Others DEF Places
  <2>3. InHand = item[Writer] /\ InHand' = <<>>
    BY <2>1 DEF InHand
  <2> DEFINE m == item[Writer][1]
  <2> HIDE DEF m
  <2>4. Append(file, m) \o (<<>> \o log_queue) = file \o (InHand \o log_queue)
    <3>1. InHand = <<m>> /\ m \in Messages
      BY <2>2, <2>3 DEF m
    <3> QED
      BY <1>0, <3>1, Moves
  <2> QED
    BY <1>0, <2>1, <2>3, <2>4 DEF m
<1>7. ASSUME consume_waits \/ consume_false \/ notify_one(Writer) PROVE Taken' = Taken
  <2>1. UNCHANGED <<file, log_queue, item>>
        /\ (pc'[Writer] \in {"popped", "write"} <=> pc[Writer] \in {"popped", "write"})
    BY <1>7, Others DEF consume_waits, consume_false, notify_one, InConsume, wait, goto, Types, Places
  <2>2. InHand' = InHand
    BY <2>1 DEF InHand
  <2> QED
    BY <1>1, <2>1, <2>2
<1>8. ASSUME (\E t \in Threads : spurious_wakeup(t)) \/ shutdown \/ shutdown_notifies \/ join PROVE Taken' = Taken
  <2>1. UNCHANGED <<file, log_queue, item, pc>>
    BY <1>8 DEF spurious_wakeup, shutdown, shutdown_notifies, join
  <2>2. InHand' = InHand
    BY <2>1 DEF InHand
  <2> QED
    BY <1>1, <2>1, <2>2
<1>9. ASSUME start PROVE Taken' = Taken
  <2>1. /\ UNCHANGED <<file, log_queue, item>>
        /\ pc'[Writer] = "consume" /\ pc[Writer] = "out"
    BY <1>9, Others DEF start, goto, Types, Stops
  <2>2. InHand' = InHand
    BY <2>1 DEF InHand
  <2> QED
    BY <1>1, <2>1, <2>2
<1>10. ASSUME ~\E t \in Callers : helper_pushes(t) PROVE Taken' = Taken
  BY <1>4, <1>5, <1>6, <1>7, <1>8, <1>9, <1>10 DEF Next, CallerStep, WriterStep
<1> QED
  BY <1>3, <1>10

-----------------------------------------------------------------------------
(* The steps *)

LEMMA NextTypes == Types /\ Places /\ Next => Types'
<1> SUFFICES ASSUME Types, Places, Next PROVE Types'
  OBVIOUS
<1> USE DEF Types, goto, wait
<1>1. ASSUME NEW t \in Callers, CallerStep(t) PROVE Types'
  <2>1. CASE helper_pushes(t)
    <3>1. item[t][1] \in Messages
      BY <2>1, Held, Others DEF helper_pushes, InHelper, Places
    <3>2. log_queue' \in Seq(Messages)
      BY <2>1, <3>1, AppendProperties DEF helper_pushes
    <3> QED
      BY <2>1, <3>2, Others DEF helper_pushes
  <2>2. CASE print_to_terminal(t)
    <3>1. item[t][1] \in Messages
      BY <2>2, Held, Others DEF print_to_terminal, Places
    <3>2. terminal' \in Seq(Messages)
      BY <2>2, <3>1, AppendProperties DEF print_to_terminal
    <3> QED
      BY <2>2, <3>2, Others DEF print_to_terminal
  <2>3. CASE helper_waits(t) \/ helper_falls_back(t) \/ (t # Writer /\ notify_one(t))
    BY <2>3, Others DEF helper_waits, helper_falls_back, notify_one
  <2> QED
    BY <1>1, <2>1, <2>2, <2>3 DEF CallerStep
<1>2. ASSUME NEW t \in Callers, NEW waits \in BOOLEAN, log(t, waits) PROVE Types'
  <2> DEFINE m == [from |-> t, n |-> logged(t) + 1, waits |-> waits]
  <2>1. logged(t) \in Nat /\ logged(t) < MaxMessages
    BY <1>2, HandAndFile DEF TakenTypes, log
  <2>2. m \in Messages
    BY <2>1, LoggerAssumption DEF Messages
  <2>3. item' = [item EXCEPT ![t] = <<m>>]
    BY <1>2 DEF log
  <2> HIDE DEF m
  <2>4. item' \in [Threads -> {None} \cup {<<x>> : x \in Messages}]
    BY <2>2, <2>3
  <2> QED
    BY <1>2, <2>4, Others DEF log
<1>3. CASE consume_true
  <2>1. Head(log_queue) \in Messages /\ log_queue' \in Seq(Messages)
    BY <1>3, HeadTailProperties DEF consume_true
  <2>2. item' \in [Threads -> {None} \cup {<<x>> : x \in Messages}]
    BY <1>3, <2>1 DEF consume_true
  <2> QED
    BY <1>3, <2>1, <2>2, Others DEF consume_true
<1>4. CASE write_log
  <2>1. item[Writer][1] \in Messages
    BY <1>4, Held, Others DEF write_log, Places
  <2>2. file' \in Seq(Messages)
    BY <1>4, <2>1, AppendProperties DEF write_log
  <2> QED
    BY <1>4, <2>2, Others DEF write_log
<1>5. CASE consume_waits \/ consume_false \/ notify_one(Writer)
  BY <1>5, Others DEF consume_waits, consume_false, notify_one
<1>6. CASE (\E t \in Threads : spurious_wakeup(t)) \/ shutdown \/ shutdown_notifies \/ join
  BY <1>6 DEF spurious_wakeup, shutdown, shutdown_notifies, join
<1>7. CASE start
  <2>1. starts' \in Nat
    BY <1>7 DEF start
  <2>2. pc' \in [Threads -> {"out", "helper", "to_terminal", "pushed", "consume", "popped", "write"}]
    BY <1>7, Others DEF start
  <2> QED
    BY <1>7, <2>1, <2>2 DEF start
<1> QED
  BY <1>1, <1>2, <1>3, <1>4, <1>5, <1>6, <1>7 DEF Next, WriterStep

LEMMA NextPlaces == Types /\ Places /\ Stops /\ Next => Places'
<1> SUFFICES ASSUME Types, Places, Stops, Next PROVE Places'
  OBVIOUS
<1> USE Others DEF Types, Places, goto, wait
<1>1. ASSUME NEW t \in Callers, CallerStep(t) PROVE Places'
  <2>1. CASE helper_waits(t)
    BY <2>1 DEF helper_waits
  <2>2. CASE helper_falls_back(t) \/ helper_pushes(t)
    <3>1. pc[t] = "helper" /\ item' = item
      BY <2>2 DEF helper_falls_back, helper_pushes, InHelper
    <3>2. PICK p \in {"to_terminal", "pushed"} : pc' = [pc EXCEPT ![t] = p]
      BY <2>2 DEF helper_falls_back, helper_pushes
    <3> QED
      BY <3>1, <3>2
  <2>3. CASE print_to_terminal(t)
    BY <2>3 DEF print_to_terminal
  <2>4. CASE t # Writer /\ notify_one(t)
    BY <2>4 DEF notify_one
  <2> QED
    BY <1>1, <2>1, <2>2, <2>3, <2>4 DEF CallerStep
<1>2. ASSUME NEW t \in Callers, NEW waits \in BOOLEAN, log(t, waits) PROVE Places'
  <2> DEFINE m == [from |-> t, n |-> logged(t) + 1, waits |-> waits]
  <2>1. item' = [item EXCEPT ![t] = <<m>>] /\ m.from = t /\ pc' = [pc EXCEPT ![t] = "helper"]
    BY <1>2 DEF log
  <2> HIDE DEF m
  <2>2. <<m>> # <<>> /\ <<m>>[1] = m
    BY Single
  <2>3. ASSUME NEW c \in Callers
        PROVE  /\ pc'[c] \in {"out", "helper", "to_terminal", "pushed"}
               /\ pc'[c] \in {"helper", "to_terminal", "pushed"} => item'[c] # None
               /\ item'[c] # None => item'[c][1].from = c
    <3>1. CASE c = t
      BY <2>1, <2>2, <3>1 DEF None
    <3>2. CASE c # t
      BY <2>1, <3>2
    <3> QED
      BY <3>1, <3>2
  <2>4. pc'[Writer] = pc[Writer] /\ item'[Writer] = item[Writer]
    BY <2>1
  <2> QED
    BY <2>3, <2>4
<1>3. CASE consume_true
  <2>1. /\ pc' = [pc EXCEPT ![Writer] = "popped"] /\ item' = [item EXCEPT ![Writer] = <<Head(log_queue)>>]
    BY <1>3 DEF consume_true
  <2>2. item'[Writer] # None /\ pc'[Writer] = "popped"
    BY <2>1, Single DEF None
  <2>3. \A c \in Callers : pc'[c] = pc[c] /\ item'[c] = item[c]
    BY <2>1
  <2> QED
    BY <2>2, <2>3
<1>4. CASE write_log
  BY <1>4 DEF write_log
<1>5. CASE consume_waits \/ consume_false \/ notify_one(Writer)
  BY <1>5 DEF consume_waits, consume_false, notify_one, InConsume
<1>6. CASE (\E t \in Threads : spurious_wakeup(t)) \/ shutdown \/ shutdown_notifies \/ join
  BY <1>6 DEF spurious_wakeup, shutdown, shutdown_notifies, join
<1>7. CASE start
  BY <1>7 DEF start, Stops
<1> QED
  BY <1>1, <1>2, <1>3, <1>4, <1>5, <1>6, <1>7 DEF Next, WriterStep

LEMMA NextStops == Types /\ Places /\ Stops /\ Next => Stops'
<1> SUFFICES ASSUME Types, Places, Stops, Next PROVE Stops'
  OBVIOUS
<1> USE Others DEF Types, Places, Stops, goto, wait
<1>1. ASSUME NEW t \in Callers, CallerStep(t) PROVE Stops'
  <2>1. pc'[Writer] = pc[Writer] /\ UNCHANGED <<stop, starts, owner>>
    BY <1>1 DEF CallerStep, helper_waits, helper_falls_back, helper_pushes, print_to_terminal,
       notify_one
  <2>2. stop => log_queue' = log_queue
    BY <1>1 DEF CallerStep, helper_waits, helper_falls_back, helper_pushes, InHelper,
       print_to_terminal, notify_one
  <2> QED
    BY <2>1, <2>2
<1>2. ASSUME NEW t \in Callers, NEW waits \in BOOLEAN, log(t, waits) PROVE Stops'
  BY <1>2 DEF log
<1>3. CASE consume_true \/ write_log
  BY <1>3 DEF consume_true, write_log, InConsume
<1>4. CASE consume_waits \/ consume_false \/ notify_one(Writer)
  BY <1>4 DEF consume_waits, consume_false, notify_one, InConsume
<1>5. CASE (\E t \in Threads : spurious_wakeup(t)) \/ shutdown \/ shutdown_notifies \/ join
  BY <1>5 DEF spurious_wakeup, shutdown, shutdown_notifies, join
<1>6. CASE start
  BY <1>6 DEF start
<1> QED
  BY <1>1, <1>2, <1>3, <1>4, <1>5, <1>6 DEF Next, WriterStep

\* A call is through when its message is in the queue or on the terminal.
LEMMA NextFinished ==
  ASSUME Types, Places, Next, NEW t \in Callers
  PROVE  \/ /\ helper_pushes(t) \/ print_to_terminal(t)
            /\ Finished(t)' = Finished(t) + 1 /\ item[t][1].n = Finished(t)'
         \/ /\ Finished(t)' = Finished(t)
            /\ ~helper_pushes(t) /\ ~print_to_terminal(t)
<1> USE Others DEF goto, wait
<1>0. logged(t) \in Nat
  BY HandAndFile DEF TakenTypes
<1>1. ASSUME UNCHANGED item, pc'[t] = pc[t]
      PROVE  Finished(t)' = Finished(t) /\ ~helper_pushes(t) /\ ~print_to_terminal(t)
  BY <1>1 DEF Finished, logged, helper_pushes, InHelper, print_to_terminal, Types
<1>2. ASSUME NEW c \in Callers, CallerStep(c), c # t PROVE UNCHANGED item /\ pc'[t] = pc[t]
  BY <1>2 DEF CallerStep, helper_waits, helper_falls_back, helper_pushes, print_to_terminal,
     notify_one, Types
<1>3. CASE helper_pushes(t) \/ print_to_terminal(t)
  <2>1. /\ UNCHANGED item /\ pc[t] \in {"helper", "to_terminal"} /\ pc'[t] \in {"pushed", "out"}
        /\ item[t] # None
    BY <1>3 DEF helper_pushes, InHelper, print_to_terminal, Types, Places
  <2>2. logged(t)' = logged(t) /\ logged(t) = item[t][1].n
    BY <2>1 DEF logged
  <2>3. Finished(t) = logged(t) - 1 /\ Finished(t)' = logged(t)
    BY <2>1, <2>2, <1>0 DEF Finished
  <2> QED
    BY <1>0, <1>3, <2>2, <2>3
<1>4. CASE helper_waits(t) \/ helper_falls_back(t) \/ notify_one(t)
  <2>1. /\ UNCHANGED item
        /\ pc'[t] \in {"helper", "to_terminal"} <=> pc[t] \in {"helper", "to_terminal"}
    BY <1>4 DEF helper_waits, helper_falls_back, notify_one, InHelper, Types
  <2>2. Finished(t)' = Finished(t)
    BY <2>1 DEF Finished, logged
  <2>3. ~helper_pushes(t) /\ ~print_to_terminal(t)
    BY <1>4 DEF helper_waits, helper_falls_back, helper_pushes, InHelper, print_to_terminal,
       notify_one, Full, Types
  <2> QED
    BY <2>2, <2>3
<1>5. ASSUME NEW c \in Callers, NEW waits \in BOOLEAN, log(c, waits)
      PROVE  Finished(t)' = Finished(t) /\ ~helper_pushes(t) /\ ~print_to_terminal(t)
  <2> DEFINE m == [from |-> c, n |-> logged(c) + 1, waits |-> waits]
  <2>1. /\ item' = [item EXCEPT ![c] = <<m>>] /\ m.n = logged(c) + 1 /\ pc[c] = "out"
        /\ pc' = [pc EXCEPT ![c] = "helper"] /\ UNCHANGED <<log_queue, terminal>>
    BY <1>5 DEF log
  <2> HIDE DEF m
  <2>2. <<m>> # <<>> /\ <<m>>[1] = m
    BY Single
  <2>3. CASE c = t
    <3>1. item'[t] = <<m>> /\ pc'[t] = "helper" /\ pc[t] = "out"
      BY <2>1, <2>3 DEF Types
    <3>2. logged(t)' = logged(t) + 1
      BY <2>1, <2>2, <2>3, <3>1 DEF logged, None
    <3>3. Finished(t)' = Finished(t)
      BY <1>0, <3>1, <3>2 DEF Finished
    <3> QED
      BY <3>1, <3>3 DEF helper_pushes, InHelper, print_to_terminal
  <2>4. CASE c # t
    <3>1. item'[t] = item[t] /\ pc'[t] = pc[t]
      BY <2>1, <2>4 DEF Types
    <3>2. Finished(t)' = Finished(t)
      BY <3>1 DEF Finished, logged
    <3> QED
      BY <3>1, <3>2 DEF helper_pushes, InHelper, print_to_terminal, Types
  <2> QED
    BY <2>3, <2>4
<1>6. CASE WriterStep \/ start
  <2>1. item'[t] = item[t] /\ pc'[t] = pc[t]
    BY <1>6 DEF WriterStep, consume_waits, consume_false, consume_true, write_log, notify_one, start,
       Types
  <2>2. Finished(t)' = Finished(t)
    BY <2>1 DEF Finished, logged
  <2> QED
    BY <2>1, <2>2 DEF helper_pushes, InHelper, print_to_terminal, Types
<1>7. CASE (\E c \in Threads : spurious_wakeup(c)) \/ shutdown \/ shutdown_notifies \/ join
  BY <1>1, <1>7 DEF spurious_wakeup, shutdown, shutdown_notifies, join
<1> QED
  BY <1>1, <1>2, <1>3, <1>4, <1>5, <1>6, <1>7 DEF Next, CallerStep

LEMMA NextOnce ==
  Types /\ Places /\ Stops /\ Once /\ InOrder /\ FallenBack /\ Next
    => Once' /\ InOrder' /\ FallenBack'
<1> SUFFICES ASSUME Types, Places, Stops, Once, InOrder, FallenBack, Next
             PROVE  Once' /\ InOrder' /\ FallenBack'
  OBVIOUS
<1> HIDE DEF Taken, Finished
<1>0. /\ TakenTypes /\ Types' /\ Places'
  BY HandAndFile, NextTypes, NextPlaces
<1>1. /\ Taken \in Seq(Messages) /\ terminal \in Seq(Messages) /\ Len(Taken) \in Nat
      /\ Len(terminal) \in Nat
      /\ \A t \in Callers : Finished(t) \in Int
      /\ \A m \in ToSet(Taken) \cup ToSet(terminal) :
           m \in Messages /\ m.from \in Callers /\ m.n \in Nat /\ m.n <= Finished(m.from)
  BY <1>0, MessageFields, LenProperties DEF TakenTypes, Types, Once
<1>f. \A t \in Callers :
        \/ /\ helper_pushes(t) \/ print_to_terminal(t)
           /\ Finished(t)' = Finished(t) + 1 /\ item[t][1].n = Finished(t)'
        \/ /\ Finished(t)' = Finished(t)
           /\ ~helper_pushes(t) /\ ~print_to_terminal(t)
  BY NextFinished
\* The message of a call that gets through is like none before.
<1>n. ASSUME NEW t \in Callers, helper_pushes(t) \/ print_to_terminal(t)
      PROVE  /\ item[t][1] \in Messages /\ item[t][1].from = t
             /\ item[t][1].n = Finished(t) + 1 /\ Finished(t)' = Finished(t) + 1
             /\ \A c \in Callers : c # t => Finished(c)' = Finished(c)
             /\ item[t][1] \notin ToSet(Taken) \cup ToSet(terminal)
             /\ \A m \in ToSet(Taken) : m.from = t => m.n < item[t][1].n
  <2>1. item[t] # None /\ t \in Threads /\ item[t][1].from = t
    BY <1>n, Others DEF helper_pushes, InHelper, print_to_terminal, Places
  <2>2. item[t][1] \in Messages
    BY <2>1, Held
  <2>3. item[t][1].n = Finished(t) + 1 /\ Finished(t)' = Finished(t) + 1
    BY <1>n, <1>f
  <2>4. ASSUME NEW c \in Callers, c # t PROVE Finished(c)' = Finished(c)
    <3>1. ~helper_pushes(c) /\ ~print_to_terminal(c)
      BY <1>n, <2>4, Others DEF helper_pushes, print_to_terminal, InHelper, goto, Types
    <3> QED
      BY <1>f, <3>1
  <2> QED
    BY <1>1, <2>1, <2>2, <2>3, <2>4
<1>2. FallenBack'
  <2>1. ASSUME NEW m \in ToSet(terminal'), m.waits PROVE stop' \/ starts' > 1
    <3>1. stop \/ starts > 1
      <4>1. CASE m \in ToSet(terminal)
        BY <2>1, <4>1 DEF FallenBack
      <4>2. CASE m \notin ToSet(terminal)
        <5>1. PICK t \in Callers : print_to_terminal(t)
          BY <4>2 DEF Next, CallerStep, WriterStep, helper_waits, helper_falls_back, helper_pushes,
             notify_one, log, consume_waits, consume_false, consume_true, write_log, wait,
             spurious_wakeup, start, shutdown, shutdown_notifies, join
        <5>2. item[t][1] \in Messages /\ pc[t] = "to_terminal"
          BY <1>n, <5>1 DEF print_to_terminal
        <5>3. ToSet(terminal') = ToSet(terminal) \cup {item[t][1]}
          BY <1>1, <5>1, <5>2, ItemsAppended DEF print_to_terminal
        <5>4. m = item[t][1]
          BY <4>2, <5>3
        <5> QED
          BY <2>1, <5>2, <5>4 DEF FallenBack
      <4> QED
        BY <4>1, <4>2
    <3>2. \/ UNCHANGED <<stop, starts>> \/ stop' = TRUE
          \/ stop' = FALSE /\ starts' = starts + 1 /\ (stop => starts > 0) /\ starts \in Nat
      BY DEF Next, CallerStep, WriterStep, helper_waits, helper_falls_back, helper_pushes,
         print_to_terminal, notify_one, log, consume_waits, consume_false, consume_true, write_log,
         wait, spurious_wakeup, start, shutdown, shutdown_notifies, join, Stops, Types
    <3> QED
      BY <3>1, <3>2
  <2>2. ASSUME NEW t \in Callers, pc'[t] = "to_terminal", item'[t][1].waits PROVE stop' \/ starts' > 1
    <3>1. stop \/ starts > 1
      <4>1. CASE helper_falls_back(t)
        BY <2>2, <4>1 DEF helper_falls_back
      <4>2. CASE ~helper_falls_back(t)
        <5>1. pc[t] = "to_terminal" /\ item'[t] = item[t]
          BY <2>2, <4>2, Others DEF Next, CallerStep, WriterStep, helper_waits, helper_falls_back,
             helper_pushes, print_to_terminal, notify_one, log, consume_waits, consume_false,
             consume_true, write_log, wait, goto, spurious_wakeup, start, shutdown,
             shutdown_notifies, join, Types
        <5> QED
          BY <2>2, <5>1 DEF FallenBack
      <4> QED
        BY <4>1, <4>2
    <3>2. \/ UNCHANGED <<stop, starts>> \/ stop' = TRUE
          \/ stop' = FALSE /\ starts' = starts + 1 /\ (stop => starts > 0) /\ starts \in Nat
      BY DEF Next, CallerStep, WriterStep, helper_waits, helper_falls_back, helper_pushes,
         print_to_terminal, notify_one, log, consume_waits, consume_false, consume_true, write_log,
         wait, spurious_wakeup, start, shutdown, shutdown_notifies, join, Stops, Types
    <3> QED
      BY <3>1, <3>2
  <2> QED
    BY <2>1, <2>2 DEF FallenBack
<1>3. ASSUME NEW t \in Callers, helper_pushes(t) PROVE Once' /\ InOrder'
  <2> DEFINE m == item[t][1]
  <2>0. /\ m \in Messages /\ m.from = t /\ m.n = Finished(t) + 1
        /\ Finished(t)' = Finished(t) + 1 /\ m \notin ToSet(Taken) \cup ToSet(terminal)
        /\ \A c \in Callers : c # t => Finished(c)' = Finished(c)
        /\ \A e \in ToSet(Taken) : e.from = t => e.n < m.n
    BY <1>3, <1>n
  <2>1. Taken' = Append(Taken, m) /\ terminal' = terminal
    <3>1. ASSUME NEW c \in Callers, helper_pushes(c) PROVE c = t
      BY <1>3, <3>1, Others DEF helper_pushes, InHelper, goto, Types
    <3> QED
      BY <1>0, <1>3, <3>1, NextTaken DEF helper_pushes
  <2> HIDE DEF m
  <2>2. /\ ToSet(Taken') = ToSet(Taken) \cup {m} /\ Len(Taken') = Len(Taken) + 1
        /\ \A i \in 1 .. Len(Taken) : Taken'[i] = Taken[i] /\ Taken[i] \in ToSet(Taken)
        /\ Taken'[Len(Taken) + 1] = m
    BY <1>1, <2>0, <2>1, ItemsOfAppend
  <2>3. Once'
    <3>1. ASSUME NEW c \in Callers, NEW n \in 1 .. Finished(c)'
          PROVE  \E e \in ToSet(Taken') \cup ToSet(terminal') : e.from = c /\ e.n = n
      <4>1. CASE n \in 1 .. Finished(c)
        <5>1. \E e \in ToSet(Taken) \cup ToSet(terminal) : e.from = c /\ e.n = n
          BY <4>1 DEF Once
        <5> QED
          BY <2>1, <2>2, <5>1
      <4>2. CASE n \notin 1 .. Finished(c)
        <5>1. c = t /\ n = Finished(t) + 1
          BY <1>1, <2>0, <3>1, <4>2
        <5> QED
          BY <2>0, <2>2, <5>1
      <4> QED
        BY <4>1, <4>2
    <3>2. ASSUME NEW e \in ToSet(Taken') \cup ToSet(terminal') PROVE e.n <= Finished(e.from)'
      <4>1. CASE e = m
        BY <1>1, <2>0, <4>1
      <4>2. CASE e \in ToSet(Taken) \cup ToSet(terminal)
        <5>1. e.n \in Nat /\ e.from \in Callers /\ e.n <= Finished(e.from)
          BY <1>1, <4>2
        <5> DEFINE c == e.from
        <5>2. c \in Callers /\ e.n <= Finished(c) /\ Finished(c) \in Int
          BY <1>1, <5>1
        <5> HIDE DEF c
        <5>3. e.n <= Finished(c)'
          <6>1. CASE c = t
            BY <2>0, <5>1, <5>2, <6>1
          <6>2. CASE c # t
            BY <2>0, <5>2, <6>2
          <6> QED
            BY <6>1, <6>2
        <5> QED
          BY <5>3 DEF c
      <4> QED
        BY <2>1, <2>2, <4>1, <4>2
    <3>3. /\ ToSet(Taken') \cap ToSet(terminal') = {}
          /\ \A i, j \in 1 .. Len(terminal') : i # j => terminal'[i] # terminal'[j]
      BY <2>0, <2>1, <2>2 DEF Once
    <3> QED
      BY <3>1, <3>2, <3>3 DEF Once
  <2>4. InOrder'
    <3> SUFFICES ASSUME NEW i \in 1 .. Len(Taken) + 1, NEW j \in 1 .. Len(Taken) + 1, i < j
                 PROVE  /\ Taken'[i] # Taken'[j]
                        /\ Taken'[i].from = Taken'[j].from => Taken'[i].n < Taken'[j].n
      BY <2>2 DEF InOrder
    <3>1. i \in 1 .. Len(Taken) /\ Taken'[i] = Taken[i] /\ Taken[i] \in ToSet(Taken)
      BY <1>1, <2>2
    <3>2. CASE j = Len(Taken) + 1
      BY <2>0, <2>2, <3>1, <3>2
    <3>3. CASE j # Len(Taken) + 1
      <4>1. j \in 1 .. Len(Taken) /\ Taken'[j] = Taken[j]
        BY SMTT(30), <1>1, <2>2, <3>3
      <4> QED
        BY <3>1, <4>1 DEF InOrder
    <3> QED
      BY <3>2, <3>3
  <2> QED
    BY <2>3, <2>4
<1>4. ASSUME NEW t \in Callers, print_to_terminal(t) PROVE Once' /\ InOrder'
  <2> DEFINE m == item[t][1]
  <2>0. /\ m \in Messages /\ m.from = t /\ m.n = Finished(t) + 1
        /\ Finished(t)' = Finished(t) + 1 /\ m \notin ToSet(Taken) \cup ToSet(terminal)
        /\ \A c \in Callers : c # t => Finished(c)' = Finished(c)
    BY <1>4, <1>n
  <2>1. Taken' = Taken /\ terminal' = Append(terminal, m)
    <3>1. ~\E c \in Callers : helper_pushes(c)
      BY <1>4, Others DEF print_to_terminal, helper_pushes, InHelper, goto, Types
    <3> QED
      BY <1>0, <1>4, <3>1, NextTaken DEF print_to_terminal
  <2> HIDE DEF m
  <2>2. /\ ToSet(terminal') = ToSet(terminal) \cup {m} /\ Len(terminal') = Len(terminal) + 1
        /\ \A i \in 1 .. Len(terminal) : terminal'[i] = terminal[i] /\ terminal[i] \in ToSet(terminal)
        /\ terminal'[Len(terminal) + 1] = m
    BY <1>1, <2>0, <2>1, ItemsOfAppend
  <2>3. ASSUME NEW c \in Callers, NEW n \in 1 .. Finished(c)'
        PROVE  \E e \in ToSet(Taken') \cup ToSet(terminal') : e.from = c /\ e.n = n
    <3>1. CASE n \in 1 .. Finished(c)
      <4>1. \E e \in ToSet(Taken) \cup ToSet(terminal) : e.from = c /\ e.n = n
        BY <3>1 DEF Once
      <4> QED
        BY <2>1, <2>2, <4>1
    <3>2. CASE n \notin 1 .. Finished(c)
      <4>1. c = t /\ n = Finished(t) + 1
        BY <1>1, <2>0, <2>3, <3>2
      <4> QED
        BY <2>0, <2>2, <4>1
    <3> QED
      BY <3>1, <3>2
  <2>4. ASSUME NEW e \in ToSet(Taken') \cup ToSet(terminal') PROVE e.n <= Finished(e.from)'
    <3>1. CASE e = m
      BY <1>1, <2>0, <3>1
    <3>2. CASE e \in ToSet(Taken) \cup ToSet(terminal)
      <4>1. e.n \in Nat /\ e.from \in Callers /\ e.n <= Finished(e.from)
        BY <1>1, <3>2
      <4> DEFINE c == e.from
      <4>2. c \in Callers /\ e.n <= Finished(c) /\ Finished(c) \in Int
        BY <1>1, <4>1
      <4> HIDE DEF c
      <4>3. e.n <= Finished(c)'
        <5>1. CASE c = t
          BY <2>0, <4>1, <4>2, <5>1
        <5>2. CASE c # t
          BY <2>0, <4>2, <5>2
        <5> QED
          BY <5>1, <5>2
      <4> QED
        BY <4>3 DEF c
    <3> QED
      BY <2>1, <2>2, <3>1, <3>2
  <2>5. ToSet(Taken') \cap ToSet(terminal') = {}
    BY <2>0, <2>1, <2>2 DEF Once
  <2>6. ASSUME NEW i \in 1 .. Len(terminal'), NEW j \in 1 .. Len(terminal'), i # j
        PROVE  terminal'[i] # terminal'[j]
    <3>1. ASSUME NEW k \in 1 .. Len(terminal')
          PROVE  \/ k \in 1 .. Len(terminal) /\ terminal'[k] = terminal[k] /\ terminal[k] \in ToSet(terminal)
                 \/ k = Len(terminal) + 1 /\ terminal'[k] = m
      BY <1>1, <2>2
    <3> QED
      BY <2>0, <2>6, <3>1 DEF Once
  <2> QED
    BY <2>1, <2>3, <2>4, <2>5, <2>6 DEF Once, InOrder
<1>5. ASSUME \A t \in Callers : ~helper_pushes(t) /\ ~print_to_terminal(t)
      PROVE  Once' /\ InOrder'
  <2>1. Taken' = Taken
    BY <1>0, <1>5, NextTaken
  <2>2. terminal' = terminal
    BY <1>5 DEF Next, CallerStep, WriterStep, helper_waits, helper_falls_back,
       notify_one, log, consume_waits, consume_false, consume_true, write_log, wait,
       spurious_wakeup, start, shutdown, shutdown_notifies, join
  <2>3. \A t \in Callers : Finished(t)' = Finished(t)
    BY <1>5, <1>f
  <2>4. ASSUME NEW e \in ToSet(Taken) \cup ToSet(terminal) PROVE e.n <= Finished(e.from)'
    <3> DEFINE c == e.from
    <3>1. c \in Callers /\ e.n <= Finished(c)
      BY <1>1
    <3> HIDE DEF c
    <3>2. e.n <= Finished(c)'
      BY <2>3, <3>1
    <3> QED
      BY <3>2 DEF c
  <2> QED
    BY <2>1, <2>2, <2>3, <2>4 DEF Once, InOrder
<1> QED
  BY <1>2, <1>3, <1>4, <1>5

-----------------------------------------------------------------------------
LEMMA InitLogInv == Init => LogInv
<1> SUFFICES ASSUME Init PROVE LogInv
  OBVIOUS
<1>1. <<>> \in Seq(Messages) /\ Len(<<>>) = 0 /\ ToSet(<<>>) = {}
  BY EmptySeq DEF ToSet
<1>2. Types /\ Places /\ Stops
  <2>1. /\ pc \in [Threads -> {"out", "helper", "to_terminal", "pushed", "consume", "popped", "write"}]
        /\ item \in [Threads -> {None} \cup {<<m>> : m \in Messages}]
        /\ \A t \in Threads : pc[t] = "out" /\ item[t] = None
    BY DEF Init
  <2>2. Types
    BY <1>1, <2>1 DEF Init, Types
  <2>3. Places
    BY <2>1, Others DEF Places
  <2>4. Stops
    BY <1>1, <2>1, Others DEF Init, Stops
  <2> QED
    BY <2>2, <2>3, <2>4
<1>3. InHand = <<>> /\ file = <<>> /\ log_queue = <<>> /\ terminal = <<>>
  BY Others DEF Init, InHand
<1>4. Taken = <<>>
  <2>1. Taken = file \o (InHand \o log_queue)
    BY <1>2, HandAndFile DEF TakenTypes
  <2> HIDE DEF Taken, InHand
  <2> QED
    BY <1>1, <1>3, <2>1, ConcatEmptySeq
<1>5. \A t \in Callers : Finished(t) = 0
  BY Others DEF Init, Finished, logged, None
<1> HIDE DEF Taken, Finished
<1>6. Once /\ InOrder /\ FallenBack
  BY <1>1, <1>3, <1>4, <1>5, Others DEF Once, InOrder, FallenBack, Init
<1> QED
  BY <1>2, <1>6 DEF LogInv

LEMMA NextLogInv == LogInv /\ [Next]_vars => LogInv'
<1> SUFFICES ASSUME LogInv, [Next]_vars PROVE LogInv'
  OBVIOUS
<1>1. CASE Next
  BY <1>1, NextTypes, NextPlaces, NextStops, NextOnce DEF LogInv
<1>2. CASE UNCHANGED vars
  <2>1. Taken' = Taken /\ \A t : Finished(t)' = Finished(t)
    BY <1>2 DEF vars, Taken, Finished, logged
  <2> HIDE DEF Taken, Finished
  <2> QED
    BY <1>2, <2>1 DEF vars, LogInv, Types, Places, Stops, Once, InOrder, FallenBack
<1> QED
  BY <1>1, <1>2

LEMMA LogInvariance == Spec => []LogInv
BY InitLogInv, NextLogInv, PTL DEF Spec

-----------------------------------------------------------------------------
\* Two sequences one after the other: their items, and where they are.
LEMMA ItemsOfConcat ==
  ASSUME NEW S, NEW s \in Seq(S), NEW u \in Seq(S)
  PROVE  /\ \A i \in DOMAIN (s \o u) :
              \/ i \in 1 .. Len(s) /\ (s \o u)[i] = s[i] /\ s[i] \in ToSet(s)
              \/ /\ i - Len(s) \in 1 .. Len(u) /\ i \notin 1 .. Len(s)
                 /\ (s \o u)[i] = u[i - Len(s)] /\ u[i - Len(s)] \in ToSet(u)
         /\ \A m \in ToSet(s) \cup ToSet(u) : \E i \in DOMAIN (s \o u) : (s \o u)[i] = m
<1>1. /\ DOMAIN s = 1 .. Len(s) /\ DOMAIN u = 1 .. Len(u) /\ Len(s) \in Nat /\ Len(u) \in Nat
      /\ DOMAIN (s \o u) = 1 .. (Len(s) + Len(u))
      /\ \A i \in 1 .. (Len(s) + Len(u)) :
           (s \o u)[i] = IF i <= Len(s) THEN s[i] ELSE u[i - Len(s)]
  BY ConcatProperties, LenProperties
<1>2. ASSUME NEW i \in DOMAIN (s \o u)
      PROVE  \/ i \in 1 .. Len(s) /\ (s \o u)[i] = s[i] /\ s[i] \in ToSet(s)
             \/ /\ i - Len(s) \in 1 .. Len(u) /\ i \notin 1 .. Len(s)
                /\ (s \o u)[i] = u[i - Len(s)] /\ u[i - Len(s)] \in ToSet(u)
  <2>1. CASE i <= Len(s)
    BY <1>1, <2>1 DEF ToSet
  <2>2. CASE ~(i <= Len(s))
    <3>1. i - Len(s) \in 1 .. Len(u) /\ i \notin 1 .. Len(s)
      BY <1>1, <2>2
    <3> QED
      BY <1>1, <2>2, <3>1 DEF ToSet
  <2> QED
    BY <2>1, <2>2
<1>3. ASSUME NEW m \in ToSet(s) \cup ToSet(u) PROVE \E i \in DOMAIN (s \o u) : (s \o u)[i] = m
  <2>1. CASE m \in ToSet(s)
    <3>1. PICK i \in 1 .. Len(s) : s[i] = m
      BY <1>1, <2>1 DEF ToSet
    <3>2. i \in 1 .. (Len(s) + Len(u)) /\ i <= Len(s)
      BY <1>1
    <3> QED
      BY <1>1, <3>1, <3>2
  <2>2. CASE m \in ToSet(u)
    <3>1. PICK j \in 1 .. Len(u) : u[j] = m
      BY <1>1, <2>2 DEF ToSet
    <3> DEFINE i == Len(s) + j
    <3>2. i \in 1 .. (Len(s) + Len(u)) /\ ~(i <= Len(s)) /\ i - Len(s) = j
      BY <1>1
    <3> HIDE DEF i
    <3> QED
      BY <1>1, <3>1, <3>2
  <2> QED
    BY <2>1, <2>2
<1> QED
  BY <1>2, <1>3

LEMMA OnceAndInOrder == LogInv => EveryMessageOnce
<1> SUFFICES ASSUME LogInv PROVE EveryMessageOnce
  OBVIOUS
<1>0. Types /\ Places /\ Stops /\ Once /\ InOrder /\ FallenBack /\ TakenTypes
  BY HandAndFile DEF LogInv
<1> DEFINE all == Taken \o terminal
           n_(t) == {all[i].n : i \in {i \in DOMAIN all : all[i].from = t}}
<1> HIDE DEF Taken, Finished
<1>1. /\ Taken \in Seq(Messages) /\ terminal \in Seq(Messages) /\ Len(Taken) \in Nat
      /\ \A t \in Callers : Finished(t) \in Int
      /\ \A m \in ToSet(Taken) \cup ToSet(terminal) :
           m \in Messages /\ m.from \in Callers /\ m.n \in Nat \ {0} /\ m.n <= Finished(m.from)
      /\ DOMAIN Taken = 1 .. Len(Taken) /\ DOMAIN terminal = 1 .. Len(terminal)
  BY <1>0, MessageFields, LenProperties DEF TakenTypes, Types, Once
<1>2. /\ \A i \in DOMAIN all :
           \/ i \in 1 .. Len(Taken) /\ all[i] = Taken[i] /\ Taken[i] \in ToSet(Taken)
           \/ /\ i - Len(Taken) \in 1 .. Len(terminal) /\ i \notin 1 .. Len(Taken)
              /\ all[i] = terminal[i - Len(Taken)] /\ terminal[i - Len(Taken)] \in ToSet(terminal)
      /\ \A m \in ToSet(Taken) \cup ToSet(terminal) : \E i \in DOMAIN all : all[i] = m
      /\ DOMAIN all \subseteq Int
  <2>1. DOMAIN all = 1 .. (Len(Taken) + Len(terminal))
    BY <1>1, ConcatProperties
  <2> QED
    BY <1>1, <2>1, ItemsOfConcat
<1> HIDE DEF all
<1>3. ASSUME NEW t \in Callers PROVE n_(t) = 1 .. Finished(t)
  <2>1. ASSUME NEW i \in DOMAIN all, all[i].from = t PROVE all[i].n \in 1 .. Finished(t)
    <3>1. all[i] \in ToSet(Taken) \cup ToSet(terminal)
      BY <1>2, <2>1
    <3>2. all[i].n \in Nat \ {0} /\ all[i].n <= Finished(t)
      BY <1>1, <2>1, <3>1
    <3> QED
      BY <1>1, <3>2
  <2>2. ASSUME NEW n \in 1 .. Finished(t) PROVE \E i \in DOMAIN all : all[i].from = t /\ all[i].n = n
    <3>1. PICK m \in ToSet(Taken) \cup ToSet(terminal) : m.from = t /\ m.n = n
      BY <1>0 DEF Once
    <3> QED
      BY <1>2, <3>1
  <2> QED
    BY <2>1, <2>2
<1>4. ASSUME NEW i \in DOMAIN all, NEW j \in DOMAIN all, i # j PROVE all[i] # all[j]
  <2>0. i \in Int /\ j \in Int
    BY <1>2
  <2>1. CASE i \in 1 .. Len(Taken) /\ j \in 1 .. Len(Taken)
    <3>1. all[i] = Taken[i] /\ all[j] = Taken[j] /\ (i < j \/ j < i)
      BY <1>1, <1>2, <1>4, <2>0, <2>1
    <3> QED
      BY <1>0, <2>1, <3>1 DEF InOrder
  <2>2. CASE i \notin 1 .. Len(Taken) /\ j \notin 1 .. Len(Taken)
    <3>1. i - Len(Taken) # j - Len(Taken)
      BY <1>1, <1>4, <2>0
    <3> QED
      BY <1>0, <1>2, <2>2, <3>1 DEF Once
  <2>3. CASE ~(i \in 1 .. Len(Taken) <=> j \in 1 .. Len(Taken))
    BY <1>0, <1>2, <2>3 DEF Once
  <2> QED
    BY <2>1, <2>2, <2>3
<1>5. \A i, j \in DOMAIN Taken : i < j /\ Taken[i].from = Taken[j].from => Taken[i].n < Taken[j].n
  BY <1>0, <1>1 DEF InOrder
<1>6. \A i \in DOMAIN terminal : terminal[i].waits => stop \/ starts > 1
  BY <1>0, <1>1 DEF FallenBack, ToSet
<1> QED
  BY <1>3, <1>4, <1>5, <1>6 DEF EveryMessageOnce, all

LEMMA NothingInHand == LogInv => JoinedMeansWritten
<1> SUFFICES ASSUME LogInv, owner = "down", starts > 0 PROVE Taken = file
  BY DEF JoinedMeansWritten
<1>1. log_queue = <<>> /\ InHand = <<>>
  BY DEF LogInv, Stops, InHand
<1>2. Taken = file \o (InHand \o log_queue) /\ file \in Seq(Messages)
  BY HandAndFile DEF LogInv, TakenTypes, Types
<1> HIDE DEF Taken, InHand
<1> QED
  BY <1>1, <1>2, EmptySeq, ConcatEmptySeq

-----------------------------------------------------------------------------
\* helper() and worker_loop(), async_logger.cpp: whatever the threads that log, a full
\* queue, a stop and a restart do, each message is in the file or on the terminal once,
\* in the order its thread logged it, and one that waits for room leaves the file out
\* only after a stop.
THEOREM NoMessageIsLost == Spec => []EveryMessageOnce
BY LogInvariance, OnceAndInOrder, PTL

\* shutdown(), async_logger.cpp:126: when it has joined the writer, the queue is empty
\* and nothing taken from it is unwritten.
THEOREM ShutdownDrains == Spec => []JoinedMeansWritten
BY LogInvariance, NothingInHand, PTL
=============================================================================
