----------------------------- MODULE IndexProofs ------------------------------
(***************************************************************************)
(* Facts about the index and the tree that the proofs about the way from   *)
(* one to the other rest on, for any tree: what a batch leaves in the      *)
(* tables when it is committed, what the GLOB pattern of mark_deleted()    *)
(* matches, which roots paths_overlap() keeps apart, what the common       *)
(* parent of a set of paths covers, and how a finite set is counted        *)
(* through.                                                                *)
(***************************************************************************)
EXTENDS TreeWalk, SequenceTheorems, FiniteSetTheorems, WellFoundedInduction, TLAPS

-----------------------------------------------------------------------------
(* Numbers *)

LEMMA HasMinimum ==
  ASSUME NEW T, T \subseteq Nat, IsFiniteSet(T), T # {}
  PROVE  \E x \in T : \A y \in T : x <= y
<1> DEFINE UpTo(x) == {y \in T : y <= x}
           U == {UpTo(x) : x \in T}
<1>1. U \subseteq FiniteSubsetsOf(T) /\ U # {}
  <2>1. ASSUME NEW x \in T PROVE UpTo(x) \in SUBSET T /\ IsFiniteSet(UpTo(x))
    <3>1. UpTo(x) \in SUBSET T
      OBVIOUS
    <3> QED
      BY <3>1, FS_Subset
  <2> QED
    BY <2>1 DEF FiniteSubsetsOf
<1>2. IsWellFoundedOn(StrictSubsetOrdering(T), FiniteSubsetsOf(T))
  BY FS_StrictSubsetOrderingWellFounded
<1>3. \E u \in U : \A v \in U : ~ (<<v, u>> \in StrictSubsetOrdering(T))
  <2> DEFINE R == StrictSubsetOrdering(T)  S == FiniteSubsetsOf(T)
  <2>1. IsWellFoundedOn(R, S) /\ U \subseteq S /\ U # {}
    BY <1>1, <1>2
  <2> HIDE DEF U, R, S
  <2>2. \E u \in U : \A v \in U : ~ (<<v, u>> \in R)
    BY <2>1, WFMin
  <2> QED
    BY <2>2 DEF R
<1>4. PICK x \in T : \A v \in U : ~ (<<v, UpTo(x)>> \in StrictSubsetOrdering(T))
  BY <1>3
<1>5. ASSUME NEW z \in T, z < x PROVE FALSE
  <2>0. \A y \in T : y \in Nat
    OBVIOUS
  <2>1. UpTo(z) \subseteq UpTo(x) /\ x \notin UpTo(z) /\ x \in UpTo(x)
    <3>1. x <= x /\ ~(x <= z) /\ \A y \in T : y <= z => y <= x
      BY <1>5, <2>0
    <3> QED
      BY <3>1
  <2>2. <<UpTo(z), UpTo(x)>> \in StrictSubsetOrdering(T)
    BY <2>1 DEF StrictSubsetOrdering
  <2> QED
    BY <1>4, <2>2
<1> QED
  BY <1>5

LEMMA HasMaximum ==
  ASSUME NEW N \in Nat, NEW T, T \subseteq 0..N, T # {}
  PROVE  \E x \in T : \A y \in T : x >= y
<1> DEFINE U == {N - x : x \in T}
<1>1. U \subseteq 0..N /\ U # {}
  <2>1. \A x \in T : N - x \in 0..N
    OBVIOUS
  <2> QED
    BY <2>1
<1>2. IsFiniteSet(U) /\ U \subseteq Nat
  <2>1. IsFiniteSet(0..N) /\ 0..N \subseteq Nat
    BY FS_Interval
  <2> HIDE DEF U
  <2> QED
    BY <1>1, <2>1, FS_Subset
<1>3. PICK u \in U : \A v \in U : u <= v
  <2> HIDE DEF U
  <2> QED
    BY <1>1, <1>2, HasMinimum
<1>4. PICK x \in T : u = N - x
  BY <1>3
<1>5. ASSUME NEW y \in T PROVE x >= y
  <2>1. N - y \in U /\ x \in 0..N /\ y \in 0..N
    OBVIOUS
  <2>2. N - x <= N - y
    BY <1>3, <1>4, <2>1
  <2> HIDE DEF U
  <2> QED
    BY <2>1, <2>2
<1> QED
  BY <1>5

LEMMA IsMax ==
  ASSUME NEW N \in Nat, NEW T, T \subseteq 0..N, T # {}
  PROVE  Max(T) \in T /\ \A y \in T : Max(T) >= y
BY HasMaximum DEF Max

LEMMA MaxIs ==
  ASSUME NEW N \in Nat, NEW T, T \subseteq 0..N, NEW x \in T, \A y \in T : x >= y
  PROVE  Max(T) = x
<1>1. Max(T) \in T /\ Max(T) >= x
  BY IsMax
<1>2. \A y \in T : y \in Nat
  OBVIOUS
<1>3. x >= Max(T) /\ x \in Nat /\ Max(T) \in Nat
  BY <1>1, <1>2
<1> QED
  BY <1>1, <1>3

\* Induction over numbers, for a set of them.
LEMMA StepByStep ==
  ASSUME NEW N \in Nat, NEW Good, 0 \in Good, \A k \in 0 .. N - 1 : k \in Good => k + 1 \in Good
  PROVE  \A k \in 0 .. N : k \in Good
<1> SUFFICES ASSUME (0 .. N) \ Good # {} PROVE FALSE
  OBVIOUS
<1>1. IsFiniteSet((0 .. N) \ Good) /\ (0 .. N) \ Good \subseteq Nat
  <2>1. IsFiniteSet(0 .. N) /\ (0 .. N) \ Good \subseteq 0 .. N
    BY FS_Interval
  <2>2. (0 .. N) \ Good \subseteq Nat
    OBVIOUS
  <2> QED
    BY <2>1, <2>2, FS_Subset
<1>2. PICK x \in (0 .. N) \ Good : \A y \in (0 .. N) \ Good : x <= y
  BY <1>1, HasMinimum
<1>3. x # 0 /\ x - 1 \in 0 .. N - 1
  BY <1>2
<1>4. x - 1 \in Good
  BY <1>2, <1>3
<1> QED
  BY <1>2, <1>3, <1>4

-----------------------------------------------------------------------------
(* A transaction of upserts, event by event *)

Iterates(it, base, s, k) ==
  it = [T \in SUBSET (1 .. k) |->
          IF T = {} THEN base ELSE upsert(it[T \ {Max(T)}], s[Max(T)])]

LEMMA Iteration ==
  ASSUME NEW N \in Nat, NEW base, NEW s
  PROVE  \E it : Iterates(it, base, s, N)
<1> DEFINE Good == {k \in 0 .. N : \E it : Iterates(it, base, s, k)}
<1> USE DEF Iterates
<1>1. 0 \in Good
  <2> DEFINE it == [T \in SUBSET (1 .. 0) |-> base]
  <2>1. \A T \in SUBSET (1 .. 0) : T = {}
    OBVIOUS
  <2>2. Iterates(it, base, s, 0)
    BY <2>1
  <2> HIDE DEF Iterates, it
  <2> QED
    BY <2>2
<1>2. ASSUME NEW k \in 0 .. N - 1, k \in Good PROVE k + 1 \in Good
  <2>1. PICK it : Iterates(it, base, s, k)
    BY <1>2
  <2> DEFINE jt == [T \in SUBSET (1 .. k + 1) |->
                      IF k + 1 \in T THEN upsert(it[T \ {k + 1}], s[k + 1]) ELSE it[T]]
  <2>2. ASSUME NEW T \in SUBSET (1 .. k + 1), T # {}
        PROVE  jt[T] = upsert(jt[T \ {Max(T)}], s[Max(T)])
    <3>1. CASE k + 1 \in T
      <4>1. T \subseteq 0 .. k + 1 /\ k + 1 \in Nat /\ \A y \in T : k + 1 >= y
        OBVIOUS
      <4>2. Max(T) = k + 1
        BY <3>1, <4>1, MaxIs
      <4>3. T \ {k + 1} \in SUBSET (1 .. k + 1) /\ k + 1 \notin T \ {k + 1}
        OBVIOUS
      <4>4. jt[T \ {k + 1}] = it[T \ {k + 1}]
        BY <4>3
      <4> HIDE DEF upsert
      <4> QED
        BY <3>1, <4>2, <4>4
    <3>2. CASE k + 1 \notin T
      <4>1. T \in SUBSET (1 .. k) /\ T \ {Max(T)} \in SUBSET (1 .. k + 1) /\ k + 1 \notin T \ {Max(T)}
        <5>1. T \in SUBSET (1 .. k) /\ SUBSET (1 .. k) \subseteq SUBSET (1 .. k + 1)
          BY <3>2
        <5>2. \A m : T \ {m} \in SUBSET (1 .. k) /\ k + 1 \notin T \ {m}
          BY <3>2, <5>1
        <5> QED
          BY <5>1, <5>2
      <4>2. jt[T] = it[T] /\ jt[T \ {Max(T)}] = it[T \ {Max(T)}]
        BY <3>2, <4>1
      <4>3. it[T] = upsert(it[T \ {Max(T)}], s[Max(T)])
        BY <2>1, <2>2, <4>1
      <4> HIDE DEF jt
      <4> QED
        BY <4>2, <4>3
    <3> QED
      BY <3>1, <3>2
  <2>3. jt[{}] = base
    <3>1. {} \in SUBSET (1 .. k) /\ {} \in SUBSET (1 .. k + 1) /\ k + 1 \notin {}
      OBVIOUS
    <3>2. it[{}] = base
      BY <2>1, <3>1
    <3> QED
      BY <3>1, <3>2
  <2>4. jt = [T \in SUBSET (1 .. k + 1) |-> jt[T]]
    OBVIOUS
  <2> HIDE DEF jt
  <2>5. Iterates(jt, base, s, k + 1)
    <3> HIDE DEF upsert
    <3> QED
      BY <2>2, <2>3, <2>4
  <2> HIDE DEF Iterates
  <2> QED
    BY <2>5
<1> HIDE DEF Good
<1>3. N \in Good
  BY <1>1, <1>2, StepByStep
<1> QED
  BY <1>3 DEF Good

\* The states of the index tables, from those before to those after the events.
Steps(g, s) == \A k \in 1 .. Len(s) : g[k] = upsert(g[k - 1], s[k])

LEMMA FoldSteps ==
  ASSUME NEW base, NEW S, NEW s \in Seq(S)
  PROVE  \E g : /\ g[0] = base /\ Steps(g, s)
                /\ FoldLeft(upsert, base, s) = g[Len(s)]
<1> HIDE DEF upsert
<1>0. Len(s) \in Nat /\ DOMAIN s = 1 .. Len(s)
  BY LenProperties
<1> DEFINE it == CHOOSE it : Iterates(it, base, s, Len(s))
<1>1. FoldLeft(upsert, base, s) = it[1 .. Len(s)]
  BY <1>0, Zenon DEF FoldLeft, MapThenFoldSet, Iterates
<1>2. Iterates(it, base, s, Len(s))
  BY <1>0, Iteration
<1> HIDE DEF it
<1> DEFINE g == [k \in 0 .. Len(s) |-> it[1 .. k]]
<1>3. g[0] = base
  <2>1. 1 .. 0 = {} /\ {} \in SUBSET (1 .. Len(s)) /\ 0 \in 0 .. Len(s)
    BY <1>0
  <2>2. it[{}] = base
    BY <1>2, <2>1 DEF Iterates
  <2> QED
    BY <2>1, <2>2
<1>4. ASSUME NEW k \in 1 .. Len(s) PROVE g[k] = upsert(g[k - 1], s[k])
  <2>0. (1 .. k) \ {k} = 1 .. k - 1
    BY <1>0
  <2>1. /\ 1 .. k \in SUBSET (1 .. Len(s)) /\ 1 .. k # {}
        /\ 1 .. k \subseteq 0 .. k /\ k \in 1 .. k /\ \A y \in 1 .. k : k >= y
        /\ k \in Nat /\ k \in 0 .. Len(s) /\ k - 1 \in 0 .. Len(s)
    BY SMTT(30), <1>0
  <2>2. Max(1 .. k) = k
    BY <2>1, MaxIs
  <2>3. it[1 .. k] = upsert(it[(1 .. k) \ {Max(1 .. k)}], s[Max(1 .. k)])
    BY <1>2, <2>1 DEF Iterates
  <2> QED
    BY <2>0, <2>1, <2>2, <2>3
<1>5. g[Len(s)] = it[1 .. Len(s)]
  BY <1>0
<1> HIDE DEF g
<1> QED
  BY <1>1, <1>3, <1>4, <1>5 DEF Steps

\* The row that an event becomes, and its entry of the history.
EventRow(e) == [id |-> e.id, fp |-> e.fp, state |-> IF e.err THEN "Error" ELSE "Alive"]
EventEntry(e) == [fp |-> e.fp, state |-> IF e.err THEN "Error" ELSE "Alive"]

LEMMA Upserted ==
  ASSUME NEW index, NEW e
  PROVE  /\ upsert(index, e).current = Put(e.path, EventRow(e), index.current)
         /\ upsert(index, e).history =
              IF same_fingerprint(index.current, e) THEN index.history
              ELSE Insert([k \in {<<e.id, e.path>>} |-> EventEntry(e)], index.history)
<1> DEFINE entry == EventEntry(e)  row == EventRow(e)
<1>1. upsert(index, e) =
        [current |-> Put(e.path, row, index.current),
         history |-> IF same_fingerprint(index.current, e) THEN index.history
                     ELSE Insert([k \in {<<e.id, e.path>>} |-> entry], index.history)]
  BY DEF upsert, event_state, EventRow, EventEntry
<1> HIDE DEF entry, row
<1>2. \A c, h : [current |-> c, history |-> h].current = c /\ [current |-> c, history |-> h].history = h
  OBVIOUS
<1> QED
  BY <1>1, <1>2 DEF entry, row

\* What a commit makes of the two tables: each path has the row of its last
\* event, and entries of the history are only added.
CommitEffect(events) ==
  /\ DOMAIN index_current' = DOMAIN index_current \cup {e.path : e \in ToSet(events)}
  /\ \A p \in DOMAIN index_current' :
       \/ \E e \in ToSet(events) : e.path = p /\ index_current'[p] = EventRow(e)
       \/ /\ p \in DOMAIN index_current /\ index_current'[p] = index_current[p]
          /\ \A e \in ToSet(events) : e.path # p
  /\ \A k \in DOMAIN index_history :
       k \in DOMAIN index_history' /\ index_history'[k] = index_history[k]
  /\ \A k \in DOMAIN index_history' \ DOMAIN index_history :
       \E e \in ToSet(events) : k = <<e.id, e.path>> /\ index_history'[k] = EventEntry(e)
  /\ UNCHANGED <<scan_task_table, scan_diff_table>>

LEMMA Committed ==
  ASSUME NEW S, NEW events \in Seq(S), commit(events)
  PROVE  CommitEffect(events)
<1> USE DEF CommitEffect
<1> DEFINE N == Len(events)
<1>0. N \in Nat /\ DOMAIN events = 1 .. N
  BY LenProperties
<1>1. PICK g : /\ g[0] = [current |-> index_current, history |-> index_history]
               /\ Steps(g, events)
               /\ index_current' = g[N].current /\ index_history' = g[N].history
  <2> DEFINE base == [current |-> index_current, history |-> index_history]
  <2>1. PICK g : g[0] = base /\ Steps(g, events) /\ FoldLeft(upsert, base, events) = g[N]
    BY FoldSteps
  <2>2. /\ index_current' = FoldLeft(upsert, base, events).current
        /\ index_history' = FoldLeft(upsert, base, events).history
    BY DEF commit
  <2> QED
    BY <2>1, <2>2
<1>2. g[0].current = index_current /\ g[0].history = index_history
  BY <1>1
<1>3. ASSUME NEW k \in 0 .. N - 1
      PROVE  /\ g[k + 1].current = Put(events[k + 1].path, EventRow(events[k + 1]), g[k].current)
             /\ \/ g[k + 1].history = g[k].history
                \/ g[k + 1].history =
                     Insert([j \in {<<events[k + 1].id, events[k + 1].path>>} |->
                               EventEntry(events[k + 1])], g[k].history)
  <2>1. k + 1 \in 1 .. Len(events) /\ (k + 1) - 1 = k
    BY <1>0
  <2>2. g[k + 1] = upsert(g[k], events[k + 1])
    BY <1>1, <2>1 DEF Steps
  <2> QED
    BY <2>2, Upserted
<1> DEFINE CurrentOf(k) ==
      /\ DOMAIN g[k].current = DOMAIN index_current \cup {events[i].path : i \in 1 .. k}
      /\ \A p \in DOMAIN g[k].current :
           \/ \E i \in 1 .. k : events[i].path = p /\ g[k].current[p] = EventRow(events[i])
           \/ /\ p \in DOMAIN index_current /\ g[k].current[p] = index_current[p]
              /\ \A i \in 1 .. k : events[i].path # p
<1>4. CurrentOf(N)
  <2> DEFINE Good == {k \in 0 .. N : CurrentOf(k)}
  <2>1. 0 \in Good
    BY <1>0, <1>2
  <2>2. ASSUME NEW k \in 0 .. N - 1, k \in Good PROVE k + 1 \in Good
    <3> DEFINE e == events[k + 1]
    <3>1. /\ 1 .. k + 1 = (1 .. k) \cup {k + 1} /\ k + 1 \in 0 .. N
          /\ DOMAIN g[k].current = DOMAIN index_current \cup {events[i].path : i \in 1 .. k}
      BY <1>0, <2>2
    <3>2. /\ DOMAIN g[k + 1].current = DOMAIN g[k].current \cup {e.path}
          /\ g[k + 1].current[e.path] = EventRow(e)
          /\ \A p \in DOMAIN g[k].current : p # e.path => g[k + 1].current[p] = g[k].current[p]
      BY <1>3 DEF Put
    <3>3. DOMAIN g[k + 1].current = DOMAIN index_current \cup {events[i].path : i \in 1 .. k + 1}
      BY <3>1, <3>2
    <3>4. ASSUME NEW p \in DOMAIN g[k + 1].current
          PROVE  \/ \E i \in 1 .. k + 1 : events[i].path = p /\ g[k + 1].current[p] = EventRow(events[i])
                 \/ /\ p \in DOMAIN index_current /\ g[k + 1].current[p] = index_current[p]
                    /\ \A i \in 1 .. k + 1 : events[i].path # p
      <4>1. CASE p = e.path
        BY <3>1, <3>2, <4>1
      <4>2. CASE p # e.path
        <5>1. p \in DOMAIN g[k].current /\ g[k + 1].current[p] = g[k].current[p]
          BY <3>2, <4>2
        <5>2. \/ \E i \in 1 .. k : events[i].path = p /\ g[k].current[p] = EventRow(events[i])
              \/ /\ p \in DOMAIN index_current /\ g[k].current[p] = index_current[p]
                 /\ \A i \in 1 .. k : events[i].path # p
          BY <2>2, <5>1
        <5> QED
          BY <3>1, <4>2, <5>1, <5>2
      <4> QED
        BY <4>1, <4>2
    <3> QED
      BY <3>1, <3>3, <3>4
  <2> HIDE DEF Good, N
  <2>3. \A k \in 0 .. N : k \in Good
    BY <1>0, <2>1, <2>2, StepByStep
  <2>4. N \in 0 .. N
    BY <1>0
  <2> QED
    BY <2>3, <2>4 DEF Good
<1> DEFINE HistoryOf(k) ==
      /\ \A j \in DOMAIN index_history :
           j \in DOMAIN g[k].history /\ g[k].history[j] = index_history[j]
      /\ \A j \in DOMAIN g[k].history \ DOMAIN index_history :
           \E i \in 1 .. k : /\ j = <<events[i].id, events[i].path>>
                             /\ g[k].history[j] = EventEntry(events[i])
<1>5. HistoryOf(N)
  <2> DEFINE Good == {k \in 0 .. N : HistoryOf(k)}
  <2>1. 0 \in Good
    BY <1>0, <1>2
  <2>2. ASSUME NEW k \in 0 .. N - 1, k \in Good PROVE k + 1 \in Good
    <3> DEFINE e == events[k + 1]
               key == <<e.id, e.path>>
    <3>1. 1 .. k + 1 = (1 .. k) \cup {k + 1} /\ k + 1 \in 0 .. N
      BY <1>0
    <3>2. \A j \in DOMAIN g[k].history :
            j \in DOMAIN g[k + 1].history /\ g[k + 1].history[j] = g[k].history[j]
      <4> HIDE DEF e
      <4>1. \/ g[k + 1].history = g[k].history
            \/ g[k + 1].history = Insert([j \in {key} |-> EventEntry(e)], g[k].history)
        BY <1>3 DEF e
      <4> HIDE DEF key
      <4> QED
        BY <4>1 DEF Insert
    <3>3. \A j \in DOMAIN g[k + 1].history \ DOMAIN g[k].history :
            j = key /\ g[k + 1].history[j] = EventEntry(e)
      <4> HIDE DEF e
      <4>1. \/ g[k + 1].history = g[k].history
            \/ g[k + 1].history = Insert([j \in {key} |-> EventEntry(e)], g[k].history)
        BY <1>3 DEF e
      <4> HIDE DEF key
      <4> QED
        BY <4>1 DEF Insert
    <3>4. HistoryOf(k)
      BY <2>2
    <3>5. HistoryOf(k + 1)
      BY <3>1, <3>2, <3>3, <3>4
    <3> HIDE DEF HistoryOf
    <3> QED
      BY <3>1, <3>5
  <2> HIDE DEF Good, N
  <2>3. \A k \in 0 .. N : k \in Good
    BY <1>0, <2>1, <2>2, StepByStep
  <2>4. N \in 0 .. N
    BY <1>0
  <2> QED
    BY <2>3, <2>4 DEF Good
<1>6. \A x : x \in ToSet(events) <=> \E i \in 1 .. N : x = events[i]
  BY <1>0 DEF ToSet
<1>7. UNCHANGED <<scan_task_table, scan_diff_table>>
  BY DEF commit
<1> HIDE DEF N
<1>8. /\ DOMAIN index_current' = DOMAIN index_current \cup {events[i].path : i \in 1 .. N}
      /\ {events[i].path : i \in 1 .. N} = {e.path : e \in ToSet(events)}
  BY <1>1, <1>4, <1>6
<1> QED
  BY <1>1, <1>4, <1>5, <1>6, <1>7, <1>8

KeyOf(e) == <<e.id, e.path>>

\* Events of different paths, none with an entry yet, are entered exactly when
\* the fingerprint is another than before the transaction.
LEMMA CommittedOnce ==
  ASSUME NEW S, NEW events \in Seq(S), commit(events),
         \A i, j \in 1 .. Len(events) : i # j => events[i].path # events[j].path,
         \A i \in 1 .. Len(events) : KeyOf(events[i]) \notin DOMAIN index_history
  PROVE  \A i \in 1 .. Len(events) :
           KeyOf(events[i]) \in DOMAIN index_history' <=> ~same_fingerprint(index_current, events[i])
<1> DEFINE N == Len(events)
           base == [current |-> index_current, history |-> index_history]
<1>0. N \in Nat /\ DOMAIN events = 1 .. N
  BY LenProperties
<1>1. PICK g : g[0] = base /\ Steps(g, events) /\ FoldLeft(upsert, base, events) = g[N]
  BY FoldSteps
<1>2. /\ g[0].current = index_current /\ g[0].history = index_history
      /\ index_history' = g[N].history
  BY <1>1 DEF commit
<1> DEFINE Ahead(k, i) ==
      /\ events[i].path \in DOMAIN g[k].current <=> events[i].path \in DOMAIN index_current
      /\ events[i].path \in DOMAIN index_current =>
           g[k].current[events[i].path] = index_current[events[i].path]
      /\ KeyOf(events[i]) \notin DOMAIN g[k].history
           Behind(k, i) ==
      KeyOf(events[i]) \in DOMAIN g[k].history <=> ~same_fingerprint(index_current, events[i])
           Good == {k \in 0 .. N : \A i \in 1 .. N : IF i > k THEN Ahead(k, i) ELSE Behind(k, i)}
<1>3. 0 \in Good
  <2>1. \A i \in 1 .. N : i > 0 /\ Ahead(0, i)
    BY <1>2
  <2> QED
    BY <1>0, <2>1
<1>4. ASSUME NEW k \in 0 .. N - 1, k \in Good PROVE k + 1 \in Good
  <2> DEFINE e == events[k + 1]
  <2>1. k + 1 \in 1 .. N /\ k + 1 \in 0 .. N /\ (k + 1) - 1 = k /\ k + 1 > k
    BY <1>0
  <2>2. Ahead(k, k + 1)
    BY <1>4, <2>1
  <2>3. g[k + 1] = upsert(g[k], e)
    BY <1>1, <2>1 DEF Steps
  <2> HIDE DEF e
  <2>4. /\ g[k + 1].current = Put(e.path, EventRow(e), g[k].current)
        /\ g[k + 1].history = IF same_fingerprint(g[k].current, e) THEN g[k].history
                              ELSE Insert([j \in {KeyOf(e)} |-> EventEntry(e)], g[k].history)
    BY <2>3, Upserted DEF KeyOf
  <2>5. same_fingerprint(g[k].current, e) <=> same_fingerprint(index_current, e)
    BY <2>2 DEF same_fingerprint, e
  <2>6. DOMAIN g[k + 1].history = IF same_fingerprint(index_current, e) THEN DOMAIN g[k].history
                                  ELSE DOMAIN g[k].history \cup {KeyOf(e)}
    BY <2>4, <2>5 DEF Insert
  <2>7. ASSUME NEW i \in 1 .. N PROVE IF i > k + 1 THEN Ahead(k + 1, i) ELSE Behind(k + 1, i)
    <3>1. IF i > k THEN Ahead(k, i) ELSE Behind(k, i)
      BY <1>4
    <3>2. CASE i = k + 1
      <4>1. Behind(k + 1, i)
        BY <2>2, <2>6, <3>2 DEF e
      <4> QED
        BY <2>1, <3>2, <4>1
    <3>3. CASE i # k + 1
      <4>1. events[i].path # e.path /\ KeyOf(events[i]) # KeyOf(e)
        BY <2>1, <3>3 DEF e, KeyOf
      <4>2. KeyOf(events[i]) \in DOMAIN g[k + 1].history <=> KeyOf(events[i]) \in DOMAIN g[k].history
        BY <2>6, <4>1
      <4>3. /\ events[i].path \in DOMAIN g[k + 1].current <=> events[i].path \in DOMAIN g[k].current
            /\ events[i].path \in DOMAIN g[k].current =>
                 g[k + 1].current[events[i].path] = g[k].current[events[i].path]
        BY <2>4, <4>1 DEF Put
      <4>4. CASE i > k + 1
        <5>1. i > k
          BY <1>0, <4>4
        <5>2. Ahead(k, i)
          BY <3>1, <5>1
        <5>3. Ahead(k + 1, i)
          BY <4>2, <4>3, <5>2
        <5> QED
          BY <4>4, <5>3
      <4>5. CASE ~(i > k + 1)
        <5>1. ~(i > k)
          BY <1>0, <3>3, <4>5
        <5> QED
          BY <3>1, <4>2, <4>5, <5>1
      <4> QED
        BY <4>4, <4>5
    <3> QED
      BY <3>2, <3>3
  <2> QED
    BY <2>1, <2>7
<1> HIDE DEF Good, N
<1>5. N \in Good
  <2>1. \A k \in 0 .. N : k \in Good
    BY <1>0, <1>3, <1>4, StepByStep
  <2> QED
    BY <1>0, <2>1
<1> QED
  <2>1. \A i \in 1 .. N : ~(i > N)
    BY <1>0
  <2>2. \A i \in 1 .. N : Behind(N, i)
    BY <1>5, <2>1 DEF Good
  <2> QED
    BY <1>2, <2>2 DEF N

-----------------------------------------------------------------------------
(* Texts of paths, and what lies below what *)

\* A text goes on after another and a '/', byte by byte.
InDir(dir, text) ==
  /\ Len(dir) < Len(text) /\ text[Len(dir) + 1] = Slash
  /\ \A i \in 1 .. Len(dir) : text[i] = dir[i]

LEMMA PrefixIs ==
  ASSUME NEW S, NEW s \in Seq(S), NEW t \in Seq(S)
  PROVE  IsPrefix(s, t) <=> Len(s) <= Len(t) /\ \A i \in 1 .. Len(s) : t[i] = s[i]
<1>0. Len(s) \in Nat /\ Len(t) \in Nat /\ DOMAIN t = 1 .. Len(t)
  BY LenProperties
<1>1. SubSeq(s, 1, Len(s)) = s
  BY SubSeqFull
<1>2. ASSUME Len(s) <= Len(t)
      PROVE  SubSeq(s, 1, Len(s)) = SubSeq(t, 1, Len(s)) <=> \A i \in 1 .. Len(s) : t[i] = s[i]
  <2> DEFINE u == SubSeq(t, 1, Len(s))
  <2>1. \A i \in 1 .. Len(s) : t[i] \in S
    BY <1>0, <1>2, ElementOfSeq
  <2>2. 1 \in Int /\ Len(s) \in Int /\ 1 .. Len(s) - 1 + 1 = 1 .. Len(s)
    BY <1>0
  <2>3. u \in Seq(S) /\ Len(u) = Len(s)
    BY <1>0, <2>1, <2>2, SubSeqProperties
  <2>4. \A i \in 1 .. Len(s) : u[i] = t[i]
    <3>1. \A i \in 1 .. Len(s) - 1 + 1 : u[i] = t[1 + i - 1]
      BY <2>1, <2>2, SubSeqProperties
    <3> HIDE DEF u
    <3> QED
      BY <1>0, <2>2, <3>1
  <2> HIDE DEF u
  <2>5. (\A i \in 1 .. Len(s) : t[i] = s[i]) => s = u
    <3>1. (\A i \in 1 .. Len(s) : t[i] = s[i]) => \A i \in 1 .. Len(s) : s[i] = u[i]
      BY <2>4
    <3> QED
      BY <2>3, <3>1, SeqEqual
  <2> QED
    BY <1>1, <2>4, <2>5 DEF u
<1> QED
  BY <1>2 DEF IsPrefix

LEMMA Slashed ==
  ASSUME NEW dir \in Texts, NEW text \in Texts
  PROVE  /\ IsPrefix(dir \o <<Slash>>, text) <=> InDir(dir, text)
         /\ GLOB(text, glob_pattern(dir)) <=> InDir(dir, text)
<1>0. dir \in Seq(1 .. 255) /\ text \in Seq(1 .. 255) /\ Len(dir) \in Nat /\ Len(text) \in Nat
  BY LenProperties DEF Texts
<1>1. <<Slash>> \in Seq(1 .. 255) /\ <<Slash, Star>> \in Seq(1 .. 255)
      /\ Len(<<Slash>>) = 1 /\ Len(<<Slash, Star>>) = 2
  BY DEF Slash, Star
<1>2. <<Slash>>[1] = Slash /\ <<Slash, Star>>[1] = Slash
  OBVIOUS
<1> DEFINE s == dir \o <<Slash>>  pattern == dir \o <<Slash, Star>>
<1>3. /\ s \in Seq(1 .. 255) /\ Len(s) = Len(dir) + 1
      /\ \A i \in 1 .. Len(dir) + 1 : s[i] = IF i <= Len(dir) THEN dir[i] ELSE <<Slash>>[i - Len(dir)]
  BY <1>0, <1>1, ConcatProperties
<1>4. /\ pattern \in Seq(1 .. 255) /\ Len(pattern) = Len(dir) + 2
      /\ \A i \in 1 .. Len(dir) + 2 :
           pattern[i] = IF i <= Len(dir) THEN dir[i] ELSE <<Slash, Star>>[i - Len(dir)]
  BY <1>0, <1>1, ConcatProperties
<1> HIDE DEF s, pattern
<1>5. \A i \in 1 .. Len(dir) : s[i] = dir[i] /\ pattern[i] = dir[i]
  BY <1>0, <1>3, <1>4
<1>6. s[Len(dir) + 1] = Slash /\ pattern[Len(dir) + 1] = Slash
  <2>1. Len(dir) + 1 \in 1 .. Len(dir) + 1 /\ Len(dir) + 1 \in 1 .. Len(dir) + 2
        /\ ~(Len(dir) + 1 <= Len(dir)) /\ Len(dir) + 1 - Len(dir) = 1
    BY <1>0
  <2> QED
    BY <1>2, <1>3, <1>4, <2>1
<1>7. IsPrefix(s, text) <=> InDir(dir, text)
  <2>1. IsPrefix(s, text) <=> Len(s) <= Len(text) /\ \A i \in 1 .. Len(s) : text[i] = s[i]
    BY <1>0, <1>3, PrefixIs
  <2>2. 1 .. Len(s) = (1 .. Len(dir)) \cup {Len(dir) + 1}
        /\ (Len(s) <= Len(text) <=> Len(dir) < Len(text))
    BY <1>0, <1>3
  <2> QED
    BY <1>5, <1>6, <2>1, <2>2 DEF InDir
<1>8. Front(pattern) = s
  <2>0. 1 \in Int /\ Len(pattern) - 1 \in Int /\ Len(pattern) - 1 = Len(dir) + 1
    BY <1>0, <1>4
  <2>1. \A i \in 1 .. Len(pattern) - 1 : pattern[i] \in 1 .. 255
    <3>1. \A i \in 1 .. Len(pattern) : pattern[i] \in 1 .. 255
      BY <1>0, <1>4, ElementOfSeq
    <3>2. \A i \in 1 .. Len(pattern) - 1 : i \in 1 .. Len(pattern)
      BY <1>0, <1>4
    <3> QED
      BY <3>1, <3>2
  <2>2. /\ SubSeq(pattern, 1, Len(pattern) - 1) \in Seq(1 .. 255)
        /\ Len(SubSeq(pattern, 1, Len(pattern) - 1)) =
             IF 1 <= Len(pattern) - 1 THEN Len(pattern) - 1 - 1 + 1 ELSE 0
        /\ \A i \in 1 .. Len(pattern) - 1 - 1 + 1 :
             SubSeq(pattern, 1, Len(pattern) - 1)[i] = pattern[1 + i - 1]
    BY <2>0, <2>1, SubSeqProperties
  <2> DEFINE t == SubSeq(pattern, 1, Len(pattern) - 1)
  <2>3. /\ t \in Seq(1 .. 255) /\ Len(t) = Len(s)
        /\ \A i \in 1 .. Len(s) : t[i] = pattern[i]
    BY <1>0, <1>3, <2>0, <2>2
  <2> HIDE DEF t
  <2>4. 1 .. Len(s) = (1 .. Len(dir)) \cup {Len(dir) + 1}
    BY <1>0, <1>3
  <2>5. \A i \in 1 .. Len(s) : s[i] = t[i]
    BY <1>5, <1>6, <2>3, <2>4
  <2>6. s = t
    BY <1>3, <2>3, <2>5, SeqEqual
  <2> QED
    BY <2>6 DEF Front, t
<1> QED
  BY <1>7, <1>8 DEF GLOB, glob_pattern, s, pattern

\* Two texts that go on as a third one does go on as each other, or are one.
LEMMA Comparable ==
  ASSUME NEW s \in Texts, NEW t \in Texts, NEW text \in Texts,
         InDir(s, text), InDir(t, text) \/ t = text
  PROVE  paths_overlap(s, t)
<1>0. /\ s \in Seq(1 .. 255) /\ t \in Seq(1 .. 255)
      /\ Len(s) \in Nat /\ Len(t) \in Nat
  BY LenProperties DEF Texts
<1>1. CASE t = text
  BY <1>1, Slashed DEF paths_overlap
<1>2. CASE InDir(t, text) /\ Len(s) < Len(t)
  <2>1. Len(s) + 1 \in 1 .. Len(t) /\ \A i \in 1 .. Len(s) : i \in 1 .. Len(t)
    BY <1>0, <1>2
  <2>2. InDir(s, t)
    BY <1>2, <2>1 DEF InDir
  <2> QED
    BY <2>2, Slashed DEF paths_overlap
<1>3. CASE InDir(t, text) /\ Len(t) < Len(s)
  <2>1. Len(t) + 1 \in 1 .. Len(s) /\ \A i \in 1 .. Len(t) : i \in 1 .. Len(s)
    BY <1>0, <1>3
  <2>2. InDir(t, s)
    BY <1>3, <2>1 DEF InDir
  <2> QED
    BY <2>2, Slashed DEF paths_overlap
<1>4. CASE InDir(t, text) /\ Len(t) = Len(s)
  <2>1. \A i \in 1 .. Len(s) : s[i] = t[i]
    BY <1>4 DEF InDir
  <2>2. s = t
    BY <1>0, <1>4, <2>1, SeqEqual
  <2> QED
    BY <2>2 DEF paths_overlap
<1> QED
  BY <1>0, <1>1, <1>2, <1>3, <1>4

\* What precedes the last '/' of a text, if that is something.
LEMMA LastSlash ==
  ASSUME NEW dir \in Texts \ {<<>>}, NEW text \in Texts, before_last_slash(text) = dir
  PROVE  InDir(dir, text) /\ \A i \in Len(dir) + 2 .. Len(text) : text[i] # Slash
<1> DEFINE I == {i \in 1 .. Len(text) : text[i] = Slash}
           last == IF I # {} THEN Max(I) ELSE 0
<1>0. /\ dir \in Seq(1 .. 255) /\ text \in Seq(1 .. 255)
      /\ Len(dir) \in Nat \ {0} /\ Len(text) \in Nat
  BY LenProperties, EmptySeq DEF Texts
<1>1. dir = SubSeq(text, 1, last - 1)
  BY Zenon DEF before_last_slash, SelectLastInSeq
<1>2. I # {}
  <2> SUFFICES ASSUME I = {} PROVE FALSE
    OBVIOUS
  <2>1. last = 0
    OBVIOUS
  <2> HIDE DEF last
  <2>2. last - 1 < 1 /\ 1 \in Int /\ last - 1 \in Int
    BY <2>1
  <2>3. dir = <<>>
    BY <1>1, <2>2, SubSeqEmpty
  <2> QED
    BY <2>3
<1>3. last \in I /\ \A i \in I : last >= i
  <2>1. I \subseteq 0 .. Len(text) /\ last = Max(I)
    BY <1>0, <1>2
  <2> HIDE DEF I, last
  <2> QED
    BY <1>0, <1>2, <2>1, IsMax
<1>4. last \in 1 .. Len(text) /\ text[last] = Slash
  <2> HIDE DEF last
  <2> QED
    BY <1>3
<1> HIDE DEF last
<1>5. \A i \in 1 .. Len(text) : text[i] = Slash => i <= last
  BY <1>3, <1>4
<1> HIDE DEF I
<1>6. /\ Len(dir) = IF 1 <= last - 1 THEN last - 1 - 1 + 1 ELSE 0
      /\ \A i \in 1 .. last - 1 - 1 + 1 : dir[i] = text[1 + i - 1]
  <2>1. \A i \in 1 .. last - 1 : text[i] \in 1 .. 255
    <3>1. \A i \in 1 .. Len(text) : text[i] \in 1 .. 255
      BY <1>0, <1>4, ElementOfSeq
    <3>2. \A i \in 1 .. last - 1 : i \in 1 .. Len(text)
      BY <1>0, <1>4
    <3> QED
      BY <3>1, <3>2
  <2>2. 1 \in Int /\ last - 1 \in Int
    BY <1>4
  <2> QED
    BY <1>1, <2>1, <2>2, SubSeqProperties
<1>7. last = Len(dir) + 1 /\ \A i \in 1 .. Len(dir) : text[i] = dir[i]
  BY <1>0, <1>4, <1>6
<1> QED
  BY <1>0, <1>4, <1>5, <1>7 DEF InDir


LEMMA TextsOfPaths ==
  ASSUME NEW p \in Paths
  PROVE  /\ TextOf[p] \in Texts \ {<<>>} /\ TextOf[p] \in Texts
         /\ Len(TextOf[p]) \in Nat \ {0}
BY PathsAssumption, LenProperties, EmptySeq DEF Texts

LEMMA BelowIs ==
  ASSUME NEW p \in Paths, NEW q \in Paths
  PROVE  q \in Below[p] <=> InDir(TextOf[p], TextOf[q])
<1>1. q \in Below[p] <=> GLOB(TextOf[q], glob_pattern(TextOf[p]))
  BY DEF Below
<1> QED
  BY <1>1, TextsOfPaths, Slashed

LEMMA BelowIsLonger ==
  ASSUME NEW p \in Paths, NEW q \in Below[p]
  PROVE  q \in Paths /\ Len(TextOf[p]) < Len(TextOf[q])
<1>1. q \in Paths
  BY DEF Below
<1> QED
  BY <1>1, BelowIs DEF InDir

LEMMA BelowBelow ==
  ASSUME NEW p \in Paths, NEW q \in Below[p], NEW r \in Below[q]
  PROVE  r \in Below[p]
<1>1. /\ q \in Paths /\ r \in Paths
      /\ Len(TextOf[p]) \in Nat /\ Len(TextOf[q]) \in Nat
  BY TextsOfPaths DEF Below
<1>2. InDir(TextOf[p], TextOf[q]) /\ InDir(TextOf[q], TextOf[r])
  BY <1>1, BelowIs
<1>3. /\ Len(TextOf[p]) + 1 \in 1 .. Len(TextOf[q])
      /\ \A i \in 1 .. Len(TextOf[p]) : i \in 1 .. Len(TextOf[q])
      /\ Len(TextOf[r]) \in Nat
  BY <1>1, <1>2, TextsOfPaths DEF InDir
<1>4. InDir(TextOf[p], TextOf[r])
  BY <1>1, <1>2, <1>3 DEF InDir
<1> QED
  BY <1>1, <1>4, BelowIs

LEMMA EntryIsBelow ==
  ASSUME NEW p \in Paths, NEW q \in Children[p]
  PROVE  /\ q \in Paths /\ q \in Below[p]
         /\ \A i \in Len(TextOf[p]) + 2 .. Len(TextOf[q]) : TextOf[q][i] # Slash
<1>1. q \in Paths /\ before_last_slash(TextOf[q]) = TextOf[p]
  BY TreeAssumption
<1>2. /\ InDir(TextOf[p], TextOf[q])
      /\ \A i \in Len(TextOf[p]) + 2 .. Len(TextOf[q]) : TextOf[q][i] # Slash
  BY <1>1, TextsOfPaths, LastSlash
<1> QED
  BY <1>1, <1>2, BelowIs

LEMMA OneDirectory ==
  ASSUME NEW p \in Paths, NEW s \in Paths, NEW q \in Children[p], q \in Children[s]
  PROVE  p = s
BY TreeAssumption, PathsAssumption

\* What is below a path is an entry of it or of a path below it.
LEMMA DirectoryBetween ==
  ASSUME NEW p \in Paths, NEW q \in Below[p], NEW s \in Paths, q \in Children[s]
  PROVE  s = p \/ s \in Below[p]
<1> DEFINE dir == TextOf[p]  up == TextOf[s]  text == TextOf[q]
<1>1. /\ q \in Paths /\ dir \in Texts /\ up \in Texts /\ text \in Texts
      /\ Len(dir) \in Nat /\ Len(up) \in Nat /\ Len(text) \in Nat
  BY TextsOfPaths DEF Below
<1>2. InDir(dir, text) /\ InDir(up, text) /\ \A i \in Len(up) + 2 .. Len(text) : text[i] # Slash
  BY <1>1, BelowIs, EntryIsBelow
<1>3. dir = up => p = s
  BY PathsAssumption
<1>4. InDir(dir, up) => s \in Below[p]
  BY BelowIs
<1> HIDE DEF dir, up, text
<1>5. ~(Len(up) < Len(dir))
  <2> SUFFICES ASSUME Len(up) < Len(dir) PROVE FALSE
    OBVIOUS
  <2>1. Len(dir) + 1 \in Len(up) + 2 .. Len(text) /\ text[Len(dir) + 1] = Slash
    BY <1>1, <1>2 DEF InDir
  <2> QED
    BY <1>2, <2>1
<1>6. CASE Len(up) = Len(dir)
  <2>1. \A i \in 1 .. Len(dir) : dir[i] = up[i]
    BY <1>2, <1>6 DEF InDir
  <2>2. dir = up
    BY <1>1, <1>6, <2>1, SeqEqual DEF Texts
  <2> QED
    BY <1>3, <2>2
<1>7. CASE Len(dir) < Len(up)
  <2>1. Len(dir) + 1 \in 1 .. Len(up) /\ \A i \in 1 .. Len(dir) : i \in 1 .. Len(up)
    BY <1>1, <1>7
  <2>2. InDir(dir, up)
    BY <1>2, <1>7, <2>1 DEF InDir
  <2> QED
    BY <1>4, <2>2
<1> QED
  BY <1>1, <1>5, <1>6, <1>7

LEMMA LongestText == \E M \in Nat : \A p \in Paths : Len(TextOf[p]) <= M
<1>1. Cardinality(Paths) \in Nat /\ ExistsBijection(1 .. Cardinality(Paths), Paths)
  BY PathsAssumption, FS_CardinalityType
<1> DEFINE n == Cardinality(Paths)
<1>2. PICK f \in Bijection(1 .. n, Paths) : TRUE
  BY <1>1 DEF ExistsBijection
<1>3. n \in Nat
  BY <1>1
<1> HIDE DEF n
<1>4. \A i \in 1 .. n : f[i] \in Paths
  BY <1>2 DEF Bijection, Injection
<1>5. \A p \in Paths : \E i \in 1 .. n : f[i] = p
  BY <1>2 DEF Bijection, Surjection
<1> DEFINE Good == {k \in 0 .. n : \E M \in Nat : \A i \in 1 .. k : Len(TextOf[f[i]]) <= M}
<1>6. 0 \in Good
  BY <1>3
<1>7. ASSUME NEW k \in 0 .. n - 1, k \in Good PROVE k + 1 \in Good
  <2>1. PICK M \in Nat : \A i \in 1 .. k : Len(TextOf[f[i]]) <= M
    BY <1>7
  <2>2. k + 1 \in 1 .. n /\ k + 1 \in 0 .. n /\ 1 .. k + 1 = (1 .. k) \cup {k + 1}
        /\ \A i \in 1 .. k + 1 : i \in 1 .. n
    BY <1>3
  <2>3. \A i \in 1 .. k + 1 : Len(TextOf[f[i]]) \in Nat
    BY <1>4, <2>2, TextsOfPaths
  <2> DEFINE L == Len(TextOf[f[k + 1]])
  <2>4. L \in Nat /\ M + L \in Nat
    BY <2>2, <2>3
  <2> HIDE DEF L
  <2>5. \A i \in 1 .. k + 1 : Len(TextOf[f[i]]) <= M + L
    BY <2>1, <2>2, <2>3, <2>4 DEF L
  <2> QED
    BY <2>2, <2>4, <2>5
<1> HIDE DEF Good
<1>8. \A k \in 0 .. n : k \in Good
  BY <1>3, <1>6, <1>7, StepByStep
<1>9. n \in Good
  BY <1>3, <1>8
<1> QED
  BY <1>5, <1>9 DEF Good


\* The paths below a directory are its entries and what is below them.
LEMMA BelowUnfolds ==
  ASSUME NEW p \in Paths
  PROVE  Below[p] = Children[p] \cup UNION {Below[q] : q \in Children[p]}
<1>1. PICK M \in Nat : \A q \in Paths : Len(TextOf[q]) <= M
  BY LongestText
<1> DEFINE Reached(q) == q \in Children[p] \/ \E c \in Children[p] : q \in Below[c]
           Good == {k \in 0 .. M : \A q \in Below[p] : Len(TextOf[q]) <= k => Reached(q)}
<1>2. 0 \in Good
  <2>1. \A q \in Below[p] : ~(Len(TextOf[q]) <= 0)
    BY BelowIsLonger, TextsOfPaths
  <2> QED
    BY <1>1, <2>1
<1>3. ASSUME NEW k \in 0 .. M - 1, k \in Good PROVE k + 1 \in Good
  <2>1. ASSUME NEW q \in Below[p], Len(TextOf[q]) <= k + 1 PROVE Reached(q)
    <3>1. q \in Paths /\ InDir(TextOf[p], TextOf[q])
      BY BelowIs DEF Below
    <3>2. PICK s \in Paths : q \in Children[s]
      BY <3>1, TreeAssumption, TextsOfPaths, Slashed
    <3>3. CASE s = p
      BY <3>2, <3>3
    <3>4. CASE s \in Below[p]
      <4>1. q \in Below[s] /\ Len(TextOf[s]) < Len(TextOf[q])
        BY <3>2, EntryIsBelow, BelowIsLonger
      <4>2. Len(TextOf[s]) <= k
        BY <2>1, <3>1, <3>2, <4>1, TextsOfPaths
      <4>3. Reached(s)
        BY <1>3, <3>4, <4>2
      <4>4. CASE s \in Children[p]
        BY <4>1, <4>4
      <4>5. ASSUME NEW c \in Children[p], s \in Below[c] PROVE Reached(q)
        <5>1. q \in Below[c]
          BY <4>1, <4>5, BelowBelow, EntryIsBelow
        <5> QED
          BY <5>1
      <4> QED
        BY <4>3, <4>4, <4>5
    <3> QED
      BY <3>2, <3>3, <3>4, DirectoryBetween
  <2> QED
    BY <1>1, <2>1
<1> HIDE DEF Good, Reached
<1>4. \A k \in 0 .. M : k \in Good
  BY <1>1, <1>2, <1>3, StepByStep
<1>5. ASSUME NEW q \in Below[p] PROVE Reached(q)
  <2>1. M \in Good /\ q \in Paths
    BY <1>1, <1>4 DEF Below
  <2> QED
    BY <1>1, <2>1 DEF Good
<1>6. \A q \in Children[p] : q \in Below[p]
  BY EntryIsBelow
<1>7. \A c \in Children[p] : \A q \in Below[c] : q \in Below[p]
  BY <1>6, BelowBelow
<1> QED
  BY <1>5, <1>6, <1>7 DEF Reached

(* What the pattern of a root matches is what lies in that directory at    *)
(* any depth: mark_deleted() compares texts (index_writer.cpp:176), while  *)
(* scan_one_node() goes from a directory to its entries.                   *)
THEOREM PatternMatchesTree == \A p \in Paths : descendants[p] = Below[p]
<1> DEFINE Unfolds(f) ==
      f = [p \in Paths |-> Children[p] \cup UNION {f[q] : q \in Children[p]}]
<1>1. Unfolds(Below)
  <2>1. Below = [p \in Paths |-> Below[p]]
    BY DEF Below
  <2> QED
    BY <2>1, BelowUnfolds
<1>2. Unfolds(descendants)
  <2>1. descendants = CHOOSE f : Unfolds(f)
    BY DEF descendants
  <2> HIDE DEF Unfolds
  <2> QED
    BY <1>1, <2>1
<1>3. \A p \in Paths : descendants[p] = Children[p] \cup UNION {descendants[q] : q \in Children[p]}
  <2> DEFINE f == descendants
  <2>1. f = [p \in Paths |-> Children[p] \cup UNION {f[q] : q \in Children[p]}]
    BY <1>2
  <2> HIDE DEF f
  <2>2. \A p \in Paths : f[p] = Children[p] \cup UNION {f[q] : q \in Children[p]}
    BY <2>1
  <2> QED
    BY <2>2 DEF f
<1>4. PICK M \in Nat : \A q \in Paths : Len(TextOf[q]) <= M
  BY LongestText
<1> DEFINE Good == {k \in 0 .. M + 1 :
                      \A p \in Paths : Len(TextOf[p]) + k > M => descendants[p] = Below[p]}
<1> HIDE DEF Unfolds
<1>5. 0 \in Good
  <2>1. \A p \in Paths : ~(Len(TextOf[p]) + 0 > M)
    BY <1>4, TextsOfPaths
  <2> QED
    BY <1>4, <2>1
<1>6. ASSUME NEW k \in 0 .. (M + 1) - 1, k \in Good PROVE k + 1 \in Good
  <2>1. ASSUME NEW p \in Paths, Len(TextOf[p]) + (k + 1) > M PROVE descendants[p] = Below[p]
    <3>1. ASSUME NEW q \in Children[p] PROVE descendants[q] = Below[q]
      <4>1. q \in Paths /\ Len(TextOf[p]) < Len(TextOf[q])
        BY EntryIsBelow, BelowIsLonger
      <4>2. Len(TextOf[q]) + k > M
        <5>1. Len(TextOf[p]) \in Nat /\ Len(TextOf[q]) \in Nat
          BY <4>1, TextsOfPaths
        <5>2. k \in Int /\ M \in Int
          BY <1>4
        <5> DEFINE L == Len(TextOf[p])  L2 == Len(TextOf[q])
        <5>3. L \in Nat /\ L2 \in Nat /\ L < L2 /\ L + (k + 1) > M
          BY <2>1, <4>1, <5>1
        <5> HIDE DEF L, L2
        <5>4. L2 + k > M
          BY <5>2, <5>3
        <5> QED
          BY <5>4 DEF L2
      <4> QED
        BY <1>6, <4>1, <4>2
    <3>2. UNION {descendants[q] : q \in Children[p]} = UNION {Below[q] : q \in Children[p]}
      BY <3>1
    <3> QED
      BY <1>3, <3>2, BelowUnfolds
  <2>2. k + 1 \in 0 .. M + 1
    BY <1>4
  <2> QED
    BY <2>1, <2>2
<1> HIDE DEF Good
<1>7. \A k \in 0 .. M + 1 : k \in Good
  <2>1. M + 1 \in Nat
    BY <1>4
  <2> QED
    BY <1>5, <1>6, <2>1, StepByStep
<1>8. ASSUME NEW p \in Paths PROVE descendants[p] = Below[p]
  <2>1. M + 1 \in 0 .. M + 1 /\ Len(TextOf[p]) + (M + 1) > M
    <3>1. Len(TextOf[p]) \in Nat
      BY TextsOfPaths
    <3> DEFINE L == Len(TextOf[p])
    <3>2. L \in Nat
      BY <3>1
    <3> HIDE DEF L
    <3>3. L + (M + 1) > M /\ M + 1 \in 0 .. M + 1
      BY <1>4, <3>2
    <3> QED
      BY <3>3 DEF L
  <2>2. M + 1 \in Good
    BY <1>7, <2>1
  <2> QED
    BY <2>1, <2>2 DEF Good
<1> QED
  BY <1>8

(* Two roots that paths_overlap() (formater.cpp:108) does not refuse have  *)
(* no path in common.                                                      *)
THEOREM RootsAreApart ==
  \A r, s \in Paths :
    ~paths_overlap(TextOf[r], TextOf[s]) => ({r} \cup Below[r]) \cap ({s} \cup Below[s]) = {}
<1> SUFFICES ASSUME NEW r \in Paths, NEW s \in Paths,
                    NEW q \in Paths, q = r \/ q \in Below[r], q = s \/ q \in Below[s]
             PROVE  paths_overlap(TextOf[r], TextOf[s])
  BY DEF Below
<1>1. TextOf[r] \in Texts /\ TextOf[s] \in Texts /\ TextOf[q] \in Texts
  BY TextsOfPaths
<1>2. /\ q = r \/ InDir(TextOf[r], TextOf[q])
      /\ q = s \/ InDir(TextOf[s], TextOf[q])
  BY BelowIs
<1>3. CASE q = r /\ q = s
  BY <1>3 DEF paths_overlap
<1>4. CASE InDir(TextOf[r], TextOf[q])
  BY <1>1, <1>2, <1>4, Comparable
<1>5. CASE InDir(TextOf[s], TextOf[q])
  <2>1. paths_overlap(TextOf[s], TextOf[r])
    BY <1>1, <1>2, <1>5, Comparable
  <2> QED
    BY <2>1 DEF paths_overlap
<1> QED
  BY <1>2, <1>3, <1>4, <1>5

-----------------------------------------------------------------------------
(* The summary of the index, for any set of texts *)

LEMMA TextIs ==
  ASSUME NEW a \in Texts
  PROVE  /\ a \in Seq(1 .. 255) /\ Len(a) \in Nat /\ DOMAIN a = 1 .. Len(a)
         /\ \A i \in 1 .. Len(a) : a[i] \in 1 .. 255 /\ a[i] \in Nat
<1>1. a \in Seq(1 .. 255) /\ Len(a) \in Nat /\ DOMAIN a = 1 .. Len(a)
  BY LenProperties DEF Texts
<1>2. \A i \in 1 .. Len(a) : a[i] \in 1 .. 255
  BY <1>1, ElementOfSeq
<1>3. \A x \in 1 .. 255 : x \in Nat
  OBVIOUS
<1> QED
  BY <1>1, <1>2, <1>3

LEMMA HeadOfText ==
  ASSUME NEW a \in Texts, NEW n \in 0 .. Len(a)
  PROVE  /\ SubSeq(a, 1, n) \in Texts /\ Len(SubSeq(a, 1, n)) = n
         /\ \A i \in 1 .. n : SubSeq(a, 1, n)[i] = a[i]
<1>1. a \in Seq(1 .. 255) /\ Len(a) \in Nat /\ n \in Nat /\ 1 \in Int /\ n \in Int
  BY TextIs
<1>2. \A i \in 1 .. n : a[i] \in 1 .. 255
  <2>1. \A i \in 1 .. n : i \in 1 .. Len(a)
    BY <1>1
  <2> QED
    BY <2>1, TextIs
<1>3. /\ SubSeq(a, 1, n) \in Seq(1 .. 255)
      /\ Len(SubSeq(a, 1, n)) = IF 1 <= n THEN n - 1 + 1 ELSE 0
      /\ \A i \in 1 .. n - 1 + 1 : SubSeq(a, 1, n)[i] = a[1 + i - 1]
  BY <1>1, <1>2, SubSeqProperties
<1> DEFINE u == SubSeq(a, 1, n)
<1> HIDE DEF u
<1>4. /\ u \in Seq(1 .. 255) /\ Len(u) = IF 1 <= n THEN n - 1 + 1 ELSE 0
      /\ \A i \in 1 .. n - 1 + 1 : u[i] = a[1 + i - 1]
  BY <1>3 DEF u
<1>5. n - 1 + 1 = n /\ Len(u) = n /\ \A i \in 1 .. n : 1 + i - 1 = i
  BY <1>1, <1>4
<1>6. u \in Texts /\ Len(u) = n /\ \A i \in 1 .. n : u[i] = a[i]
  BY <1>4, <1>5 DEF Texts
<1> QED
  BY <1>6 DEF u

\* Two texts have their first n bytes in common.
Agree(a, b, n) == n <= Len(a) /\ n <= Len(b) /\ \A i \in 1 .. n : a[i] = b[i]

LEMMA PrefixAgrees ==
  ASSUME NEW a \in Texts, NEW b \in Texts
  PROVE  IsPrefix(a, b) <=> Agree(a, b, Len(a))
<1>1. IsPrefix(a, b) <=> Len(a) <= Len(b) /\ \A i \in 1 .. Len(a) : b[i] = a[i]
  BY TextIs, PrefixIs
<1> QED
  BY <1>1, TextIs DEF Agree

LEMMA SameText ==
  ASSUME NEW a \in Texts, NEW b \in Texts, Len(a) = Len(b), Agree(a, b, Len(a))
  PROVE  a = b
  BY TextIs, SeqEqual DEF Agree

LEMMA CommonPrefixIs ==
  ASSUME NEW a \in Texts, NEW b \in Texts
  PROVE  LET c == LongestCommonPrefix({a, b}) IN
         /\ c \in Texts /\ Agree(c, a, Len(c)) /\ Agree(c, b, Len(c)) /\ Agree(a, b, Len(c))
         /\ \A n \in Nat : Agree(a, b, n) => n <= Len(c)
<1>0. Len(a) \in Nat /\ Len(b) \in Nat
  BY TextIs
<1> DEFINE N == {n \in 0 .. Len(a) : Agree(a, b, n)}
<1>1. 0 \in N /\ N \subseteq 0 .. Len(a)
  BY <1>0 DEF Agree
<1>2. PICK m \in N : \A n \in N : m >= n
  <2> HIDE DEF N
  <2> QED
    BY <1>0, <1>1, HasMaximum
<1>3. \A n \in Nat : Agree(a, b, n) => n \in N /\ n <= m
  <2>1. \A n \in Nat : Agree(a, b, n) => n \in N
    BY <1>0 DEF Agree
  <2>2. \A n \in N : n \in Nat
    BY <1>0
  <2> HIDE DEF N
  <2> QED
    BY <1>2, <2>1, <2>2
<1>4. ASSUME NEW n \in N
      PROVE  LET u == SubSeq(a, 1, n) IN
             /\ u \in CommonPrefixes({a, b}) /\ u \in Texts /\ Len(u) = n
             /\ Agree(u, a, n) /\ Agree(u, b, n)
  <2> DEFINE u == SubSeq(a, 1, n)
  <2>1. /\ u \in Texts /\ Len(u) = n /\ \A i \in 1 .. n : u[i] = a[i]
    BY HeadOfText
  <2>2. u \in Prefixes(a)
    BY DEF Prefixes
  <2> HIDE DEF u
  <2>3. Agree(u, a, n) /\ Agree(u, b, n)
    BY <1>0, <2>1 DEF Agree
  <2>4. IsPrefix(u, a) /\ IsPrefix(u, b)
    BY <2>1, <2>3, PrefixAgrees
  <2>5. u \in CommonPrefixes({a, b})
    BY <2>2, <2>4 DEF CommonPrefixes
  <2> QED
    BY <2>1, <2>3, <2>5 DEF u
<1>5. ASSUME NEW t \in CommonPrefixes({a, b}) PROVE t \in Texts /\ Len(t) \in N
  <2>1. (t \in Prefixes(a) \/ t \in Prefixes(b)) /\ IsPrefix(t, a) /\ IsPrefix(t, b)
    BY DEF CommonPrefixes
  <2>2. t \in Texts
    BY <2>1, HeadOfText DEF Prefixes
  <2>3. Agree(t, a, Len(t)) /\ Agree(t, b, Len(t)) /\ Len(t) \in Nat
    BY <2>1, <2>2, PrefixAgrees, TextIs
  <2>4. Agree(a, b, Len(t))
    BY <2>3 DEF Agree
  <2> QED
    BY <1>3, <2>2, <2>3, <2>4
<1>6. m \in Nat /\ \A n \in N : n \in Nat
  BY <1>0
<1> HIDE DEF N
<1> DEFINE c == LongestCommonPrefix({a, b})
<1>7. \E u \in CommonPrefixes({a, b}) : \A t \in CommonPrefixes({a, b}) : Len(t) <= Len(u)
  <2>1. SubSeq(a, 1, m) \in CommonPrefixes({a, b}) /\ Len(SubSeq(a, 1, m)) = m
    BY <1>4
  <2>2. \A t \in CommonPrefixes({a, b}) : Len(t) <= m
    BY <1>2, <1>5, <1>6
  <2> QED
    BY <2>1, <2>2
<1>8. c \in CommonPrefixes({a, b}) /\ \A t \in CommonPrefixes({a, b}) : Len(t) <= Len(c)
  BY <1>7 DEF LongestCommonPrefix
<1> HIDE DEF c
<1>9. c \in Texts /\ Len(c) = m
  <2>1. c \in Texts /\ Len(c) \in N
    BY <1>5, <1>8
  <2>2. m <= Len(c)
    BY <1>4, <1>8
  <2> QED
    BY <1>2, <1>6, <2>1, <2>2
<1>10. Agree(c, a, Len(c)) /\ Agree(c, b, Len(c))
  <2>1. IsPrefix(c, a) /\ IsPrefix(c, b)
    BY <1>8 DEF CommonPrefixes
  <2> QED
    BY <1>9, <2>1, PrefixAgrees
<1>11. Agree(a, b, Len(c))
  BY <1>9, <1>10 DEF Agree
<1> QED
  BY <1>3, <1>9, <1>10, <1>11 DEF c

-----------------------------------------------------------------------------
(* The order of texts *)

\* They have n bytes in common, then the first ends or has the smaller byte.
LessAt(a, b, n) ==
  Agree(a, b, n) /\ n < Len(b) /\ (n = Len(a) \/ (n < Len(a) /\ a[n + 1] < b[n + 1]))

LEMMA LessIs ==
  ASSUME NEW a \in Texts, NEW b \in Texts
  PROVE  /\ text_less(a, b) => \E n \in Nat : LessAt(a, b, n)
         /\ \A n \in Nat : LessAt(a, b, n) => text_less(a, b)
<1> DEFINE c == LongestCommonPrefix({a, b})  m == Len(c)
<1>0. /\ m \in Nat /\ Len(a) \in Nat /\ Len(b) \in Nat
      /\ Agree(a, b, m) /\ \A n \in Nat : Agree(a, b, n) => n <= m
  BY CommonPrefixIs, TextIs
<1>1. text_less(a, b) <=> IF m + 1 > Len(a) THEN m + 1 <= Len(b)
                          ELSE m + 1 <= Len(b) /\ a[m + 1] < b[m + 1]
  BY DEF text_less
<1> HIDE DEF c, m
<1>2. text_less(a, b) <=> LessAt(a, b, m)
  BY <1>0, <1>1 DEF LessAt, Agree
<1>3. ASSUME NEW n \in Nat, LessAt(a, b, n) PROVE n = m
  <2>1. n <= m
    BY <1>0, <1>3 DEF LessAt
  <2>2. CASE n < m
    <3>1. n + 1 \in 1 .. m /\ a[n + 1] = b[n + 1] /\ n < Len(a) /\ n + 1 \in 1 .. Len(a)
      BY <1>0, <2>2 DEF Agree
    <3>2. a[n + 1] \in Nat
      BY <3>1, TextIs
    <3> QED
      BY <1>0, <1>3, <3>1, <3>2 DEF LessAt
  <2> QED
    BY <1>0, <2>1, <2>2
<1> QED
  BY <1>0, <1>2, <1>3

LEMMA LessIrreflexive ==
  ASSUME NEW a \in Texts
  PROVE  ~text_less(a, a)
<1> SUFFICES ASSUME NEW n \in Nat, LessAt(a, a, n) PROVE FALSE
  BY LessIs
<1>1. n \in Nat /\ Len(a) \in Nat /\ n < Len(a) /\ n + 1 \in 1 .. Len(a)
  BY TextIs DEF LessAt
<1>2. a[n + 1] \in Nat
  BY <1>1, TextIs
<1> QED
  BY <1>1, <1>2 DEF LessAt

LEMMA LessTotal ==
  ASSUME NEW a \in Texts, NEW b \in Texts, a # b, ~text_less(a, b)
  PROVE  text_less(b, a)
<1> DEFINE m == Len(LongestCommonPrefix({a, b}))
<1>0. /\ m \in Nat /\ Len(a) \in Nat /\ Len(b) \in Nat
      /\ Agree(a, b, m) /\ \A n \in Nat : Agree(a, b, n) => n <= m
  BY CommonPrefixIs, TextIs
<1> HIDE DEF m
<1>1. ~LessAt(a, b, m)
  BY <1>0, LessIs
<1>2. ~(m = Len(a) /\ m = Len(b))
  BY <1>0, SameText
<1>3. Agree(b, a, m)
  BY <1>0 DEF Agree
<1>4. ASSUME m < Len(a), m < Len(b) PROVE LessAt(b, a, m)
  <2>1. a[m + 1] # b[m + 1]
    <3> SUFFICES ASSUME a[m + 1] = b[m + 1] PROVE FALSE
      OBVIOUS
    <3>1. Agree(a, b, m + 1)
      <4>1. 1 .. m + 1 = (1 .. m) \cup {m + 1}
        BY <1>0
      <4> QED
        BY <1>0, <1>4, <4>1 DEF Agree
    <3> QED
      BY <1>0, <3>1
  <2>2. a[m + 1] \in Nat /\ b[m + 1] \in Nat
    <3>1. m + 1 \in 1 .. Len(a) /\ m + 1 \in 1 .. Len(b)
      BY <1>0, <1>4
    <3> QED
      BY <3>1, TextIs
  <2>3. ~(a[m + 1] < b[m + 1])
    BY <1>0, <1>1, <1>4 DEF LessAt
  <2> QED
    BY <1>3, <1>4, <2>1, <2>2, <2>3 DEF LessAt
<1>5. LessAt(b, a, m)
  <2>1. m <= Len(a) /\ m <= Len(b)
    BY <1>0 DEF Agree
  <2>2. CASE m = Len(a)
    BY <1>0, <1>1, <1>2, <2>1, <2>2 DEF LessAt
  <2>3. CASE m < Len(a) /\ m = Len(b)
    BY <1>3, <2>3 DEF LessAt
  <2> QED
    BY <1>0, <1>4, <2>1, <2>2, <2>3
<1> QED
  BY <1>0, <1>5, LessIs

LEMMA LessTransitive ==
  ASSUME NEW a \in Texts, NEW b \in Texts, NEW d \in Texts, text_less(a, b), text_less(b, d)
  PROVE  text_less(a, d)
<1>1. PICK n \in Nat : LessAt(a, b, n)
  BY LessIs
<1>2. PICK m \in Nat : LessAt(b, d, m)
  BY LessIs
<1>3. /\ Len(a) \in Nat /\ Len(b) \in Nat /\ Len(d) \in Nat
      /\ \A i \in 1 .. Len(a) : a[i] \in Nat
      /\ \A i \in 1 .. Len(b) : b[i] \in Nat
      /\ \A i \in 1 .. Len(d) : d[i] \in Nat
  BY TextIs
<1>4. CASE n <= m
  <2>1. Agree(a, d, n) /\ n < Len(d)
    BY <1>1, <1>2, <1>3, <1>4 DEF LessAt, Agree
  <2>2. ASSUME n < Len(a) PROVE a[n + 1] < d[n + 1]
    <3>1. n + 1 \in 1 .. Len(a) /\ n + 1 \in 1 .. Len(b) /\ n + 1 \in 1 .. Len(d)
          /\ a[n + 1] < b[n + 1]
      BY <1>1, <1>3, <2>1, <2>2 DEF LessAt
    <3>2. b[n + 1] <= d[n + 1]
      <4>1. CASE n < m
        <5>1. n + 1 \in 1 .. m
          BY <4>1
        <5> QED
          BY <1>2, <1>3, <3>1, <5>1 DEF LessAt, Agree
      <4>2. CASE n = m
        BY <1>1, <1>2, <1>3, <3>1, <4>2 DEF LessAt
      <4> QED
        BY <1>4, <4>1, <4>2
    <3> QED
      BY <1>3, <3>1, <3>2
  <2>3. n <= Len(a)
    BY <1>1 DEF LessAt, Agree
  <2>4. LessAt(a, d, n)
    BY <1>3, <2>1, <2>2, <2>3 DEF LessAt
  <2> QED
    BY <2>4, LessIs
<1>5. CASE m < n
  <2>1. Agree(a, d, m) /\ m < Len(d) /\ m < Len(a) /\ m < Len(b)
    BY <1>1, <1>2, <1>3, <1>5 DEF LessAt, Agree
  <2>2. m + 1 \in 1 .. n /\ a[m + 1] = b[m + 1]
    BY <1>1, <1>5 DEF LessAt, Agree
  <2>3. a[m + 1] < d[m + 1]
    BY <1>2, <1>3, <2>1, <2>2 DEF LessAt
  <2>4. LessAt(a, d, m)
    BY <2>1, <2>3 DEF LessAt
  <2> QED
    BY <2>4, LessIs
<1> QED
  BY <1>4, <1>5

\* A finite set has an element that comes before none, by any order given as a set of pairs.
LEMMA HasLeast ==
  ASSUME NEW S, IsFiniteSet(S), S # {}, NEW R,
         \A x \in S : <<x, x>> \notin R,
         \A x, y, z \in S : <<x, y>> \in R /\ <<y, z>> \in R => <<x, z>> \in R
  PROVE  \E a \in S : \A b \in S : <<b, a>> \notin R
<1> DEFINE Under(x) == {y \in S : <<y, x>> \in R}
           U == {Under(x) : x \in S}
<1>1. U \subseteq FiniteSubsetsOf(S) /\ U # {}
  <2>1. ASSUME NEW x \in S PROVE Under(x) \in SUBSET S /\ IsFiniteSet(Under(x))
    <3>1. Under(x) \in SUBSET S
      OBVIOUS
    <3> QED
      BY <3>1, FS_Subset
  <2>2. \A x \in S : Under(x) \in FiniteSubsetsOf(S)
    BY <2>1 DEF FiniteSubsetsOf
  <2> HIDE DEF Under
  <2> QED
    BY <2>2
<1>2. IsWellFoundedOn(StrictSubsetOrdering(S), FiniteSubsetsOf(S))
  BY FS_StrictSubsetOrderingWellFounded
<1>3. \E u \in U : \A v \in U : ~ (<<v, u>> \in StrictSubsetOrdering(S))
  <2> DEFINE Q == StrictSubsetOrdering(S)  F == FiniteSubsetsOf(S)
  <2>1. IsWellFoundedOn(Q, F) /\ U \subseteq F /\ U # {}
    BY <1>1, <1>2
  <2> HIDE DEF U, Q, F
  <2>2. \E u \in U : \A v \in U : ~ (<<v, u>> \in Q)
    BY <2>1, WFMin
  <2> QED
    BY <2>2 DEF Q
<1>4. PICK a \in S : \A v \in U : ~ (<<v, Under(a)>> \in StrictSubsetOrdering(S))
  BY <1>3
<1>5. ASSUME NEW b \in S, <<b, a>> \in R PROVE FALSE
  <2>1. Under(b) \subseteq Under(a) /\ b \in Under(a) /\ b \notin Under(b)
    BY <1>5
  <2>2. <<Under(b), Under(a)>> \in StrictSubsetOrdering(S)
    BY <2>1 DEF StrictSubsetOrdering
  <2> QED
    BY <1>4, <2>2
<1> QED
  BY <1>5

LEMMA MinMaxText ==
  ASSUME NEW S \in SUBSET Texts, IsFiniteSet(S), S # {}
  PROVE  /\ MinText(S) \in S /\ \A b \in S : ~text_less(b, MinText(S))
         /\ MaxText(S) \in S /\ \A b \in S : ~text_less(MaxText(S), b)
<1> HIDE DEF text_less
<1>1. \A x, y, z \in S : text_less(x, y) /\ text_less(y, z) => text_less(x, z)
  BY LessTransitive
<1>2. \A x \in S : ~text_less(x, x)
  BY LessIrreflexive
<1>3. \E a \in S : \A b \in S : ~text_less(b, a)
  <2> DEFINE R == {r \in S \X S : text_less(r[1], r[2])}
  <2>1. \A x, y \in S : <<x, y>> \in R <=> text_less(x, y)
    OBVIOUS
  <2> HIDE DEF R
  <2>2. /\ \A x \in S : <<x, x>> \notin R
        /\ \A x, y, z \in S : <<x, y>> \in R /\ <<y, z>> \in R => <<x, z>> \in R
    BY <1>1, <1>2, <2>1
  <2>3. \E a \in S : \A b \in S : <<b, a>> \notin R
    BY <2>2, HasLeast
  <2> QED
    BY <2>1, <2>3
<1>4. \E a \in S : \A b \in S : ~text_less(a, b)
  <2> DEFINE R == {r \in S \X S : text_less(r[2], r[1])}
  <2>1. \A x, y \in S : <<x, y>> \in R <=> text_less(y, x)
    OBVIOUS
  <2> HIDE DEF R
  <2>2. /\ \A x \in S : <<x, x>> \notin R
        /\ \A x, y, z \in S : <<x, y>> \in R /\ <<y, z>> \in R => <<x, z>> \in R
    BY <1>1, <1>2, <2>1
  <2>3. \E a \in S : \A b \in S : <<b, a>> \notin R
    BY <2>2, HasLeast
  <2> QED
    BY <2>1, <2>3
<1> QED
  BY <1>3, <1>4 DEF MinText, MaxText

\* What the first and the last text have in common, those between them have too.
LEMMA Between ==
  ASSUME NEW a \in Texts, NEW b \in Texts, NEW t \in Texts,
         ~text_less(t, a), ~text_less(b, t), NEW m \in Nat, Agree(a, b, m)
  PROVE  Agree(a, t, m)
<1>1. CASE t = a
  BY <1>1 DEF Agree
<1>2. CASE t = b
  BY <1>2
<1>3. CASE t # a /\ t # b
  <2>1. PICK n \in Nat : LessAt(a, t, n)
    BY <1>3, LessTotal, LessIs
  <2>2. PICK k \in Nat : LessAt(t, b, k)
    BY <1>3, LessTotal, LessIs
  <2>3. /\ Len(a) \in Nat /\ Len(b) \in Nat /\ Len(t) \in Nat
        /\ \A i \in 1 .. Len(a) : a[i] \in Nat
        /\ \A i \in 1 .. Len(t) : t[i] \in Nat
    BY TextIs
  <2>4. CASE m <= n
    BY <2>1, <2>3, <2>4 DEF LessAt, Agree
  <2>5. CASE m <= k
    BY <2>2, <2>3, <2>5 DEF LessAt, Agree
  <2>6. CASE n < m /\ n <= k /\ k < m
    <3>1. /\ n + 1 \in 1 .. m /\ n < Len(a) /\ n < Len(t)
          /\ n + 1 \in 1 .. Len(a) /\ n + 1 \in 1 .. Len(t)
          /\ a[n + 1] < t[n + 1] /\ a[n + 1] = b[n + 1]
      BY <2>1, <2>3, <2>6 DEF LessAt, Agree
    <3>2. t[n + 1] <= b[n + 1]
      <4>1. CASE n < k
        <5>1. n + 1 \in 1 .. k
          BY <2>6, <4>1
        <5> QED
          BY <2>2, <2>3, <3>1, <5>1 DEF LessAt, Agree
      <4>2. CASE n = k
        BY <2>2, <2>3, <3>1, <4>2 DEF LessAt
      <4> QED
        BY <2>6, <4>1, <4>2
    <3> QED
      BY <2>3, <3>1, <3>2
  <2>7. CASE k < n /\ k < m
    <3>1. /\ k + 1 \in 1 .. m /\ k + 1 \in 1 .. n /\ k < Len(t) /\ k + 1 \in 1 .. Len(t)
          /\ a[k + 1] = b[k + 1] /\ a[k + 1] = t[k + 1]
      BY <2>1, <2>3, <2>7 DEF LessAt, Agree
    <3>2. t[k + 1] < b[k + 1]
      BY <2>2, <2>3, <3>1 DEF LessAt
    <3> QED
      BY <2>3, <3>1, <3>2
  <2> QED
    BY <2>4, <2>5, <2>6, <2>7
<1> QED
  BY <1>1, <1>2, <1>3

-----------------------------------------------------------------------------
(* The common parent *)

\* What precedes the last '/', which may be nothing.
LEMMA ParentOf ==
  ASSUME NEW text \in Texts, NEW i \in 1 .. Len(text), text[i] = Slash
  PROVE  before_last_slash(text) \in Texts /\ InDir(before_last_slash(text), text)
<1> DEFINE I == {j \in 1 .. Len(text) : text[j] = Slash}
           last == IF I # {} THEN Max(I) ELSE 0
<1>0. Len(text) \in Nat
  BY TextIs
<1>1. before_last_slash(text) = SubSeq(text, 1, last - 1)
  BY Zenon DEF before_last_slash, SelectLastInSeq
<1>2. I # {} /\ I \subseteq 0 .. Len(text)
  BY <1>0
<1>3. last \in I
  <2>1. last = Max(I)
    BY <1>2
  <2> HIDE DEF I, last
  <2> QED
    BY <1>0, <1>2, <2>1, IsMax
<1>4. last \in 1 .. Len(text) /\ text[last] = Slash
  <2> HIDE DEF last
  <2> QED
    BY <1>3
<1> HIDE DEF I, last
<1>5. last - 1 \in 0 .. Len(text)
  BY <1>0, <1>4
<1> DEFINE u == SubSeq(text, 1, last - 1)
<1>6. u \in Texts /\ Len(u) = last - 1 /\ \A j \in 1 .. last - 1 : u[j] = text[j]
  BY <1>5, HeadOfText
<1> HIDE DEF u
<1>7. InDir(u, text)
  BY <1>0, <1>4, <1>6 DEF InDir
<1> QED
  BY <1>1, <1>6, <1>7 DEF u

\* The slash at the end of a directory may be taken off it.
Trim(dir) == IF Len(dir) > 1 /\ Last(dir) = Slash THEN Front(dir) ELSE dir

LEMMA TrimKeeps ==
  ASSUME NEW dir \in Texts, NEW text \in Texts, text = dir \/ InDir(dir, text)
  PROVE  Trim(dir) \in Texts /\ (text = Trim(dir) \/ InDir(Trim(dir), text))
<1>0. Len(dir) \in Nat /\ Len(text) \in Nat
  BY TextIs
<1>1. CASE ~(Len(dir) > 1 /\ Last(dir) = Slash)
  BY <1>1 DEF Trim
<1>2. CASE Len(dir) > 1 /\ Last(dir) = Slash
  <2>1. Trim(dir) = SubSeq(dir, 1, Len(dir) - 1) /\ dir[Len(dir)] = Slash
    BY <1>2 DEF Trim, Front, Last
  <2>2. Len(dir) - 1 \in 0 .. Len(dir)
    BY <1>0, <1>2
  <2> DEFINE u == SubSeq(dir, 1, Len(dir) - 1)
  <2>3. u \in Texts /\ Len(u) = Len(dir) - 1 /\ \A j \in 1 .. Len(dir) - 1 : u[j] = dir[j]
    BY <2>2, HeadOfText
  <2> HIDE DEF u
  <2>4. InDir(u, text)
    <3>1. CASE text = dir
      BY <1>0, <2>1, <2>3, <3>1 DEF InDir
    <3>2. CASE InDir(dir, text)
      <4>1. Len(dir) \in 1 .. Len(dir) /\ \A j \in 1 .. Len(dir) - 1 : j \in 1 .. Len(dir)
        BY <1>0, <1>2
      <4> QED
        BY <1>0, <2>1, <2>3, <3>2, <4>1 DEF InDir
    <3> QED
      BY <3>1, <3>2
  <2> QED
    BY <2>1, <2>3, <2>4 DEF u
<1> QED
  BY <1>1, <1>2

\* A name goes on with a byte below '/', so that it sorts before what is in it.
Hides(a, t) == IsStrictPrefix(a, t) /\ t[Len(a) + 1] < Slash

\* A set of absolute texts: each is the common parent of the first and the last
\* or in it, but for those that a name hides.
LEMMA CommonParentCovers ==
  ASSUME NEW S \in SUBSET Texts, IsFiniteSet(S), S # {},
         \A t \in S : t # <<>> /\ t[1] = Slash,
         NEW text \in S
  PROVE  LET root == get_top_root_in_index(S) IN
         /\ root \in Texts
         /\ \/ text = root \/ InDir(root, text)
            \/ \E a \in S : Hides(a, text)
<1> DEFINE a == MinText(S)  b == MaxText(S)  c == LongestCommonPrefix({a, b})  next == Len(c) + 1
           parent == IF ends_name(a, next) /\ ends_name(b, next) THEN c ELSE before_last_slash(c)
<1> HIDE DEF text_less
<1>1. /\ a \in S /\ \A t \in S : ~text_less(t, a)
      /\ b \in S /\ \A t \in S : ~text_less(b, t)
  BY MinMaxText
<1>2. get_top_root_in_index(S) = Trim(parent)
  BY DEF get_top_root_in_index, get_common_parent, Trim
<1> HIDE DEF a, b
<1>3. a \in Texts /\ b \in Texts /\ text \in Texts
  BY <1>1
<1>4. /\ c \in Texts /\ Agree(c, a, Len(c)) /\ Agree(c, b, Len(c)) /\ Agree(a, b, Len(c))
      /\ \A n \in Nat : Agree(a, b, n) => n <= Len(c)
  BY <1>3, CommonPrefixIs
<1> HIDE DEF c
<1>5. /\ Len(a) \in Nat /\ Len(b) \in Nat /\ Len(c) \in Nat /\ Len(text) \in Nat
      /\ \A i \in 1 .. Len(b) : b[i] \in Nat
      /\ \A i \in 1 .. Len(text) : text[i] \in Nat
  BY <1>3, <1>4, TextIs
<1>6. Agree(c, text, Len(c))
  <2>1. Agree(a, text, Len(c))
    BY <1>1, <1>3, <1>4, <1>5, Between
  <2> QED
    BY <1>4, <1>5, <2>1 DEF Agree
<1>7. ~(Len(c) < Len(a) /\ Len(c) < Len(b) /\ a[next] = b[next])
  <2> SUFFICES ASSUME Len(c) < Len(a), Len(c) < Len(b), a[next] = b[next] PROVE FALSE
    OBVIOUS
  <2>1. 1 .. next = (1 .. Len(c)) \cup {next} /\ next \in Nat
    BY <1>5
  <2>2. Agree(a, b, next)
    BY <1>4, <1>5, <2>1 DEF Agree
  <2> QED
    BY <1>4, <1>5, <2>2
<1>8. CASE ends_name(a, next) /\ ends_name(b, next)
  <2>1. parent = c
    BY <1>8
  <2> HIDE DEF parent
  <2>2. Len(a) = Len(c)
    <3> SUFFICES ASSUME Len(c) < Len(a) PROVE FALSE
      BY <1>4, <1>5 DEF Agree
    <3>1. a[next] = Slash
      BY <1>5, <1>8 DEF ends_name
    <3>2. Len(b) = Len(c)
      BY <1>4, <1>5, <1>7, <1>8, <3>1 DEF ends_name, Agree
    <3>3. LessAt(b, a, Len(c))
      BY <1>4, <1>5, <3>2 DEF LessAt, Agree
    <3> QED
      BY <1>1, <1>3, <1>5, <3>3, LessIs
  <2>3. a = c
    BY <1>3, <1>4, <2>2, SameText
  <2>4. CASE Len(text) = Len(c)
    <3>1. text = c
      BY <1>3, <1>4, <1>6, <2>4, SameText
    <3> QED
      BY <1>2, <1>3, <1>4, <2>1, <3>1, TrimKeeps
  <2>5. CASE Len(c) < Len(text)
    <3>1. next \in 1 .. Len(text) /\ text[next] \in Nat
      BY <1>5, <2>5
    <3>2. Agree(b, text, Len(c))
      BY <1>4, <1>6 DEF Agree
    <3>3. ~LessAt(b, text, Len(c))
      BY <1>1, <1>3, <1>5, LessIs
    <3>4. Len(c) < Len(b) /\ ~(b[next] < text[next])
      BY <1>4, <1>5, <2>5, <3>2, <3>3 DEF LessAt, Agree
    <3>5. b[next] = Slash /\ text[next] <= Slash
      BY <1>5, <1>8, <3>1, <3>4 DEF ends_name, Slash
    <3>6. CASE text[next] = Slash
      <4>1. InDir(c, text)
        BY <1>5, <1>6, <2>5, <3>6 DEF InDir, Agree
      <4> QED
        BY <1>2, <1>3, <1>4, <2>1, <4>1, TrimKeeps
    <3>7. CASE text[next] < Slash
      <4>1. IsPrefix(a, text) /\ a # text
        BY <1>3, <1>6, <2>2, <2>3, <2>5, <1>5, PrefixAgrees
      <4>2. Hides(a, text)
        BY <2>3, <3>7, <4>1 DEF Hides, IsStrictPrefix
      <4>3. Trim(c) \in Texts
        BY <1>4, TrimKeeps
      <4> QED
        BY <1>1, <1>2, <2>1, <4>2, <4>3
    <3> QED
      BY <3>1, <3>5, <3>6, <3>7 DEF Slash
  <2> QED
    BY <1>5, <1>6, <2>4, <2>5 DEF Agree
<1>9. CASE ~(ends_name(a, next) /\ ends_name(b, next))
  <2>1. parent = before_last_slash(c)
    BY <1>9
  <2> HIDE DEF parent
  <2>2. a[1] = Slash /\ b[1] = Slash /\ Len(a) > 0 /\ Len(b) > 0
    BY <1>1, <1>3, <1>5, EmptySeq, TextIs
  <2>3. Agree(a, b, 1)
    <3>1. 1 .. 1 = {1}
      OBVIOUS
    <3> QED
      BY <1>5, <2>2, <3>1 DEF Agree
  <2>4. 1 \in 1 .. Len(c) /\ c[1] = Slash
    <3>1. 1 <= Len(c)
      BY <1>4, <2>3
    <3>2. 1 \in 1 .. Len(c)
      BY <1>5, <3>1
    <3> QED
      BY <1>4, <2>2, <3>2 DEF Agree
  <2>5. parent \in Texts /\ InDir(parent, c)
    BY <1>4, <2>1, <2>4, ParentOf
  <2>6. InDir(parent, text)
    <3>1. Len(parent) \in Nat /\ Len(parent) + 1 \in 1 .. Len(c)
          /\ \A i \in 1 .. Len(parent) : i \in 1 .. Len(c)
      BY <1>5, <2>5, TextIs DEF InDir
    <3> QED
      BY <1>5, <1>6, <2>5, <3>1 DEF InDir, Agree
  <2> QED
    BY <1>2, <1>3, <2>5, <2>6, TrimKeeps
<1> QED
  BY <1>8, <1>9

LEMMA IsMin ==
  ASSUME NEW T, T \subseteq Nat, IsFiniteSet(T), T # {}
  PROVE  Min(T) \in T /\ \A y \in T : Min(T) <= y
BY HasMinimum DEF Min

\* The entry that a path below the root counts for is below the root, and the path
\* or a directory it is in.
LEMMA SecondLayer ==
  ASSUME NEW root \in Texts, NEW text \in Texts, InDir(root, text)
  PROVE  LET entry == get_snd_layer(text, root) IN
         /\ entry \in Texts /\ InDir(root, entry)
         /\ text = entry \/ InDir(entry, text)
<1> DEFINE n == Len(root)  rest == SubSeq(text, n + 2, Len(text))
           I == {i \in 1 .. Len(rest) : rest[i] = Slash}
           pos == IF I # {} THEN Min(I) ELSE 0
<1>0. n \in Nat /\ Len(text) \in Nat /\ n < Len(text)
  BY TextIs DEF InDir
<1>1. get_snd_layer(text, root) = IF pos = 0 THEN text ELSE root \o <<Slash>> \o SubSeq(rest, 1, pos - 1)
  BY Zenon DEF get_snd_layer, SelectInSeq
<1>2. /\ rest \in Texts /\ Len(rest) = Len(text) - n - 1
      /\ \A i \in 1 .. Len(rest) : rest[i] = text[n + 1 + i]
  <2>1. \A i \in n + 2 .. Len(text) : text[i] \in 1 .. 255
    <3>1. \A i \in n + 2 .. Len(text) : i \in 1 .. Len(text)
      BY <1>0
    <3> QED
      BY <3>1, TextIs
  <2>2. n + 2 \in Int /\ Len(text) \in Int
    BY <1>0
  <2>3. /\ rest \in Seq(1 .. 255)
        /\ Len(rest) = IF n + 2 <= Len(text) THEN Len(text) - (n + 2) + 1 ELSE 0
        /\ \A i \in 1 .. Len(text) - (n + 2) + 1 : rest[i] = text[n + 2 + i - 1]
    BY <2>1, <2>2, SubSeqProperties
  <2> HIDE DEF rest
  <2>4. Len(rest) = Len(text) - n - 1
    BY <1>0, <2>3
  <2>5. ASSUME NEW i \in 1 .. Len(rest) PROVE rest[i] = text[n + 1 + i]
    <3>1. i \in 1 .. Len(text) - (n + 2) + 1 /\ n + 2 + i - 1 = n + 1 + i
      BY <1>0, <2>4
    <3> QED
      BY <2>3, <3>1
  <2> QED
    BY <2>3, <2>4, <2>5 DEF Texts
<1> HIDE DEF rest
<1>3. CASE I = {}
  <2>1. get_snd_layer(text, root) = text
    BY <1>1, <1>3
  <2> QED
    BY <2>1
<1>4. CASE I # {}
  <2>1. pos \in I
    <3>0. Len(rest) \in Nat
      BY <1>2, TextIs
    <3>4. IsFiniteSet(1 .. Len(rest))
      BY <3>0, FS_Interval
    <3>1. I \subseteq 1 .. Len(rest) /\ I \subseteq Nat
      BY <3>0
    <3>2. IsFiniteSet(I)
      BY <3>1, <3>4, FS_Subset
    <3>3. pos = Min(I)
      BY <1>4
    <3> HIDE DEF I, pos
    <3> QED
      BY <1>4, <3>1, <3>2, <3>3, IsMin
  <2>2. pos \in 1 .. Len(rest) /\ rest[pos] = Slash
    <3> HIDE DEF pos
    <3> QED
      BY <2>1
  <2> HIDE DEF I, pos
  <2>3. n + 1 + pos \in 1 .. Len(text) /\ text[n + 1 + pos] = Slash /\ pos - 1 \in 0 .. Len(rest)
    BY <1>0, <1>2, <2>2
  <2> DEFINE name == SubSeq(rest, 1, pos - 1)  dir == root \o <<Slash>>  entry == dir \o name
  <2>4. name \in Texts /\ Len(name) = pos - 1 /\ \A i \in 1 .. pos - 1 : name[i] = rest[i]
    BY <1>2, <2>3, HeadOfText
  <2>5. get_snd_layer(text, root) = entry
    BY <1>1, <2>2
  <2> HIDE DEF name
  <2>6. <<Slash>> \in Seq(1 .. 255) /\ Len(<<Slash>>) = 1 /\ <<Slash>>[1] = Slash
    BY DEF Slash
  <2>7. /\ dir \in Seq(1 .. 255) /\ Len(dir) = n + 1
        /\ \A i \in 1 .. n + 1 : dir[i] = text[i]
    <3>1. root \in Seq(1 .. 255)
      BY TextIs
    <3>2. /\ dir \in Seq(1 .. 255) /\ Len(dir) = n + 1
          /\ \A i \in 1 .. n + 1 : dir[i] = IF i <= n THEN root[i] ELSE <<Slash>>[i - n]
      BY <1>0, <2>6, <3>1, ConcatProperties
    <3> HIDE DEF dir
    <3>3. ASSUME NEW i \in 1 .. n + 1 PROVE dir[i] = text[i]
      <4>1. CASE i <= n
        BY <1>0, <3>2, <4>1 DEF InDir
      <4>2. CASE i = n + 1
        <5>1. ~(i <= n) /\ i - n = 1
          BY <1>0, <4>2
        <5> QED
          BY <2>6, <3>2, <4>2, <5>1 DEF InDir
      <4> QED
        BY <1>0, <4>1, <4>2
    <3> QED
      BY <3>2, <3>3
  <2> HIDE DEF dir
  <2>8. /\ entry \in Seq(1 .. 255) /\ Len(entry) = n + pos
        /\ \A i \in 1 .. n + pos : entry[i] = text[i]
    <3>0. name \in Seq(1 .. 255) /\ dir \in Seq(1 .. 255)
      BY <2>4, <2>7, TextIs
    <3>1. /\ entry \in Seq(1 .. 255) /\ Len(entry) = Len(dir) + Len(name)
          /\ \A i \in 1 .. Len(dir) + Len(name) :
               entry[i] = IF i <= Len(dir) THEN dir[i] ELSE name[i - Len(dir)]
      BY <3>0, ConcatProperties
    <3> HIDE DEF entry
    <3>2. Len(entry) = n + pos
      BY <1>0, <2>2, <2>4, <2>7, <3>1
    <3>3. ASSUME NEW i \in 1 .. n + pos PROVE entry[i] = text[i]
      <4>1. CASE i <= n + 1
        <5>1. i \in 1 .. n + 1 /\ i \in 1 .. Len(dir) + Len(name) /\ i <= Len(dir)
          BY <1>0, <2>7, <3>1, <3>2, <4>1
        <5>2. entry[i] = dir[i]
          BY <3>1, <5>1
        <5>3. dir[i] = text[i]
          BY <2>7, <5>1
        <5> QED
          BY <5>2, <5>3
      <4>2. CASE n + 1 < i
        <5>1. i - (n + 1) \in 1 .. pos - 1 /\ i - (n + 1) \in 1 .. Len(rest)
              /\ n + 1 + (i - (n + 1)) = i /\ ~(i <= n + 1)
          BY <1>0, <2>2, <4>2
        <5>2. entry[i] = name[i - (n + 1)]
          BY <2>4, <2>7, <3>1, <3>2, <5>1
        <5> QED
          BY <1>2, <2>4, <5>1, <5>2
      <4> QED
        BY <1>0, <2>2, <4>1, <4>2
    <3> QED
      BY <3>1, <3>2, <3>3
  <2> HIDE DEF entry
  <2>9. entry \in Texts /\ InDir(entry, text)
    <3>1. n + pos + 1 = n + 1 + pos /\ n + pos < Len(text)
      BY <1>0, <2>2, <2>3
    <3> QED
      BY <2>3, <2>8, <3>1 DEF InDir, Texts
  <2>10. InDir(root, entry)
    <3>1. n + 1 \in 1 .. n + pos /\ n < n + pos /\ \A i \in 1 .. n : i \in 1 .. n + pos
      BY <1>0, <2>2
    <3> QED
      BY <2>8, <3>1 DEF InDir
  <2> QED
    BY <2>5, <2>9, <2>10
<1> QED
  BY <1>3, <1>4
=============================================================================
