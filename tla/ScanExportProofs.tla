--------------------------- MODULE ScanExportProofs ---------------------------
(***************************************************************************)
(* Proofs about ScanExport, for any tree, any number of scans and any      *)
(* batch size: what is recorded as complete, what mark_deleted() takes out *)
(* of the index, and what the exporter leaves behind when it stops.        *)
(* ScanViewProofs goes on with what is in the tables.                      *)
(***************************************************************************)
EXTENDS ScanExport, IndexProofs

Queued(id) == \E s \in ToSet(result_queue) : s.sentinel /\ s.id = id
Handling(id) == handled # <<>> /\ sentinel.id = id
Finalizing == {"insert", "mark", "diff", "count", "publish"}

\* What the proof needs of the types.
Types ==
  /\ phase \in [ScanIds -> Phase] /\ tree \in [Paths -> Fingerprints]
  /\ job \in [ScanIds -> [Paths -> JobState]]
  /\ DOMAIN root_of \subseteq ScanIds /\ \A i \in DOMAIN root_of : root_of[i] \in Paths
  /\ result_queue \in Seq(Events \cup Sentinels)
  /\ handled = <<>> \/ \E s \in Sentinels : handled = <<s>>
  /\ DOMAIN pending_scan_rows \subseteq ScanIds
  /\ \A i \in DOMAIN pending_scan_rows : pending_scan_rows[i] \in ScanRows
  /\ batch \in Seq(Events) /\ writer \in WriterPlaces /\ open_tx \in BOOLEAN
  /\ pool_stop \in BOOLEAN /\ stop_flag \in BOOLEAN
  /\ next_scan_id \in Nat
  /\ DOMAIN scan_task_table \subseteq ScanIds
  /\ \A i \in DOMAIN scan_task_table : DOMAIN scan_task_table[i] = {"root", "end", "count"}

\* Where the result thread is, and what it and the metrics count.
Thread ==
  /\ writer \in {"pop", "exited"} => handled = <<>>
  /\ writer \in Finalizing \cup {"row"} => handled # <<>>
  /\ writer \in Finalizing => row # <<>>
  /\ writer = "exited" => result_queue = <<>> /\ stop_flag /\ batch = <<>>
  /\ export_running = Len(batch)
  /\ export_finalizing_running = IF handled = <<>> THEN 0 ELSE 1

\* How far a scan is, by its jobs, its place in the registry and its row.
Progress ==
  /\ \A id \in ScanIds : walking(id) => phase[id] = "walking" /\ ~refused(id)
  /\ \A id \in ScanIds : phase[id] = "new" => id \notin DOMAIN root_of /\ id \notin truncated
  /\ \A id \in ScanIds : phase[id] \in {"walking", "flagged", "sent"} => id \in DOMAIN root_of
  /\ \A id \in ScanIds : phase[id] = "ended" => id \in exported_map \cup DOMAIN root_of
  /\ \A i, j \in DOMAIN root_of : root_of[i] = root_of[j] => i = j
  /\ root_map = {root_of[i] : i \in DOMAIN root_of}
  /\ \A i \in DOMAIN pending_scan_rows :
       phase[i] = "ended" /\ i \in DOMAIN root_of /\ pending_scan_rows[i].root = root_of[i]
  /\ writer \in Finalizing =>
       /\ phase[sentinel.id] = "ended" /\ sentinel.id \in DOMAIN root_of
       /\ row[1].root = root_of[sentinel.id] /\ sentinel.id \notin DOMAIN pending_scan_rows

\* A scan's sentinel is on its way until the scan is exported; what the
\* stopped queue does not take is of a scan that the pool refused.
Tracked ==
  /\ stop_flag => pool_stop /\ \A id \in ScanIds : phase[id] \in {"new", "ended"} \/ refused(id)
  /\ writer # "dead" => \A id \in DOMAIN root_of :
       phase[id] \in {"sent", "ended"} => Queued(id) \/ Handling(id) \/ id \in failed \/ refused(id)

\* A scan that skipped a node, by another cause than the stop of the pool.
CutOff(id) == id \in truncated \ late

\* A scan that skipped a node was canceled when the flag was read, both times.
Flags ==
  /\ ~pool_stop => late = {}
  /\ \A id \in ScanIds : pool_stop /\ walking(id) => id \in late
  /\ truncated \subseteq canceled \cup late /\ truncated \subseteq ScanIds
  /\ \A id \in ScanIds : phase[id] \in {"flagged", "sent", "ended"} /\ CutOff(id) => id \in flagged
  /\ \A id \in ScanIds : phase[id] \in {"sent", "ended"} /\ CutOff(id) => id \in ended
  /\ \A s \in ToSet(result_queue) : s.sentinel =>
       /\ phase[s.id] \in {"sent", "ended"}
       /\ CutOff(s.id) => s.canceled
  /\ handled # <<>> =>
       /\ phase[sentinel.id] \in {"sent", "ended"}
       /\ CutOff(sentinel.id) => sentinel.canceled

\* The row of such a scan says so, waiting, fetched or in the table; no id that
\* can be drawn yet has a row of another scan than the one that ended.
Rows ==
  /\ \A i \in DOMAIN pending_scan_rows : CutOff(i) => pending_scan_rows[i].end = "CANCELED"
  /\ writer \in Finalizing => (CutOff(sentinel.id) => row[1].end = "CANCELED")
  /\ \A i \in DOMAIN scan_task_table :
       /\ i >= next_scan_id => phase[i] = "ended"
       /\ CutOff(i) => scan_task_table[i].end = "CANCELED"
  /\ \A i \in ScanIds : i < next_scan_id => phase[i] = "new"

ExportInv == Types /\ Thread /\ Progress /\ Tracked /\ Flags /\ Rows

-----------------------------------------------------------------------------
(* The queue and the tables *)

LEMMA Sets ==
  /\ \A e \in Events : e.sentinel = FALSE
  /\ \A s \in Sentinels : s.sentinel = TRUE /\ s.id \in ScanIds /\ s.canceled \in BOOLEAN
  /\ \A i \in ScanIds : i \in Nat
<1>1. \A e \in Events : e.sentinel = FALSE
  BY DEF Events
<1>2. \A s \in Sentinels : s.sentinel = TRUE /\ s.id \in ScanIds /\ s.canceled \in BOOLEAN
  BY DEF Sentinels
<1>3. \A i \in ScanIds : i \in Nat
  BY BoundsAssumption DEF ScanIds
<1> QED
  BY <1>1, <1>2, <1>3

LEMMA ItemTypes ==
  ASSUME Types
  PROVE  \A s \in ToSet(result_queue) : s \in Events \cup Sentinels
BY DEF Types, ToSet

LEMMA ItemsAppended ==
  ASSUME NEW S, NEW s \in Seq(S), NEW e \in S
  PROVE  ToSet(Append(s, e)) = ToSet(s) \cup {e} /\ Len(Append(s, e)) = Len(s) + 1
<1>1. /\ DOMAIN s = 1..Len(s) /\ DOMAIN Append(s, e) = 1..(Len(s) + 1) /\ Len(s) \in Nat
      /\ \A i \in 1..Len(s) : Append(s, e)[i] = s[i]
      /\ Append(s, e)[Len(s) + 1] = e /\ Len(Append(s, e)) = Len(s) + 1
  BY AppendProperties, LenProperties
<1> DEFINE t == Append(s, e)
<1> HIDE DEF t
<1>2. /\ DOMAIN t = DOMAIN s \cup {Len(s) + 1} /\ \A i \in DOMAIN s : t[i] = s[i]
      /\ t[Len(s) + 1] = e /\ Len(s) + 1 \notin DOMAIN s
  BY <1>1 DEF t
<1>3. ToSet(t) = ToSet(s) \cup {e}
  BY <1>2 DEF ToSet
<1> QED
  BY <1>1, <1>3 DEF t

LEMMA ItemsTail ==
  ASSUME NEW S, NEW s \in Seq(S), s # <<>>
  PROVE  ToSet(s) = ToSet(Tail(s)) \cup {Head(s)} /\ Head(s) \in S /\ Tail(s) \in Seq(S)
<1>1. /\ Len(s) \in Nat \ {0} /\ DOMAIN s = 1..Len(s) /\ DOMAIN Tail(s) = 1..(Len(s) - 1)
      /\ \A i \in 1..(Len(s) - 1) : Tail(s)[i] = s[i + 1]
      /\ Head(s) \in S /\ Head(s) = s[1] /\ Tail(s) \in Seq(S)
  BY HeadTailProperties, LenProperties, EmptySeq
<1> DEFINE t == Tail(s)  h == Head(s)
<1>2. /\ \A i \in DOMAIN t : i + 1 \in DOMAIN s /\ t[i] = s[i + 1]
      /\ \A i \in DOMAIN s : i = 1 \/ (i - 1 \in DOMAIN t /\ t[i - 1] = s[i])
      /\ h = s[1] /\ 1 \in DOMAIN s
  BY <1>1
<1> HIDE DEF t, h
<1>3. ToSet(s) = ToSet(t) \cup {h}
  <2>1. \A x : x \in ToSet(s) <=> \E i \in DOMAIN s : s[i] = x
    BY DEF ToSet
  <2>2. \A x : x \in ToSet(t) <=> \E i \in DOMAIN t : t[i] = x
    BY DEF ToSet
  <2> QED
    BY <1>2, <2>1, <2>2
<1> QED
  BY <1>1, <1>3 DEF t, h

LEMMA Pushed ==
  ASSUME Types, NEW e \in Events \cup Sentinels, push_result_queue(e)
  PROVE  /\ result_queue' \in Seq(Events \cup Sentinels)
         /\ \/ stop_flag /\ result_queue' = result_queue
            \/ ~stop_flag /\ ToSet(result_queue') = ToSet(result_queue) \cup {e}
         /\ UNCHANGED <<stop_flag, pending_scan_rows, exported_map, writer, batch, handled, row,
                        open_tx, failed, export_running, export_finalizing_running>>
<1>1. CASE stop_flag /\ UNCHANGED result_queue
  BY <1>1 DEF push_result_queue, writer_vars, metrics, Types
<1>2. CASE ~stop_flag /\ result_queue' = Append(result_queue, e)
  BY <1>2, ItemsAppended, AppendProperties DEF push_result_queue, writer_vars, metrics, Types
<1> QED
  BY <1>1, <1>2 DEF push_result_queue

LEMMA MaxId ==
  ASSUME DOMAIN scan_task_table \subseteq ScanIds
  PROVE  get_max_id \in Nat /\ \A i \in DOMAIN scan_task_table : i < get_max_id + 1
<1> DEFINE T == DOMAIN scan_task_table \cup {0}
<1>1. MaxScanId \in Nat /\ T \subseteq 0..MaxScanId /\ T # {} /\ DOMAIN scan_task_table \subseteq T
  BY BoundsAssumption DEF ScanIds
<1>2. get_max_id = Max(T)
  BY DEF get_max_id
<1> HIDE DEF T
<1>3. Max(T) \in T /\ \A y \in T : Max(T) >= y
  BY <1>1, HasMaximum DEF Max
<1>4. \A y \in T : y \in Nat
  BY <1>1
<1>5. get_max_id \in Nat /\ \A y \in T : get_max_id >= y
  BY <1>2, <1>3, <1>4
<1>6. ASSUME NEW i \in DOMAIN scan_task_table PROVE i < get_max_id + 1
  <2>1. i \in T
    BY <1>1
  <2>2. i \in Nat /\ get_max_id \in Nat /\ get_max_id >= i
    BY <1>4, <1>5, <2>1
  <2> QED
    BY <2>2
<1> QED
  BY <1>5, <1>6

\* The event that a visit pushes.
LEMMA Recorded ==
  ASSUME Types, NEW id \in ScanIds, NEW p \in Paths, visit_node(id, p)
  PROVE  \E e \in Events : push_result_queue(e)
<1>1. recorded(id, p, 0, TRUE) \in Events /\ recorded(id, p, tree[p], TRUE) \in Events
      /\ recorded(id, p, tree[p], FALSE) \in Events
  BY BoundsAssumption DEF recorded, Events, Types, Fingerprints
<1> QED
  BY <1>1 DEF visit_node

\* What a step of scan_one_node() does to the jobs.
LEMMA Walked ==
  ASSUME Types, NEW id \in ScanIds, NEW p \in Paths,
         visit_node(id, p) \/ skip_node(id, p) \/ read_dir(id, p)
  PROVE  /\ walking(id) /\ job' \in [ScanIds -> [Paths -> JobState]]
         /\ \A i \in ScanIds : i # id => job'[i] = job[i]
         /\ \A q \in Paths : job'[id][q] = "dropped" => job[id][q] = "dropped"
         /\ UNCHANGED <<tree, pool_stop, canceled>>
<1>1. CASE visit_node(id, p)
  <2>1. PICK s \in {"reading", "finished"} : set_job(id, p, s)
    BY <1>1 DEF visit_node, visit_missing, visit_unreadable, visit_leaf, visit_dir
  <2>2. job[id][p] = "waiting" /\ UNCHANGED <<tree, pool_stop, canceled>>
    BY <1>1 DEF visit_node, visit_missing, visit_unreadable, visit_leaf, visit_dir
  <2> QED
    BY <2>1, <2>2 DEF Types, set_job, JobState, walking
<1>2. CASE skip_node(id, p)
  BY <1>2 DEF skip_node, set_job, Types, JobState, walking
<1>3. CASE read_dir(id, p)
  <2>1. PICK kept \in SUBSET Children[p] :
          job' = [job EXCEPT ![id] = [q \in Paths |->
                   IF q \in kept THEN "waiting" ELSE IF q = p THEN "finished" ELSE @[q]]]
    BY <1>3 DEF read_dir
  <2>2. job[id][p] = "reading" /\ UNCHANGED <<tree, pool_stop, canceled>>
    BY <1>3 DEF read_dir
  <2> QED
    BY <2>1, <2>2 DEF Types, JobState, walking
<1> QED
  BY <1>1, <1>2, <1>3

-----------------------------------------------------------------------------
(* What a step of the result thread does to its variables, whatever became *)
(* of its statements.                                                      *)

took_event ==
  /\ take_event
  /\ \/ batch' = Append(batch, Head(result_queue)) /\ export_running' = export_running + 1
     \/ batch' = <<>> /\ export_running' = 0
took_sentinel == take_sentinel /\ batch' = <<>> /\ export_running' = 0
finished == finish_writing /\ batch' = <<>> /\ export_running' = 0
finalized ==
  \/ finalize_step("insert", "mark") \/ finalize_step("mark", "diff")
  \/ finalize_step("diff", "count") \/ finalize_step("count", "publish")

Writing ==
  /\ \/ took_event \/ took_sentinel \/ finished
     \/ get_scan_task \/ get_scan_task_throws \/ finalized
  /\ UNCHANGED <<walk_vars, registry_vars, baseline, reused, overtaken, half>>

Control ==
  \/ \E id \in ScanIds : \/ cancel_scan(id) \/ flag_sentinel(id) \/ push_sentinel(id)
                         \/ hand_over_row(id)
  \/ \E id \in ScanIds, p \in Paths : start_scan(id, p) \/ stop_pool_before(id, p)
                                      \/ visit_node(id, p) \/ finish_node(id, p)
  \/ \E p \in Paths : tree_changes(p)
  \/ stop_pool \/ stop_exporting \/ Writing \/ database_fails
  \/ export_done \/ restart

LEMMA BatchAtEnd ==
  ASSUME Types, Thread
  PROVE  /\ export_running - Len(batch) = 0
         /\ writer = "pop" /\ result_queue # <<>> /\ ~Head(result_queue).sentinel =>
              /\ Head(result_queue) \in Events
              /\ Append(batch, Head(result_queue)) \in Seq(Events)
              /\ export_running + 1 - Len(Append(batch, Head(result_queue))) = 0
<1>1. Len(batch) \in Nat /\ export_running = Len(batch)
  BY LenProperties DEF Types, Thread
<1>2. ASSUME result_queue # <<>>, ~Head(result_queue).sentinel
      PROVE  /\ Head(result_queue) \in Events
             /\ Append(batch, Head(result_queue)) \in Seq(Events)
             /\ Len(Append(batch, Head(result_queue))) = Len(batch) + 1
  <2>1. Head(result_queue) \in Events
    BY <1>2, ItemsTail, Sets DEF Types
  <2> QED
    BY <2>1, AppendProperties DEF Types
<1> QED
  BY <1>1, <1>2

LEMMA WritingSteps ==
  ASSUME Types, Thread, write_results \/ statements_fail
  PROVE  Writing
<1>1. CASE pop_event /\ UNCHANGED <<walk_vars, scan_vars, history_vars>>
  <2>1. took_event
    BY <1>1, BatchAtEnd DEF pop_event, took_event, take_event
  <2> QED
    BY <1>1, <2>1 DEF Writing, scan_vars, history_vars
<1>2. CASE (pop_sentinel \/ stop_writing) /\ UNCHANGED <<walk_vars, scan_vars, history_vars>>
  <2>1. took_sentinel \/ finished
    BY <1>2, BatchAtEnd DEF pop_sentinel, stop_writing, commit_batch, took_sentinel, finished
  <2> QED
    BY <1>2, <2>1 DEF Writing, scan_vars, history_vars
<1>3. CASE /\ \/ get_scan_task \/ get_scan_task_throws
              \/ finalize_inserts \/ finalize_marks \/ finalize_diffs \/ finalize_counts
           /\ UNCHANGED <<walk_vars, scan_vars, history_vars>>
  BY <1>3 DEF Writing, finalized, finalize_inserts, finalize_marks, finalize_diffs,
     finalize_counts, scan_vars, history_vars
<1>4. CASE statements_fail
  <2>1. CASE commit_batch_partly
    <3>1. took_event \/ took_sentinel \/ finished
      BY <2>1, BatchAtEnd DEF commit_batch_partly, took_event, took_sentinel, finished
    <3> QED
      BY <1>4, <3>1 DEF Writing, statements_fail
  <2>2. CASE finalize_partly
    BY <1>4, <2>2 DEF Writing, statements_fail, finalize_partly, finalized
  <2> QED
    BY <1>4, <2>1, <2>2 DEF statements_fail
<1> QED
  BY <1>1, <1>2, <1>3, <1>4 DEF write_results

LEMMA Controls == Types /\ Thread /\ Next => Control
BY WritingSteps DEF Next, Regular, Control

\* Which steps write the table of the scans.
LEMMA TaskSteps ==
  ASSUME Next
  PROVE  \/ UNCHANGED scan_task_table
         \/ /\ finalize_step("insert", "mark")
            /\ insert_scan(sentinel.id, row[1].root, row[1].end)
         \/ /\ finalize_step("count", "publish")
            /\ \E n : set_count(sentinel.id, n)
<1> USE DEF tables
<1>1. ASSUME NEW id \in ScanIds,
             cancel_scan(id) \/ flag_sentinel(id) \/ push_sentinel(id) \/ hand_over_row(id)
      PROVE  UNCHANGED scan_task_table
  BY <1>1 DEF cancel_scan, flag_sentinel, push_sentinel, hand_over_row
<1>2. ASSUME NEW id \in ScanIds, NEW p \in Paths,
             \/ start_scan(id, p) \/ stop_pool_before(id, p)
             \/ visit_node(id, p) \/ finish_node(id, p)
      PROVE  UNCHANGED scan_task_table
  BY <1>2 DEF start_scan, stop_pool_before, begin, visit_node, finish_node
<1>3. CASE (\E p \in Paths : tree_changes(p)) \/ stop_pool \/ stop_exporting \/ restart
  BY <1>3 DEF tree_changes, stop_pool, stop_exporting, restart
<1>4. CASE database_fails \/ export_done
  BY <1>4 DEF database_fails, write_throws, finalize_fails, export_done, finalize_publishes
<1>5. CASE pop_event \/ pop_sentinel \/ stop_writing \/ get_scan_task \/ get_scan_task_throws
  BY <1>5 DEF pop_event, pop_sentinel, stop_writing, commit_batch, commit, get_scan_task,
     get_scan_task_throws
<1>6. CASE finalize_marks \/ finalize_diffs
  BY <1>6 DEF finalize_marks, mark_deleted, finalize_diffs, find_scan_diff, write_diff
<1>7. CASE finalize_counts
  BY <1>7 DEF finalize_counts, upsert_count
<1>8. CASE statements_fail
  BY <1>8 DEF statements_fail, commit_batch_partly, commit_partly, finalize_partly,
     mark_deleted_partly, find_scan_diff_partly, write_diff, upsert_count_partly
<1> QED
  BY <1>1, <1>2, <1>3, <1>4, <1>5, <1>6, <1>7, <1>8 DEF Next, Regular, write_results,
     finalize_inserts

-----------------------------------------------------------------------------
(* Every step keeps the invariant *)

LEMMA NextTypes == Types /\ Thread /\ Progress /\ Next => Types'
<1> SUFFICES ASSUME Types, Thread, Progress, Next PROVE Types'
  OBVIOUS
<1>c. Control
  BY Controls
<1> USE DEF tables, walk_vars, export_vars, queue_vars, writer_vars, metrics, scan_vars,
            registry_vars, start_vars, history_vars, set_phase
<1>1. ASSUME NEW id \in ScanIds, cancel_scan(id) \/ flag_sentinel(id) PROVE Types'
  BY <1>1 DEF Types, Phase, cancel_scan, flag_sentinel
<1>2. ASSUME NEW id \in ScanIds, push_sentinel(id) PROVE Types'
  <2>1. [sentinel |-> TRUE, id |-> id, canceled |-> id \in flagged] \in Sentinels
    BY DEF Sentinels
  <2>2. result_queue' \in Seq(Events \cup Sentinels)
    BY <1>2, <2>1, Pushed DEF push_sentinel
  <2> QED
    BY <1>2, <2>2 DEF Types, Phase, push_sentinel, push_result_queue
<1>3. ASSUME NEW id \in ScanIds, hand_over_row(id) PROVE Types'
  <2>1. root_of[id] \in Paths
    BY <1>3 DEF hand_over_row, Types, Progress
  <2> QED
    BY <1>3, <2>1 DEF Types, Phase, hand_over_row, insert_scan_task, Put, ScanRows
<1>4. ASSUME NEW id \in ScanIds, NEW p \in Paths, start_scan(id, p) \/ stop_pool_before(id, p)
      PROVE  Types'
  <2>1. /\ phase' = [phase EXCEPT ![id] = "walking"]
        /\ root_of' = Put(id, p, root_of) /\ next_scan_id' = next_scan_id
        /\ UNCHANGED <<tables, export_vars>>
    BY <1>4 DEF start_scan, stop_pool_before, begin
  <2>2. /\ job' \in [ScanIds -> [Paths -> JobState]]
        /\ pool_stop' \in BOOLEAN /\ tree' = tree
    <3>1. PICK s \in {"waiting", "dropped"} : set_job(id, p, s)
      BY <1>4 DEF start_scan, stop_pool_before, start_walk, stop_before
    <3>2. tree' = tree /\ pool_stop' \in BOOLEAN
      BY <1>4 DEF start_scan, stop_pool_before, start_walk, stop_before, Types
    <3> QED
      BY <3>1, <3>2 DEF set_job, Types, JobState
  <2> QED
    BY <2>1, <2>2 DEF Types, Phase, Put
<1>5. ASSUME NEW id \in ScanIds, NEW p \in Paths, visit_node(id, p) \/ finish_node(id, p)
      PROVE  Types'
  <2>1. job' \in [ScanIds -> [Paths -> JobState]] /\ UNCHANGED <<tree, pool_stop>>
    BY <1>5, Walked DEF finish_node
  <2>2. CASE visit_node(id, p)
    <3>1. PICK e \in Events : push_result_queue(e)
      BY <2>2, Recorded
    <3>2. result_queue' \in Seq(Events \cup Sentinels)
      BY <3>1, Pushed
    <3> QED
      BY <2>1, <2>2, <3>1, <3>2 DEF Types, visit_node, push_result_queue
  <2>3. CASE finish_node(id, p)
    BY <2>1, <2>3 DEF Types, finish_node
  <2> QED
    BY <1>5, <2>2, <2>3
<1>6. ASSUME NEW p \in Paths, tree_changes(p) PROVE Types'
  BY <1>6 DEF Types, tree_changes, change_tree
<1>7. CASE stop_pool \/ stop_exporting
  BY <1>7 DEF Types, stop_pool, stop_walks, stop_exporting, shutdown
<1>8. CASE Writing
  <2>0. /\ DOMAIN scan_task_table' \subseteq ScanIds
        /\ \A i \in DOMAIN scan_task_table' :
             DOMAIN scan_task_table'[i] = {"root", "end", "count"}
    <3>1. CASE UNCHANGED scan_task_table
      BY <3>1 DEF Types
    <3>2. CASE finalize_step("insert", "mark") /\ insert_scan(sentinel.id, row[1].root, row[1].end)
      <4>1. /\ DOMAIN scan_task_table' = DOMAIN scan_task_table \cup {sentinel.id}
            /\ \A i \in DOMAIN scan_task_table' :
                 DOMAIN scan_task_table'[i] = {"root", "end", "count"}
        BY <3>2 DEF Types, insert_scan, Insert
      <4>2. sentinel.id \in ScanIds
        BY <3>2, Sets DEF finalize_step, Types, Thread, Finalizing, sentinel
      <4> QED
        BY <4>1, <4>2 DEF Types
    <3>3. ASSUME NEW n, set_count(sentinel.id, n)
          PROVE  /\ DOMAIN scan_task_table' = DOMAIN scan_task_table
                 /\ \A i \in DOMAIN scan_task_table :
                      DOMAIN scan_task_table'[i] = DOMAIN scan_task_table[i]
      BY <3>3 DEF set_count
    <3> QED
      BY <3>1, <3>2, <3>3, TaskSteps DEF Types
  <2>1. CASE took_event
    <3>1. /\ Head(result_queue) \in Events /\ Tail(result_queue) \in Seq(Events \cup Sentinels)
          /\ Append(batch, Head(result_queue)) \in Seq(Events)
      BY <2>1, ItemsTail, AppendProperties, Sets DEF Types, took_event, take_event
    <3>2. batch' \in Seq(Events)
      <4>1. batch' = Append(batch, Head(result_queue)) \/ batch' = <<>>
        BY <2>1 DEF took_event
      <4>2. <<>> \in Seq(Events)
        OBVIOUS
      <4> QED
        BY <3>1, <4>1, <4>2
    <3>3. /\ result_queue' = Tail(result_queue)
          /\ UNCHANGED <<tree, job, pool_stop, phase, root_of, next_scan_id, stop_flag,
                         pending_scan_rows, writer, handled, open_tx>>
      BY <1>8, <2>1 DEF Writing, took_event, take_event
    <3> QED
      BY <2>0, <3>1, <3>2, <3>3 DEF Types
  <2>2. CASE took_sentinel
    <3>1. /\ Head(result_queue) \in Sentinels /\ Tail(result_queue) \in Seq(Events \cup Sentinels)
      BY <2>2, ItemsTail, Sets DEF Types, took_sentinel, take_sentinel
    <3> QED
      BY <1>8, <2>0, <2>2, <3>1 DEF Types, Writing, took_sentinel, take_sentinel, WriterPlaces
  <2>3. CASE finished \/ finalized
    BY <1>8, <2>0, <2>3 DEF Types, Writing, finished, finish_writing, finalized, finalize_step,
       WriterPlaces
  <2>4. CASE get_scan_task \/ get_scan_task_throws
    BY <1>8, <2>0, <2>4 DEF Types, Writing, get_scan_task, get_scan_task_throws, WriterPlaces,
       Restrict
  <2> QED
    BY <1>8, <2>1, <2>2, <2>3, <2>4 DEF Writing
<1>9. CASE database_fails
  <2>1. CASE write_throws
    <3>1. result_queue' \in Seq(Events \cup Sentinels)
      <4>1. result_queue # <<>> => Tail(result_queue) \in Seq(Events \cup Sentinels)
        BY ItemsTail DEF Types
      <4>2. \/ result_queue' = result_queue
            \/ result_queue # <<>> /\ result_queue' = Tail(result_queue)
        BY <2>1 DEF write_throws
      <4> QED
        BY <4>1, <4>2 DEF Types
    <3> QED
      BY <1>9, <2>1, <3>1 DEF Types, database_fails, write_throws, WriterPlaces
  <2>2. ASSUME NEW commit_fails \in BOOLEAN, finalize_fails(commit_fails) PROVE Types'
    BY <1>9, <2>2 DEF Types, database_fails, finalize_fails, WriterPlaces
  <2> QED
    BY <1>9, <2>1, <2>2 DEF database_fails
<1>10. CASE export_done
  BY <1>10 DEF Types, export_done, finalize_publishes, WriterPlaces, Restrict, NoJobs, JobState
<1>11. CASE restart
  <2>1. next_scan_id' \in Nat
    BY <1>11, MaxId DEF restart, Types
  <2>2. /\ phase' \in [ScanIds -> Phase] /\ job' \in [ScanIds -> [Paths -> JobState]]
        /\ UNCHANGED <<tables, tree>> /\ pool_stop' = FALSE /\ root_of' = EmptyTable
    BY <1>11 DEF restart, NoJobs, JobState, Phase
  <2>3. /\ result_queue' = <<>> /\ stop_flag' = FALSE /\ pending_scan_rows' = EmptyTable
        /\ writer' = "pop" /\ batch' = <<>> /\ handled' = <<>> /\ open_tx' = FALSE
    BY <1>11 DEF restart, ExportStarts
  <2>4. /\ <<>> \in Seq(Events \cup Sentinels) /\ <<>> \in Seq(Events)
        /\ DOMAIN EmptyTable = {}
    BY DEF EmptyTable
  <2> QED
    BY <2>1, <2>2, <2>3, <2>4 DEF Types, WriterPlaces
<1> QED
  BY <1>c, <1>1, <1>2, <1>3, <1>4, <1>5, <1>6, <1>7, <1>8, <1>9, <1>10, <1>11 DEF Control

LEMMA Single == ASSUME NEW x PROVE <<x>> # <<>> /\ <<x>>[1] = x
<1>1. Len(<<x>>) = 1 /\ Len(<<>>) = 0
  OBVIOUS
<1> QED
  BY <1>1

LEMMA NextThread == Types /\ Thread /\ Next => Thread'
<1> SUFFICES ASSUME Types, Thread, Next PROVE Thread'
  OBVIOUS
<1>c. Control
  BY Controls
<1> USE DEF Finalizing
<1>0. DEFINE thread_vars == <<writer, batch, handled, row, export_running,
                              export_finalizing_running>>
<1>1. CASE UNCHANGED thread_vars /\ (stop_flag => stop_flag' /\ result_queue' = result_queue)
  BY <1>1 DEF Thread, Types
<1>2. ASSUME NEW id \in ScanIds,
             cancel_scan(id) \/ flag_sentinel(id) \/ push_sentinel(id) \/ hand_over_row(id)
      PROVE  Thread'
  BY <1>1, <1>2 DEF cancel_scan, flag_sentinel, push_sentinel, hand_over_row, insert_scan_task,
     push_result_queue, export_vars, queue_vars, writer_vars, metrics
<1>3. ASSUME NEW id \in ScanIds, NEW p \in Paths,
             \/ start_scan(id, p) \/ stop_pool_before(id, p)
             \/ visit_node(id, p) \/ finish_node(id, p)
      PROVE  Thread'
  BY <1>1, <1>3 DEF start_scan, stop_pool_before, begin, visit_node, finish_node,
     push_result_queue, export_vars, queue_vars, writer_vars, metrics
<1>4. CASE (\E p \in Paths : tree_changes(p)) \/ stop_pool \/ stop_exporting
  BY <1>1, <1>4 DEF tree_changes, stop_pool, stop_exporting, shutdown, export_vars, queue_vars,
     writer_vars, metrics
<1>5. CASE Writing
  <2>1. CASE took_event
    <3> DEFINE grown == Append(batch, Head(result_queue))
    <3>1. Head(result_queue) \in Events
      BY <2>1, ItemsTail, Sets DEF Types, took_event, take_event
    <3>2. Len(grown) = Len(batch) + 1 /\ Len(batch) \in Nat
      BY <3>1, AppendProperties, LenProperties DEF Types
    <3>3. Len(<<>>) = 0
      OBVIOUS
    <3>4. \/ batch' = grown /\ export_running' = export_running + 1
          \/ batch' = <<>> /\ export_running' = 0
      BY <2>1 DEF took_event
    <3> HIDE DEF grown
    <3>5. export_running' = Len(batch')
      BY <3>2, <3>3, <3>4 DEF Thread
    <3>6. UNCHANGED <<writer, handled, row, export_finalizing_running>> /\ writer = "pop"
      BY <2>1 DEF took_event, take_event
    <3> QED
      BY <3>5, <3>6 DEF Thread
  <2>2. CASE took_sentinel \/ finished
    <3>1. batch' = <<>> /\ export_running' = 0 /\ handled = <<>>
      BY <2>2, LenProperties DEF took_sentinel, take_sentinel, finished, finish_writing, Thread,
         Types
    <3>2. CASE took_sentinel
      <4>1. handled' # <<>> /\ writer' = "row"
        BY <3>2, Single DEF took_sentinel, take_sentinel
      <4>2. export_finalizing_running' = 1
        BY <3>1, <3>2 DEF took_sentinel, take_sentinel, Thread
      <4> QED
        BY <3>1, <4>1, <4>2 DEF Thread
    <3>3. CASE finished
      BY <3>1, <3>3 DEF finished, finish_writing, Thread, queue_vars
    <3> QED
      BY <2>2, <3>2, <3>3
  <2>3. CASE get_scan_task \/ get_scan_task_throws
    BY <2>3, Single DEF get_scan_task, get_scan_task_throws, Thread, metrics, queue_vars
  <2>4. CASE finalized
    BY <2>4 DEF finalized, finalize_step,
       Thread, metrics, queue_vars
  <2> QED
    BY <1>5, <2>1, <2>2, <2>3, <2>4 DEF Writing
<1>6. CASE database_fails
  BY <1>6 DEF database_fails, write_throws, finalize_fails, Thread, metrics, queue_vars
<1>7. CASE export_done
  BY <1>7 DEF export_done, finalize_publishes, Thread, queue_vars
<1>8. CASE restart
  BY <1>8 DEF restart, ExportStarts, Thread
<1> QED
  BY <1>c, <1>2, <1>3, <1>4, <1>5, <1>6, <1>7, <1>8 DEF Control

\* What a step of the result thread, or an error in it, leaves alone.
LEMMA Writes ==
  ASSUME Writing \/ database_fails
  PROVE  UNCHANGED <<tree, job, pool_stop, canceled, truncated, phase, root_of, root_map, late,
                     next_scan_id, flagged, ended, exported_map, stop_flag>>
<1>1. CASE Writing
  BY <1>1 DEF Writing, took_event, take_event, took_sentinel, take_sentinel, finished,
     finish_writing, get_scan_task,
     get_scan_task_throws, finalized,
     finalize_step, walk_vars, scan_vars, registry_vars, start_vars, queue_vars
<1>2. CASE database_fails
  BY <1>2 DEF database_fails, write_throws, finalize_fails, walk_vars, registry_vars, start_vars,
     queue_vars
<1> QED
  BY <1>1, <1>2

\* What a step of a scan's walk leaves alone.
LEMMA Walks ==
  ASSUME NEW id \in ScanIds, NEW p \in Paths, visit_node(id, p) \/ finish_node(id, p)
  PROVE  /\ visit_node(id, p) \/ skip_node(id, p) \/ read_dir(id, p)
         /\ UNCHANGED <<phase, root_of, root_map, late, next_scan_id, flagged, ended,
                        pending_scan_rows, exported_map, stop_flag, writer, handled, row, failed,
                        scan_task_table>>
BY DEF visit_node, finish_node, push_result_queue, tables, scan_vars, registry_vars, start_vars,
   export_vars, queue_vars, writer_vars

\* A scan that begins is in no table and on no root that is blocked.
LEMMA Begins ==
  ASSUME Types, Progress, NEW id \in ScanIds, NEW p \in Paths,
         start_scan(id, p) \/ stop_pool_before(id, p)
  PROVE  /\ phase[id] = "new" /\ phase' = [phase EXCEPT ![id] = "walking"] /\ id >= next_scan_id
         /\ id \notin DOMAIN root_of /\ p \notin root_map
         /\ root_of' = Put(id, p, root_of) /\ root_map' = root_map \cup {p}
         /\ ~pool_stop /\ \A i \in ScanIds : i # id => job'[i] = job[i]
         /\ job'[id][p] \in {"waiting", "dropped"}
         /\ \A q \in Paths : q # p => job'[id][q] = job[id][q]
         /\ job'[id][p] = "waiting" => UNCHANGED <<pool_stop, late, truncated>>
         /\ job'[id][p] = "dropped" =>
              /\ \A i \in ScanIds : ~walking(i)
              /\ pool_stop' = TRUE /\ late' = {id} /\ truncated' = truncated \cup {id}
         /\ UNCHANGED <<tables, export_vars, flagged, ended, next_scan_id, canceled>>
<1>1. begin(id, p) /\ ~pool_stop
  BY DEF start_scan, stop_pool_before, start_walk, stop_before, begin, Types
<1>2. p \notin root_map
  <2> SUFFICES ASSUME p \in root_map PROVE FALSE
    OBVIOUS
  <2>1. ~Overlap[<<p, p>>]
    BY <1>1 DEF begin
  <2>2. Overlap[<<p, p>>] = paths_overlap(TextOf[p], TextOf[p])
    BY DEF Overlap
  <2> QED
    BY <2>1, <2>2 DEF paths_overlap
<1>3. CASE start_walk(id, p) /\ UNCHANGED late
  <2>1. job' = [job EXCEPT ![id][p] = "waiting"] /\ UNCHANGED <<pool_stop, truncated, canceled>>
    BY <1>3 DEF start_walk, set_job
  <2> QED
    BY <1>1, <1>2, <1>3, <2>1 DEF begin, Types, Progress, set_phase
<1>4. CASE stop_before(id, p) /\ late' = {id} /\ \A i \in ScanIds : ~walking(i)
  <2>1. /\ job' = [job EXCEPT ![id][p] = "dropped"] /\ pool_stop' = TRUE
        /\ truncated' = truncated \cup {id} /\ UNCHANGED canceled
    BY <1>4 DEF stop_before, set_job
  <2> QED
    BY ZenonT(30), <1>1, <1>2, <1>4, <2>1 DEF begin, Types, Progress, set_phase
<1> QED
  BY <1>3, <1>4 DEF start_scan, stop_pool_before

\* The walk's lists of jobs only matter through these two.
LEMMA WalkedOn ==
  ASSUME Types, Progress, NEW id \in ScanIds, NEW p \in Paths,
         visit_node(id, p) \/ finish_node(id, p)
  PROVE  /\ walking(id) /\ phase[id] = "walking" /\ ~refused(id) /\ ~refused(id)'
         /\ \A i \in ScanIds : walking(i)' => walking(i)
         /\ \A i \in ScanIds : refused(i)' <=> refused(i)
         /\ \A i \in ScanIds : i \in truncated' /\ i # id => i \in truncated
         /\ id \in truncated' \ truncated => id \in canceled \/ pool_stop
         /\ UNCHANGED <<pool_stop, canceled>>
<1>1. /\ walking(id) /\ \A i \in ScanIds : i # id => job'[i] = job[i]
      /\ \A q \in Paths : job'[id][q] = "dropped" => job[id][q] = "dropped"
      /\ UNCHANGED <<pool_stop, canceled, root_of>>
  BY Walked, Walks
<1>2. phase[id] = "walking" /\ ~refused(id)
  BY <1>1 DEF Progress
<1>3. ~refused(id)'
  BY <1>1, <1>2 DEF refused, Types
<1>4. \A i \in ScanIds : walking(i)' => walking(i)
  BY <1>1 DEF walking
<1>5. \A i \in ScanIds : refused(i)' <=> refused(i)
  BY <1>1, <1>2, <1>3 DEF refused
<1>6. /\ \A i \in ScanIds : i \in truncated' /\ i # id => i \in truncated
      /\ id \in truncated' \ truncated => id \in canceled \/ pool_stop
  BY DEF visit_node, visit_missing, visit_unreadable, visit_leaf, visit_dir, finish_node,
     skip_node, read_dir
<1> QED
  BY <1>1, <1>2, <1>3, <1>4, <1>5, <1>6

LEMMA NextProgress == Types /\ Thread /\ Progress /\ Next => Progress'
<1> SUFFICES ASSUME Types, Thread, Progress, Next PROVE Progress'
  OBVIOUS
<1>c. Control
  BY Controls
<1> DEFINE progress_vars == <<phase, job, root_of, root_map, truncated, exported_map,
                              pending_scan_rows, writer, handled, row>>
<1> USE DEF Finalizing
<1>1. CASE UNCHANGED progress_vars
  BY <1>1 DEF Progress, walking, refused, sentinel
<1>2. ASSUME NEW id \in ScanIds, cancel_scan(id) PROVE Progress'
  BY <1>1, <1>2 DEF cancel_scan, export_vars, writer_vars, scan_vars, registry_vars, start_vars
<1>3. ASSUME NEW id \in ScanIds, flag_sentinel(id) \/ push_sentinel(id) PROVE Progress'
  <2>1. /\ UNCHANGED <<job, root_of, root_map, truncated, exported_map, pending_scan_rows,
                       writer, handled, row>>
        /\ phase[id] \in {"walking", "flagged"} /\ ~walking(id)
        /\ phase' = [phase EXCEPT ![id] = phase'[id]] /\ phase'[id] \in {"flagged", "sent"}
    BY <1>3 DEF flag_sentinel, push_sentinel, push_result_queue, set_phase, walk_vars,
       export_vars, writer_vars, start_vars, Types, Progress
  <2>2. \A i \in ScanIds : (walking(i)' <=> walking(i)) /\ (refused(i)' <=> refused(i))
    BY <2>1 DEF walking, refused
  <2> QED
    BY <2>1, <2>2 DEF Progress, Types, sentinel
<1>4. ASSUME NEW id \in ScanIds, hand_over_row(id) PROVE Progress'
  <2> DEFINE data == [root |-> root_of[id], end |-> IF id \in ended THEN "CANCELED" ELSE "DONE"]
  <2>1. /\ UNCHANGED <<job, root_of, root_map, truncated, exported_map, writer, handled, row>>
        /\ phase[id] = "sent" /\ phase' = [phase EXCEPT ![id] = "ended"]
        /\ pending_scan_rows' = Put(id, data, pending_scan_rows)
        /\ data.root = root_of[id]
    BY <1>4 DEF hand_over_row, insert_scan_task, set_phase, walk_vars, start_vars, writer_vars
  <2>2. \A i \in ScanIds : (walking(i)' <=> walking(i)) /\ (refused(i)' <=> refused(i))
    BY <2>1 DEF walking, refused
  <2> HIDE DEF data
  <2>3. /\ DOMAIN pending_scan_rows' = DOMAIN pending_scan_rows \cup {id}
        /\ pending_scan_rows'[id].root = root_of[id]
        /\ \A i \in DOMAIN pending_scan_rows :
             i # id => pending_scan_rows'[i] = pending_scan_rows[i]
    BY <2>1 DEF Put
  <2>4. writer \in Finalizing => sentinel.id # id
    BY <2>1 DEF Progress
  <2> QED
    BY <2>1, <2>2, <2>3, <2>4 DEF Progress, Types, sentinel
<1>5. ASSUME NEW id \in ScanIds, NEW p \in Paths, start_scan(id, p) \/ stop_pool_before(id, p)
      PROVE  Progress'
  <2>1. /\ phase[id] = "new" /\ phase' = [phase EXCEPT ![id] = "walking"]
        /\ id \notin DOMAIN root_of /\ p \notin root_map
        /\ root_of' = Put(id, p, root_of) /\ root_map' = root_map \cup {p}
        /\ \A i \in ScanIds : i # id => job'[i] = job[i]
        /\ job'[id][p] \in {"waiting", "dropped"}
        /\ \A q \in Paths : q # p => job'[id][q] = job[id][q]
        /\ truncated' = truncated \/ truncated' = truncated \cup {id}
        /\ UNCHANGED <<pending_scan_rows, exported_map, writer, handled, row>>
    BY ZenonT(30), <1>5, Begins DEF export_vars, writer_vars
  <2>2. /\ DOMAIN root_of' = DOMAIN root_of \cup {id} /\ root_of'[id] = p
        /\ \A i \in DOMAIN root_of : root_of'[i] = root_of[i]
    BY <2>1 DEF Put
  <2>3. /\ \A i \in ScanIds : i # id => (walking(i)' <=> walking(i)) /\ (refused(i)' <=> refused(i))
        /\ walking(id)' => ~refused(id)'
    <3>1. ~walking(id)
      BY <2>1 DEF Progress
    <3> QED
      BY <2>1, <2>2, <3>1 DEF walking, refused
  <2>4. root_map' = {root_of'[i] : i \in DOMAIN root_of'}
    BY <2>1, <2>2 DEF Progress
  <2>5. \A i, j \in DOMAIN root_of' : root_of'[i] = root_of'[j] => i = j
    BY <2>1, <2>2 DEF Progress
  <2>6. id \notin DOMAIN pending_scan_rows /\ (writer \in Finalizing => sentinel.id # id)
    BY <2>1 DEF Progress
  <2> QED
    BY <2>1, <2>2, <2>3, <2>4, <2>5, <2>6 DEF Progress, Types, sentinel
<1>6. ASSUME NEW id \in ScanIds, NEW p \in Paths, visit_node(id, p) \/ finish_node(id, p)
      PROVE  Progress'
  BY <1>6, Walks, WalkedOn DEF Progress, sentinel
<1>7. CASE (\E p \in Paths : tree_changes(p)) \/ stop_pool \/ stop_exporting
  BY <1>1, <1>7 DEF tree_changes, change_tree, stop_pool, stop_walks, stop_exporting, shutdown,
     export_vars, writer_vars, walk_vars, scan_vars, registry_vars, start_vars
<1>8. CASE Writing \/ database_fails
  <2>1. UNCHANGED <<job, truncated, phase, root_of, root_map, exported_map>>
    BY <1>8, Writes
  <2>2. \A i \in ScanIds : (walking(i)' <=> walking(i)) /\ (refused(i)' <=> refused(i))
    BY <2>1 DEF walking, refused
  <2>3. CASE get_scan_task
    <3>1. /\ row' = <<pending_scan_rows[sentinel.id]>> /\ handled' = handled
          /\ sentinel.id \in DOMAIN pending_scan_rows
          /\ DOMAIN pending_scan_rows' = DOMAIN pending_scan_rows \ {sentinel.id}
          /\ \A i \in DOMAIN pending_scan_rows' : pending_scan_rows'[i] = pending_scan_rows[i]
      BY <2>3 DEF get_scan_task, Restrict
    <3>2. row'[1] = pending_scan_rows[sentinel.id]
      BY <3>1, Single
    <3> QED
      BY <2>1, <2>2, <3>1, <3>2 DEF Progress, sentinel
  <2>4. CASE \/ UNCHANGED <<pending_scan_rows, handled, row>>
                /\ (writer' \in Finalizing => writer \in Finalizing)
             \/ UNCHANGED pending_scan_rows /\ writer' \notin Finalizing
    BY <2>1, <2>2, <2>4 DEF Progress, sentinel
  <2> QED
    BY <1>8, <2>3, <2>4 DEF Writing, took_event, take_event, took_sentinel, take_sentinel,
       finished, finish_writing,
       get_scan_task_throws, finalized,
       finalize_step, database_fails, write_throws, finalize_fails
<1>9. CASE export_done
  <2>0. PICK id \in ScanIds : id = sentinel.id
    BY <1>9 DEF export_done, finalize_publishes, Progress, Types
  <2>1. /\ id \in DOMAIN root_of /\ row[1].root = root_of[id] /\ id \notin DOMAIN pending_scan_rows
        /\ id \in ScanIds /\ phase[id] = "ended" /\ writer = "publish"
    BY <1>9, <2>0 DEF export_done, finalize_publishes, Progress
  <2>2. /\ job' = [job EXCEPT ![id] = NoJobs] /\ truncated' = truncated \ {id}
        /\ root_map' = root_map \ {root_of[id]}
        /\ DOMAIN root_of' = DOMAIN root_of \ {id}
        /\ \A i \in DOMAIN root_of' : root_of'[i] = root_of[i]
        /\ exported_map' = exported_map \cup {id} /\ writer' = "pop"
        /\ UNCHANGED <<phase, pending_scan_rows>>
    BY <1>9, <2>0, <2>1 DEF export_done, finalize_publishes, Restrict
  <2>3. \A i \in ScanIds : /\ i # id => (walking(i)' <=> walking(i)) /\ (refused(i)' <=> refused(i))
                           /\ ~walking(id)'
    <3>1. \A i \in ScanIds : i # id => job'[i] = job[i]
      BY <2>2 DEF Types
    <3>2. \A q \in Paths : job'[id][q] = "none"
      BY <2>1, <2>2 DEF Types, NoJobs
    <3>3. ~walking(id)'
      BY <3>2 DEF walking
    <3>4. \A i \in ScanIds : i # id => (walking(i)' <=> walking(i))
      BY <3>1 DEF walking
    <3>5. \A i \in ScanIds : i # id => (refused(i)' <=> refused(i))
      BY <2>2, <3>1 DEF refused
    <3> QED
      BY <3>3, <3>4, <3>5
  <2>4. root_map' = {root_of'[i] : i \in DOMAIN root_of'}
    BY <2>1, <2>2 DEF Progress
  <2>5. \A i \in ScanIds : walking(i)' => phase'[i] = "walking" /\ ~refused(i)'
    BY <2>2, <2>3 DEF Progress
  <2>6. \A i \in ScanIds : /\ phase'[i] = "new" => i \notin DOMAIN root_of' /\ i \notin truncated'
                           /\ phase'[i] \in {"walking", "flagged", "sent"} => i \in DOMAIN root_of'
                           /\ phase'[i] = "ended" => i \in exported_map' \cup DOMAIN root_of'
    BY <2>1, <2>2 DEF Progress
  <2>7. \A i \in DOMAIN pending_scan_rows' :
          /\ phase'[i] = "ended" /\ i \in DOMAIN root_of'
          /\ pending_scan_rows'[i].root = root_of'[i]
    BY <2>1, <2>2 DEF Progress
  <2>8. \A i, j \in DOMAIN root_of' : root_of'[i] = root_of'[j] => i = j
    BY <2>2 DEF Progress
  <2> QED
    BY <2>2, <2>4, <2>5, <2>6, <2>7, <2>8 DEF Progress
<1>10. CASE restart
  <2>1. /\ phase' = [id \in ScanIds |-> "new"] /\ DOMAIN root_of' = {} /\ root_map' = {}
        /\ job' = [id \in ScanIds |-> NoJobs] /\ truncated' = {}
        /\ DOMAIN pending_scan_rows' = {} /\ writer' = "pop"
    BY <1>10 DEF restart, ExportStarts, EmptyTable
  <2>2. \A i \in ScanIds : ~walking(i)'
    BY <2>1 DEF walking, NoJobs
  <2> QED
    BY <2>1, <2>2 DEF Progress
<1> QED
  BY <1>c, <1>2, <1>3, <1>4, <1>5, <1>6, <1>7, <1>8, <1>9, <1>10 DEF Control

\* A push leaves what is queued, and a new sentinel is queued or the queue stopped.
LEMMA PushKeeps ==
  ASSUME Types, NEW e \in Events \cup Sentinels, push_result_queue(e)
  PROVE  /\ \A i : Queued(i) => Queued(i)'
         /\ e.sentinel => Queued(e.id)' \/ stop_flag
         /\ \A s \in ToSet(result_queue') : s = e \/ s \in ToSet(result_queue)
         /\ UNCHANGED <<stop_flag, pending_scan_rows, exported_map, writer, batch, handled, row,
                        open_tx, failed>>
<1>1. ToSet(result_queue') = ToSet(result_queue)
      \/ ToSet(result_queue') = ToSet(result_queue) \cup {e}
  BY Pushed
<1>2. ~stop_flag => e \in ToSet(result_queue')
  BY Pushed
<1> QED
  BY <1>1, <1>2, Pushed DEF Queued

\* What is popped is not queued any more, or is so twice.
LEMMA PopKeeps ==
  ASSUME Types, result_queue # <<>>, result_queue' = Tail(result_queue)
  PROVE  /\ \A i : Queued(i) =>
               Queued(i)' \/ (Head(result_queue).sentinel /\ Head(result_queue).id = i)
         /\ Head(result_queue) \in ToSet(result_queue)
         /\ ToSet(result_queue') \subseteq ToSet(result_queue)
<1>1. ToSet(result_queue) = ToSet(Tail(result_queue)) \cup {Head(result_queue)}
  BY ItemsTail DEF Types
<1>2. ToSet(result_queue) = ToSet(result_queue') \cup {Head(result_queue)}
  BY <1>1
<1>3. ASSUME NEW i, Queued(i)
      PROVE  Queued(i)' \/ (Head(result_queue).sentinel /\ Head(result_queue).id = i)
  <2>1. PICK s \in ToSet(result_queue) : s.sentinel /\ s.id = i
    BY <1>3 DEF Queued
  <2>2. CASE s = Head(result_queue)
    BY <2>1, <2>2
  <2>3. CASE s \in ToSet(result_queue')
    BY <2>1, <2>3 DEF Queued
  <2> QED
    BY <1>2, <2>1, <2>2, <2>3
<1> QED
  BY <1>2, <1>3

LEMMA NextTracked == Types /\ Thread /\ Progress /\ Tracked /\ Next => Tracked'
<1> SUFFICES ASSUME Types, Thread, Progress, Tracked, Next PROVE Tracked'
  OBVIOUS
<1>c. Control
  BY Controls
<1>1. ASSUME UNCHANGED <<phase, job, root_of, result_queue, handled, failed, writer>>,
             stop_flag' = stop_flag, pool_stop' = pool_stop
      PROVE  Tracked'
  BY <1>1 DEF Tracked, refused, Queued, Handling, sentinel
<1>2. ASSUME NEW id \in ScanIds, cancel_scan(id) PROVE Tracked'
  BY <1>1, <1>2 DEF cancel_scan, export_vars, queue_vars, writer_vars, scan_vars, registry_vars,
     start_vars
<1>3. ASSUME NEW id \in ScanIds, flag_sentinel(id) \/ push_sentinel(id) \/ hand_over_row(id)
      PROVE  Tracked'
  <2>1. /\ UNCHANGED <<job, root_of, pool_stop, stop_flag, handled, failed, writer>>
        /\ \A i \in ScanIds : i # id => phase'[i] = phase[i]
        /\ phase[id] # "new"
    BY <1>3 DEF flag_sentinel, push_sentinel, hand_over_row, insert_scan_task, push_result_queue,
       set_phase, walk_vars, export_vars, queue_vars, writer_vars, start_vars, Types
  <2>2. /\ \A i \in ScanIds : refused(i)' <=> refused(i)
        /\ \A i \in ScanIds : Handling(i)' <=> Handling(i)
    BY <2>1 DEF refused, Handling, sentinel
  <2>3. CASE push_sentinel(id)
    <3> DEFINE s == [sentinel |-> TRUE, id |-> id, canceled |-> id \in flagged]
    <3>1. s \in Sentinels /\ s.sentinel /\ s.id = id /\ push_result_queue(s)
      BY <2>3 DEF push_sentinel, Sentinels
    <3> HIDE DEF s
    <3>2. (\A i : Queued(i) => Queued(i)') /\ (Queued(id)' \/ stop_flag)
      BY <3>1, PushKeeps
    <3>3. stop_flag => refused(id)
      BY <2>3 DEF push_sentinel, Tracked
    <3> QED
      BY <2>1, <2>2, <3>2, <3>3 DEF Tracked, Types
  <2>4. CASE flag_sentinel(id) \/ hand_over_row(id)
    <3>1. /\ result_queue' = result_queue
          /\ \/ phase[id] = "walking" /\ phase'[id] = "flagged"
             \/ phase[id] = "sent" /\ phase'[id] = "ended"
      BY <2>4 DEF flag_sentinel, hand_over_row, insert_scan_task, set_phase, export_vars,
         queue_vars, Types
    <3>2. \A i \in ScanIds : Queued(i)' <=> Queued(i)
      BY <3>1 DEF Queued
    <3> QED
      BY <2>1, <2>2, <3>1, <3>2 DEF Tracked, Types
  <2> QED
    BY <1>3, <2>3, <2>4
<1>4. ASSUME NEW id \in ScanIds, NEW p \in Paths, start_scan(id, p) \/ stop_pool_before(id, p)
      PROVE  Tracked'
  <2>1. /\ ~pool_stop /\ phase[id] = "new" /\ phase' = [phase EXCEPT ![id] = "walking"]
        /\ root_of' = Put(id, p, root_of)
        /\ \A i \in ScanIds : i # id => job'[i] = job[i]
        /\ UNCHANGED <<result_queue, stop_flag, handled, failed, writer>>
    BY <1>4, Begins DEF export_vars, queue_vars, writer_vars
  <2>2. \A i \in ScanIds : i # id => (refused(i)' <=> refused(i))
    BY <2>1 DEF refused, Put
  <2>3. \A i \in ScanIds : (Handling(i)' <=> Handling(i)) /\ (Queued(i)' <=> Queued(i))
    BY <2>1 DEF Handling, Queued, sentinel
  <2>4. ~stop_flag /\ DOMAIN root_of' = DOMAIN root_of \cup {id}
    BY <2>1 DEF Tracked, Put
  <2> QED
    BY <2>1, <2>2, <2>3, <2>4 DEF Tracked, Types
<1>5. ASSUME NEW id \in ScanIds, NEW p \in Paths, visit_node(id, p) \/ finish_node(id, p)
      PROVE  Tracked'
  <2>1. /\ UNCHANGED <<phase, root_of, pool_stop, stop_flag, writer, handled, failed>>
        /\ \A i \in ScanIds : refused(i)' <=> refused(i)
    BY <1>5, Walks, WalkedOn
  <2>2. \A i : Queued(i) => Queued(i)'
    <3>1. CASE visit_node(id, p)
      BY <3>1, Recorded, PushKeeps
    <3>2. CASE finish_node(id, p)
      BY <3>2 DEF finish_node, export_vars, queue_vars, Queued
    <3> QED
      BY <1>5, <3>1, <3>2
  <2>3. \A i \in ScanIds : Handling(i)' <=> Handling(i)
    BY <2>1 DEF Handling, sentinel
  <2> QED
    BY <2>1, <2>2, <2>3 DEF Tracked, Types
<1>6. ASSUME NEW p \in Paths, tree_changes(p) PROVE Tracked'
  BY <1>1, <1>6 DEF tree_changes, change_tree, export_vars, queue_vars, writer_vars,
     registry_vars, start_vars
<1>7. CASE stop_pool \/ stop_exporting
  <2>1. /\ UNCHANGED <<phase, job, root_of, result_queue, handled, failed, writer>>
        /\ \A i \in ScanIds : refused(i)' <=> refused(i)
    BY <1>7 DEF stop_pool, stop_walks, stop_exporting, shutdown, export_vars, queue_vars,
       writer_vars, walk_vars, scan_vars, registry_vars, start_vars, refused
  <2>2. \A i \in ScanIds : (Handling(i)' <=> Handling(i)) /\ (Queued(i)' <=> Queued(i))
    BY <2>1 DEF Handling, Queued, sentinel
  <2>3. \/ stop_flag' = stop_flag /\ ~pool_stop
        \/ pool_stop' /\ \A i \in ScanIds : phase[i] \in {"new", "ended"} \/ refused(i)
    BY <1>7 DEF stop_pool, stop_walks, stop_exporting, export_vars, queue_vars, walk_vars
  <2> QED
    BY <2>1, <2>2, <2>3 DEF Tracked, Types
<1>8. CASE Writing \/ database_fails
  <2>1. UNCHANGED <<job, pool_stop, phase, root_of, stop_flag>>
    BY <1>8, Writes
  <2>2. \A i \in ScanIds : refused(i)' <=> refused(i)
    BY <2>1 DEF refused
  <2>3. CASE took_event \/ took_sentinel
    <3>1. /\ result_queue # <<>> /\ result_queue' = Tail(result_queue) /\ failed' = failed
          /\ writer = "pop" /\ writer' # "dead"
          /\ Head(result_queue).sentinel => handled' = <<Head(result_queue)>>
      BY <2>3 DEF took_event, take_event, took_sentinel, take_sentinel
    <3>2. \A i \in ScanIds : Queued(i) => Queued(i)' \/ Handling(i)'
      BY <3>1, PopKeeps, Single DEF Handling, sentinel
    <3>3. \A i \in ScanIds : ~Handling(i)
      BY <3>1 DEF Handling, Thread
    <3> QED
      BY <2>1, <2>2, <3>1, <3>2, <3>3 DEF Tracked, Types
  <2>4. CASE UNCHANGED <<result_queue, handled, failed>>
    <3>1. \A i \in ScanIds : (Handling(i)' <=> Handling(i)) /\ (Queued(i)' <=> Queued(i))
      BY <2>4 DEF Handling, Queued, sentinel
    <3>2. writer' # "dead" => writer # "dead"
      BY <1>8 DEF Writing, took_event, take_event, took_sentinel, take_sentinel, finished,
         finish_writing, get_scan_task,
         get_scan_task_throws, finalized,
         finalize_step, database_fails, write_throws, finalize_fails
    <3> QED
      BY <2>1, <2>2, <2>4, <3>1, <3>2 DEF Tracked, Types
  <2>5. ASSUME NEW commit_fails \in BOOLEAN, finalize_fails(commit_fails) PROVE Tracked'
    <3>1. /\ result_queue' = result_queue /\ failed' = failed \cup {sentinel.id}
          /\ writer # "dead"
      BY <2>5 DEF finalize_fails, queue_vars
    <3>2. \A i \in ScanIds : /\ Queued(i)' <=> Queued(i)
                             /\ Handling(i) => i \in failed'
      BY <3>1 DEF Queued, Handling
    <3> QED
      BY <2>1, <2>2, <3>1, <3>2 DEF Tracked, Types
  <2>6. CASE writer' = "dead"
    BY <2>1, <2>2, <2>6 DEF Tracked
  <2> QED
    BY <1>8, <2>3, <2>4, <2>5, <2>6 DEF Writing, finished, finish_writing, get_scan_task,
       get_scan_task_throws, finalized,
       finalize_step, database_fails, write_throws, queue_vars
<1>9. CASE export_done
  <2>0. PICK id \in ScanIds : id = sentinel.id
    BY <1>9 DEF export_done, finalize_publishes, Progress, Types, Finalizing
  <2>1. /\ job' = [job EXCEPT ![id] = NoJobs] /\ writer = "publish"
        /\ DOMAIN root_of' = DOMAIN root_of \ {id}
        /\ \A i \in DOMAIN root_of' : root_of'[i] = root_of[i]
        /\ UNCHANGED <<phase, pool_stop, result_queue, stop_flag, failed>>
        /\ phase[id] = "ended"
    BY <1>9, <2>0 DEF export_done, finalize_publishes, Restrict, queue_vars, Progress, Finalizing
  <2>2. \A i \in ScanIds : i # id => (refused(i)' <=> refused(i))
    BY <2>1 DEF refused, Types
  <2>3. \A i \in ScanIds : (Queued(i)' <=> Queued(i)) /\ (i # id => ~Handling(i))
    BY <2>0, <2>1 DEF Queued, Handling
  <2> QED
    BY <2>1, <2>2, <2>3 DEF Tracked, Types
<1>10. CASE restart
  BY <1>10 DEF restart, ExportStarts, Tracked, EmptyTable
<1> QED
  BY <1>c, <1>2, <1>3, <1>4, <1>5, <1>6, <1>7, <1>8, <1>9, <1>10 DEF Control

LEMMA NextFlags == Types /\ Thread /\ Progress /\ Flags /\ Next => Flags'
<1> SUFFICES ASSUME Types, Thread, Progress, Flags, Next PROVE Flags'
  OBVIOUS
<1>c. Control
  BY Controls
<1>1. ASSUME UNCHANGED <<phase, job, result_queue, handled, truncated, late, flagged, ended>>,
             pool_stop' = pool_stop, canceled \subseteq canceled'
      PROVE  Flags'
  BY <1>1 DEF Flags, walking, CutOff, sentinel
<1>2. ASSUME NEW id \in ScanIds, cancel_scan(id) PROVE Flags'
  BY <1>1, <1>2 DEF cancel_scan, export_vars, queue_vars, writer_vars, scan_vars, registry_vars,
     start_vars
<1>3. ASSUME NEW id \in ScanIds, flag_sentinel(id) \/ push_sentinel(id) \/ hand_over_row(id)
      PROVE  Flags'
  <2>1. /\ UNCHANGED <<job, pool_stop, truncated, late, canceled, handled>>
        /\ \A i \in ScanIds : i # id => phase'[i] = phase[i]
    BY <1>3 DEF flag_sentinel, push_sentinel, hand_over_row, insert_scan_task, push_result_queue,
       set_phase, walk_vars, export_vars, writer_vars, start_vars, Types
  <2>2. \A i \in ScanIds : (walking(i)' <=> walking(i)) /\ (CutOff(i)' <=> CutOff(i))
    BY <2>1 DEF walking, CutOff
  <2>3. CutOff(id) => id \in canceled
    BY DEF CutOff, Flags
  <2>4. handled # <<>> => sentinel.id \in ScanIds
    BY Sets, Single DEF Types, sentinel
  <2>5. CASE flag_sentinel(id)
    <3>1. /\ phase[id] = "walking" /\ phase'[id] = "flagged" /\ UNCHANGED <<result_queue, ended>>
          /\ flagged' = IF id \in canceled THEN flagged \cup {id} ELSE flagged
      BY <2>5 DEF flag_sentinel, set_phase, export_vars, queue_vars, Types
    <3>2. /\ handled # <<>> => sentinel.id # id
          /\ \A s \in ToSet(result_queue) : s.sentinel => s.id # id /\ s.id \in ScanIds
      <4>1. \A s \in ToSet(result_queue) : s.sentinel => s.id \in ScanIds
        BY Sets, ItemTypes
      <4> QED
        BY <3>1, <4>1 DEF Flags
    <3> QED
      BY <2>1, <2>2, <2>3, <2>4, <3>1, <3>2 DEF Flags, sentinel
  <2>6. CASE push_sentinel(id)
    <3> DEFINE s == [sentinel |-> TRUE, id |-> id, canceled |-> id \in flagged]
    <3>1. /\ phase[id] = "flagged" /\ phase'[id] = "sent" /\ flagged' = flagged
          /\ ended' = IF id \in canceled THEN ended \cup {id} ELSE ended
          /\ s \in Sentinels /\ push_result_queue(s) /\ s.id = id /\ s.canceled = (id \in flagged)
      BY <2>6 DEF push_sentinel, set_phase, Types, Sentinels
    <3> HIDE DEF s
    <3>2. \A r \in ToSet(result_queue') : r = s \/ r \in ToSet(result_queue)
      BY <3>1, PushKeeps
    <3>3. /\ handled # <<>> => sentinel.id # id
          /\ \A r \in ToSet(result_queue) : r.sentinel => r.id # id /\ r.id \in ScanIds
      <4>1. \A r \in ToSet(result_queue) : r.sentinel => r.id \in ScanIds
        BY Sets, ItemTypes
      <4> QED
        BY <3>1, <4>1 DEF Flags
    <3>4. \A r \in ToSet(result_queue') : r.sentinel =>
            /\ phase'[r.id] \in {"sent", "ended"}
            /\ CutOff(r.id)' => r.canceled
      <4>1. ASSUME NEW r \in ToSet(result_queue'), r.sentinel
            PROVE  phase'[r.id] \in {"sent", "ended"} /\ (CutOff(r.id)' => r.canceled)
        <5>1. CASE r = s
          BY <2>2, <3>1, <5>1 DEF Flags
        <5>2. CASE r \in ToSet(result_queue)
          BY <2>1, <2>2, <3>3, <4>1, <5>2 DEF Flags
        <5> QED
          BY <3>2, <5>1, <5>2
      <4> QED
        BY <4>1
    <3>5. \A i \in ScanIds : i # id => (i \in ended' <=> i \in ended)
      BY <3>1
    <3> QED
      BY <2>1, <2>2, <2>3, <2>4, <3>1, <3>3, <3>4, <3>5 DEF Flags, sentinel
  <2>7. CASE hand_over_row(id)
    <3>1. /\ phase[id] = "sent" /\ phase'[id] = "ended"
          /\ UNCHANGED <<result_queue, flagged, ended>>
      BY <2>7 DEF hand_over_row, insert_scan_task, set_phase, queue_vars, Types
    <3>2. \A i \in ScanIds : phase'[i] \in {"sent", "ended"} <=> phase[i] \in {"sent", "ended"}
      BY <2>1, <3>1
    <3>3. \A s \in ToSet(result_queue) : s.sentinel => s.id \in ScanIds
      BY Sets, ItemTypes
    <3> QED
      BY <2>1, <2>2, <2>4, <3>1, <3>2, <3>3 DEF Flags, sentinel
  <2> QED
    BY <1>3, <2>5, <2>6, <2>7
<1>4. ASSUME NEW id \in ScanIds, NEW p \in Paths, start_scan(id, p) \/ stop_pool_before(id, p)
      PROVE  Flags'
  <2>1. /\ ~pool_stop /\ phase[id] = "new" /\ phase' = [phase EXCEPT ![id] = "walking"]
        /\ \A i \in ScanIds : i # id => job'[i] = job[i]
        /\ job'[id][p] \in {"waiting", "dropped"}
        /\ \A q \in Paths : q # p => job'[id][q] = job[id][q]
        /\ job'[id][p] = "waiting" => UNCHANGED <<pool_stop, late, truncated>>
        /\ job'[id][p] = "dropped" =>
              /\ \A i \in ScanIds : ~walking(i)
              /\ pool_stop' = TRUE /\ late' = {id} /\ truncated' = truncated \cup {id}
        /\ UNCHANGED <<result_queue, handled, flagged, ended, canceled>>
    BY ZenonT(30), <1>4, Begins DEF export_vars, queue_vars, writer_vars
  <2>2. late = {} /\ (handled # <<>> => sentinel.id \in ScanIds /\ sentinel.id # id)
    BY <2>1, Sets, Single DEF Flags, Types, sentinel
  <2>3. \A s \in ToSet(result_queue) : s.sentinel => s.id \in ScanIds /\ s.id # id
    BY <2>1, Sets, ItemTypes DEF Flags
  <2>4. \A i \in ScanIds : i # id => phase'[i] = phase[i] /\ (CutOff(i)' <=> CutOff(i))
    BY <2>1, <2>2 DEF CutOff, Types
  <2>5. phase'[id] = "walking"
    BY <2>1 DEF Types
  <2>6. CASE job'[id][p] = "waiting"
    BY <2>1, <2>2, <2>3, <2>4, <2>5, <2>6 DEF Flags, sentinel
  <2>7. CASE job'[id][p] = "dropped"
    <3>1. \A i \in ScanIds : ~walking(i)'
      BY <2>1, <2>7 DEF walking
    <3> QED
      BY <2>1, <2>2, <2>3, <2>4, <2>5, <2>7, <3>1 DEF Flags, sentinel
  <2> QED
    BY <2>1, <2>6, <2>7
<1>5. ASSUME NEW id \in ScanIds, NEW p \in Paths, visit_node(id, p) \/ finish_node(id, p)
      PROVE  Flags'
  <2>1. UNCHANGED <<phase, handled, late, flagged, ended, pool_stop, canceled>>
    BY <1>5, Walks, WalkedOn
  <2>2. /\ phase[id] = "walking" /\ \A i \in ScanIds : walking(i)' => walking(i)
        /\ \A i \in ScanIds : i \in truncated' /\ i # id => i \in truncated
        /\ id \in truncated' => id \in canceled \cup late
        /\ truncated' \subseteq truncated \cup {id}
    <3>1. id \in truncated' \ truncated => id \in canceled \/ pool_stop
      BY <1>5, WalkedOn
    <3>2. truncated' \subseteq truncated \cup {id}
      BY <1>5 DEF visit_node, visit_missing, visit_unreadable, visit_leaf, visit_dir,
         finish_node, skip_node, read_dir
    <3> QED
      BY <1>5, <3>1, <3>2, WalkedOn DEF Flags
  <2>3. \A i \in ScanIds : i # id /\ CutOff(i)' => CutOff(i)
    BY <2>1, <2>2 DEF CutOff
  <2>4. \A s \in ToSet(result_queue') : s.sentinel => s \in ToSet(result_queue)
    <3>1. CASE visit_node(id, p)
      BY <3>1, Recorded, PushKeeps, Sets
    <3>2. CASE finish_node(id, p)
      BY <3>2 DEF finish_node, export_vars, queue_vars
    <3> QED
      BY <1>5, <3>1, <3>2
  <2>5. \A s \in ToSet(result_queue) : s.sentinel => s.id \in ScanIds /\ s.id # id
    BY <2>2, Sets, ItemTypes DEF Flags
  <2>6. handled # <<>> => sentinel.id \in ScanIds /\ sentinel.id # id
    BY <2>2, Sets, Single DEF Flags, Types, sentinel
  <2> QED
    BY <2>1, <2>2, <2>3, <2>4, <2>5, <2>6 DEF Flags, sentinel
<1>6. ASSUME NEW p \in Paths, tree_changes(p) PROVE Flags'
  BY <1>1, <1>6 DEF tree_changes, change_tree, export_vars, queue_vars, writer_vars,
     registry_vars, start_vars
<1>7. CASE stop_exporting
  BY <1>1, <1>7 DEF stop_exporting, shutdown, writer_vars, walk_vars, scan_vars, registry_vars,
     start_vars
<1>8. CASE stop_pool
  <2>1. /\ UNCHANGED <<phase, job, result_queue, handled, truncated, flagged, ended, canceled>>
        /\ pool_stop' /\ ~pool_stop /\ late' = {id \in ScanIds : walking(id)}
    BY <1>8 DEF stop_pool, stop_walks, export_vars, queue_vars, writer_vars
  <2>2. \A i \in ScanIds : (walking(i)' <=> walking(i)) /\ (CutOff(i)' => CutOff(i))
    BY <2>1 DEF walking, CutOff, Flags
  <2>3. /\ \A s \in ToSet(result_queue) : s.sentinel => s.id \in ScanIds
        /\ handled # <<>> => sentinel.id \in ScanIds
    BY Sets, Single, ItemTypes DEF Types, sentinel
  <2> QED
    BY <2>1, <2>2, <2>3 DEF Flags, sentinel
<1>9. CASE Writing \/ database_fails
  <2>1. UNCHANGED <<job, pool_stop, canceled, truncated, phase, late, flagged, ended>>
    BY <1>9, Writes
  <2>2. \A i : (walking(i)' <=> walking(i)) /\ (CutOff(i)' <=> CutOff(i))
    BY <2>1 DEF walking, CutOff
  <2>3. ToSet(result_queue') \subseteq ToSet(result_queue)
    <3>1. \/ result_queue' = result_queue
          \/ result_queue # <<>> /\ result_queue' = Tail(result_queue)
      BY <1>9 DEF Writing, took_event, take_event, took_sentinel, take_sentinel, finished,
         finish_writing, get_scan_task,
         get_scan_task_throws, finalized,
         finalize_step, database_fails, write_throws, finalize_fails, queue_vars
    <3> QED
      BY <3>1, PopKeeps
  <2>4. \/ handled' = handled
        \/ handled' = <<>>
        \/ \E s \in ToSet(result_queue) : s.sentinel /\ handled' = <<s>>
    <3>1. CASE took_sentinel
      BY <3>1, PopKeeps DEF took_sentinel, take_sentinel
    <3> QED
      BY <1>9, <3>1 DEF Writing, took_event, take_event, finished, finish_writing, get_scan_task,
         get_scan_task_throws, finalized,
         finalize_step, database_fails, write_throws, finalize_fails
  <2>5. ASSUME handled' # <<>>
        PROVE  \E s \in Sentinels : /\ handled' = <<s>> /\ phase'[s.id] \in {"sent", "ended"}
                                    /\ CutOff(s.id)' => s.canceled
    <3>1. CASE handled' = handled
      <4>1. PICK s \in Sentinels : handled = <<s>>
        BY <2>5, <3>1 DEF Types
      <4>2. sentinel = s /\ handled # <<>>
        BY <4>1, Single DEF sentinel
      <4> QED
        BY <2>1, <2>2, <3>1, <4>1, <4>2 DEF Flags
    <3>2. CASE \E s \in ToSet(result_queue) : s.sentinel /\ handled' = <<s>>
      <4>1. PICK s \in ToSet(result_queue) : s.sentinel /\ handled' = <<s>>
        BY <3>2
      <4>2. s \in Sentinels
        BY <4>1, Sets, ItemTypes
      <4> QED
        BY <2>1, <2>2, <4>1, <4>2 DEF Flags
    <3> QED
      BY <2>4, <2>5, <3>1, <3>2
  <2>6. ASSUME handled' # <<>>
        PROVE  phase'[sentinel'.id] \in {"sent", "ended"}
               /\ (CutOff(sentinel.id)' => sentinel'.canceled)
    <3>1. PICK s \in Sentinels : /\ handled' = <<s>> /\ phase'[s.id] \in {"sent", "ended"}
                                 /\ CutOff(s.id)' => s.canceled
      BY <2>5, <2>6
    <3>2. sentinel' = s
      BY <3>1, Single DEF sentinel
    <3> QED
      BY <3>1, <3>2 DEF CutOff
  <2> QED
    BY <2>1, <2>2, <2>3, <2>6 DEF Flags
<1>10. CASE export_done
  <2>1. PICK id \in ScanIds : id = sentinel.id
    BY <1>10, Sets, Single DEF export_done, finalize_publishes, Thread, Finalizing, Types, sentinel
  <2>2. /\ UNCHANGED <<phase, late, pool_stop, result_queue>> /\ handled' = <<>>
        /\ job' = [job EXCEPT ![id] = NoJobs] /\ canceled' = canceled \ {id}
        /\ truncated' = truncated \ {id}
        /\ flagged' = flagged \ {id} /\ ended' = ended \ {id}
    BY <1>10, <2>1 DEF export_done, finalize_publishes, queue_vars
  <2>3. phase[id] = "ended"
    BY <1>10, <2>1 DEF export_done, finalize_publishes, Progress, Finalizing
  <2>4. \A i \in ScanIds : walking(i)' => walking(i)
    BY <2>2 DEF walking, NoJobs, Types
  <2>5. /\ ~CutOff(id)' /\ \A i \in ScanIds : CutOff(i)' => CutOff(i) /\ i # id
    BY <2>2 DEF CutOff
  <2>6. \A s \in ToSet(result_queue) : s.sentinel => s.id \in ScanIds
    BY Sets, ItemTypes
  <2> QED
    BY <2>2, <2>3, <2>4, <2>5, <2>6 DEF Flags
<1>11. CASE restart
  <2>1. /\ job' = [i \in ScanIds |-> NoJobs] /\ late' = {} /\ truncated' = {}
        /\ pool_stop' = FALSE /\ result_queue' = <<>> /\ handled' = <<>>
    BY <1>11 DEF restart, ExportStarts
  <2>2. ToSet(<<>>) = {}
    BY DEF ToSet
  <2> QED
    BY <2>1, <2>2 DEF Flags, CutOff
<1> QED
  BY <1>c, <1>2, <1>3, <1>4, <1>5, <1>6, <1>7, <1>8, <1>9, <1>10, <1>11 DEF Control

\* No scan is cut off by a step that leaves the flags and the walks alone.
LEMMA RowsKept ==
  ASSUME Rows, UNCHANGED <<writer, handled, row, pending_scan_rows, scan_task_table, next_scan_id>>,
         \A i \in ScanIds :
           \/ phase'[i] = phase[i]
           \/ (i >= next_scan_id /\ phase'[i] # "new" /\ phase[i] # "ended"),
         \A i : CutOff(i)' => CutOff(i),
         DOMAIN scan_task_table \subseteq ScanIds, next_scan_id \in Nat
  PROVE  Rows'
<1>1. \A i \in ScanIds : i \in Nat
  BY Sets
<1> QED
  BY <1>1 DEF Rows, sentinel

LEMMA NextRows == Types /\ Thread /\ Progress /\ Flags /\ Rows /\ Next => Rows'
<1> SUFFICES ASSUME Types, Thread, Progress, Flags, Rows, Next PROVE Rows'
  OBVIOUS
<1>c. Control
  BY Controls
<1> USE DEF Finalizing
<1>0. /\ DOMAIN scan_task_table \subseteq ScanIds /\ next_scan_id \in Nat
      /\ \A i \in ScanIds : i \in Nat /\ (phase[i] # "new" => i >= next_scan_id)
  BY Sets DEF Types, Rows
<1>1. ASSUME UNCHANGED <<phase, writer, handled, row, pending_scan_rows, scan_task_table,
                         next_scan_id, late, truncated>>
      PROVE  Rows'
  BY <1>0, <1>1, RowsKept DEF CutOff
<1>2. ASSUME NEW id \in ScanIds, cancel_scan(id) PROVE Rows'
  BY <1>1, <1>2 DEF cancel_scan, tables, export_vars, queue_vars, writer_vars, scan_vars,
     registry_vars, start_vars
<1>3. ASSUME NEW id \in ScanIds, flag_sentinel(id) \/ push_sentinel(id) PROVE Rows'
  <2>1. /\ UNCHANGED <<writer, handled, row, pending_scan_rows, scan_task_table, next_scan_id,
                       late, truncated>>
        /\ phase[id] \in {"walking", "flagged"}
        /\ phase' = [phase EXCEPT ![id] = phase'[id]] /\ phase'[id] \in {"flagged", "sent"}
    BY <1>3 DEF flag_sentinel, push_sentinel, push_result_queue, set_phase, walk_vars, tables,
       export_vars, writer_vars, start_vars, Types
  <2>2. \A i \in ScanIds : phase'[i] = phase[i] \/ i = id
    BY <2>1 DEF Types
  <2> QED
    BY <1>0, <2>1, <2>2, RowsKept DEF CutOff
<1>4. ASSUME NEW id \in ScanIds, hand_over_row(id) PROVE Rows'
  <2> DEFINE data == [root |-> root_of[id], end |-> IF id \in ended THEN "CANCELED" ELSE "DONE"]
  <2>1. /\ UNCHANGED <<writer, handled, row, scan_task_table, next_scan_id, late, truncated>>
        /\ phase[id] = "sent" /\ phase' = [phase EXCEPT ![id] = "ended"]
        /\ pending_scan_rows' = Put(id, data, pending_scan_rows)
        /\ id \in ended => data.end = "CANCELED"
    BY <1>4 DEF hand_over_row, insert_scan_task, set_phase, walk_vars, start_vars, writer_vars,
       tables
  <2>2. CutOff(id) => data.end = "CANCELED"
    BY <2>1 DEF Flags
  <2> HIDE DEF data
  <2>3. /\ DOMAIN pending_scan_rows' = DOMAIN pending_scan_rows \cup {id}
        /\ pending_scan_rows'[id] = data
        /\ \A i \in DOMAIN pending_scan_rows :
             i # id => pending_scan_rows'[i] = pending_scan_rows[i]
    BY <2>1 DEF Put
  <2>4. \A i \in DOMAIN pending_scan_rows' : CutOff(i)' => pending_scan_rows'[i].end = "CANCELED"
    BY <2>1, <2>2, <2>3 DEF Rows, CutOff
  <2>5. \A i \in ScanIds : /\ i # id => phase'[i] = phase[i]
                           /\ i = id => phase'[i] = "ended" /\ i >= next_scan_id
    BY <1>0, <2>1 DEF Types
  <2>6. sentinel' = sentinel /\ \A i : CutOff(i)' <=> CutOff(i)
    BY <2>1 DEF sentinel, CutOff
  <2> QED
    BY <1>0, <2>1, <2>4, <2>5, <2>6 DEF Rows
<1>5. ASSUME NEW id \in ScanIds, NEW p \in Paths, start_scan(id, p) \/ stop_pool_before(id, p)
      PROVE  Rows'
  <2>1. /\ phase[id] = "new" /\ phase' = [phase EXCEPT ![id] = "walking"] /\ id >= next_scan_id
        /\ ~pool_stop
        /\ \/ UNCHANGED <<late, truncated>>
           \/ late' = {id} /\ truncated' = truncated \cup {id}
        /\ UNCHANGED <<writer, handled, row, pending_scan_rows, scan_task_table, next_scan_id>>
    BY <1>5, Begins DEF tables, export_vars, writer_vars
  <2>2. \A i : CutOff(i)' => CutOff(i)
    BY <2>1 DEF CutOff, Flags
  <2>3. \A i \in ScanIds : phase'[i] = phase[i] \/ (i = id /\ phase'[i] = "walking")
    BY <2>1 DEF Types
  <2> QED
    BY <1>0, <2>1, <2>2, <2>3, RowsKept
<1>6. ASSUME NEW id \in ScanIds, NEW p \in Paths, visit_node(id, p) \/ finish_node(id, p)
      PROVE  Rows'
  <2>1. /\ UNCHANGED <<phase, late, next_scan_id, pending_scan_rows, writer, handled, row,
                       scan_task_table>>
        /\ phase[id] = "walking"
        /\ \A i \in ScanIds : i \in truncated' /\ i # id => i \in truncated
    BY <1>6, Walks, WalkedOn
  <2>2. \A i \in ScanIds : i # id /\ CutOff(i)' => CutOff(i)
    BY <2>1 DEF CutOff
  <2>3. /\ id \notin DOMAIN pending_scan_rows /\ id \notin DOMAIN scan_task_table
        /\ writer \in Finalizing => sentinel.id # id
    BY <1>0, <2>1 DEF Progress, Rows
  <2>4. writer \in Finalizing => sentinel.id \in ScanIds
    BY Sets, Single DEF Types, Thread, sentinel
  <2>5. sentinel' = sentinel /\ DOMAIN pending_scan_rows \subseteq ScanIds
    BY <2>1 DEF sentinel, Types
  <2> QED
    BY <1>0, <2>1, <2>2, <2>3, <2>4, <2>5 DEF Rows
<1>7. ASSUME NEW p \in Paths, tree_changes(p) PROVE Rows'
  BY <1>1, <1>7 DEF tree_changes, change_tree, tables, export_vars, writer_vars,
     registry_vars, start_vars
<1>8. CASE stop_exporting
  BY <1>1, <1>8 DEF stop_exporting, shutdown, tables, writer_vars, walk_vars, scan_vars,
     registry_vars, start_vars
<1>9. CASE stop_pool
  <2>1. /\ UNCHANGED <<phase, writer, handled, row, pending_scan_rows, scan_task_table,
                       next_scan_id, truncated>>
        /\ late = {}
    BY <1>9 DEF stop_pool, stop_walks, tables, export_vars, writer_vars, Flags
  <2>2. \A i : CutOff(i)' => CutOff(i)
    BY <2>1 DEF CutOff
  <2> QED
    BY <1>0, <2>1, <2>2, RowsKept
<1>10. CASE Writing \/ database_fails
  <2>1. UNCHANGED <<truncated, phase, late, next_scan_id>>
    BY <1>10, Writes
  <2>2. \A i : CutOff(i)' <=> CutOff(i)
    BY <2>1 DEF CutOff
  <2>3. CASE get_scan_task
    <3>1. PICK id \in ScanIds : id = sentinel.id
      BY <2>3, Sets, Single DEF get_scan_task, Thread, Types, sentinel
    <3>2. /\ UNCHANGED <<handled, scan_task_table>>
          /\ id \in DOMAIN pending_scan_rows /\ row'[1] = pending_scan_rows[id]
          /\ \A i \in DOMAIN pending_scan_rows' :
               i \in DOMAIN pending_scan_rows /\ pending_scan_rows'[i] = pending_scan_rows[i]
      BY <2>3, <3>1, Single DEF get_scan_task, tables, Restrict
    <3>3. sentinel' = sentinel
      BY <3>2 DEF sentinel
    <3>4. CutOff(id) => row'[1].end = "CANCELED"
      BY <3>2 DEF Rows
    <3> QED
      BY <1>0, <2>1, <2>2, <3>1, <3>2, <3>3, <3>4 DEF Rows
  <2>4. CASE finalize_step("insert", "mark") /\ insert_scan(sentinel.id, row[1].root, row[1].end)
    <3>1. PICK id \in ScanIds : id = sentinel.id
      BY <2>4, Sets, Single DEF finalize_step, Thread, Types, sentinel
    <3>2. /\ UNCHANGED <<handled, row, pending_scan_rows>> /\ writer = "insert"
          /\ DOMAIN scan_task_table' = DOMAIN scan_task_table \cup {id}
          /\ \A i \in DOMAIN scan_task_table : scan_task_table'[i] = scan_task_table[i]
          /\ id \notin DOMAIN scan_task_table => scan_task_table'[id].end = row[1].end
      BY <2>4, <3>1 DEF finalize_step, insert_scan, Insert
    <3>3. sentinel' = sentinel
      BY <3>2 DEF sentinel
    <3>4. phase[id] = "ended" /\ (CutOff(id) => row[1].end = "CANCELED")
      BY <3>1, <3>2 DEF Progress, Rows
    <3>5. \A i \in DOMAIN scan_task_table' :
            \/ i \in DOMAIN scan_task_table /\ scan_task_table'[i] = scan_task_table[i]
            \/ i = id /\ scan_task_table'[i].end = row[1].end
      BY <3>2
    <3>6. \A i \in DOMAIN scan_task_table' :
            /\ i >= next_scan_id => phase[i] = "ended"
            /\ CutOff(i) => scan_task_table'[i].end = "CANCELED"
      BY <3>4, <3>5 DEF Rows
    <3> QED
      BY <2>1, <2>2, <3>1, <3>2, <3>3, <3>4, <3>6 DEF Rows
  <2>5. ASSUME finalize_step("count", "publish"), NEW n, set_count(sentinel.id, n) PROVE Rows'
    <3>1. /\ UNCHANGED <<handled, row, pending_scan_rows>> /\ writer \in Finalizing
      BY <2>5 DEF finalize_step
    <3>2. /\ DOMAIN scan_task_table' = DOMAIN scan_task_table
          /\ \A i \in DOMAIN scan_task_table : scan_task_table'[i].end = scan_task_table[i].end
      BY <2>5 DEF set_count, Types
    <3>3. sentinel' = sentinel
      BY <3>1 DEF sentinel
    <3> QED
      BY <2>1, <2>2, <3>1, <3>2, <3>3 DEF Rows
  <2>6. CASE finalized /\ UNCHANGED scan_task_table
    <3>1. UNCHANGED <<handled, row, pending_scan_rows>> /\ writer \in Finalizing
      BY <2>6 DEF finalized, finalize_step
    <3>2. sentinel' = sentinel
      BY <3>1 DEF sentinel
    <3> QED
      BY <2>1, <2>2, <2>6, <3>1, <3>2 DEF Rows
  <2>7. ASSUME UNCHANGED <<pending_scan_rows, scan_task_table>>, writer' \notin Finalizing
        PROVE  Rows'
    BY <2>1, <2>2, <2>7 DEF Rows
  <2>8. CASE (took_event \/ took_sentinel \/ finished) /\ UNCHANGED scan_task_table
    BY <2>7, <2>8 DEF took_event, take_event, took_sentinel, take_sentinel, finished,
       finish_writing
  <2>9. CASE get_scan_task_throws \/ database_fails
    BY <2>7, <2>9 DEF get_scan_task_throws, database_fails, write_throws, finalize_fails, tables
  <2>10. CASE /\ took_event \/ took_sentinel \/ finished
              /\ ~UNCHANGED scan_task_table
    BY <2>4, <2>5, <2>10, TaskSteps
  <2>11. CASE finalized
    BY <2>4, <2>5, <2>6, <2>11, TaskSteps
  <2> QED
    BY <1>10, <2>3, <2>8, <2>9, <2>10, <2>11 DEF Writing
<1>11. CASE export_done
  <2>1. /\ UNCHANGED <<phase, late, next_scan_id, pending_scan_rows, scan_task_table>>
        /\ writer' = "pop" /\ truncated' \subseteq truncated
    BY <1>11 DEF export_done, finalize_publishes, tables
  <2>2. \A i : CutOff(i)' => CutOff(i)
    BY <2>1 DEF CutOff
  <2> QED
    BY <2>1, <2>2 DEF Rows
<1>12. CASE restart
  <2>1. /\ phase' = [i \in ScanIds |-> "new"] /\ truncated' = {} /\ writer' = "pop"
        /\ pending_scan_rows' = EmptyTable /\ scan_task_table' = scan_task_table
        /\ next_scan_id' = get_max_id + 1
    BY <1>12 DEF restart, ExportStarts, tables
  <2>2. get_max_id \in Nat /\ \A i \in DOMAIN scan_task_table : i < get_max_id + 1 /\ i \in Nat
    BY <1>0, MaxId
  <2>3. \A i : ~CutOff(i)'
    BY <2>1 DEF CutOff
  <2>4. \A i \in DOMAIN scan_task_table' : ~(i >= next_scan_id')
    BY <2>1, <2>2
  <2>5. DOMAIN pending_scan_rows' = {} /\ \A i \in ScanIds : phase'[i] = "new"
    BY <2>1 DEF EmptyTable
  <2> QED
    BY <2>1, <2>3, <2>4, <2>5 DEF Rows
<1> QED
  BY <1>c, <1>2, <1>3, <1>4, <1>5, <1>6, <1>7, <1>8, <1>9, <1>10, <1>11, <1>12 DEF Control

-----------------------------------------------------------------------------
(* The theorems *)

LEMMA Starts == Init => ExportInv
<1> SUFFICES ASSUME Init PROVE ExportInv
  OBVIOUS
<1> USE DEF Init, TablesInit, TreeInit, ExportInit
<1>1. Types
  <2>1. /\ phase \in [ScanIds -> Phase] /\ job \in [ScanIds -> [Paths -> JobState]]
        /\ DOMAIN EmptyTable = {}
    BY DEF Phase, JobState, NoJobs, EmptyTable
  <2>2. tree \in [Paths -> Fingerprints]
    <3>1. 0 .. 1 \subseteq Fingerprints
      BY BoundsAssumption DEF Fingerprints
    <3>2. tree \in [Paths -> 0 .. 1]
      OBVIOUS
    <3> HIDE DEF Init, TreeInit
    <3> QED
      BY <3>1, <3>2
  <2>3. <<>> \in Seq(Events \cup Sentinels) /\ <<>> \in Seq(Events)
    OBVIOUS
  <2> QED
    BY <2>1, <2>2, <2>3 DEF Types, WriterPlaces
<1>2. Thread
  BY DEF Thread, Finalizing
<1>3. Progress
  BY DEF Progress, Finalizing, walking, NoJobs, EmptyTable
<1>4. Tracked
  BY DEF Tracked, EmptyTable
<1>5. Flags
  <2>1. ToSet(<<>>) = {}
    BY DEF ToSet
  <2> QED
    BY <2>1 DEF Flags, CutOff
<1>6. Rows
  BY DEF Rows, Finalizing, CutOff, EmptyTable
<1> QED
  BY <1>1, <1>2, <1>3, <1>4, <1>5, <1>6 DEF ExportInv

LEMMA Stutters == ExportInv /\ UNCHANGED vars => ExportInv'
<1> SUFFICES ASSUME ExportInv, UNCHANGED vars PROVE ExportInv'
  OBVIOUS
<1> USE DEF vars, tables, walk_vars, export_vars, queue_vars, writer_vars, metrics, scan_vars,
            registry_vars, start_vars
<1>1. Types' /\ Thread'
  BY DEF ExportInv, Types, Thread, sentinel
<1>2. Progress'
  BY DEF ExportInv, Progress, walking, refused, sentinel
<1>3. Tracked'
  BY DEF ExportInv, Tracked, refused, Queued, Handling, sentinel
<1>4. Flags' /\ Rows'
  BY DEF ExportInv, Flags, Rows, CutOff, walking, sentinel
<1> QED
  BY <1>1, <1>2, <1>3, <1>4 DEF ExportInv

LEMMA Invariance == SafeSpec => []ExportInv
<1>1. ExportInv /\ [Next]_vars => ExportInv'
  BY NextTypes, NextThread, NextProgress, NextTracked, NextFlags, NextRows, Stutters DEF ExportInv
<1> QED
  BY Starts, <1>1, PTL DEF SafeSpec

(* A scan whose row says DONE has skipped no node, although the row's      *)
(* end_state and the sentinel's flag are read at different moments of      *)
(* task_on_job_finish(): a node is only skipped once the scan's flag is    *)
(* set, and both reads come after the scan's last job.                     *)
THEOREM DoneIsComplete == SafeSpec => []DoneMeansComplete
<1>1. ExportInv => DoneMeansComplete
  BY DEF ExportInv, Rows, CutOff, DoneMeansComplete
<1> QED
  BY <1>1, Invariance, PTL

\* Only mark_deleted() takes a path out of the index while a scan is being marked.
LEMMA Marks ==
  ASSUME ExportInv, Next, writer = "mark"
  PROVE  \/ UNCHANGED index_current
         \/ delete_unvisited(sentinel.id, row[1].root, sentinel.canceled)
<1> USE DEF tables
<1>1. ASSUME NEW id \in ScanIds,
             cancel_scan(id) \/ flag_sentinel(id) \/ push_sentinel(id) \/ hand_over_row(id)
      PROVE  UNCHANGED index_current
  BY <1>1 DEF cancel_scan, flag_sentinel, push_sentinel, hand_over_row
<1>2. ASSUME NEW id \in ScanIds, NEW p \in Paths,
             \/ start_scan(id, p) \/ stop_pool_before(id, p)
             \/ visit_node(id, p) \/ finish_node(id, p)
      PROVE  UNCHANGED index_current
  BY <1>2 DEF start_scan, stop_pool_before, begin, visit_node, finish_node
<1>3. CASE (\E p \in Paths : tree_changes(p)) \/ stop_pool \/ stop_exporting \/ restart
  BY <1>3 DEF tree_changes, stop_pool, stop_exporting, restart
<1>4. CASE write_results
  BY <1>4 DEF write_results, pop_event, take_event, pop_sentinel, take_sentinel, stop_writing,
     finish_writing, get_scan_task, get_scan_task_throws, finalize_inserts, finalize_marks,
     finalize_diffs, finalize_counts, finalize_step, mark_deleted
<1>5. CASE database_fails \/ export_done
  BY <1>5 DEF database_fails, write_throws, finalize_fails, export_done, finalize_publishes
<1>6. CASE statements_fail
  BY <1>6 DEF statements_fail, commit_batch_partly, take_event, take_sentinel, finish_writing,
     finalize_partly, finalize_step, mark_deleted_partly
<1> QED
  BY <1>1, <1>2, <1>3, <1>4, <1>5, <1>6 DEF Next, Regular

(* What mark_deleted() takes out of index_current lies below the root of a *)
(* scan that skipped no node, and that scan has not written it.            *)
MarksOnlyUnseen ==
  [][\A p \in DOMAIN index_current \ DOMAIN index_current' :
       writer = "mark" => /\ ~sentinel.canceled /\ sentinel.id \notin truncated \ late
                          /\ p \in unvisited(sentinel.id, row[1].root)]_vars

(* The sentinel that mark_deleted() goes by is that of the scan whose row  *)
(* was fetched, through cancels, stops, errors and restarts.               *)
THEOREM OnlyCompleteScansDelete == SafeSpec => MarksOnlyUnseen
<1> DEFINE gone_unseen ==
      \A p \in DOMAIN index_current \ DOMAIN index_current' :
        writer = "mark" => /\ ~sentinel.canceled /\ sentinel.id \notin truncated \ late
                           /\ p \in unvisited(sentinel.id, row[1].root)
<1>1. ASSUME ExportInv, Next PROVE gone_unseen
  <2> SUFFICES ASSUME NEW p \in DOMAIN index_current \ DOMAIN index_current', writer = "mark"
               PROVE  /\ ~sentinel.canceled /\ sentinel.id \notin truncated \ late
                      /\ p \in unvisited(sentinel.id, row[1].root)
    OBVIOUS
  <2>1. delete_unvisited(sentinel.id, row[1].root, sentinel.canceled)
    BY <1>1, Marks
  <2>2. ~sentinel.canceled /\ p \in unvisited(sentinel.id, row[1].root)
    BY <2>1 DEF delete_unvisited, Restrict
  <2>3. sentinel.id \notin truncated \ late
    BY <1>1, <2>2 DEF ExportInv, Thread, Finalizing, Flags, CutOff
  <2> QED
    BY <2>2, <2>3
<1>2. ExportInv /\ [Next]_vars => [gone_unseen]_vars
  BY <1>1
<1> QED
  BY <1>2, Invariance, PTL DEF SafeSpec, MarksOnlyUnseen

(* When the result thread has left its loop of itself, every sentinel that *)
(* was pushed has been popped and handled to its end: no scan is left in   *)
(* the queue, among the pending rows or in the metrics.                    *)
THEOREM ExporterStopsClean == SafeSpec => []StoppedMeansExported
<1>1. ExportInv => StoppedMeansExported
  <2> SUFFICES ASSUME ExportInv, writer = "exited"
               PROVE  /\ \A id \in DOMAIN root_of : refused(id) \/ id \in failed
                      /\ root_map = {root_of[id] : id \in DOMAIN root_of}
                      /\ \A id \in ScanIds : phase[id] = "ended" =>
                           id \in exported_map \cup DOMAIN root_of
                      /\ result_queue = <<>> /\ DOMAIN pending_scan_rows \subseteq DOMAIN root_of
                      /\ export_running = 0 /\ export_finalizing_running = 0
    BY DEF StoppedMeansExported
  <2>1. /\ handled = <<>> /\ result_queue = <<>> /\ stop_flag
        /\ export_running = 0 /\ export_finalizing_running = 0
    BY DEF ExportInv, Thread
  <2>2. /\ root_map = {root_of[id] : id \in DOMAIN root_of}
        /\ \A id \in ScanIds : phase[id] = "ended" => id \in exported_map \cup DOMAIN root_of
        /\ DOMAIN pending_scan_rows \subseteq DOMAIN root_of
        /\ DOMAIN root_of \subseteq ScanIds
    BY DEF ExportInv, Progress, Types
  <2>3. ASSUME NEW id \in DOMAIN root_of PROVE refused(id) \/ id \in failed
    <3>1. ~Queued(id) /\ ~Handling(id)
      BY <2>1 DEF Queued, Handling, ToSet
    <3>2. refused(id) \/ phase[id] = "ended"
      BY <2>1, <2>2 DEF ExportInv, Tracked, Progress
    <3> QED
      BY <3>1, <3>2 DEF ExportInv, Tracked
  <2> QED
    BY <2>1, <2>2, <2>3
<1> QED
  BY <1>1, Invariance, PTL


-----------------------------------------------------------------------------
(* The order of the queue: nothing of a scan comes after its sentinel, and *)
(* nothing of a scan is on its way once its export is done.                *)

Sorted(queue) ==
  \A i, j \in 1 .. Len(queue) : i < j /\ queue[i].sentinel => queue[j].id # queue[i].id

Ordered ==
  /\ Sorted(result_queue)
  /\ handled # <<>> => \A s \in ToSet(result_queue) : s.id # sentinel.id
  /\ batch # <<>> => writer \in {"pop", "dead"}
  /\ \A s \in ToSet(result_queue) : s.id \in DOMAIN root_of
  /\ \A e \in ToSet(batch) : e.id \in DOMAIN root_of
  /\ \A id \in failed : /\ id \in DOMAIN root_of /\ phase[id] = "ended" /\ ~Handling(id)
                        /\ \A s \in ToSet(result_queue) : s.id # id

LEMMA AppendSorted ==
  ASSUME NEW S, NEW queue \in Seq(S), NEW e \in S, Sorted(queue),
         \A s \in ToSet(queue) : s.sentinel => s.id # e.id
  PROVE  Sorted(Append(queue, e))
<1> DEFINE longer == Append(queue, e)
<1>1. /\ Len(queue) \in Nat /\ DOMAIN queue = 1 .. Len(queue)
      /\ Len(longer) = Len(queue) + 1 /\ longer[Len(queue) + 1] = e
      /\ \A i \in 1 .. Len(queue) : longer[i] = queue[i]
  BY AppendProperties, LenProperties
<1>2. \A i \in 1 .. Len(queue) : queue[i] \in ToSet(queue)
  BY <1>1 DEF ToSet
<1> HIDE DEF longer
<1>3. ASSUME NEW i \in 1 .. Len(longer), NEW j \in 1 .. Len(longer), i < j, longer[i].sentinel
      PROVE  longer[j].id # longer[i].id
  <2>1. i \in 1 .. Len(queue) /\ (j \in 1 .. Len(queue) \/ j = Len(queue) + 1)
    BY <1>1, <1>3
  <2>2. CASE j \in 1 .. Len(queue)
    BY <1>1, <1>3, <2>1, <2>2 DEF Sorted
  <2>3. CASE j = Len(queue) + 1
    BY <1>1, <1>2, <1>3, <2>1, <2>3
  <2> QED
    BY <2>1, <2>2, <2>3
<1> QED
  BY <1>3 DEF Sorted, longer

LEMMA TailSorted ==
  ASSUME NEW S, NEW queue \in Seq(S), queue # <<>>, Sorted(queue)
  PROVE  /\ Sorted(Tail(queue))
         /\ Head(queue).sentinel => \A s \in ToSet(Tail(queue)) : s.id # Head(queue).id
<1> DEFINE rest == Tail(queue)
<1>1. /\ Len(queue) \in Nat \ {0} /\ Len(rest) = Len(queue) - 1 /\ Head(queue) = queue[1]
      /\ \A i \in 1 .. Len(rest) : rest[i] = queue[i + 1]
      /\ DOMAIN rest = 1 .. Len(rest)
  BY HeadTailProperties, LenProperties, EmptySeq
<1> HIDE DEF rest
<1>2. \A i \in 1 .. Len(rest) : i + 1 \in 1 .. Len(queue) /\ 1 < i + 1 /\ 1 \in 1 .. Len(queue)
  BY <1>1
<1>3. ASSUME NEW i \in 1 .. Len(rest), NEW j \in 1 .. Len(rest), i < j, rest[i].sentinel
      PROVE  rest[j].id # rest[i].id
  <2>1. i + 1 \in 1 .. Len(queue) /\ j + 1 \in 1 .. Len(queue) /\ i + 1 < j + 1
    BY <1>2, <1>3
  <2> QED
    BY <1>1, <1>3, <2>1 DEF Sorted
<1>4. Sorted(rest)
  BY <1>3 DEF Sorted
<1>5. ASSUME Head(queue).sentinel, NEW s \in ToSet(rest) PROVE s.id # Head(queue).id
  <2>1. PICK i \in 1 .. Len(rest) : s = rest[i]
    BY <1>1, <1>5 DEF ToSet
  <2>2. s = queue[i + 1] /\ queue[1].sentinel
    BY <1>1, <1>5, <2>1
  <2> QED
    BY <1>1, <1>2, <2>2 DEF Sorted
<1> QED
  BY <1>4, <1>5 DEF rest

\* What a visit records, and of which node.
RecordsVisit(id, p, e) ==
  /\ push_result_queue(e)
  /\ e.sentinel = FALSE /\ e.id = id /\ e.path = p /\ e.fp = tree[p]
  /\ e.err => tree[p] = 0 \/ id \in disturbed'

LEMMA Visits ==
  ASSUME Types, NEW id \in ScanIds, NEW p \in Paths, visit_node(id, p)
  PROVE  /\ \E e \in Events : RecordsVisit(id, p, e)
         /\ job[id][p] = "waiting"
         /\ \E s \in {"reading", "finished"} :
              /\ job' = [job EXCEPT ![id][p] = s]
              /\ s = "finished" /\ id \notin disturbed' /\ tree[p] # 0 => Children[p] = {}
         /\ truncated' = truncated /\ disturbed \subseteq disturbed' /\ tree' = tree
         /\ UNCHANGED <<tables, scan_vars, history_vars>>
<1> USE DEF RecordsVisit
<1>0. /\ recorded(id, p, 0, TRUE) \in Events /\ recorded(id, p, tree[p], TRUE) \in Events
      /\ recorded(id, p, tree[p], FALSE) \in Events
  BY BoundsAssumption DEF recorded, Events, Types, Fingerprints
<1>1. \A fp, err : LET e == recorded(id, p, fp, err)
                   IN /\ e.sentinel = FALSE /\ e.id = id /\ e.path = p /\ e.fp = fp /\ e.err = err
  BY DEF recorded
<1>2. UNCHANGED <<tables, scan_vars, history_vars>>
  BY DEF visit_node
<1>3. CASE visit_missing(id, p) /\ push_result_queue(recorded(id, p, 0, TRUE))
  <2>1. /\ job[id][p] = "waiting" /\ job' = [job EXCEPT ![id][p] = "finished"]
        /\ UNCHANGED <<tree, truncated, disturbed>> /\ tree[p] = 0
    BY <1>3 DEF visit_missing, set_job
  <2>2. RecordsVisit(id, p, recorded(id, p, 0, TRUE))
    BY <1>1, <1>3, <2>1
  <2> HIDE DEF RecordsVisit
  <2> QED
    BY <1>0, <1>2, <2>1, <2>2
<1>4. CASE visit_unreadable(id, p) /\ push_result_queue(recorded(id, p, tree[p], TRUE))
  BY ZenonT(30), <1>0, <1>1, <1>2, <1>4 DEF visit_unreadable, set_job
<1>5. ASSUME push_result_queue(recorded(id, p, tree[p], FALSE))
      PROVE  \E e \in Events : /\ push_result_queue(e)
                              /\ e.sentinel = FALSE /\ e.id = id /\ e.path = p /\ e.fp = tree[p]
                              /\ ~e.err
  <2> DEFINE e == recorded(id, p, tree[p], FALSE)
  <2>1. /\ e \in Events /\ push_result_queue(e)
        /\ e.sentinel = FALSE /\ e.id = id /\ e.path = p /\ e.fp = tree[p]
    BY <1>0, <1>1, <1>5
  <2>2. e.err = FALSE
    BY DEF recorded
  <2> HIDE DEF e
  <2> QED
    BY <2>1, <2>2
<1>6. CASE visit_leaf(id, p) /\ push_result_queue(recorded(id, p, tree[p], FALSE))
  <2>1. Children[p] = {}
    BY <1>6, TreeAssumption DEF visit_leaf
  <2> QED
    BY <1>2, <1>5, <1>6, <2>1 DEF visit_leaf, set_job
<1>7. CASE visit_dir(id, p) /\ push_result_queue(recorded(id, p, tree[p], FALSE))
  BY <1>2, <1>5, <1>7 DEF visit_dir, set_job
<1> QED
  BY <1>3, <1>4, <1>6, <1>7 DEF visit_node


LEMMA PushOrdered ==
  ASSUME ExportInv, Ordered, NEW e \in Events \cup Sentinels, push_result_queue(e),
         e.id \in ScanIds, phase[e.id] \in {"walking", "flagged"}, UNCHANGED root_of,
         \A i \in ScanIds : phase[i] = "ended" => phase'[i] = "ended"
  PROVE  Ordered'
<1> USE DEF ExportInv
<1>1. /\ UNCHANGED <<writer, batch, handled, failed>>
      /\ \/ result_queue' = result_queue
         \/ result_queue' = Append(result_queue, e)
      /\ \A s \in ToSet(result_queue') : s = e \/ s \in ToSet(result_queue)
  BY PushKeeps DEF push_result_queue
<1>2. \A s \in ToSet(result_queue) : s.sentinel => s.id # e.id
  BY DEF Flags
<1>3. Sorted(result_queue')
  <2>1. Sorted(result_queue) /\ result_queue \in Seq(Events \cup Sentinels)
    BY DEF Types, Ordered
  <2>2. Sorted(Append(result_queue, e))
    <3> DEFINE S == Events \cup Sentinels
    <3>1. e \in S /\ result_queue \in Seq(S)
      BY <2>1
    <3> HIDE DEF S, Sorted
    <3> QED
      BY <1>2, <2>1, <3>1, AppendSorted
  <2> QED
    BY <1>1, <2>1, <2>2
<1>4. handled # <<>> => e.id # sentinel.id
  BY DEF Flags
<1>5. e.id \in DOMAIN root_of /\ e.id \notin failed
  BY DEF Progress, Ordered
<1>6. sentinel' = sentinel /\ \A i : Handling(i)' <=> Handling(i)
  BY <1>1 DEF sentinel, Handling
<1>7. failed \subseteq ScanIds
  BY DEF Ordered, Types
<1> QED
  BY <1>1, <1>3, <1>4, <1>5, <1>6, <1>7 DEF Ordered

LEMMA HandledId ==
  ASSUME ExportInv, handled # <<>>
  PROVE  sentinel \in Sentinels /\ sentinel.id \in ScanIds /\ handled = <<sentinel>>
BY Sets, Single DEF ExportInv, Types, sentinel

LEMMA NextOrdered == ExportInv /\ Ordered /\ Next => Ordered'
<1> SUFFICES ASSUME ExportInv, Ordered, Next PROVE Ordered'
  OBVIOUS
<1>c. Control
  BY Controls DEF ExportInv
<1>0. Types /\ Thread /\ Progress /\ Flags /\ failed \subseteq ScanIds
  BY DEF ExportInv, Ordered, Types
<1>1. ASSUME UNCHANGED <<result_queue, handled, batch, writer, failed>>,
             \A i \in DOMAIN root_of : i \in DOMAIN root_of',
             \A i \in ScanIds : phase[i] = "ended" => phase'[i] = "ended"
      PROVE  Ordered'
  BY <1>0, <1>1 DEF Ordered, sentinel, Handling
<1>2. ASSUME NEW id \in ScanIds, cancel_scan(id) \/ flag_sentinel(id) \/ hand_over_row(id)
      PROVE  Ordered'
  <2>1. /\ UNCHANGED <<result_queue, handled, batch, writer, failed, root_of>>
        /\ \A i \in ScanIds : phase[i] = "ended" => phase'[i] = "ended"
    BY <1>0, <1>2 DEF cancel_scan, flag_sentinel, hand_over_row, insert_scan_task, set_phase,
       export_vars, queue_vars, writer_vars, scan_vars, registry_vars, start_vars, Types
  <2> QED
    BY <1>1, <2>1
<1>3. ASSUME NEW id \in ScanIds, push_sentinel(id) PROVE Ordered'
  <2> DEFINE s == [sentinel |-> TRUE, id |-> id, canceled |-> id \in flagged]
  <2>1. s \in Sentinels /\ s.id = id /\ push_result_queue(s)
    BY <1>3 DEF push_sentinel, Sentinels
  <2>2. /\ phase[id] = "flagged" /\ UNCHANGED root_of
        /\ \A i \in ScanIds : phase[i] = "ended" => phase'[i] = "ended"
    BY <1>0, <1>3 DEF push_sentinel, set_phase, start_vars, Types
  <2> HIDE DEF s
  <2> QED
    BY <2>1, <2>2, PushOrdered
<1>4. ASSUME NEW id \in ScanIds, NEW p \in Paths, start_scan(id, p) \/ stop_pool_before(id, p)
      PROVE  Ordered'
  <2>1. /\ phase[id] = "new" /\ phase' = [phase EXCEPT ![id] = "walking"]
        /\ root_of' = Put(id, p, root_of) /\ UNCHANGED export_vars
    BY <1>0, <1>4, Begins
  <2>2. \A i \in ScanIds : phase[i] = "ended" => phase'[i] = "ended"
    BY <1>0, <2>1 DEF Types
  <2> QED
    BY <1>1, <2>1, <2>2 DEF Put, export_vars, queue_vars, writer_vars
<1>5. ASSUME NEW id \in ScanIds, NEW p \in Paths, visit_node(id, p) PROVE Ordered'
  <2>1. PICK e \in Events : RecordsVisit(id, p, e)
    BY <1>0, <1>5, Visits
  <2>2. phase[id] = "walking" /\ UNCHANGED <<root_of, phase>>
    BY <1>0, <1>5, WalkedOn, Walks
  <2> QED
    BY <2>1, <2>2, PushOrdered DEF RecordsVisit
<1>6. CASE \/ \E id \in ScanIds, p \in Paths : finish_node(id, p)
           \/ \E p \in Paths : tree_changes(p)
           \/ stop_pool \/ stop_exporting
  BY <1>1, <1>6 DEF finish_node, tree_changes, stop_pool, stop_exporting, shutdown, export_vars,
     queue_vars, writer_vars, scan_vars, registry_vars, start_vars
<1>7. CASE Writing \/ database_fails
  <2>1. UNCHANGED <<phase, root_of>>
    BY <1>7, Writes
  <2>2. result_queue # <<>> /\ result_queue' = Tail(result_queue) =>
          /\ Sorted(result_queue') /\ ToSet(result_queue') \subseteq ToSet(result_queue)
          /\ Head(result_queue) \in ToSet(result_queue)
          /\ Head(result_queue).sentinel =>
               \A s \in ToSet(result_queue') : s.id # Head(result_queue).id
    BY <1>0, PopKeeps, TailSorted DEF Types, Ordered
  <2>3. CASE took_event
    <3>1. /\ result_queue # <<>> /\ result_queue' = Tail(result_queue) /\ writer' = "pop"
          /\ UNCHANGED <<handled, failed>> /\ handled = <<>>
          /\ batch' = Append(batch, Head(result_queue)) \/ batch' = <<>>
      BY <1>0, <2>3 DEF took_event, take_event, Thread
    <3>2. Head(result_queue) \in Events
      BY <1>0, <2>3, ItemsTail, Sets DEF Types, took_event, take_event
    <3>3. \A e \in ToSet(batch') : e.id \in DOMAIN root_of
      <4>1. CASE batch' = Append(batch, Head(result_queue))
        <5>1. ToSet(batch') = ToSet(batch) \cup {Head(result_queue)}
          BY <1>0, <3>2, <4>1, ItemsAppended DEF Types
        <5> QED
          BY <2>2, <3>1, <5>1 DEF Ordered
      <4>2. CASE batch' = <<>>
        BY <4>2 DEF ToSet
      <4> QED
        BY <3>1, <4>1, <4>2
    <3>4. \A i : ~Handling(i)'
      BY <3>1 DEF Handling
    <3> QED
      BY <2>1, <2>2, <3>1, <3>3, <3>4 DEF Ordered
  <2>4. CASE took_sentinel
    <3>1. /\ result_queue # <<>> /\ result_queue' = Tail(result_queue) /\ batch' = <<>>
          /\ handled' = <<Head(result_queue)>> /\ Head(result_queue).sentinel /\ failed' = failed
      BY <2>4 DEF took_sentinel, take_sentinel
    <3>2. sentinel' = Head(result_queue) /\ \A i : Handling(i)' => i = Head(result_queue).id
      BY <3>1, Single DEF sentinel, Handling
    <3>3. ToSet(batch') = {}
      BY <3>1 DEF ToSet
    <3> QED
      BY <2>1, <2>2, <3>1, <3>2, <3>3 DEF Ordered
  <2>5. CASE finished
    <3>1. UNCHANGED <<result_queue, handled, failed>> /\ batch' = <<>>
      BY <2>5 DEF finished, finish_writing, queue_vars
    <3>2. ToSet(batch') = {} /\ sentinel' = sentinel /\ \A i : Handling(i)' <=> Handling(i)
      BY <3>1 DEF ToSet, sentinel, Handling
    <3> QED
      BY <2>1, <3>1, <3>2 DEF Ordered
  <2>6. CASE \/ get_scan_task \/ get_scan_task_throws \/ finalized
    <3>1. /\ UNCHANGED <<result_queue, handled, batch, failed>>
          /\ writer \in {"row", "insert", "mark", "diff", "count"}
      BY <2>6 DEF get_scan_task, get_scan_task_throws, finalized, finalize_step, queue_vars
    <3>2. batch = <<>> /\ sentinel' = sentinel /\ \A i : Handling(i)' <=> Handling(i)
      BY <3>1 DEF Ordered, sentinel, Handling
    <3> QED
      BY <2>1, <3>1, <3>2 DEF Ordered
  <2>7. CASE write_throws
    <3>1. /\ UNCHANGED <<handled, batch, failed>> /\ writer' = "dead" /\ handled = <<>>
          /\ \/ result_queue' = result_queue
             \/ result_queue # <<>> /\ result_queue' = Tail(result_queue)
      BY <1>0, <2>7 DEF write_throws, Thread
    <3>2. \A i : ~Handling(i)'
      BY <3>1 DEF Handling
    <3> QED
      BY <2>1, <2>2, <3>1, <3>2 DEF Ordered
  <2>8. ASSUME NEW commit_fails \in BOOLEAN, finalize_fails(commit_fails) PROVE Ordered'
    <3>0. PICK id \in ScanIds : id = sentinel.id /\ handled # <<>> /\ writer \in Finalizing
      BY <1>0, <2>8, HandledId DEF finalize_fails, Thread, Finalizing
    <3>1. /\ UNCHANGED <<result_queue, batch>> /\ handled' = <<>> /\ failed' = failed \cup {id}
          /\ batch = <<>>
      BY <2>8, <3>0 DEF finalize_fails, queue_vars, Ordered, Finalizing
    <3>2. id \in DOMAIN root_of /\ phase[id] = "ended"
      BY <1>0, <3>0 DEF Progress
    <3>3. \A s \in ToSet(result_queue) : s.id # id
      BY <3>0 DEF Ordered
    <3>4. \A i : ~Handling(i)'
      BY <3>1 DEF Handling
    <3> QED
      BY <2>1, <3>1, <3>2, <3>3, <3>4 DEF Ordered
  <2> QED
    BY <1>7, <2>3, <2>4, <2>5, <2>6, <2>7, <2>8 DEF Writing, database_fails
<1>8. CASE export_done
  <2>0. PICK id \in ScanIds : id = sentinel.id /\ handled # <<>> /\ writer = "publish"
    BY <1>0, <1>8, HandledId DEF export_done, finalize_publishes, Thread, Finalizing
  <2>1. /\ UNCHANGED <<result_queue, batch, failed, phase>> /\ handled' = <<>> /\ batch = <<>>
        /\ DOMAIN root_of' = DOMAIN root_of \ {id}
    BY <1>8, <2>0 DEF export_done, finalize_publishes, queue_vars, Restrict, Ordered
  <2>2. /\ \A s \in ToSet(result_queue) : s.id # id
        /\ id \notin failed
    BY <2>0 DEF Ordered, Handling
  <2>3. ToSet(batch') = {} /\ \A i : ~Handling(i)'
    BY <2>1 DEF ToSet, Handling
  <2> QED
    BY <2>1, <2>2, <2>3 DEF Ordered
<1>9. CASE restart
  <2>1. result_queue' = <<>> /\ batch' = <<>> /\ handled' = <<>> /\ failed' = {}
    BY <1>9 DEF restart, ExportStarts
  <2>2. ToSet(<<>>) = {} /\ 1 .. Len(<<>>) = {}
    BY DEF ToSet
  <2> QED
    BY <2>1, <2>2 DEF Ordered, Sorted
<1> QED
  BY <1>c, <1>2, <1>3, <1>4, <1>5, <1>6, <1>7, <1>8, <1>9 DEF Control
=============================================================================
