---------------------------- MODULE ScanViewProofs ----------------------------
(***************************************************************************)
(* Proofs about what ScanExport writes, for any tree, any number of scans  *)
(* and any batch size: what is shown of an exported scan is whole and      *)
(* final, the index below the root of a complete scan is what the scan     *)
(* visited, its counters count that, nothing is deleted unseen, a scan of  *)
(* a quiet tree leaves a mirror of it, the diff of a scan is what it       *)
(* changed in the index, and the summary of the index covers it; and the   *)
(* types, with what the export queue and a batch hold at most.             *)
(***************************************************************************)
EXTENDS ScanExportProofs

Items == ToSet(result_queue) \cup ToSet(batch)
Recording == {"mark", "diff", "count", "publish"}

LEMMA StartsOrdered == Init => Ordered
<1> SUFFICES ASSUME Init PROVE Ordered
  OBVIOUS
<1>1. result_queue = <<>> /\ batch = <<>> /\ handled = <<>> /\ failed = {}
  BY DEF Init, ExportInit
<1>2. ToSet(<<>>) = {} /\ 1 .. Len(<<>>) = {}
  BY DEF ToSet
<1> QED
  BY <1>1, <1>2 DEF Ordered, Sorted

LEMMA OrderedStutters == Ordered /\ UNCHANGED vars => Ordered'
BY DEF Ordered, Handling, sentinel, vars, export_vars, queue_vars, writer_vars, scan_vars,
   registry_vars, start_vars

-----------------------------------------------------------------------------
(* The steps that write the tables.  What they write is certain of the     *)
(* scans that are not `unwritten' afterwards; of any scan it is bounded.   *)

\* What the commit of a batch makes of the two tables.
BatchWritten(events) ==
  /\ DOMAIN index_current \subseteq DOMAIN index_current'
  /\ \A p \in DOMAIN index_current' :
       \/ \E e \in ToSet(events) : e.path = p /\ index_current'[p] = EventRow(e)
       \/ p \in DOMAIN index_current /\ index_current'[p] = index_current[p]
  /\ \A e \in ToSet(events) :
       \/ e.id \in unwritten'
       \/ /\ e.path \in DOMAIN index_current'
          /\ \E f \in ToSet(events) : f.path = e.path /\ index_current'[e.path] = EventRow(f)
  /\ \A k \in DOMAIN index_history :
       k \in DOMAIN index_history' /\ index_history'[k] = index_history[k]
  /\ \A k \in DOMAIN index_history' \ DOMAIN index_history :
       \E e \in ToSet(events) : k = <<e.id, e.path>> /\ index_history'[k] = EventEntry(e)
  /\ UNCHANGED <<scan_task_table, scan_diff_table>>

LEMMA CommittedRecords ==
  ASSUME NEW events \in Seq(Events), commit(events)
  PROVE  BatchWritten(events)
<1>1. CommitEffect(events)
  BY Committed
<1>2. \A e \in ToSet(events) : e.path \in DOMAIN index_current'
  BY <1>1 DEF CommitEffect
<1>3. ASSUME NEW e \in ToSet(events)
      PROVE  \E f \in ToSet(events) : f.path = e.path /\ index_current'[e.path] = EventRow(f)
  BY <1>1, <1>2 DEF CommitEffect
<1>4. /\ DOMAIN index_current \subseteq DOMAIN index_current'
      /\ \A p \in DOMAIN index_current' :
           \/ \E e \in ToSet(events) : e.path = p /\ index_current'[p] = EventRow(e)
           \/ p \in DOMAIN index_current /\ index_current'[p] = index_current[p]
  BY <1>1 DEF CommitEffect
<1>5. /\ \A k \in DOMAIN index_history :
           k \in DOMAIN index_history' /\ index_history'[k] = index_history[k]
      /\ \A k \in DOMAIN index_history' \ DOMAIN index_history :
           \E e \in ToSet(events) : k = <<e.id, e.path>> /\ index_history'[k] = EventEntry(e)
      /\ UNCHANGED <<scan_task_table, scan_diff_table>>
  BY <1>1 DEF CommitEffect
<1> QED
  BY <1>2, <1>3, <1>4, <1>5 DEF BatchWritten

LEMMA PartlyRecords ==
  ASSUME NEW events, commit_partly(events), \A e \in ToSet(events) : e.id \in unwritten'
  PROVE  BatchWritten(events)
<1>0. PICK written \in SUBSET ToSet(events), entered \in SUBSET ToSet(events) :
        /\ index_current' =
             [p \in DOMAIN index_current \cup {e.path : e \in written} |->
                IF \A e \in written : e.path # p THEN index_current[p]
                ELSE EventRow(CHOOSE e \in written : e.path = p)]
        /\ index_history' =
             Insert([k \in {<<e.id, e.path>> : e \in entered} |->
                       EventEntry(CHOOSE e \in entered : <<e.id, e.path>> = k)],
                    index_history)
        /\ UNCHANGED <<scan_task_table, scan_diff_table>>
  BY DEF commit_partly, EventRow, EventEntry, event_state
<1>1. ASSUME NEW p \in DOMAIN index_current'
      PROVE  \/ \E e \in ToSet(events) : e.path = p /\ index_current'[p] = EventRow(e)
             \/ p \in DOMAIN index_current /\ index_current'[p] = index_current[p]
  <2>1. CASE \A e \in written : e.path # p
    BY <1>0, <2>1
  <2>2. ASSUME NEW f \in written, f.path = p
        PROVE  \E e \in ToSet(events) : e.path = p /\ index_current'[p] = EventRow(e)
    <3> DEFINE e == CHOOSE e \in written : e.path = p
    <3>1. e \in written /\ e.path = p
      BY <2>2
    <3>2. index_current'[p] = EventRow(e)
      BY <1>0, <2>2
    <3> HIDE DEF e
    <3> QED
      BY <3>1, <3>2
  <2> QED
    BY <2>1, <2>2
<1>2. ASSUME NEW k \in DOMAIN index_history' \ DOMAIN index_history
      PROVE  \E e \in ToSet(events) : k = <<e.id, e.path>> /\ index_history'[k] = EventEntry(e)
  <2> DEFINE e == CHOOSE e \in entered : <<e.id, e.path>> = k
  <2>1. k \in {<<f.id, f.path>> : f \in entered} /\ index_history'[k] = EventEntry(e)
    BY <1>0 DEF Insert
  <2>2. e \in entered /\ <<e.id, e.path>> = k
    BY <2>1
  <2> HIDE DEF e
  <2> QED
    BY <2>1, <2>2
<1>3. \A k \in DOMAIN index_history :
        k \in DOMAIN index_history' /\ index_history'[k] = index_history[k]
  BY <1>0 DEF Insert
<1> QED
  BY <1>0, <1>1, <1>2, <1>3 DEF BatchWritten

Found(id) == {p \in DOMAIN index_current : index_current[p].id = id /\ index_current[p].fp # 0}

\* What a transaction of finalize_scan() writes.
Finalizes(id) ==
  \/ /\ writer = "insert" /\ writer' = "mark"
     /\ insert_scan(id, row[1].root, row[1].end) \/ (id \in unwritten' /\ UNCHANGED tables)
  \/ /\ writer = "mark" /\ writer' = "diff"
     /\ mark_deleted_partly(id, row[1].root, sentinel.canceled)
     /\ id \in unwritten' \/ mark_deleted(id, row[1].root, sentinel.canceled)
  \/ /\ writer = "diff" /\ writer' = "count"
     /\ find_scan_diff_partly(id)
     /\ id \in unwritten' \/ find_scan_diff(id)
  \/ /\ writer = "count" /\ writer' = "publish"
     /\ UNCHANGED tables \/ \E n \in {0, Cardinality(Found(id))} : set_count(id, n)
     /\ id \in unwritten' \/ upsert_count(id)

\* Which steps write the tables.
LEMMA OtherSteps ==
  ASSUME Next
  PROVE  \/ UNCHANGED tables /\ (UNCHANGED writer \/ writer' \notin Recording)
         \/ write_results \/ statements_fail
<1>1. ASSUME NEW id \in ScanIds,
             cancel_scan(id) \/ flag_sentinel(id) \/ push_sentinel(id) \/ hand_over_row(id)
      PROVE  UNCHANGED <<tables, writer>>
  BY <1>1 DEF cancel_scan, flag_sentinel, push_sentinel, hand_over_row, push_result_queue,
     insert_scan_task, export_vars, writer_vars
<1>2. ASSUME NEW id \in ScanIds, NEW p \in Paths,
             \/ start_scan(id, p) \/ stop_pool_before(id, p)
             \/ visit_node(id, p) \/ finish_node(id, p)
      PROVE  UNCHANGED <<tables, writer>>
  BY <1>2 DEF start_scan, stop_pool_before, begin, visit_node, finish_node, push_result_queue,
     export_vars, writer_vars
<1>3. CASE (\E p \in Paths : tree_changes(p)) \/ stop_pool \/ stop_exporting
  BY <1>3 DEF tree_changes, stop_pool, stop_exporting, shutdown, export_vars, writer_vars
<1>4. CASE restart \/ database_fails \/ export_done
  BY <1>4 DEF restart, ExportStarts, database_fails, write_throws, finalize_fails, export_done,
     finalize_publishes, Recording
<1> QED
  BY <1>1, <1>2, <1>3, <1>4 DEF Next, Regular

\* What a step of the result thread writes, and when.
LEMMA TableSteps ==
  ASSUME ExportInv, Next
  PROVE  \/ UNCHANGED tables /\ (UNCHANGED writer \/ writer' \notin Recording)
         \/ /\ writer = "pop" /\ writer' \in {"pop", "row", "exited"}
            /\ \E events \in Seq(Events) : BatchWritten(events) /\ ToSet(events) \subseteq Items
         \/ finalized /\ Finalizes(sentinel.id)
<1>0. Types /\ Thread
  BY DEF ExportInv
<1>e. ASSUME take_event
      PROVE  /\ Append(batch, Head(result_queue)) \in Seq(Events)
             /\ ToSet(Append(batch, Head(result_queue))) \subseteq Items
             /\ writer = "pop" /\ writer' = "pop"
  <2>1. Head(result_queue) \in Events /\ Head(result_queue) \in ToSet(result_queue)
    BY <1>0, <1>e, ItemsTail, Sets DEF Types, take_event
  <2>2. /\ Append(batch, Head(result_queue)) \in Seq(Events)
        /\ ToSet(Append(batch, Head(result_queue))) = ToSet(batch) \cup {Head(result_queue)}
    BY <1>0, <2>1, AppendProperties, ItemsAppended DEF Types
  <2> QED
    BY <1>e, <2>1, <2>2 DEF Items, take_event
<1>b. batch \in Seq(Events) /\ ToSet(batch) \subseteq Items
  BY <1>0 DEF Types, Items
<1>5. CASE pop_event
  <2>1. UNCHANGED tables \/ commit(Append(batch, Head(result_queue)))
    BY <1>5 DEF pop_event
  <2>2. take_event
    BY <1>5 DEF pop_event
  <2> HIDE DEF tables
  <2> QED
    BY <1>e, <2>1, <2>2, CommittedRecords
<1>6. CASE pop_sentinel \/ stop_writing
  <2>1. commit(batch) /\ writer = "pop" /\ writer' \in {"row", "exited"}
    BY <1>6 DEF pop_sentinel, take_sentinel, stop_writing, finish_writing, commit_batch
  <2> QED
    BY <1>b, <2>1, CommittedRecords
<1>7. CASE get_scan_task \/ get_scan_task_throws
  BY <1>7 DEF get_scan_task, get_scan_task_throws, Recording
<1>8. CASE finalize_inserts \/ finalize_marks \/ finalize_diffs \/ finalize_counts
  <2>1. finalized
    BY <1>8 DEF finalize_inserts, finalize_marks, finalize_diffs, finalize_counts, finalized
  <2>2. Finalizes(sentinel.id)
    <3>1. CASE finalize_inserts
      BY <3>1 DEF finalize_inserts, finalize_step, Finalizes
    <3>2. CASE finalize_marks
      <4>1. mark_deleted_partly(sentinel.id, row[1].root, sentinel.canceled)
        BY <3>2 DEF finalize_marks, mark_deleted, mark_deleted_partly
      <4> QED
        BY <3>2, <4>1 DEF finalize_marks, finalize_step, Finalizes
    <3>3. CASE finalize_diffs
      <4>1. find_scan_diff_partly(sentinel.id)
        BY <3>3 DEF finalize_diffs, find_scan_diff, find_scan_diff_partly
      <4> QED
        BY <3>3, <4>1 DEF finalize_diffs, finalize_step, Finalizes
    <3>4. CASE finalize_counts
      <4>1. set_count(sentinel.id, Cardinality(Found(sentinel.id)))
        BY <3>4 DEF finalize_counts, upsert_count, Found
      <4> QED
        BY <3>4, <4>1 DEF finalize_counts, finalize_step, Finalizes
    <3> QED
      BY <1>8, <3>1, <3>2, <3>3, <3>4
  <2> QED
    BY <2>1, <2>2
<1>9. CASE statements_fail
  <2>1. CASE /\ commit_batch_partly
             /\ unwritten' = unwritten \cup {event.id : event \in ToSet(in_batch)}
    <3>1. /\ in_batch \in Seq(Events) /\ ToSet(in_batch) \subseteq Items
          /\ writer = "pop" /\ writer' \in {"pop", "row", "exited"}
      <4>1. CASE take_event
        BY <1>e, <4>1 DEF take_event, in_batch
      <4>2. CASE take_sentinel \/ finish_writing
        BY <1>b, <4>2 DEF take_sentinel, finish_writing, in_batch
      <4> QED
        BY <2>1, <4>1, <4>2 DEF commit_batch_partly
    <3>2. commit_partly(in_batch) /\ \A e \in ToSet(in_batch) : e.id \in unwritten'
      BY <2>1 DEF commit_batch_partly
    <3>3. BatchWritten(in_batch)
      BY <3>2, PartlyRecords
    <3> QED
      BY <3>1, <3>3
  <2>2. CASE finalize_partly /\ unwritten' = unwritten \cup {sentinel.id}
    <3>1. finalized
      BY <2>2 DEF finalize_partly, finalized
    <3>2. sentinel.id \in unwritten'
      BY <2>2
    <3>3. Finalizes(sentinel.id)
      <4>1. CASE finalize_step("insert", "mark") /\ UNCHANGED tables
        BY <3>2, <4>1 DEF finalize_step, Finalizes
      <4>2. CASE /\ finalize_step("mark", "diff")
                 /\ mark_deleted_partly(sentinel.id, row[1].root, sentinel.canceled)
        BY <3>2, <4>2 DEF finalize_step, Finalizes
      <4>3. CASE finalize_step("diff", "count") /\ find_scan_diff_partly(sentinel.id)
        BY <3>2, <4>3 DEF finalize_step, Finalizes
      <4>4. CASE finalize_step("count", "publish") /\ upsert_count_partly(sentinel.id)
        BY <3>2, <4>4 DEF finalize_step, Finalizes, upsert_count_partly
      <4> QED
        BY <2>2, <4>1, <4>2, <4>3, <4>4 DEF finalize_partly
    <3> QED
      BY <3>1, <3>3
  <2> QED
    BY <1>9, <2>1, <2>2 DEF statements_fail
<1>10. CASE write_results
  BY <1>5, <1>6, <1>7, <1>8, <1>10 DEF write_results
<1> HIDE DEF tables
<1> QED
  BY <1>9, <1>10, OtherSteps

\* A batch that is committed in part.
LEMMA InBatch ==
  ASSUME ExportInv, commit_batch_partly
  PROVE  in_batch \in Seq(Events) /\ in_batch # <<>> /\ \A e \in ToSet(in_batch) : e \in Events
<1>1. batch \in Seq(Events) /\ Len(batch) \in Nat
  BY LenProperties DEF ExportInv, Types
<1>2. CASE take_event
  <2>1. Head(result_queue) \in Events
    BY <1>2, ItemsTail, Sets DEF ExportInv, Types, take_event
  <2>2. /\ in_batch = Append(batch, Head(result_queue))
        /\ in_batch \in Seq(Events) /\ Len(in_batch) = Len(batch) + 1
    BY <1>1, <1>2, <2>1, AppendProperties DEF take_event, in_batch
  <2>3. Len(in_batch) # 0
    BY <1>1, <2>2
  <2> QED
    BY <2>2, <2>3 DEF ToSet
<1>3. CASE (take_sentinel \/ finish_writing) /\ batch # <<>>
  BY <1>1, <1>3 DEF take_sentinel, finish_writing, in_batch, ToSet
<1> QED
  BY <1>2, <1>3 DEF commit_batch_partly

LEMMA UnwrittenStays ==
  ASSUME ExportInv, Next
  PROVE  unwritten \subseteq unwritten' /\ (unwritten' = {} => ~statements_fail)
<1>1. ASSUME NEW id \in ScanIds,
             cancel_scan(id) \/ flag_sentinel(id) \/ push_sentinel(id) \/ hand_over_row(id)
      PROVE  UNCHANGED unwritten
  BY <1>1 DEF cancel_scan, flag_sentinel, push_sentinel, hand_over_row, history_vars, scan_vars
<1>2. ASSUME NEW id \in ScanIds, NEW p \in Paths,
             \/ start_scan(id, p) \/ stop_pool_before(id, p)
             \/ visit_node(id, p) \/ finish_node(id, p)
      PROVE  UNCHANGED unwritten
  BY <1>2 DEF start_scan, stop_pool_before, begin, visit_node, finish_node, history_vars
<1>3. ASSUME \/ \E p \in Paths : tree_changes(p)
             \/ stop_pool \/ stop_exporting \/ write_results \/ database_fails
             \/ export_done \/ restart
      PROVE  UNCHANGED unwritten
  BY <1>3 DEF tree_changes, stop_pool, stop_exporting, write_results, database_fails, export_done,
     restart, history_vars
<1>4. ASSUME statements_fail PROVE unwritten \subseteq unwritten' /\ unwritten' # {}
  <2>1. CASE /\ commit_batch_partly
             /\ unwritten' = unwritten \cup {event.id : event \in ToSet(in_batch)}
    <3>1. in_batch[1] \in ToSet(in_batch)
      BY <2>1, InBatch DEF ToSet
    <3> QED
      BY <2>1, <3>1
  <2>2. CASE unwritten' = unwritten \cup {sentinel.id}
    BY <2>2
  <2> QED
    BY <1>4, <2>1, <2>2 DEF statements_fail
<1> QED
  BY <1>1, <1>2, <1>3, <1>4 DEF Next, Regular

LEMMA FinalizesAre ==
  ASSUME ExportInv, finalized
  PROVE  \E id \in ScanIds :
           /\ id = sentinel.id /\ sentinel' = sentinel /\ id \in DOMAIN root_of
           /\ handled # <<>> /\ UNCHANGED <<handled, row, exported_map, failed, batch, result_queue>>
           /\ sentinel \in Sentinels /\ row # <<>> /\ row[1].root = root_of[id]
<1>0. writer \in Finalizing
  BY DEF finalized, finalize_step, Finalizing
<1>1. Thread /\ Progress
  BY DEF ExportInv
<1>2. handled # <<>> /\ row # <<>>
  BY <1>0, <1>1 DEF Thread
<1>3. sentinel \in Sentinels /\ sentinel.id \in ScanIds
  BY <1>2, HandledId
<1>4. sentinel.id \in DOMAIN root_of /\ row[1].root = root_of[sentinel.id]
  BY <1>0, <1>1 DEF Progress
<1>5. UNCHANGED <<handled, row, exported_map, failed, batch, result_queue>> /\ sentinel' = sentinel
  BY DEF finalized, finalize_step, queue_vars, sentinel
<1> QED
  BY <1>2, <1>3, <1>4, <1>5

-----------------------------------------------------------------------------
(* The types of the tables *)

RowTypes == TablesTypeOK /\ (row # <<>> => row[1] \in ScanRows)

Typed(table, K, R) == DOMAIN table \subseteq K /\ \A k \in DOMAIN table : table[k] \in R

CurrentRows == [id : ScanIds, fp : Fingerprints, state : {"Alive", "Error"}]
HistoryRows == [fp : Fingerprints, state : EventState]
TaskRows == [root : Paths, end : {"DONE", "CANCELED"}, count : Nat \cup {NULL}]
DiffLines == [state : ScanState, old : Fingerprints]

LEMMA TableTypes ==
  TablesTypeOK <=> /\ Typed(index_current, Paths, CurrentRows)
                   /\ Typed(index_history, ScanIds \X Paths, HistoryRows)
                   /\ Typed(scan_task_table, ScanIds, TaskRows)
                   /\ Typed(scan_diff_table, ScanIds \X Paths, DiffLines)
BY DEF TablesTypeOK, Typed, CurrentRows, HistoryRows, TaskRows, DiffLines

LEMMA InsertTyped ==
  ASSUME NEW K, NEW R, NEW rows, NEW table, Typed(table, K, R), Typed(rows, K, R)
  PROVE  Typed(Insert(rows, table), K, R)
BY DEF Typed, Insert

LEMMA EventTypes ==
  ASSUME NEW e \in Events
  PROVE  /\ e.id \in ScanIds /\ e.path \in Paths /\ e.fp \in Fingerprints
         /\ EventRow(e) \in CurrentRows /\ EventEntry(e) \in HistoryRows
         /\ <<e.id, e.path>> \in ScanIds \X Paths
<1>1. e.id \in ScanIds /\ e.path \in Paths /\ e.fp \in Fingerprints
  BY DEF Events
<1> QED
  BY <1>1 DEF EventRow, EventEntry, EventState, CurrentRows, HistoryRows

LEMMA DiffRows ==
  ASSUME TablesTypeOK, NEW id \in ScanIds, NEW p \in Paths, <<id, p>> \in DOMAIN index_history
  PROVE  diff_row(id, p) \in [state : ScanState, old : Fingerprints]
<1> DEFINE now == index_history[<<id, p>>].state
           before == earlier(id, p)
           prev == index_history[<<Max(before), p>>]
<1>1. now \in EventState
  BY DEF TablesTypeOK
<1>2. before # {} => prev.fp \in Fingerprints
  <2>1. SUFFICES ASSUME before # {} PROVE prev.fp \in Fingerprints
    OBVIOUS
  <2>2. id \in Nat /\ before \subseteq 0 .. id
    BY BoundsAssumption DEF ScanIds, earlier
  <2>3. Max(before) \in before
    <3> HIDE DEF before
    <3> QED
      BY <2>1, <2>2, IsMax
  <2>4. <<Max(before), p>> \in DOMAIN index_history
    BY <2>3 DEF earlier
  <2> HIDE DEF before
  <2> QED
    BY <2>4 DEF TablesTypeOK
<1>3. 0 \in Fingerprints
  BY BoundsAssumption DEF Fingerprints
<1>4. diff_row(id, p) = [state |-> CASE now # "Alive" -> now
                                     [] now = "Alive" /\ (before = {} \/ prev.state = "Deleted") -> "New"
                                     [] OTHER -> "Changed",
                         old |-> IF before = {} THEN 0 ELSE prev.fp]
  BY DEF diff_row
<1> HIDE DEF now, before, prev
<1>5. (CASE now # "Alive" -> now
         [] now = "Alive" /\ (before = {} \/ prev.state = "Deleted") -> "New"
         [] OTHER -> "Changed") \in ScanState
  BY <1>1 DEF EventState, ScanState
<1>6. (IF before = {} THEN 0 ELSE prev.fp) \in Fingerprints
  BY <1>2, <1>3
<1> QED
  BY <1>4, <1>5, <1>6

LEMMA NextRowTypes == ExportInv /\ RowTypes /\ Next => RowTypes'
<1> SUFFICES ASSUME ExportInv, RowTypes, Next PROVE RowTypes'
  OBVIOUS
<1>c. Control
  BY Controls DEF ExportInv
<1>0. /\ TablesTypeOK
      /\ Typed(index_current, Paths, CurrentRows)
      /\ Typed(index_history, ScanIds \X Paths, HistoryRows)
      /\ Typed(scan_task_table, ScanIds, TaskRows)
      /\ Typed(scan_diff_table, ScanIds \X Paths, DiffLines)
  BY TableTypes DEF RowTypes
<1>t. ASSUME /\ Typed(index_current', Paths, CurrentRows)
             /\ Typed(index_history', ScanIds \X Paths, HistoryRows)
             /\ Typed(scan_task_table', ScanIds, TaskRows)
             /\ Typed(scan_diff_table', ScanIds \X Paths, DiffLines)
      PROVE  TablesTypeOK'
  BY <1>t DEF TablesTypeOK, Typed, CurrentRows, HistoryRows, TaskRows, DiffLines
<1>1. (row # <<>> => row[1] \in ScanRows)'
  <2>1. CASE get_scan_task
    <3>1. row' = <<pending_scan_rows[sentinel.id]>> /\ sentinel.id \in DOMAIN pending_scan_rows
      BY <2>1 DEF get_scan_task
    <3> QED
      BY <3>1, Single DEF ExportInv, Types
  <2>2. ASSUME ~get_scan_task PROVE row' = row \/ row' = <<>>
    <3>1. ASSUME NEW id \in ScanIds,
                 cancel_scan(id) \/ flag_sentinel(id) \/ push_sentinel(id) \/ hand_over_row(id)
          PROVE  row' = row
      BY <3>1 DEF cancel_scan, flag_sentinel, push_sentinel, hand_over_row, push_result_queue,
         insert_scan_task, export_vars, writer_vars
    <3>2. ASSUME NEW id \in ScanIds, NEW p \in Paths,
                 \/ start_scan(id, p) \/ stop_pool_before(id, p)
                 \/ visit_node(id, p) \/ finish_node(id, p)
          PROVE  row' = row
      BY <3>2 DEF start_scan, stop_pool_before, begin, visit_node, finish_node, push_result_queue,
         export_vars, writer_vars
    <3>3. CASE (\E p \in Paths : tree_changes(p)) \/ stop_pool \/ stop_exporting \/ restart
      BY <3>3 DEF tree_changes, stop_pool, stop_exporting, restart, shutdown, ExportStarts,
         export_vars, writer_vars
    <3>4. CASE database_fails \/ export_done
      BY <3>4 DEF database_fails, write_throws, finalize_fails, export_done, finalize_publishes
    <3>5. CASE Writing
      BY <2>2, <3>5 DEF Writing, took_event, take_event, took_sentinel, take_sentinel, finished,
         finish_writing, get_scan_task_throws, finalized, finalize_step
    <3> QED
      BY <1>c, <3>1, <3>2, <3>3, <3>4, <3>5 DEF Control
  <2> QED
    BY <2>1, <2>2 DEF RowTypes
<1>2. CASE UNCHANGED tables
  BY <1>0, <1>1, <1>2 DEF RowTypes, TablesTypeOK, tables
<1>3. ASSUME NEW events \in Seq(Events), BatchWritten(events) PROVE TablesTypeOK'
  <2>1. \A e \in ToSet(events) : e \in Events
    BY DEF ToSet
  <2>2. /\ \A p \in DOMAIN index_current' :
             \/ \E e \in ToSet(events) : e.path = p /\ index_current'[p] = EventRow(e)
             \/ p \in DOMAIN index_current /\ index_current'[p] = index_current[p]
        /\ \A k \in DOMAIN index_history :
             k \in DOMAIN index_history' /\ index_history'[k] = index_history[k]
        /\ \A k \in DOMAIN index_history' \ DOMAIN index_history :
             \E e \in ToSet(events) :
               k = <<e.id, e.path>> /\ index_history'[k] = EventEntry(e)
        /\ UNCHANGED <<scan_task_table, scan_diff_table>>
    BY <1>3 DEF BatchWritten
  <2>3. Typed(index_current', Paths, CurrentRows)
    <3>1. ASSUME NEW p \in DOMAIN index_current'
          PROVE  p \in Paths /\ index_current'[p] \in CurrentRows
      <4>1. CASE \E e \in ToSet(events) : e.path = p /\ index_current'[p] = EventRow(e)
        BY <2>1, <4>1, EventTypes
      <4>2. CASE p \in DOMAIN index_current /\ index_current'[p] = index_current[p]
        BY <1>0, <4>2 DEF Typed
      <4> QED
        BY <2>2, <4>1, <4>2
    <3> QED
      BY <3>1 DEF Typed
  <2>4. Typed(index_history', ScanIds \X Paths, HistoryRows)
    <3>1. ASSUME NEW k \in DOMAIN index_history'
          PROVE  k \in ScanIds \X Paths /\ index_history'[k] \in HistoryRows
      <4>1. CASE k \in DOMAIN index_history
        BY <1>0, <2>2, <4>1 DEF Typed
      <4>2. CASE k \notin DOMAIN index_history
        BY <2>1, <2>2, <4>2, EventTypes
      <4> QED
        BY <4>1, <4>2
    <3> QED
      BY <3>1 DEF Typed
  <2> QED
    BY <1>0, <1>t, <2>2, <2>3, <2>4
<1>4. CASE finalized /\ Finalizes(sentinel.id)
  <2>0. PICK id \in ScanIds :
           /\ row # <<>>
           /\ \/ UNCHANGED tables
              \/ insert_scan(id, row[1].root, row[1].end)
              \/ mark_deleted_partly(id, row[1].root, sentinel.canceled)
              \/ \E keys \in SUBSET history_of(id) : write_diff(id, keys)
              \/ \E n \in {0, Cardinality(Found(id))} : set_count(id, n)
    BY <1>4, FinalizesAre DEF Finalizes, find_scan_diff_partly
  <2>1. row[1] \in ScanRows
    BY <2>0 DEF RowTypes
  <2>2. ASSUME insert_scan(id, row[1].root, row[1].end) PROVE TablesTypeOK'
    <3> DEFINE new == [root |-> row[1].root, end |-> row[1].end, count |-> NULL]
    <3>1. new \in TaskRows
      BY <2>1 DEF ScanRows, TaskRows
    <3>2. scan_task_table' = Insert([i \in {id} |-> new], scan_task_table)
          /\ UNCHANGED <<index_current, index_history, scan_diff_table>>
      BY <2>2 DEF insert_scan
    <3> HIDE DEF new
    <3>3. Typed([i \in {id} |-> new], ScanIds, TaskRows)
      BY <3>1 DEF Typed
    <3>4. Typed(scan_task_table', ScanIds, TaskRows)
      BY <1>0, <3>2, <3>3, InsertTyped
    <3> QED
      BY <1>0, <1>t, <3>2, <3>4
  <2>3. ASSUME mark_deleted_partly(id, row[1].root, sentinel.canceled) PROVE TablesTypeOK'
    <3> DEFINE gone == unvisited(id, row[1].root)
               keys == {id} \X gone
               state == IF sentinel.canceled THEN "Canceled" ELSE "Deleted"
    <3>1. gone \subseteq DOMAIN index_current /\ state \in EventState
      BY DEF unvisited, EventState
    <3>2. /\ UNCHANGED <<scan_task_table, scan_diff_table>>
          /\ index_current' = index_current
             \/ index_current' = Restrict(index_current, DOMAIN index_current \ gone)
          /\ index_history' = index_history
             \/ index_history' =
                  Insert([k \in keys |-> [fp |-> index_current[k[2]].fp, state |-> state]],
                         index_history)
      BY <2>3 DEF mark_deleted_partly, insert_marks, delete_unvisited
    <3>3. \A k \in keys : /\ k \in ScanIds \X Paths
                          /\ [fp |-> index_current[k[2]].fp, state |-> state] \in HistoryRows
      <4> HIDE DEF gone, state
      <4>1. \A k \in keys : k[1] = id /\ k[2] \in DOMAIN index_current /\ k = <<k[1], k[2]>>
        BY <3>1
      <4> QED
        BY <1>0, <3>1, <4>1 DEF Typed, CurrentRows, HistoryRows
    <3> HIDE DEF keys, gone
    <3>4. Typed([k \in keys |-> [fp |-> index_current[k[2]].fp, state |-> state]],
                ScanIds \X Paths, HistoryRows)
      <4> DEFINE entry(k) == [fp |-> index_current[k[2]].fp, state |-> state]
      <4>1. \A k \in keys : k \in ScanIds \X Paths /\ entry(k) \in HistoryRows
        BY <3>3
      <4> HIDE DEF entry
      <4>2. Typed([k \in keys |-> entry(k)], ScanIds \X Paths, HistoryRows)
        BY <4>1 DEF Typed
      <4> QED
        BY <4>2 DEF entry
    <3> HIDE DEF state
    <3>5. Typed(index_history', ScanIds \X Paths, HistoryRows)
      BY <1>0, <3>2, <3>4, InsertTyped
    <3>6. Typed(index_current', Paths, CurrentRows)
      BY <1>0, <3>2 DEF Typed, Restrict
    <3> QED
      BY <1>0, <1>t, <3>2, <3>5, <3>6
  <2>4. ASSUME NEW keys \in SUBSET history_of(id), write_diff(id, keys) PROVE TablesTypeOK'
    <3>0. \A k \in keys : k \in DOMAIN index_history /\ k[1] = id
      BY DEF history_of
    <3>1. /\ scan_diff_table' = Insert([k \in keys |-> diff_row(id, k[2])], scan_diff_table)
          /\ UNCHANGED <<index_current, index_history, scan_task_table>>
      BY <2>4 DEF write_diff
    <3>2. \A k \in keys : /\ k \in ScanIds \X Paths
                          /\ diff_row(id, k[2]) \in DiffLines
      <4>1. \A k \in keys : k[2] \in Paths /\ k = <<id, k[2]>> /\ k \in DOMAIN index_history
        BY <1>0, <3>0 DEF Typed
      <4> QED
        BY <1>0, <4>1, DiffRows DEF Typed, DiffLines
    <3>3. Typed([k \in keys |-> diff_row(id, k[2])], ScanIds \X Paths, DiffLines)
      <4> HIDE DEF diff_row
      <4> QED
        BY <3>2 DEF Typed
    <3>4. Typed(scan_diff_table', ScanIds \X Paths, DiffLines)
      BY <1>0, <3>1, <3>3, InsertTyped
    <3> QED
      BY <1>0, <1>t, <3>1, <3>4
  <2>5. ASSUME NEW n \in {0, Cardinality(Found(id))}, set_count(id, n) PROVE TablesTypeOK'
    <3>1. n \in Nat
      <4>1. Found(id) \subseteq Paths /\ IsFiniteSet(Paths)
        BY <1>0, PathsAssumption DEF TablesTypeOK, Found
      <4>2. Cardinality(Found(id)) \in Nat
        BY <4>1, FS_Subset, FS_CardinalityType
      <4> QED
        BY <4>2
    <3>2. UNCHANGED <<index_current, index_history, scan_diff_table>>
      BY <2>5 DEF set_count
    <3>3. Typed(scan_task_table', ScanIds, TaskRows)
      BY <1>0, <2>5, <3>1 DEF set_count, Typed, TaskRows
    <3> QED
      BY <1>0, <1>t, <3>2, <3>3
  <2> QED
    BY <1>1, <1>2, <2>0, <2>2, <2>3, <2>4, <2>5 DEF RowTypes
<1> QED
  BY <1>1, <1>2, <1>3, <1>4, TableSteps DEF RowTypes

-----------------------------------------------------------------------------
(* The pages of get_all() *)

LEMMA TaskIds ==
  ASSUME DOMAIN scan_task_table \subseteq ScanIds
  PROVE  /\ DOMAIN scan_task_table \subseteq Nat /\ IsFiniteSet(DOMAIN scan_task_table)
         /\ \A x : /\ IsFiniteSet({j \in DOMAIN scan_task_table : j > x})
                   /\ later_than(x) \in 0 .. MaxScanId
<1> DEFINE T == DOMAIN scan_task_table
<1>1. MaxScanId \in Nat /\ T \subseteq 1 .. MaxScanId /\ T \subseteq Nat
  BY BoundsAssumption DEF ScanIds
<1>2. IsFiniteSet(1 .. MaxScanId) /\ Cardinality(1 .. MaxScanId) = MaxScanId
  BY <1>1, FS_Interval
<1>3. ASSUME NEW x
      PROVE  /\ IsFiniteSet({j \in T : j > x}) /\ Cardinality({j \in T : j > x}) \in 0 .. MaxScanId
  <2> DEFINE U == {j \in T : j > x}
  <2>1. U \in SUBSET (1 .. MaxScanId)
    BY <1>1
  <2> HIDE DEF U
  <2>2. IsFiniteSet(U) /\ Cardinality(U) <= MaxScanId /\ Cardinality(U) \in Nat
    BY <1>2, <2>1, FS_Subset, FS_CardinalityType
  <2>3. Cardinality(U) \in 0 .. MaxScanId
    BY <1>1, <2>2
  <2> QED
    BY <2>2, <2>3 DEF U
<1>4. IsFiniteSet(T)
  BY <1>1, <1>2, FS_Subset
<1> QED
  BY <1>1, <1>3, <1>4 DEF later_than

\* The scan before a scan that is not the latest.
LEMMA OneLater ==
  ASSUME DOMAIN scan_task_table \subseteq ScanIds, NEW x \in DOMAIN scan_task_table,
         later_than(x) # 0
  PROVE  \E y \in DOMAIN scan_task_table : later_than(y) = later_than(x) - 1
<1> DEFINE T == DOMAIN scan_task_table
           U == {j \in T : j > x}
<1>1. IsFiniteSet(U) /\ Cardinality(U) = later_than(x) /\ T \subseteq Nat /\ Cardinality(U) \in Nat
  BY TaskIds DEF later_than
<1>2. U # {} /\ U \subseteq Nat
  <2>1. U \subseteq Nat
    BY <1>1
  <2> HIDE DEF U
  <2> QED
    BY <1>1, <2>1, FS_EmptySet
<1>3. PICK y \in U : \A z \in U : y <= z
  <2> HIDE DEF U
  <2> QED
    BY <1>1, <1>2, HasMinimum
<1>4. y \in T /\ \A j \in T : j > y <=> j \in U \ {y}
  <2>1. \A j \in T : j \in Nat
    BY <1>1
  <2>2. y \in T /\ y > x /\ y \in Nat /\ x \in Nat
    BY <2>1
  <2>3. ASSUME NEW j \in T PROVE j > y <=> j \in U \ {y}
    <3>1. j \in U => y <= j
      BY <1>3
    <3> QED
      BY <2>1, <2>2, <3>1
  <2> QED
    BY <2>2, <2>3
<1>5. {j \in T : j > y} = U \ {y}
  <2>1. U \subseteq T
    OBVIOUS
  <2> HIDE DEF U, T
  <2> QED
    BY <1>4, <2>1
<1>6. Cardinality(U \ {y}) = Cardinality(U) - 1
  <2> HIDE DEF U
  <2> QED
    BY <1>1, <1>3, FS_RemoveElement
<1> QED
  BY <1>1, <1>4, <1>5, <1>6 DEF later_than

LEMMA EveryRank ==
  ASSUME DOMAIN scan_task_table \subseteq ScanIds, NEW x \in DOMAIN scan_task_table,
         NEW r \in 0 .. later_than(x)
  PROVE  \E y \in DOMAIN scan_task_table : later_than(y) = r
<1> DEFINE N == later_than(x)
           Good == {k \in 0 .. N : \E y \in DOMAIN scan_task_table : later_than(y) = N - k}
<1>1. N \in Nat
  <2>1. later_than(x) \in 0 .. MaxScanId
    BY TaskIds
  <2> QED
    BY <2>1, BoundsAssumption
<1>2. 0 \in Good
  BY <1>1
<1>3. ASSUME NEW k \in 0 .. N - 1, k \in Good PROVE k + 1 \in Good
  <2>1. PICK y \in DOMAIN scan_task_table : later_than(y) = N - k
    BY <1>3
  <2> HIDE DEF N
  <2>2. N - k # 0 /\ (N - k) - 1 = N - (k + 1) /\ k + 1 \in 0 .. N
    BY <1>1
  <2>3. PICK z \in DOMAIN scan_task_table : later_than(z) = later_than(y) - 1
    BY <2>1, <2>2, OneLater
  <2> QED
    BY <2>1, <2>2, <2>3
<1>4. N - r \in 0 .. N /\ N - (N - r) = r
  <2>1. r \in 0 .. N
    OBVIOUS
  <2> HIDE DEF N
  <2> QED
    BY <1>1, <2>1
<1> HIDE DEF Good, N
<1>5. \A k \in 0 .. N : k \in Good
  BY <1>1, <1>2, <1>3, StepByStep
<1>6. N - r \in Good
  BY <1>4, <1>5
<1> QED
  BY <1>4, <1>6 DEF Good

LEMMA Counted ==
  ASSUME NEW S, NEW T, IsFiniteSet(T), NEW f \in [S -> T], \A a, b \in S : f[a] = f[b] => a = b
  PROVE  Cardinality(S) <= Cardinality(T)
<1>1. f \in Injection(S, T)
  BY DEF Injection, IsInjective
<1> QED
  BY <1>1, FS_Injection

\* A page that is not full is the last.
LEMMA LastPage ==
  ASSUME DOMAIN scan_task_table \subseteq ScanIds, NEW limit \in Nat \ {0}, NEW offset \in Nat,
         NEW x \in DOMAIN scan_task_table, later_than(x) >= offset + limit
  PROVE  /\ IsFiniteSet(get_all(limit, offset))
         /\ limit <= Cardinality(get_all(limit, offset))
<1> DEFINE T == DOMAIN scan_task_table
           S == offset .. offset + limit - 1
           page == get_all(limit, offset)
           f == [r \in S |-> CHOOSE y \in T : later_than(y) = r]
<1>1. later_than(x) \in Nat
  <2>1. later_than(x) \in 0 .. MaxScanId
    BY TaskIds
  <2> QED
    BY <2>1, BoundsAssumption
<1>2. ASSUME NEW r \in S PROVE \E y \in T : later_than(y) = r
  <2>1. r \in 0 .. later_than(x)
    BY <1>1
  <2> QED
    BY <2>1, EveryRank
<1>3. ASSUME NEW r \in S PROVE f[r] \in page /\ later_than(f[r]) = r
  <2>1. f[r] \in T /\ later_than(f[r]) = r
    <3> HIDE DEF T
    <3> QED
      BY <1>2
  <2> HIDE DEF f
  <2> QED
    BY <2>1 DEF get_all
<1>4. IsFiniteSet(page)
  <2>1. page \in SUBSET T /\ IsFiniteSet(T)
    BY TaskIds DEF get_all
  <2> HIDE DEF page, T
  <2> QED
    BY <2>1, FS_Subset
<1>5. Cardinality(S) = limit
  <2>1. offset \in Int /\ offset + limit - 1 \in Int /\ ~(offset > offset + limit - 1)
        /\ (offset + limit - 1) - offset + 1 = limit
    OBVIOUS
  <2> QED
    BY <2>1, FS_Interval
<1>6. f \in [S -> page]
  <2>1. f = [r \in S |-> f[r]]
    OBVIOUS
  <2> HIDE DEF f, page, S
  <2> QED
    BY <1>3, <2>1
<1>7. Cardinality(S) <= Cardinality(page)
  <2> HIDE DEF f, page, S
  <2> QED
    BY <1>3, <1>4, <1>6, Counted
<1> HIDE DEF page, S
<1> QED
  BY <1>4, <1>5, <1>7 DEF page

From(offset) == {x \in DOMAIN scan_task_table : later_than(x) >= offset}

\* What one page says of the following.
LEMMA PageByPage ==
  ASSUME DOMAIN scan_task_table \subseteq ScanIds, NEW offset \in Nat
  PROVE  From(offset) = get_all(LOAD_LIMIT, offset)
                          \cup IF Cardinality(get_all(LOAD_LIMIT, offset)) < LOAD_LIMIT THEN {}
                               ELSE From(offset + LOAD_LIMIT)
<1> DEFINE L == LOAD_LIMIT
           page == get_all(L, offset)
<1>0. L \in Nat \ {0}
  BY ExportAssumption
<1>1. \A x \in DOMAIN scan_task_table : later_than(x) \in Nat
  <2>1. \A x \in DOMAIN scan_task_table : later_than(x) \in 0 .. MaxScanId
    BY TaskIds
  <2> QED
    BY <2>1, BoundsAssumption
<1> HIDE DEF L
<1>2. \A x \in DOMAIN scan_task_table :
        /\ x \in page <=> later_than(x) >= offset /\ later_than(x) < offset + L
        /\ x \in From(offset) <=> later_than(x) >= offset
        /\ x \in From(offset + L) <=> later_than(x) >= offset + L
  <2>1. ASSUME NEW x \in DOMAIN scan_task_table
        PROVE  later_than(x) \in offset .. offset + L - 1
                 <=> later_than(x) >= offset /\ later_than(x) < offset + L
    BY <1>0, <1>1
  <2> QED
    BY <2>1 DEF get_all, From
<1>3. page \subseteq DOMAIN scan_task_table /\ \A o : From(o) \subseteq DOMAIN scan_task_table
  BY DEF get_all, From
<1>4. Cardinality(page) < L => From(offset + L) = {}
  <2> SUFFICES ASSUME Cardinality(page) < L, NEW x \in From(offset + L) PROVE FALSE
    OBVIOUS
  <2>1. x \in DOMAIN scan_task_table /\ later_than(x) >= offset + L
    BY <1>2, <1>3
  <2>2. IsFiniteSet(page) /\ L <= Cardinality(page)
    BY <1>0, <2>1, LastPage
  <2>3. Cardinality(page) \in Nat
    BY <2>2, FS_CardinalityType
  <2> QED
    BY <1>0, <2>2, <2>3
<1>5. From(offset) = page \cup From(offset + L)
  <2>1. \A x \in DOMAIN scan_task_table : x \in From(offset) <=> x \in page \/ x \in From(offset + L)
    <3>1. ASSUME NEW x \in DOMAIN scan_task_table
          PROVE later_than(x) >= offset <=> \/ later_than(x) >= offset /\ later_than(x) < offset + L
                                            \/ later_than(x) >= offset + L
      BY <1>0, <1>1
    <3> QED
      BY <1>2, <3>1
  <2> QED
    BY <1>3, <2>1
<1> QED
  BY <1>4, <1>5 DEF L

LEMMA LoadsAll ==
  ASSUME DOMAIN scan_task_table \subseteq ScanIds
  PROVE  load_exported = DOMAIN scan_task_table
<1> DEFINE L == LOAD_LIMIT
           IsPages(f) ==
             f = [offset \in Nat |->
                    get_all(L, offset) \cup IF Cardinality(get_all(L, offset)) < L THEN {}
                                            ELSE f[offset + L]]
<1>0. L \in Nat \ {0} /\ \A o \in Nat : o + L \in Nat
  <2>1. L \in Nat \ {0}
    BY ExportAssumption
  <2> HIDE DEF L
  <2> QED
    BY <2>1
<1>1. \E f : IsPages(f)
  <2> DEFINE f == [offset \in Nat |-> From(offset)]
  <2>1. \A o \in Nat : f[o] = get_all(L, o) \cup IF Cardinality(get_all(L, o)) < L THEN {}
                                                 ELSE f[o + L]
    <3>1. ASSUME NEW o \in Nat
          PROVE  f[o] = get_all(L, o) \cup IF Cardinality(get_all(L, o)) < L THEN {}
                                                 ELSE f[o + L]
      <4>1. f[o] = From(o) /\ f[o + L] = From(o + L)
        BY <1>0
      <4> HIDE DEF f
      <4> QED
        BY <4>1, PageByPage
    <3> QED
      BY <3>1
  <2>2. f = [o \in Nat |-> f[o]]
    OBVIOUS
  <2> HIDE DEF f, L
  <2>3. f = [o \in Nat |-> get_all(L, o) \cup IF Cardinality(get_all(L, o)) < L THEN {}
                                              ELSE f[o + L]]
    BY <2>1, <2>2
  <2> QED
    BY <2>3
<1>2. IsPages(pages)
  <2>1. pages = CHOOSE f : IsPages(f)
    BY Zenon DEF pages
  <2> HIDE DEF IsPages
  <2> QED
    BY <1>1, <2>1
<1>3. \A o \in Nat : pages[o] = get_all(L, o) \cup IF Cardinality(get_all(L, o)) < L THEN {}
                                                   ELSE pages[o + L]
  <2> HIDE DEF L
  <2> QED
    BY <1>2
<1> HIDE DEF IsPages, L
<1> DEFINE N == MaxScanId + 1
           Good == {k \in 0 .. N : \A o \in Nat : o >= N - k => pages[o] = From(o)}
<1>4. N \in Nat
  BY BoundsAssumption
<1>5. 0 \in Good
  <2>1. ASSUME NEW o \in Nat, o >= N PROVE pages[o] = From(o)
    <3>1. get_all(L, o) = {} /\ From(o) = {}
      <4>1. \A x \in DOMAIN scan_task_table : later_than(x) \in 0 .. MaxScanId
        BY TaskIds
      <4>2. \A x \in DOMAIN scan_task_table : ~(later_than(x) >= o) /\ later_than(x) \notin o .. o + L - 1
        <5>1. ASSUME NEW x \in DOMAIN scan_task_table
              PROVE  ~(later_than(x) >= o) /\ later_than(x) \notin o .. o + L - 1
          <6>1. later_than(x) \in 0 .. MaxScanId
            BY <4>1
          <6> QED
            BY <1>0, <2>1, <6>1, BoundsAssumption
        <5> QED
          BY <5>1
      <4> QED
        BY <4>2 DEF get_all, From
    <3>2. Cardinality({}) = 0 /\ 0 < L
      BY <1>0, FS_EmptySet
    <3> QED
      BY <1>3, <3>1, <3>2
  <2>2. N - 0 = N /\ 0 \in 0 .. N
    BY <1>4
  <2> HIDE DEF N
  <2> QED
    BY <2>1, <2>2
<1>6. ASSUME NEW k \in 0 .. N - 1, k \in Good PROVE k + 1 \in Good
  <2> HIDE DEF N
  <2>1. ASSUME NEW o \in Nat, o >= N - (k + 1) PROVE pages[o] = From(o)
    <3>1. o + L \in Nat /\ o + L >= N - k
      BY <1>0, <1>4, <2>1
    <3>2. pages[o + L] = From(o + L)
      BY <1>6, <3>1
    <3>3. From(o) = get_all(L, o) \cup IF Cardinality(get_all(L, o)) < L THEN {} ELSE From(o + L)
      BY PageByPage DEF L
    <3> QED
      BY <1>3, <3>2, <3>3
  <2>2. k + 1 \in 0 .. N
    BY <1>4
  <2> QED
    BY <2>1, <2>2
<1> HIDE DEF Good, N
<1>7. \A k \in 0 .. N : k \in Good
  BY <1>4, <1>5, <1>6, StepByStep
<1>8. N \in 0 .. N /\ 0 \in Nat /\ 0 >= N - N
  BY <1>4
<1>9. pages[0] = From(0)
  BY <1>7, <1>8 DEF Good
<1>10. From(0) = DOMAIN scan_task_table
  <2>1. \A x \in DOMAIN scan_task_table : later_than(x) \in 0 .. MaxScanId
    BY TaskIds
  <2>2. \A x \in DOMAIN scan_task_table : later_than(x) >= 0
    BY <2>1, BoundsAssumption
  <2> QED
    BY <2>2 DEF From
<1> QED
  BY <1>9, <1>10 DEF load_exported

-----------------------------------------------------------------------------
(* What is shown of the scans *)

KeysOf(id, table) == {k \in DOMAIN table : k[1] = id}
Whole(id) == KeysOf(id, scan_diff_table) = KeysOf(id, index_history)

\* The tables agree on every scan that is exported, or about to be, unless a
\* statement of it failed.
Shown ==
  /\ \A id \in exported_map :
       /\ id \notin DOMAIN root_of
       /\ id \in DOMAIN scan_task_table \/ (id \in ScanIds \cap unwritten /\ phase[id] # "new")
  /\ \A id \in DOMAIN scan_task_table \ exported_map :
       id \in failed \/ (Handling(id) /\ writer \in Recording)
  /\ writer \in Recording => sentinel.id \in DOMAIN scan_task_table \cup unwritten
  /\ DOMAIN scan_diff_table \subseteq DOMAIN index_history
  /\ writer \in {"count", "publish"} => Whole(sentinel.id) \/ sentinel.id \in unwritten
  /\ writer = "publish" =>
       scan_task_table[sentinel.id].count # NULL \/ sentinel.id \in unwritten
  /\ \A id \in exported_map \ (half \cup unwritten) :
       Whole(id) /\ scan_task_table[id].count # NULL

SameRows(id, table, new) ==
  KeysOf(id, new) = KeysOf(id, table) /\ \A k \in KeysOf(id, table) : new[k] = table[k]

LEMMA InsertOther ==
  ASSUME NEW id, NEW rows, NEW table, \A k \in DOMAIN rows : k[1] # id
  PROVE  SameRows(id, table, Insert(rows, table))
BY DEF SameRows, KeysOf, Insert

\* No step writes a row of a scan that has no root to be exported.
LEMMA OtherScans ==
  ASSUME ExportInv, Ordered, Next, NEW id, id \notin DOMAIN root_of
  PROVE  /\ SameRows(id, index_history, index_history')
         /\ SameRows(id, scan_diff_table, scan_diff_table')
         /\ id \in DOMAIN scan_task_table' <=> id \in DOMAIN scan_task_table
         /\ id \in DOMAIN scan_task_table => scan_task_table'[id] = scan_task_table[id]
<1>0. \A table : SameRows(id, table, table)
  BY DEF SameRows
<1>1. CASE UNCHANGED tables
  BY <1>0, <1>1 DEF tables
<1>2. ASSUME NEW events \in Seq(Events), BatchWritten(events), ToSet(events) \subseteq Items
      PROVE  SameRows(id, index_history, index_history')
             /\ UNCHANGED <<scan_task_table, scan_diff_table>>
  <2>1. \A e \in ToSet(events) : e.id # id
    BY <1>2 DEF Items, Ordered
  <2>2. /\ \A k \in DOMAIN index_history :
             k \in DOMAIN index_history' /\ index_history'[k] = index_history[k]
        /\ \A k \in DOMAIN index_history' \ DOMAIN index_history :
             \E e \in ToSet(events) : k = <<e.id, e.path>>
        /\ UNCHANGED <<scan_task_table, scan_diff_table>>
    BY <1>2 DEF BatchWritten
  <2>3. \A k \in DOMAIN index_history' \ DOMAIN index_history : k[1] # id
    BY <2>1, <2>2
  <2> QED
    BY <2>2, <2>3 DEF SameRows, KeysOf
<1>3. CASE finalized /\ Finalizes(sentinel.id)
  <2>0. PICK i \in ScanIds :
           /\ i # id
           /\ \/ UNCHANGED tables
              \/ insert_scan(i, row[1].root, row[1].end)
              \/ mark_deleted_partly(i, row[1].root, sentinel.canceled)
              \/ \E keys \in SUBSET history_of(i) : write_diff(i, keys)
              \/ \E n : set_count(i, n)
    BY <1>3, FinalizesAre DEF Finalizes, find_scan_diff_partly
  <2>1. CASE insert_scan(i, row[1].root, row[1].end)
    BY <1>0, <2>0, <2>1 DEF insert_scan, Insert
  <2>2. CASE mark_deleted_partly(i, row[1].root, sentinel.canceled)
    <3> DEFINE keys == {i} \X unvisited(i, row[1].root)
               rows == [k \in keys |-> [fp |-> index_current[k[2]].fp,
                                        state |-> IF sentinel.canceled THEN "Canceled" ELSE "Deleted"]]
    <3>1. /\ UNCHANGED <<scan_task_table, scan_diff_table>>
          /\ index_history' = index_history \/ index_history' = Insert(rows, index_history)
      BY <2>2 DEF mark_deleted_partly, insert_marks
    <3>2. \A k \in DOMAIN rows : k[1] # id
      BY <2>0
    <3> HIDE DEF rows
    <3> QED
      BY <1>0, <3>1, <3>2, InsertOther
  <2>3. ASSUME NEW keys \in SUBSET history_of(i), write_diff(i, keys)
        PROVE  /\ UNCHANGED <<scan_task_table, index_history>>
               /\ SameRows(id, scan_diff_table, scan_diff_table')
    <3> DEFINE rows == [k \in keys |-> diff_row(i, k[2])]
    <3>1. /\ UNCHANGED <<scan_task_table, index_history>>
          /\ scan_diff_table' = Insert(rows, scan_diff_table)
      BY <2>3 DEF write_diff
    <3>2. \A k \in DOMAIN rows : k[1] # id
      BY <2>0 DEF history_of
    <3> HIDE DEF rows
    <3> QED
      BY <3>1, <3>2, InsertOther
  <2>4. ASSUME NEW n, set_count(i, n)
        PROVE  /\ UNCHANGED <<index_history, scan_diff_table>>
               /\ id \in DOMAIN scan_task_table' <=> id \in DOMAIN scan_task_table
               /\ id \in DOMAIN scan_task_table => scan_task_table'[id] = scan_task_table[id]
    BY <2>0, <2>4 DEF set_count
  <2> QED
    BY <1>0, <1>1, <2>0, <2>1, <2>2, <2>3, <2>4
<1> QED
  BY <1>0, <1>1, <1>2, <1>3, TableSteps

LEMMA WholeStays ==
  ASSUME NEW id, Whole(id), SameRows(id, index_history, index_history'),
         SameRows(id, scan_diff_table, scan_diff_table')
  PROVE  Whole(id)'
BY DEF Whole, SameRows

\* Every step keeps what is exported as it is.
LEMMA ExportedStays ==
  ASSUME ExportInv, Ordered, Shown, Next, NEW id \in exported_map
  PROVE  /\ id \in DOMAIN scan_task_table' <=> id \in DOMAIN scan_task_table
         /\ id \in DOMAIN scan_task_table => scan_task_table'[id] = scan_task_table[id]
         /\ SameRows(id, index_history, index_history')
         /\ SameRows(id, scan_diff_table, scan_diff_table')
         /\ Whole(id) => Whole(id)'
<1>1. id \notin DOMAIN root_of
  BY DEF Shown
<1>2. /\ SameRows(id, index_history, index_history')
      /\ SameRows(id, scan_diff_table, scan_diff_table')
      /\ id \in DOMAIN scan_task_table' <=> id \in DOMAIN scan_task_table
      /\ id \in DOMAIN scan_task_table => scan_task_table'[id] = scan_task_table[id]
  BY <1>1, OtherScans
<1> QED
  BY <1>2, WholeStays

\* The rows of the diff have their lines in the history, after every step.
LEMMA LinesHaveEntries ==
  ASSUME ExportInv, Next, DOMAIN scan_diff_table \subseteq DOMAIN index_history
  PROVE  DOMAIN scan_diff_table' \subseteq DOMAIN index_history'
<1>1. CASE UNCHANGED tables
  BY <1>1 DEF tables
<1>2. ASSUME NEW events, BatchWritten(events)
      PROVE  DOMAIN scan_diff_table' \subseteq DOMAIN index_history'
  BY <1>2 DEF BatchWritten
<1>3. ASSUME NEW id, Finalizes(id)
      PROVE  DOMAIN scan_diff_table' \subseteq DOMAIN index_history'
  <2>1. CASE insert_scan(id, row[1].root, row[1].end) \/ \E n : set_count(id, n)
    BY <2>1 DEF insert_scan, set_count
  <2>2. CASE mark_deleted_partly(id, row[1].root, sentinel.canceled)
    <3>1. UNCHANGED scan_diff_table /\ DOMAIN index_history \subseteq DOMAIN index_history'
      BY <2>2 DEF mark_deleted_partly, insert_marks, Insert
    <3> QED
      BY <3>1
  <2>3. ASSUME NEW keys \in SUBSET history_of(id), write_diff(id, keys)
        PROVE  DOMAIN scan_diff_table' \subseteq DOMAIN index_history'
    <3>1. UNCHANGED index_history /\ keys \subseteq DOMAIN index_history
      BY <2>3 DEF write_diff, history_of
    <3>2. DOMAIN scan_diff_table' = DOMAIN scan_diff_table \cup keys
      BY <2>3 DEF write_diff, Insert
    <3> QED
      BY <3>1, <3>2
  <2> QED
    BY <1>1, <1>3, <2>1, <2>2, <2>3 DEF Finalizes, find_scan_diff_partly
<1> QED
  BY <1>1, <1>2, <1>3, TableSteps

LEMMA NextShown ==
  ExportInv /\ RowTypes /\ Ordered /\ Shown /\ Next => Shown'
<1> SUFFICES ASSUME ExportInv, RowTypes, Ordered, Shown, Next PROVE Shown'
  OBVIOUS
<1>0. Types /\ Thread /\ Progress /\ Rows
  BY DEF ExportInv
<1>1. DOMAIN scan_diff_table' \subseteq DOMAIN index_history'
  BY LinesHaveEntries DEF Shown
<1>2. \A id \in exported_map :
        /\ id \in DOMAIN scan_task_table' <=> id \in DOMAIN scan_task_table
        /\ id \in DOMAIN scan_task_table => scan_task_table'[id] = scan_task_table[id]
        /\ Whole(id) => Whole(id)'
  BY ExportedStays
<1>c. Control /\ unwritten \subseteq unwritten'
  BY <1>0, Controls, UnwrittenStays
<1>p. \A i \in exported_map \ (half \cup unwritten) :
        /\ i \in DOMAIN scan_task_table' /\ Whole(i)' /\ scan_task_table'[i].count # NULL
  BY <1>2 DEF Shown
<1>q. ASSUME UNCHANGED <<phase, root_of, exported_map>>
      PROVE  \A id \in exported_map' :
               /\ id \notin DOMAIN root_of'
               /\ \/ id \in DOMAIN scan_task_table'
                  \/ id \in ScanIds \cap unwritten' /\ phase'[id] # "new"
  BY <1>2, <1>c, <1>q DEF Shown
<1>3. ASSUME UNCHANGED <<tables, exported_map, writer, handled, half>>,
             \A i \in ScanIds : phase[i] # "new" => phase'[i] # "new",
             DOMAIN root_of' \cap exported_map = {}, failed \subseteq failed'
      PROVE  Shown'
  <2>1. /\ UNCHANGED <<scan_task_table, index_history, scan_diff_table>>
        /\ UNCHANGED sentinel /\ \A i : Handling(i)' <=> Handling(i)
    BY <1>3 DEF tables, sentinel, Handling
  <2> QED
    BY <1>3, <1>c, <2>1 DEF Shown, Whole
<1>4. ASSUME NEW id \in ScanIds,
             cancel_scan(id) \/ flag_sentinel(id) \/ push_sentinel(id) \/ hand_over_row(id)
      PROVE  Shown'
  <2>0. \A i \in ScanIds : phase[i] # "new" => phase'[i] # "new"
    BY <1>0, <1>4 DEF cancel_scan, flag_sentinel, push_sentinel, hand_over_row, set_phase, scan_vars,
       registry_vars, Types
  <2>1. UNCHANGED <<tables, exported_map, writer, handled, half, root_of, failed>>
    BY <1>4 DEF cancel_scan, flag_sentinel, push_sentinel, hand_over_row, push_result_queue,
       insert_scan_task, export_vars, writer_vars, scan_vars, registry_vars, start_vars, history_vars
  <2> HIDE DEF tables
  <2> QED
    BY <1>3, <2>0, <2>1 DEF Shown
<1>5. ASSUME NEW id \in ScanIds, NEW p \in Paths, start_scan(id, p) \/ stop_pool_before(id, p)
      PROVE  Shown'
  <2>1. /\ UNCHANGED <<tables, exported_map, writer, handled, half, failed>>
        /\ DOMAIN root_of' = DOMAIN root_of \cup {id}
        /\ phase[id] = "new" /\ id >= next_scan_id
    BY <1>5 DEF start_scan, stop_pool_before, begin, export_vars, writer_vars, Put
  <2>0. \A i \in ScanIds : phase[i] # "new" => phase'[i] # "new"
    BY <1>0, <1>5 DEF start_scan, stop_pool_before, begin, set_phase, Types
  <2>2. id \notin exported_map
    BY <1>0, <2>1 DEF Rows, Shown
  <2> HIDE DEF tables
  <2> QED
    BY <1>3, <2>0, <2>1, <2>2 DEF Shown
<1>6. ASSUME NEW id \in ScanIds, NEW p \in Paths, visit_node(id, p) \/ finish_node(id, p)
      PROVE  Shown'
  <2>1. UNCHANGED <<tables, exported_map, writer, handled, half, root_of, failed, phase>>
    BY <1>6 DEF visit_node, finish_node, push_result_queue, export_vars, writer_vars, scan_vars,
       registry_vars, start_vars, history_vars
  <2> HIDE DEF tables
  <2> QED
    BY <1>3, <2>1 DEF Shown
<1>7. CASE (\E p \in Paths : tree_changes(p)) \/ stop_pool \/ stop_exporting
  <2>1. UNCHANGED <<tables, exported_map, writer, handled, half, root_of, failed, phase>>
    BY <1>7 DEF tree_changes, stop_pool, stop_exporting, shutdown, export_vars, writer_vars, scan_vars,
       registry_vars, start_vars, history_vars
  <2> HIDE DEF tables
  <2> QED
    BY <1>3, <2>1 DEF Shown
<1>8. CASE Writing
  <2>0. UNCHANGED <<phase, root_of, half>>
    BY <1>8 DEF Writing, registry_vars, start_vars
  <2>1. CASE took_event \/ took_sentinel \/ finished
    <3>1. /\ writer = "pop" /\ writer' \in {"pop", "row", "exited"}
          /\ UNCHANGED <<exported_map, failed>>
      BY <2>1 DEF took_event, take_event, took_sentinel, take_sentinel, finished, finish_writing
    <3>2. UNCHANGED scan_task_table
      BY <3>1, TableSteps DEF BatchWritten, finalized, finalize_step, tables
    <3>3. \A id \in DOMAIN scan_task_table \ exported_map : id \in failed
      BY <3>1 DEF Shown, Recording
    <3> QED
      BY <1>1, <1>p, <1>q, <1>c, <2>0, <3>1, <3>2, <3>3 DEF Shown, Recording
  <2>2. CASE get_scan_task \/ get_scan_task_throws
    <3>1. /\ UNCHANGED <<scan_task_table, exported_map, failed>>
          /\ writer = "row" /\ writer' \in {"insert", "dead"}
      BY <2>2 DEF get_scan_task, get_scan_task_throws, tables
    <3>2. \A id \in DOMAIN scan_task_table \ exported_map : id \in failed
      BY <3>1 DEF Shown, Recording
    <3> QED
      BY <1>1, <1>p, <1>q, <1>c, <2>0, <3>1, <3>2 DEF Shown, Recording
  <2>3. CASE finalized
    <3>0. PICK id \in ScanIds :
             /\ id = sentinel.id /\ sentinel' = sentinel /\ id \in DOMAIN root_of
             /\ handled # <<>> /\ UNCHANGED <<handled, exported_map, failed>>
      BY <2>3, FinalizesAre
    <3>f. Finalizes(id)
      BY <2>3, <3>0, TableSteps DEF finalized, finalize_step, Recording
    <3>2. Handling(id)' /\ (Handling(id) <=> TRUE)
      BY <3>0 DEF Handling
    <3>3. ASSUME writer' \in Recording, id \in DOMAIN scan_task_table' \cup unwritten',
                 DOMAIN scan_task_table' \subseteq DOMAIN scan_task_table \cup {id},
                 writer' \in {"count", "publish"} => Whole(id)' \/ id \in unwritten',
                 writer' = "publish" => scan_task_table'[id].count # NULL \/ id \in unwritten'
          PROVE  Shown'
      <4>1. \A i \in DOMAIN scan_task_table' \ exported_map' :
              i \in failed' \/ (Handling(i)' /\ writer' \in Recording)
        BY <3>0, <3>2, <3>3 DEF Shown, Handling
      <4>2. \A i \in exported_map' \ (half' \cup unwritten') :
              Whole(i)' /\ scan_task_table'[i].count # NULL
        BY <1>p, <1>c, <2>0, <3>0
      <4>3. Whole(id)' <=> Whole(sentinel.id)'
        BY <3>0 DEF Whole
      <4> QED
        BY <1>1, <1>q, <2>0, <3>0, <3>3, <4>1, <4>2, <4>3 DEF Shown
    <3>4. CASE /\ writer = "insert" /\ writer' = "mark"
               /\ \/ insert_scan(id, row[1].root, row[1].end)
                  \/ id \in unwritten' /\ UNCHANGED tables
      <4>1. DOMAIN scan_task_table' \subseteq DOMAIN scan_task_table \cup {id}
        BY <3>4 DEF insert_scan, Insert, tables
      <4>2. id \in DOMAIN scan_task_table' \cup unwritten'
        BY <3>4 DEF insert_scan, Insert
      <4> QED
        BY <3>3, <3>4, <4>1, <4>2 DEF Recording
    <3>5. CASE writer = "mark" /\ writer' = "diff"
               /\ mark_deleted_partly(id, row[1].root, sentinel.canceled)
      <4>1. UNCHANGED scan_task_table /\ id \in DOMAIN scan_task_table' \cup unwritten'
        BY <1>c, <3>0, <3>5 DEF mark_deleted_partly, Shown, Recording
      <4> QED
        BY <3>3, <3>5, <4>1 DEF Recording
    <3>6. CASE /\ writer = "diff" /\ writer' = "count" /\ find_scan_diff_partly(id)
               /\ id \in unwritten' \/ find_scan_diff(id)
      <4>1. /\ UNCHANGED <<scan_task_table, index_history>>
            /\ id \in DOMAIN scan_task_table' \cup unwritten'
        BY <1>c, <3>0, <3>6 DEF find_scan_diff_partly, write_diff, Shown, Recording
      <4>2. ASSUME find_scan_diff(id) PROVE Whole(id)'
        <5>1. DOMAIN scan_diff_table' = DOMAIN scan_diff_table
                                          \cup {k \in DOMAIN index_history : k[1] = id}
          BY <4>2 DEF find_scan_diff, write_diff, history_of, Insert
        <5> QED
          BY <4>1, <5>1 DEF Whole, KeysOf, Shown
      <4> QED
        BY <3>3, <3>6, <4>1, <4>2 DEF Recording
    <3>7. CASE /\ writer = "count" /\ writer' = "publish"
               /\ UNCHANGED tables \/ \E n \in {0, Cardinality(Found(id))} : set_count(id, n)
               /\ id \in unwritten' \/ upsert_count(id)
      <4>1. /\ UNCHANGED <<index_history, scan_diff_table>>
            /\ DOMAIN scan_task_table' = DOMAIN scan_task_table
            /\ id \in DOMAIN scan_task_table' \cup unwritten'
        BY <1>c, <3>0, <3>7 DEF set_count, tables, Shown, Recording
      <4>2. Whole(id)' \/ id \in unwritten'
        <5>1. Whole(id)' <=> Whole(id)
          BY <4>1 DEF Whole
        <5> QED
          BY <1>c, <3>0, <3>7, <5>1 DEF Shown
      <4>3. ASSUME upsert_count(id), id \notin unwritten' PROVE scan_task_table'[id].count # NULL
        <5>1. Found(id) \subseteq Paths /\ IsFiniteSet(Paths)
          BY PathsAssumption DEF RowTypes, TablesTypeOK, Found
        <5>2. set_count(id, Cardinality(Found(id)))
          BY <4>3 DEF upsert_count, Found
        <5>3. Cardinality(Found(id)) \in Nat
          BY <5>1, FS_Subset, FS_CardinalityType
        <5>4. id \in DOMAIN scan_task_table
          BY <4>1, <4>3
        <5>5. scan_task_table'[id].count = Cardinality(Found(id))
          BY <1>0, <5>2, <5>4 DEF Types, set_count
        <5> QED
          BY <5>3, <5>5 DEF NULL
      <4> QED
        BY <3>3, <3>7, <4>1, <4>2, <4>3 DEF Recording
    <3> QED
      BY <3>0, <3>f, <3>4, <3>5, <3>6, <3>7 DEF Finalizes
  <2> QED
    BY <1>8, <2>1, <2>2, <2>3 DEF Writing
<1>9. CASE database_fails
  <2>0. UNCHANGED <<phase, root_of, half>>
    BY <1>9 DEF database_fails, scan_vars, registry_vars, start_vars, history_vars
  <2>1. CASE write_throws
    <3>1. /\ UNCHANGED <<scan_task_table, exported_map, failed>>
          /\ writer = "pop" /\ writer' = "dead"
      BY <2>1 DEF write_throws, tables
    <3>2. \A id \in DOMAIN scan_task_table \ exported_map : id \in failed
      BY <3>1 DEF Shown, Recording
    <3> QED
      BY <1>1, <1>c, <1>p, <1>q, <2>0, <3>1, <3>2 DEF Shown, Recording
  <2>2. ASSUME NEW commit_fails \in BOOLEAN, finalize_fails(commit_fails) PROVE Shown'
    <3>1. /\ UNCHANGED <<scan_task_table, exported_map>> /\ failed' = failed \cup {sentinel.id}
          /\ writer' = "pop"
      BY <2>2 DEF finalize_fails, tables
    <3>2. \A id \in DOMAIN scan_task_table \ exported_map : id \in failed'
      BY <3>1 DEF Shown, Handling
    <3> QED
      BY <1>1, <1>c, <1>p, <1>q, <2>0, <3>1, <3>2 DEF Shown, Recording
  <2> QED
    BY <1>9, <2>1, <2>2 DEF database_fails
<1>10. CASE export_done
  <2>0. PICK id \in ScanIds : id = sentinel.id /\ handled # <<>> /\ writer = "publish"
    BY <1>0, <1>10, HandledId DEF export_done, finalize_publishes, Thread, Finalizing
  <2>1. /\ UNCHANGED <<tables, phase, failed, half>> /\ exported_map' = exported_map \cup {id}
        /\ DOMAIN root_of' = DOMAIN root_of \ {id} /\ writer' = "pop"
    BY <1>10, <2>0 DEF export_done, finalize_publishes, Restrict
  <2>2. /\ id \in DOMAIN scan_task_table \cup unwritten
        /\ id \in unwritten \/ (Whole(id) /\ scan_task_table[id].count # NULL)
        /\ \A i \in DOMAIN scan_task_table \ exported_map : i \in failed \/ i = id
    BY <2>0 DEF Shown, Handling, Recording
  <2>3. UNCHANGED <<scan_task_table, index_history, scan_diff_table>>
    BY <2>1 DEF tables
  <2>4. \A i : Whole(i)' <=> Whole(i)
    BY <2>3 DEF Whole
  <2>5. \A i \in exported_map' \ (half' \cup unwritten') :
          Whole(i) /\ scan_task_table[i].count # NULL
    BY <1>c, <2>1, <2>2 DEF Shown
  <2>6. phase[id] # "new"
    BY <1>0, <2>0 DEF Progress, Finalizing
  <2>7. \A i \in exported_map' :
          /\ i \notin DOMAIN root_of'
          /\ \/ i \in DOMAIN scan_task_table'
             \/ i \in ScanIds \cap unwritten' /\ phase'[i] # "new"
    BY <1>c, <2>1, <2>2, <2>3, <2>6 DEF Shown
  <2> QED
    BY <1>1, <2>1, <2>2, <2>3, <2>4, <2>5, <2>7 DEF Shown, Recording
<1>11. CASE restart
  <2>1. /\ UNCHANGED tables /\ writer' = "pop" /\ DOMAIN root_of' = {}
        /\ exported_map' = load_exported
        /\ half' = half \cup failed
                      \cup IF writer \in {"mark", "diff", "count"} THEN {sentinel.id} ELSE {}
    BY <1>11 DEF restart, ExportStarts, EmptyTable
  <2>2. exported_map' = DOMAIN scan_task_table
    BY <1>0, <2>1, LoadsAll DEF Types
  <2>3. UNCHANGED <<scan_task_table, index_history, scan_diff_table>>
    BY <2>1 DEF tables
  <2>4. \A i : Whole(i)' <=> Whole(i)
    BY <2>3 DEF Whole
  <2>5. ASSUME NEW i \in exported_map' \ (half' \cup unwritten')
        PROVE  Whole(i) /\ scan_task_table[i].count # NULL
    <3>0. i \notin unwritten
      BY <1>c, <2>5
    <3>1. CASE i \in exported_map
      BY <2>1, <2>5, <3>0, <3>1 DEF Shown
    <3>2. CASE i \notin exported_map
      <4>1. i = sentinel.id /\ writer \in Recording
        BY <2>1, <2>2, <2>5, <3>2 DEF Shown, Handling
      <4>2. writer = "publish"
        BY <2>1, <2>5, <4>1 DEF Recording
      <4> QED
        BY <3>0, <4>1, <4>2 DEF Shown
    <3> QED
      BY <3>1, <3>2
  <2> QED
    BY <1>1, <2>1, <2>2, <2>3, <2>4, <2>5 DEF Shown, Recording
<1> QED
  BY <1>c, <1>4, <1>5, <1>6, <1>7, <1>8, <1>9, <1>10, <1>11 DEF Control

-----------------------------------------------------------------------------
TableInv == ExportInv /\ Ordered /\ RowTypes /\ Shown

LEMMA TableInvariance == SafeSpec => []TableInv
<1>1. Init => TableInv
  <2> SUFFICES ASSUME Init PROVE TableInv
    OBVIOUS
  <2>1. RowTypes
    BY DEF Init, TablesInit, ExportInit, EmptyTable, RowTypes, TablesTypeOK
  <2>2. Shown
    BY DEF Init, TablesInit, ExportInit, EmptyTable, Shown, Recording
  <2> QED
    BY <2>1, <2>2, Starts, StartsOrdered DEF TableInv
<1>2. TableInv /\ [Next]_vars => TableInv'
  <2> SUFFICES ASSUME TableInv, [Next]_vars PROVE TableInv'
    OBVIOUS
  <2> USE DEF TableInv
  <2>1. CASE Next
    <3>1. ExportInv'
      BY <2>1, NextTypes, NextThread, NextProgress, NextTracked, NextFlags, NextRows DEF ExportInv
    <3> QED
      BY <2>1, <3>1, NextOrdered, NextRowTypes, NextShown
  <2>2. CASE UNCHANGED vars
    <3>1. UNCHANGED <<tables, row, writer, handled, exported_map, failed, half, unwritten, root_of,
                      phase>>
      BY <2>2 DEF vars, export_vars, writer_vars, scan_vars, registry_vars, start_vars, history_vars
    <3>2. RowTypes'
      BY <3>1 DEF RowTypes, TablesTypeOK, tables
    <3>3. Shown'
      BY <3>1 DEF Shown, Whole, Handling, sentinel, tables
    <3> QED
      BY <2>2, <3>2, <3>3, Stutters, OrderedStutters
  <2> QED
    BY <2>1, <2>2
<1> QED
  BY <1>1, <1>2, PTL DEF SafeSpec

LEMMA ExportedGrows ==
  ASSUME TableInv, Next
  PROVE  exported_map \cap DOMAIN scan_task_table \subseteq exported_map'
<1>c. Control
  BY Controls DEF TableInv, ExportInv
<1>1. ASSUME NEW id \in ScanIds,
             cancel_scan(id) \/ flag_sentinel(id) \/ push_sentinel(id) \/ hand_over_row(id)
      PROVE  UNCHANGED exported_map
  BY <1>1 DEF cancel_scan, flag_sentinel, push_sentinel, hand_over_row, push_result_queue,
     insert_scan_task, export_vars
<1>2. ASSUME NEW id \in ScanIds, NEW p \in Paths,
             \/ start_scan(id, p) \/ stop_pool_before(id, p)
             \/ visit_node(id, p) \/ finish_node(id, p)
      PROVE  UNCHANGED exported_map
  BY <1>2 DEF start_scan, stop_pool_before, begin, visit_node, finish_node, push_result_queue,
     export_vars
<1>3. CASE (\E p \in Paths : tree_changes(p)) \/ stop_pool \/ stop_exporting
  BY <1>3 DEF tree_changes, stop_pool, stop_exporting, shutdown, export_vars
<1>4. CASE Writing \/ database_fails \/ export_done
  BY <1>4 DEF Writing, took_event, take_event, took_sentinel, take_sentinel, finished,
     finish_writing, get_scan_task, get_scan_task_throws, finalized, finalize_step, database_fails,
     write_throws, finalize_fails, export_done, finalize_publishes
<1>5. CASE restart
  BY <1>5, LoadsAll DEF restart, ExportStarts, TableInv, ExportInv, Types
<1> QED
  BY <1>c, <1>1, <1>2, <1>3, <1>4, <1>5 DEF Control

LEMMA SameAnswers ==
  ASSUME NEW id, id \in exported_map, id \in exported_map',
         id \in DOMAIN scan_task_table, id \in DOMAIN scan_task_table',
         scan_task_table'[id] = scan_task_table[id],
         SameRows(id, index_history, index_history'),
         SameRows(id, scan_diff_table, scan_diff_table')
  PROVE  /\ response_scan_diff_summary(id)' = response_scan_diff_summary(id)
         /\ response_scan_diff_detail(id, ScanState)' = response_scan_diff_detail(id, ScanState)
<1>1. \A k : k \in DOMAIN scan_diff_table' /\ k[1] = id <=> k \in DOMAIN scan_diff_table /\ k[1] = id
  BY DEF SameRows, KeysOf
<1>2. \A k : k \in DOMAIN index_history' /\ k[1] = id <=> k \in DOMAIN index_history /\ k[1] = id
  BY DEF SameRows, KeysOf
<1>3. /\ \A k \in DOMAIN scan_diff_table : k[1] = id => scan_diff_table'[k] = scan_diff_table[k]
      /\ \A k \in DOMAIN index_history : k[1] = id => index_history'[k] = index_history[k]
  BY DEF SameRows, KeysOf
<1>4. get_scan_diff_count(id)' = get_scan_diff_count(id)
  <2>1. ASSUME NEW state \in ScanState
        PROVE  {k \in DOMAIN scan_diff_table' : k[1] = id /\ scan_diff_table'[k].state = state}
                 = {k \in DOMAIN scan_diff_table : k[1] = id /\ scan_diff_table[k].state = state}
    BY <1>1, <1>3
  <2> QED
    BY <2>1 DEF get_scan_diff_count
<1>5. response_scan_diff_summary(id)' = response_scan_diff_summary(id)
  BY <1>4 DEF response_scan_diff_summary, check_exported
<1>6. get_scan_diff_detail(id, ScanState)' = get_scan_diff_detail(id, ScanState)
  <2> DEFINE old == {k \in DOMAIN scan_diff_table \cap DOMAIN index_history :
                       k[1] = id /\ scan_diff_table[k].state \in ScanState}
             new == {k \in DOMAIN scan_diff_table' \cap DOMAIN index_history' :
                       k[1] = id /\ scan_diff_table'[k].state \in ScanState}
  <2>1. old = new
    BY <1>1, <1>2, <1>3
  <2>2. \A k \in old : scan_diff_table'[k] = scan_diff_table[k] /\ index_history'[k] = index_history[k]
    BY <1>3
  <2>3. /\ get_scan_diff_detail(id, ScanState) =
             {[path |-> k[2], fp |-> index_history[k].fp, state |-> scan_diff_table[k].state,
               old |-> scan_diff_table[k].old] : k \in old}
        /\ get_scan_diff_detail(id, ScanState)' =
             {[path |-> k[2], fp |-> index_history'[k].fp, state |-> scan_diff_table'[k].state,
               old |-> scan_diff_table'[k].old] : k \in new}
    BY DEF get_scan_diff_detail
  <2> HIDE DEF old, new
  <2> QED
    BY <2>1, <2>2, <2>3
<1>7. response_scan_diff_detail(id, ScanState)' = response_scan_diff_detail(id, ScanState)
  BY <1>6 DEF response_scan_diff_detail, check_exported
<1> QED
  BY <1>5, <1>7

(* What was shown of an exported scan never changes, through later scans,  *)
(* statements of them that fail, crashes and restarts (scheduler.cpp:346). *)
THEOREM ExportedScansAreFinal == SafeSpec => ExportedIsFinal
<1> DEFINE final == \A id \in exported_map \cap DOMAIN scan_task_table :
                      /\ response_scan_diff_summary(id)' = response_scan_diff_summary(id)
                      /\ response_scan_diff_detail(id, ScanState)'
                           = response_scan_diff_detail(id, ScanState)
<1>1. ASSUME TableInv, Next PROVE final
  <2> SUFFICES ASSUME NEW id \in exported_map \cap DOMAIN scan_task_table
               PROVE  /\ response_scan_diff_summary(id)' = response_scan_diff_summary(id)
                      /\ response_scan_diff_detail(id, ScanState)'
                           = response_scan_diff_detail(id, ScanState)
    OBVIOUS
  <2>1. id \in exported_map' /\ id \in DOMAIN scan_task_table
    BY <1>1, ExportedGrows
  <2>2. /\ id \in DOMAIN scan_task_table' /\ scan_task_table'[id] = scan_task_table[id]
        /\ SameRows(id, index_history, index_history')
        /\ SameRows(id, scan_diff_table, scan_diff_table')
    BY <1>1, ExportedStays DEF TableInv
  <2> QED
    BY <2>1, <2>2, SameAnswers
<1>2. TableInv /\ [Next]_vars => [final]_vars
  BY <1>1
<1> QED
  BY <1>2, TableInvariance, PTL DEF SafeSpec, ExportedIsFinal

\* The lines of a diff and the rows they are made of are as many.
LEMMA LinesAreRows ==
  ASSUME RowTypes, DOMAIN scan_diff_table \subseteq DOMAIN index_history, NEW id, NEW states
  PROVE  Cardinality(get_scan_diff_detail(id, states))
           = Cardinality({k \in DOMAIN scan_diff_table :
                            k[1] = id /\ scan_diff_table[k].state \in states})
<1> DEFINE K == {k \in DOMAIN scan_diff_table : k[1] = id /\ scan_diff_table[k].state \in states}
           line(k) == [path |-> k[2], fp |-> index_history[k].fp, state |-> scan_diff_table[k].state,
                       old |-> scan_diff_table[k].old]
           Lines == get_scan_diff_detail(id, states)
           f == [k \in K |-> line(k)]
<1>1. Lines = {line(k) : k \in K}
  <2>1. K = {k \in DOMAIN scan_diff_table \cap DOMAIN index_history :
               k[1] = id /\ scan_diff_table[k].state \in states}
    OBVIOUS
  <2> HIDE DEF K
  <2> QED
    BY <2>1 DEF get_scan_diff_detail
<1>2. K \subseteq ScanIds \X Paths /\ \A k \in K : k[1] = id
  BY DEF RowTypes, TablesTypeOK
<1>3. IsFiniteSet(K)
  <2>1. IsFiniteSet(ScanIds) /\ IsFiniteSet(Paths)
    BY FS_Interval, BoundsAssumption, PathsAssumption DEF ScanIds
  <2>2. IsFiniteSet(ScanIds \X Paths)
    BY <2>1, FS_Product
  <2> HIDE DEF K
  <2> QED
    BY <1>2, <2>2, FS_Subset
<1>4. \A a, b \in K : line(a) = line(b) => a = b
  <2>1. ASSUME NEW a \in K, NEW b \in K, line(a) = line(b) PROVE a = b
    <3>1. a[2] = b[2]
      BY <2>1
    <3> QED
      BY <1>2, <3>1
  <2> QED
    BY <2>1
<1>5. f \in Bijection(K, Lines)
  <2>1. f = [k \in K |-> f[k]] /\ \A k \in K : f[k] = line(k)
    OBVIOUS
  <2> HIDE DEF K, line, Lines, f
  <2>2. f \in [K -> Lines]
    BY <1>1, <2>1
  <2>3. f \in Injection(K, Lines)
    BY <1>4, <2>1, <2>2 DEF Injection, IsInjective
  <2>4. f \in Surjection(K, Lines)
    BY <1>1, <2>1, <2>2 DEF Surjection
  <2> QED
    BY <2>3, <2>4 DEF Bijection
<1> HIDE DEF K, Lines, f
<1>6. ExistsBijection(K, Lines)
  BY <1>5 DEF ExistsBijection
<1>7. Cardinality(Lines) = Cardinality(K)
  BY <1>3, <1>6, FS_Bijection
<1> QED
  BY <1>7 DEF Lines, K

(* The front end's summary and lines of an exported scan agree: of every   *)
(* scan that publishes what was recorded, through throwing and failing     *)
(* transactions of the others.  A scan is not whole when a statement of    *)
(* its own failed, which finalize_scan() does not notice                   *)
(* (export_manager.cpp:175-192), or when a restart cut its export off.     *)
THEOREM ExportedScansAreWhole == SafeSpec => []ExportedIsExact
<1>1. TableInv => ExportedIsExact
  <2> SUFFICES ASSUME TableInv PROVE ExportedIsExact
    OBVIOUS
  <2>0. /\ RowTypes /\ Shown /\ DOMAIN scan_diff_table \subseteq DOMAIN index_history
        /\ \A k \in DOMAIN scan_diff_table : scan_diff_table[k].state \in ScanState
    BY DEF TableInv, Shown, RowTypes, TablesTypeOK
  <2>1. ASSUME NEW id \in exported_map \ (half \cup unwritten)
        PROVE  /\ response_scan_diff_summary(id) # <<>>
               /\ response_scan_diff_summary(id)[1].count # NULL
               /\ \A state \in ScanState :
                    response_scan_diff_summary(id)[2][state]
                      = Cardinality(response_scan_diff_detail(id, {state}))
               /\ {d.path : d \in response_scan_diff_detail(id, ScanState)}
                    = {k[2] : k \in {k \in DOMAIN index_history : k[1] = id}}
    <3>1. /\ id \in exported_map /\ id \in DOMAIN scan_task_table
          /\ Whole(id) /\ scan_task_table[id].count # NULL
      BY <2>0 DEF Shown
    <3>2. response_scan_diff_summary(id) = <<scan_task_table[id], get_scan_diff_count(id)>>
      BY <3>1 DEF response_scan_diff_summary, check_exported
    <3>3. \A states : response_scan_diff_detail(id, states) = get_scan_diff_detail(id, states)
      BY <3>1 DEF response_scan_diff_detail, check_exported
    <3>4. ASSUME NEW state \in ScanState
          PROVE  get_scan_diff_count(id)[state] = Cardinality(get_scan_diff_detail(id, {state}))
      <4>1. {k \in DOMAIN scan_diff_table : k[1] = id /\ scan_diff_table[k].state \in {state}}
              = {k \in DOMAIN scan_diff_table : k[1] = id /\ scan_diff_table[k].state = state}
        OBVIOUS
      <4>2. Cardinality(get_scan_diff_detail(id, {state}))
              = Cardinality({k \in DOMAIN scan_diff_table :
                               k[1] = id /\ scan_diff_table[k].state \in {state}})
        BY <2>0, LinesAreRows
      <4>3. get_scan_diff_count(id)[state]
              = Cardinality({k \in DOMAIN scan_diff_table :
                               k[1] = id /\ scan_diff_table[k].state = state})
        BY DEF get_scan_diff_count
      <4> QED
        BY <4>1, <4>2, <4>3
    <3>5. {d.path : d \in get_scan_diff_detail(id, ScanState)}
            = {k[2] : k \in {k \in DOMAIN index_history : k[1] = id}}
      <4> DEFINE K == {k \in DOMAIN scan_diff_table \cap DOMAIN index_history :
                         k[1] = id /\ scan_diff_table[k].state \in ScanState}
                 line(k) == [path |-> k[2], fp |-> index_history[k].fp,
                             state |-> scan_diff_table[k].state, old |-> scan_diff_table[k].old]
      <4>1. K = {k \in DOMAIN index_history : k[1] = id}
        BY <2>0, <3>1 DEF Whole, KeysOf
      <4>2. get_scan_diff_detail(id, ScanState) = {line(k) : k \in K}
        BY DEF get_scan_diff_detail
      <4>3. \A k : line(k).path = k[2]
        OBVIOUS
      <4> HIDE DEF K, line
      <4>4. {d.path : d \in {line(k) : k \in K}} = {k[2] : k \in K}
        BY <4>3
      <4> QED
        BY <4>1, <4>2, <4>4
    <3> HIDE DEF NULL
    <3> QED
      BY <3>1, <3>2, <3>3, <3>4, <3>5
  <2>2. \A id \in DOMAIN scan_task_table \ exported_map :
          id \in failed \/ (handled # <<>> /\ sentinel.id = id)
    BY <2>0 DEF Shown, Handling
  <2> QED
    BY <2>1, <2>2 DEF ExportedIsExact
<1> QED
  BY <1>1, TableInvariance, PTL

-----------------------------------------------------------------------------
(* The jobs of the scans *)

\* Jobs are below the root of their scan, an entry has one only when its
\* directory was read, and no two scans meet.
Jobs ==
  /\ \A id \in ScanIds \ DOMAIN root_of : \A p \in Paths : job[id][p] = "none"
  /\ \A id \in DOMAIN root_of : \A p \in Paths :
       /\ job[id][p] # "none" => p \in Scope(root_of[id])
       /\ job[id][p] # "finished" => \A q \in Children[p] \ {root_of[id]} : job[id][q] = "none"
  /\ \A i, j \in DOMAIN root_of : i # j => Scope(root_of[i]) \cap Scope(root_of[j]) = {}

LEMMA Scopes ==
  ASSUME NEW r \in Paths
  PROVE  /\ Scope(r) = {r} \cup Below[r] /\ Scope(r) \subseteq Paths /\ r \notin Below[r]
         /\ \A p \in Scope(r) : \A q \in Children[p] : q \in Scope(r) /\ q # r /\ q \in Paths
<1>1. Scope(r) = {r} \cup Below[r]
  BY PatternMatchesTree DEF Scope
<1>2. Below[r] \subseteq Paths
  BY DEF Below
<1>3. \A q \in Below[r] : q # r
  BY BelowIsLonger, TextsOfPaths
<1>4. ASSUME NEW p \in Scope(r), NEW q \in Children[p] PROVE q \in Below[r]
  <2>1. q \in Below[p] /\ p \in Paths
    BY <1>1, <1>2, EntryIsBelow
  <2>2. p = r \/ p \in Below[r]
    BY <1>1
  <2>3. CASE p = r
    BY <2>1, <2>3
  <2>4. CASE p \in Below[r]
    BY <2>1, <2>4, BelowBelow
  <2> QED
    BY <2>2, <2>3, <2>4
<1> QED
  BY <1>1, <1>2, <1>3, <1>4

\* A step of a walk, job by job.
Kept(id, p, kept) ==
  [q \in Paths |-> IF q \in kept THEN "waiting" ELSE IF q = p THEN "finished" ELSE job[id][q]]

LEMMA WalkSteps ==
  ASSUME Types, NEW id \in ScanIds, NEW p \in Paths, visit_node(id, p) \/ finish_node(id, p)
  PROVE  /\ \A i \in ScanIds : i # id => job'[i] = job[i]
         /\ \/ /\ visit_node(id, p) /\ job[id][p] = "waiting"
               /\ \E s \in {"reading", "finished"} : job'[id] = [job[id] EXCEPT ![p] = s]
            \/ /\ finish_node(id, p) /\ job[id][p] = "waiting" /\ id \in truncated'
               /\ job'[id] = [job[id] EXCEPT ![p] = "none"]
            \/ /\ finish_node(id, p) /\ job[id][p] = "reading"
               /\ \E kept \in SUBSET {q \in Children[p] : tree[q] # 0} :
                    /\ job'[id] = Kept(id, p, kept)
                    /\ \/ kept = {q \in Children[p] : tree[q] # 0}
                       \/ id \in truncated' \cup disturbed'
         /\ tree' = tree /\ truncated \subseteq truncated' /\ disturbed \subseteq disturbed'
         /\ \A i \in ScanIds : i # id => (i \in truncated' <=> i \in truncated)
                                         /\ (i \in disturbed' <=> i \in disturbed)
         /\ UNCHANGED <<root_of, phase>>
<1>0. UNCHANGED <<root_of, phase>>
  BY Walks
<1>1. CASE visit_node(id, p)
  <2>1. PICK s \in {"reading", "finished"} : job' = [job EXCEPT ![id][p] = s]
    <3>1. \E s \in {"reading", "finished"} : set_job(id, p, s)
      BY <1>1 DEF visit_node, visit_missing, visit_unreadable, visit_leaf, visit_dir
    <3> QED
      BY <3>1 DEF set_job
  <2>2. /\ job[id][p] = "waiting" /\ UNCHANGED <<tree, truncated>>
        /\ disturbed' = disturbed \/ disturbed' = disturbed \cup {id}
    BY <1>1 DEF visit_node, visit_missing, visit_unreadable, visit_leaf, visit_dir
  <2>3. /\ \A i \in ScanIds : i # id => job'[i] = job[i]
        /\ job'[id] = [job[id] EXCEPT ![p] = s]
    BY <2>1 DEF Types
  <2> QED
    BY <1>0, <1>1, <2>2, <2>3
<1>2. CASE finish_node(id, p) /\ skip_node(id, p)
  BY <1>0, <1>2 DEF skip_node, set_job, Types
<1>3. CASE finish_node(id, p) /\ read_dir(id, p)
  <2> DEFINE entries == {q \in Children[p] : tree[q] # 0}
  <2>1. PICK listed \in SUBSET entries : \E kept \in SUBSET listed :
          /\ job' = [job EXCEPT ![id] = [q \in Paths |->
                       IF q \in kept THEN "waiting" ELSE IF q = p THEN "finished" ELSE @[q]]]
          /\ truncated' = IF kept # listed THEN truncated \cup {id} ELSE truncated
          /\ disturbed' = IF listed # entries THEN disturbed \cup {id} ELSE disturbed
    BY <1>3 DEF read_dir
  <2>2. PICK kept \in SUBSET listed :
          /\ job' = [job EXCEPT ![id] = [q \in Paths |->
                       IF q \in kept THEN "waiting" ELSE IF q = p THEN "finished" ELSE @[q]]]
          /\ truncated' = IF kept # listed THEN truncated \cup {id} ELSE truncated
          /\ disturbed' = IF listed # entries THEN disturbed \cup {id} ELSE disturbed
    BY <2>1
  <2>3. /\ \A i \in ScanIds : i # id => job'[i] = job[i]
        /\ job'[id] = Kept(id, p, kept)
    BY <2>2 DEF Types, Kept
  <2>4. job[id][p] = "reading" /\ tree' = tree
    BY <1>3 DEF read_dir
  <2>5. kept \in SUBSET entries /\ (kept = entries \/ id \in truncated' \cup disturbed')
    BY <2>2
  <2> HIDE DEF entries
  <2>6. /\ truncated \subseteq truncated' /\ disturbed \subseteq disturbed'
        /\ \A i \in ScanIds : i # id => (i \in truncated' <=> i \in truncated)
                                        /\ (i \in disturbed' <=> i \in disturbed)
    BY <2>2
  <2> QED
    BY <1>0, <1>3, <2>3, <2>4, <2>5, <2>6 DEF entries
<1> QED
  BY <1>1, <1>2, <1>3 DEF finish_node

\* The steps that leave all jobs and roots as they are.
LEMMA Bystanders ==
  ASSUME \/ \E id \in ScanIds : cancel_scan(id) \/ flag_sentinel(id) \/ push_sentinel(id)
                                \/ hand_over_row(id)
         \/ \E p \in Paths : tree_changes(p)
         \/ stop_pool \/ stop_exporting \/ Writing \/ database_fails
  PROVE  UNCHANGED <<job, root_of, reused, overtaken>> /\ UNCHANGED truncated
<1>1. ASSUME NEW id \in ScanIds,
             cancel_scan(id) \/ flag_sentinel(id) \/ push_sentinel(id) \/ hand_over_row(id)
      PROVE  UNCHANGED <<job, root_of, reused, overtaken, truncated>>
  BY <1>1 DEF cancel_scan, flag_sentinel, push_sentinel, hand_over_row, walk_vars, scan_vars,
     registry_vars, start_vars, history_vars
<1>2. ASSUME NEW p \in Paths, tree_changes(p)
      PROVE  UNCHANGED <<job, root_of, reused, overtaken, truncated>>
  BY <1>2 DEF tree_changes, change_tree, registry_vars, start_vars, history_vars
<1>3. CASE stop_pool \/ stop_exporting \/ Writing \/ database_fails
  BY <1>3 DEF stop_pool, stop_walks, stop_exporting, Writing, database_fails, walk_vars,
     scan_vars, registry_vars, start_vars, history_vars
<1> QED
  BY <1>1, <1>2, <1>3

LEMMA NextJobs == ExportInv /\ Jobs /\ Next => Jobs'
<1> SUFFICES ASSUME ExportInv, Jobs, Next PROVE Jobs'
  OBVIOUS
<1>0. Types /\ Thread /\ Progress
  BY DEF ExportInv
<1>c. Control
  BY <1>0, Controls
<1>r. \A i \in DOMAIN root_of : i \in ScanIds /\ root_of[i] \in Paths
  BY <1>0 DEF Types
<1>1. ASSUME NEW id \in ScanIds, NEW p \in Paths, start_scan(id, p) \/ stop_pool_before(id, p)
      PROVE  Jobs'
  <2>1. /\ id \notin DOMAIN root_of /\ root_of' = Put(id, p, root_of)
        /\ \A i \in ScanIds : i # id => job'[i] = job[i]
        /\ job'[id][p] # "finished"
        /\ \A q \in Paths : q # p => job'[id][q] = job[id][q]
    BY ZenonT(30), <1>0, <1>1, Begins
  <2>2. begin(id, p)
    BY <1>1 DEF start_scan, stop_pool_before
  <2>3. /\ DOMAIN root_of' = DOMAIN root_of \cup {id} /\ root_of'[id] = p
        /\ \A i \in DOMAIN root_of : root_of'[i] = root_of[i] /\ i # id
    BY <2>1 DEF Put
  <2>4. \A q \in Paths : q # p => job'[id][q] = "none"
    BY <2>1 DEF Jobs
  <2>5. ASSUME NEW i \in DOMAIN root_of PROVE Scope(root_of[i]) \cap Scope(p) = {}
    <3>1. root_of[i] \in root_map /\ root_of[i] \in Paths
      BY <1>0, <1>r DEF Progress
    <3>2. ~Overlap[<<root_of[i], p>>]
      BY <2>2, <3>1 DEF begin
    <3>3. ~paths_overlap(TextOf[root_of[i]], TextOf[p])
      BY <3>1, <3>2 DEF Overlap
    <3> QED
      BY <3>1, <3>3, RootsAreApart, Scopes
  <2>6. \A q \in Paths :
          /\ job'[id][q] # "none" => q \in Scope(p)
          /\ \A c \in Children[q] \ {p} : job'[id][c] = "none"
    BY <2>4, TreeAssumption DEF Scope
  <2>7. \A i, j \in DOMAIN root_of' : i # j => Scope(root_of'[i]) \cap Scope(root_of'[j]) = {}
    BY <2>3, <2>5 DEF Jobs
  <2> QED
    BY SMTT(30), <1>r, <2>1, <2>3, <2>6, <2>7 DEF Jobs, Scope
<1>2. ASSUME NEW id \in ScanIds, NEW p \in Paths, visit_node(id, p) \/ finish_node(id, p)
      PROVE  Jobs'
  <2>1. /\ \A i \in ScanIds : i # id => job'[i] = job[i]
        /\ \/ \E s \in {"reading", "finished"} : job'[id] = [job[id] EXCEPT ![p] = s]
           \/ job'[id] = [job[id] EXCEPT ![p] = "none"]
           \/ \E kept \in SUBSET Children[p] : job'[id] = Kept(id, p, kept)
        /\ job[id][p] \in {"waiting", "reading"} /\ UNCHANGED root_of
        /\ job[id] \in [Paths -> JobState]
    <3>1. job[id] \in [Paths -> JobState]
      BY <1>0 DEF Types
    <3> QED
      BY <1>0, <1>2, <3>1, WalkSteps
  <2>2. /\ id \in DOMAIN root_of /\ p \in Scope(root_of[id])
        /\ \A q \in Children[p] : q # root_of[id] /\ q \in Scope(root_of[id]) /\ job[id][q] = "none"
    <3>1. id \in DOMAIN root_of /\ p \in Scope(root_of[id])
      BY <2>1 DEF Jobs
    <3> QED
      BY <1>r, <2>1, <3>1, Scopes DEF Jobs
  <2> DEFINE root == root_of[id]
  <2>3. ASSUME NEW q \in Paths
        PROVE  /\ job'[id][q] # "none" => q \in Scope(root)
               /\ job'[id][q] # "finished" => \A c \in Children[q] \ {root} : job'[id][c] = "none"
    <3>0. /\ job[id][q] # "none" => q \in Scope(root)
          /\ job[id][q] # "finished" => \A c \in Children[q] \ {root} : job[id][c] = "none"
      BY <2>2 DEF Jobs
    <3>c. \A c \in Children[q] : c \in Paths /\ (c = p => job[id][q] = "finished" \/ p = root)
      BY <2>1, <3>0, TreeAssumption
    <3>1. CASE \/ \E s \in {"reading", "finished"} : job'[id] = [job[id] EXCEPT ![p] = s]
               \/ job'[id] = [job[id] EXCEPT ![p] = "none"]
      <4>1. /\ \A c \in Paths : c # p => job'[id][c] = job[id][c]
            /\ p # q => job'[id][q] = job[id][q]
        BY <2>1, <3>1
      <4>2. job'[id][q] # "none" => q \in Scope(root)
        BY <2>2, <3>0, <4>1
      <4>3. ASSUME job'[id][q] # "finished", NEW c \in Children[q] \ {root}
            PROVE  job'[id][c] = "none"
        <5>1. CASE q = p
          <6>1. c # p
            BY <5>1, EntryIsBelow, Scopes
          <6> QED
            BY <2>2, <3>c, <4>1, <5>1, <6>1
        <5>2. CASE q # p
          BY <3>0, <3>c, <4>1, <4>3, <5>2
        <5> QED
          BY <5>1, <5>2
      <4> QED
        BY <4>2, <4>3
    <3>2. ASSUME NEW kept \in SUBSET Children[p], job'[id] = Kept(id, p, kept)
          PROVE  /\ job'[id][q] # "none" => q \in Scope(root)
                 /\ job'[id][q] # "finished" => \A c \in Children[q] \ {root} : job'[id][c] = "none"
      <4>1. \A c \in Paths : job'[id][c] = IF c \in kept THEN "waiting"
                                           ELSE IF c = p THEN "finished" ELSE job[id][c]
        BY <3>2 DEF Kept
      <4>2. job'[id][q] # "none" => q \in Scope(root)
        BY <2>2, <3>0, <4>1
      <4>3. ASSUME job'[id][q] # "finished", NEW c \in Children[q] \ {root}
            PROVE  job'[id][c] = "none"
        <5>1. q # p \/ q \in kept
          BY <4>1, <4>3
        <5>2. q # p
          <6>1. p \notin Children[p]
            BY EntryIsBelow, Scopes
          <6> QED
            BY <5>1, <6>1
        <5>3. c \notin kept
          BY <5>2, OneDirectory
        <5>4. job[id][q] # "finished"
          BY <2>2, <4>1, <4>3, <5>2
        <5> QED
          BY <3>0, <3>c, <4>1, <5>3, <5>4
      <4> QED
        BY <4>2, <4>3
    <3> QED
      BY <2>1, <3>1, <3>2
  <2>4. \A i \in ScanIds \ DOMAIN root_of' : \A q \in Paths : job'[i][q] = "none"
    BY <2>1, <2>2 DEF Jobs
  <2>5. \A i \in DOMAIN root_of : i # id => job'[i] = job[i]
    BY <1>r, <2>1
  <2> HIDE DEF root
  <2> QED
    BY <2>1, <2>3, <2>4, <2>5 DEF Jobs, Scope, root
<1>3. CASE export_done
  <2>0. PICK id \in ScanIds : id = sentinel.id /\ handled # <<>> /\ writer = "publish"
    BY <1>0, <1>3, HandledId DEF export_done, finalize_publishes, Thread, Finalizing
  <2>1. /\ job' = [job EXCEPT ![id] = NoJobs]
        /\ DOMAIN root_of' = DOMAIN root_of \ {id}
        /\ \A i \in DOMAIN root_of' : root_of'[i] = root_of[i]
    BY <1>3, <2>0 DEF export_done, Restrict
  <2>2. /\ \A q \in Paths : job'[id][q] = "none"
        /\ \A i \in ScanIds : i # id => job'[i] = job[i]
    BY <1>0, <2>1 DEF Types, NoJobs
  <2> QED
    BY <1>r, <2>1, <2>2 DEF Jobs, Scope
<1>4. CASE restart
  <2>1. DOMAIN root_of' = {} /\ job' = [id \in ScanIds |-> NoJobs]
    BY <1>4 DEF restart, EmptyTable
  <2> QED
    BY <2>1 DEF Jobs, NoJobs
<1>5. ASSUME UNCHANGED <<job, root_of>> PROVE Jobs'
  BY <1>5 DEF Jobs, Scope
<1> QED
  BY <1>c, <1>1, <1>2, <1>3, <1>4, <1>5, Bystanders DEF Control

-----------------------------------------------------------------------------
(* Events on their way, and the rows they become *)

Pending(id, p) == \E e \in Items : ~e.sentinel /\ e.id = id /\ e.path = p
Written(id, p) == p \in DOMAIN index_current /\ index_current[p].id = id

\* What a scan visited is on its way or written, unless a statement failed, and
\* nothing else is.
OnTheWay ==
  writer # "dead" =>
    \A id \in DOMAIN root_of \ unwritten :
      \A p \in visited(id) : Pending(id, p) \/ Written(id, p)
OnlyVisited == \A e \in Items : ~e.sentinel => e.path \in visited(e.id)
OnlyWritten ==
  \A id \in DOMAIN root_of \ reused : \A p \in DOMAIN index_current :
    index_current[p].id = id => p \in visited(id)

\* After mark_deleted() and upsert_count().
MarkedView ==
  Marked /\ ~sentinel.canceled /\ sentinel.id \notin unwritten =>
    \A p \in Below[row[1].root] \cap DOMAIN index_current : index_current[p].id = sentinel.id
CountedView ==
  writer = "publish" /\ sentinel.id \notin unwritten =>
    scan_task_table[sentinel.id].count = Cardinality(Found(sentinel.id))

Views == OnTheWay /\ OnlyVisited /\ OnlyWritten /\ MarkedView /\ CountedView

\* What a visit pushes.
Pushes(id, p, e) ==
  /\ Items' = Items \cup {e} /\ e.sentinel = FALSE /\ e.id = id /\ e.path = p
  /\ e.fp = tree[p] /\ (e.err => tree[p] = 0 \/ id \in disturbed')
  /\ UNCHANGED <<tables, writer, handled, row, batch, root_of, reused, overtaken>>

LEMMA VisitPushes ==
  ASSUME ExportInv, NEW id \in ScanIds, NEW p \in Paths, visit_node(id, p)
  PROVE  \E e \in Events : Pushes(id, p, e)
<1>0. Types /\ Progress /\ Tracked
  BY DEF ExportInv
<1>2. PICK e \in Events : RecordsVisit(id, p, e)
  BY <1>0, Visits
<1>3. phase[id] = "walking" /\ ~refused(id)
  BY <1>0, WalkedOn
<1>4. ~stop_flag
  BY <1>0, <1>3 DEF Tracked
<1>5. ToSet(result_queue') = ToSet(result_queue) \cup {e} /\ UNCHANGED <<batch, writer, handled, row>>
  BY <1>0, <1>2, <1>4, Pushed DEF RecordsVisit
<1>6. UNCHANGED <<tables, root_of, reused, overtaken>>
  BY DEF visit_node, scan_vars, registry_vars, start_vars, history_vars
<1>7. Items' = Items \cup {e}
  BY <1>5 DEF Items
<1> HIDE DEF tables
<1> QED
  BY <1>2, <1>5, <1>6, <1>7 DEF RecordsVisit, Pushes

\* Where the items of the queue and the batch go.
Moved(written) ==
  /\ Items' \subseteq Items
  /\ \A e \in Items : e \in Items' \/ e.sentinel \/ e \in written

LEMMA WriterMoves ==
  ASSUME ExportInv, write_results \/ statements_fail \/ database_fails
  PROVE  \/ /\ UNCHANGED index_current /\ Items' \subseteq Items
            /\ writer' = "dead" \/ Moved({})
         \/ \E events \in Seq(Events) :
              /\ BatchWritten(events) /\ ToSet(events) \subseteq Items
              /\ Moved(ToSet(events)) /\ writer = "pop"
         \/ /\ finalized /\ Items' = Items
            /\ mark_deleted_partly(sentinel.id, row[1].root, sentinel.canceled)
<1>0. Types
  BY DEF ExportInv
<1>1. ToSet(<<>>) = {} /\ ToSet(batch) \subseteq Items /\ batch \in Seq(Events)
  BY <1>0 DEF ToSet, Items, Types
<1>e. ASSUME take_event
      PROVE  /\ Append(batch, Head(result_queue)) \in Seq(Events)
             /\ ToSet(Append(batch, Head(result_queue))) = ToSet(batch) \cup {Head(result_queue)}
             /\ ToSet(result_queue) = ToSet(result_queue') \cup {Head(result_queue)}
             /\ writer = "pop"
  <2>1. /\ Head(result_queue) \in Events /\ Head(result_queue) \in ToSet(result_queue)
        /\ ToSet(result_queue) = ToSet(Tail(result_queue)) \cup {Head(result_queue)}
    BY <1>0, <1>e, ItemsTail, Sets DEF Types, take_event
  <2>2. /\ Append(batch, Head(result_queue)) \in Seq(Events)
        /\ ToSet(Append(batch, Head(result_queue))) = ToSet(batch) \cup {Head(result_queue)}
    BY <1>0, <2>1, AppendProperties, ItemsAppended DEF Types
  <2>3. result_queue' = Tail(result_queue) /\ writer = "pop"
    BY <1>e DEF take_event
  <2> QED
    BY <2>1, <2>2, <2>3
<1>m. ASSUME NEW events, batch' = <<>>,
             \/ take_event /\ events = Append(batch, Head(result_queue))
             \/ (take_sentinel \/ finish_writing) /\ events = batch
      PROVE  /\ events \in Seq(Events) /\ ToSet(events) \subseteq Items
             /\ Moved(ToSet(events)) /\ writer = "pop"
  <2>0. ToSet(batch') = {}
    BY <1>1, <1>m
  <2>1. CASE take_event /\ events = Append(batch, Head(result_queue))
    <3>1. Items = Items' \cup ToSet(events)
      BY <1>e, <2>0, <2>1 DEF Items
    <3> QED
      BY <1>e, <2>1, <3>1 DEF Moved
  <2>2. CASE (take_sentinel \/ finish_writing) /\ events = batch
    <3>1. CASE take_sentinel
      <4>1. /\ ToSet(result_queue) = ToSet(result_queue') \cup {Head(result_queue)}
            /\ Head(result_queue).sentinel /\ writer = "pop"
        BY <1>0, <3>1, ItemsTail DEF Types, take_sentinel
      <4> QED
        BY <1>1, <2>0, <2>2, <4>1 DEF Moved, Items
    <3>2. CASE finish_writing
      BY <1>1, <2>0, <2>2, <3>2 DEF Moved, Items, finish_writing, queue_vars
    <3> QED
      BY <2>2, <3>1, <3>2
  <2> QED
    BY <1>m, <2>1, <2>2
<1>2. CASE pop_event
  <2>1. /\ take_event
        /\ \/ UNCHANGED tables /\ batch' = Append(batch, Head(result_queue))
           \/ commit(Append(batch, Head(result_queue))) /\ batch' = <<>>
    BY <1>2 DEF pop_event
  <2>2. CASE UNCHANGED tables /\ batch' = Append(batch, Head(result_queue))
    <3>1. Items' = Items
      BY <1>e, <2>1, <2>2 DEF Items
    <3> QED
      BY <2>2, <3>1 DEF Moved, tables
  <2>3. CASE commit(Append(batch, Head(result_queue))) /\ batch' = <<>>
    BY <1>m, <2>1, <2>3, CommittedRecords
  <2> QED
    BY <2>1, <2>2, <2>3
<1>3. CASE pop_sentinel \/ stop_writing
  <2>1. commit(batch) /\ batch' = <<>> /\ (take_sentinel \/ finish_writing)
    BY <1>3 DEF pop_sentinel, stop_writing, commit_batch
  <2> QED
    BY <1>m, <2>1, CommittedRecords
<1>4. CASE \/ get_scan_task \/ get_scan_task_throws \/ finalize_inserts \/ finalize_marks
           \/ finalize_diffs \/ finalize_counts \/ finalize_partly
  <2>1. UNCHANGED <<result_queue, batch>>
    BY <1>4 DEF get_scan_task, get_scan_task_throws, finalize_inserts, finalize_marks,
       finalize_diffs, finalize_counts, finalize_partly, finalize_step, queue_vars
  <2>2. Items' = Items /\ Moved({})
    BY <2>1 DEF Items, Moved
  <2>3. \/ UNCHANGED index_current
        \/ /\ finalize_step("mark", "diff")
           /\ mark_deleted_partly(sentinel.id, row[1].root, sentinel.canceled)
    BY <1>4 DEF get_scan_task, get_scan_task_throws, finalize_inserts, finalize_marks, finalize_diffs,
       finalize_counts, finalize_partly, insert_scan, mark_deleted, mark_deleted_partly,
       find_scan_diff, find_scan_diff_partly, write_diff, upsert_count, upsert_count_partly,
       set_count, tables
  <2> QED
    BY <2>2, <2>3 DEF finalized
<1>5. CASE write_throws
  <2>1. /\ UNCHANGED <<index_current, batch>> /\ writer' = "dead"
        /\ \/ result_queue' = result_queue
           \/ result_queue # <<>> /\ result_queue' = Tail(result_queue)
    BY <1>5 DEF write_throws, tables
  <2>2. ToSet(result_queue') \subseteq ToSet(result_queue)
    BY <1>0, <2>1, PopKeeps
  <2> QED
    BY <2>1, <2>2 DEF Items
<1>6. ASSUME NEW commit_fails \in BOOLEAN, finalize_fails(commit_fails)
      PROVE  UNCHANGED index_current /\ Items' \subseteq Items /\ Moved({})
  BY <1>6 DEF finalize_fails, queue_vars, Items, Moved, tables
<1>7. CASE /\ commit_batch_partly
           /\ unwritten' = unwritten \cup {event.id : event \in ToSet(in_batch)}
  <2>1. \/ take_event /\ in_batch = Append(batch, Head(result_queue))
        \/ (take_sentinel \/ finish_writing) /\ in_batch = batch
    BY <1>7 DEF commit_batch_partly, in_batch, take_event, take_sentinel, finish_writing
  <2>2. commit_partly(in_batch) /\ batch' = <<>> /\ \A e \in ToSet(in_batch) : e.id \in unwritten'
    BY <1>7 DEF commit_batch_partly
  <2>3. BatchWritten(in_batch)
    BY <2>2, PartlyRecords
  <2> QED
    BY <1>m, <2>1, <2>2, <2>3
<1> QED
  BY <1>2, <1>3, <1>4, <1>5, <1>6, <1>7 DEF write_results, database_fails, statements_fail

\* Once a scan is marked its index stays until the next sentinel.
LEMMA MarkedSteps ==
  ASSUME ExportInv, Next, Marked'
  PROVE  \/ finalized /\ Finalizes(sentinel.id)
         \/ UNCHANGED <<writer, handled, row, tables>>
<1>c. Control
  BY Controls DEF ExportInv
<1>1. ASSUME NEW id \in ScanIds,
             cancel_scan(id) \/ flag_sentinel(id) \/ push_sentinel(id) \/ hand_over_row(id)
      PROVE  UNCHANGED <<writer, handled, row, tables>>
  BY <1>1 DEF cancel_scan, flag_sentinel, push_sentinel, hand_over_row, push_result_queue,
     insert_scan_task, export_vars, writer_vars
<1>2. ASSUME NEW id \in ScanIds, NEW p \in Paths,
             \/ start_scan(id, p) \/ stop_pool_before(id, p)
             \/ visit_node(id, p) \/ finish_node(id, p)
      PROVE  UNCHANGED <<writer, handled, row, tables>>
  BY <1>2 DEF start_scan, stop_pool_before, begin, visit_node, finish_node, push_result_queue,
     export_vars, writer_vars
<1>3. CASE (\E p \in Paths : tree_changes(p)) \/ stop_pool \/ stop_exporting
  BY <1>3 DEF tree_changes, stop_pool, stop_exporting, shutdown, export_vars, writer_vars
<1>4. CASE restart \/ export_done \/ database_fails
  BY <1>4 DEF restart, ExportStarts, export_done, finalize_publishes, database_fails, write_throws,
     finalize_fails, Marked
<1>5. CASE Writing
  <2>1. finalized
    BY <1>5 DEF Writing, took_event, take_event, took_sentinel, take_sentinel, finished, finish_writing,
       get_scan_task, get_scan_task_throws, Marked
  <2> QED
    BY <2>1, TableSteps DEF finalized, finalize_step, Recording
<1> QED
  BY <1>c, <1>1, <1>2, <1>3, <1>4, <1>5 DEF Control

\* Two scans that both visited a path are one.
LEMMA OneVisitor ==
  ASSUME Types, Jobs, NEW i \in DOMAIN root_of, NEW j \in DOMAIN root_of, NEW p \in Paths,
         p \in visited(i) \/ p \in Scope(root_of[i]), p \in visited(j)
  PROVE  i = j
<1>1. ASSUME NEW k \in DOMAIN root_of, p \in visited(k) PROVE p \in Scope(root_of[k])
  BY <1>1 DEF Jobs, visited
<1> QED
  BY <1>1 DEF Jobs

\* What is visited stays so as long as the scan has its root.
LEMMA VisitedStays ==
  ASSUME ExportInv, Jobs, Next, NEW id \in DOMAIN root_of, id \in DOMAIN root_of'
  PROVE  visited(id) \subseteq visited(id)' /\ root_of'[id] = root_of[id]
         /\ \/ visited(id)' = visited(id)
            \/ \E p \in Paths : visit_node(id, p) /\ visited(id)' = visited(id) \cup {p}
<1>0. Types /\ Thread /\ Progress /\ id \in ScanIds /\ root_of[id] \in Paths
  BY DEF ExportInv, Types
<1>c. Control
  BY <1>0, Controls
<1>1. ASSUME UNCHANGED job PROVE visited(id)' = visited(id)
  BY <1>1 DEF visited
<1>2. ASSUME job'[id] = job[id] PROVE visited(id)' = visited(id)
  BY <1>2 DEF visited
<1>3. ASSUME NEW i \in ScanIds, NEW p \in Paths, start_scan(i, p) \/ stop_pool_before(i, p)
      PROVE  visited(id)' = visited(id) /\ root_of'[id] = root_of[id]
  <2>1. /\ i \notin DOMAIN root_of /\ root_of' = Put(i, p, root_of)
        /\ \A j \in ScanIds : j # i => job'[j] = job[j]
    BY <1>0, <1>3, Begins
  <2> QED
    BY <1>0, <1>2, <2>1 DEF Put
<1>4. ASSUME NEW i \in ScanIds, NEW p \in Paths, visit_node(i, p) \/ finish_node(i, p)
      PROVE  /\ root_of'[id] = root_of[id]
             /\ \/ visited(id)' = visited(id)
                \/ visit_node(id, p) /\ visited(id)' = visited(id) \cup {p}
  <2>0. UNCHANGED root_of
    BY <1>4, Walks
  <2>1. CASE i # id
    BY <1>0, <1>2, <1>4, <2>0, <2>1, WalkSteps
  <2>2. CASE i = id
    <3>0. job[id] \in [Paths -> JobState]
      BY <1>0 DEF Types
    <3>1. CASE visit_node(id, p)
      <4>1. PICK s \in {"reading", "finished"} : job'[id] = [job[id] EXCEPT ![p] = s]
        <5>1. \E s \in {"reading", "finished"} : set_job(id, p, s)
          BY <3>1 DEF visit_node, visit_missing, visit_unreadable, visit_leaf, visit_dir
        <5> QED
          BY <1>0, <5>1 DEF set_job, Types
      <4>2. visited(id)' = visited(id) \cup {p}
        BY <3>0, <4>1 DEF visited
      <4> QED
        BY <2>0, <3>1, <4>2
    <3>2. CASE finish_node(id, p)
      <4>1. \/ job[id][p] = "waiting" /\ job'[id] = [job[id] EXCEPT ![p] = "none"]
            \/ /\ job[id][p] = "reading"
               /\ \E kept \in SUBSET Children[p] : job'[id] = Kept(id, p, kept)
        <5>1. CASE skip_node(id, p)
          BY <1>0, <5>1 DEF skip_node, set_job, Types
        <5>2. CASE read_dir(id, p)
          <6>1. PICK kept \in SUBSET Children[p] :
                  job' = [job EXCEPT ![id] = [q \in Paths |->
                       IF q \in kept THEN "waiting" ELSE IF q = p THEN "finished" ELSE @[q]]]
            BY <5>2 DEF read_dir
          <6>2. job'[id] = Kept(id, p, kept)
            BY <1>0, <6>1 DEF Types, Kept
          <6> QED
            BY <5>2, <6>2 DEF read_dir
        <5> QED
          BY <3>2, <5>1, <5>2 DEF finish_node
      <4>2. CASE job[id][p] = "waiting" /\ job'[id] = [job[id] EXCEPT ![p] = "none"]
        <5>1. visited(id)' = visited(id)
          BY <3>0, <4>2 DEF visited
        <5> QED
          BY <2>0, <5>1
      <4>3. ASSUME job[id][p] = "reading", NEW kept \in SUBSET Children[p],
                   job'[id] = Kept(id, p, kept)
            PROVE  visited(id)' = visited(id)
        <5>1. /\ p \in Scope(root_of[id])
              /\ \A q \in kept : job[id][q] = "none" /\ q \in Paths
          <6>1. p \in Scope(root_of[id])
            BY <4>3 DEF Jobs
          <6>2. \A q \in Children[p] : q # root_of[id] /\ q \in Paths
            BY <1>0, <6>1, Scopes
          <6> QED
            BY <4>3, <6>1, <6>2 DEF Jobs
        <5>2. \A q \in Paths : job'[id][q] \in {"reading", "finished"}
                                 <=> job[id][q] \in {"reading", "finished"}
          <6>1. \A q \in Paths : job'[id][q] = IF q \in kept THEN "waiting"
                                               ELSE IF q = p THEN "finished" ELSE job[id][q]
            BY <4>3 DEF Kept
          <6> QED
            BY <4>3, <5>1, <6>1
        <5> QED
          BY <5>2 DEF visited
      <4> QED
        BY <2>0, <4>1, <4>2, <4>3
    <3> QED
      BY <1>4, <2>2, <3>1, <3>2
  <2> QED
    BY <2>1, <2>2
<1>5. CASE export_done
  <2>0. PICK i \in ScanIds : i = sentinel.id /\ handled # <<>> /\ writer = "publish"
    BY <1>0, <1>5, HandledId DEF export_done, finalize_publishes, Thread, Finalizing
  <2>1. /\ job' = [job EXCEPT ![i] = NoJobs] /\ id # i /\ root_of'[id] = root_of[id]
    BY <1>5, <2>0 DEF export_done, Restrict
  <2>2. job'[id] = job[id]
    BY <1>0, <2>1 DEF Types
  <2> QED
    BY <1>2, <2>1, <2>2
<1>6. CASE restart
  BY <1>6 DEF restart, EmptyTable
<1>7. ASSUME UNCHANGED <<job, root_of>>
      PROVE  visited(id)' = visited(id) /\ root_of'[id] = root_of[id]
  BY <1>1, <1>7
<1> QED
  BY <1>c, <1>3, <1>4, <1>5, <1>6, <1>7, Bystanders DEF Control

-----------------------------------------------------------------------------
ViewInv == TableInv /\ Jobs /\ Views

LEMMA ItemIds ==
  ASSUME ExportInv, Ordered, NEW e \in Items
  PROVE  e.id \in DOMAIN root_of /\ e.id \in ScanIds /\ (~e.sentinel => e \in Events)
<1>1. e.id \in DOMAIN root_of
  BY DEF Items, Ordered
<1>2. e \in Events \cup Sentinels
  <2>1. Types
    BY DEF ExportInv
  <2>2. \A s \in ToSet(batch) : s \in Events
    BY <2>1 DEF Types, ToSet
  <2> QED
    BY <2>1, <2>2, ItemTypes DEF Items
<1> QED
  BY <1>1, <1>2, Sets DEF ExportInv, Types

LEMMA ItemsCome ==
  ASSUME ExportInv, Next
  PROVE  \/ \A e \in Items' : e \in Items \/ e.sentinel
         \/ \E id \in ScanIds, p \in Paths : visit_node(id, p)
<1>0. Types
  BY DEF ExportInv
<1>1. ASSUME NEW id \in ScanIds, push_sentinel(id) PROVE \A e \in Items' : e \in Items \/ e.sentinel
  <2> DEFINE s == [sentinel |-> TRUE, id |-> id, canceled |-> id \in flagged]
  <2>1. s \in Sentinels /\ push_result_queue(s)
    BY <1>1 DEF push_sentinel, Sentinels
  <2> HIDE DEF s
  <2>2. s.sentinel = TRUE /\ s \in Events \cup Sentinels
    BY <2>1, Sets
  <2>3. (\A e \in ToSet(result_queue') : e = s \/ e \in ToSet(result_queue)) /\ batch' = batch
    BY <1>0, <2>1, <2>2, PushKeeps
  <2> QED
    BY <2>2, <2>3 DEF Items
<1>2. ASSUME UNCHANGED <<result_queue, batch>> PROVE \A e \in Items' : e \in Items
  BY <1>2 DEF Items
<1>3. ASSUME NEW id \in ScanIds, cancel_scan(id) \/ flag_sentinel(id) \/ hand_over_row(id)
      PROVE  UNCHANGED <<result_queue, batch>>
  BY <1>3 DEF cancel_scan, flag_sentinel, hand_over_row, insert_scan_task, export_vars, queue_vars,
     writer_vars
<1>4. ASSUME NEW id \in ScanIds, NEW p \in Paths,
             start_scan(id, p) \/ stop_pool_before(id, p) \/ finish_node(id, p)
      PROVE  UNCHANGED <<result_queue, batch>>
  BY <1>4 DEF start_scan, stop_pool_before, begin, finish_node, export_vars, queue_vars, writer_vars
<1>5. CASE (\E p \in Paths : tree_changes(p)) \/ stop_pool \/ stop_exporting \/ export_done
  BY <1>2, <1>5 DEF tree_changes, stop_pool, stop_exporting, shutdown, export_done,
     finalize_publishes, export_vars, queue_vars, writer_vars
<1>6. CASE restart
  <2>1. result_queue' = <<>> /\ batch' = <<>>
    BY <1>6 DEF restart, ExportStarts
  <2> QED
    BY <2>1 DEF Items, ToSet
<1>7. CASE write_results \/ statements_fail \/ database_fails
  <2>1. Items' \subseteq Items
    BY <1>7, WriterMoves DEF Moved
  <2> QED
    BY <2>1
<1> QED
  BY <1>1, <1>2, <1>3, <1>4, <1>5, <1>6, <1>7 DEF Next, Regular

LEMMA NextOnlyVisited == ViewInv /\ Next => OnlyVisited'
<1> SUFFICES ASSUME ViewInv, Next, NEW e \in Items', ~e.sentinel
             PROVE  e.path \in visited(e.id)'
  BY DEF OnlyVisited
<1>0. /\ ExportInv /\ Ordered /\ Jobs /\ OnlyVisited /\ Ordered' /\ Types
      /\ \A id : id \in DOMAIN root_of => id \in ScanIds
  BY NextOrdered DEF ViewInv, TableInv, Views, ExportInv, Types
<1>1. e.id \in DOMAIN root_of'
  BY <1>0 DEF Items, Ordered
<1>2. CASE e \in Items
  <2>1. e.id \in DOMAIN root_of /\ e.path \in visited(e.id)
    BY <1>0, <1>2, ItemIds DEF OnlyVisited
  <2> DEFINE id == e.id
  <2>2. id \in DOMAIN root_of /\ id \in DOMAIN root_of'
    BY <1>1, <2>1
  <2> HIDE DEF id
  <2>3. visited(id) \subseteq visited(id)'
    BY <1>0, <2>2, VisitedStays
  <2> QED
    BY <2>1, <2>3 DEF id
<1>3. CASE e \notin Items
  <2>1. PICK id \in ScanIds, p \in Paths : visit_node(id, p)
    BY <1>0, <1>3, ItemsCome
  <2>p. PICK pushed \in Events : Pushes(id, p, pushed)
    BY <1>0, <2>1, VisitPushes
  <2>2. e.id = id /\ e.path = p
    BY <1>3, <2>p DEF Pushes
  <2>3. p \in visited(id)'
    <3>1. PICK s \in {"reading", "finished"} : set_job(id, p, s)
      BY <2>1 DEF visit_node, visit_missing, visit_unreadable, visit_leaf, visit_dir
    <3> QED
      BY <1>0, <3>1 DEF set_job, Types, visited
  <2> QED
    BY <2>2, <2>3
<1> QED
  BY <1>2, <1>3

\* Whether a row of the index is that of a scan that visited its path does not
\* change by what other scans write.
LEMMA CommitKeeps ==
  ASSUME ViewInv, NEW events \in Seq(Events), BatchWritten(events), ToSet(events) \subseteq Items,
         NEW id \in DOMAIN root_of, NEW p \in Paths, p \in visited(id)
  PROVE  /\ Written(id, p) => Written(id, p)'
         /\ (\E e \in ToSet(events) : e.id = id /\ e.path = p) => Written(id, p)' \/ id \in unwritten'
<1>0. ExportInv /\ Ordered /\ Jobs /\ OnlyVisited /\ Types
  BY DEF ViewInv, TableInv, Views, ExportInv
<1>2. \A e \in ToSet(events) : e.path = p => e.id = id
  <2> SUFFICES ASSUME NEW e \in ToSet(events), e.path = p PROVE e.id = id
    OBVIOUS
  <2>1. e \in Items /\ e \in Events
    BY DEF ToSet
  <2>2. e.id \in DOMAIN root_of /\ p \in visited(e.id)
    BY <1>0, <2>1, ItemIds, Sets DEF OnlyVisited
  <2> DEFINE j == e.id
  <2>3. j \in DOMAIN root_of /\ p \in visited(j)
    BY <2>2
  <2> HIDE DEF j
  <2>4. j = id
    BY <1>0, <2>3, OneVisitor
  <2> QED
    BY <2>4 DEF j
<1>3. \A e : EventRow(e).id = e.id
  BY DEF EventRow
<1>4. ASSUME Written(id, p) PROVE Written(id, p)'
  BY <1>2, <1>3, <1>4 DEF BatchWritten, Written
<1>5. ASSUME NEW e \in ToSet(events), e.id = id, e.path = p, id \notin unwritten'
      PROVE  Written(id, p)'
  BY <1>2, <1>3, <1>5 DEF BatchWritten, Written
<1> QED
  BY <1>4, <1>5

LEMMA MarkKeeps ==
  ASSUME ViewInv, finalized, mark_deleted_partly(sentinel.id, row[1].root, sentinel.canceled),
         NEW id \in DOMAIN root_of, NEW p \in Paths, p \in visited(id), Written(id, p)
  PROVE  Written(id, p)'
<1>0. ExportInv /\ Jobs /\ Types
  BY DEF ViewInv, TableInv, ExportInv
<1>1. PICK i \in ScanIds : /\ i \in DOMAIN root_of /\ row[1].root = root_of[i]
                           /\ mark_deleted_partly(i, row[1].root, sentinel.canceled)
  <2>1. \E i \in ScanIds : /\ i = sentinel.id /\ i \in DOMAIN root_of /\ row[1].root = root_of[i]
    BY <1>0, FinalizesAre
  <2> QED
    BY <2>1
<1>2. p \notin unvisited(i, root_of[i])
  <2> SUFFICES ASSUME p \in unvisited(i, root_of[i]) PROVE FALSE
    OBVIOUS
  <2>1. p \in Below[root_of[i]] /\ index_current[p].id # i
    BY DEF unvisited
  <2>2. p \in Scope(root_of[i])
    BY <1>0, <1>1, <2>1, Scopes DEF Types
  <2>3. i = id
    BY <1>0, <1>1, <2>2, OneVisitor
  <2> QED
    BY <2>1, <2>3 DEF Written
<1>3. index_current' = index_current
      \/ index_current' = Restrict(index_current, DOMAIN index_current \ unvisited(i, root_of[i]))
  BY <1>1 DEF mark_deleted_partly, delete_unvisited
<1> QED
  BY <1>2, <1>3 DEF Written, Restrict

LEMMA NextOnTheWay == ViewInv /\ Next => OnTheWay'
<1> SUFFICES ASSUME ViewInv, Next, writer' # "dead", NEW id \in DOMAIN root_of', id \notin unwritten',
                    NEW p \in visited(id)'
             PROVE  Pending(id, p)' \/ Written(id, p)'
  BY DEF OnTheWay
<1>0. /\ ExportInv /\ Ordered /\ Jobs /\ OnlyVisited /\ OnTheWay /\ Types /\ Thread /\ Progress
      /\ Jobs' /\ DOMAIN root_of \subseteq ScanIds
  BY NextJobs DEF ViewInv, TableInv, Views, ExportInv, Types
<1>u. id \notin unwritten
  BY <1>0, UnwrittenStays
<1>p. p \in Paths /\ id \in ScanIds
  <2>1. Types'
    BY <1>0, NextTypes
  <2> QED
    BY <2>1 DEF visited, Types
<1>1. ASSUME writer # "dead", id \in DOMAIN root_of, p \in visited(id) PROVE Pending(id, p) \/ Written(id, p)
  BY <1>0, <1>u, <1>1 DEF OnTheWay
<1>2. ASSUME UNCHANGED <<index_current, writer>>, Items \subseteq Items', id \in DOMAIN root_of,
             p \in visited(id)
      PROVE  Pending(id, p)' \/ Written(id, p)'
  BY <1>1, <1>2 DEF Pending, Written
<1>3. ASSUME NEW i \in ScanIds, push_sentinel(i) PROVE Pending(id, p)' \/ Written(id, p)'
  <2>1. UNCHANGED <<index_current, writer, job, root_of, batch>>
        /\ (result_queue' = result_queue \/ result_queue' =
               Append(result_queue, [sentinel |-> TRUE, id |-> i, canceled |-> i \in flagged]))
    BY <1>3 DEF push_sentinel, push_result_queue, tables, walk_vars, start_vars, writer_vars
  <2>2. [sentinel |-> TRUE, id |-> i, canceled |-> i \in flagged] \in Events \cup Sentinels
    BY DEF Sentinels
  <2> DEFINE s == [sentinel |-> TRUE, id |-> i, canceled |-> i \in flagged]
  <2> HIDE DEF s
  <2>3. ToSet(result_queue) \subseteq ToSet(result_queue')
    <3>1. CASE result_queue' = result_queue
      BY <3>1
    <3>2. CASE result_queue' = Append(result_queue, s)
      BY <1>0, <2>2, <3>2, ItemsAppended DEF Types, s
    <3> QED
      BY <2>1, <3>1, <3>2 DEF s
  <2> QED
    BY <1>2, <2>1, <2>3 DEF Items, visited
<1>4. ASSUME NEW i \in ScanIds, cancel_scan(i) \/ flag_sentinel(i) \/ hand_over_row(i)
      PROVE  Pending(id, p)' \/ Written(id, p)'
  <2>1. UNCHANGED <<index_current, writer, job, root_of, batch, result_queue>>
    BY <1>4 DEF cancel_scan, flag_sentinel, hand_over_row, insert_scan_task, tables, walk_vars,
       start_vars, export_vars, queue_vars, writer_vars, scan_vars, registry_vars
  <2> QED
    BY <1>2, <2>1 DEF Items, visited
<1>5. CASE (\E q \in Paths : tree_changes(q)) \/ stop_pool \/ stop_exporting
  <2>1. UNCHANGED <<index_current, writer, job, root_of, batch, result_queue>>
    BY <1>5 DEF tree_changes, change_tree, stop_pool, stop_walks, stop_exporting, shutdown, tables,
       walk_vars, start_vars, export_vars, queue_vars, writer_vars, scan_vars, registry_vars
  <2> QED
    BY <1>2, <2>1 DEF Items, visited
<1>6. ASSUME NEW i \in ScanIds, NEW q \in Paths, start_scan(i, q) \/ stop_pool_before(i, q)
      PROVE  Pending(id, p)' \/ Written(id, p)'
  <2>1. /\ UNCHANGED <<index_current, writer, result_queue, batch>>
        /\ i \notin DOMAIN root_of /\ root_of' = Put(i, q, root_of)
        /\ \A j \in ScanIds : j # i => job'[j] = job[j]
        /\ job'[i][q] \in {"waiting", "dropped"}
        /\ \A c \in Paths : c # q => job'[i][c] = job[i][c]
    <3>1. UNCHANGED <<tables, export_vars>>
      BY <1>0, <1>6, Begins
    <3> QED
      BY <1>0, <1>6, <3>1, Begins DEF tables, export_vars, queue_vars, writer_vars
  <2>2. id # i
    <3>0. \A c \in Paths : job[i][c] = "none"
      BY <1>0, <1>6, <2>1 DEF Jobs
    <3>1. ASSUME NEW c \in Paths PROVE job'[i][c] \notin {"reading", "finished"}
      <4>1. CASE c = q
        BY <2>1, <4>1
      <4>2. CASE c # q
        BY <2>1, <3>0, <4>2
      <4> QED
        BY <4>1, <4>2
    <3> QED
      BY <3>1 DEF visited
  <2>3. id \in DOMAIN root_of /\ p \in visited(id)
    BY <1>p, <2>1, <2>2 DEF Put, visited
  <2> QED
    BY <1>2, <2>1, <2>3 DEF Items
<1>7. ASSUME NEW i \in ScanIds, NEW q \in Paths, finish_node(i, q)
      PROVE  Pending(id, p)' \/ Written(id, p)'
  <2>1. UNCHANGED <<index_current, writer, root_of, batch, result_queue>>
    BY <1>7 DEF finish_node, tables, start_vars, export_vars, queue_vars, writer_vars, scan_vars,
       registry_vars
  <2>2. p \in visited(id)
    <3>1. CASE visited(id)' = visited(id)
      BY <3>1
    <3>2. ASSUME NEW c \in Paths, visit_node(id, c), visited(id)' = visited(id) \cup {c}
          PROVE  p \in visited(id)
      <4>1. PICK e \in Events : Pushes(id, c, e)
        BY <1>0, <1>p, <3>2, VisitPushes
      <4>2. e \in Items
        BY <2>1, <4>1 DEF Items, Pushes
      <4>3. c \in visited(id)
        BY <1>0, <4>1, <4>2 DEF OnlyVisited, Pushes
      <4> QED
        BY <3>2, <4>3
    <3> QED
      BY <1>0, <2>1, <3>1, <3>2, VisitedStays
  <2> QED
    BY <1>2, <2>1, <2>2 DEF Items
<1>8. ASSUME NEW i \in ScanIds, NEW q \in Paths, visit_node(i, q)
      PROVE  Pending(id, p)' \/ Written(id, p)'
  <2>0. PICK e \in Events : Pushes(i, q, e)
    BY <1>0, <1>8, VisitPushes
  <2>1. /\ Items' = Items \cup {e} /\ e.sentinel = FALSE /\ e.id = i /\ e.path = q
        /\ UNCHANGED <<index_current, writer, root_of>>
    BY <2>0 DEF Pushes, tables
  <2>2. CASE p \in visited(id)
    BY <1>2, <2>1, <2>2
  <2>3. CASE p \notin visited(id)
    <3>1. id = i /\ p = q
      <4>1. CASE id # i
        BY <1>0, <1>p, <1>8, <2>3, <4>1, WalkSteps DEF visited
      <4>2. CASE id = i
        <5>1. PICK s \in {"reading", "finished"} : set_job(i, q, s)
          BY <1>8 DEF visit_node, visit_missing, visit_unreadable, visit_leaf, visit_dir
        <5> QED
          BY <1>0, <1>p, <2>3, <4>2, <5>1 DEF set_job, Types, visited
      <4> QED
        BY <4>1, <4>2
    <3> QED
      BY <2>1, <3>1 DEF Pending
  <2> QED
    BY <2>2, <2>3
<1>9. CASE write_results \/ statements_fail \/ database_fails
  <2>c. Writing \/ database_fails
    BY <1>0, <1>9, WritingSteps
  <2>0. UNCHANGED <<job, root_of>> /\ id \in DOMAIN root_of /\ p \in visited(id)
    BY <2>c, Writes DEF visited
  <2>1. writer # "dead"
    BY <2>c DEF Writing, database_fails, took_event, take_event, took_sentinel, take_sentinel, finished,
       finish_writing, get_scan_task, get_scan_task_throws, finalized, finalize_step, write_throws,
       finalize_fails
  <2>2. Pending(id, p) \/ Written(id, p)
    BY <1>1, <2>0, <2>1
  <2>3. CASE UNCHANGED index_current /\ Moved({})
    BY <2>2, <2>3 DEF Moved, Pending, Written
  <2>4. ASSUME NEW events \in Seq(Events), BatchWritten(events), ToSet(events) \subseteq Items,
               Moved(ToSet(events))
        PROVE  Pending(id, p)' \/ Written(id, p)'
    <3>1. CASE Written(id, p)
      BY <1>p, <2>0, <2>4, <3>1, CommitKeeps
    <3>2. CASE Pending(id, p)
      <4>1. PICK e \in Items : ~e.sentinel /\ e.id = id /\ e.path = p
        BY <3>2 DEF Pending
      <4>2. CASE e \in Items'
        BY <4>1, <4>2 DEF Pending
      <4>3. CASE e \in ToSet(events)
        BY <1>p, <2>0, <2>4, <4>1, <4>3, CommitKeeps
      <4> QED
        BY <2>4, <4>1, <4>2, <4>3 DEF Moved
    <3> QED
      BY <2>2, <3>1, <3>2
  <2>5. CASE /\ finalized /\ Items' = Items
             /\ mark_deleted_partly(sentinel.id, row[1].root, sentinel.canceled)
    <3>1. CASE Written(id, p)
      BY <1>p, <2>0, <2>5, <3>1, MarkKeeps
    <3>2. CASE Pending(id, p)
      BY <2>5, <3>2 DEF Pending
    <3> QED
      BY <2>2, <3>1, <3>2
  <2> QED
    BY <1>0, <1>9, <2>3, <2>4, <2>5, WriterMoves
<1>10. CASE export_done
  <2>1. UNCHANGED <<index_current, result_queue, batch>> /\ writer = "publish"
        /\ DOMAIN root_of' \subseteq DOMAIN root_of
    BY <1>10 DEF export_done, finalize_publishes, queue_vars, tables, Restrict
  <2>2. p \in visited(id)
    <3>1. visited(id)' = visited(id)
      <4>1. ~\E q \in Paths : visit_node(id, q)
        BY <1>10, <2>1 DEF export_done, finalize_publishes, visit_node, push_result_queue, writer_vars
      <4> QED
        BY <1>0, <2>1, <4>1, VisitedStays
    <3> QED
      BY <3>1
  <2>3. Pending(id, p) \/ Written(id, p)
    BY <1>1, <2>1, <2>2
  <2> QED
    BY <2>1, <2>3 DEF Pending, Written, Items
<1>11. CASE restart
  BY <1>11 DEF restart, EmptyTable
<1> QED
  BY <1>3, <1>4, <1>5, <1>6, <1>7, <1>8, <1>9, <1>10, <1>11 DEF Next, Regular

-----------------------------------------------------------------------------
\* A scan gets a root by its start only, which notes whether its id was used.
LEMMA RootSteps ==
  ASSUME ExportInv, Next, NEW id \in DOMAIN root_of'
  PROVE  /\ reused \subseteq reused' /\ id \in ScanIds
         /\ \/ id \in DOMAIN root_of
            \/ /\ UNCHANGED tables /\ (id \in UsedIds => id \in reused')
               /\ id \notin DOMAIN root_of
               /\ \E p \in Paths : start_scan(id, p) \/ stop_pool_before(id, p)
<1>0. Types /\ Thread /\ Progress /\ DOMAIN root_of \subseteq ScanIds
  BY DEF ExportInv, Types
<1>c. Control
  BY <1>0, Controls
<1>1. ASSUME NEW i \in ScanIds, NEW p \in Paths, start_scan(i, p) \/ stop_pool_before(i, p)
      PROVE  /\ UNCHANGED tables /\ root_of' = Put(i, p, root_of)
             /\ reused' = IF i \in UsedIds THEN reused \cup {i} ELSE reused
  BY <1>1 DEF start_scan, stop_pool_before, begin
<1> DEFINE Goal == /\ reused \subseteq reused' /\ id \in ScanIds
                   /\ \/ id \in DOMAIN root_of
                      \/ /\ UNCHANGED tables /\ (id \in UsedIds => id \in reused')
                         /\ id \notin DOMAIN root_of
                         /\ \E p \in Paths : start_scan(id, p) \/ stop_pool_before(id, p)
<1>2. ASSUME NEW i \in ScanIds, NEW p \in Paths, start_scan(i, p) \/ stop_pool_before(i, p)
      PROVE  Goal
  <2>1. DOMAIN root_of' = DOMAIN root_of \cup {i} /\ reused \subseteq reused'
    BY <1>1, <1>2 DEF Put
  <2>2. CASE id \in DOMAIN root_of
    BY <1>0, <2>1, <2>2
  <2>3. CASE id \notin DOMAIN root_of
    <3>1. id = i
      BY <2>1, <2>3
    <3>2. id \in UsedIds => id \in reused'
      BY <1>1, <1>2, <3>1
    <3>3. UNCHANGED tables
      BY <1>1, <1>2
    <3> QED
      BY <1>2, <2>1, <2>3, <3>1, <3>2, <3>3
  <2> QED
    BY <2>2, <2>3
<1>3. CASE \E i \in ScanIds, p \in Paths : visit_node(i, p) \/ finish_node(i, p)
  BY <1>0, <1>3 DEF visit_node, finish_node, scan_vars, registry_vars, start_vars, history_vars
<1>4. CASE export_done
  BY <1>0, <1>4 DEF export_done, Restrict
<1>5. CASE restart
  BY <1>5 DEF restart, EmptyTable
<1>6. CASE UNCHANGED <<root_of, reused>>
  BY <1>0, <1>6
<1> QED
  BY <1>c, <1>2, <1>3, <1>4, <1>5, <1>6, Bystanders DEF Control

LEMMA NextOnlyWritten == ViewInv /\ Next => OnlyWritten'
<1> SUFFICES ASSUME ViewInv, Next, NEW id \in DOMAIN root_of', id \notin reused',
                    NEW p \in DOMAIN index_current', index_current'[p].id = id
             PROVE  p \in visited(id)'
  BY DEF OnlyWritten
<1>0. ExportInv /\ Ordered /\ Jobs /\ OnlyVisited /\ OnlyWritten
  BY DEF ViewInv, TableInv, Views
<1>1. /\ id \in ScanIds /\ id \notin reused
      /\ \/ id \in DOMAIN root_of
         \/ UNCHANGED tables /\ id \notin UsedIds
  BY <1>0, RootSteps
<1>2. CASE id \notin DOMAIN root_of
  BY <1>1, <1>2 DEF UsedIds, tables
<1>3. CASE id \in DOMAIN root_of
  <2>1. visited(id) \subseteq visited(id)'
    BY <1>0, <1>3, VisitedStays
  <2>2. CASE p \in DOMAIN index_current /\ index_current[p].id = id
    BY <1>0, <1>1, <1>3, <2>1, <2>2 DEF OnlyWritten
  <2>3. ASSUME NEW events \in Seq(Events), BatchWritten(events), ToSet(events) \subseteq Items
        PROVE  \/ p \in DOMAIN index_current /\ index_current[p].id = id
               \/ p \in visited(id)
    <3>2. \A e \in ToSet(events) : e \in Events /\ e \in Items /\ EventRow(e).id = e.id
      BY <2>3 DEF ToSet, EventRow
    <3>3. \/ \E e \in ToSet(events) : e.path = p /\ index_current'[p] = EventRow(e)
          \/ p \in DOMAIN index_current /\ index_current'[p] = index_current[p]
      BY <2>3 DEF BatchWritten
    <3>4. ASSUME NEW e \in ToSet(events), e.path = p, index_current'[p] = EventRow(e)
          PROVE  p \in visited(id)
      BY <1>0, <3>2, <3>4, Sets DEF OnlyVisited
    <3> QED
      BY <3>3, <3>4
  <2>4. CASE Finalizes(sentinel.id)
    BY <2>2, <2>4 DEF Finalizes, insert_scan, mark_deleted_partly, delete_unvisited,
       find_scan_diff_partly, write_diff, set_count, tables, Restrict
  <2>5. CASE UNCHANGED tables
    BY <2>2, <2>5 DEF tables
  <2> QED
    BY <1>0, <2>1, <2>2, <2>3, <2>4, <2>5, TableSteps
<1> QED
  BY <1>2, <1>3

LEMMA NextMarkedView == ViewInv /\ Next => MarkedView'
<1> SUFFICES ASSUME ViewInv, Next, Marked', ~sentinel'.canceled, sentinel'.id \notin unwritten',
                    NEW p \in Below[row'[1].root] \cap DOMAIN index_current'
             PROVE  index_current'[p].id = sentinel'.id
  BY DEF MarkedView
<1>0. ExportInv /\ MarkedView /\ unwritten \subseteq unwritten'
  BY UnwrittenStays DEF ViewInv, TableInv, Views
<1>1. CASE UNCHANGED <<writer, handled, row, tables>>
  BY <1>0, <1>1 DEF MarkedView, Marked, sentinel, tables
<1>2. CASE finalized /\ Finalizes(sentinel.id)
  <2>0. UNCHANGED <<handled, row>> /\ sentinel' = sentinel
    BY <1>2 DEF finalized, finalize_step, sentinel
  <2>1. CASE writer \in {"diff", "count"}
    <3>1. Marked /\ UNCHANGED index_current
      BY <1>2, <2>1 DEF Marked, Finalizes, find_scan_diff_partly, write_diff, set_count, tables
    <3> QED
      BY <1>0, <2>0, <3>1 DEF MarkedView
  <2>2. CASE writer = "mark"
    <3>1. mark_deleted(sentinel.id, row[1].root, sentinel.canceled)
      BY <1>2, <2>0, <2>2 DEF Finalizes
    <3>2. index_current' = Restrict(index_current,
                                    DOMAIN index_current \ unvisited(sentinel.id, row[1].root))
      BY <2>0, <3>1 DEF mark_deleted, delete_unvisited
    <3>3. /\ p \in DOMAIN index_current /\ p \notin unvisited(sentinel.id, row[1].root)
          /\ index_current'[p] = index_current[p] /\ p \in Below[row[1].root]
      BY <2>0, <3>2 DEF Restrict
    <3> QED
      BY <2>0, <3>3 DEF unvisited
  <2> QED
    BY <1>2, <2>1, <2>2 DEF Finalizes, Marked
<1> QED
  BY <1>0, <1>1, <1>2, MarkedSteps

LEMMA NextCountedView == ViewInv /\ Next => CountedView'
<1> SUFFICES ASSUME ViewInv, Next, writer' = "publish", sentinel'.id \notin unwritten'
             PROVE  CountedView'
  BY DEF CountedView
<1>0. ExportInv /\ CountedView /\ Shown /\ unwritten \subseteq unwritten'
  BY UnwrittenStays DEF ViewInv, TableInv, Views
<1>1. CASE UNCHANGED <<writer, handled, row, tables>>
  BY <1>0, <1>1 DEF CountedView, Found, sentinel, tables
<1>2. CASE finalized /\ Finalizes(sentinel.id)
  <2>1. sentinel' = sentinel
    BY <1>2 DEF finalized, finalize_step, sentinel
  <2>2. upsert_count(sentinel.id) /\ writer = "count"
    BY <1>2, <2>1 DEF Finalizes
  <2>3. sentinel.id \in DOMAIN scan_task_table
    BY <1>0, <2>1, <2>2 DEF Shown, Recording
  <2>4. set_count(sentinel.id, Cardinality(Found(sentinel.id)))
    BY <2>2 DEF upsert_count, Found
  <2>5. /\ scan_task_table'[sentinel.id].count = Cardinality(Found(sentinel.id))
        /\ UNCHANGED index_current
    BY <1>0, <2>3, <2>4 DEF set_count, ExportInv, Types
  <2>6. Found(sentinel.id)' = Found(sentinel.id)
    BY <2>1, <2>5 DEF Found
  <2> QED
    BY <2>1, <2>5, <2>6 DEF CountedView
<1>4. Marked'
  BY DEF Marked
<1> QED
  BY <1>0, <1>1, <1>2, <1>4, MarkedSteps

LEMMA ViewInvariance == SafeSpec => []ViewInv
<1>1. Init => Jobs /\ Views
  <2> SUFFICES ASSUME Init PROVE Jobs /\ Views
    OBVIOUS
  <2>1. /\ DOMAIN root_of = {} /\ job = [id \in ScanIds |-> NoJobs] /\ writer = "pop"
        /\ result_queue = <<>> /\ batch = <<>>
    BY DEF Init, TreeInit, ExportInit, EmptyTable
  <2>2. Items = {}
    BY <2>1 DEF Items, ToSet
  <2> QED
    BY <2>1, <2>2 DEF Jobs, NoJobs, Views, OnTheWay, OnlyVisited, OnlyWritten, MarkedView, Marked,
       CountedView
<1>2. TableInv /\ Jobs /\ Views /\ [Next]_vars => Jobs' /\ Views'
  <2> SUFFICES ASSUME TableInv, Jobs, Views, [Next]_vars PROVE Jobs' /\ Views'
    OBVIOUS
  <2>1. CASE Next
    BY <2>1, NextJobs, NextOnTheWay, NextOnlyVisited, NextOnlyWritten, NextMarkedView,
       NextCountedView DEF ViewInv, TableInv, Views
  <2>2. CASE UNCHANGED vars
    <3>1. UNCHANGED <<tables, job, root_of, reused, unwritten, writer, batch, result_queue, handled, row>>
      BY <2>2 DEF vars, walk_vars, export_vars, queue_vars, writer_vars, scan_vars, registry_vars,
         start_vars, history_vars
    <3>2. Jobs'
      BY <3>1 DEF Jobs, Scope
    <3>3. Views'
      BY <3>1 DEF Views, OnTheWay, OnlyVisited, OnlyWritten, MarkedView, CountedView, Marked, Items,
         Pending, Written, Found, visited, sentinel, tables
    <3> QED
      BY <3>2, <3>3
  <2> QED
    BY <2>1, <2>2
<1> QED
  BY <1>1, <1>2, TableInvariance, PTL DEF SafeSpec, ViewInv

-----------------------------------------------------------------------------
\* While the sentinel of a scan is handled, what the scan visited is written.
LEMMA AllWritten ==
  ASSUME ViewInv, writer \in Finalizing, sentinel.id \notin unwritten
  PROVE  /\ sentinel.id \in DOMAIN root_of /\ row[1].root = root_of[sentinel.id]
         /\ root_of[sentinel.id] \in Paths
         /\ visited(sentinel.id) \subseteq Scope(root_of[sentinel.id])
         /\ \A p \in visited(sentinel.id) : Written(sentinel.id, p)
<1>0. /\ Types /\ Thread /\ Progress /\ Ordered /\ Jobs /\ OnTheWay
      /\ writer # "dead" /\ writer \notin {"pop", "dead"}
  BY DEF ViewInv, TableInv, Views, ExportInv, Finalizing
<1>1. /\ sentinel.id \in DOMAIN root_of /\ row[1].root = root_of[sentinel.id]
      /\ root_of[sentinel.id] \in Paths /\ handled # <<>>
  BY <1>0 DEF Progress, Types, Thread
<1>2. visited(sentinel.id) \subseteq Scope(root_of[sentinel.id])
  BY <1>0, <1>1 DEF Jobs, visited
<1>3. \A p \in visited(sentinel.id) : Pending(sentinel.id, p) \/ Written(sentinel.id, p)
  BY <1>0, <1>1 DEF OnTheWay
<1>4. \A e \in Items : e.id # sentinel.id
  <2>1. batch = <<>>
    BY <1>0 DEF Ordered
  <2> QED
    BY <1>0, <1>1, <2>1 DEF Ordered, Items, ToSet
<1> QED
  BY <1>1, <1>2, <1>3, <1>4 DEF Pending

(* Whenever a cancel, a stop, a database error or a restart comes: a path  *)
(* leaves the index only by mark_deleted() of a scan that skipped no node  *)
(* and did not see it.  What a scan did see is in the index, with its id,  *)
(* when mark_deleted() compares ids, since the queue keeps the order of    *)
(* the events and the sentinel, and no other scan writes below its root;   *)
(* unless one of the scan's statements failed (step_write_done()).         *)
THEOREM DeletesOnlyUnseen == SafeSpec => NothingDeletedUnseen
<1> DEFINE unseen ==
      \A p \in DOMAIN index_current \ DOMAIN index_current' :
        /\ sentinel.id \notin truncated \ late
        /\ p \in visited(sentinel.id) => sentinel.id \in unwritten
<1>1. ASSUME ViewInv, Next PROVE unseen
  <2> SUFFICES ASSUME NEW p \in DOMAIN index_current \ DOMAIN index_current'
               PROVE  /\ sentinel.id \notin truncated \ late
                      /\ p \in visited(sentinel.id) => sentinel.id \in unwritten
    OBVIOUS
  <2>0. ExportInv
    BY <1>1 DEF ViewInv, TableInv
  <2>1. /\ writer = "mark"
        /\ delete_unvisited(sentinel.id, row[1].root, sentinel.canceled)
    <3>1. ASSUME NEW events \in Seq(Events), BatchWritten(events) PROVE FALSE
      BY <3>1 DEF BatchWritten
    <3>2. ~UNCHANGED index_current
      OBVIOUS
    <3>3. Finalizes(sentinel.id)
      BY <1>1, <2>0, <3>1, <3>2, TableSteps DEF tables
    <3> QED
      BY <3>2, <3>3 DEF Finalizes, insert_scan, mark_deleted_partly, find_scan_diff_partly,
         write_diff, set_count, tables
  <2>2. ~sentinel.canceled /\ p \in unvisited(sentinel.id, row[1].root)
    BY <2>1 DEF delete_unvisited, Restrict
  <2>3. sentinel.id \notin truncated \ late
    BY <2>0, <2>1, <2>2 DEF ExportInv, Thread, Finalizing, Flags, CutOff
  <2>4. p \in visited(sentinel.id) => sentinel.id \in unwritten
    BY <1>1, <2>1, <2>2, AllWritten DEF Written, unvisited, Finalizing
  <2> QED
    BY <2>3, <2>4
<1>2. ViewInv /\ [Next]_vars => [unseen]_vars
  BY <1>1
<1> QED
  BY <1>2, ViewInvariance, PTL DEF SafeSpec, NothingDeletedUnseen

(* After mark_deleted() of a scan that was not canceled, index_current is, *)
(* below its root, what the scan visited: nothing older is kept, nothing   *)
(* of it is missing, whatever batches and other scans were written with it,*)
(* and whatever became of the statements of other scans.                   *)
THEOREM CompleteScanIsTheView == SafeSpec => []CompleteViewIsExact
<1>1. ViewInv => CompleteViewIsExact
  <2> SUFFICES ASSUME ViewInv, Marked, ~sentinel.canceled,
                      sentinel.id \notin reused \cup unwritten
               PROVE  /\ descendants[row[1].root] \cap DOMAIN index_current
                           = visited(sentinel.id) \ {row[1].root}
                      /\ \A p \in visited(sentinel.id) :
                           p \in DOMAIN index_current /\ index_current[p].id = sentinel.id
    BY DEF CompleteViewIsExact
  <2>1. /\ sentinel.id \in DOMAIN root_of /\ row[1].root = root_of[sentinel.id]
        /\ row[1].root \in Paths
        /\ visited(sentinel.id) \subseteq Scope(row[1].root)
        /\ \A p \in visited(sentinel.id) :
             p \in DOMAIN index_current /\ index_current[p].id = sentinel.id
    BY AllWritten DEF Marked, Finalizing, Written
  <2>2. /\ descendants[row[1].root] = Below[row[1].root]
        /\ Scope(row[1].root) = {row[1].root} \cup Below[row[1].root]
        /\ row[1].root \notin Below[row[1].root]
    BY <2>1, PatternMatchesTree, Scopes
  <2>3. \A p \in Below[row[1].root] \cap DOMAIN index_current : p \in visited(sentinel.id)
    BY <2>1 DEF ViewInv, Views, MarkedView, OnlyWritten
  <2> QED
    BY <2>1, <2>2, <2>3
<1> QED
  BY <1>1, ViewInvariance, PTL

(* The counters of a finished scan, which upsert_count() takes from        *)
(* index_current by scan id, are those of the nodes that it visited, when  *)
(* no statement of the scan failed.                                        *)
THEOREM CountersAreOfTheScan == SafeSpec => []CountIsExact
<1>1. ViewInv => CountIsExact
  <2> SUFFICES ASSUME ViewInv, writer = "publish", sentinel.id \notin reused \cup unwritten
               PROVE  scan_task_table[sentinel.id].count
                        = Cardinality({p \in visited(sentinel.id) : index_current[p].fp # 0})
    BY DEF CountIsExact
  <2>1. /\ sentinel.id \in DOMAIN root_of
        /\ \A p \in visited(sentinel.id) :
             p \in DOMAIN index_current /\ index_current[p].id = sentinel.id
    BY AllWritten DEF Finalizing, Written
  <2>2. \A p \in DOMAIN index_current :
          index_current[p].id = sentinel.id => p \in visited(sentinel.id)
    BY <2>1 DEF ViewInv, Views, OnlyWritten
  <2>3. Found(sentinel.id) = {p \in visited(sentinel.id) : index_current[p].fp # 0}
    BY <2>1, <2>2 DEF Found
  <2> QED
    BY <2>3 DEF ViewInv, Views, CountedView
<1> QED
  BY <1>1, ViewInvariance, PTL

-----------------------------------------------------------------------------
(* A scan of a tree that nobody changes *)

\* The tree was not changed below the root, and no node was skipped.
Still(id) == id \notin disturbed \cup truncated

\* What a scan has found out of the tree, in its jobs, its events and its rows.
JobsMirror(id) ==
  /\ job[id][root_of[id]] # "none"
  /\ \A p \in Paths : job[id][p] # "none" => tree[p] # 0
  /\ \A p \in Paths : job[id][p] = "finished" =>
       \A q \in Children[p] : tree[q] # 0 => job[id][q] # "none"
EventsMirror(id) ==
  \A e \in Items : ~e.sentinel /\ e.id = id => e.fp = tree[e.path] /\ ~e.err
RowsMirror(id) ==
  id \notin reused => \A p \in DOMAIN index_current :
    index_current[p].id = id => index_current[p].fp = tree[p] /\ index_current[p].state = "Alive"

Mirror ==
  /\ Grown(tree)
  /\ \A id \in ScanIds : \A p \in Paths : job[id][p] = "dropped" => id \in truncated
  /\ \A id \in DOMAIN root_of : Still(id) => JobsMirror(id) /\ EventsMirror(id) /\ RowsMirror(id)

MirrorInv == ViewInv /\ Mirror

\* What a step leaves of a scan that stays undisturbed.
LEMMA StillSteps ==
  ASSUME ViewInv, Next, NEW id \in DOMAIN root_of, id \in DOMAIN root_of', Still(id)'
  PROVE  /\ Still(id) /\ root_of'[id] = root_of[id]
         /\ \A p \in Scope(root_of[id]) : tree'[p] = tree[p]
         /\ \/ job'[id] = job[id]
            \/ /\ tree' = tree
               /\ \E p \in Paths : visit_node(id, p) \/ finish_node(id, p)
<1>0. /\ ExportInv /\ Jobs /\ Types /\ Thread /\ Progress /\ id \in ScanIds /\ root_of[id] \in Paths
      /\ root_of'[id] = root_of[id]
  <2>1. ExportInv /\ Jobs /\ Types /\ Thread /\ Progress
    BY DEF ViewInv, TableInv, ExportInv
  <2> QED
    BY <2>1, VisitedStays DEF Types
<1>c. Control
  BY <1>0, Controls
<1>1. ASSUME NEW i \in ScanIds, NEW q \in Paths, start_scan(i, q) \/ stop_pool_before(i, q)
      PROVE  Still(id) /\ job'[id] = job[id] /\ tree' = tree
  <2>1. i \notin DOMAIN root_of /\ \A j \in ScanIds : j # i => job'[j] = job[j]
    BY <1>0, <1>1, Begins
  <2>2. tree' = tree /\ disturbed' = disturbed /\ truncated \subseteq truncated'
    BY <1>1 DEF start_scan, start_walk, stop_pool_before, stop_before
  <2> QED
    BY <1>0, <2>1, <2>2 DEF Still
<1>2. ASSUME NEW i \in ScanIds, NEW q \in Paths, visit_node(i, q) \/ finish_node(i, q)
      PROVE  /\ Still(id) /\ tree' = tree
             /\ job'[id] = job[id] \/ i = id
  BY <1>0, <1>2, WalkSteps DEF Still
<1>3. ASSUME NEW q \in Paths, tree_changes(q)
      PROVE  /\ Still(id) /\ job'[id] = job[id]
             /\ \A p \in Scope(root_of[id]) : tree'[p] = tree[p]
  <2>1. /\ job' = job /\ truncated' = truncated
        /\ disturbed' = disturbed \cup {i \in DOMAIN root_of : q \in Scope(root_of[i])}
        /\ \E fp \in Fingerprints : tree' = [tree EXCEPT ![q] = fp]
    BY <1>3 DEF tree_changes, change_tree
  <2>2. q \notin Scope(root_of[id])
    BY <2>1 DEF Still
  <2> QED
    BY <1>0, <2>1, <2>2 DEF Still, Types
<1>4. CASE export_done
  <2>1. /\ handled # <<>>
        /\ job' = [job EXCEPT ![sentinel.id] = NoJobs]
        /\ root_of' = Restrict(root_of, DOMAIN root_of \ {sentinel.id})
        /\ disturbed' = disturbed \ {sentinel.id} /\ truncated' = truncated \ {sentinel.id}
        /\ tree' = tree
    BY <1>0, <1>4 DEF export_done, finalize_publishes, Thread, Finalizing
  <2>2. id # sentinel.id
    BY <2>1 DEF Restrict
  <2> QED
    BY <1>0, <2>1, <2>2 DEF Still, Types
<1>5. CASE restart
  BY <1>5 DEF restart, EmptyTable
<1>6. ASSUME NEW i \in ScanIds,
             cancel_scan(i) \/ flag_sentinel(i) \/ push_sentinel(i) \/ hand_over_row(i)
      PROVE  UNCHANGED <<disturbed, truncated, tree, job>>
  BY <1>6 DEF cancel_scan, flag_sentinel, push_sentinel, hand_over_row, walk_vars
<1>7. CASE stop_pool \/ stop_exporting \/ Writing \/ database_fails
  <2>1. UNCHANGED <<disturbed, truncated, tree, job>>
    BY <1>7 DEF stop_pool, stop_walks, stop_exporting, Writing, database_fails, walk_vars
  <2> QED
    BY <1>0, <2>1 DEF Still
<1>8. ASSUME UNCHANGED <<disturbed, truncated, tree, job>>
      PROVE  Still(id) /\ job'[id] = job[id] /\ tree' = tree
  BY <1>8 DEF Still
<1> QED
  BY <1>0, <1>c, <1>1, <1>2, <1>3, <1>4, <1>5, <1>6, <1>7, <1>8 DEF Control

\* What a scan is when it has just started.
LEMMA StillStarts ==
  ASSUME ViewInv, Next, NEW id \in DOMAIN root_of', id \notin DOMAIN root_of, Still(id)'
  PROVE  /\ root_of'[id] \in Paths /\ job'[id][root_of'[id]] # "none" /\ tree[root_of'[id]] # 0
         /\ \A p \in Paths : p # root_of'[id] => job'[id][p] = "none"
         /\ job'[id][root_of'[id]] # "finished"
         /\ tree' = tree /\ UNCHANGED <<index_current, result_queue, batch>>
         /\ id \in UsedIds => id \in reused'
<1>0. ExportInv /\ Jobs /\ Types /\ Progress /\ Thread
  BY DEF ViewInv, TableInv, ExportInv
<1>1. PICK p \in Paths : start_scan(id, p) \/ stop_pool_before(id, p)
  BY <1>0, RootSteps
<1>2. id \in ScanIds /\ UNCHANGED tables /\ (id \in UsedIds => id \in reused')
  BY <1>0, RootSteps
<1>3. /\ root_of' = Put(id, p, root_of) /\ job'[id][p] \in {"waiting", "dropped"}
      /\ \A q \in Paths : q # p => job'[id][q] = job[id][q]
  BY ZenonT(30), <1>0, <1>1, <1>2, Begins
<1>4. root_of'[id] = p
  BY <1>3 DEF Put
<1>5. \A q \in Paths : q # p => job'[id][q] = "none"
  BY <1>0, <1>2, <1>3 DEF Jobs
<1>6. tree' = tree /\ tree[p] # 0 /\ UNCHANGED <<result_queue, batch>>
  BY <1>1 DEF start_scan, stop_pool_before, begin, start_walk, stop_before, export_vars, queue_vars,
     writer_vars
<1> QED
  BY <1>2, <1>3, <1>4, <1>5, <1>6 DEF tables

LEMMA NextJobsMirror ==
  ASSUME MirrorInv, Next, NEW id \in DOMAIN root_of', Still(id)'
  PROVE  JobsMirror(id)'
<1>0. /\ ViewInv /\ Mirror /\ ExportInv /\ Jobs /\ Types
      /\ DOMAIN root_of \subseteq ScanIds
  BY DEF MirrorInv, ViewInv, TableInv, ExportInv, Types
<1>1. CASE id \notin DOMAIN root_of
  <2>1. /\ job'[id][root_of'[id]] # "none" /\ tree'[root_of'[id]] # 0
        /\ \A p \in Paths : p # root_of'[id] => job'[id][p] = "none"
        /\ job'[id][root_of'[id]] # "finished"
    BY <1>0, <1>1, StillStarts
  <2> QED
    BY <2>1 DEF JobsMirror
<1>2. CASE id \in DOMAIN root_of
  <2>0. /\ Still(id) /\ root_of'[id] = root_of[id] /\ id \in ScanIds /\ root_of[id] \in Paths
        /\ \A p \in Scope(root_of[id]) : tree'[p] = tree[p]
        /\ job[id] \in [Paths -> JobState]
    BY <1>0, <1>2, StillSteps DEF Types
  <2>1. JobsMirror(id)
    BY <1>0, <1>2, <2>0 DEF Mirror
  <2>2. /\ \A p \in Paths : job[id][p] # "none" => p \in Scope(root_of[id])
        /\ \A p \in Scope(root_of[id]) : p \in Paths
        /\ \A p \in Scope(root_of[id]) : \A q \in Children[p] : q \in Scope(root_of[id])
    BY <1>0, <1>2, <2>0, Scopes DEF Jobs
  <2>3. CASE job'[id] = job[id]
    BY <2>0, <2>1, <2>2, <2>3 DEF JobsMirror
  <2>4. ASSUME NEW p \in Paths, visit_node(id, p), tree' = tree
        PROVE  JobsMirror(id)'
    <3>1. PICK s \in {"reading", "finished"} :
            /\ job' = [job EXCEPT ![id][p] = s]
            /\ s = "finished" /\ id \notin disturbed' /\ tree[p] # 0 => Children[p] = {}
      BY <1>0, <2>0, <2>4, Visits
    <3>2. job[id][p] = "waiting" /\ job'[id] = [job[id] EXCEPT ![p] = s]
      BY <1>0, <2>0, <2>4, <3>1, Visits DEF Types
    <3>3. id \notin disturbed' /\ tree[p] # 0
      BY <2>1, <3>2 DEF Still, JobsMirror
    <3>4. /\ \A q \in Paths : job'[id][q] = IF q = p THEN s ELSE job[id][q]
          /\ s = "finished" => Children[p] = {}
      BY <2>0, <3>1, <3>2, <3>3
    <3>5. \A q \in Paths : job'[id][q] = "none" <=> job[id][q] = "none"
      BY <3>2, <3>4
    <3>6. /\ job'[id][root_of'[id]] # "none"
          /\ \A q \in Paths : job'[id][q] # "none" => tree'[q] # 0
      BY <2>0, <2>1, <2>4, <3>5 DEF JobsMirror
    <3>7. ASSUME NEW q \in Paths, job'[id][q] = "finished", NEW c \in Children[q], tree'[c] # 0
          PROVE  job'[id][c] # "none"
      BY <2>1, <2>4, <3>4, <3>5, <3>7, TreeAssumption DEF JobsMirror
    <3> QED
      BY <3>6, <3>7 DEF JobsMirror
  <2>5. ASSUME NEW p \in Paths, finish_node(id, p), tree' = tree
        PROVE  JobsMirror(id)'
    <3>1. id \notin truncated' /\ id \notin disturbed'
      BY DEF Still
    <3>2. PICK kept \in SUBSET {q \in Children[p] : tree[q] # 0} :
            /\ job'[id] = Kept(id, p, kept) /\ kept = {q \in Children[p] : tree[q] # 0}
            /\ job[id][p] = "reading"
      <4>1. ~visit_node(id, p)
        BY <1>0, <2>0, <2>5, Visits DEF finish_node, skip_node, read_dir, visit_node
      <4> QED
        BY ZenonT(30), <1>0, <2>0, <2>5, <3>1, <4>1, WalkSteps
    <3>3. \A q \in Paths : job'[id][q] = IF q \in kept THEN "waiting"
                                         ELSE IF q = p THEN "finished" ELSE job[id][q]
      BY <3>2 DEF Kept
    <3>4. \A q \in Paths : job[id][q] # "none" => job'[id][q] # "none"
      BY <3>3
    <3>5. \A q \in Paths : job'[id][q] # "none" => tree[q] # 0
      BY <2>1, <3>2, <3>3 DEF JobsMirror
    <3>6. ASSUME NEW q \in Paths, job'[id][q] = "finished", NEW c \in Children[q], tree[c] # 0
          PROVE  job'[id][c] # "none"
      <4>0. c \in Paths
        BY TreeAssumption
      <4>1. q = p \/ job[id][q] = "finished"
        BY <3>3, <3>6
      <4>2. CASE q = p
        BY <3>2, <3>3, <3>6, <4>0, <4>2
      <4>3. CASE job[id][q] = "finished"
        BY <2>1, <3>4, <3>6, <4>0, <4>3 DEF JobsMirror
      <4> QED
        BY <4>1, <4>2, <4>3
    <3> QED
      BY <2>0, <2>1, <2>5, <3>4, <3>5, <3>6 DEF JobsMirror
  <2> QED
    BY <1>0, <1>2, <2>3, <2>4, <2>5, StillSteps
<1> QED
  BY <1>1, <1>2

LEMMA NextEventsMirror ==
  ASSUME MirrorInv, Next, NEW id \in DOMAIN root_of', Still(id)'
  PROVE  EventsMirror(id)'
<1>0. /\ ViewInv /\ Mirror /\ ExportInv /\ Ordered /\ Jobs /\ Types /\ OnlyVisited
      /\ DOMAIN root_of \subseteq ScanIds
  BY DEF MirrorInv, ViewInv, TableInv, ExportInv, Types, Views
<1> SUFFICES ASSUME NEW e \in Items', ~e.sentinel, e.id = id
             PROVE  e.fp = tree'[e.path] /\ ~e.err
  BY DEF EventsMirror
<1>1. CASE e \in Items
  <2>1. id \in DOMAIN root_of /\ e.path \in visited(id)
    BY <1>0, <1>1, ItemIds DEF OnlyVisited
  <2>2. Still(id) /\ tree'[e.path] = tree[e.path]
    <3>1. e.path \in Scope(root_of[id])
      BY <1>0, <2>1 DEF Jobs, visited
    <3> QED
      BY <1>0, <2>1, <3>1, StillSteps
  <2> QED
    BY <1>0, <1>1, <2>1, <2>2 DEF Mirror, EventsMirror
<1>2. CASE e \notin Items
  <2>1. PICK i \in ScanIds, p \in Paths : visit_node(i, p)
    BY <1>0, <1>2, ItemsCome
  <2>2. PICK pushed \in Events : Pushes(i, p, pushed)
    BY <1>0, <2>1, VisitPushes
  <2>3. /\ e = pushed /\ i = id /\ e.path = p /\ e.fp = tree[p]
        /\ e.err => tree[p] = 0 \/ id \in disturbed'
        /\ root_of' = root_of
    BY <1>2, <2>2 DEF Pushes
  <2>4. job[id][p] = "waiting" /\ Still(id) /\ tree' = tree
    <3>1. job[id][p] = "waiting" /\ tree' = tree
      BY <1>0, <2>1, <2>3, Visits, WalkSteps
    <3> QED
      BY <1>0, <2>3, <3>1, StillSteps
  <2>5. tree[p] # 0 /\ id \notin disturbed'
    BY <1>0, <2>3, <2>4 DEF Mirror, JobsMirror, Still
  <2> QED
    BY <2>3, <2>4, <2>5
<1> QED
  BY <1>1, <1>2

LEMMA NextRowsMirror ==
  ASSUME MirrorInv, Next, NEW id \in DOMAIN root_of', Still(id)'
  PROVE  RowsMirror(id)'
<1>0. /\ ViewInv /\ Mirror /\ ExportInv /\ Ordered /\ Jobs /\ Types /\ OnlyVisited /\ OnlyWritten
      /\ DOMAIN root_of \subseteq ScanIds
  BY DEF MirrorInv, ViewInv, TableInv, ExportInv, Types, Views
<1> SUFFICES ASSUME id \notin reused', NEW p \in DOMAIN index_current', index_current'[p].id = id
             PROVE  index_current'[p].fp = tree'[p] /\ index_current'[p].state = "Alive"
  BY DEF RowsMirror
<1>1. id \in ScanIds /\ id \notin reused
  BY <1>0, RootSteps
<1>2. id \in DOMAIN root_of
  <2> SUFFICES ASSUME id \notin DOMAIN root_of PROVE FALSE
    OBVIOUS
  <2>1. UNCHANGED index_current /\ id \notin UsedIds
    BY <1>0, StillStarts
  <2> QED
    BY <2>1 DEF UsedIds
<1>3. /\ Still(id) /\ \A q \in Scope(root_of[id]) : tree'[q] = tree[q]
  BY <1>0, <1>2, StillSteps
<1>4. \A q \in visited(id) : q \in Scope(root_of[id])
  BY <1>0, <1>2 DEF Jobs, visited
<1>5. ASSUME p \in DOMAIN index_current, index_current'[p] = index_current[p]
      PROVE  index_current'[p].fp = tree'[p] /\ index_current'[p].state = "Alive"
  <2>1. index_current[p].fp = tree[p] /\ index_current[p].state = "Alive"
    BY <1>0, <1>1, <1>2, <1>3, <1>5 DEF Mirror, RowsMirror
  <2>2. p \in Scope(root_of[id])
    BY <1>0, <1>1, <1>2, <1>4, <1>5 DEF OnlyWritten
  <2> QED
    BY <1>3, <1>5, <2>1, <2>2
<1>6. ASSUME NEW events \in Seq(Events), BatchWritten(events), ToSet(events) \subseteq Items
      PROVE  index_current'[p].fp = tree'[p] /\ index_current'[p].state = "Alive"
  <2>1. \/ \E e \in ToSet(events) : e.path = p /\ index_current'[p] = EventRow(e)
        \/ p \in DOMAIN index_current /\ index_current'[p] = index_current[p]
    BY <1>6 DEF BatchWritten
  <2>2. ASSUME NEW e \in ToSet(events), e.path = p, index_current'[p] = EventRow(e)
        PROVE  index_current'[p].fp = tree'[p] /\ index_current'[p].state = "Alive"
    <3>1. e \in Items /\ e \in Events /\ ~e.sentinel
      BY <1>6, Sets DEF ToSet
    <3>2. e.id = id /\ index_current'[p].fp = e.fp
      BY <2>2 DEF EventRow
    <3>3. p \in visited(id)
      BY <1>0, <2>2, <3>1, <3>2 DEF OnlyVisited
    <3>4. e.fp = tree[p] /\ ~e.err
      BY <1>0, <1>2, <1>3, <2>2, <3>1, <3>2 DEF Mirror, EventsMirror
    <3>5. index_current'[p].state = "Alive"
      BY <2>2, <3>4 DEF EventRow
    <3> QED
      BY <1>3, <1>4, <3>2, <3>3, <3>4, <3>5
  <2> QED
    BY <1>5, <2>1, <2>2
<1>7. CASE Finalizes(sentinel.id)
  BY <1>5, <1>7 DEF Finalizes, insert_scan, mark_deleted_partly, delete_unvisited,
     find_scan_diff_partly, write_diff, set_count, tables, Restrict
<1>8. CASE UNCHANGED tables
  BY <1>5, <1>8 DEF tables
<1> QED
  BY <1>0, <1>6, <1>7, <1>8, TableSteps

-----------------------------------------------------------------------------
LEMMA NextMirror == MirrorInv /\ Next => Mirror'
<1> SUFFICES ASSUME MirrorInv, Next PROVE Mirror'
  OBVIOUS
<1>0. /\ ViewInv /\ Mirror /\ ExportInv /\ Jobs /\ Types /\ Thread /\ Progress
      /\ DOMAIN root_of \subseteq ScanIds
  BY DEF MirrorInv, ViewInv, TableInv, ExportInv, Types
<1>c. Control
  BY <1>0, Controls
<1>1. \A id \in DOMAIN root_of' : Still(id)' => JobsMirror(id)' /\ EventsMirror(id)' /\ RowsMirror(id)'
  BY NextJobsMirror, NextEventsMirror, NextRowsMirror
<1> DEFINE NoneDropped == \A id \in ScanIds : \A p \in Paths : job[id][p] = "dropped" => id \in truncated
<1>2. Grown(tree') /\ NoneDropped'
  <2>0. Grown(tree) /\ NoneDropped
    BY <1>0 DEF Mirror
  <2>1. ASSUME NEW i \in ScanIds, NEW q \in Paths, start_scan(i, q) \/ stop_pool_before(i, q)
        PROVE  Grown(tree') /\ NoneDropped'
    <3>1. /\ \A j \in ScanIds : j # i => job'[j] = job[j]
          /\ \A c \in Paths : c # q => job'[i][c] = job[i][c]
          /\ job'[i][q] = "waiting" => UNCHANGED truncated
          /\ job'[i][q] = "dropped" => truncated' = truncated \cup {i}
          /\ job'[i][q] \in {"waiting", "dropped"}
      BY ZenonT(30), <1>0, <2>1, Begins
    <3>2. tree' = tree
      BY <2>1 DEF start_scan, start_walk, stop_pool_before, stop_before
    <3>3. truncated \subseteq truncated' /\ (job'[i][q] = "dropped" => i \in truncated')
      BY <3>1
    <3>4. ASSUME NEW j \in ScanIds, NEW c \in Paths, job'[j][c] = "dropped" PROVE j \in truncated'
      BY <2>0, <3>1, <3>3, <3>4
    <3> QED
      BY <2>0, <3>2, <3>4
  <2>2. ASSUME NEW i \in ScanIds, NEW q \in Paths, visit_node(i, q) \/ finish_node(i, q)
        PROVE  Grown(tree') /\ NoneDropped'
    <3>1. /\ \A j \in ScanIds : j # i => job'[j] = job[j]
          /\ \A c \in Paths : job'[i][c] = "dropped" => job[i][c] = "dropped"
          /\ tree' = tree
      BY <1>0, <2>2, Walked DEF visit_node, finish_node
    <3>2. truncated \subseteq truncated'
      BY <1>0, <2>2, WalkSteps
    <3> QED
      BY <2>0, <3>1, <3>2
  <2>3. CASE \E p \in Paths : tree_changes(p)
    BY <2>0, <2>3 DEF tree_changes, change_tree
  <2>4. CASE export_done
    <3>1. /\ job' = [job EXCEPT ![sentinel.id] = NoJobs] /\ truncated' = truncated \ {sentinel.id}
          /\ tree' = tree
      BY <2>4 DEF export_done
    <3> QED
      BY <1>0, <2>0, <3>1 DEF Types, NoJobs
  <2>5. CASE restart
    BY <2>0, <2>5 DEF restart, NoJobs
  <2>6. ASSUME NEW i \in ScanIds,
               cancel_scan(i) \/ flag_sentinel(i) \/ push_sentinel(i) \/ hand_over_row(i)
        PROVE  UNCHANGED <<truncated, tree, job>>
    BY <2>6 DEF cancel_scan, flag_sentinel, push_sentinel, hand_over_row, walk_vars
  <2>7. CASE stop_pool \/ stop_exporting \/ Writing \/ database_fails
    <3>1. UNCHANGED <<truncated, tree, job>>
      BY <2>7 DEF stop_pool, stop_walks, stop_exporting, Writing, database_fails, walk_vars
    <3> QED
      BY <2>0, <3>1
  <2>8. ASSUME UNCHANGED <<truncated, tree, job>> PROVE Grown(tree') /\ NoneDropped'
    BY <2>0, <2>8
  <2> QED
    BY <1>c, <2>1, <2>2, <2>3, <2>4, <2>5, <2>6, <2>7, <2>8 DEF Control
<1> QED
  BY <1>1, <1>2 DEF Mirror

LEMMA MirrorInvariance == SafeSpec => []MirrorInv
<1>1. Init => Mirror
  BY DEF Init, TreeInit, EmptyTable, Mirror, NoJobs
<1>2. ViewInv /\ Mirror /\ [Next]_vars => Mirror'
  <2> SUFFICES ASSUME ViewInv, Mirror, [Next]_vars PROVE Mirror'
    OBVIOUS
  <2>1. CASE Next
    BY <2>1, NextMirror DEF MirrorInv
  <2>2. CASE UNCHANGED vars
    <3>1. UNCHANGED <<tables, tree, job, truncated, disturbed, root_of, reused, batch, result_queue>>
      BY <2>2 DEF vars, walk_vars, export_vars, queue_vars, writer_vars, scan_vars, registry_vars,
         start_vars, history_vars
    <3> QED
      BY <3>1 DEF Mirror, Still, JobsMirror, EventsMirror, RowsMirror, Items, tables
  <2> QED
    BY <2>1, <2>2
<1> QED
  BY <1>1, <1>2, ViewInvariance, PTL DEF SafeSpec, MirrorInv

\* A scan that went undisturbed to its end has visited every node, since it
\* has its root and, with a directory, its entries.
LEMMA SawEverything ==
  ASSUME MirrorInv, NEW id \in DOMAIN root_of, Still(id), ~walking(id),
         NEW p \in Scope(root_of[id]), tree[p] # 0
  PROVE  job[id][p] = "finished"
<1> DEFINE root == root_of[id]
<1>0. /\ id \in ScanIds /\ root \in Paths /\ Grown(tree) /\ JobsMirror(id)
      /\ job[id] \in [Paths -> JobState]
      /\ \A q \in Paths : job[id][q] # "none" => job[id][q] = "finished"
  <2>1. id \in ScanIds /\ root \in Paths /\ job[id] \in [Paths -> JobState]
    BY DEF MirrorInv, ViewInv, TableInv, ExportInv, Types
  <2>2. Grown(tree) /\ JobsMirror(id) /\ \A q \in Paths : job[id][q] # "dropped"
    BY <2>1 DEF MirrorInv, Mirror, Still
  <2>3. \A q \in Paths : job[id][q] \in JobState /\ job[id][q] \notin {"waiting", "reading"}
    BY <2>1 DEF walking
  <2> QED
    BY <2>1, <2>2, <2>3 DEF JobState
<1>1. PICK M \in Nat : \A q \in Paths : Len(TextOf[q]) <= M
  BY LongestText
<1> DEFINE Good == {k \in 0 .. M : \A q \in Scope(root) :
                      Len(TextOf[q]) <= k /\ tree[q] # 0 => job[id][q] = "finished"}
<1>2. Scope(root) = {root} \cup Below[root] /\ Scope(root) \subseteq Paths
  BY <1>0, Scopes
<1>3. \A q \in Paths : Len(TextOf[q]) \in Nat \ {0}
  BY TextsOfPaths
<1>4. 0 \in Good
  BY <1>1, <1>2, <1>3
<1>5. ASSUME NEW k \in 0 .. M - 1, k \in Good PROVE k + 1 \in Good
  <2> SUFFICES ASSUME NEW q \in Scope(root), Len(TextOf[q]) <= k + 1, tree[q] # 0
               PROVE  job[id][q] = "finished"
    BY <1>1
  <2>1. CASE q = root
    BY <1>0, <2>1 DEF JobsMirror
  <2>2. CASE q \in Below[root]
    <3>1. PICK dir \in Paths : q \in Children[dir]
      <4>1. IsPrefix(TextOf[root] \o <<Slash>>, TextOf[q])
        BY <1>0, <1>2, <2>2, BelowIs, Slashed, TextsOfPaths
      <4> QED
        BY <1>0, <1>2, <4>1, TreeAssumption
    <3>2. dir \in Scope(root)
      BY <1>0, <1>2, <2>2, <3>1, DirectoryBetween
    <3>3. tree[dir] # 0
      BY <1>0, <1>2, <3>1 DEF Grown
    <3>4. Len(TextOf[dir]) < Len(TextOf[q])
      BY <3>1, EntryIsBelow, BelowIsLonger
    <3>5. Len(TextOf[dir]) <= k
      BY <1>2, <1>3, <3>4
    <3>6. job[id][dir] = "finished"
      BY <1>5, <3>2, <3>3, <3>5
    <3> QED
      BY <1>0, <1>2, <3>1, <3>6 DEF JobsMirror
  <2> QED
    BY <1>2, <2>1, <2>2
<1> HIDE DEF Good
<1>6. \A k \in 0 .. M : k \in Good
  BY <1>4, <1>5, StepByStep
<1>7. M \in Good
  BY <1>6
<1> QED
  BY <1>1, <1>2, <1>7 DEF Good

(* If nobody changes the tree, it can be read, and the scan is not         *)
(* canceled and none of its statements fails, the index below its root is  *)
(* the tree: with every node that exists and no other, and with its        *)
(* fingerprint.                                                            *)
THEOREM QuietScanIsTheTree == SafeSpec => []QuietScanMirrorsTree
<1>1. MirrorInv => QuietScanMirrorsTree
  <2> DEFINE root == row[1].root
  <2> SUFFICES ASSUME MirrorInv, Marked, ~sentinel.canceled,
                      sentinel.id \notin reused \cup disturbed \cup late \cup unwritten
               PROVE  /\ Scope(root) \cap DOMAIN index_current = {p \in Scope(root) : tree[p] # 0}
                      /\ \A p \in Scope(root) \cap DOMAIN index_current :
                           index_current[p].fp = tree[p] /\ index_current[p].state = "Alive"
    BY DEF QuietScanMirrorsTree
  <2> DEFINE id == sentinel.id
  <2>0. /\ ViewInv /\ Mirror /\ Jobs /\ Progress /\ Thread /\ Flags /\ writer \in Finalizing
        /\ MarkedView /\ OnlyWritten /\ sentinel.id \notin unwritten
    BY DEF MirrorInv, ViewInv, TableInv, ExportInv, Views, Marked, Finalizing
  <2>1. /\ id \in DOMAIN root_of /\ root = root_of[id] /\ root \in Paths /\ id \in ScanIds
        /\ \A p \in visited(id) : p \in DOMAIN index_current /\ index_current[p].id = id
    BY <2>0, AllWritten DEF Written, ViewInv, TableInv, ExportInv, Types
  <2>2. ~walking(id)
    BY <2>0, <2>1 DEF Progress
  <2>3. Still(id)
    BY <2>0 DEF Flags, CutOff, Thread, Still
  <2>4. JobsMirror(id) /\ RowsMirror(id) /\ id \notin reused
    BY <2>0, <2>1, <2>3 DEF Mirror
  <2>5. Scope(root) = {root} \cup Below[root] /\ Scope(root) \subseteq Paths
    BY <2>1, Scopes
  <2>6. \A p \in Scope(root) : tree[p] # 0 => p \in visited(id)
    BY <2>1, <2>2, <2>3, <2>5, SawEverything DEF visited
  <2>7. tree[root] # 0
    BY <2>1, <2>4 DEF JobsMirror
  <2>8. \A p \in visited(id) : p \in Paths /\ tree[p] # 0
    BY <2>4 DEF JobsMirror, visited
  <2>9. \A p \in Below[root] \cap DOMAIN index_current : p \in visited(id)
    BY <2>0, <2>1, <2>4 DEF MarkedView, OnlyWritten
  <2> HIDE DEF root, id
  <2>10. \A p \in Scope(root) \cap DOMAIN index_current : p \in visited(id)
    BY <2>5, <2>6, <2>7, <2>9
  <2> QED
    BY <2>1, <2>4, <2>6, <2>8, <2>10 DEF RowsMirror
<1> QED
  BY <1>1, MirrorInvariance, PTL

-----------------------------------------------------------------------------
(* Each node that a scan visits has one event, and that is written once *)

SameNode(e, f) == ~e.sentinel /\ ~f.sentinel /\ e.id = f.id /\ e.path = f.path
OneEach(s) == \A i, j \in 1 .. Len(s) : i # j => ~SameNode(s[i], s[j])

OnlyOnce ==
  /\ OneEach(batch) /\ OneEach(result_queue)
  /\ \A e \in ToSet(batch), f \in ToSet(result_queue) : ~SameNode(e, f)
  /\ \A e \in ToSet(batch) : e.id \notin failed

PendingIsNew == \A e \in Items : ~e.sentinel => ~Written(e.id, e.path)

\* No id was drawn twice, and no statement has failed.
Unspoiled == reused = {} /\ unwritten = {}

\* Then the tables are written as a whole.
LEMMA RegularSteps ==
  ASSUME ExportInv, Next, Unspoiled'
  PROVE  /\ \/ UNCHANGED tables
            \/ pop_event \/ pop_sentinel \/ stop_writing
            \/ finalize_inserts \/ finalize_marks \/ finalize_diffs \/ finalize_counts
         /\ Marked' => \/ finalize_marks \/ finalize_diffs \/ finalize_counts
                       \/ UNCHANGED <<writer, handled, row, tables>>
<1>1. ~statements_fail
  BY UnwrittenStays DEF Unspoiled
<1>2. CASE write_results
  BY <1>2 DEF write_results, get_scan_task, get_scan_task_throws, Marked, pop_event, take_event,
     pop_sentinel, take_sentinel, stop_writing, finish_writing, finalize_inserts, finalize_step
<1>3. CASE ~write_results
  <2>1. UNCHANGED tables /\ (UNCHANGED writer \/ writer' \notin Recording)
    BY <1>1, <1>3, OtherSteps
  <2>2. ~finalized
    BY <2>1 DEF finalized, finalize_step, Recording
  <2> HIDE DEF tables
  <2> QED
    BY <2>1, <2>2, MarkedSteps
<1> QED
  BY <1>2, <1>3

LEMMA AppendOnce ==
  ASSUME NEW S, NEW s \in Seq(S), NEW e \in S, OneEach(s), \A f \in ToSet(s) : ~SameNode(f, e)
  PROVE  OneEach(Append(s, e))
<1> DEFINE longer == Append(s, e)
<1>1. /\ Len(s) \in Nat /\ DOMAIN s = 1 .. Len(s)
      /\ Len(longer) = Len(s) + 1 /\ longer[Len(s) + 1] = e
      /\ \A i \in 1 .. Len(s) : longer[i] = s[i]
  BY AppendProperties, LenProperties
<1>2. \A i \in 1 .. Len(s) : ~SameNode(s[i], e) /\ ~SameNode(e, s[i])
  BY <1>1 DEF ToSet, SameNode
<1> HIDE DEF longer
<1>3. ASSUME NEW i \in 1 .. Len(longer), NEW j \in 1 .. Len(longer), i # j
      PROVE  ~SameNode(longer[i], longer[j])
  <2>1. /\ i \in 1 .. Len(s) \/ i = Len(s) + 1
        /\ j \in 1 .. Len(s) \/ j = Len(s) + 1
    BY <1>1
  <2>2. CASE i \in 1 .. Len(s) /\ j \in 1 .. Len(s)
    BY <1>1, <1>3, <2>2 DEF OneEach
  <2>3. CASE i \in 1 .. Len(s) /\ j = Len(s) + 1
    BY <1>1, <1>2, <2>3
  <2>4. CASE i = Len(s) + 1 /\ j \in 1 .. Len(s)
    BY <1>1, <1>2, <2>4
  <2> QED
    BY <1>3, <2>1, <2>2, <2>3, <2>4
<1> QED
  BY <1>3 DEF OneEach, longer

LEMMA TailOnce ==
  ASSUME NEW S, NEW s \in Seq(S), s # <<>>, OneEach(s)
  PROVE  OneEach(Tail(s)) /\ \A f \in ToSet(Tail(s)) : ~SameNode(Head(s), f) /\ ~SameNode(f, Head(s))
<1> DEFINE rest == Tail(s)
<1>1. /\ Len(s) \in Nat \ {0} /\ Len(rest) = Len(s) - 1 /\ Head(s) = s[1]
      /\ \A i \in 1 .. Len(rest) : rest[i] = s[i + 1]
      /\ DOMAIN rest = 1 .. Len(rest)
  BY HeadTailProperties, LenProperties, EmptySeq
<1> HIDE DEF rest
<1>2. \A i \in 1 .. Len(rest) : i + 1 \in 1 .. Len(s) /\ 1 # i + 1 /\ 1 \in 1 .. Len(s)
  BY <1>1
<1>3. ASSUME NEW i \in 1 .. Len(rest), NEW j \in 1 .. Len(rest), i # j
      PROVE  ~SameNode(rest[i], rest[j])
  <2>1. i + 1 \in 1 .. Len(s) /\ j + 1 \in 1 .. Len(s) /\ i + 1 # j + 1
    BY <1>2, <1>3
  <2> QED
    BY <1>1, <2>1 DEF OneEach
<1>4. OneEach(rest)
  BY <1>3 DEF OneEach
<1>5. ASSUME NEW f \in ToSet(rest) PROVE ~SameNode(Head(s), f) /\ ~SameNode(f, Head(s))
  <2>1. PICK i \in 1 .. Len(rest) : f = rest[i]
    BY <1>1 DEF ToSet
  <2> QED
    BY <1>1, <1>2, <2>1 DEF OneEach, SameNode
<1> QED
  BY <1>4, <1>5 DEF rest

\* A commit writes events of different nodes, none of them written before.
Fresh(events) ==
  /\ commit(events) /\ ToSet(events) \subseteq Items /\ writer = "pop"
  /\ OneEach(events)
  /\ \A e \in ToSet(events) : e.id \notin failed /\ \A f \in Items' : ~SameNode(e, f)

LEMMA FreshCommits ==
  ASSUME ExportInv, Ordered, OnlyOnce, pop_event \/ pop_sentinel \/ stop_writing
  PROVE  \/ UNCHANGED tables
         \/ \E events \in Seq(Events) : Fresh(events)
<1>0. /\ batch \in Seq(Events) /\ result_queue \in Seq(Events \cup Sentinels)
      /\ OneEach(batch) /\ OneEach(result_queue) /\ ToSet(batch) \subseteq Items
      /\ \A e \in ToSet(batch), f \in ToSet(result_queue) : ~SameNode(e, f)
      /\ \A e \in ToSet(batch) : e.id \notin failed
  BY DEF ExportInv, Types, ToSet, OnlyOnce, Items
<1>1. \A f : f \notin ToSet(<<>>)
  BY DEF ToSet
<1>2. CASE pop_event
  <2> DEFINE e == Head(result_queue)  events == Append(batch, e)
  <2>0. UNCHANGED tables \/ (commit(Append(batch, Head(result_queue))) /\ batch' = <<>>)
    BY <1>2 DEF pop_event
  <2>1. /\ result_queue # <<>> /\ ~e.sentinel /\ result_queue' = Tail(result_queue) /\ writer = "pop"
    BY <1>2 DEF pop_event, take_event
  <2>2. /\ ToSet(result_queue) = ToSet(Tail(result_queue)) \cup {e}
        /\ \A f \in ToSet(Tail(result_queue)) : ~SameNode(e, f)
    BY <1>0, <2>1, ItemsTail, TailOnce
  <2>3. e \in Events
    BY <1>0, <2>1, ItemsTail, Sets
  <2>4. /\ events \in Seq(Events) /\ ToSet(events) = ToSet(batch) \cup {e}
    BY <1>0, <2>3, AppendProperties, ItemsAppended
  <2>5. e.id \notin failed
    BY <2>2 DEF Ordered
  <2>6. \A f \in ToSet(batch) : ~SameNode(f, e)
    BY <1>0, <2>2
  <2> HIDE DEF e
  <2>7. OneEach(events)
    BY <1>0, <2>3, <2>6, AppendOnce
  <2> HIDE DEF events, tables
  <2>8. CASE commit(events) /\ batch' = <<>>
    <3>1. Items' = ToSet(Tail(result_queue))
      BY <1>1, <2>1, <2>8 DEF Items
    <3>2. ASSUME NEW f \in ToSet(events) PROVE f.id \notin failed /\ \A g \in Items' : ~SameNode(f, g)
      <4>1. CASE f = e
        BY <2>2, <2>5, <3>1, <4>1
      <4>2. CASE f \in ToSet(batch)
        BY <1>0, <2>2, <3>1, <4>2
      <4> QED
        BY <2>4, <4>1, <4>2
    <3>3. ToSet(events) \subseteq Items
      BY <1>0, <2>2, <2>4 DEF Items
    <3>4. Fresh(events)
      BY <2>1, <2>7, <2>8, <3>2, <3>3 DEF Fresh
    <3> QED
      BY <2>4, <3>4
  <2> QED
    BY <2>0, <2>8 DEF events, e
<1>3. CASE pop_sentinel \/ stop_writing
  <2>1. /\ commit(batch) /\ batch' = <<>> /\ writer = "pop"
        /\ \/ result_queue' = result_queue
           \/ result_queue # <<>> /\ result_queue' = Tail(result_queue)
    BY <1>3 DEF pop_sentinel, take_sentinel, stop_writing, finish_writing, commit_batch, queue_vars
  <2>2. ToSet(result_queue') \subseteq ToSet(result_queue)
    BY <1>0, <2>1, ItemsTail
  <2>3. Items' \subseteq ToSet(result_queue)
    BY <1>1, <2>1, <2>2 DEF Items
  <2>4. Fresh(batch)
    BY <1>0, <2>1, <2>3 DEF Fresh
  <2> QED
    BY <1>0, <2>4
<1> QED
  BY <1>2, <1>3

LEMMA NextOnlyOnce == ViewInv /\ OnlyOnce /\ Next => OnlyOnce'
<1> SUFFICES ASSUME ViewInv, OnlyOnce, Next PROVE OnlyOnce'
  OBVIOUS
<1>0. /\ ExportInv /\ Ordered /\ OnlyVisited /\ Types /\ Thread
      /\ batch \in Seq(Events) /\ result_queue \in Seq(Events \cup Sentinels)
      /\ OneEach(batch) /\ OneEach(result_queue)
      /\ \A e \in ToSet(batch), f \in ToSet(result_queue) : ~SameNode(e, f)
      /\ \A e \in ToSet(batch) : e.id \notin failed
  BY DEF ViewInv, TableInv, Views, ExportInv, Types, OnlyOnce
<1>c. Control
  BY <1>0, Controls
<1>e. (\A f : f \notin ToSet(<<>>)) /\ OneEach(<<>>)
  BY DEF ToSet, OneEach
<1>1. ASSUME UNCHANGED <<batch, result_queue, failed>> PROVE OnlyOnce'
  BY <1>0, <1>1 DEF OnlyOnce
<1>2. ASSUME UNCHANGED <<batch, failed>>, NEW e \in Events \cup Sentinels, push_result_queue(e),
             \A f \in Items : ~SameNode(f, e)
      PROVE  OnlyOnce'
  <2>1. result_queue' = result_queue \/ result_queue' = Append(result_queue, e)
    BY <1>2 DEF push_result_queue
  <2>2. CASE result_queue' = Append(result_queue, e)
    <3>1. ToSet(result_queue') = ToSet(result_queue) \cup {e}
      BY <1>0, <2>2, ItemsAppended
    <3>2. OneEach(result_queue')
      BY <1>0, <1>2, <2>2, AppendOnce DEF Items
    <3>3. \A f \in ToSet(batch) : ~SameNode(f, e)
      BY <1>2 DEF Items
    <3> QED
      BY <1>0, <1>2, <3>1, <3>2, <3>3 DEF OnlyOnce
  <2> QED
    BY <1>1, <1>2, <2>1, <2>2
<1>3. ASSUME NEW id \in ScanIds, push_sentinel(id) PROVE OnlyOnce'
  <2> DEFINE s == [sentinel |-> TRUE, id |-> id, canceled |-> id \in flagged]
  <2>1. s \in Events \cup Sentinels /\ s.sentinel = TRUE /\ push_result_queue(s)
    BY <1>3 DEF push_sentinel, Sentinels
  <2> HIDE DEF s
  <2>2. UNCHANGED <<batch, failed>>
    BY <2>1 DEF push_result_queue, writer_vars
  <2> QED
    BY <1>2, <2>1, <2>2 DEF SameNode
<1>4. ASSUME NEW id \in ScanIds, NEW p \in Paths, visit_node(id, p) PROVE OnlyOnce'
  <2>1. PICK e \in Events : RecordsVisit(id, p, e)
    BY <1>0, <1>4, Visits
  <2>2. push_result_queue(e) /\ e.id = id /\ e.path = p /\ UNCHANGED <<batch, failed>>
    BY <2>1 DEF RecordsVisit, push_result_queue, writer_vars
  <2>3. p \notin visited(id)
    BY <1>0, <1>4, Visits DEF visited
  <2>4. \A f \in Items : ~SameNode(f, e)
    BY <1>0, <2>2, <2>3 DEF SameNode, OnlyVisited
  <2> QED
    BY <1>2, <2>2, <2>4
<1>5. ASSUME NEW id \in ScanIds, cancel_scan(id) \/ flag_sentinel(id) \/ hand_over_row(id)
      PROVE  OnlyOnce'
  <2>1. UNCHANGED <<batch, result_queue, failed>>
    BY <1>5 DEF cancel_scan, flag_sentinel, hand_over_row, insert_scan_task, export_vars, queue_vars,
       writer_vars
  <2> QED
    BY <1>1, <2>1
<1>6. ASSUME NEW id \in ScanIds, NEW p \in Paths,
             start_scan(id, p) \/ stop_pool_before(id, p) \/ finish_node(id, p)
      PROVE  OnlyOnce'
  <2>1. UNCHANGED <<batch, result_queue, failed>>
    BY <1>6 DEF start_scan, stop_pool_before, begin, finish_node, export_vars, queue_vars, writer_vars
  <2> QED
    BY <1>1, <2>1
<1>7. CASE (\E p \in Paths : tree_changes(p)) \/ stop_pool \/ stop_exporting \/ export_done
  <2>1. UNCHANGED <<batch, result_queue, failed>>
    BY <1>7 DEF tree_changes, stop_pool, stop_exporting, shutdown, export_done, finalize_publishes,
       export_vars, queue_vars, writer_vars
  <2> QED
    BY <1>1, <2>1
<1>8. CASE restart
  <2>1. batch' = <<>> /\ result_queue' = <<>>
    BY <1>8 DEF restart, ExportStarts
  <2> QED
    BY <1>e, <2>1 DEF OnlyOnce
<1>9. ASSUME UNCHANGED failed, batch' = batch \/ batch' = <<>>,
             result_queue' = result_queue
               \/ (result_queue # <<>> /\ result_queue' = Tail(result_queue))
      PROVE  OnlyOnce'
  <2>1. ToSet(result_queue') \subseteq ToSet(result_queue) /\ OneEach(result_queue')
    BY <1>0, <1>9, ItemsTail, TailOnce
  <2>2. ToSet(batch') \subseteq ToSet(batch) /\ OneEach(batch')
    BY <1>0, <1>e, <1>9
  <2> QED
    BY <1>0, <1>9, <2>1, <2>2 DEF OnlyOnce
<1>10. CASE took_event
  <2> DEFINE e == Head(result_queue)
  <2>1. /\ result_queue # <<>> /\ ~e.sentinel /\ result_queue' = Tail(result_queue)
        /\ UNCHANGED failed /\ (batch' = Append(batch, e) \/ batch' = <<>>)
    BY <1>10 DEF took_event, take_event
  <2>2. /\ ToSet(result_queue) = ToSet(Tail(result_queue)) \cup {e}
        /\ \A f \in ToSet(Tail(result_queue)) : ~SameNode(e, f)
        /\ OneEach(result_queue') /\ e \in Events
    BY <1>0, <2>1, ItemsTail, TailOnce, Sets
  <2>3. e.id \notin failed
    BY <1>0, <2>2 DEF Ordered
  <2> HIDE DEF e
  <2>4. CASE batch' = Append(batch, e)
    <3>1. ToSet(batch') = ToSet(batch) \cup {e}
      BY <1>0, <2>2, <2>4, ItemsAppended
    <3>2. \A f \in ToSet(batch) : ~SameNode(f, e)
      BY <1>0, <2>2
    <3>3. OneEach(batch')
      BY <1>0, <2>2, <2>4, <3>2, AppendOnce
    <3>4. \A f \in ToSet(batch'), g \in ToSet(result_queue') : ~SameNode(f, g)
      BY <1>0, <2>1, <2>2, <3>1
    <3>5. \A f \in ToSet(batch') : f.id \notin failed'
      BY <1>0, <2>1, <2>3, <3>1
    <3> QED
      BY <2>2, <3>3, <3>4, <3>5 DEF OnlyOnce
  <2> QED
    BY <1>9, <2>1, <2>4
<1>11. CASE Writing /\ ~took_event
  <2>1. /\ UNCHANGED failed /\ (batch' = batch \/ batch' = <<>>)
        /\ result_queue' = result_queue
             \/ (result_queue # <<>> /\ result_queue' = Tail(result_queue))
    BY <1>11 DEF Writing, took_sentinel, take_sentinel, finished, finish_writing, get_scan_task,
       get_scan_task_throws, finalized, finalize_step, queue_vars
  <2> QED
    BY <1>9, <2>1
<1>12. CASE database_fails
  <2>1. CASE write_throws
    <3>1. /\ UNCHANGED failed /\ batch' = batch
          /\ result_queue' = result_queue
               \/ (result_queue # <<>> /\ result_queue' = Tail(result_queue))
      BY <2>1 DEF write_throws
    <3> QED
      BY <1>9, <3>1
  <2>2. ASSUME NEW commit_fails \in BOOLEAN, finalize_fails(commit_fails) PROVE OnlyOnce'
    <3>1. batch = <<>> /\ UNCHANGED <<batch, result_queue>>
      BY <1>0, <2>2 DEF finalize_fails, queue_vars, Ordered
    <3> QED
      BY <1>0, <1>e, <3>1 DEF OnlyOnce
  <2> QED
    BY <1>12, <2>1, <2>2 DEF database_fails
<1> QED
  BY <1>c, <1>3, <1>4, <1>5, <1>6, <1>7, <1>8, <1>10, <1>11, <1>12 DEF Control

LEMMA HistoryGrows ==
  ASSUME ExportInv, Next
  PROVE  overtaken \subseteq overtaken' /\ (Unspoiled' => Unspoiled)
<1>c. Control
  BY Controls DEF ExportInv
<1>1. ASSUME NEW i \in ScanIds, NEW p \in Paths, start_scan(i, p) \/ stop_pool_before(i, p)
      PROVE  reused \subseteq reused' /\ overtaken \subseteq overtaken'
  BY <1>1 DEF start_scan, stop_pool_before, begin
<1>2. ASSUME \E i \in ScanIds, p \in Paths : visit_node(i, p) \/ finish_node(i, p)
      PROVE  reused \subseteq reused' /\ overtaken \subseteq overtaken'
  BY <1>2 DEF visit_node, finish_node, history_vars
<1>3. ASSUME export_done \/ restart PROVE reused \subseteq reused' /\ overtaken \subseteq overtaken'
  BY <1>3 DEF export_done, restart
<1>4. reused \subseteq reused' /\ overtaken \subseteq overtaken'
  BY <1>c, <1>1, <1>2, <1>3, Bystanders DEF Control
<1> QED
  BY <1>4, UnwrittenStays DEF Unspoiled

LEMMA NextPendingIsNew ==
  ASSUME ViewInv, OnlyOnce, PendingIsNew, Next, Unspoiled'
  PROVE  PendingIsNew'
<1> SUFFICES ASSUME NEW e \in Items', ~e.sentinel, Written(e.id, e.path)' PROVE FALSE
  BY DEF PendingIsNew
<1>0. /\ ExportInv /\ Ordered /\ OnlyVisited /\ OnlyWritten /\ Types /\ Jobs
      /\ DOMAIN root_of \subseteq ScanIds /\ reused = {}
  BY HistoryGrows DEF ViewInv, TableInv, Views, ExportInv, Types, Unspoiled
<1>1. CASE e \notin Items
  <2>1. PICK id \in ScanIds, p \in Paths : visit_node(id, p)
    BY <1>0, <1>1, ItemsCome
  <2>2. PICK pushed \in Events : Pushes(id, p, pushed)
    BY <1>0, <2>1, VisitPushes
  <2>3. e.id = id /\ e.path = p /\ UNCHANGED index_current
    BY <1>1, <2>2 DEF Pushes, tables
  <2>4. p \notin visited(id)
    BY <1>0, <2>1, Visits DEF visited
  <2>5. id \in DOMAIN root_of
    BY <1>0, <2>1, WalkedOn DEF ExportInv, Progress
  <2> QED
    BY <1>0, <2>3, <2>4, <2>5 DEF OnlyWritten, Written
<1>2. CASE e \in Items
  <2>1. ~Written(e.id, e.path)
    BY <1>2 DEF PendingIsNew
  <2>2. CASE UNCHANGED tables
    BY <2>1, <2>2 DEF Written, tables
  <2>3. CASE finalize_inserts \/ finalize_marks \/ finalize_diffs \/ finalize_counts
    BY <2>1, <2>3 DEF finalize_inserts, finalize_marks, finalize_diffs, finalize_counts,
       insert_scan, mark_deleted, delete_unvisited, find_scan_diff, write_diff, upsert_count,
       set_count, Restrict, Written
  <2>4. ASSUME NEW events \in Seq(Events), Fresh(events) PROVE FALSE
    <3>1. CommitEffect(events)
      BY <2>4, Committed DEF Fresh
    <3>2. \A f \in ToSet(events) : f \in Events /\ EventRow(f).id = f.id
      BY DEF ToSet, EventRow
    <3>3. PICK f \in ToSet(events) : f.path = e.path /\ index_current'[e.path] = EventRow(f)
      BY <2>1, <3>1 DEF CommitEffect, Written
    <3>4. SameNode(f, e)
      BY <3>2, <3>3, Sets DEF Written, SameNode
    <3> QED
      BY <2>4, <3>4 DEF Fresh
  <2>5. CASE pop_event \/ pop_sentinel \/ stop_writing
    BY <1>0, <2>2, <2>4, <2>5, FreshCommits
  <2> QED
    BY <1>0, <2>2, <2>3, <2>5, RegularSteps
<1> QED
  BY <1>1, <1>2

-----------------------------------------------------------------------------
(* What the history says of a path, and what a scan found when it began *)

Entered(id, p) == <<id, p>> \in DOMAIN index_history
Latest(n, p) == index_history[<<Max(earlier(n, p)), p>>]

\* The entries before scan n tell a view of the index at a path.
Agrees(n, p, view) ==
  /\ p \in DOMAIN view <=> earlier(n, p) # {} /\ Latest(n, p).state # "Deleted"
  /\ p \in DOMAIN view => Latest(n, p).fp = view[p].fp

\* A scan of which more than its events is written, or that was given up.
Closed(id) == id \in failed \/ (Handling(id) /\ Marked)

IndexTold == \A p \in Paths \ overtaken : Agrees(MaxScanId + 1, p, index_current)
BaselineTold ==
  \A id \in DOMAIN root_of : \A p \in Scope(root_of[id]) \ overtaken :
    /\ \A i \in ScanIds : Entered(i, p) => i <= id
    /\ Agrees(id, p, baseline[id])
OwnEntries ==
  \A id \in DOMAIN root_of : \A p \in Paths :
    Entered(id, p) => p \in Scope(root_of[id]) /\ (Written(id, p) \/ Closed(id))
KeptRows ==
  \A id \in DOMAIN root_of : \A p \in Scope(root_of[id]) :
    ~Written(id, p) /\ ~Closed(id) =>
      /\ p \in DOMAIN index_current <=> p \in DOMAIN baseline[id]
      /\ p \in DOMAIN index_current => index_current[p] = baseline[id][p]
WrittenRows ==
  \A id \in DOMAIN root_of : \A p \in Scope(root_of[id]) :
    Written(id, p) =>
      /\ Entered(id, p) <=> ~(p \in DOMAIN baseline[id] /\ baseline[id][p].fp = index_current[p].fp)
      /\ Entered(id, p) => /\ index_history[<<id, p>>].fp = index_current[p].fp
                           /\ index_history[<<id, p>>].state = index_current[p].state
MarkedRows ==
  Marked => \A p \in Scope(row[1].root) : ~Written(sentinel.id, p) =>
    /\ Entered(sentinel.id, p) <=> p \in DOMAIN baseline[sentinel.id] \cap Below[row[1].root]
    /\ Entered(sentinel.id, p) =>
         index_history[<<sentinel.id, p>>].state = IF sentinel.canceled THEN "Canceled" ELSE "Deleted"
DiffWritten ==
  /\ \A k \in DOMAIN scan_diff_table : k[1] \in DOMAIN root_of =>
       k[1] \in failed \/ (Handling(k[1]) /\ writer \in {"count", "publish"})
  /\ writer \in {"count", "publish"} =>
       \A k \in DOMAIN scan_diff_table : k[1] = sentinel.id => scan_diff_table[k] = diff_row(k[1], k[2])

Ledger ==
  /\ PendingIsNew /\ IndexTold /\ BaselineTold /\ OwnEntries /\ KeptRows /\ WrittenRows
  /\ MarkedRows /\ DiffWritten

DiffInv ==
  /\ ViewInv /\ OnlyOnce
  /\ DOMAIN baseline = DOMAIN root_of
  /\ Unspoiled => Ledger

-----------------------------------------------------------------------------
(* What a step does to a scan and to a path *)

Stays(id) ==
  /\ id \in DOMAIN root_of /\ root_of'[id] = root_of[id] /\ baseline'[id] = baseline[id]
  /\ Closed(id) => Closed(id)'

Begun(id) ==
  /\ UNCHANGED <<tables, writer, handled, row, failed>>
  /\ id \notin UsedIds /\ id \notin DOMAIN root_of
  /\ root_of'[id] \in Paths
  /\ baseline'[id] = Restrict(index_current, DOMAIN index_current \cap Scope(root_of'[id]))
  /\ \A p \in Scope(root_of'[id]) \ overtaken' :
       \A k \in DOMAIN index_history : k[2] = p => ~(k[1] > id)

\* A scan has its baseline as long as it has its root.
LEMMA NextBaselines ==
  ASSUME ExportInv, DOMAIN baseline = DOMAIN root_of, Next
  PROVE  DOMAIN baseline' = DOMAIN root_of'
<1>c. Control
  BY Controls DEF ExportInv
<1>1. ASSUME NEW i \in ScanIds, NEW p \in Paths, start_scan(i, p) \/ stop_pool_before(i, p)
      PROVE  DOMAIN baseline' = DOMAIN root_of'
  BY <1>1 DEF start_scan, stop_pool_before, begin, Put
<1>2. CASE export_done \/ restart
  BY <1>2 DEF export_done, restart, Restrict
<1>3. ASSUME NEW id \in ScanIds,
             cancel_scan(id) \/ flag_sentinel(id) \/ push_sentinel(id) \/ hand_over_row(id)
      PROVE  UNCHANGED <<baseline, root_of>>
  BY <1>3 DEF cancel_scan, flag_sentinel, push_sentinel, hand_over_row, scan_vars,
     registry_vars, start_vars, history_vars
<1>4. CASE \/ \E id \in ScanIds, p \in Paths : visit_node(id, p) \/ finish_node(id, p)
           \/ \E p \in Paths : tree_changes(p)
           \/ stop_pool \/ stop_exporting \/ Writing \/ database_fails
  BY <1>4 DEF visit_node, finish_node, tree_changes, stop_pool, stop_exporting, Writing,
     database_fails, scan_vars, registry_vars, start_vars, history_vars
<1> QED
  BY <1>c, <1>1, <1>2, <1>3, <1>4 DEF Control

\* A scan stays marked or given up until its export ends, or the process.
LEMMA ClosedStays ==
  ASSUME ExportInv, Next, NEW id \in DOMAIN root_of, id \in DOMAIN root_of', Closed(id)
  PROVE  Closed(id)'
<1>0. Thread
  BY DEF ExportInv
<1>c. Control
  BY Controls DEF ExportInv
<1>1. ASSUME failed \subseteq failed', UNCHANGED <<writer, handled>> PROVE Closed(id)'
  BY <1>1 DEF Closed, Handling, Marked, sentinel
<1>2. ASSUME NEW i \in ScanIds,
             cancel_scan(i) \/ flag_sentinel(i) \/ push_sentinel(i) \/ hand_over_row(i)
      PROVE  UNCHANGED <<writer, handled, failed>>
  BY <1>2 DEF cancel_scan, flag_sentinel, push_sentinel, hand_over_row, push_result_queue,
     insert_scan_task, export_vars, writer_vars
<1>3. ASSUME NEW i \in ScanIds, NEW p \in Paths,
             \/ start_scan(i, p) \/ stop_pool_before(i, p)
             \/ visit_node(i, p) \/ finish_node(i, p)
      PROVE  UNCHANGED <<writer, handled, failed>>
  BY <1>3 DEF start_scan, stop_pool_before, begin, visit_node, finish_node, push_result_queue,
     export_vars, writer_vars
<1>4. ASSUME (\E p \in Paths : tree_changes(p)) \/ stop_pool \/ stop_exporting
      PROVE  UNCHANGED <<writer, handled, failed>>
  BY <1>4 DEF tree_changes, stop_pool, stop_exporting, shutdown, export_vars, writer_vars
<1>5. CASE restart
  BY <1>5 DEF restart, EmptyTable
<1>6. CASE export_done
  BY <1>6 DEF export_done, finalize_publishes, Restrict, Closed, Handling
<1>7. CASE Writing
  <2>1. UNCHANGED failed
    BY <1>7 DEF Writing, took_event, take_event, took_sentinel, take_sentinel, finished,
       finish_writing, get_scan_task, get_scan_task_throws, finalized, finalize_step
  <2>2. CASE id \in failed
    BY <2>1, <2>2 DEF Closed
  <2>3. CASE Handling(id) /\ Marked
    <3>1. UNCHANGED handled /\ Marked'
      BY <1>7, <2>3 DEF Marked, Writing, took_event, take_event, took_sentinel, take_sentinel,
         finished, finish_writing, get_scan_task, get_scan_task_throws, finalized, finalize_step
    <3> QED
      BY <2>3, <3>1 DEF Closed, Handling, sentinel
  <2> QED
    BY <2>2, <2>3 DEF Closed
<1>8. CASE database_fails
  <2>1. CASE write_throws
    BY <2>1 DEF write_throws, Closed, Marked
  <2>2. ASSUME NEW commit_fails \in BOOLEAN, finalize_fails(commit_fails) PROVE Closed(id)'
    BY <2>2 DEF finalize_fails, Closed, Handling
  <2> QED
    BY <1>8, <2>1, <2>2 DEF database_fails
<1> QED
  BY <1>c, <1>1, <1>2, <1>3, <1>4, <1>5, <1>6, <1>7, <1>8 DEF Control

\* A scan with a root goes on as it was, or has just begun.
LEMMA ScanSteps ==
  ASSUME DiffInv, Next, Unspoiled', NEW id \in DOMAIN root_of'
  PROVE  Stays(id) \/ Begun(id)
<1>0. /\ ExportInv /\ Jobs /\ Types /\ Progress /\ DOMAIN baseline = DOMAIN root_of
      /\ DOMAIN root_of \subseteq ScanIds
  BY DEF DiffInv, ViewInv, TableInv, ExportInv, Types
<1>c. Control
  BY Controls DEF DiffInv, ViewInv, TableInv, ExportInv
<1>1. ASSUME id \in DOMAIN root_of, UNCHANGED baseline PROVE Stays(id)
  BY <1>0, <1>1, VisitedStays, ClosedStays DEF Stays
<1>2. ASSUME id \in DOMAIN root_of, baseline'[id] = baseline[id] PROVE Stays(id)
  BY <1>0, <1>2, VisitedStays, ClosedStays DEF Stays
<1>3. ASSUME NEW i \in ScanIds, NEW p \in Paths, start_scan(i, p) \/ stop_pool_before(i, p)
      PROVE  Stays(id) \/ Begun(id)
  <2>1. /\ root_of' = Put(i, p, root_of) /\ UNCHANGED <<tables, export_vars>>
        /\ baseline' = Put(i, Restrict(index_current, DOMAIN index_current \cap Scope(p)), baseline)
        /\ reused' = IF i \in UsedIds THEN reused \cup {i} ELSE reused
        /\ overtaken' = overtaken \cup {q \in Scope(p) : \E k \in DOMAIN index_history :
                                                            k[2] = q /\ k[1] > i}
    BY <1>3 DEF start_scan, stop_pool_before, begin
  <2>2. i \notin DOMAIN root_of
    BY <1>0, <1>3, Begins
  <2>3. CASE id = i
    <3>1. root_of'[id] = p /\ i \notin UsedIds
      BY <2>1, <2>3 DEF Put, Unspoiled
    <3>2. baseline'[id] = Restrict(index_current, DOMAIN index_current \cap Scope(p))
      BY <2>1, <2>3 DEF Put
    <3>3. UNCHANGED <<writer, handled, row, failed>>
      BY <2>1 DEF export_vars, writer_vars
    <3> HIDE DEF tables
    <3> QED
      BY <2>1, <2>2, <2>3, <3>1, <3>2, <3>3 DEF Begun
  <2>4. CASE id # i
    <3>1. id \in DOMAIN root_of /\ baseline'[id] = baseline[id]
      BY <1>0, <2>1, <2>4 DEF Put
    <3> QED
      BY <1>2, <3>1
  <2> QED
    BY <2>3, <2>4
<1>4. CASE export_done
  BY <1>0, <1>2, <1>4 DEF export_done, Restrict
<1>5. CASE restart
  BY <1>5 DEF restart, EmptyTable
<1>6. ASSUME UNCHANGED <<baseline, root_of>> PROVE Stays(id)
  BY <1>1, <1>6
<1>7. ASSUME NEW i \in ScanIds,
             cancel_scan(i) \/ flag_sentinel(i) \/ push_sentinel(i) \/ hand_over_row(i)
      PROVE  UNCHANGED <<baseline, root_of>>
  BY <1>7 DEF cancel_scan, flag_sentinel, push_sentinel, hand_over_row, scan_vars,
     registry_vars, start_vars, history_vars
<1>8. ASSUME \/ \E i \in ScanIds, p \in Paths : visit_node(i, p) \/ finish_node(i, p)
             \/ \E p \in Paths : tree_changes(p)
             \/ stop_pool \/ stop_exporting \/ Writing \/ database_fails
      PROVE  UNCHANGED <<baseline, root_of>>
  BY <1>8 DEF visit_node, finish_node, tree_changes, stop_pool, stop_exporting, Writing,
     database_fails, scan_vars, registry_vars, start_vars, history_vars
<1> QED
  BY <1>c, <1>3, <1>4, <1>5, <1>6, <1>7, <1>8 DEF Control

SameRow(p) ==
  /\ p \in DOMAIN index_current' <=> p \in DOMAIN index_current
  /\ p \in DOMAIN index_current => index_current'[p] = index_current[p]
SameEntry(i, p) ==
  /\ <<i, p>> \in DOMAIN index_history' <=> <<i, p>> \in DOMAIN index_history
  /\ <<i, p>> \in DOMAIN index_history => index_history'[<<i, p>>] = index_history[<<i, p>>]
Untouched(p) == SameRow(p) /\ \A i : SameEntry(i, p)

NotYet(id, p) ==
  id \in DOMAIN root_of /\ p \in Scope(root_of[id]) /\ ~Written(id, p) /\ ~Entered(id, p) /\ ~Closed(id)

\* The event of a scan for a path is committed.
Commits1(id, p) ==
  /\ NotYet(id, p)
  /\ \A i : i # id => SameEntry(i, p)
  /\ \E e \in Events :
       /\ e.id = id /\ e.path = p
       /\ p \in DOMAIN index_current' /\ index_current'[p] = EventRow(e)
       /\ <<id, p>> \in DOMAIN index_history' <=> ~same_fingerprint(index_current, e)
       /\ <<id, p>> \in DOMAIN index_history' => index_history'[<<id, p>>] = EventEntry(e)

\* mark_deleted() of a scan finds a path that it did not see.
Marks1(id, p) ==
  /\ NotYet(id, p) /\ Closed(id)'
  /\ finalize_marks /\ id = sentinel.id
  /\ p \in DOMAIN index_current
  /\ IF sentinel.canceled THEN SameRow(p) ELSE p \notin DOMAIN index_current'
  /\ \A i : i # id => SameEntry(i, p)
  /\ <<id, p>> \in DOMAIN index_history'
  /\ index_history'[<<id, p>>]
       = [fp |-> index_current[p].fp, state |-> IF sentinel.canceled THEN "Canceled" ELSE "Deleted"]

\* What mark_deleted() does to a path.
LEMMA MarkSteps ==
  ASSUME DiffInv, finalize_marks, Unspoiled, NEW p \in Paths, NEW id, id = sentinel.id
  PROVE  IF p \in unvisited(id, row[1].root) THEN Marks1(id, p) ELSE Untouched(p)
<1> DEFINE root == row[1].root
           gone == unvisited(id, root)
           keys == {id} \X gone
           state == IF sentinel.canceled THEN "Canceled" ELSE "Deleted"
           rows == [k \in keys |-> [fp |-> index_current[k[2]].fp, state |-> state]]
<1>0. /\ ExportInv /\ Ordered /\ Types /\ OwnEntries
  BY DEF DiffInv, Ledger, ViewInv, TableInv, ExportInv
<1>1. /\ id \in DOMAIN root_of /\ root = root_of[id] /\ writer = "mark" /\ writer' = "diff"
      /\ handled # <<>> /\ sentinel' = sentinel /\ UNCHANGED handled /\ row # <<>>
      /\ mark_deleted(id, root, sentinel.canceled)
  <2>1. PICK i \in ScanIds :
           /\ i = sentinel.id /\ sentinel' = sentinel /\ i \in DOMAIN root_of
           /\ handled # <<>> /\ UNCHANGED <<handled, row>> /\ row # <<>>
           /\ row[1].root = root_of[i]
    BY <1>0, FinalizesAre DEF finalize_marks, finalized
  <2> QED
    BY <2>1 DEF finalize_marks, finalize_step
<1>2. root \in Paths /\ Scope(root) = {root} \cup Below[root]
  <2>1. root_of[id] \in Paths
    BY <1>0, <1>1 DEF Types
  <2> QED
    BY <1>1, <2>1, Scopes
<1>3. ~Closed(id) /\ Closed(id)'
  BY <1>0, <1>1 DEF Closed, Ordered, Handling, Marked
<1>4. \A q \in gone : q \in Paths /\ NotYet(id, q) /\ q \in DOMAIN index_current
  <2> SUFFICES ASSUME NEW q \in gone PROVE q \in Paths /\ NotYet(id, q) /\ q \in DOMAIN index_current
    OBVIOUS
  <2>1. q \in Below[root] /\ q \in DOMAIN index_current /\ ~Written(id, q)
    BY DEF unvisited, Written
  <2>2. q \in Paths
    BY <1>2, <2>1 DEF Below
  <2>3. ~Entered(id, q)
    BY <1>0, <1>1, <1>3, <2>1, <2>2 DEF OwnEntries
  <2> QED
    BY <1>1, <1>2, <1>3, <2>1, <2>2, <2>3 DEF NotYet
<1>5. /\ index_history' = Insert(rows, index_history)
      /\ index_current' = IF sentinel.canceled THEN index_current
                          ELSE Restrict(index_current, DOMAIN index_current \ gone)
  <2>1. keys \cap DOMAIN index_history = {}
    <3>1. \A q \in gone : <<id, q>> \notin DOMAIN index_history
      BY <1>4 DEF NotYet, Entered
    <3> HIDE DEF gone
    <3> QED
      BY <3>1
  <2> QED
    BY <1>1, <2>1 DEF mark_deleted, insert_marks, delete_unvisited
<1> HIDE DEF gone, state
<1>6. /\ DOMAIN index_history' = DOMAIN index_history \cup keys
      /\ \A k \in DOMAIN index_history : index_history'[k] = index_history[k]
      /\ \A k \in keys \ DOMAIN index_history :
           index_history'[k] = [fp |-> index_current[k[2]].fp, state |-> state]
  BY <1>5 DEF Insert
<1>7. ASSUME NEW i, i # id \/ p \notin gone PROVE SameEntry(i, p)
  BY <1>6, <1>7 DEF SameEntry
<1>8. CASE p \in gone
  <2>1. <<id, p>> \in keys /\ <<id, p>> \notin DOMAIN index_history
    BY <1>4, <1>8 DEF NotYet, Entered
  <2>2. /\ <<id, p>> \in DOMAIN index_history'
        /\ index_history'[<<id, p>>] = [fp |-> index_current[p].fp, state |-> state]
    BY <1>6, <2>1
  <2>3. IF sentinel.canceled THEN SameRow(p) ELSE p \notin DOMAIN index_current'
    BY <1>5, <1>8 DEF SameRow, Restrict
  <2> QED
    BY <1>3, <1>4, <1>7, <1>8, <2>2, <2>3 DEF Marks1, gone, state
<1>9. CASE p \notin gone
  <2>1. SameRow(p)
    BY <1>5, <1>9 DEF SameRow, Restrict
  <2> QED
    BY <1>7, <1>9, <2>1 DEF Untouched, gone
<1> QED
  BY <1>8, <1>9 DEF gone

\* What a commit of new events does to a path.
LEMMA CommitSteps ==
  ASSUME DiffInv, NEW events \in Seq(Events), Fresh(events), Unspoiled, NEW p \in Paths
  PROVE  Untouched(p) \/ \E id \in ScanIds : Commits1(id, p)
<1> DEFINE N == Len(events)
<1>0. /\ ExportInv /\ Ordered /\ Types /\ Jobs /\ OnlyVisited /\ Thread /\ OwnEntries /\ PendingIsNew
  BY DEF DiffInv, Ledger, ViewInv, TableInv, Views, ExportInv
<1>1. CommitEffect(events) /\ commit(events) /\ ToSet(events) \subseteq Items /\ OneEach(events)
      /\ handled = <<>>
  BY <1>0, Committed DEF Fresh, Thread
<1>2. \A e \in ToSet(events) : \E i \in 1 .. N : e = events[i]
  BY LenProperties DEF ToSet
<1>3. \A i \in 1 .. N : events[i] \in ToSet(events) /\ events[i] \in Events
  BY LenProperties DEF ToSet
<1> HIDE DEF N
<1>4. ASSUME NEW e \in ToSet(events)
      PROVE  /\ NotYet(e.id, e.path) /\ e \in Events /\ e.id \in ScanIds /\ e.path \in Paths
             /\ e.path \in visited(e.id) /\ ~e.sentinel
  <2>1. e \in Events /\ e \in Items /\ ~e.sentinel
    BY <1>1, <1>2, <1>3, <1>4, Sets
  <2>2. e.id \in DOMAIN root_of /\ e.path \in visited(e.id) /\ e.path \in Paths /\ e.id \in ScanIds
    BY <1>0, <2>1, ItemIds, EventTypes DEF OnlyVisited
  <2>3. e.path \in Scope(root_of[e.id])
    <3> DEFINE i == e.id  q == e.path
    <3>1. i \in DOMAIN root_of /\ q \in visited(i) /\ q \in Paths
      BY <2>2
    <3> HIDE DEF i, q
    <3>2. q \in Scope(root_of[i])
      BY <1>0, <3>1 DEF Jobs, visited
    <3> QED
      BY <3>2 DEF i, q
  <2>4. ~Written(e.id, e.path)
    BY <1>0, <2>1 DEF PendingIsNew
  <2>5. ~Closed(e.id)
    BY <1>1, <1>4 DEF Fresh, Closed, Handling
  <2>6. ~Entered(e.id, e.path)
    BY <1>0, <2>2, <2>4, <2>5 DEF OwnEntries
  <2> QED
    BY <2>1, <2>2, <2>3, <2>4, <2>5, <2>6 DEF NotYet
<1>5. ASSUME NEW e \in ToSet(events), NEW f \in ToSet(events), e.path = f.path PROVE e.id = f.id
  <2> DEFINE i == e.id  j == f.id  q == e.path
  <2>1. /\ i \in DOMAIN root_of /\ j \in DOMAIN root_of /\ q \in Paths
        /\ q \in Scope(root_of[i]) /\ q \in visited(j)
    BY <1>4, <1>5 DEF NotYet
  <2> HIDE DEF i, j, q
  <2>2. i = j
    BY <1>0, <2>1, OneVisitor
  <2> QED
    BY <2>2 DEF i, j
<1>6. \A i, j \in 1 .. N : i # j => events[i].path # events[j].path
  <2> SUFFICES ASSUME NEW i \in 1 .. N, NEW j \in 1 .. N, i # j, events[i].path = events[j].path
               PROVE  FALSE
    OBVIOUS
  <2>1. events[i].id = events[j].id
    BY <1>3, <1>5
  <2>2. SameNode(events[i], events[j])
    BY <1>3, <1>4, <2>1 DEF SameNode
  <2> QED
    BY <1>1, <2>2 DEF OneEach, N
<1>7. \A i \in 1 .. N : KeyOf(events[i]) \notin DOMAIN index_history
  BY <1>3, <1>4 DEF NotYet, Entered, KeyOf
<1>8. \A i \in 1 .. N :
        KeyOf(events[i]) \in DOMAIN index_history' <=> ~same_fingerprint(index_current, events[i])
  BY <1>1, <1>6, <1>7, CommittedOnce DEF N
<1>9. \A k \in DOMAIN index_history :
        k \in DOMAIN index_history' /\ index_history'[k] = index_history[k]
  BY <1>1 DEF CommitEffect
<1>10. \A k \in DOMAIN index_history' \ DOMAIN index_history :
         \E e \in ToSet(events) : k = <<e.id, e.path>> /\ index_history'[k] = EventEntry(e)
  BY <1>1 DEF CommitEffect
<1>11. ASSUME NEW e \in ToSet(events), e.path = p PROVE Commits1(e.id, p)
  <2>1. \A i : i # e.id => SameEntry(i, p)
    <3> SUFFICES ASSUME NEW i, i # e.id, <<i, p>> \in DOMAIN index_history' \ DOMAIN index_history
                 PROVE  FALSE
      BY <1>9 DEF SameEntry
    <3>1. PICK f \in ToSet(events) : <<i, p>> = <<f.id, f.path>>
      BY <1>10
    <3>2. f.id = i /\ f.path = p
      BY <3>1
    <3> QED
      BY <1>5, <1>11, <3>2
  <2>2. p \in DOMAIN index_current'
    BY <1>1, <1>11 DEF CommitEffect
  <2>3. index_current'[p] = EventRow(e)
    <3>1. PICK f \in ToSet(events) : f.path = p /\ index_current'[p] = EventRow(f)
      BY <1>1, <1>11, <2>2 DEF CommitEffect
    <3>2. PICK i \in 1 .. N, j \in 1 .. N : e = events[i] /\ f = events[j]
      BY <1>2, <3>1
    <3>3. i = j
      BY <1>6, <1>11, <3>1, <3>2
    <3> QED
      BY <3>1, <3>2, <3>3
  <2>4. <<e.id, p>> \in DOMAIN index_history' <=> ~same_fingerprint(index_current, e)
    BY <1>2, <1>8, <1>11 DEF KeyOf
  <2>5. <<e.id, p>> \in DOMAIN index_history' => index_history'[<<e.id, p>>] = EventEntry(e)
    <3> SUFFICES ASSUME <<e.id, p>> \in DOMAIN index_history'
                 PROVE  index_history'[<<e.id, p>>] = EventEntry(e)
      OBVIOUS
    <3>1. <<e.id, p>> \notin DOMAIN index_history
      BY <1>4, <1>11 DEF NotYet, Entered
    <3>2. PICK f \in ToSet(events) :
             <<e.id, p>> = <<f.id, f.path>> /\ index_history'[<<e.id, p>>] = EventEntry(f)
      BY <1>10, <3>1
    <3>3. f.path = p
      BY <3>2
    <3>4. PICK i \in 1 .. N, j \in 1 .. N : e = events[i] /\ f = events[j]
      BY <1>2, <3>2
    <3>5. i = j
      BY <1>6, <1>11, <3>3, <3>4
    <3> QED
      BY <3>2, <3>4, <3>5
  <2>6. NotYet(e.id, p) /\ e \in Events
    BY <1>4, <1>11
  <2> QED
    BY <1>11, <2>1, <2>2, <2>3, <2>4, <2>5, <2>6 DEF Commits1
<1>12. ASSUME \A e \in ToSet(events) : e.path # p PROVE Untouched(p)
  <2>1. SameRow(p)
    BY <1>1, <1>12 DEF CommitEffect, SameRow
  <2>2. ASSUME NEW i PROVE SameEntry(i, p)
    <3> SUFFICES ASSUME <<i, p>> \in DOMAIN index_history' \ DOMAIN index_history
                 PROVE  FALSE
      BY <1>9 DEF SameEntry
    <3>1. PICK f \in ToSet(events) : <<i, p>> = <<f.id, f.path>>
      BY <1>10
    <3>2. f.path = p
      BY <3>1
    <3> QED
      BY <1>12, <3>2
  <2> QED
    BY <2>1, <2>2 DEF Untouched
<1> QED
  BY <1>4, <1>11, <1>12

\* What a step does to a path.
LEMMA PathSteps ==
  ASSUME DiffInv, Next, Unspoiled', NEW p \in Paths
  PROVE  Untouched(p) \/ \E id \in ScanIds : Commits1(id, p) \/ Marks1(id, p)
<1>0. ExportInv /\ Ordered /\ OnlyOnce /\ Unspoiled
  BY HistoryGrows DEF DiffInv, ViewInv, TableInv
<1>1. ASSUME UNCHANGED <<index_current, index_history>> PROVE Untouched(p)
  BY <1>1 DEF Untouched, SameRow, SameEntry
<1>2. CASE UNCHANGED tables
  BY <1>1, <1>2 DEF tables
<1>3. CASE finalize_inserts \/ finalize_diffs \/ finalize_counts
  BY <1>1, <1>3 DEF finalize_inserts, finalize_diffs, finalize_counts, insert_scan, find_scan_diff,
     write_diff, upsert_count, set_count
<1>4. CASE finalize_marks
  <2>1. PICK id \in ScanIds : id = sentinel.id
    BY <1>0, <1>4, FinalizesAre DEF finalize_marks, finalized
  <2> QED
    BY <1>0, <1>4, <2>1, MarkSteps
<1>5. CASE pop_event \/ pop_sentinel \/ stop_writing
  <2>1. ASSUME NEW events \in Seq(Events), Fresh(events)
        PROVE  Untouched(p) \/ \E id \in ScanIds : Commits1(id, p) \/ Marks1(id, p)
    BY <1>0, <2>1, CommitSteps
  <2> QED
    BY <1>0, <1>2, <1>5, <2>1, FreshCommits
<1> QED
  BY <1>0, <1>2, <1>3, <1>4, <1>5, RegularSteps

\* What a step does to a path of a scan that goes on is that scan's doing.
LEMMA OwnSteps ==
  ASSUME DiffInv, Next, Unspoiled', NEW id \in DOMAIN root_of, NEW p \in Scope(root_of[id])
  PROVE  p \in Paths /\ (Untouched(p) \/ Commits1(id, p) \/ Marks1(id, p))
<1>0. Types /\ Jobs
  BY DEF DiffInv, ViewInv, TableInv, ExportInv
<1>1. root_of[id] \in Paths
  BY <1>0 DEF Types
<1>2. p \in Paths
  BY <1>1, Scopes
<1>3. ASSUME NEW i \in ScanIds, NotYet(i, p) PROVE i = id
  <2>1. i \in DOMAIN root_of /\ p \in Scope(root_of[i])
    BY <1>3 DEF NotYet
  <2> QED
    BY <1>0, <2>1 DEF Jobs
<1>4. ASSUME NEW i \in ScanIds, Commits1(i, p) PROVE Commits1(id, p)
  <2>1. i = id
    BY <1>3, <1>4 DEF Commits1
  <2> QED
    BY <1>4, <2>1 DEF Commits1, SameEntry, NotYet, Closed, Entered, Written, Handling
<1>5. ASSUME NEW i \in ScanIds, Marks1(i, p) PROVE Marks1(id, p)
  <2>1. i = id
    BY <1>3, <1>5 DEF Marks1
  <2> QED
    BY <1>5, <2>1 DEF Marks1
<1> QED
  BY <1>2, <1>4, <1>5, PathSteps

LEMMA NextOwnEntries ==
  ASSUME DiffInv, Next, Unspoiled'
  PROVE  OwnEntries'
<1> SUFFICES ASSUME NEW id \in DOMAIN root_of', NEW p \in Paths, Entered(id, p)'
             PROVE  p \in Scope(root_of'[id]) /\ (Written(id, p)' \/ Closed(id)')
  BY DEF OwnEntries
<1>0. Unspoiled /\ OwnEntries /\ Jobs
  BY HistoryGrows DEF DiffInv, Ledger, ViewInv, TableInv
<1>1. CASE Begun(id)
  BY <1>1 DEF Begun, tables, Entered, UsedIds
<1>2. CASE Stays(id)
  <2>0. /\ id \in DOMAIN root_of /\ root_of'[id] = root_of[id] /\ (Closed(id) => Closed(id)')
    BY <1>2 DEF Stays
  <2>1. ASSUME Untouched(p)
        PROVE  p \in Scope(root_of[id]) /\ (Written(id, p)' \/ Closed(id)')
    <3>1. Entered(id, p) /\ SameRow(p)
      BY <2>1 DEF Untouched, SameEntry, Entered
    <3>2. p \in Scope(root_of[id]) /\ (Written(id, p) \/ Closed(id))
      BY <1>0, <2>0, <3>1 DEF OwnEntries
    <3> QED
      BY <2>0, <3>1, <3>2 DEF SameRow, Written
  <2>2. ASSUME SameEntry(id, p) PROVE p \in Scope(root_of[id])
    BY <1>0, <2>0, <2>2 DEF SameEntry, Entered, OwnEntries
  <2>3. ASSUME NEW i \in ScanIds, NotYet(i, p), \A j : j # i => SameEntry(j, p) PROVE i = id
    <3>1. i \in DOMAIN root_of /\ p \in Scope(root_of[i])
      BY <2>3 DEF NotYet
    <3>2. i # id => SameEntry(id, p)
      BY <2>3
    <3> QED
      BY <1>0, <2>0, <2>2, <3>1, <3>2 DEF Jobs
  <2>4. ASSUME NEW i \in ScanIds, Commits1(i, p)
        PROVE  p \in Scope(root_of[id]) /\ (Written(id, p)' \/ Closed(id)')
    <3>1. i = id /\ NotYet(i, p)
      BY <2>3, <2>4 DEF Commits1
    <3>2. p \in DOMAIN index_current' /\ index_current'[p].id = i
      BY <2>4 DEF Commits1, EventRow
    <3> QED
      BY <3>1, <3>2 DEF NotYet, Written
  <2>5. ASSUME NEW i \in ScanIds, Marks1(i, p)
        PROVE  p \in Scope(root_of[id]) /\ (Written(id, p)' \/ Closed(id)')
    <3>1. i = id /\ NotYet(i, p) /\ Closed(i)'
      BY <2>3, <2>5 DEF Marks1
    <3>2. Closed(id)'
      BY <3>1 DEF Closed, Handling
    <3> QED
      BY <3>1, <3>2 DEF NotYet
  <2> QED
    BY <1>0, <2>0, <2>1, <2>4, <2>5, PathSteps
<1> QED
  BY <1>1, <1>2, ScanSteps

LEMMA NextKeptRows ==
  ASSUME DiffInv, Next, Unspoiled'
  PROVE  KeptRows'
<1> SUFFICES ASSUME NEW id \in DOMAIN root_of', NEW p \in Scope(root_of'[id]),
                    ~Written(id, p)', ~Closed(id)'
             PROVE  /\ p \in DOMAIN index_current' <=> p \in DOMAIN baseline'[id]
                    /\ p \in DOMAIN index_current' => index_current'[p] = baseline'[id][p]
  BY DEF KeptRows, Scope
<1>0. Unspoiled /\ KeptRows
  BY HistoryGrows DEF DiffInv, Ledger, ViewInv, TableInv
<1>1. CASE Begun(id)
  BY <1>1 DEF Begun, tables, Restrict
<1>2. CASE Stays(id)
  <2>0. /\ id \in DOMAIN root_of /\ root_of'[id] = root_of[id] /\ baseline'[id] = baseline[id]
        /\ ~Closed(id)
    BY <1>2 DEF Stays
  <2>1. CASE Untouched(p)
    <3>1. ~Written(id, p) /\ SameRow(p)
      BY <2>1 DEF Untouched, SameRow, Written
    <3>2. /\ p \in DOMAIN index_current <=> p \in DOMAIN baseline[id]
          /\ p \in DOMAIN index_current => index_current[p] = baseline[id][p]
      BY <1>0, <2>0, <3>1 DEF KeptRows
    <3> QED
      BY <2>0, <3>1, <3>2 DEF SameRow
  <2>2. CASE Commits1(id, p)
    BY <2>2 DEF Commits1, EventRow, Written
  <2>3. CASE Marks1(id, p)
    BY <2>3 DEF Marks1
  <2> QED
    BY <1>0, <2>0, <2>1, <2>2, <2>3, OwnSteps
<1> QED
  BY <1>1, <1>2, ScanSteps

LEMMA NextWrittenRows ==
  ASSUME DiffInv, Next, Unspoiled'
  PROVE  WrittenRows'
<1> DEFINE told(id, p) ==
      /\ Entered(id, p) <=> ~(p \in DOMAIN baseline[id] /\ baseline[id][p].fp = index_current[p].fp)
      /\ Entered(id, p) => /\ index_history[<<id, p>>].fp = index_current[p].fp
                           /\ index_history[<<id, p>>].state = index_current[p].state
<1> SUFFICES ASSUME NEW id \in DOMAIN root_of', NEW p \in Scope(root_of'[id]), Written(id, p)'
             PROVE  told(id, p)'
  BY DEF WrittenRows, Scope
<1>0. Unspoiled /\ WrittenRows /\ KeptRows
  BY HistoryGrows DEF DiffInv, Ledger, ViewInv, TableInv
<1>1. CASE Begun(id)
  BY <1>1 DEF Begun, tables, Written, UsedIds
<1>2. CASE Stays(id)
  <2>0. /\ id \in DOMAIN root_of /\ root_of'[id] = root_of[id] /\ baseline'[id] = baseline[id]
    BY <1>2 DEF Stays
  <2>1. CASE Untouched(p)
    <3>1. Written(id, p) /\ SameRow(p) /\ SameEntry(id, p)
      BY <2>1 DEF Untouched, SameRow, Written
    <3>2. told(id, p)
      BY <1>0, <2>0, <3>1 DEF WrittenRows
    <3>3. index_current'[p] = index_current[p]
      BY <3>1 DEF Written, SameRow
    <3> QED
      BY <2>0, <3>1, <3>2, <3>3 DEF SameEntry, Entered
  <2>2. CASE Commits1(id, p)
    <3>1. /\ p \in DOMAIN index_current <=> p \in DOMAIN baseline[id]
          /\ p \in DOMAIN index_current => index_current[p] = baseline[id][p]
      BY <1>0, <2>0, <2>2 DEF KeptRows, Commits1, NotYet
    <3>2. PICK e \in Events :
             /\ e.id = id /\ e.path = p
             /\ p \in DOMAIN index_current' /\ index_current'[p] = EventRow(e)
             /\ <<id, p>> \in DOMAIN index_history' <=> ~same_fingerprint(index_current, e)
             /\ <<id, p>> \in DOMAIN index_history' => index_history'[<<id, p>>] = EventEntry(e)
      BY <2>2 DEF Commits1
    <3>3. index_current'[p].fp = e.fp /\ (Entered(id, p)' => /\ index_history'[<<id, p>>].fp = e.fp
                           /\ index_history'[<<id, p>>].state = index_current'[p].state)
      BY <3>2 DEF EventRow, EventEntry, Entered
    <3>4. Entered(id, p)' <=> ~(p \in DOMAIN index_current /\ index_current[p].fp = e.fp)
      BY <3>2 DEF Entered, same_fingerprint
    <3>5. Entered(id, p)' <=> ~(p \in DOMAIN baseline'[id] /\ baseline'[id][p].fp = index_current'[p].fp)
      BY <2>0, <3>1, <3>3, <3>4
    <3> QED
      BY <3>3, <3>5
  <2>3. CASE Marks1(id, p)
    BY <2>3 DEF Marks1, SameRow, Written, NotYet
  <2> QED
    BY <1>0, <2>0, <2>1, <2>2, <2>3, OwnSteps
<1> QED
  BY <1>1, <1>2, ScanSteps

LEMMA NextMarkedRows ==
  ASSUME DiffInv, Next, Unspoiled'
  PROVE  MarkedRows'
<1> DEFINE marks(id, root, dropped) ==
      \A p \in Scope(root) : ~Written(id, p) =>
        /\ Entered(id, p) <=> p \in DOMAIN baseline[id] \cap Below[root]
        /\ Entered(id, p) =>
             index_history[<<id, p>>].state = IF dropped THEN "Canceled" ELSE "Deleted"
<1> SUFFICES ASSUME Marked' PROVE marks(sentinel.id, row[1].root, sentinel.canceled)'
  BY DEF MarkedRows, Scope
<1>0. /\ Unspoiled /\ MarkedRows /\ KeptRows /\ OwnEntries /\ ExportInv /\ ExportInv' /\ Types
      /\ DOMAIN baseline = DOMAIN root_of
  BY HistoryGrows, NextTypes, NextThread, NextProgress, NextTracked, NextFlags, NextRows
     DEF DiffInv, Ledger, ViewInv, TableInv, ExportInv
<1>1. /\ UNCHANGED <<handled, row>> /\ writer \in Finalizing
      /\ \/ finalize_marks
         \/ Marked /\ UNCHANGED <<index_current, index_history>>
  <2>1. CASE finalize_marks
    BY <1>0, <2>1, FinalizesAre DEF finalize_marks, finalized, finalize_step, Finalizing
  <2>2. CASE finalize_diffs \/ finalize_counts
    <3>1. UNCHANGED <<handled, row>> /\ writer \in {"diff", "count"}
      BY <2>2 DEF finalize_diffs, finalize_counts, finalize_step
    <3>2. UNCHANGED <<index_current, index_history>>
      BY <2>2 DEF finalize_diffs, finalize_counts, find_scan_diff, write_diff, upsert_count, set_count
    <3> QED
      BY <3>1, <3>2 DEF Marked, Finalizing
  <2>3. CASE UNCHANGED <<writer, handled, row, tables>>
    BY <2>3 DEF tables, Marked, Finalizing
  <2> QED
    BY <1>0, <2>1, <2>2, <2>3, RegularSteps
<1>2. PICK id \in ScanIds, root \in Paths :
         /\ id = sentinel.id /\ root = row[1].root /\ id \in DOMAIN root_of /\ root = root_of[id]
         /\ handled # <<>>
  BY <1>0, <1>1 DEF ExportInv, Progress, Types, Thread
<1>3. id = sentinel'.id /\ root = row'[1].root /\ sentinel' = sentinel /\ Handling(id)'
  BY <1>1, <1>2 DEF sentinel, Handling
<1>4. Stays(id)
  <2>1. id \in DOMAIN root_of'
    BY <1>0, <1>3 DEF ExportInv, Progress, Marked, Finalizing
  <2> QED
    BY <1>2, <2>1, ScanSteps DEF Begun
<1>5. baseline'[id] = baseline[id]
  BY <1>4 DEF Stays
<1>6. CASE Marked /\ UNCHANGED <<index_current, index_history>>
  <2>1. marks(id, root, sentinel.canceled)
    BY <1>0, <1>2, <1>6 DEF MarkedRows
  <2> QED
    BY <1>3, <1>5, <1>6, <2>1 DEF Entered, Written
<1>7. CASE finalize_marks
  <2> SUFFICES ASSUME NEW p \in Scope(root), ~Written(id, p)'
               PROVE  /\ Entered(id, p)' <=> p \in DOMAIN baseline[id] \cap Below[root]
                      /\ Entered(id, p)' => index_history'[<<id, p>>].state
                                              = IF sentinel.canceled THEN "Canceled" ELSE "Deleted"
    BY <1>3, <1>5 DEF Written, Entered, Scope
  <2>0. p \in Paths /\ p \in Scope(root_of[id])
    BY <1>2, Scopes
  <2>1. ~Closed(id)
    BY <1>0, <1>2, <1>7 DEF DiffInv, ViewInv, TableInv, Ordered, Closed, Handling, Marked,
       finalize_marks, finalize_step
  <2>2. ~Written(id, p) => (p \in DOMAIN index_current <=> p \in DOMAIN baseline[id])
    BY <1>0, <1>2, <2>0, <2>1 DEF KeptRows
  <2>3. CASE p \in unvisited(id, root)
    <3>1. Marks1(id, p)
      BY <1>0, <1>2, <1>7, <2>0, <2>3, MarkSteps
    <3>2. Entered(id, p)' /\ index_history'[<<id, p>>].state
                                = IF sentinel.canceled THEN "Canceled" ELSE "Deleted"
      BY <3>1 DEF Marks1, Entered
    <3>3. p \in Below[root] /\ p \in DOMAIN index_current /\ ~Written(id, p)
      BY <2>3 DEF unvisited, Written
    <3> QED
      BY <2>2, <3>2, <3>3
  <2>4. CASE p \notin unvisited(id, root)
    <3>1. Untouched(p)
      BY <1>0, <1>2, <1>7, <2>0, <2>4, MarkSteps
    <3>2. ~Written(id, p)
      BY <3>1 DEF Untouched, SameRow, Written
    <3>3. ~(p \in Below[root] /\ p \in DOMAIN index_current)
      BY <2>4, <3>2 DEF unvisited, Written
    <3>4. ~Entered(id, p)
      BY <1>0, <1>2, <2>0, <2>1, <3>2 DEF OwnEntries
    <3>5. ~Entered(id, p)'
      BY <3>1, <3>4 DEF Untouched, SameEntry, Entered
    <3> QED
      BY <2>2, <3>2, <3>3, <3>5
  <2> QED
    BY <2>3, <2>4
<1> QED
  BY <1>1, <1>6, <1>7

-----------------------------------------------------------------------------
(* The entries before a scan *)

LEMMA EarlierTypes ==
  ASSUME NEW n \in Nat, NEW p
  PROVE  /\ earlier(n, p) \subseteq 0 .. n
         /\ earlier(n, p) # {} => Max(earlier(n, p)) \in earlier(n, p)
<1> DEFINE T == earlier(n, p)
<1>1. T \subseteq 0 .. n
  BY DEF earlier
<1> HIDE DEF T
<1>2. T # {} => Max(T) \in T
  BY <1>1, IsMax
<1> QED
  BY <1>1, <1>2 DEF T

\* Entries of the scans before n are all that is seen of the history before n.
LEMMA EarlierStays ==
  ASSUME NEW n \in Nat, NEW p, \A i \in 1 .. n - 1 : SameEntry(i, p)
  PROVE  /\ earlier(n, p)' = earlier(n, p)
         /\ earlier(n, p) # {} => Latest(n, p)' = Latest(n, p)
<1>1. earlier(n, p)' = earlier(n, p)
  <2>1. \A i \in 1 .. n - 1 : <<i, p>> \in DOMAIN index_history'
                              <=> <<i, p>> \in DOMAIN index_history
    BY DEF SameEntry
  <2>2. \A i \in 1 .. n - 1 : <<i, p>> \in DOMAIN index_history =>
                              index_history'[<<i, p>>] = index_history[<<i, p>>]
    BY DEF SameEntry
  <2> QED
    BY <2>1, <2>2 DEF earlier
<1>2. ASSUME earlier(n, p) # {} PROVE Latest(n, p)' = Latest(n, p)
  <2> DEFINE m == Max(earlier(n, p))
  <2>1. m \in earlier(n, p)
    BY <1>2, EarlierTypes
  <2>2. m \in 1 .. n - 1 /\ <<m, p>> \in DOMAIN index_history
    BY <2>1 DEF earlier
  <2> HIDE DEF m
  <2>3. index_history'[<<m, p>>] = index_history[<<m, p>>]
    BY <2>2 DEF SameEntry
  <2> QED
    BY <1>1, <2>3 DEF Latest, m
<1> QED
  BY <1>1, <1>2

LEMMA AgreesStays ==
  ASSUME NEW n \in Nat, NEW p, \A i \in 1 .. n - 1 : SameEntry(i, p), NEW view, Agrees(n, p, view),
         NEW new, p \in DOMAIN new <=> p \in DOMAIN view,
         p \in DOMAIN view => new[p].fp = view[p].fp
  PROVE  /\ p \in DOMAIN new <=> earlier(n, p)' # {} /\ Latest(n, p)'.state # "Deleted"
         /\ p \in DOMAIN new => Latest(n, p)'.fp = new[p].fp
<1>1. /\ earlier(n, p)' = earlier(n, p)
      /\ earlier(n, p) # {} => Latest(n, p)' = Latest(n, p)
  BY EarlierStays
<1>2. /\ p \in DOMAIN view <=> earlier(n, p) # {} /\ Latest(n, p).state # "Deleted"
      /\ p \in DOMAIN view => Latest(n, p).fp = view[p].fp
  BY DEF Agrees
<1> QED
  BY <1>1, <1>2

\* A new entry after all others is the latest, unless it is of a canceled scan.
LEMMA EarlierGrows ==
  ASSUME NEW n \in Nat, NEW p, NEW id \in 1 .. n - 1, \A i : i # id => SameEntry(i, p),
         ~Entered(id, p), Entered(id, p)', \A i \in 1 .. n - 1 : Entered(i, p) => i <= id
  PROVE  IF index_history'[<<id, p>>].state = "Canceled"
           THEN /\ earlier(n, p)' = earlier(n, p)
                /\ earlier(n, p) # {} => Latest(n, p)' = Latest(n, p)
           ELSE earlier(n, p)' # {} /\ Latest(n, p)' = index_history'[<<id, p>>]
<1>1. \A i \in 1 .. n - 1 : i # id =>
        /\ <<i, p>> \in DOMAIN index_history' <=> <<i, p>> \in DOMAIN index_history
        /\ <<i, p>> \in DOMAIN index_history => index_history'[<<i, p>>] = index_history[<<i, p>>]
  BY DEF SameEntry
<1>2. <<id, p>> \in DOMAIN index_history' /\ <<id, p>> \notin DOMAIN index_history
  BY DEF Entered
<1>3. CASE index_history'[<<id, p>>].state = "Canceled"
  <2>1. earlier(n, p)' = earlier(n, p)
    BY <1>1, <1>2, <1>3 DEF earlier
  <2>2. ASSUME earlier(n, p) # {} PROVE Latest(n, p)' = Latest(n, p)
    <3> DEFINE m == Max(earlier(n, p))
    <3>1. m \in earlier(n, p)
      BY <2>2, EarlierTypes
    <3>2. m \in 1 .. n - 1 /\ <<m, p>> \in DOMAIN index_history /\ m # id
      BY <1>2, <3>1 DEF earlier
    <3> HIDE DEF m
    <3>3. index_history'[<<m, p>>] = index_history[<<m, p>>]
      BY <1>1, <3>2
    <3> QED
      BY <2>1, <3>3 DEF Latest, m
  <2> QED
    BY <1>3, <2>1, <2>2
<1>4. CASE index_history'[<<id, p>>].state # "Canceled"
  <2> DEFINE T == earlier(n, p)'
  <2>1. id \in T /\ T \subseteq 0 .. n
    BY <1>2, <1>4 DEF earlier
  <2>2. \A i \in T : i <= id
    BY <1>1 DEF earlier, Entered
  <2>3. Max(T) = id
    <3> HIDE DEF T
    <3> QED
      BY <2>1, <2>2, MaxIs
  <2> QED
    BY <1>4, <2>1, <2>3 DEF Latest
<1> QED
  BY <1>3, <1>4

LEMMA NextIndexTold ==
  ASSUME DiffInv, Next, Unspoiled'
  PROVE  IndexTold'
<1> DEFINE n == MaxScanId + 1
<1> SUFFICES ASSUME NEW p \in Paths \ overtaken'
             PROVE  /\ p \in DOMAIN index_current'
                         <=> earlier(n, p)' # {} /\ Latest(n, p)'.state # "Deleted"
                    /\ p \in DOMAIN index_current' => Latest(n, p)'.fp = index_current'[p].fp
  BY DEF IndexTold, Agrees
<1>0. /\ Unspoiled /\ IndexTold /\ BaselineTold /\ p \notin overtaken
      /\ n \in Nat /\ ScanIds = 1 .. n - 1 /\ \A i \in ScanIds : i \in Nat
  BY HistoryGrows, BoundsAssumption DEF DiffInv, Ledger, ScanIds, ViewInv, TableInv
<1>1. Agrees(n, p, index_current)
  BY <1>0 DEF IndexTold
<1> HIDE DEF n
<1>2. /\ p \in DOMAIN index_current <=> earlier(n, p) # {} /\ Latest(n, p).state # "Deleted"
      /\ p \in DOMAIN index_current => Latest(n, p).fp = index_current[p].fp
  BY <1>1 DEF Agrees
<1>3. CASE Untouched(p)
  <2>1. SameRow(p) /\ \A i \in 1 .. n - 1 : SameEntry(i, p)
    BY <1>3 DEF Untouched
  <2> DEFINE new == index_current'
  <2>2. /\ p \in DOMAIN new <=> p \in DOMAIN index_current
        /\ p \in DOMAIN index_current => new[p].fp = index_current[p].fp
    BY <2>1 DEF SameRow
  <2> HIDE DEF new
  <2>3. /\ p \in DOMAIN new <=> earlier(n, p)' # {} /\ Latest(n, p)'.state # "Deleted"
        /\ p \in DOMAIN new => Latest(n, p)'.fp = new[p].fp
    BY <1>0, <1>1, <2>1, <2>2, AgreesStays
  <2> QED
    BY <2>3 DEF new
<1>4. ASSUME NEW id \in ScanIds, NotYet(id, p), \A i : i # id => SameEntry(i, p), Entered(id, p)'
      PROVE  IF index_history'[<<id, p>>].state = "Canceled"
               THEN /\ earlier(n, p)' = earlier(n, p)
                    /\ earlier(n, p) # {} => Latest(n, p)' = Latest(n, p)
               ELSE earlier(n, p)' # {} /\ Latest(n, p)' = index_history'[<<id, p>>]
  <2>1. id \in DOMAIN root_of /\ p \in Scope(root_of[id]) \ overtaken /\ ~Entered(id, p)
    BY <1>0, <1>4 DEF NotYet
  <2>2. \A i \in ScanIds : Entered(i, p) => i <= id
    BY <1>0, <2>1 DEF BaselineTold
  <2> QED
    BY <1>0, <1>4, <2>1, <2>2, EarlierGrows
<1>5. ASSUME NEW id \in ScanIds, Commits1(id, p)
      PROVE  /\ p \in DOMAIN index_current'
             /\ earlier(n, p)' # {} /\ Latest(n, p)'.state # "Deleted"
             /\ Latest(n, p)'.fp = index_current'[p].fp
  <2>1. PICK e \in Events :
           /\ e.id = id /\ e.path = p
           /\ p \in DOMAIN index_current' /\ index_current'[p] = EventRow(e)
           /\ <<id, p>> \in DOMAIN index_history' <=> ~same_fingerprint(index_current, e)
           /\ <<id, p>> \in DOMAIN index_history' => index_history'[<<id, p>>] = EventEntry(e)
    BY <1>5 DEF Commits1
  <2>2. NotYet(id, p) /\ \A i : i # id => SameEntry(i, p)
    BY <1>5 DEF Commits1
  <2>3. CASE same_fingerprint(index_current, e)
    <3>1. p \in DOMAIN index_current /\ index_current[p].fp = e.fp /\ index_current'[p].fp = e.fp
      BY <2>1, <2>3 DEF same_fingerprint, EventRow
    <3>2. SameEntry(id, p)
      BY <2>1, <2>2, <2>3 DEF SameEntry, NotYet, Entered
    <3>3. \A i \in 1 .. n - 1 : SameEntry(i, p)
      <4> SUFFICES ASSUME NEW i \in 1 .. n - 1 PROVE SameEntry(i, p)
        OBVIOUS
      <4>1. CASE i = id
        BY <3>2, <4>1 DEF SameEntry
      <4> QED
        BY <2>2, <4>1
    <3>4. /\ earlier(n, p)' = earlier(n, p)
          /\ earlier(n, p) # {} => Latest(n, p)' = Latest(n, p)
      BY <1>0, <3>3, EarlierStays
    <3> QED
      BY <1>2, <2>1, <3>1, <3>4
  <2>4. CASE ~same_fingerprint(index_current, e)
    <3>1. Entered(id, p)' /\ index_history'[<<id, p>>] = EventEntry(e)
      BY <2>1, <2>4 DEF Entered
    <3>2. /\ EventEntry(e).state # "Canceled" /\ EventEntry(e).state # "Deleted"
          /\ EventEntry(e).fp = EventRow(e).fp
      BY DEF EventEntry, EventRow
    <3>3. earlier(n, p)' # {} /\ Latest(n, p)' = index_history'[<<id, p>>]
      BY <1>4, <2>2, <3>1, <3>2
    <3> QED
      BY <2>1, <3>1, <3>2, <3>3
  <2> QED
    BY <2>3, <2>4
<1>6. ASSUME NEW id \in ScanIds, Marks1(id, p)
      PROVE  /\ p \in DOMAIN index_current'
                  <=> earlier(n, p)' # {} /\ Latest(n, p)'.state # "Deleted"
             /\ p \in DOMAIN index_current' => Latest(n, p)'.fp = index_current'[p].fp
  <2>1. /\ NotYet(id, p) /\ \A i : i # id => SameEntry(i, p)
        /\ Entered(id, p)' /\ p \in DOMAIN index_current
        /\ IF sentinel.canceled THEN SameRow(p) ELSE p \notin DOMAIN index_current'
        /\ index_history'[<<id, p>>].state = IF sentinel.canceled THEN "Canceled" ELSE "Deleted"
    BY <1>6 DEF Marks1, Entered
  <2>2. CASE sentinel.canceled
    <3>1. /\ earlier(n, p)' = earlier(n, p)
          /\ earlier(n, p) # {} => Latest(n, p)' = Latest(n, p)
      BY <1>4, <2>1, <2>2
    <3> QED
      BY <1>2, <2>1, <2>2, <3>1 DEF SameRow
  <2>3. CASE ~sentinel.canceled
    <3>1. Latest(n, p)' = index_history'[<<id, p>>]
      BY <1>4, <2>1, <2>3
    <3> QED
      BY <2>1, <2>3, <3>1
  <2> QED
    BY <2>2, <2>3
<1> QED
  BY <1>0, <1>3, <1>5, <1>6, PathSteps

LEMMA NextBaselineTold ==
  ASSUME DiffInv, Next, Unspoiled'
  PROVE  BaselineTold'
<1> SUFFICES ASSUME NEW id \in DOMAIN root_of', NEW p \in Scope(root_of'[id]) \ overtaken'
             PROVE  /\ \A i \in ScanIds : Entered(i, p)' => i <= id
                    /\ p \in DOMAIN baseline'[id]
                         <=> earlier(id, p)' # {} /\ Latest(id, p)'.state # "Deleted"
                    /\ p \in DOMAIN baseline'[id] => Latest(id, p)'.fp = baseline'[id][p].fp
  BY DEF BaselineTold, Agrees, Scope
<1>0. /\ Unspoiled /\ IndexTold /\ BaselineTold /\ Types /\ p \notin overtaken
      /\ DOMAIN root_of \subseteq ScanIds
      /\ MaxScanId + 1 \in Nat /\ ScanIds = 1 .. (MaxScanId + 1) - 1 /\ \A i \in ScanIds : i \in Nat
  BY HistoryGrows, BoundsAssumption
     DEF DiffInv, Ledger, ScanIds, ViewInv, TableInv, ExportInv, Types
<1>00. id \in ScanIds /\ id \in Nat
  <2>1. Types'
    BY NextTypes DEF DiffInv, ViewInv, TableInv, ExportInv
  <2> QED
    BY <1>0, <2>1 DEF Types
<1>1. CASE Begun(id)
  <2> DEFINE n == MaxScanId + 1
  <2>1. /\ UNCHANGED <<index_current, index_history>> /\ id \notin UsedIds
        /\ root_of'[id] \in Paths
        /\ baseline'[id] = Restrict(index_current, DOMAIN index_current \cap Scope(root_of'[id]))
        /\ \A k \in DOMAIN index_history : k[2] = p => ~(k[1] > id)
    BY <1>1 DEF Begun, tables
  <2>2. p \in Paths
    BY <2>1, Scopes
  <2>3. \A i \in ScanIds : Entered(i, p) => i < id
    <3> SUFFICES ASSUME NEW i \in ScanIds, Entered(i, p) PROVE i < id
      OBVIOUS
    <3>1. <<i, p>> \in DOMAIN index_history /\ <<i, p>>[1] = i /\ <<i, p>>[2] = p
      BY DEF Entered
    <3>2. i \in UsedIds
      BY <3>1 DEF UsedIds
    <3>3. i # id /\ ~(i > id)
      BY <2>1, <3>1, <3>2
    <3> QED
      BY <1>0, <1>00, <3>3
  <2>4. earlier(id, p) = earlier(n, p)
    <3>1. 1 .. id - 1 \subseteq 1 .. n - 1 /\ \A i \in 1 .. n - 1 : i < id => i \in 1 .. id - 1
      BY <1>0, <1>00
    <3>2. \A i \in 1 .. n - 1 : <<i, p>> \in DOMAIN index_history => i < id
      BY <1>0, <2>3 DEF Entered
    <3> QED
      BY <3>1, <3>2 DEF earlier
  <2>5. Agrees(n, p, index_current)
    BY <1>0, <2>2 DEF IndexTold
  <2> HIDE DEF n
  <2>6. /\ p \in DOMAIN index_current <=> earlier(id, p) # {} /\ Latest(id, p).state # "Deleted"
        /\ p \in DOMAIN index_current => Latest(id, p).fp = index_current[p].fp
    BY <2>4, <2>5 DEF Agrees, Latest
  <2>7. earlier(id, p)' = earlier(id, p) /\ Latest(id, p)' = Latest(id, p)
    BY <2>1 DEF earlier, Latest
  <2>8. /\ p \in DOMAIN baseline'[id] <=> p \in DOMAIN index_current
        /\ p \in DOMAIN index_current => baseline'[id][p] = index_current[p]
    BY <2>1 DEF Restrict
  <2>9. \A i \in ScanIds : Entered(i, p)' => i <= id
    BY <1>0, <1>00, <2>1, <2>3 DEF Entered
  <2> QED
    BY <2>6, <2>7, <2>8, <2>9
<1>2. CASE Stays(id)
  <2>1. id \in DOMAIN root_of /\ p \in Scope(root_of[id]) \ overtaken /\ baseline'[id] = baseline[id]
    BY <1>0, <1>2 DEF Stays
  <2>2. Agrees(id, p, baseline[id]) /\ \A i \in ScanIds : Entered(i, p) => i <= id
    BY <1>0, <2>1 DEF BaselineTold
  <2>3. \A i \in ScanIds : i # id => SameEntry(i, p)
    <3>1. \A i : i # id => SameEntry(i, p)
      BY <1>0, <2>1, OwnSteps DEF Untouched, Commits1, Marks1
    <3> QED
      BY <3>1
  <2>4. \A i \in 1 .. id - 1 : SameEntry(i, p)
    <3>1. \A i \in 1 .. id - 1 : i \in ScanIds /\ i # id
      BY <1>0, <1>00
    <3> QED
      BY <2>3, <3>1
  <2> DEFINE view == baseline[id]
  <2> HIDE DEF view
  <2>5. Agrees(id, p, view)
    BY <2>2 DEF view
  <2>6. /\ p \in DOMAIN view <=> earlier(id, p)' # {} /\ Latest(id, p)'.state # "Deleted"
        /\ p \in DOMAIN view => Latest(id, p)'.fp = view[p].fp
    BY <1>00, <2>4, <2>5, AgreesStays
  <2>7. \A i \in ScanIds : Entered(i, p)' => i <= id
    <3> SUFFICES ASSUME NEW i \in ScanIds, Entered(i, p)', i # id PROVE i <= id
      BY <1>00
    <3>1. Entered(i, p)
      BY <2>3 DEF SameEntry, Entered
    <3> QED
      BY <2>2, <3>1
  <2> QED
    BY <2>1, <2>6, <2>7 DEF view
<1> QED
  BY <1>1, <1>2, ScanSteps

LEMMA NextDiffWritten ==
  ASSUME DiffInv, Next, Unspoiled'
  PROVE  DiffWritten'
<1> DEFINE compared(i) == i \in failed \/ (Handling(i) /\ writer \in {"count", "publish"})
<1>0. /\ Unspoiled /\ DiffWritten /\ ExportInv /\ Ordered /\ Shown
  BY HistoryGrows DEF DiffInv, Ledger, ViewInv, TableInv
<1>1. ASSUME NEW k \in DOMAIN scan_diff_table', NEW i \in DOMAIN root_of', i = k[1]
      PROVE  compared(i)'
  <2>1. CASE k \in DOMAIN scan_diff_table
    <3>1. ~Begun(i)
      <4>1. i \in UsedIds
        BY <1>0, <1>1, <2>1 DEF Shown, UsedIds
      <4> QED
        BY <4>1 DEF Begun
    <3>2. i \in DOMAIN root_of /\ (Closed(i) => Closed(i)')
      BY <3>1, ScanSteps DEF Stays
    <3>3. compared(i)
      BY <1>0, <1>1, <2>1, <3>2 DEF DiffWritten
    <3>4. Closed(i)'
      BY <3>2, <3>3 DEF Closed, Marked
    <3>5. CASE i \in failed'
      BY <3>5
    <3>6. CASE Handling(i)' /\ Marked'
      <4>1. \/ finalize_marks \/ finalize_diffs \/ finalize_counts
            \/ UNCHANGED <<writer, handled, row, tables>>
        BY <1>0, <3>6, RegularSteps
      <4>2. UNCHANGED handled
        BY <1>0, <4>1 DEF finalize_marks, finalize_diffs, finalize_counts, finalize_step
      <4>3. Handling(i) /\ i \notin failed
        BY <1>0, <3>6, <4>2 DEF Handling, sentinel, Ordered
      <4>4. writer \in {"count", "publish"}
        BY <3>3, <4>3
      <4>5. writer' \in {"count", "publish"}
        BY <4>1, <4>4 DEF finalize_marks, finalize_diffs, finalize_counts, finalize_step
      <4> QED
        BY <3>6, <4>5
    <3> QED
      BY <3>4, <3>5, <3>6 DEF Closed
  <2>2. CASE k \notin DOMAIN scan_diff_table
    <3>1. ~UNCHANGED scan_diff_table
      BY <1>1, <2>2
    <3>2. finalize_diffs
      <4>1. ~(pop_event \/ pop_sentinel \/ stop_writing)
        BY <3>1 DEF pop_event, pop_sentinel, stop_writing, commit_batch, commit, tables
      <4>2. ~UNCHANGED tables
        BY <3>1 DEF tables
      <4>3. ~(finalize_inserts \/ finalize_marks \/ finalize_counts)
        BY <3>1 DEF finalize_inserts, finalize_marks, finalize_counts, insert_scan, mark_deleted,
           upsert_count, set_count
      <4> QED
        BY <1>0, <4>1, <4>2, <4>3, RegularSteps
    <3>3. PICK id \in ScanIds :
             id = sentinel.id /\ sentinel' = sentinel /\ handled # <<>> /\ UNCHANGED handled
      BY <1>0, <3>2, FinalizesAre DEF finalize_diffs, finalized
    <3>4. writer' = "count" /\ find_scan_diff(id)
      BY <3>2, <3>3 DEF finalize_diffs, finalize_step
    <3>5. k[1] = id
      BY <2>2, <3>4 DEF find_scan_diff, write_diff, history_of, Insert
    <3> QED
      BY <1>1, <3>3, <3>4, <3>5 DEF Handling
  <2> QED
    BY <2>1, <2>2
<1>2. ASSUME writer' \in {"count", "publish"}, NEW k \in DOMAIN scan_diff_table', k[1] = sentinel'.id
      PROVE  scan_diff_table'[k] = diff_row(k[1], k[2])'
  <2>0. Marked'
    BY <1>2 DEF Marked
  <2>1. ASSUME UNCHANGED <<index_history, scan_diff_table, handled>>, writer \in {"count", "publish"}
        PROVE  scan_diff_table'[k] = diff_row(k[1], k[2])'
    <3>1. scan_diff_table[k] = diff_row(k[1], k[2])
      BY <1>0, <1>2, <2>1 DEF DiffWritten, sentinel
    <3>2. diff_row(k[1], k[2])' = diff_row(k[1], k[2])
      BY <2>1 DEF diff_row, earlier
    <3> QED
      BY <2>1, <3>1, <3>2
  <2>2. CASE UNCHANGED <<writer, handled, row, tables>>
    BY <1>2, <2>1, <2>2 DEF tables
  <2>3. CASE finalize_counts
    <3>1. UNCHANGED <<index_history, scan_diff_table>> /\ writer = "count"
      BY <2>3 DEF finalize_counts, finalize_step, upsert_count, set_count
    <3>2. UNCHANGED handled
      BY <2>3 DEF finalize_counts, finalize_step
    <3> QED
      BY <2>1, <3>1, <3>2
  <2>4. CASE finalize_marks
    BY <1>2, <2>4 DEF finalize_marks, finalize_step
  <2>5. CASE finalize_diffs
    <3>1. PICK id \in ScanIds :
             /\ id = sentinel.id /\ sentinel' = sentinel /\ handled # <<>> /\ id \in DOMAIN root_of
      BY <1>0, <2>5, FinalizesAre DEF finalize_diffs, finalized
    <3>2. writer = "diff" /\ find_scan_diff(id)
      BY <2>5, <3>1 DEF finalize_diffs, finalize_step
    <3>3. \A l \in DOMAIN scan_diff_table : l[1] # id
      <4> SUFFICES ASSUME NEW l \in DOMAIN scan_diff_table, l[1] = id PROVE FALSE
        OBVIOUS
      <4>1. id \in failed
        BY <1>0, <3>1, <3>2 DEF DiffWritten
      <4> QED
        BY <1>0, <3>1, <4>1 DEF Ordered, Handling
    <3>4. scan_diff_table'[k] = diff_row(id, k[2])
      <4> HIDE DEF diff_row
      <4> QED
        BY <1>2, <3>1, <3>2, <3>3 DEF find_scan_diff, write_diff, history_of, Insert
    <3>5. diff_row(id, k[2])' = diff_row(id, k[2])
      BY <3>2 DEF find_scan_diff, write_diff, diff_row, earlier
    <3> QED
      BY <1>2, <3>1, <3>4, <3>5
  <2> QED
    BY <1>0, <2>0, <2>2, <2>3, <2>4, <2>5, RegularSteps
<1> QED
  BY <1>1, <1>2 DEF DiffWritten

-----------------------------------------------------------------------------
(* The diff of a scan *)

LEMMA DiffInvariance == SafeSpec => []DiffInv
<1>1. Init => OnlyOnce /\ DOMAIN baseline = DOMAIN root_of /\ Ledger
  <2> SUFFICES ASSUME Init PROVE OnlyOnce /\ DOMAIN baseline = DOMAIN root_of /\ Ledger
    OBVIOUS
  <2>1. /\ root_of = EmptyTable /\ baseline = EmptyTable /\ index_current = EmptyTable
        /\ index_history = EmptyTable /\ scan_diff_table = EmptyTable
        /\ batch = <<>> /\ result_queue = <<>> /\ writer = "pop"
    BY DEF Init, TablesInit, ExportInit
  <2>2. /\ DOMAIN root_of = {} /\ DOMAIN index_current = {} /\ DOMAIN index_history = {}
        /\ DOMAIN scan_diff_table = {}
    BY <2>1 DEF EmptyTable
  <2>3. OnlyOnce
    BY <2>1 DEF OnlyOnce, OneEach, ToSet
  <2>4. PendingIsNew
    BY <2>1 DEF PendingIsNew, Items, ToSet
  <2>5. IndexTold
    BY <2>2 DEF IndexTold, Agrees, earlier
  <2>6. BaselineTold /\ OwnEntries /\ KeptRows /\ WrittenRows
    BY <2>2 DEF BaselineTold, OwnEntries, KeptRows, WrittenRows
  <2>7. MarkedRows /\ DiffWritten
    BY <2>1, <2>2 DEF MarkedRows, Marked, DiffWritten
  <2> QED
    BY <2>1, <2>3, <2>4, <2>5, <2>6, <2>7 DEF Ledger
<1>2. DiffInv /\ ViewInv' /\ [Next]_vars => DiffInv'
  <2> SUFFICES ASSUME DiffInv, ViewInv', [Next]_vars PROVE DiffInv'
    OBVIOUS
  <2>1. CASE Next
    <3>1. ViewInv /\ OnlyOnce /\ ExportInv /\ DOMAIN baseline = DOMAIN root_of
      BY DEF DiffInv, ViewInv, TableInv
    <3>2. OnlyOnce' /\ DOMAIN baseline' = DOMAIN root_of'
      BY <2>1, <3>1, NextOnlyOnce, NextBaselines
    <3>3. ASSUME Unspoiled' PROVE Ledger'
      <4>1. PendingIsNew
        BY <2>1, <3>1, <3>3, HistoryGrows DEF DiffInv, Ledger
      <4>2. PendingIsNew'
        BY <2>1, <3>1, <3>3, <4>1, NextPendingIsNew
      <4> QED
        BY <2>1, <3>3, <4>2, NextIndexTold, NextBaselineTold, NextOwnEntries, NextKeptRows,
           NextWrittenRows, NextMarkedRows, NextDiffWritten DEF Ledger
    <3> QED
      BY <3>2, <3>3 DEF DiffInv
  <2>2. CASE UNCHANGED vars
    <3>1. UNCHANGED <<index_current, index_history, scan_diff_table, root_of, reused, unwritten,
                      overtaken, baseline, writer, batch, result_queue, handled, row, failed>>
      BY <2>2 DEF vars, tables, export_vars, queue_vars, writer_vars, scan_vars,
         registry_vars, start_vars, history_vars
    <3>2. OnlyOnce'
      BY <3>1 DEF DiffInv, OnlyOnce
    <3>3. ASSUME Ledger PROVE Ledger'
      <4>1. PendingIsNew'
        BY <3>1, <3>3 DEF Ledger, PendingIsNew, Items, Written
      <4>2. IndexTold'
        BY <3>1, <3>3 DEF Ledger, IndexTold, Agrees, earlier, Latest
      <4>3. BaselineTold'
        BY <3>1, <3>3 DEF Ledger, BaselineTold, Agrees, earlier, Latest, Entered, Scope
      <4>4. OwnEntries'
        BY <3>1, <3>3 DEF Ledger, OwnEntries, Entered, Scope, Written, Closed, Handling, Marked,
           sentinel
      <4>5. KeptRows'
        BY <3>1, <3>3 DEF Ledger, KeptRows, Scope, Written, Closed, Handling, Marked, sentinel
      <4>6. WrittenRows'
        BY <3>1, <3>3 DEF Ledger, WrittenRows, Entered, Scope, Written
      <4>7. MarkedRows'
        BY <3>1, <3>3 DEF Ledger, MarkedRows, Marked, Entered, Scope, Written, sentinel
      <4>8. DiffWritten'
        BY <3>1, <3>3 DEF Ledger, DiffWritten, Handling, sentinel, diff_row, earlier
      <4> QED
        BY <4>1, <4>2, <4>3, <4>4, <4>5, <4>6, <4>7, <4>8 DEF Ledger
    <3> QED
      BY <3>1, <3>2, <3>3 DEF DiffInv, Unspoiled
  <2> QED
    BY <2>1, <2>2
<1>3. Init /\ ViewInv => DiffInv
  BY <1>1 DEF DiffInv
<1> QED
  BY <1>2, <1>3, ViewInvariance, PTL DEF SafeSpec

(* The diff that find_scan_diff() makes of the history of all scans, by    *)
(* ids and without the canceled scans (index_writer.cpp, scan_diff), is    *)
(* path by path the difference between the index when the scan began and   *)
(* when it was written, whatever scans were canceled, failed or lost with  *)
(* a restart in between; as long as no id is drawn twice and the scans of  *)
(* a path begin in the order of their ids; and as long as no statement     *)
(* fails.                                                                  *)
THEOREM DiffIsTheDifference == SafeSpec => []DiffIsExact
<1>1. DiffInv => DiffIsExact
  <2> SUFFICES ASSUME DiffInv, writer \in {"count", "publish"}, Unspoiled,
                      Scope(row[1].root) \cap overtaken = {}, NEW id, id = sentinel.id
               PROVE  LET differing == {p \in Scope(row[1].root) : Differs(id, p)}
                      IN /\ {k[2] : k \in {k \in DOMAIN scan_diff_table : k[1] = id}} = differing
                         /\ \A p \in differing :
                              /\ scan_diff_table[<<id, p>>].state = ExpectedState(id, p)
                              /\ p \in DOMAIN baseline[id] =>
                                   scan_diff_table[<<id, p>>].old = baseline[id][p].fp
    BY DEF DiffIsExact, Unspoiled
  <2> DEFINE root == row[1].root
             differing == {p \in Scope(root) : Differs(id, p)}
  <2>0. /\ ViewInv /\ Types /\ Shown /\ RowTypes /\ OnlyWritten /\ BaselineTold /\ OwnEntries
        /\ WrittenRows /\ MarkedRows /\ DiffWritten /\ Marked /\ writer \in Finalizing
    BY DEF DiffInv, Ledger, ViewInv, TableInv, ExportInv, Views, Marked, Finalizing
  <2>1. /\ id \in DOMAIN root_of /\ root = root_of[id] /\ root \in Paths /\ id \in ScanIds
        /\ \A p \in visited(id) : Written(id, p)
    BY <2>0, AllWritten DEF Types, Unspoiled
  <2>2. \A p \in Scope(root) : p \in visited(id) <=> Written(id, p)
    BY <2>0, <2>1 DEF OnlyWritten, Written, Unspoiled
  <2>3. Scope(root) \subseteq Paths /\ descendants[root] = Below[root]
    BY <2>1, Scopes, PatternMatchesTree
  <2>4. \A p \in Scope(root) \ overtaken : Agrees(id, p, baseline[id])
    BY <2>0, <2>1 DEF BaselineTold
  <2>5. ASSUME NEW p \in Scope(root)
        PROVE  /\ Differs(id, p) <=> Entered(id, p)
               /\ Written(id, p) /\ Entered(id, p) =>
                    index_history[<<id, p>>].state = index_current[p].state
               /\ ~Written(id, p) /\ Entered(id, p) =>
                    index_history[<<id, p>>].state = IF sentinel.canceled THEN "Canceled" ELSE "Deleted"
    <3>1. CASE Written(id, p)
      <4>1. /\ Entered(id, p)
                 <=> ~(p \in DOMAIN baseline[id] /\ baseline[id][p].fp = index_current[p].fp)
            /\ Entered(id, p) => index_history[<<id, p>>].state = index_current[p].state
        BY <2>0, <2>1, <3>1 DEF WrittenRows
      <4> QED
        BY <2>2, <3>1, <4>1 DEF Differs
    <3>2. CASE ~Written(id, p)
      <4>1. /\ Entered(id, p) <=> p \in DOMAIN baseline[id] \cap Below[root]
            /\ Entered(id, p) =>
                 index_history[<<id, p>>].state = IF sentinel.canceled THEN "Canceled" ELSE "Deleted"
        BY <2>0, <3>2 DEF MarkedRows
      <4> QED
        BY <2>2, <2>3, <3>2, <4>1 DEF Differs
    <3> QED
      BY <3>1, <3>2
  <2>6. {k \in DOMAIN scan_diff_table : k[1] = id} = {k \in DOMAIN index_history : k[1] = id}
    BY <2>0, <2>1 DEF Shown, Whole, KeysOf, Unspoiled
  <2>7. \A k \in DOMAIN index_history : k[1] = id => k[2] \in Scope(root) /\ k = <<id, k[2]>>
    <3> SUFFICES ASSUME NEW k \in DOMAIN index_history, k[1] = id
                 PROVE  k[2] \in Scope(root) /\ k = <<id, k[2]>>
      OBVIOUS
    <3>1. k \in ScanIds \X Paths
      BY <2>0 DEF RowTypes, TablesTypeOK
    <3>2. k = <<id, k[2]>> /\ k[2] \in Paths
      BY <3>1
    <3>3. Entered(id, k[2])
      BY <3>2 DEF Entered
    <3> QED
      BY <2>0, <2>1, <3>2, <3>3 DEF OwnEntries
  <2>8. {k[2] : k \in {k \in DOMAIN scan_diff_table : k[1] = id}} = differing
    <3>1. \A k \in DOMAIN index_history : k[1] = id => k[2] \in differing
      BY <2>5, <2>7 DEF Entered
    <3>2. \A p \in differing : <<id, p>> \in DOMAIN index_history /\ <<id, p>>[1] = id /\ <<id, p>>[2] = p
      BY <2>5 DEF Entered
    <3> HIDE DEF differing
    <3> QED
      BY <2>6, <3>1, <3>2
  <2>9. ASSUME NEW p \in differing
        PROVE  /\ scan_diff_table[<<id, p>>].state = ExpectedState(id, p)
               /\ p \in DOMAIN baseline[id] => scan_diff_table[<<id, p>>].old = baseline[id][p].fp
    <3> DEFINE now == index_history[<<id, p>>].state
               before == earlier(id, p)
               view == baseline[id]
    <3>1. p \in Scope(root) /\ p \notin overtaken /\ Entered(id, p) /\ Differs(id, p)
      BY <2>5
    <3>2. scan_diff_table[<<id, p>>] = diff_row(id, p)
      <4>1. <<id, p>> \in DOMAIN scan_diff_table /\ <<id, p>>[1] = id /\ <<id, p>>[2] = p
        BY <2>6, <3>1 DEF Entered
      <4> HIDE DEF diff_row
      <4> QED
        BY <2>0, <4>1 DEF DiffWritten
    <3>3. /\ diff_row(id, p).state
               = CASE now # "Alive" -> now
                   [] now = "Alive" /\ (before = {} \/ Latest(id, p).state = "Deleted") -> "New"
                   [] OTHER -> "Changed"
          /\ diff_row(id, p).old = IF before = {} THEN 0 ELSE Latest(id, p).fp
      BY DEF diff_row, Latest
    <3>4. /\ p \in DOMAIN view <=> before # {} /\ Latest(id, p).state # "Deleted"
          /\ p \in DOMAIN view => Latest(id, p).fp = view[p].fp
      <4>1. Agrees(id, p, view)
        BY <2>4, <3>1
      <4> HIDE DEF view
      <4> QED
        BY <4>1 DEF Agrees
    <3> HIDE DEF view, before
    <3>5. p \in DOMAIN view => diff_row(id, p).old = view[p].fp
      BY <3>3, <3>4
    <3>6. CASE Written(id, p)
      <4>1. p \in visited(id) /\ now = index_current[p].state /\ now \in {"Alive", "Error"}
        BY <2>0, <2>2, <2>5, <3>1, <3>6 DEF RowTypes, TablesTypeOK, Written
      <4> HIDE DEF now
      <4>2. CASE now = "Error"
        <5>1. diff_row(id, p).state = "Error"
          BY <3>3, <4>2
        <5>2. ExpectedState(id, p) = "Error"
          BY <4>1, <4>2 DEF ExpectedState
        <5> QED
          BY <3>2, <3>5, <5>1, <5>2 DEF view
      <4>3. CASE now = "Alive"
        <5>1. diff_row(id, p).state = IF p \in DOMAIN view THEN "Changed" ELSE "New"
          BY <3>3, <3>4, <4>3
        <5>2. ExpectedState(id, p) = IF p \in DOMAIN view THEN "Changed" ELSE "New"
          BY <4>1, <4>3 DEF ExpectedState, view
        <5> QED
          BY <3>2, <3>5, <5>1, <5>2 DEF view
      <4> QED
        BY <4>1, <4>2, <4>3
    <3>7. CASE ~Written(id, p)
      <4>1. p \notin visited(id) /\ now = IF sentinel.canceled THEN "Canceled" ELSE "Deleted"
        BY <2>2, <2>5, <3>1, <3>7
      <4> HIDE DEF now
      <4>2. diff_row(id, p).state = now
        BY <3>3, <4>1
      <4>3. ExpectedState(id, p) = now
        BY <4>1 DEF ExpectedState
      <4> QED
        BY <3>2, <3>5, <4>2, <4>3 DEF view
    <3> QED
      BY <3>6, <3>7
  <2> QED
    BY <2>8, <2>9
<1> QED
  BY <1>1, DiffInvariance, PTL

-----------------------------------------------------------------------------
(* The summary of the index *)

\* The top root of any set of paths, and its entries.
LEMMA TopRootCovers ==
  ASSUME NEW ps \in SUBSET Paths, ~Continued(ps)
  PROVE  Covered(ps, top_root(ps))
<1> DEFINE root == top_root(ps)  S == {TextOf[q] : q \in ps}
<1> SUFFICES \A p \in ps :
               /\ Within(TextOf[p], root)
               /\ TextOf[p] # root =>
                    \E g \in group_by_folder_in_snd_layer(ps, root) :
                       g[1] = p /\ Within(TextOf[p], g[2]) /\ g[2] # root
  BY Zenon DEF Covered
<1> TAKE p \in ps
<1>1. IsFiniteSet(ps)
  BY PathsAssumption, FS_Subset
<1>2. S \in SUBSET Texts /\ IsFiniteSet(S) /\ S # {} /\ TextOf[p] \in S
  <2>1. \A q \in ps : TextOf[q] \in Texts
    BY TextsOfPaths
  <2>2. S \in SUBSET Texts /\ TextOf[p] \in S
    BY <2>1
  <2>3. [q \in ps |-> TextOf[q]] \in Surjection(ps, S)
    BY DEF Surjection
  <2>4. IsFiniteSet(S)
    <3> HIDE DEF S
    <3> QED
      BY <1>1, <2>3, FS_Surjection
  <2> QED
    BY <2>2, <2>4
<1>3. \A t \in S : t # <<>> /\ t[1] = Slash
  BY PathsAssumption
<1>4. root = get_top_root_in_index(S)
  BY DEF top_root
<1> HIDE DEF root
<1>5. ASSUME NEW a \in S PROVE ~Hides(a, TextOf[p])
  <2>1. PICK q \in ps : a = TextOf[q]
    BY <1>5
  <2> QED
    BY <2>1 DEF Continued, Hides
<1> HIDE DEF S
<1>6. root \in Texts /\ (TextOf[p] = root \/ InDir(root, TextOf[p]))
  BY <1>2, <1>3, <1>4, <1>5, CommonParentCovers
<1>7. TextOf[p] \in Texts
  BY TextsOfPaths
<1>8. Within(TextOf[p], root)
  BY <1>6, <1>7, Slashed DEF Within
<1>9. ASSUME TextOf[p] # root
      PROVE  \E g \in group_by_folder_in_snd_layer(ps, root) :
                g[1] = p /\ Within(TextOf[p], g[2]) /\ g[2] # root
  <2> DEFINE entry == get_snd_layer(TextOf[p], root)
  <2>1. InDir(root, TextOf[p])
    BY <1>6, <1>9
  <2>2. entry \in Texts /\ InDir(root, entry) /\ (TextOf[p] = entry \/ InDir(entry, TextOf[p]))
    BY <1>6, <1>7, <2>1, SecondLayer
  <2>3. GLOB(TextOf[p], glob_pattern(root))
    BY <1>6, <1>7, <2>1, Slashed
  <2>4. <<p, entry>> \in group_by_folder_in_snd_layer(ps, root)
    BY <2>3 DEF group_by_folder_in_snd_layer
  <2> HIDE DEF entry
  <2>5. Within(TextOf[p], entry)
    BY <1>7, <2>2, Slashed DEF Within
  <2>6. entry # root
    BY <1>6, <2>2, TextIs DEF InDir
  <2> QED
    BY <2>4, <2>5, <2>6
<1> QED
  BY <1>8, <1>9

(* The index page groups every indexed path under an entry of the          *)
(* directory that get_common_parent() makes of MIN(path) and MAX(path)     *)
(* (index_reader.cpp:159, 253), whatever was scanned, and the top root     *)
(* covers them all, but for the names that sort between a directory and    *)
(* what is in it.                                                          *)
THEOREM TopRootCoversIndex == SafeSpec => []SummaryCoversIndex
<1>1. TableInv => SummaryCoversIndex
  <2>1. TableInv => DOMAIN index_current \in SUBSET Paths
    BY DEF TableInv, RowTypes, TablesTypeOK
  <2> QED
    BY <2>1, TopRootCovers DEF SummaryCoversIndex, CoveredIndexes
<1> QED
  BY <1>1, TableInvariance, PTL

-----------------------------------------------------------------------------
(* The types, and what the queue and the batch hold *)

Filled == Len(result_queue) <= EXPORT_QUEUE_SIZE /\ Len(batch) < WRITE_BATCH_SIZE

SetsOfScans ==
  /\ canceled \subseteq ScanIds /\ disturbed \subseteq ScanIds
  /\ flagged \subseteq ScanIds /\ ended \subseteq ScanIds /\ late \subseteq ScanIds
  /\ exported_map \subseteq ScanIds
  /\ DOMAIN baseline \subseteq ScanIds /\ reused \subseteq ScanIds /\ half \subseteq ScanIds
  /\ unwritten \subseteq ScanIds

Limits ==
  /\ overtaken \subseteq Paths
  /\ next_scan_id \in 1 .. MaxScanId + 1 /\ disruptions \in 0 .. MaxDisruptions

LEMMA NextFilled == ExportInv /\ Filled /\ Next => Filled'
<1> SUFFICES ASSUME ExportInv, Filled, Next PROVE Filled'
  OBVIOUS
<1>0. /\ Types /\ result_queue \in Seq(Events \cup Sentinels) /\ batch \in Seq(Events)
      /\ Len(result_queue) \in Nat /\ Len(batch) \in Nat
      /\ EXPORT_QUEUE_SIZE \in Nat \ {0} /\ WRITE_BATCH_SIZE \in Nat \ {0}
      /\ Len(result_queue) <= EXPORT_QUEUE_SIZE /\ Len(batch) < WRITE_BATCH_SIZE
  BY LenProperties, ExportAssumption DEF ExportInv, Types, Filled
<1>e. Len(<<>>) = 0
  OBVIOUS
<1>q. ASSUME UNCHANGED <<result_queue, batch>> PROVE Filled'
  BY <1>0, <1>q DEF Filled
<1>p. ASSUME NEW e \in Events \cup Sentinels, push_result_queue(e) PROVE Filled'
  <2>1. UNCHANGED batch
    BY <1>p DEF push_result_queue, writer_vars
  <2>2. CASE UNCHANGED result_queue
    BY <1>q, <2>1, <2>2
  <2>3. CASE Len(result_queue) < EXPORT_QUEUE_SIZE /\ result_queue' = Append(result_queue, e)
    <3>1. Len(result_queue') = Len(result_queue) + 1
      BY <1>0, <1>p, <2>3, AppendProperties
    <3> QED
      BY <1>0, <2>1, <2>3, <3>1 DEF Filled
  <2> QED
    BY <1>p, <2>2, <2>3 DEF push_result_queue
<1>t. ASSUME result_queue # <<>>, result_queue' = Tail(result_queue)
      PROVE  Len(result_queue') <= EXPORT_QUEUE_SIZE
  <2>1. Len(result_queue') = Len(result_queue) - 1
    BY <1>0, <1>t, HeadTailProperties
  <2> QED
    BY <1>0, <2>1
<1>1. ASSUME NEW id \in ScanIds, cancel_scan(id) \/ flag_sentinel(id) \/ hand_over_row(id)
      PROVE  Filled'
  BY <1>1, <1>q DEF cancel_scan, flag_sentinel, hand_over_row, insert_scan_task, export_vars,
     queue_vars, writer_vars
<1>r. ASSUME NEW id \in ScanIds, NEW p \in Paths,
             start_scan(id, p) \/ stop_pool_before(id, p) \/ finish_node(id, p)
      PROVE  Filled'
  BY <1>q, <1>r DEF start_scan, stop_pool_before, begin, finish_node, export_vars, queue_vars,
     writer_vars
<1>c. ASSUME NEW p \in Paths, tree_changes(p) PROVE Filled'
  BY <1>c, <1>q DEF tree_changes, export_vars, queue_vars, writer_vars
<1>2. ASSUME NEW id \in ScanIds, push_sentinel(id) PROVE Filled'
  <2>1. [sentinel |-> TRUE, id |-> id, canceled |-> id \in flagged] \in Sentinels
    BY DEF Sentinels
  <2> QED
    BY <1>2, <1>p, <2>1 DEF push_sentinel
<1>3. ASSUME NEW id \in ScanIds, NEW p \in Paths, visit_node(id, p) PROVE Filled'
  BY <1>0, <1>3, <1>p, Recorded
<1>4. CASE stop_pool \/ stop_exporting \/ get_scan_task \/ get_scan_task_throws
           \/ finalize_inserts \/ finalize_marks \/ finalize_diffs \/ finalize_counts
           \/ (\E commit_fails \in BOOLEAN : finalize_fails(commit_fails)) \/ finalize_publishes
  BY <1>4, <1>q DEF stop_pool, stop_exporting, shutdown, get_scan_task, get_scan_task_throws,
     finalize_inserts, finalize_marks, finalize_diffs, finalize_counts, finalize_step,
     finalize_fails, finalize_publishes, export_vars, queue_vars, writer_vars
<1>5. CASE pop_event
  <2>1. Len(result_queue') <= EXPORT_QUEUE_SIZE
    BY <1>5, <1>t DEF pop_event, take_event
  <2>2. Len(batch') < WRITE_BATCH_SIZE
    BY <1>0, <1>e, <1>5 DEF pop_event
  <2> QED
    BY <2>1, <2>2 DEF Filled
<1>6. CASE pop_sentinel \/ stop_writing
  <2>1. Len(result_queue') <= EXPORT_QUEUE_SIZE
    BY <1>0, <1>6, <1>t DEF pop_sentinel, take_sentinel, stop_writing, finish_writing, queue_vars
  <2>2. Len(batch') < WRITE_BATCH_SIZE
    BY <1>0, <1>e, <1>6 DEF pop_sentinel, stop_writing, commit_batch
  <2> QED
    BY <2>1, <2>2 DEF Filled
<1>7. CASE write_throws
  <2>1. UNCHANGED batch /\ (UNCHANGED result_queue \/ (result_queue # <<>> /\ result_queue' = Tail(result_queue)))
    BY <1>7 DEF write_throws
  <2> QED
    BY <1>0, <1>q, <1>t, <2>1 DEF Filled
<1>8. CASE restart
  BY <1>0, <1>e, <1>8 DEF restart, ExportStarts, Filled
<1>9. CASE commit_batch_partly
  <2>1. Len(result_queue') <= EXPORT_QUEUE_SIZE
    BY <1>0, <1>9, <1>t DEF commit_batch_partly, take_event, take_sentinel, finish_writing, queue_vars
  <2>2. batch' = <<>>
    BY <1>9 DEF commit_batch_partly
  <2> QED
    BY <1>0, <1>e, <2>1, <2>2 DEF Filled
<1>10. CASE finalize_partly
  BY <1>10, <1>q DEF finalize_partly, finalize_step, queue_vars
<1> QED
  BY <1>1, <1>2, <1>3, <1>4, <1>5, <1>6, <1>7, <1>8, <1>9, <1>10, <1>c, <1>r
     DEF Next, Regular, write_results, database_fails, statements_fail, export_done

LEMMA NextSetsOfScans == TableInv /\ SetsOfScans /\ Next => SetsOfScans'
<1> SUFFICES ASSUME TableInv, SetsOfScans, Next PROVE SetsOfScans'
  OBVIOUS
<1>0. ExportInv /\ Types /\ Thread /\ failed \subseteq ScanIds /\ DOMAIN scan_task_table \subseteq ScanIds
  BY DEF TableInv, ExportInv, Ordered, Types
<1> USE DEF SetsOfScans
<1>1. ASSUME NEW id \in ScanIds,
             cancel_scan(id) \/ flag_sentinel(id) \/ push_sentinel(id) \/ hand_over_row(id)
      PROVE  SetsOfScans'
  BY <1>1 DEF cancel_scan, flag_sentinel, push_sentinel, push_result_queue, hand_over_row,
     insert_scan_task, walk_vars, start_vars, scan_vars, registry_vars, history_vars, export_vars
<1>2. ASSUME NEW id \in ScanIds, NEW p \in Paths, start_scan(id, p) \/ stop_pool_before(id, p)
      PROVE  SetsOfScans'
  BY <1>2 DEF start_scan, stop_pool_before, begin, start_walk, stop_before, Put, export_vars
<1>3. ASSUME NEW id \in ScanIds, NEW p \in Paths, visit_node(id, p) \/ finish_node(id, p)
      PROVE  SetsOfScans'
  <2>1. UNCHANGED <<canceled, flagged, ended, late, exported_map, baseline, reused, half, unwritten>>
    BY <1>3, Walks DEF visit_node, visit_missing, visit_unreadable, visit_leaf, visit_dir,
       finish_node, skip_node, read_dir, history_vars
  <2>2. disturbed' \subseteq disturbed \cup {id}
    BY <1>3 DEF visit_node, visit_missing, visit_unreadable, visit_leaf, visit_dir, finish_node,
       skip_node, read_dir
  <2> QED
    BY <2>1, <2>2
<1>4. ASSUME NEW p \in Paths, tree_changes(p) PROVE SetsOfScans'
  BY <1>0, <1>4 DEF tree_changes, change_tree, registry_vars, start_vars, export_vars, history_vars,
     Types
<1>5. CASE stop_pool \/ stop_exporting
  BY <1>5 DEF stop_pool, stop_walks, stop_exporting, shutdown, walk_vars, scan_vars, registry_vars,
     start_vars, export_vars, history_vars
<1>6. CASE write_results \/ database_fails
  <2>1. UNCHANGED <<disturbed, baseline, reused, half, unwritten>>
    BY <1>6 DEF write_results, database_fails, walk_vars, history_vars
  <2>2. Writing \/ database_fails
    BY <1>0, <1>6, WritingSteps
  <2> QED
    BY <2>1, <2>2, Writes
<1>7. CASE export_done
  <2>1. sentinel.id \in ScanIds
    BY <1>0, <1>7, HandledId DEF export_done, finalize_publishes, Thread, Finalizing
  <2> QED
    BY <1>7, <2>1 DEF export_done, finalize_publishes, Restrict
<1>8. CASE restart
  <2>1. exported_map' \subseteq ScanIds
    BY <1>0, <1>8, LoadsAll DEF restart, ExportStarts
  <2>2. half' \subseteq ScanIds
    <3>1. writer \in {"mark", "diff", "count"} => sentinel.id \in ScanIds
      BY <1>0, HandledId DEF Thread, Finalizing
    <3> QED
      BY <1>0, <1>8, <3>1 DEF restart
  <2> QED
    BY <1>8, <2>1, <2>2 DEF restart, EmptyTable
<1>9. CASE statements_fail
  <2>1. UNCHANGED <<disturbed, baseline, reused, half>>
    BY <1>9 DEF statements_fail, walk_vars
  <2>2. unwritten' \subseteq ScanIds
    <3>1. CASE /\ commit_batch_partly
               /\ unwritten' = unwritten \cup {event.id : event \in ToSet(in_batch)}
      <4>1. \A event \in ToSet(in_batch) : event.id \in ScanIds
        BY <1>0, <3>1, InBatch, EventTypes
      <4> QED
        BY <3>1, <4>1
    <3>2. CASE finalize_partly /\ unwritten' = unwritten \cup {sentinel.id}
      <4>1. writer \in Finalizing
        BY <3>2 DEF finalize_partly, finalize_step, Finalizing
      <4>2. sentinel.id \in ScanIds
        BY <1>0, <4>1, HandledId DEF Thread
      <4> QED
        BY <3>2, <4>2
    <3> QED
      BY <1>9, <3>1, <3>2 DEF statements_fail
  <2>3. Writing
    BY <1>0, <1>9, WritingSteps
  <2> QED
    BY <2>1, <2>2, <2>3, Writes
<1> QED
  BY <1>1, <1>2, <1>3, <1>4, <1>5, <1>6, <1>7, <1>8, <1>9 DEF Next, Regular

LEMMA NextLimits == TableInv /\ Limits /\ Next => Limits'
<1> SUFFICES ASSUME TableInv, Limits, Next PROVE Limits'
  OBVIOUS
<1>0. Types /\ DOMAIN scan_task_table \subseteq ScanIds
  BY DEF TableInv, ExportInv, Types
<1> USE DEF Limits
<1>d. ASSUME count_disruption PROVE disruptions' \in 0 .. MaxDisruptions
  BY <1>d, DisruptionsAssumption DEF count_disruption
<1>1. ASSUME NEW id \in ScanIds,
             cancel_scan(id) \/ flag_sentinel(id) \/ push_sentinel(id) \/ hand_over_row(id)
      PROVE  Limits'
  BY <1>1 DEF cancel_scan, flag_sentinel, push_sentinel, hand_over_row, start_vars, scan_vars,
     registry_vars, history_vars
<1>2. ASSUME NEW id \in ScanIds, NEW p \in Paths, start_scan(id, p) \/ stop_pool_before(id, p)
      PROVE  Limits'
  <2>1. overtaken' \subseteq overtaken \cup Scope(p) /\ UNCHANGED next_scan_id
    BY <1>2 DEF start_scan, stop_pool_before, begin
  <2>2. UNCHANGED disruptions \/ count_disruption
    BY <1>2 DEF start_scan, stop_pool_before
  <2> QED
    BY <1>d, <2>1, <2>2, Scopes
<1>3. ASSUME NEW id \in ScanIds, NEW p \in Paths, visit_node(id, p) \/ finish_node(id, p)
      PROVE  Limits'
  BY <1>3 DEF visit_node, finish_node, scan_vars, registry_vars, start_vars, history_vars
<1>4. CASE (\E p \in Paths : tree_changes(p)) \/ stop_pool
  BY <1>4, <1>d DEF tree_changes, stop_pool, registry_vars, start_vars, history_vars
<1>5. CASE stop_exporting \/ write_results \/ export_done
  BY <1>5 DEF stop_exporting, write_results, export_done, scan_vars, registry_vars, start_vars,
     history_vars
<1>6. CASE database_fails \/ statements_fail
  BY <1>6, <1>d DEF database_fails, statements_fail, registry_vars, start_vars, history_vars
<1>7. CASE restart
  <2>1. get_max_id \in 0 .. MaxScanId
    <3> DEFINE T == DOMAIN scan_task_table \cup {0}
    <3>1. MaxScanId \in Nat /\ T \subseteq 0 .. MaxScanId /\ T # {}
      BY <1>0, BoundsAssumption DEF ScanIds
    <3> QED
      BY <3>1, IsMax DEF get_max_id
  <2>2. next_scan_id' \in 1 .. MaxScanId + 1
    BY <1>7, <2>1, BoundsAssumption DEF restart
  <2> QED
    BY <1>7, <1>d, <2>2 DEF restart
<1> QED
  BY <1>1, <1>2, <1>3, <1>4, <1>5, <1>6, <1>7 DEF Next, Regular

(* The queue holds no more results than EXPORT_QUEUE_SIZE, whichever       *)
(* threads push while it is stopped, and the batch never reaches           *)
(* WRITE_BATCH_SIZE between two steps of the result thread                 *)
(* (export_manager.cpp); the tables, the walk and the registry have rows   *)
(* and ids of their types, those left by a killed daemon included.         *)
THEOREM TypeCorrect == SafeSpec => []TypeOK
<1> DEFINE More == Filled /\ SetsOfScans /\ Limits
<1>1. Init => More
  <2> SUFFICES ASSUME Init PROVE More
    OBVIOUS
  <2>1. result_queue = <<>> /\ batch = <<>> /\ exported_map = {} /\ Len(<<>>) = 0
    BY DEF Init, ExportInit
  <2>2. canceled = {} /\ disturbed = {}
    BY DEF Init, TreeInit
  <2>3. Filled
    BY <2>1, ExportAssumption DEF Filled
  <2>4. SetsOfScans /\ Limits
    BY <2>1, <2>2, BoundsAssumption, DisruptionsAssumption
       DEF Init, EmptyTable, SetsOfScans, Limits
  <2> QED
    BY <2>3, <2>4
<1>2. TableInv /\ More /\ [Next]_vars => More'
  <2> SUFFICES ASSUME TableInv, More, [Next]_vars PROVE More'
    OBVIOUS
  <2>1. CASE Next
    BY <2>1, NextFilled, NextSetsOfScans, NextLimits DEF TableInv
  <2>2. CASE UNCHANGED vars
    BY <2>2 DEF vars, walk_vars, export_vars, queue_vars, writer_vars, scan_vars, registry_vars,
       start_vars, history_vars, Filled, SetsOfScans, Limits
  <2> QED
    BY <2>1, <2>2
<1>3. ASSUME TableInv, More PROVE TypeOK
  <2>9. /\ Len(result_queue) <= EXPORT_QUEUE_SIZE /\ Len(batch) < WRITE_BATCH_SIZE
        /\ SetsOfScans /\ Limits
    BY <1>3 DEF Filled
  <2>0. /\ Types /\ Thread /\ Progress /\ TablesTypeOK /\ failed \subseteq ScanIds
        /\ truncated \subseteq ScanIds
        /\ row # <<>> => row[1] \in ScanRows
    BY <1>3 DEF TableInv, ExportInv, Ordered, RowTypes, Flags, Types
  <2>1. WalkTypeOK
    <3>1. pool_stop \in BOOLEAN
      BY <2>0, Zenon DEF Types
    <3>2. tree \in [Paths -> Fingerprints] /\ job \in [ScanIds -> [Paths -> JobState]]
      BY <2>0, Zenon DEF Types
    <3>3. canceled \subseteq ScanIds /\ disturbed \subseteq ScanIds
      BY <2>9, Zenon DEF SetsOfScans
    <3> QED
      BY <2>0, <3>1, <3>2, <3>3, Zenon DEF WalkTypeOK
  <2>2. handled # <<>> => handled[1] \in Sentinels
    BY <2>0, Single DEF Types
  <2>3. export_running \in Int /\ export_finalizing_running \in Nat
    BY <2>0, LenProperties DEF Thread, Types
  <2>4. ExportTypeOK
    <3>1. stop_flag \in BOOLEAN /\ open_tx \in BOOLEAN
      BY <2>0, Zenon DEF Types
    <3>2. /\ result_queue \in Seq(Events \cup Sentinels) /\ batch \in Seq(Events)
          /\ DOMAIN pending_scan_rows \subseteq ScanIds /\ exported_map \subseteq ScanIds
          /\ \A i \in DOMAIN pending_scan_rows : pending_scan_rows[i] \in ScanRows
          /\ writer \in WriterPlaces
      BY <2>0, <2>9 DEF Types, SetsOfScans
    <3>3. /\ row # <<>> => row[1] \in ScanRows
          /\ failed \subseteq ScanIds
      BY <2>0, Zenon
    <3>4. Len(result_queue) <= EXPORT_QUEUE_SIZE /\ Len(batch) < WRITE_BATCH_SIZE
      BY <2>9, Zenon
    <3> QED
      BY <2>2, <2>3, <3>1, <3>2, <3>3, <3>4, Zenon DEF ExportTypeOK
  <2>5. root_map \subseteq Paths
    BY <2>0 DEF Progress, Types
  <2> QED
    BY <2>0, <2>1, <2>4, <2>5, <2>9 DEF TypeOK, Types, SetsOfScans, Limits
<1> HIDE DEF More
<1> QED
  BY <1>1, <1>2, <1>3, TableInvariance, PTL DEF SafeSpec

=============================================================================
