------------------------------- MODULE Export -------------------------------
(***************************************************************************)
(* export_system/export_manager.cpp: the result queue, the rows of scans   *)
(* that wait for their sentinel, and the thread that writes both to the    *)
(* database, with a crash between any two transactions.                    *)
(*                                                                         *)
(* The queue is JobQueue's with the blocking push(); `writer' is where     *)
(* write_result_to_db() is, `handled' the sentinel that finalize_scan()    *)
(* works on.                                                               *)
(***************************************************************************)
EXTENDS IndexDB

CONSTANTS
  EXPORT_QUEUE_SIZE,    \* Config.exportmanager.que_size
  WRITE_BATCH_SIZE,     \* Config.db.batch_size
  LOAD_LIMIT            \* rows start() reads at a time: 1000

ASSUME ExportAssumption ==
  {EXPORT_QUEUE_SIZE, WRITE_BATCH_SIZE, LOAD_LIMIT} \subseteq Nat \ {0}

VARIABLES
  result_queue, stop_flag,
  pending_scan_rows,    \* scan_id -> submit_root, end_state
  exported_map,
  writer, batch, handled, row,   \* the result thread and its local variables
  open_tx,              \* its connection is in a transaction whose COMMIT failed
  failed,               \* history: scans whose finalize_scan() caught an exception
  export_running,       \* Metrics
  export_finalizing_running

queue_vars == <<result_queue, stop_flag>>
writer_vars == <<writer, batch, handled, row, open_tx, failed>>
metrics == <<export_running, export_finalizing_running>>
export_vars == <<queue_vars, pending_scan_rows, exported_map, writer_vars, metrics>>

\* "dead": the thread has left write_result_to_db() with an exception.
WriterPlaces == {"pop", "row", "insert", "mark", "diff", "count", "publish", "exited", "dead"}
Events ==
  [sentinel : {FALSE}, id : ScanIds, path : Paths, fp : Fingerprints, err : BOOLEAN]
Sentinels == [sentinel : {TRUE}, id : ScanIds, canceled : BOOLEAN]
ScanRows == [root : Paths, end : {"DONE", "CANCELED"}]

ExportTypeOK ==
  /\ result_queue \in Seq(Events \cup Sentinels) /\ Len(result_queue) <= EXPORT_QUEUE_SIZE
  /\ stop_flag \in BOOLEAN
  /\ DOMAIN pending_scan_rows \subseteq ScanIds
  /\ \A i \in DOMAIN pending_scan_rows : pending_scan_rows[i] \in ScanRows
  /\ exported_map \subseteq ScanIds
  /\ writer \in WriterPlaces
  /\ batch \in Seq(Events) /\ Len(batch) < WRITE_BATCH_SIZE
  /\ handled # <<>> => handled[1] \in Sentinels
  /\ row # <<>> => row[1] \in ScanRows
  /\ open_tx \in BOOLEAN /\ failed \subseteq ScanIds
  /\ export_running \in Int /\ export_finalizing_running \in Nat

pages[offset \in Nat] ==
  LET page == get_all(LOAD_LIMIT, offset)
  IN page \cup IF Cardinality(page) < LOAD_LIMIT THEN {} ELSE pages[offset + LOAD_LIMIT]
load_exported == pages[0]

\* A new ExportManager, and what its start() finds in the database.
ExportStarts ==
  /\ result_queue' = <<>> /\ stop_flag' = FALSE
  /\ pending_scan_rows' = EmptyTable
  /\ exported_map' = load_exported
  /\ writer' = "pop" /\ batch' = <<>> /\ handled' = <<>> /\ row' = <<>>
  /\ open_tx' = FALSE /\ failed' = {}
  /\ export_running' = 0 /\ export_finalizing_running' = 0

ExportInit ==
  /\ result_queue = <<>> /\ stop_flag = FALSE
  /\ pending_scan_rows = EmptyTable /\ exported_map = {}
  /\ writer = "pop" /\ batch = <<>> /\ handled = <<>> /\ row = <<>>
  /\ open_tx = FALSE /\ failed = {}
  /\ export_running = 0 /\ export_finalizing_running = 0

-----------------------------------------------------------------------------
(* Callers                                                                 *)

\* push() waits for room; what comes after the stop is dropped.
push_result_queue(event) ==
  /\ \/ stop_flag /\ UNCHANGED result_queue
     \/ ~stop_flag /\ Len(result_queue) < EXPORT_QUEUE_SIZE
        /\ result_queue' = Append(result_queue, event)
  /\ UNCHANGED <<stop_flag, pending_scan_rows, exported_map, writer_vars, metrics>>

insert_scan_task(id, data) ==
  /\ pending_scan_rows' = Put(id, data, pending_scan_rows)
  /\ UNCHANGED <<queue_vars, exported_map, writer_vars, metrics>>

shutdown ==
  /\ stop_flag' = TRUE
  /\ UNCHANGED <<result_queue, pending_scan_rows, exported_map, writer_vars, metrics>>

-----------------------------------------------------------------------------
(* write_result_to_db()                                                    *)

\* Mutant: a full batch is forgotten instead of committed.
forget_batch ==
  /\ UNCHANGED tables
  /\ batch' = <<>>
  /\ export_running' = export_running - Len(batch)

commit_batch ==
  /\ commit(batch)
  /\ batch' = <<>>
  /\ export_running' = export_running - Len(batch)

take_event ==
  /\ writer = "pop" /\ result_queue # <<>> /\ ~Head(result_queue).sentinel
  /\ batch = <<>> => ~open_tx
  /\ result_queue' = Tail(result_queue)
  /\ UNCHANGED <<stop_flag, pending_scan_rows, exported_map, writer, handled, row, open_tx, failed,
                 export_finalizing_running>>

pop_event ==
  /\ take_event
  /\ LET grown == Append(batch, Head(result_queue))
     IN IF Len(grown) < WRITE_BATCH_SIZE
          THEN batch' = grown /\ export_running' = export_running + 1 /\ UNCHANGED tables
          ELSE /\ commit(grown)
               /\ batch' = <<>>
               /\ export_running' = export_running + 1 - Len(grown)

\* BEGIN or COMMIT fails: the thread ends, what it had not committed is lost.
write_throws ==
  /\ writer = "pop" /\ writer' = "dead"
  /\ IF result_queue = <<>>
       THEN stop_flag /\ batch # <<>> /\ UNCHANGED result_queue
       ELSE /\ IF Head(result_queue).sentinel THEN batch # <<>>
               ELSE batch = <<>> \/ Len(batch) + 1 = WRITE_BATCH_SIZE
            /\ result_queue' = Tail(result_queue)
  /\ UNCHANGED <<tables, stop_flag, pending_scan_rows, exported_map, batch, handled, row,
                 open_tx, failed, metrics>>

take_sentinel ==
  /\ writer = "pop" /\ result_queue # <<>> /\ Head(result_queue).sentinel
  /\ handled' = <<Head(result_queue)>>
  /\ result_queue' = Tail(result_queue)
  /\ writer' = "row"
  /\ export_finalizing_running' = export_finalizing_running + 1
  /\ UNCHANGED <<stop_flag, pending_scan_rows, exported_map, row, open_tx, failed>>

pop_sentinel == take_sentinel /\ commit_batch

\* Mutant: a stopped queue is left as it is.
stop_writing_at_once ==
  /\ writer = "pop" /\ stop_flag
  /\ commit_batch
  /\ writer' = "exited"
  /\ UNCHANGED <<queue_vars, pending_scan_rows, exported_map, handled, row, open_tx, failed,
                 export_finalizing_running>>

\* The queue is stopped and empty.
finish_writing ==
  /\ writer = "pop" /\ result_queue = <<>> /\ stop_flag
  /\ writer' = "exited"
  /\ UNCHANGED <<queue_vars, pending_scan_rows, exported_map, handled, row, open_tx, failed,
                 export_finalizing_running>>

stop_writing == finish_writing /\ commit_batch

\* The events of the transaction, the one that is being taken included.
in_batch ==
  IF result_queue = <<>> \/ Head(result_queue).sentinel THEN batch
  ELSE Append(batch, Head(result_queue))

\* Statements of a batch failed, which is logged; what is left is committed.
commit_batch_partly ==
  /\ \/ take_event /\ Len(in_batch) = WRITE_BATCH_SIZE
     \/ take_sentinel /\ batch # <<>>
     \/ finish_writing /\ batch # <<>>
  /\ commit_partly(in_batch)
  /\ batch' = <<>>
  /\ export_running' = export_running - Len(batch)

-----------------------------------------------------------------------------
(* finalize_scan(): get_scan_task, then a transaction per step             *)

sentinel == handled[1]

get_scan_task ==
  /\ writer = "row" /\ sentinel.id \in DOMAIN pending_scan_rows
  /\ row' = <<pending_scan_rows[sentinel.id]>>
  /\ pending_scan_rows' = Restrict(pending_scan_rows, DOMAIN pending_scan_rows \ {sentinel.id})
  /\ writer' = "insert"
  /\ UNCHANGED <<tables, queue_vars, exported_map, batch, handled, open_tx, failed, metrics>>

\* Thrown outside finalize_scan()'s try block.
get_scan_task_throws ==
  /\ writer = "row" /\ sentinel.id \notin DOMAIN pending_scan_rows
  /\ writer' = "dead"
  /\ UNCHANGED <<tables, queue_vars, pending_scan_rows, exported_map, batch, handled, row,
                 open_tx, failed, metrics>>

finalize_step(place, next) ==
  /\ writer = place /\ writer' = next /\ ~open_tx
  /\ UNCHANGED <<queue_vars, pending_scan_rows, exported_map, batch, handled, row, open_tx, failed,
                 metrics>>

finalize_inserts ==
  finalize_step("insert", "mark") /\ insert_scan(sentinel.id, row[1].root, row[1].end)
finalize_marks ==
  finalize_step("mark", "diff") /\ mark_deleted(sentinel.id, row[1].root, sentinel.canceled)
finalize_diffs == finalize_step("diff", "count") /\ find_scan_diff(sentinel.id)
finalize_counts == finalize_step("count", "publish") /\ upsert_count(sentinel.id)

\* A statement of finalize_scan() failed, which is logged; the transaction is
\* committed and the next one follows.
finalize_partly ==
  \/ finalize_step("insert", "mark") /\ UNCHANGED tables
  \/ finalize_step("mark", "diff")
     /\ mark_deleted_partly(sentinel.id, row[1].root, sentinel.canceled)
  \/ finalize_step("diff", "count") /\ find_scan_diff_partly(sentinel.id)
  \/ finalize_step("count", "publish") /\ upsert_count_partly(sentinel.id)

\* Mutant: a scan is published whether its transactions were committed or not.
finalize_fails_and_publishes(commit_fails) ==
  /\ writer \in {"insert", "mark", "diff", "count"} /\ writer' = "pop"
  /\ exported_map' = exported_map \cup {sentinel.id}
  /\ open_tx' = (open_tx \/ commit_fails) /\ failed' = failed \cup {sentinel.id}
  /\ handled' = <<>> /\ row' = <<>>
  /\ export_finalizing_running' = export_finalizing_running - 1
  /\ UNCHANGED <<tables, queue_vars, pending_scan_rows, batch, export_running>>

\* BEGIN or COMMIT throws; it is logged and the rest of the export left out.
\* What a failed COMMIT leaves open no other connection sees.
finalize_fails(commit_fails) ==
  /\ writer \in {"insert", "mark", "diff", "count"} /\ writer' = "pop"
  /\ open_tx' = (open_tx \/ commit_fails) /\ failed' = failed \cup {sentinel.id}
  /\ handled' = <<>> /\ row' = <<>>
  /\ export_finalizing_running' = export_finalizing_running - 1
  /\ UNCHANGED <<tables, queue_vars, pending_scan_rows, exported_map, batch, export_running>>

\* exported_map, and notify_export_done(), which unblocks the root.
finalize_publishes ==
  /\ writer = "publish" /\ writer' = "pop"
  /\ exported_map' = exported_map \cup {sentinel.id}
  /\ handled' = <<>> /\ row' = <<>>
  /\ export_finalizing_running' = export_finalizing_running - 1
  /\ UNCHANGED <<tables, queue_vars, pending_scan_rows, batch, export_running, open_tx, failed>>

-----------------------------------------------------------------------------
(* What the front end reads: the answers to /exporting, /scan_diff_summary *)
(* and /scan_diff_detail; 500 until a scan is exported.                    *)

check_exported(id) == id \in exported_map

response_scan_diff_summary(id) ==
  IF ~check_exported(id) \/ id \notin DOMAIN scan_task_table THEN <<>>
  ELSE <<scan_task_table[id], get_scan_diff_count(id)>>

response_scan_diff_detail(id, states) ==
  IF ~check_exported(id) THEN {} ELSE get_scan_diff_detail(id, states)

=============================================================================
