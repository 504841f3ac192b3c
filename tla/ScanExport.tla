----------------------------- MODULE ScanExport -----------------------------
(***************************************************************************)
(* From the tree to the index: scans that walk the tree (TreeWalk), the    *)
(* end of task_on_job_finish() that hands a scan to the exporter, the      *)
(* exporter and the database (Export, IndexDB), and the daemon's restart.  *)
(*                                                                         *)
(* Of the Scheduler only what OpenScheduler proves is used: a scan starts  *)
(* when no scan with an overlapping root is without its export.  Ids are   *)
(* drawn before the submission, so scans start in any order of ids.        *)
(***************************************************************************)
EXTENDS TreeWalk, Export

CONSTANT MaxDisruptions \* bound: changes of the tree, stops and restarts together

ASSUME DisruptionsAssumption == MaxDisruptions \in Nat

VARIABLES
  phase,                \* how far a scan is
  root_of,              \* submit_root of the scans that are not exported yet
  flagged, ended,       \* scans with is_canceled in the sentinel, CANCELED in the row
  root_map,             \* the Scheduler's blocked roots
  late,                 \* the scan that was being dispatched when the pool stopped
  next_scan_id,         \* the first id of this run of the daemon
  disruptions,          \* bound
  baseline,             \* history: index_current when a scan started
  reused,               \* history: scans whose id has rows of a scan that was killed
  overtaken,            \* history: paths on which a scan followed one with a higher id
  half,                 \* history: scans whose export a restart cut off
  unwritten             \* history: scans of which a statement failed

start_vars == <<root_of, root_map, late, next_scan_id>>
registry_vars == <<phase, start_vars, flagged, ended>>
scan_vars == <<registry_vars, disruptions>>
history_vars == <<baseline, reused, overtaken, half, unwritten>>
vars == <<tables, walk_vars, export_vars, scan_vars, history_vars>>

Phase == {"new", "walking", "flagged", "sent", "ended"}
Scope(root) == {root} \cup descendants[root]
Overlap == [r \in Paths \X Paths |-> paths_overlap(TextOf[r[1]], TextOf[r[2]])]

TypeOK ==
  /\ TablesTypeOK /\ WalkTypeOK /\ ExportTypeOK
  /\ phase \in [ScanIds -> Phase]
  /\ DOMAIN root_of \subseteq ScanIds /\ \A i \in DOMAIN root_of : root_of[i] \in Paths
  /\ flagged \subseteq ScanIds /\ ended \subseteq ScanIds
  /\ root_map \subseteq Paths /\ late \subseteq ScanIds /\ next_scan_id \in 1 .. MaxScanId + 1
  /\ disruptions \in 0 .. MaxDisruptions
  /\ DOMAIN baseline \subseteq ScanIds /\ reused \subseteq ScanIds /\ half \subseteq ScanIds
  /\ overtaken \subseteq Paths /\ unwritten \subseteq ScanIds

Init ==
  /\ TablesInit /\ TreeInit /\ ExportInit
  /\ phase = [id \in ScanIds |-> "new"] /\ root_of = EmptyTable
  /\ flagged = {} /\ ended = {} /\ root_map = {} /\ late = {} /\ next_scan_id = 1 /\ disruptions = 0
  /\ baseline = EmptyTable /\ reused = {} /\ overtaken = {} /\ half = {} /\ unwritten = {}

set_phase(id, place) == phase' = [phase EXCEPT ![id] = place]

-----------------------------------------------------------------------------
count_disruption == disruptions < MaxDisruptions /\ disruptions' = disruptions + 1

UsedIds == {index_current[p].id : p \in DOMAIN index_current}
           \cup {k[1] : k \in DOMAIN index_history}

\* What submit and start_new_scan leave behind, whether the pool takes the job.
begin(id, root) ==
  /\ phase[id] = "new" /\ id >= next_scan_id /\ tree[root] # 0
  /\ \A r \in root_map : ~Overlap[<<r, root>>]
  /\ set_phase(id, "walking")
  /\ root_of' = Put(id, root, root_of)
  /\ root_map' = root_map \cup {root}
  /\ baseline' = Put(id, Restrict(index_current, DOMAIN index_current \cap Scope(root)), baseline)
  /\ reused' = IF id \in UsedIds THEN reused \cup {id} ELSE reused
  /\ overtaken' = overtaken \cup {p \in Scope(root) : \E k \in DOMAIN index_history :
                                                        k[2] = p /\ k[1] > id}
  /\ UNCHANGED <<tables, export_vars, flagged, ended, next_scan_id, half, unwritten>>

start_scan(id, root) ==
  /\ ~pool_stop /\ begin(id, root) /\ start_walk(id, root)
  /\ UNCHANGED <<late, disruptions>>

visit_node(id, p) ==
  /\ id \notin canceled
  /\ \/ visit_missing(id, p) /\ push_result_queue(recorded(id, p, 0, TRUE))
     \/ visit_unreadable(id, p) /\ push_result_queue(recorded(id, p, tree[p], TRUE))
     \/ visit_leaf(id, p) /\ push_result_queue(recorded(id, p, tree[p], FALSE))
     \/ visit_dir(id, p) /\ push_result_queue(recorded(id, p, tree[p], FALSE))
  /\ UNCHANGED <<tables, scan_vars, history_vars>>

finish_node(id, p) ==
  /\ skip_node(id, p) \/ read_dir(id, p)
  /\ UNCHANGED <<tables, export_vars, scan_vars, history_vars>>

tree_changes(p) ==
  /\ change_tree(p, {id \in DOMAIN root_of : p \in Scope(root_of[id])})
  /\ count_disruption
  /\ UNCHANGED <<tables, export_vars, registry_vars, history_vars>>

\* cancel_scan() finds a scan as long as it is registered.
cancel_scan(id) ==
  /\ phase[id] \in {"walking", "flagged"} /\ id \notin canceled
  /\ canceled' = canceled \cup {id}
  /\ UNCHANGED <<tables, tree, job, pool_stop, truncated, disturbed, export_vars,
                 scan_vars, history_vars>>

\* Mutant: the flag is read while jobs are still running.
flag_sentinel_early(id) ==
  /\ phase[id] = "walking"
  /\ \A p \in Paths : job[id][p] # "waiting"
  /\ flagged' = IF id \in canceled THEN flagged \cup {id} ELSE flagged
  /\ set_phase(id, "flagged")
  /\ UNCHANGED <<tables, walk_vars, export_vars, start_vars, ended, disruptions, history_vars>>

\* The last job has finished; the flag goes into the sentinel.
flag_sentinel(id) ==
  /\ phase[id] = "walking" /\ ~walking(id)
  /\ flagged' = IF id \in canceled THEN flagged \cup {id} ELSE flagged
  /\ set_phase(id, "flagged")
  /\ UNCHANGED <<tables, walk_vars, export_vars, start_vars, ended, disruptions, history_vars>>

\* The scan leaves the registry, its end_state read from the flag once more,
\* and the sentinel is pushed.
push_sentinel(id) ==
  /\ phase[id] = "flagged"
  /\ ended' = IF id \in canceled THEN ended \cup {id} ELSE ended
  /\ push_result_queue([sentinel |-> TRUE, id |-> id, canceled |-> id \in flagged])
  /\ set_phase(id, "sent")
  /\ UNCHANGED <<tables, walk_vars, start_vars, flagged, disruptions, history_vars>>

\* Mutant: a scan that has ended is done.
hand_over_row_done(id) ==
  /\ phase[id] = "sent"
  /\ insert_scan_task(id, [root |-> root_of[id], end |-> "DONE"])
  /\ set_phase(id, "ended")
  /\ UNCHANGED <<tables, walk_vars, start_vars, flagged, ended,
                 disruptions, history_vars>>

hand_over_row(id) ==
  /\ phase[id] = "sent"
  /\ insert_scan_task(id, [root |-> root_of[id],
                           end |-> IF id \in ended THEN "CANCELED" ELSE "DONE"])
  /\ set_phase(id, "ended")
  /\ UNCHANGED <<tables, walk_vars, start_vars, flagged, ended, disruptions, history_vars>>

\* Manager::shutdown() after Scheduler::shutdown() has waited for the scans it
\* knew: only one that was being dispatched meanwhile can have jobs left.
stop_pool ==
  /\ stop_walks /\ count_disruption
  /\ late' = {id \in ScanIds : walking(id)} /\ Cardinality(late') <= 1
  /\ UNCHANGED <<tables, export_vars, phase, root_of, flagged, ended, root_map, next_scan_id,
                 history_vars>>

\* Or that scan, popped by run() before the shutdown, is not registered yet,
\* and there is nothing to cancel or to wait for.
stop_pool_before(id, root) ==
  /\ \A i \in ScanIds : ~walking(i)
  /\ begin(id, root) /\ stop_before(id, root) /\ count_disruption
  /\ late' = {id}

\* A scan whose root the pool did not take is ended by the Scheduler's thread.
refused(id) == id \in DOMAIN root_of /\ job[id][root_of[id]] = "dropped"

\* The pool has been joined.
stop_exporting ==
  /\ pool_stop /\ ~stop_flag
  /\ \A id \in ScanIds : phase[id] \in {"new", "ended"} \/ refused(id)
  /\ shutdown
  /\ UNCHANGED <<tables, walk_vars, scan_vars, history_vars>>

\* A step of the result thread before the end of a scan's export.
write_results ==
  /\ \/ pop_event \/ pop_sentinel \/ stop_writing \/ get_scan_task \/ get_scan_task_throws
     \/ finalize_inserts \/ finalize_marks \/ finalize_diffs \/ finalize_counts
  /\ UNCHANGED <<walk_vars, scan_vars, history_vars>>

\* SQLite reports an error: at any time, or because of an earlier one.
database_fails ==
  /\ write_throws \/ \E commit_fails \in BOOLEAN : finalize_fails(commit_fails)
  /\ IF open_tx THEN UNCHANGED disruptions ELSE count_disruption
  /\ UNCHANGED <<walk_vars, registry_vars, history_vars>>

\* Statements fail, and what depends on them is written all the same.
statements_fail ==
  /\ \/ commit_batch_partly
        /\ unwritten' = unwritten \cup {event.id : event \in ToSet(in_batch)}
     \/ finalize_partly /\ unwritten' = unwritten \cup {sentinel.id}
  /\ count_disruption
  /\ UNCHANGED <<walk_vars, registry_vars, baseline, reused, overtaken, half>>

\* notify_export_done(), after which nothing of the scan is left in memory.
export_done ==
  /\ finalize_publishes
  /\ root_map' = root_map \ {row[1].root}
  /\ LET id == sentinel.id
     IN /\ job' = [job EXCEPT ![id] = NoJobs]
        /\ canceled' = canceled \ {id} /\ disturbed' = disturbed \ {id}
        /\ truncated' = truncated \ {id}
        /\ root_of' = Restrict(root_of, DOMAIN root_of \ {id})
        /\ flagged' = flagged \ {id} /\ ended' = ended \ {id}
        /\ baseline' = Restrict(baseline, DOMAIN baseline \ {id})
  /\ UNCHANGED <<tree, pool_stop, phase, late, next_scan_id, disruptions, reused, overtaken, half,
                 unwritten>>

\* The process is killed at any moment, or has ended, and is started again.
restart ==
  /\ count_disruption
  /\ ExportStarts
  /\ next_scan_id' = get_max_id + 1
  /\ phase' = [id \in ScanIds |-> "new"] /\ root_of' = EmptyTable
  /\ flagged' = {} /\ ended' = {} /\ root_map' = {} /\ late' = {}
  /\ job' = [id \in ScanIds |-> NoJobs] /\ pool_stop' = FALSE /\ canceled' = {}
  /\ truncated' = {} /\ disturbed' = {}
  /\ baseline' = EmptyTable
  /\ half' = half \cup failed
                  \cup IF writer \in {"mark", "diff", "count"} THEN {sentinel.id} ELSE {}
  /\ UNCHANGED <<tables, tree, reused, overtaken, unwritten>>

\* Every step but those of statements that fail.
Regular ==
  \/ \E id \in ScanIds : \/ cancel_scan(id) \/ flag_sentinel(id) \/ push_sentinel(id)
                         \/ hand_over_row(id)
  \/ \E id \in ScanIds, p \in Paths : start_scan(id, p) \/ stop_pool_before(id, p)
                                      \/ visit_node(id, p) \/ finish_node(id, p)
  \/ \E p \in Paths : tree_changes(p)
  \/ stop_pool \/ stop_exporting \/ write_results \/ database_fails
  \/ export_done \/ restart

Next == Regular \/ statements_fail

SafeSpec == Init /\ [][Next]_vars

-----------------------------------------------------------------------------
(* A statement that fails is logged and what depends on it written all the *)
(* same (`unwritten'): of the scans it was for, the properties below say   *)
(* only that they do not harm the others.                                  *)

(* The scan that is being finalized, once mark_deleted is committed.       *)
Marked == writer \in {"diff", "count", "publish"}

(* After a complete scan index_current holds, below its root, exactly the  *)
(* nodes it visited, each with its id: events, batches and mark_deleted    *)
(* left nothing out and kept nothing older (index_writer.cpp:48-51),       *)
(* whatever statements of other scans failed.                              *)
CompleteViewIsExact ==
  Marked /\ ~sentinel.canceled /\ sentinel.id \notin reused \cup unwritten =>
    /\ descendants[row[1].root] \cap DOMAIN index_current = visited(sentinel.id) \ {row[1].root}
    /\ \A p \in visited(sentinel.id) :
         p \in DOMAIN index_current /\ index_current[p].id = sentinel.id

(* When nobody changed the tree meanwhile, it could be read, the daemon    *)
(* was not stopped and no statement of the scan failed, the index is the   *)
(* tree.                                                                   *)
QuietScanMirrorsTree ==
  Marked /\ ~sentinel.canceled
  /\ sentinel.id \notin reused \cup disturbed \cup late \cup unwritten =>
    /\ Scope(row[1].root) \cap DOMAIN index_current = {p \in Scope(row[1].root) : tree[p] # 0}
    /\ \A p \in Scope(row[1].root) \cap DOMAIN index_current :
         index_current[p].fp = tree[p] /\ index_current[p].state = "Alive"

(* A path leaves the index only when a scan that skipped no node did not   *)
(* see it: "for canceled scans we must keep index_current unchanged as the *)
(* baseline" (index_writer.cpp:192), whenever the cancel came; apart from  *)
(* the scan that the daemon's shutdown cut short, and from a node whose    *)
(* upsert failed, which is deleted as unseen.                              *)
NothingDeletedUnseen ==
  [][\A p \in DOMAIN index_current \ DOMAIN index_current' :
       /\ sentinel.id \notin truncated \ late
       /\ p \in visited(sentinel.id) => sentinel.id \in unwritten]_vars

(* What a scan's diff must say of a path, from the index before and after. *)
ExpectedState(id, p) ==
  CASE p \in visited(id) /\ index_current[p].state = "Error" -> "Error"
    [] p \in visited(id) /\ index_current[p].state = "Alive" ->
         IF p \in DOMAIN baseline[id] THEN "Changed" ELSE "New"
    [] p \notin visited(id) /\ sentinel.canceled -> "Canceled"
    [] OTHER -> "Deleted"

Differs(id, p) ==
  \/ p \in visited(id) /\ (p \in DOMAIN baseline[id] => baseline[id][p].fp # index_current[p].fp)
  \/ p \notin visited(id) /\ p \in DOMAIN baseline[id] \cap descendants[row[1].root]

(* The diff of a scan is the difference between the index before it began  *)
(* and after it was written, although it is computed from the history of   *)
(* all scans, canceled ones included; provided that the scans of these     *)
(* paths were begun in the order of their ids, and that no entry of the    *)
(* history was lost.                                                       *)
DiffIsExact ==
  writer \in {"count", "publish"} /\ reused \cup unwritten = {}
  /\ Scope(row[1].root) \cap overtaken = {} =>
      LET id == sentinel.id
          differing == {p \in Scope(row[1].root) : Differs(id, p)}
      IN /\ {k[2] : k \in {k \in DOMAIN scan_diff_table : k[1] = id}} = differing
         /\ \A p \in differing :
              /\ scan_diff_table[<<id, p>>].state = ExpectedState(id, p)
              /\ p \in DOMAIN baseline[id] =>
                   scan_diff_table[<<id, p>>].old = baseline[id][p].fp

(* A scan recorded as DONE has skipped no node, although its end_state and *)
(* the sentinel's flag are read at different moments (manager.cpp:188-214);*)
(* apart from the scan that the daemon's shutdown cut short.               *)
DoneMeansComplete ==
  \A id \in DOMAIN scan_task_table : scan_task_table[id].end = "DONE" => id \notin truncated \ late

(* The counters of a scan are those of the nodes it visited and found,     *)
(* when none of its rows was lost.                                         *)
CountIsExact ==
  writer = "publish" /\ sentinel.id \notin reused \cup unwritten =>
    scan_task_table[sentinel.id].count
      = Cardinality({p \in visited(sentinel.id) : index_current[p].fp # 0})

(* When the exporter has stopped of itself, everything the pool scanned is *)
(* exported, no other root is blocked, and the metrics that Daemon::run()  *)
(* polls are back at zero.                                                 *)
StoppedMeansExported ==
  writer = "exited" =>
    /\ \A id \in DOMAIN root_of : refused(id) \/ id \in failed
    /\ root_map = {root_of[id] : id \in DOMAIN root_of}
    /\ \A id \in ScanIds : phase[id] = "ended" => id \in exported_map \cup DOMAIN root_of
    /\ result_queue = <<>> /\ DOMAIN pending_scan_rows \subseteq DOMAIN root_of
    /\ export_running = 0 /\ export_finalizing_running = 0

(* What the front end is shown as "Exported" is: the scan has its counters,*)
(* each of its changes has a line, and the summary counts the lines; and   *)
(* every scan of the table is, but for one that is being finalized or      *)
(* whose finalize_scan() threw (export_manager.cpp:175-192).  A scan that  *)
(* a restart cut off after its first transaction is an exception, and one  *)
(* of which a statement failed: step_write_done() logs it, the transaction *)
(* is committed and the scan published with what was written of it.        *)
ExportedIsExact ==
  /\ \A id \in exported_map \ (half \cup unwritten) :
       LET details == response_scan_diff_detail(id, ScanState)
       IN /\ response_scan_diff_summary(id) # <<>>
          /\ LET summary == response_scan_diff_summary(id)
             IN /\ summary[1].count # NULL
                /\ \A state \in ScanState :
                     summary[2][state] = Cardinality(response_scan_diff_detail(id, {state}))
          /\ {d.path : d \in details} = {k[2] : k \in {k \in DOMAIN index_history : k[1] = id}}
  /\ \A id \in DOMAIN scan_task_table \ exported_map :
       id \in failed \/ (handled # <<>> /\ sentinel.id = id)

(* What was shown of an exported scan never changes: later scans, crashes  *)
(* and restarts only add rows under other ids (scheduler.cpp:346-349).  Of *)
(* a scan without a row the summary shows nothing, and nothing is promised.*)
ExportedIsFinal ==
  [][\A id \in exported_map \cap DOMAIN scan_task_table :
       /\ response_scan_diff_summary(id)' = response_scan_diff_summary(id)
       /\ response_scan_diff_detail(id, ScanState)' = response_scan_diff_detail(id, ScanState)]_vars

\* A name that continues that of another path with a byte below '/' sorts
\* between that path and what is in it.
Continued(ps) ==
  \E p, q \in ps : /\ IsStrictPrefix(TextOf[p], TextOf[q])
                   /\ TextOf[q][Len(TextOf[p]) + 1] < Slash

Within(text, dir) == text = dir \/ IsPrefix(dir \o <<Slash>>, text)

Covered(ps, root) ==
  \A p \in ps :
    /\ Within(TextOf[p], root)
    /\ TextOf[p] # root =>
         \E g \in group_by_folder_in_snd_layer(ps, root) :
            g[1] = p /\ Within(TextOf[p], g[2]) /\ g[2] # root

CoveredIndexes == {ps \in SUBSET Paths : Continued(ps) \/ Covered(ps, top_root(ps))}

(* "Derives common parent of all indexed paths via MIN(path) / MAX(path)"  *)
(* (export_system/Readme.md): every indexed path is the top root or lies   *)
(* in it, and counts for the entry of the top root that it is in; except   *)
(* for names as in Continued, when /a and /a/b hide /a-b between them.     *)
SummaryCoversIndex == DOMAIN index_current \in CoveredIndexes

(* "Pending Scan Registry: insert_scan_task() --> registered before scan,  *)
(* consumed by finalize when sentinel arrives" (export_system/Readme.md).  *)
SentinelFindsRow == writer # "dead"

(* A scan that the shutdown cuts short is one of those it cancels ("cancel *)
(* all running / pending scans", daemon_system/Readme.md), and deletes     *)
(* nothing from the index.                                                 *)
CutShortDeletesNothing ==
  [][\A p \in DOMAIN index_current \ DOMAIN index_current' : sentinel.id \notin truncated]_vars

=============================================================================
