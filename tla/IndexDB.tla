------------------------------- MODULE IndexDB ------------------------------
(***************************************************************************)
(* export_system/db_wrapper: the four tables, each a function from its     *)
(* primary key to its row, and the transactions the result thread makes.   *)
(*                                                                         *)
(* A path is a model value with a text; Below[p] are the paths that the    *)
(* pattern made of p matches, which is not said to be what lies in p.      *)
(* The fingerprint (mtime, msize) of a node is a number, 0 being (0, 0):   *)
(* what is recorded of a path lstat() failed for.  A SELECT that finds     *)
(* nothing yields (-1, -1), which equals no fingerprint.                   *)
(*                                                                         *)
(* A statement that SQLite refuses is logged, and the transaction goes on  *)
(* without it: of each transaction there is what it writes when all its    *)
(* statements succeed, and, named ..._partly, what is left of it.          *)
(***************************************************************************)
EXTENDS PathText, FiniteSets, TLC

CONSTANTS
  Paths,
  TextOf,               \* [Paths -> Texts]
  MaxScanId,            \* bound
  MaxVersion            \* bound: fingerprints of existing nodes are 1 .. MaxVersion

ASSUME PathsAssumption ==
  /\ IsFiniteSet(Paths) /\ TextOf \in [Paths -> Texts \ {<<>>}]
  /\ \A p, q \in Paths : TextOf[p] = TextOf[q] => p = q
  /\ \A p \in Paths : TextOf[p][1] = Slash      \* realpath() makes them absolute
ASSUME BoundsAssumption == MaxScanId \in Nat /\ MaxVersion \in Nat \ {0}

Below == [p \in Paths |-> {q \in Paths : GLOB(TextOf[q], glob_pattern(TextOf[p]))}]

ScanIds == 1 .. MaxScanId
Fingerprints == 0 .. MaxVersion
EventState == {"Alive", "Error", "Deleted", "Canceled"}
ScanState == {"New", "Error", "Deleted", "Canceled", "Changed"}

VARIABLES
  index_current,        \* path -> scan_id, fingerprint, state
  index_history,        \* (last_scan_id, path) -> fingerprint, state
  scan_task_table,      \* scan_id -> submit_root, end_state, number of nodes
  scan_diff_table       \* (scan_id, path) -> diff_state, old fingerprint

tables == <<index_current, index_history, scan_task_table, scan_diff_table>>

\* NULL in the columns that upsert_count() fills.
NULL == -1

TablesTypeOK ==
  /\ DOMAIN index_current \subseteq Paths
  /\ \A p \in DOMAIN index_current :
       index_current[p] \in [id : ScanIds, fp : Fingerprints, state : {"Alive", "Error"}]
  /\ DOMAIN index_history \subseteq ScanIds \X Paths
  /\ \A k \in DOMAIN index_history : index_history[k] \in [fp : Fingerprints, state : EventState]
  /\ DOMAIN scan_task_table \subseteq ScanIds
  /\ \A i \in DOMAIN scan_task_table :
       scan_task_table[i] \in [root : Paths, end : {"DONE", "CANCELED"}, count : Nat \cup {NULL}]
  /\ DOMAIN scan_diff_table \subseteq ScanIds \X Paths
  /\ \A k \in DOMAIN scan_diff_table :
       scan_diff_table[k] \in [state : ScanState, old : Fingerprints]

EmptyTable == [k \in {} |-> k]

TablesInit ==
  /\ index_current = EmptyTable /\ index_history = EmptyTable
  /\ scan_task_table = EmptyTable /\ scan_diff_table = EmptyTable

-----------------------------------------------------------------------------
(* IndexWriter::upsert, on the pair of index tables inside a transaction.  *)

\* INSERT OR REPLACE, and an assignment to a map's element.
Put(key, row, table) ==
  [k \in DOMAIN table \cup {key} |-> IF k = key THEN row ELSE table[k]]

\* A plain INSERT: a row that is there already makes it fail, which is logged.
Insert(rows, table) ==
  [k \in DOMAIN table \cup DOMAIN rows |-> IF k \in DOMAIN table THEN table[k] ELSE rows[k]]

same_fingerprint(current, event) ==
  event.path \in DOMAIN current /\ current[event.path].fp = event.fp

event_state(event) == IF event.err THEN "Error" ELSE "Alive"

upsert(index, event) ==
  LET state == event_state(event)
  IN [current |-> Put(event.path, [id |-> event.id, fp |-> event.fp, state |-> state],
                      index.current),
      history |-> IF same_fingerprint(index.current, event)
                    THEN index.history
                    ELSE Insert([k \in {<<event.id, event.path>>} |-> [fp |-> event.fp, state |-> state]],
                                index.history)]

\* A transaction of upserts takes effect when it is committed.
commit(events) ==
  LET index == FoldLeft(upsert, [current |-> index_current, history |-> index_history], events)
  IN /\ index_current' = index.current
     /\ index_history' = index.history
     /\ UNCHANGED <<scan_task_table, scan_diff_table>>

\* Of some events the row is not written, of some the history is not: or is,
\* although nothing changed, when it was the comparison that failed.  No path
\* comes twice in a batch.
commit_partly(events) ==
  \E written, entered \in SUBSET ToSet(events) :
    /\ index_current' =
         [p \in DOMAIN index_current \cup {event.path : event \in written} |->
            IF \A event \in written : event.path # p THEN index_current[p]
            ELSE LET event == CHOOSE e \in written : e.path = p
                 IN [id |-> event.id, fp |-> event.fp, state |-> event_state(event)]]
    /\ index_history' =
         Insert([k \in {<<event.id, event.path>> : event \in entered} |->
                   LET event == CHOOSE e \in entered : <<e.id, e.path>> = k
                   IN [fp |-> event.fp, state |-> event_state(event)]],
                index_history)
    /\ UNCHANGED <<scan_task_table, scan_diff_table>>

-----------------------------------------------------------------------------
(* The transactions of finalize_scan                                       *)

insert_scan(id, root, end) ==
  /\ scan_task_table' = Insert([i \in {id} |-> [root |-> root, end |-> end, count |-> NULL]],
                               scan_task_table)
  /\ UNCHANGED <<index_current, index_history, scan_diff_table>>

unvisited(id, root) ==
  {p \in Below[root] \cap DOMAIN index_current : index_current[p].id # id}

\* One INSERT ... SELECT: when a key is taken the whole statement fails.
insert_marks(id, root, is_canceled) ==
  LET keys == {id} \X unvisited(id, root)
      state == IF is_canceled THEN "Canceled" ELSE "Deleted"
  IN index_history' =
       IF keys \cap DOMAIN index_history # {} THEN index_history
       ELSE Insert([k \in keys |-> [fp |-> index_current[k[2]].fp, state |-> state]],
                   index_history)

delete_unvisited(id, root, is_canceled) ==
  index_current' = IF is_canceled THEN index_current
                   ELSE Restrict(index_current, DOMAIN index_current \ unvisited(id, root))

\* The DELETE is executed whatever became of the INSERT.
mark_deleted(id, root, is_canceled) ==
  /\ insert_marks(id, root, is_canceled) /\ delete_unvisited(id, root, is_canceled)
  /\ UNCHANGED <<scan_task_table, scan_diff_table>>

mark_deleted_partly(id, root, is_canceled) ==
  /\ insert_marks(id, root, is_canceled) \/ UNCHANGED index_history
  /\ delete_unvisited(id, root, is_canceled) \/ UNCHANGED index_current
  /\ UNCHANGED <<scan_task_table, scan_diff_table>>

\* Mutant: "<=" for "<".
earlier_or_same(id, path) ==
  {i \in 1 .. id : <<i, path>> \in DOMAIN index_history
                   /\ index_history[<<i, path>>].state # "Canceled"}

\* The last state of a path before scan id, by the order of ids.
earlier(id, path) ==
  {i \in 1 .. id - 1 : <<i, path>> \in DOMAIN index_history
                       /\ index_history[<<i, path>>].state # "Canceled"}

diff_row(id, path) ==
  LET now == index_history[<<id, path>>].state
      before == earlier(id, path)
      prev == index_history[<<Max(before), path>>]
  IN [state |-> CASE now # "Alive" -> now
                  [] now = "Alive" /\ (before = {} \/ prev.state = "Deleted") -> "New"
                  [] OTHER -> "Changed",
      old |-> IF before = {} THEN 0 ELSE prev.fp]

history_of(id) == {k \in DOMAIN index_history : k[1] = id}

write_diff(id, keys) ==
  /\ scan_diff_table' = Insert([k \in keys |-> diff_row(id, k[2])], scan_diff_table)
  /\ UNCHANGED <<index_current, index_history, scan_task_table>>

find_scan_diff(id) == write_diff(id, history_of(id))

\* One INSERT a row; or the reading of the rows ends early.
find_scan_diff_partly(id) == \E keys \in SUBSET history_of(id) : write_diff(id, keys)

\* An UPDATE, of no row when there is none.
set_count(id, n) ==
  /\ scan_task_table' = [i \in DOMAIN scan_task_table |->
                           IF i = id THEN [scan_task_table[i] EXCEPT !.count = n]
                           ELSE scan_task_table[i]]
  /\ UNCHANGED <<index_current, index_history, scan_diff_table>>

\* Mutant: what is new in the history is counted.
upsert_count_history(id) == set_count(id, Cardinality(history_of(id)))

\* The counters of directories, files and links are one number; a node that
\* lstat() failed for is of none of these types.
upsert_count(id) ==
  set_count(id, Cardinality({p \in DOMAIN index_current :
                               index_current[p].id = id /\ index_current[p].fp # 0}))

\* The nodes could not be counted, or the row not updated.
upsert_count_partly(id) == set_count(id, 0) \/ UNCHANGED tables

\* Mutant: the number of scans is taken for the last id.
get_row_count == Cardinality(DOMAIN scan_task_table)

get_max_id == Max(DOMAIN scan_task_table \cup {0})

-----------------------------------------------------------------------------
(* What is read for the front end and at the start                         *)

\* How many scans of the table come before scan i when the latest is first.
later_than(i) == Cardinality({j \in DOMAIN scan_task_table : j > i})

\* The ids of a page: ORDER BY scan_id DESC LIMIT limit OFFSET offset.
get_all(limit, offset) ==
  {i \in DOMAIN scan_task_table : later_than(i) \in offset .. offset + limit - 1}

get_scan_diff_count(id) ==
  [state \in ScanState |->
     Cardinality({k \in DOMAIN scan_diff_table : k[1] = id /\ scan_diff_table[k].state = state})]

\* scan_diff_table JOIN index_history.
get_scan_diff_detail(id, states) ==
  {[path |-> k[2], fp |-> index_history[k].fp,
    state |-> scan_diff_table[k].state, old |-> scan_diff_table[k].old] :
     k \in {k \in DOMAIN scan_diff_table \cap DOMAIN index_history :
             k[1] = id /\ scan_diff_table[k].state \in states}}

\* For an index of the paths ps: its top root, and each path below a root with
\* the entry of that root it counts for.
top_root(ps) == get_top_root_in_index({TextOf[p] : p \in ps})

group_by_folder_in_snd_layer(ps, root) ==
  {<<p, get_snd_layer(TextOf[p], root)>> : p \in {p \in ps : GLOB(TextOf[p], glob_pattern(root))}}

=============================================================================
