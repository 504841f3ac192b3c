------------------------------ MODULE TreeWalk ------------------------------
(***************************************************************************)
(* scan_system/multi_scanner.cpp: scan_one_node() on a directory tree that *)
(* others change under it, one job per node, for several scans at a time.  *)
(*                                                                         *)
(* How jobs are queued and counted is the module Manager's; here a job is  *)
(* waiting, or has recorded its directory and is reading the entries, or   *)
(* is finished, or was never taken by the pool.  A scan is over when none  *)
(* of its jobs is left.                                                    *)
(***************************************************************************)
EXTENDS IndexDB

CONSTANTS
  Children,             \* [Paths -> SUBSET Paths]: the entries a path can have
  Dirs,                 \* the paths that are directories when they exist
  Existing              \* bound: paths that exist at the start

ASSUME TreeAssumption ==
  /\ Children \in [Paths -> SUBSET Paths] /\ Dirs \subseteq Paths /\ Existing \subseteq Paths
  /\ \A p \in Paths : p \notin Dirs => Children[p] = {}
  /\ \A p \in Paths : \A q \in Children[p] : before_last_slash(TextOf[q]) = TextOf[p]
  /\ \A p, q \in Paths : IsPrefix(TextOf[p] \o <<Slash>>, TextOf[q])
                           => \E dir \in Paths : q \in Children[dir]

VARIABLES
  tree,                 \* path -> fingerprint of the node, 0 if there is none
  job,                  \* job[id][path]: the job of a scan for a path
  pool_stop,            \* the scan pool takes no job any more
  canceled,             \* scans whose ScanContext::canceled is set
  truncated,            \* history: scans of which a node was skipped
  disturbed             \* history: scans whose tree changed or was misread

walk_vars == <<tree, job, pool_stop, canceled, truncated, disturbed>>

JobState == {"none", "dropped", "waiting", "reading", "finished"}
NoJobs == [p \in Paths |-> "none"]

WalkTypeOK ==
  /\ tree \in [Paths -> Fingerprints]
  /\ job \in [ScanIds -> [Paths -> JobState]]
  /\ pool_stop \in BOOLEAN
  /\ canceled \subseteq ScanIds /\ truncated \subseteq ScanIds /\ disturbed \subseteq ScanIds

\* A node exists only in a directory that does.
Grown(t) == \A p \in Paths, q \in Paths : q \in Children[p] /\ t[q] # 0 => t[p] # 0

\* What lies in a directory, by the tree and not by any text.
descendants[p \in Paths] == Children[p] \cup UNION {descendants[q] : q \in Children[p]}

visited(id) == {p \in Paths : job[id][p] \in {"reading", "finished"}}
walking(id) == \E p \in Paths : job[id][p] \in {"waiting", "reading"}

set_job(id, p, state) == job' = [job EXCEPT ![id][p] = state]

recorded(id, p, fp, err) ==
  [sentinel |-> FALSE, id |-> id, path |-> p, fp |-> fp, err |-> err]

TreeInit ==
  /\ tree \in {t \in [Paths -> 0 .. 1] : Grown(t) /\ \A p \in Existing : t[p] = 1}
  /\ job = [id \in ScanIds |-> NoJobs]
  /\ pool_stop = FALSE /\ canceled = {} /\ truncated = {} /\ disturbed = {}

-----------------------------------------------------------------------------
\* Someone creates, changes or removes a node.
change_tree(p, scans) ==
  /\ \E fp \in Fingerprints \ {tree[p]} :
       /\ Grown([tree EXCEPT ![p] = fp])
       /\ tree' = [tree EXCEPT ![p] = fp]
  /\ disturbed' = disturbed \cup scans
  /\ UNCHANGED <<job, pool_stop, canceled, truncated>>

start_walk(id, root) ==
  /\ set_job(id, root, "waiting")
  /\ UNCHANGED <<tree, pool_stop, canceled, truncated, disturbed>>

\* The pool stops; the jobs it holds are still worked off.
stop_walks ==
  /\ ~pool_stop /\ pool_stop' = TRUE
  /\ UNCHANGED <<tree, job, canceled, truncated, disturbed>>

\* The pool stops before it was given this root, which it will refuse.
stop_before(id, root) ==
  /\ ~pool_stop /\ pool_stop' = TRUE
  /\ set_job(id, root, "dropped")
  /\ truncated' = truncated \cup {id}
  /\ UNCHANGED <<tree, canceled, disturbed>>

\* A canceled scan's job is finished unseen.
skip_node(id, p) ==
  /\ job[id][p] = "waiting" /\ id \in canceled
  /\ set_job(id, p, "none")
  /\ truncated' = truncated \cup {id}
  /\ UNCHANGED <<tree, pool_stop, canceled, disturbed>>

(* scan_one_node() up to record_result(), by which of its returns it takes. *)

\* lstat() fails: the node has gone since it was listed.
visit_missing(id, p) ==
  /\ job[id][p] = "waiting" /\ tree[p] = 0
  /\ set_job(id, p, "finished")
  /\ UNCHANGED <<tree, pool_stop, canceled, truncated, disturbed>>

\* A file or a link.
visit_leaf(id, p) ==
  /\ job[id][p] = "waiting" /\ tree[p] # 0 /\ p \notin Dirs
  /\ set_job(id, p, "finished")
  /\ UNCHANGED <<tree, pool_stop, canceled, truncated, disturbed>>

\* opendir() or the first readdir() fails.
visit_unreadable(id, p) ==
  /\ job[id][p] = "waiting" /\ tree[p] # 0 /\ p \in Dirs
  /\ set_job(id, p, "finished")
  /\ disturbed' = disturbed \cup {id}
  /\ UNCHANGED <<tree, pool_stop, canceled, truncated>>

visit_dir(id, p) ==
  /\ job[id][p] = "waiting" /\ tree[p] # 0 /\ p \in Dirs
  /\ set_job(id, p, "reading")
  /\ UNCHANGED <<tree, pool_stop, canceled, truncated, disturbed>>

\* The entries: all there are, or, when a later readdir() fails or worker_job()
\* catches an exception, some of them.  Those found become jobs, up to the point
\* where a cancel or the end of the pool is noticed.
read_dir(id, p) ==
  /\ job[id][p] = "reading"
  /\ LET entries == {q \in Children[p] : tree[q] # 0}
     IN \E listed \in SUBSET entries : \E kept \in SUBSET listed :
          /\ kept # listed => id \in canceled \/ pool_stop
          /\ job' = [job EXCEPT ![id] = [q \in Paths |->
                       IF q \in kept THEN "waiting" ELSE IF q = p THEN "finished" ELSE @[q]]]
          /\ truncated' = IF kept # listed THEN truncated \cup {id} ELSE truncated
          /\ disturbed' = IF listed # entries THEN disturbed \cup {id} ELSE disturbed
  /\ UNCHANGED <<tree, pool_stop, canceled>>

=============================================================================
