--------------------------- MODULE ScanLifecycle ----------------------------
(***************************************************************************)
(* What a client of the daemon may rely on (daemon_system/Readme.md, the   *)
(* RequestState lifecycle as get_state() shows it): a scan waits in order  *)
(* of submission, at most MAX_CONCURRENT_SCAN scans run, and a scan that   *)
(* reached an end stays there.                                             *)
(***************************************************************************)
EXTENDS Integers, FiniteSets

CONSTANTS ScanIds, MAX_CONCURRENT_SCAN

VARIABLES
  state,    \* what GET /state answers for each id, "NONE" if it never existed
  ahead     \* the pairs of PENDING ids of which the first was submitted before

vars == <<state, ahead>>

Init == state = [i \in ScanIds |-> "NONE"] /\ ahead = {}

Waiting == {i \in ScanIds : state[i] = "PENDING"}
IsNext(i) == i \in Waiting /\ \A j \in Waiting : <<j, i>> \notin ahead
Without(i) == {p \in ahead : p[1] # i /\ p[2] # i}
Move(i, to) == state' = [state EXCEPT ![i] = to]

Submitted(i) == /\ state[i] = "NONE"
                /\ Move(i, "PENDING") /\ ahead' = ahead \cup (Waiting \X {i})

\* A pending scan runs, or has already finished or failed when it is looked at.
Leaves(i, to) == /\ IsNext(i)
                 /\ to = "RUNNING" =>
                      Cardinality({j \in ScanIds : state[j] = "RUNNING"})
                        < MAX_CONCURRENT_SCAN
                 /\ Move(i, to) /\ ahead' = Without(i)

Withdrawn(i, to) == state[i] = "PENDING" /\ Move(i, to) /\ ahead' = Without(i)

Ends(i, to) == state[i] = "RUNNING" /\ Move(i, to) /\ UNCHANGED ahead

\* Shutdown drops every pending scan and cancels every running one at once;
\* the one that is being handed over is canceled too.
ShutDown ==
  /\ \E handed \in SUBSET {i \in ScanIds : IsNext(i)} :
       state' = [i \in ScanIds |->
                   IF state[i] = "RUNNING" \/ i \in handed THEN "CANCELED"
                   ELSE IF state[i] = "PENDING" THEN "DROPPED" ELSE state[i]]
  /\ ahead' = {}

Next ==
  \/ \E i \in ScanIds :
       \/ Submitted(i)
       \/ \E to \in {"RUNNING", "DONE", "FAILED"} : Leaves(i, to)
       \/ \E to \in {"DROPPED", "CANCELED"} : Withdrawn(i, to)
       \/ \E to \in {"DONE", "CANCELED"} : Ends(i, to)
  \/ ShutDown

Spec == Init /\ [][Next]_vars

=============================================================================
