--------------------------- MODULE MCOpenScheduler --------------------------
(***************************************************************************)
(* An instance of OpenScheduler for TLC, with paths for roots: /a/b is in  *)
(* /a, and /a-b, whose text begins with that of /a too, is in neither.     *)
(***************************************************************************)
EXTENDS OpenScheduler, TLC

CONSTANTS ra, rab, ra_b

Formater == INSTANCE PathText

TextOf == ra   :> <<47, 97>>
       @@ rab  :> <<47, 97, 47, 98>>
       @@ ra_b :> <<47, 97, 45, 98>>

Overlapping == {r \in Roots \X Roots : Formater!paths_overlap(TextOf[r[1]], TextOf[r[2]])}

(* The directory tree, apart from any text. *)
Ancestor == {<<ra, rab>>}

(* Two scans of which neither is exported never walk the same directory:   *)
(* no root is that of the other or lies in it, whichever came first        *)
(* ("OverlapConflict", scheduler.cpp:28), and roots that only look alike   *)
(* are not kept apart.                                                     *)
ScansAreApart ==
  /\ \A i, j \in Unexported :
       i # j => root_of[i] # root_of[j] /\ <<root_of[i], root_of[j]>> \notin Ancestor
  /\ \A r \in Roots : ~check_non_overlap_path(r) =>
       \E s \in root_map : s = r \/ <<s, r>> \in Ancestor \/ <<r, s>> \in Ancestor

=============================================================================
