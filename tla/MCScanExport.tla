---------------------------- MODULE MCScanExport ----------------------------
(* Instances of ScanExport for TLC: the directory /a, the file /a/b in it  *)
(* and the file /a-b apart from both, which some instances leave out.      *)
(* Each of them may be a root.                                             *)
EXTENDS ScanExport

CONSTANTS a, ab, a_b

Directory == a :> {ab} @@ ab :> {}
Tree == Directory @@ a_b :> {}

Names == a :> <<47, 97>> @@ ab :> <<47, 97, 47, 98>>
NamesApart == Names @@ a_b :> <<47, 97, 45, 98>>

=============================================================================
