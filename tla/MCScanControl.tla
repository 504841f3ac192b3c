--------------------------- MODULE MCScanControl ----------------------------
(* Instances of ScanControl for TLC.                                       *)
EXTENDS ScanControl, TLC

CONSTANTS w1, w2, ra, rc

OneScan == {1}
TwoScans == {1, 2}
Symmetry == Permutations({ra, rc}) \cup Permutations({w1, w2})

=============================================================================
