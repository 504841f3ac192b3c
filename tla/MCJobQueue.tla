----------------------------- MODULE MCJobQueue -----------------------------
(* Instances of JobQueue for TLC: each thread offers a fixed few items.    *)
EXTENDS JobQueue

CONSTANTS s1, s2, p1, p2, p3, w1, w2

QuotaOf(n) == [t \in Submitters \cup Pushers \cup Workers |->
                 IF t \in {w2} \cup (IF Submitters = {} THEN Workers ELSE {})
                   THEN 0 ELSE IF t \in Workers THEN 1 ELSE n]
Quota2 == QuotaOf(2)
Quota3 == QuotaOf(3)

=============================================================================
