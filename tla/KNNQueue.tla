------------------------------ MODULE KNNQueue ------------------------------
(***************************************************************************)
(* The result of a k-nearest-neighbor query: KNNQueue of                   *)
(* include/knnqueue.h and its use by src/knnquery.cc, as the set R of the  *)
(* objects held.  d gives the distance of an object to the query.  K is    *)
(* positive: with K = 0 the code pops from an empty heap.                  *)
(***************************************************************************)
EXTENDS Integers, FiniteSets

\* The top of the heap; ties are decided by the address of the object.
Farthest(d, R) == CHOOSE x \in R : \A y \in R : d[y] <= d[x]

\* CheckAndAddToResult and the Push it calls.
CheckAndAdd(d, k, R, x) ==
    IF Cardinality(R) < k THEN R \cup {x}
    ELSE IF d[x] < d[Farthest(d, R)] THEN (R \ {Farthest(d, R)}) \cup {x}
    ELSE R
=============================================================================
