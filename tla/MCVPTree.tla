------------------------------ MODULE MCVPTree ------------------------------
(* Five objects at three places of a line: distances 0 to 3, medians       *)
(* that are the distance of no object, and queries at each of the places.  *)
EXTENDS VPTree

Line == {0, 1, 3}

Apart == [x \in Line |-> [y \in Line |-> IF x < y THEN y - x ELSE x - y]]

\* The border of the range query goes through a place.
Asked == {[kind |-> "knn", limit |-> 2, at |-> 0],
          [kind |-> "knn", limit |-> 3, at |-> 1],
          [kind |-> "range", limit |-> 2, at |-> 3]}

Rules == {Default, [left |-> 2, right |-> 1]}
=============================================================================
