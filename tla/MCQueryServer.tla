---------------------------- MODULE MCQueryServer ----------------------------
(* Instances of QueryServer for TLC.                                       *)
EXTENDS QueryServer

CONSTANTS n1, n2, n3, n4, n5, q1, q2

\* q1 has its nearest neighbor far from the entry points; it is as far from
\* n3 as from n5, and q2 as far from n2 as from n3.
ConstDist ==
    q1 :> (n1 :> 6 @@ n2 :> 4 @@ n3 :> 3 @@ n4 :> 1 @@ n5 :> 3) @@
    q2 :> (n1 :> 1 @@ n2 :> 2 @@ n3 :> 2 @@ n4 :> 5 @@ n5 :> 3)

Hnsw == [method |-> "hnsw", entry |-> n1, maxlevel |-> 1,
    friends |-> 0 :> (n1 :> <<n2, n3>> @@ n2 :> <<n3, n1, n5>> @@ n3 :> <<n1, n2, n4>>
                        @@ n4 :> <<n3, n5>> @@ n5 :> <<n4, n2>>)
             @@ 1 :> (n1 :> <<n3, n5>> @@ n3 :> <<n1, n5>> @@ n5 :> <<n1, n3>> @@ n2 :> <<>> @@ n4 :> <<>>)]

SmallWorld == [method |-> "small_world_rand", entry |-> n3, maxlevel |-> 0,
    friends |-> 0 :> (n1 :> <<n2, n3, n5>> @@ n2 :> <<n1, n3>> @@ n3 :> <<n1, n2, n4>>
                        @@ n4 :> <<n3, n5>> @@ n5 :> <<n1, n4>>)]

ThreeRequests == {[k |-> 1, queries |-> <<q1>>], [k |-> 2, queries |-> <<q1, q2>>],
                  [k |-> 2, queries |-> <<Malformed, q2>>]}

\* The small-world graph does not know "hybrid".
FourSettings == {[ef |-> 4, algo |-> "v1merge"], [ef |-> 1, algo |-> "v1merge"],
                 [ef |-> 2, algo |-> "old"], [ef |-> 4, algo |-> "hybrid"]}

BothIndices == {Hnsw, SmallWorld}
=============================================================================
