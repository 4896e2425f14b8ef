-------------------------- MODULE MCSmallWorldRand --------------------------
(* Instances of SmallWorldRand for TLC.                                    *)
EXTENDS SmallWorldRand, TLC

CONSTANTS a, b, c, d, e, f

\* The negative inner product, plus a constant: a is closer to every other node
\* than that node is to itself, and b to c and d.
Vector == a :> <<5, 1>> @@ b :> <<2, 4>> @@ c :> <<1, 1>> @@ d :> <<2, 1>> @@ e :> <<3, 0>> @@ f :> <<2, 4>>
InnerProduct == [x \in Node |-> [q \in Node |->
                    30 - (Vector[x][1] * Vector[q][1] + Vector[x][2] * Vector[q][2])]]

\* f is another object with the id of b.
IdOf == [n \in Node |-> IF n = f THEN b ELSE n]

\* Positions that are skipped, ids that are indexed already, ids that are missing
\* after others were erased.
AddSome == {<<c, d, b, a>>, <<a, e, f>>}
DeleteSome == {<<b, a>>, <<c, d, e>>}
AllStrategies == {"kNone", "kNeighborsOnly", "unsupported"}

\* Two batches of insertions.
TwoBatches == {<<a, d>>, <<b, c>>}
NoBatch == {}

\* A batch, then the deletion of the node all others are linked to.
OneBatch == {<<a, b, c, d>>}
DeleteHub == {<<a>>}
ValidStrategies == {"kNone", "kNeighborsOnly"}
=============================================================================
