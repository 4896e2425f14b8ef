---------------------------- MODULE MCHnswBuild ----------------------------
(* Instances of HnswPost, with HnswBuild, for TLC.                         *)
EXTENDS HnswPost

CONSTANTS a, b, c, d

\* Points on a line, no two of them at the same distance from a third one.
Place == a :> 1 @@ b :> 2 @@ c :> 4 @@ d :> 8
LineDist ==
    LET Abs(x) == IF x < 0 THEN - x ELSE x
    IN  [x \in Node |-> [y \in Node |-> Abs(Place[x] - Place[y])]]

\* b is in the middle: all the others see each other behind it.
Ray == a :> 1 @@ b :> 0 @@ c :> 2 @@ d :> 4
StarDist == [x \in Node |-> [y \in Node |-> IF x = y THEN 0 ELSE Ray[x] + Ray[y]]]

FourPoints == <<b, d, a, c>>

\* A second build multiplies the states: all nodes are on one level then.
FlatWithPost == 0 :> Drawn @@ 2 :> {0}
Flat == 1 :> {0}
=============================================================================
