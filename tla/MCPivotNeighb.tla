---------------------------- MODULE MCPivotNeighb ----------------------------
(* Instances of PivotNeighb for TLC.                                       *)
EXTENDS PivotNeighb

\* The order of the first two pivots does not matter to the index.
Nearest == {<<1, 2, 3>>, <<2, 3, 1>>, <<3, 1, 2>>}
NearQuery == <<2, 1, 3>>

Setting(algs, useSort, minTimes, prefixes, dbScans) ==
    [alg : algs, useSort : {useSort}, minTimes : minTimes, prefix : prefixes, dbScan : dbScans]

\* minTimes may be more than there are lists.  With sorting 4 or all objects
\* are to be checked; no candidates and two of the algorithms are refused.
Chosen ==
    Setting(Algorithms, FALSE, {2}, {3}, {0})
    \cup Setting({"map", "pqueue", "wand"}, FALSE, {1, 3}, {2}, {0})
    \cup Setting({"scan", "map", "merge"}, TRUE, {1}, {2}, {4})
    \cup Setting({"scan"}, TRUE, {2}, {2}, {0, DataQty})
    \cup Setting({"wand"}, TRUE, {1}, {2}, {4})
=============================================================================
