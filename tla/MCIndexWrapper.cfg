\* Both methods, spaces with and without an optimized index; a write may fail.
CONSTANTS
    Point = {p1, p2}
    Files = {f1}
    Kinds <- AllKinds
    MaxData = 2
    MaxMade = 5
    MaxFaults = 1
SPECIFICATION Spec
INVARIANTS NodesMatchData QueryDefined BuiltIndexReturns
