\* An index is saved, loaded and saved again; no write fails.
CONSTANTS
    Point = {p1, p2}
    Files = {f1}
    Kinds <- EuclideanHnsw
    MaxData = 2
    MaxMade = 3
    MaxFaults = 0
SPECIFICATION Spec
INVARIANTS SavedIndexReturns
