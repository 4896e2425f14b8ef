\* Does merge find what the other algorithms find?
SPECIFICATION Spec
CONSTANTS
    DataQty = 5
    ChunkIndexSize = 3
    NumPivot = 3
    NumPrefix = 2
    IndexThreads = 2
    PivotOrders <- Nearest
    QueryPivots <- NearQuery
    Settings <- Chosen
INVARIANT OverlapMakesCandidate
