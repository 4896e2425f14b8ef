\* Two threads index two chunks, of three and of two objects.
SPECIFICATION FairSpec
CONSTANTS
    DataQty = 5
    ChunkIndexSize = 3
    NumPivot = 3
    NumPrefix = 2
    IndexThreads = 2
    PivotOrders <- Nearest
    QueryPivots <- NearQuery
    Settings <- Chosen
INVARIANT RightCandidates
PROPERTY Ends
