\* Three threads, two overlapping batches, two objects with one id, deletions of which some fail.
CONSTANTS
    a = a b = b c = c d = d e = e f = f
    Null = Null
    Node = {a, b, c, d, e, f}
    Id <- IdOf
    Dist <- InnerProduct
    NN = 2
    EfConstruction = 2
    IndexThreadQty = 3
    AddBatches <- AddSome
    DeleteBatches <- DeleteSome
    Strategies <- AllStrategies
    MaxBatches = 4
SPECIFICATION FairSpec
INVARIANTS TypeOK Reciprocal NoDangling OnlyIndexed IdsAreValid NoBug
PROPERTIES NoSelfLink StaysConnected AddsToEmpty CallsReturn
