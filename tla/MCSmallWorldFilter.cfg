\* Two threads, unique ids, one batch and one deletion of an indexed object.
CONSTANTS
    a = a b = b c = c d = d e = e f = f
    Null = Null
    Node = {a, b, c, d}
    Id <- IdOf
    Dist <- InnerProduct
    NN = 1
    EfConstruction = 1
    IndexThreadQty = 2
    AddBatches <- OneBatch
    DeleteBatches <- DeleteHub
    Strategies <- ValidStrategies
    MaxBatches = 2
SPECIFICATION FairSpec
INVARIANT ChecksHold
