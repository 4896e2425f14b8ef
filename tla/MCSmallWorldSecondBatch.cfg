\* Two threads, two batches of insertions.
CONSTANTS
    a = a b = b c = c d = d e = e f = f
    Null = Null
    Node = {a, b, c, d}
    Id <- IdOf
    Dist <- InnerProduct
    NN = 2
    EfConstruction = 2
    IndexThreadQty = 2
    AddBatches <- TwoBatches
    DeleteBatches <- NoBatch
    Strategies <- ValidStrategies
    MaxBatches = 2
SPECIFICATION FairSpec
PROPERTY AddsAll
