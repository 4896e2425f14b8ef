SPECIFICATION Spec
CONSTANTS
    Objects = {1, 2, 3, 4, 5}
    Points <- Line
    Distance <- Apart
    DistMax = 6
    BucketSizes = {0, 2}
    LeafBounds = {1, 6}
    Stretches <- Rules
    Queries <- Asked
INVARIANTS
    TypesAndBudget
    WellSplit
    Exact
    FullAnswer
