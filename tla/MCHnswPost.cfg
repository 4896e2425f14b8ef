\* Two builds, merged with post = 1; one level, three objects around the first.
CONSTANTS
    a = a b = b c = c d = d
    Null = Null
    Data <- FourPoints
    Dist <- StarDist
    M = 2
    MaxM = 2
    MaxM0 = 4
    EfConstruction = 4
    DelaunayTypes = {2}
    Threads = {1}
    Drawn = {0}
    Posts = {1}
    DrawnWith <- Flat
SPECIFICATION CreateSpec
INVARIANT SectionsHold
