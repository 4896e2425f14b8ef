\* Two threads insert four nodes with up to three levels.
CONSTANTS
    a = a b = b c = c d = d
    Null = Null
    Data <- FourPoints
    Dist <- LineDist
    M = 2
    MaxM = 1
    MaxM0 = 2
    EfConstruction = 2
    DelaunayTypes = {1, 2}
    Threads = {1, 2}
    Drawn = {0, 1, 2}
    Posts = {0, 2}
    DrawnWith <- FlatWithPost
SPECIFICATION CreateSpec
INVARIANTS LevelsInRange ListsFit EntersOnTop KnowsAnother NoLinkToItself
PROPERTY IsBuilt
