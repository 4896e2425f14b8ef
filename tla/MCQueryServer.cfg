\* Two handlers with single and batch queries, and a change of the parameters.
CONSTANTS
    n1 = n1
    n2 = n2
    n3 = n3
    n4 = n4
    n5 = n5
    q1 = q1
    q2 = q2
    Handlers = {"h1", "h2"}
    Slots = {1, 2}
    Node = {n1, n2, n3, n4, n5}
    Queries = {q1, q2}
    Malformed = Malformed
    Dist <- ConstDist
    Indices <- BothIndices
    Requests <- ThreeRequests
    Ks = {1, 2}
    Efs = {1, 2, 4}
    Settings <- FourSettings
    EfOldFrom = 4
    MergeFrom = 1
    VlMod = 3
    MaxQueries = 3
    MaxChanges = 1
    Nobody = Nobody
SPECIFICATION FairSpec
INVARIANTS TypeOK Exclusion ListsApart FirstIsUnused
PROPERTIES ImplementsService RequestsEnd ChangesEnd
