----------------------------- MODULE HnswBuild -----------------------------
(***************************************************************************)
(* The construction of the hierarchical small-world graph: CreateIndex and *)
(* add of src/method/hnsw.cc, and the node class of include/method/hnsw.h. *)
(* The first node is made by the caller; ParallelFor (module ThreadPool)   *)
(* gives the other ids to the threads, which insert them concurrently.     *)
(* Module HnswPost makes a second build and merges both.                   *)
(*                                                                         *)
(* A list of friends is a set: addFriendlevel inserts no duplicate.  A     *)
(* step that locks accessGuard_ of one node is atomic.  maxlevel_ and      *)
(* enterpoint_ are read and written without a common lock, in the order of *)
(* the program.                                                            *)
(***************************************************************************)
EXTENDS Integers, FiniteSets, Sequences

CONSTANTS
    Data,               \* data_: the objects, one node each
    Null,               \* nullptr; no holder of a mutex
    Dist,               \* Dist[x][y]: IndexTimeDistance(x, y)
    M,                  \* neighbors a new node is linked to
    MaxM, MaxM0,        \* friends of a node on upper levels and on level 0
    EfConstruction,     \* depth of the search made by an insertion
    DelaunayTypes,      \* values of the parameter delaunay_type
    Threads,            \* the workers of ParallelFor
    Drawn               \* bound: levels getRandomLevel returns

Node == {Data[i] : i \in DOMAIN Data}
TopLevel == CHOOSE l \in Drawn : \A k \in Drawn : k <= l
Levels == 0 .. TopLevel

ASSUME DataAssumption ==
    /\ Data \in Seq(Node) /\ Data # <<>>
    /\ \A i, j \in DOMAIN Data : Data[i] = Data[j] => i = j
    /\ Null \notin Node
ASSUME HnswDistAssumption ==
    /\ Dist \in [Node -> [Node -> Nat]]
    /\ \A q, x, y \in Node : Dist[q][x] = Dist[q][y] => x = y
ASSUME HnswParameterAssumption ==
    /\ M \in Nat \ {0} /\ MaxM \in Nat \ {0} /\ MaxM0 \in Nat \ {0}
    /\ EfConstruction \in Nat \ {0} /\ DelaunayTypes \subseteq 0 .. 2
    /\ Drawn \subseteq Nat /\ Drawn # {} /\ IsFiniteSet(Drawn)
    /\ Null \notin Threads

VARIABLES
    delaunayType,   \* delaunay_type_: how neighbors are selected
    order,          \* the order in which the objects are inserted
    elList,         \* ElList_: the nodes that were inserted
    friends,        \* friends[l][x]: the list allFriends_[l] of node x
    level,          \* level[x]: level of node x, -1 before init
    maxlevel,       \* maxlevel_
    enterpoint,     \* enterpoint_
    guard,          \* holder of MaxLevelGuard_
    next,           \* position in Data of the next node to insert
    pc,             \* what each worker is doing
    node,           \* NewElement of each worker
    todo,           \* shared variables it still has to read or write
    maxcopy,        \* its maxlevelcopy
    ep,             \* its ep, or curNode of the descent
    lev,            \* its loop variable level
    seen,           \* nodes its search has visited
    expanded,       \* nodes whose friends its search has read
    left            \* nodes it still has to link

graph == <<elList, friends, level>>
top == <<maxlevel, enterpoint, guard>>
search == <<seen, expanded>>
local == <<node, todo, maxcopy, ep, lev, search, left>>
vars == <<delaunayType, order, graph, top, next, pc, local>>

Shared == {"maxlevel", "enterpoint"}
Labels == {"fetch", "drawn", "guard", "read", "descend", "search", "link", "linkback",
           "top", "store", "publish", "done"}

HnswTypeOK ==
    /\ delaunayType \in DelaunayTypes
    /\ order \in [DOMAIN Data -> Node]
    /\ elList \in SUBSET Node
    /\ friends \in [Levels -> [Node -> SUBSET Node]]
    /\ level \in [Node -> Levels \cup {-1}]
    /\ maxlevel \in Levels
    /\ enterpoint \in Node
    /\ guard \in Threads \cup {Null}
    /\ next \in 2 .. Len(Data) + 1
    /\ pc \in [Threads -> Labels]
    /\ node \in [Threads -> Node \cup {Null}]
    /\ todo \in [Threads -> SUBSET Shared]
    /\ maxcopy \in [Threads -> Levels]
    /\ ep \in [Threads -> Node \cup {Null}]
    /\ lev \in [Threads -> Levels]
    /\ seen \in [Threads -> SUBSET Node]
    /\ expanded \in [Threads -> SUBSET Node]
    /\ left \in [Threads -> SUBSET Node]

\* "One entry should be added before all the threads are started."
Init ==
    /\ \E l \in Drawn :
        /\ level = [x \in Node |-> IF x = Data[1] THEN l ELSE -1]
        /\ maxlevel = l
    /\ delaunayType \in DelaunayTypes
    /\ order = Data
    /\ enterpoint = Data[1]
    /\ elList = {Data[1]}
    /\ friends = [l \in Levels |-> [x \in Node |-> {}]]
    /\ guard = Null
    /\ next = 2
    /\ pc = [t \in Threads |-> "fetch"]
    /\ node = [t \in Threads |-> Null]
    /\ todo = [t \in Threads |-> {}]
    /\ maxcopy = [t \in Threads |-> 0]
    /\ ep = [t \in Threads |-> Null]
    /\ lev = [t \in Threads |-> 0]
    /\ seen = [t \in Threads |-> {}]
    /\ expanded = [t \in Threads |-> {}]
    /\ left = [t \in Threads |-> {}]

-----------------------------------------------------------------------------
(* Distances and the selection of neighbors.                               *)

\* d[x] is the distance x has in the queue.
Closer(S, x, d) == {y \in S : d[y] < d[x]}
Closest(S, q) == {x \in S : Closer(S, x, Dist[q]) = {}}
Farthest(S, q) == {x \in S : \A y \in S : Dist[q][y] <= Dist[q][x]}
Nearest(S, d, n) == {x \in S : Cardinality(Closer(S, x, d)) < n}

\* Nearest first, a node is kept unless NN are kept already or one of the kept
\* nodes is closer to it than the query is.
Diverse(S, d, NN) ==
    CHOOSE R \in SUBSET S : \A x \in S :
        x \in R <=> LET before == Closer(R, x, d)
                    IN  /\ Cardinality(before) < NN
                        /\ \A y \in before : Dist[y][x] >= d[x]

\* getNeighborsByHeuristic1 fills the list up with the nearest of the others.
Heuristic1(S, d, NN) ==
    LET R == Diverse(S, d, NN)
    IN  R \cup Nearest(S \ R, d, NN - Cardinality(R))

Selected(S, q, NN) ==
    IF Cardinality(S) < NN THEN S
    ELSE CASE delaunayType = 0 -> Nearest(S, Dist[q], NN)
           [] delaunayType = 1 -> Heuristic1(S, Dist[q], NN)
           [] delaunayType = 2 -> Diverse(S, Dist[q], NN)

MaxSize(l) == IF l > 0 THEN MaxM ELSE MaxM0

\* Mutant: the length is compared before the insertion.
WithFriendTooMany(l, x, y) ==
    LET F == friends[l][x] \cup {y}
    IN  IF y \in friends[l][x] \/ Cardinality(friends[l][x]) <= MaxSize(l) THEN F
        ELSE Selected(F, x, Cardinality(F) - 1)

\* addFriendlevel: the friends of x on level l when y is added.
WithFriend(l, x, y) ==
    LET F == friends[l][x] \cup {y}
    IN  IF y \in friends[l][x] \/ Cardinality(F) <= MaxSize(l) THEN F
        ELSE Selected(F, x, Cardinality(F) - 1)

-----------------------------------------------------------------------------
(* Insertion of one node: add.                                             *)

\* The worker gets the next id and draws a level, which only it knows.
Fetch(t) ==
    /\ pc[t] = "fetch"
    /\ next <= Len(Data)
    /\ next' = next + 1
    /\ node' = [node EXCEPT ![t] = order[next]]
    /\ \E l \in Drawn : level' = [level EXCEPT ![order[next]] = l]
    /\ todo' = [todo EXCEPT ![t] = Shared]
    /\ pc' = [pc EXCEPT ![t] = "drawn"]
    /\ UNCHANGED <<elList, friends, top, maxcopy, ep, lev, search, left>>

\* Mutant: the guard is taken by nobody.
NeedNoGuard(t) ==
    /\ pc[t] = "drawn"
    /\ pc' = [pc EXCEPT ![t] = "read"]
    /\ UNCHANGED <<graph, top, next, local>>

\* A level above maxlevel_, read without the guard, asks for the guard.
NeedGuard(t) ==
    /\ pc[t] = "drawn"
    /\ pc' = [pc EXCEPT ![t] = IF level[node[t]] > maxlevel THEN "guard" ELSE "read"]
    /\ UNCHANGED <<graph, top, next, local>>

Leave(t) ==
    /\ pc[t] = "fetch"
    /\ next > Len(Data)
    /\ pc' = [pc EXCEPT ![t] = "done"]
    /\ UNCHANGED <<graph, top, next, local>>

Guard(t) ==
    /\ pc[t] = "guard"
    /\ guard = Null
    /\ guard' = t
    /\ pc' = [pc EXCEPT ![t] = "read"]
    /\ UNCHANGED <<graph, maxlevel, enterpoint, next, local>>

\* A variable is accessed after the one that comes before it in add.
After(t, v, first) == v \in todo[t] /\ (v = first \/ first \notin todo[t])
Did(t, v) == todo' = [todo EXCEPT ![t] = @ \ {v}]

ReadMaxLevel(t) ==
    /\ pc[t] = "read"
    /\ After(t, "maxlevel", "maxlevel")
    /\ Did(t, "maxlevel")
    /\ maxcopy' = [maxcopy EXCEPT ![t] = maxlevel]
    /\ UNCHANGED <<graph, top, next, pc, node, ep, lev, search, left>>

ReadEnterpoint(t) ==
    /\ pc[t] = "read"
    /\ After(t, "enterpoint", "maxlevel")
    /\ Did(t, "enterpoint")
    /\ ep' = [ep EXCEPT ![t] = enterpoint]
    /\ UNCHANGED <<graph, top, next, pc, node, maxcopy, lev, search, left>>

\* kSearchElementsWithAttemptsLevel starts from p.
SearchFrom(t, p) ==
    /\ pc' = [pc EXCEPT ![t] = "search"]
    /\ seen' = [seen EXCEPT ![t] = {p}]
    /\ expanded' = [expanded EXCEPT ![t] = {}]

Start(t) ==
    /\ pc[t] = "read"
    /\ todo[t] = {}
    /\ lev' = [lev EXCEPT ![t] = maxcopy[t]]
    /\ IF level[node[t]] < maxcopy[t]
       THEN pc' = [pc EXCEPT ![t] = "descend"] /\ UNCHANGED search
       ELSE SearchFrom(t, ep[t])
    /\ UNCHANGED <<graph, top, next, node, todo, maxcopy, ep, left>>

\* Go to the closest friend on this level, or down one level when no friend is
\* closer than the current node.
Descend(t) ==
    /\ pc[t] = "descend"
    /\ LET better == Closer(friends[lev[t]][ep[t]], ep[t], Dist[node[t]])
       IN  IF better # {}
           THEN /\ \E x \in Closest(better, node[t]) : ep' = [ep EXCEPT ![t] = x]
                /\ UNCHANGED <<pc, lev, search>>
           ELSE /\ lev' = [lev EXCEPT ![t] = @ - 1]
                /\ IF lev[t] - 1 > level[node[t]]
                   THEN UNCHANGED <<pc, search>>
                   ELSE SearchFrom(t, ep[t])
                /\ UNCHANGED ep
    /\ UNCHANGED <<graph, top, next, node, todo, maxcopy, left>>

\* Among the EfConstruction closest nodes visited, read the friends of the
\* closest one that was not read, under its lock.
Unread(t) == Closest(seen[t] \ expanded[t], node[t])
Within(t, c) == Cardinality(Closer(seen[t], c, Dist[node[t]])) < EfConstruction

Expand(t) ==
    /\ pc[t] = "search"
    /\ \E c \in Unread(t) :
        /\ Within(t, c)
        /\ seen' = [seen EXCEPT ![t] = @ \cup friends[lev[t]][c]]
        /\ expanded' = [expanded EXCEPT ![t] = @ \cup {c}]
    /\ UNCHANGED <<graph, top, next, pc, node, todo, maxcopy, ep, lev, left>>

StopSearch(t) ==
    /\ pc[t] = "search"
    /\ \A c \in Unread(t) : ~ Within(t, c)
    /\ left' = [left EXCEPT ![t] =
                    Selected(Nearest(seen[t], Dist[node[t]], EfConstruction), node[t], M)]
    /\ pc' = [pc EXCEPT ![t] = "link"]
    /\ seen' = [seen EXCEPT ![t] = {}]
    /\ expanded' = [expanded EXCEPT ![t] = {}]
    /\ UNCHANGED <<graph, top, next, node, todo, maxcopy, ep, lev>>

\* link, farthest neighbor first: each addFriendlevel locks its own node.
LinkThere(t) ==
    /\ pc[t] = "link"
    /\ \E x \in Farthest(left[t], node[t]) :
        /\ ep' = [ep EXCEPT ![t] = x]
        /\ friends' = [friends EXCEPT ![lev[t]][x] = WithFriend(lev[t], x, node[t])]
    /\ pc' = [pc EXCEPT ![t] = "linkback"]
    /\ UNCHANGED <<elList, level, top, next, node, todo, maxcopy, lev, search, left>>

\* Mutant: the new node does not learn its neighbor.
LinkBackNot(t) ==
    /\ pc[t] = "linkback"
    /\ left' = [left EXCEPT ![t] = @ \ {ep[t]}]
    /\ pc' = [pc EXCEPT ![t] = "link"]
    /\ UNCHANGED <<graph, top, next, node, todo, maxcopy, ep, lev, search>>

LinkBack(t) ==
    /\ pc[t] = "linkback"
    /\ friends' = [friends EXCEPT ![lev[t]][node[t]] = WithFriend(lev[t], node[t], ep[t])]
    /\ left' = [left EXCEPT ![t] = @ \ {ep[t]}]
    /\ pc' = [pc EXCEPT ![t] = "link"]
    /\ UNCHANGED <<elList, level, top, next, node, todo, maxcopy, ep, lev, search>>

\* Mutant: the new element, linked on the level above, is memorized as ep.
NextLevelFromNew(t) ==
    /\ pc[t] = "link"
    /\ left[t] = {}
    /\ lev[t] > 0
    /\ lev' = [lev EXCEPT ![t] = @ - 1]
    /\ SearchFrom(t, node[t])
    /\ UNCHANGED <<graph, top, next, node, todo, maxcopy, ep, left>>

\* The next lower level is searched from the closest neighbor of this one.
NextLevel(t) ==
    /\ pc[t] = "link"
    /\ left[t] = {}
    /\ lev[t] > 0
    /\ lev' = [lev EXCEPT ![t] = @ - 1]
    /\ SearchFrom(t, ep[t])
    /\ UNCHANGED <<graph, top, next, node, todo, maxcopy, ep, left>>

\* Is the new node higher than the entry point?
CompareTop(t) ==
    /\ pc[t] = "link"
    /\ left[t] = {}
    /\ lev[t] = 0
    /\ IF level[node[t]] > level[enterpoint]
       THEN /\ todo' = [todo EXCEPT ![t] = Shared]
            /\ pc' = [pc EXCEPT ![t] = "store"]
       ELSE /\ pc' = [pc EXCEPT ![t] = "publish"]
            /\ UNCHANGED todo
    /\ UNCHANGED <<graph, top, next, node, maxcopy, ep, lev, search, left>>

StoreEnterpoint(t) ==
    /\ pc[t] = "store"
    /\ After(t, "enterpoint", "enterpoint")
    /\ Did(t, "enterpoint")
    /\ enterpoint' = node[t]
    /\ UNCHANGED <<graph, maxlevel, guard, next, pc, node, maxcopy, ep, lev, search, left>>

\* Mutant: maxlevel_ is raised before the entry point has that level.
StoreMaxLevelFirst(t) ==
    /\ pc[t] = "store"
    /\ After(t, "maxlevel", "maxlevel")
    /\ Did(t, "maxlevel")
    /\ maxlevel' = level[node[t]]
    /\ UNCHANGED <<graph, enterpoint, guard, next, pc, node, maxcopy, ep, lev, search, left>>

StoreMaxLevel(t) ==
    /\ pc[t] = "store"
    /\ After(t, "maxlevel", "enterpoint")
    /\ Did(t, "maxlevel")
    /\ maxlevel' = level[node[t]]
    /\ UNCHANGED <<graph, enterpoint, guard, next, pc, node, maxcopy, ep, lev, search, left>>

\* The node is stored in ElList_ and the variables of add are gone.
Inserted(t) ==
    /\ pc[t] = "publish" \/ (pc[t] = "store" /\ todo[t] = {})
    /\ elList' = elList \cup {node[t]}
    /\ node' = [node EXCEPT ![t] = Null]
    /\ ep' = [ep EXCEPT ![t] = Null]
    /\ maxcopy' = [maxcopy EXCEPT ![t] = 0]
    /\ pc' = [pc EXCEPT ![t] = "fetch"]
    /\ UNCHANGED <<friends, level, maxlevel, enterpoint, next, todo, lev, search, left>>

\* Mutant: the guard is not released.
PublishHoldingGuard(t) == Inserted(t) /\ UNCHANGED guard

\* add returns and releases the guard if it was taken.
Publish(t) == Inserted(t) /\ guard' = IF guard = t THEN Null ELSE guard

Worker(t) ==
    /\ UNCHANGED <<delaunayType, order>>
    /\ \/ Fetch(t) \/ NeedGuard(t) \/ Guard(t) \/ Leave(t)
       \/ ReadMaxLevel(t) \/ ReadEnterpoint(t) \/ Start(t) \/ Descend(t) \/ Expand(t) \/ StopSearch(t)
       \/ LinkThere(t) \/ LinkBack(t) \/ NextLevel(t) \/ CompareTop(t)
       \/ StoreEnterpoint(t) \/ StoreMaxLevel(t) \/ Publish(t)

\* ParallelFor has returned when all workers have left.
Built == \A t \in Threads : pc[t] = "done"

Next == \E t \in Threads : Worker(t)

Spec == Init /\ [][Next]_vars

-----------------------------------------------------------------------------
(* Properties.                                                             *)

\* Everything has its type, and getAllFriends(level) is only asked of nodes that
\* have that level: neither the descent nor a search leaves the levels of the
\* nodes it visits.
LevelsInRange ==
    /\ HnswTypeOK
    /\ \A t \in Threads :
        /\ pc[t] = "descend" => lev[t] <= level[ep[t]]
        /\ pc[t] = "search" => \A x \in seen[t] : lev[t] <= level[x]
        /\ pc[t] = "link" => \A x \in left[t] : lev[t] <= level[x]

\* No list outgrows the space copyDataAndLevel0LinksToOptIndex and
\* copyHigherLevelLinksToOptIndex have for it.
ListsFit == \A l \in Levels, x \in Node : Cardinality(friends[l][x]) <= MaxSize(l)

\* The index that SaveRegularIndexBin writes: maxlevel_ >= currlevel, for the
\* level of every node.
MaxLevelIsHighest == Built => \A x \in elList : level[x] <= maxlevel

\* When the index is built its entry point is a node of level maxlevel_, no
\* node is above it and none was lost.
EntersOnTop ==
    /\ Built => level[enterpoint] = maxlevel /\ elList = Node
    /\ MaxLevelIsHighest

\* Every node that was inserted has a friend on level 0, whatever the
\* concurrent shrinking of lists removed.
KnowsAnother == Cardinality(elList) > 1 => \A x \in elList \ {Data[1]} : friends[0][x] # {}

\* checkList1, "Link to the same element": no insertion finds the node it is
\* inserting, although others link to that node on a level it has not searched.
NoLinkToItself == \A l \in Levels, x \in Node : x \notin friends[l][x]
=============================================================================
