----------------------------- MODULE HnswProofs -----------------------------
(***************************************************************************)
(* The selection of neighbors keeps what it should, and a concurrent       *)
(* construction keeps lists, levels and the entry point in order and links *)
(* no node to itself, for any number of nodes, threads and levels.         *)
(***************************************************************************)
EXTENDS HnswPost, Extremes, SequenceTheorems

-----------------------------------------------------------------------------
(* The selection of neighbors.                                             *)

LEMMA NodesAreFinite ==
    /\ IsFiniteSet(Node)
    /\ \A S \in SUBSET Node : IsFiniteSet(S) /\ Cardinality(S) \in Nat
<1>1. Len(Data) \in Nat /\ DOMAIN Data = 1 .. Len(Data) /\ Data \in [1 .. Len(Data) -> Node]
  BY DataAssumption, LenProperties
<1>2. Data \in Surjection(1 .. Len(Data), Node)
  BY <1>1 DEF Surjection, Node
<1>3. IsFiniteSet(1 .. Len(Data))
  BY <1>1, FS_Interval
<1>4. IsFiniteSet(Node)
  BY <1>2, <1>3, FS_Surjection
<1> QED
  BY <1>4, FS_Subset, FS_CardinalityType

\* Distances are numbers, and two nodes at the same distance are the same.
LEMMA Distances ==
    /\ \A x, y \in Node : Dist[x][y] \in Nat
    /\ \A q, x, y \in Node : Dist[q][x] = Dist[q][y] => x = y
BY HnswDistAssumption

\* Distances to or from one node, by which queues rank the others.
Ranking == {d \in [Node -> Nat] : \A x, y \in Node : d[x] = d[y] => x = y}

LEMMA DistancesRank == \A q \in Node : Dist[q] \in Ranking
BY HnswDistAssumption DEF Ranking

LEMMA Ranks ==
    ASSUME NEW d \in Ranking
    PROVE  /\ \A x \in Node : d[x] \in Nat
           /\ \A x, y \in Node : d[x] = d[y] => x = y
BY DEF Ranking

LEMMA ClosestExists ==
    ASSUME NEW S \in SUBSET Node, S # {}, NEW d \in Ranking
    PROVE  \E x \in S : Closer(S, x, d) = {}
<1>1. \A x \in S : d[x] \in Nat
  BY Ranks
<1>2. PICK x \in S : \A y \in S : d[x] <= d[y]
  BY <1>1, LeastValue
<1>3. \A y \in S : ~ (d[y] < d[x])
  BY <1>1, <1>2
<1> QED
  BY <1>3 DEF Closer

LEMMA FarthestExists ==
    ASSUME NEW S \in SUBSET Node, S # {}, NEW d \in Ranking
    PROVE  \E x \in S : \A y \in S : d[y] <= d[x]
<1>1. IsFiniteSet(S)
  BY NodesAreFinite
<1>2. \A x \in S : d[x] \in Nat
  BY Ranks
<1> QED
  BY <1>1, <1>2, GreatestValue

\* At most n nodes have fewer than n closer ones: the farthest of them has all
\* the others before it.
LEMMA NearestAreFew ==
    ASSUME NEW S \in SUBSET Node, NEW d \in Ranking, NEW n \in Nat
    PROVE  /\ Nearest(S, d, n) \subseteq S
           /\ Cardinality(Nearest(S, d, n)) <= n
<1> DEFINE N == Nearest(S, d, n)
<1>1. N \subseteq S
  BY DEF Nearest
<1>2. IsFiniteSet(N) /\ Cardinality(N) \in Nat
  BY <1>1, NodesAreFinite
<1>3. CASE N = {}
  BY <1>3, FS_EmptySet
<1>4. CASE N # {}
  <2> HIDE DEF N
  <2>1. PICK x \in N : \A y \in N : d[y] <= d[x]
    BY <1>1, <1>4, FarthestExists
  <2>2. \A y \in N \ {x} : d[y] < d[x]
    <3>1. \A y \in N : y \in Node /\ d[y] \in Nat
      BY <1>1, Ranks
    <3> QED
      BY <2>1, <3>1, Ranks
  <2>3. N \ {x} \subseteq Closer(S, x, d)
    BY <1>1, <2>2 DEF Closer
  <2>4. Closer(S, x, d) \subseteq Node
    BY DEF Closer
  <2>5. Cardinality(N \ {x}) <= Cardinality(Closer(S, x, d))
    BY <2>3, <2>4, NodesAreFinite, FS_Subset
  <2>6. Cardinality(N \ {x}) = Cardinality(N) - 1
    BY <1>2, <2>1, FS_RemoveElement
  <2>7. Cardinality(Closer(S, x, d)) < n
    <3>1. x \in Nearest(S, d, n)
      BY <2>1 DEF N
    <3> QED
      BY <3>1 DEF Nearest
  <2>8. Cardinality(Closer(S, x, d)) \in Nat
    BY <2>4, NodesAreFinite
  <2>9. Cardinality(N) <= n
    BY <1>2, <2>5, <2>6, <2>7, <2>8
  <2> QED
    BY <1>1, <2>9 DEF N
<1> QED
  BY <1>1, <1>3, <1>4

LEMMA NearestIsNotEmpty ==
    ASSUME NEW S \in SUBSET Node, S # {}, NEW d \in Ranking, NEW n \in Nat \ {0}
    PROVE  Nearest(S, d, n) # {}
<1>1. PICK x \in S : Closer(S, x, d) = {}
  BY ClosestExists
<1>2. Cardinality(Closer(S, x, d)) < n
  BY <1>1, FS_EmptySet
<1> QED
  BY <1>2 DEF Nearest

\* R is what heuristic 2 keeps of S.
IsDiverse(R, S, d, NN) ==
    \A x \in S : x \in R <=> LET before == Closer(R, x, d)
                             IN  /\ Cardinality(before) < NN
                                 /\ \A y \in before : Dist[y][x] >= d[x]

\* Heuristic 2 has a result: what it keeps of all but the farthest node, and
\* that one too unless it is pruned.
LEMMA DiverseExists ==
    ASSUME NEW S \in SUBSET Node, NEW d \in Ranking, NEW NN
    PROVE  \E R \in SUBSET S : IsDiverse(R, S, d, NN)
<1> DEFINE Has(T) == \E R \in SUBSET T : IsDiverse(R, T, d, NN)
           Bad == {T \in SUBSET S : ~ Has(T)}
<1>1. SUFFICES ASSUME Bad # {} PROVE FALSE
  BY <1>1
<1>2. \A T \in Bad : IsFiniteSet(T) /\ Cardinality(T) \in Nat
  BY NodesAreFinite
<1> DEFINE size == [T \in Bad |-> Cardinality(T)]
<1>3. PICK T \in Bad : \A U \in Bad : Cardinality(T) <= Cardinality(U)
  <2>1. \A T \in Bad : size[T] \in Nat
    BY <1>2
  <2>2. \E T \in Bad : \A U \in Bad : size[T] <= size[U]
    <3> HIDE DEF Bad, size
    <3> QED
      BY <1>1, <2>1, LeastValue
  <2> QED
    BY <2>2
<1>4. T \in SUBSET Node /\ T \in SUBSET S /\ ~ Has(T)
  OBVIOUS
<1>5. T # {}
  BY <1>4 DEF IsDiverse
<1>6. PICK z \in T : \A y \in T : d[y] <= d[z]
  BY <1>4, <1>5, FarthestExists
<1> DEFINE U == T \ {z}
<1>7. U \notin Bad
  <2>1. Cardinality(U) = Cardinality(T) - 1 /\ Cardinality(T) \in Nat
    BY <1>2, FS_RemoveElement
  <2> HIDE DEF Bad, U
  <2> QED
    BY <1>3, <2>1
<1>8. PICK R \in SUBSET U : IsDiverse(R, U, d, NN)
  BY <1>4, <1>7
<1> DEFINE kept == /\ Cardinality(Closer(R, z, d)) < NN
                   /\ \A y \in Closer(R, z, d) : Dist[y][z] >= d[z]
           Q == IF kept THEN R \cup {z} ELSE R
<1>9. \A x \in T : Closer(Q, x, d) = Closer(R, x, d)
  <2>1. \A x \in T : ~ (d[z] < d[x])
    <3>1. \A x \in T : d[x] \in Nat
      BY <1>4, Ranks
    <3> QED
      BY <1>6, <3>1
  <2> HIDE DEF kept
  <2> QED
    BY <2>1 DEF Closer
<1>10. z \in Q <=> kept
  <2> HIDE DEF kept
  <2> QED
    OBVIOUS
<1>11. \A x \in U : x \in Q <=> x \in R
  <2> HIDE DEF kept
  <2> QED
    OBVIOUS
<1>12. Q \in SUBSET T
  <2> HIDE DEF kept
  <2> QED
    OBVIOUS
<1> HIDE DEF Q
<1>13. ASSUME NEW x \in T
       PROVE  x \in Q <=> /\ Cardinality(Closer(Q, x, d)) < NN
                          /\ \A y \in Closer(Q, x, d) : Dist[y][x] >= d[x]
  <2>1. CASE x = z
    BY <1>9, <1>10, <2>1
  <2>2. CASE x # z
    BY <1>8, <1>9, <1>11, <2>2 DEF IsDiverse
  <2> QED
    BY <2>1, <2>2
<1>14. IsDiverse(Q, T, d, NN)
  BY <1>13 DEF IsDiverse
<1> QED
  BY <1>4, <1>12, <1>14

LEMMA DiverseIsDiverse ==
    ASSUME NEW S \in SUBSET Node, NEW d \in Ranking, NEW NN
    PROVE  Diverse(S, d, NN) \subseteq S /\ IsDiverse(Diverse(S, d, NN), S, d, NN)
<1>1. \E R \in SUBSET S : IsDiverse(R, S, d, NN)
  BY DiverseExists
<1>2. Diverse(S, d, NN) = CHOOSE R \in SUBSET S : IsDiverse(R, S, d, NN)
  BY DEF Diverse, IsDiverse
<1> QED
  BY <1>1, <1>2

LEMMA DiverseAreFew ==
    ASSUME NEW S \in SUBSET Node, NEW d \in Ranking, NEW NN \in Nat
    PROVE  Cardinality(Diverse(S, d, NN)) <= NN
<1> DEFINE R == Diverse(S, d, NN)
<1>1. R \subseteq S /\ IsDiverse(R, S, d, NN)
  BY DiverseIsDiverse
<1>2. R = Nearest(R, d, NN)
  BY <1>1 DEF IsDiverse, Nearest
<1>3. R \in SUBSET Node
  BY <1>1
<1> HIDE DEF R
<1>4. Cardinality(R) <= NN
  BY <1>2, <1>3, NearestAreFew
<1> QED
  BY <1>4 DEF R

LEMMA DiverseIsNotEmpty ==
    ASSUME NEW S \in SUBSET Node, S # {}, NEW d \in Ranking, NEW NN \in Nat \ {0}
    PROVE  Diverse(S, d, NN) # {}
<1> DEFINE R == Diverse(S, d, NN)
<1>1. R \subseteq S /\ IsDiverse(R, S, d, NN)
  BY DiverseIsDiverse
<1>2. PICK x \in S : Closer(S, x, d) = {}
  BY ClosestExists
<1>3. Closer(R, x, d) = {}
  BY <1>1, <1>2 DEF Closer
<1>4. Cardinality(Closer(R, x, d)) < NN
  BY <1>3, FS_EmptySet
<1>5. x \in R
  BY <1>1, <1>3, <1>4 DEF IsDiverse
<1> QED
  BY <1>5

\* Heuristic 1 adds to what heuristic 2 keeps.
LEMMA FilledUp ==
    ASSUME NEW S \in SUBSET Node, NEW d \in Ranking, NEW NN \in Nat
    PROVE  /\ Heuristic1(S, d, NN) \subseteq S
           /\ Cardinality(Heuristic1(S, d, NN)) <= NN
           /\ S # {} /\ NN # 0 => Heuristic1(S, d, NN) # {}
<1> DEFINE R == Diverse(S, d, NN)
           n == NN - Cardinality(R)
           N == Nearest(S \ R, d, n)
<1>1. R \subseteq S /\ Cardinality(R) <= NN
  BY DiverseIsDiverse, DiverseAreFew
<1>2. IsFiniteSet(R) /\ Cardinality(R) \in Nat
  BY <1>1, NodesAreFinite
<1>3. S # {} /\ NN # 0 => R # {}
  BY DiverseIsNotEmpty
<1> HIDE DEF R
<1>4. n \in Nat
  BY <1>1, <1>2
<1>5. N \subseteq S \ R /\ Cardinality(N) <= n
  BY <1>4, NearestAreFew
<1>6. IsFiniteSet(N) /\ Cardinality(N) \in Nat
  BY <1>5, NodesAreFinite
<1>7. Heuristic1(S, d, NN) = R \cup N
  BY DEF Heuristic1, R
<1> HIDE DEF N
<1>8. Cardinality(R \cup N) = Cardinality(R) + Cardinality(N) - Cardinality(R \cap N)
  BY <1>2, <1>6, FS_Union
<1>9. R \cap N = {}
  BY <1>5
<1>10. Cardinality(R \cap N) = 0
  BY <1>9, FS_EmptySet
<1>11. Cardinality(R \cup N) <= NN
  BY <1>2, <1>5, <1>6, <1>8, <1>10
<1> QED
  BY <1>1, <1>3, <1>5, <1>7, <1>11

\* Whatever the parameter delaunay_type: the neighbors selected are among the
\* candidates, at most NN, and some unless there are none (hnsw.h 83-175,
\* hnsw.cc 582-600).
THEOREM SelectionIsSound ==
    ASSUME delaunayType \in DelaunayTypes,
           NEW S \in SUBSET Node, NEW q \in Node, NEW NN \in Nat
    PROVE  /\ Selected(S, q, NN) \subseteq S
           /\ Cardinality(Selected(S, q, NN)) <= NN
           /\ S # {} /\ NN # 0 => Selected(S, q, NN) # {}
<1>1. Cardinality(S) \in Nat
  BY NodesAreFinite
<1>2. CASE Cardinality(S) < NN
  BY <1>1, <1>2 DEF Selected
<1>3. CASE ~ (Cardinality(S) < NN) /\ delaunayType = 0
  <2>1. Selected(S, q, NN) = Nearest(S, Dist[q], NN)
    BY <1>3 DEF Selected
  <2>2. Dist[q] \in Ranking
    BY DistancesRank
  <2> QED
    BY <2>1, <2>2, NearestAreFew, NearestIsNotEmpty
<1>4. CASE ~ (Cardinality(S) < NN) /\ delaunayType = 1
  <2>1. Selected(S, q, NN) = Heuristic1(S, Dist[q], NN)
    BY <1>4 DEF Selected
  <2> QED
    BY <2>1, DistancesRank, FilledUp
<1>5. CASE ~ (Cardinality(S) < NN) /\ delaunayType = 2
  <2>1. Selected(S, q, NN) = Diverse(S, Dist[q], NN)
    BY <1>5 DEF Selected
  <2> QED
    BY <2>1, DistancesRank, DiverseIsDiverse, DiverseAreFew, DiverseIsNotEmpty
<1>6. delaunayType \in 0 .. 2
  BY HnswParameterAssumption
<1> QED
  BY <1>2, <1>3, <1>4, <1>5, <1>6

LEMMA MaxSizeIsPositive == \A l \in Levels : MaxSize(l) \in Nat \ {0}
BY HnswParameterAssumption DEF MaxSize

\* addFriendlevel adds one node and forgets one when the list was full.
LEMMA WithFriendIsSound ==
    ASSUME delaunayType \in DelaunayTypes, NEW l \in Levels, NEW x \in Node, NEW y \in Node,
           friends[l][x] \in SUBSET Node
    PROVE  /\ WithFriend(l, x, y) \subseteq friends[l][x] \cup {y}
           /\ WithFriend(l, x, y) # {}
           /\ Cardinality(friends[l][x]) <= MaxSize(l) =>
                  Cardinality(WithFriend(l, x, y)) <= MaxSize(l)
<1> DEFINE old == friends[l][x]
           F == old \cup {y}
<1>1. F \in SUBSET Node /\ F # {}
  OBVIOUS
<1>2. /\ IsFiniteSet(old) /\ Cardinality(old) \in Nat
      /\ IsFiniteSet(F) /\ Cardinality(F) \in Nat
  BY <1>1, NodesAreFinite
<1>3. Cardinality(F) = IF y \in old THEN Cardinality(old) ELSE Cardinality(old) + 1
  BY <1>2, FS_AddElement
<1>4. WithFriend(l, x, y) = IF y \in old \/ Cardinality(F) <= MaxSize(l) THEN F
                            ELSE Selected(F, x, Cardinality(F) - 1)
  BY DEF WithFriend
<1>5. MaxSize(l) \in Nat \ {0}
  BY MaxSizeIsPositive
<1> HIDE DEF F, old
<1>6. CASE y \in old \/ Cardinality(F) <= MaxSize(l)
  BY <1>1, <1>2, <1>3, <1>4, <1>6 DEF F, old
<1>7. CASE ~ (y \in old \/ Cardinality(F) <= MaxSize(l))
  <2>1. Cardinality(F) - 1 \in Nat \ {0}
    BY <1>2, <1>5, <1>7
  <2>2. /\ Selected(F, x, Cardinality(F) - 1) \subseteq F
        /\ Cardinality(Selected(F, x, Cardinality(F) - 1)) <= Cardinality(F) - 1
        /\ Selected(F, x, Cardinality(F) - 1) # {}
    BY <1>1, <2>1, SelectionIsSound
  <2>3. Selected(F, x, Cardinality(F) - 1) \in SUBSET Node
    BY <1>1, <2>2
  <2>4. Cardinality(Selected(F, x, Cardinality(F) - 1)) \in Nat
    BY <2>3, NodesAreFinite
  <2>5. Cardinality(F) = Cardinality(old) + 1
    BY <1>3, <1>7
  <2> HIDE DEF WithFriend
  <2>6. WithFriend(l, x, y) = Selected(F, x, Cardinality(F) - 1)
    BY <1>4, <1>7
  <2>7. Cardinality(old) <= MaxSize(l) => Cardinality(WithFriend(l, x, y)) <= MaxSize(l)
    BY <1>2, <1>5, <2>2, <2>4, <2>5, <2>6
  <2> QED
    BY <2>2, <2>6, <2>7 DEF F, old
<1> QED
  BY <1>6, <1>7

LEMMA DrawnLevels ==
    /\ TopLevel \in Nat
    /\ \A l \in Drawn : l \in Levels
    /\ \A l \in Levels : l \in Nat /\ l <= TopLevel
    /\ 0 \in Levels
    /\ Drawn # {}
<1> DEFINE f == [l \in Drawn |-> l]
<1>1. \A l \in Drawn : f[l] = l /\ f[l] \in Nat
  BY HnswParameterAssumption
<1>2. IsFiniteSet(Drawn) /\ Drawn # {}
  BY HnswParameterAssumption
<1> HIDE DEF f
<1>3. \E l \in Drawn : \A k \in Drawn : f[k] <= f[l]
  BY <1>1, <1>2, GreatestValue
<1>4. \E l \in Drawn : \A k \in Drawn : k <= l
  BY <1>1, <1>3
<1>5. TopLevel \in Drawn /\ \A k \in Drawn : k <= TopLevel
  BY <1>4 DEF TopLevel
<1>6. TopLevel \in Nat /\ \A k \in Drawn : k \in Nat
  BY <1>5, HnswParameterAssumption
<1> QED
  BY <1>2, <1>5, <1>6 DEF Levels

-----------------------------------------------------------------------------
(* The invariant.  What follows is about both builds and the merging.      *)

Inserts == {"drawn", "guard", "read", "descend", "search", "link", "linkback",
            "store", "publish"}
Linking == {"search", "link", "linkback"}
Tasks == [pc : {"fetch", "compare", "raise", "join", "store", "swap"},
          node : Node \cup {Null}, copy : Nat]

\* Everything has its type; nobody inserts while others merge; with post = 2
\* the longest list allowed remains what the parameter said.
Typed ==
    /\ HnswTypeOK
    /\ post \in Posts /\ phase \in {"first", "second", "merging", "ready"}
    /\ temp \in [Node -> SUBSET Node]
    /\ maxF \in Nat /\ maxM0 \in Nat
    /\ merge \in Nat \ {0}
    /\ task \in [Threads -> Tasks]
    /\ \A t \in Threads : task[t].pc # "fetch" => task[t].node \in Node
    /\ \A t \in Threads : task[t].pc = "store" => post = 1
    /\ phase \in {"merging", "ready"} => Built
    /\ post # 1 => maxM0 = MaxM0

\* The objects are inserted in an order that has each of them once.
Permuted ==
    /\ order[1] = Data[1]
    /\ \A i, j \in DOMAIN Data : order[i] = order[j] => i = j
    /\ \A x \in Node : \E i \in DOMAIN Data : order[i] = x

\* The nodes whose ids were given out: each is in the list or in the hands of
\* one worker, and no other has a level.
Fetched == {order[i] : i \in 1 .. next - 1}
Held ==
    /\ \A t \in Threads : node[t] # Null <=> pc[t] \in Inserts
    /\ \A t \in Threads : node[t] # Null => node[t] \in Fetched \ elList
    /\ \A t, u \in Threads : node[t] = node[u] /\ node[t] # Null => t = u
    /\ elList \subseteq Fetched /\ Data[1] \in elList
    /\ \A x \in Fetched : x \in elList \/ \E t \in Threads : node[t] = x
    /\ \A x \in Node : level[x] = -1 <=> x \notin Fetched
    /\ \A t \in Threads : pc[t] = "done" => next = Len(Data) + 1

\* A search has an entry, on a level that the new node does not exceed.
RunningOf(t) ==
    /\ pc[t] \in {"drawn", "guard"} => todo[t] = Shared
    /\ pc[t] = "read" /\ "enterpoint" \notin todo[t] => ep[t] \in Node
    /\ pc[t] \in {"descend"} \cup Linking => ep[t] \in Node
    /\ pc[t] = "descend" => lev[t] > level[node[t]]
    /\ pc[t] \in Linking => lev[t] <= level[node[t]]
    /\ pc[t] = "search" => seen[t] # {}
    /\ pc[t] = "linkback" => ep[t] \in left[t]

Running == \A t \in Threads : RunningOf(t)

Base == Typed /\ Permuted /\ Held /\ Running

\* A step of an insertion: Build, for one worker.
Inserting(t) ==
    /\ phase \in {"first", "second"}
    /\ Worker(t)
    /\ UNCHANGED postvars

-----------------------------------------------------------------------------
(* The insertions keep the types.                                          *)

\* A worker that inserts has a node with a level.
LEMMA HeldNode ==
    ASSUME Base, NEW t \in Threads, pc[t] \in Inserts
    PROVE  node[t] \in Node /\ level[node[t]] \in Levels /\ level[node[t]] >= 0
<1>1. node[t] # Null /\ node[t] \in Fetched
  BY DEF Base, Held
<1>2. node[t] \in Node
  BY <1>1 DEF Base, Typed, HnswTypeOK
<1>3. level[node[t]] # -1 /\ level[node[t]] \in Levels \cup {-1}
  BY <1>1, <1>2 DEF Base, Held, Typed, HnswTypeOK
<1> QED
  BY <1>2, <1>3, DrawnLevels

\* What the id given out next is.
LEMMA NextNode ==
    ASSUME Base, next <= Len(Data)
    PROVE  /\ next \in DOMAIN Data /\ order[next] \in Node
           /\ order[next] \notin Fetched /\ order[next] \notin elList
           /\ \A t \in Threads : node[t] # order[next]
           /\ level[order[next]] = -1
<1>1. Len(Data) \in Nat /\ DOMAIN Data = 1 .. Len(Data)
  BY DataAssumption, LenProperties
<1>2. next \in DOMAIN Data /\ order[next] \in Node
  <2>1. next \in 2 .. Len(Data) + 1 /\ order \in [DOMAIN Data -> Node]
    BY DEF Base, Typed, HnswTypeOK
  <2>2. next \in DOMAIN Data
    BY <1>1, <2>1
  <2> QED
    BY <2>1, <2>2
<1>3. ASSUME NEW i \in 1 .. next - 1 PROVE order[i] # order[next]
  BY <1>1, <1>2, <1>3 DEF Base, Permuted
<1>4. order[next] \notin Fetched
  BY <1>3 DEF Fetched
<1>5. order[next] # Null
  BY <1>2, DataAssumption
<1> QED
  BY <1>2, <1>4, <1>5 DEF Base, Held

LEMMA WithFriendTyped ==
    ASSUME HnswTypeOK, NEW l \in Levels, NEW x \in Node, NEW y \in Node
    PROVE  WithFriend(l, x, y) \in SUBSET Node
<1>1. delaunayType \in DelaunayTypes /\ friends[l][x] \in SUBSET Node
  BY DEF HnswTypeOK
<1>2. WithFriend(l, x, y) \subseteq friends[l][x] \cup {y}
  BY <1>1, WithFriendIsSound
<1> QED
  BY <1>1, <1>2

LEMMA SearchTyped ==
    ASSUME HnswTypeOK, NEW t \in Threads, NEW p \in Node, SearchFrom(t, p)
    PROVE  /\ pc' \in [Threads -> Labels]
           /\ seen' \in [Threads -> SUBSET Node]
           /\ expanded' \in [Threads -> SUBSET Node]
BY DEF SearchFrom, HnswTypeOK, Labels

LEMMA TypedInserting ==
    ASSUME Base, NEW t \in Threads, Inserting(t)
    PROVE  Typed'
<1> USE DEF Base, Typed, HnswTypeOK, Labels, Shared, graph, top, local, search
<1>1. UNCHANGED postvars /\ UNCHANGED <<delaunayType, order>> /\ phase \in {"first", "second"}
  BY DEF Inserting, Worker
<1>2. pc[t] \in Inserts => node[t] \in Node /\ level[node[t]] \in Levels /\ level[node[t]] >= 0
  BY HeldNode
<1>3. HnswTypeOK'
  <2>1. CASE Fetch(t)
    <3>1. order[next] \in Node
      BY <2>1, NextNode DEF Fetch
    <3>2. next' \in 2 .. Len(Data) + 1
      BY <2>1, DataAssumption, LenProperties DEF Fetch
    <3> QED
      BY <1>1, <2>1, <3>1, <3>2, DrawnLevels DEF Fetch
  <2>2. CASE Leave(t)
    BY <1>1, <2>2 DEF Leave
  <2>3. CASE NeedGuard(t) \/ Guard(t)
    BY <1>1, <2>3 DEF NeedGuard, Guard
  <2>4. CASE ReadMaxLevel(t)
    BY <1>1, <2>4 DEF ReadMaxLevel, Did
  <2>5. CASE ReadEnterpoint(t)
    BY <1>1, <2>5 DEF ReadEnterpoint, Did
  <2>6. CASE Start(t)
    <3>1. ep[t] \in Node
      BY <2>6 DEF Start, Running, RunningOf
    <3>2. lev' \in [Threads -> Levels]
      BY <2>6 DEF Start
    <3>3. pc' \in [Threads -> Labels] /\ seen' \in [Threads -> SUBSET Node]
          /\ expanded' \in [Threads -> SUBSET Node]
      <4>1. \/ pc' = [pc EXCEPT ![t] = "descend"] /\ UNCHANGED search
            \/ SearchFrom(t, ep[t])
        BY <2>6 DEF Start
      <4>2. CASE SearchFrom(t, ep[t])
        BY <3>1, <4>2, SearchTyped
      <4>3. CASE ~ SearchFrom(t, ep[t])
        BY <4>1, <4>3
      <4> QED
        BY <4>2, <4>3
    <3> QED
      BY <1>1, <2>6, <3>2, <3>3 DEF Start
  <2>7. CASE Descend(t)
    <3>1. ep[t] \in Node /\ lev[t] - 1 \in Levels
      BY <1>2, <2>7, DrawnLevels DEF Descend, Running, RunningOf, Inserts, Levels
    <3>2. friends[lev[t]][ep[t]] \in SUBSET Node
      BY <3>1
    <3>3. \A x \in Closest(Closer(friends[lev[t]][ep[t]], ep[t], Dist[node[t]]), node[t]) : x \in Node
      BY <3>2 DEF Closest, Closer
    <3>4. ep' \in [Threads -> Node \cup {Null}]
      <4>1. \/ \E x \in Closest(Closer(friends[lev[t]][ep[t]], ep[t], Dist[node[t]]), node[t]) :
                  ep' = [ep EXCEPT ![t] = x]
            \/ ep' = ep
        BY <2>7 DEF Descend
      <4> QED
        BY <3>3, <4>1
    <3>5. lev' \in [Threads -> Levels]
      BY <2>7, <3>1 DEF Descend
    <3>6. pc' \in [Threads -> Labels] /\ seen' \in [Threads -> SUBSET Node]
          /\ expanded' \in [Threads -> SUBSET Node]
      <4>1. UNCHANGED <<pc, search>> \/ SearchFrom(t, ep[t])
        BY <2>7 DEF Descend
      <4>2. CASE SearchFrom(t, ep[t])
        BY <3>1, <4>2, SearchTyped
      <4>3. CASE ~ SearchFrom(t, ep[t])
        BY <4>1, <4>3
      <4> QED
        BY <4>2, <4>3
    <3> QED
      BY <1>1, <2>7, <3>4, <3>5, <3>6 DEF Descend
  <2>8. CASE Expand(t)
    <3>1. \A c \in Unread(t) : c \in Node
      BY DEF Unread, Closest
    <3> QED
      BY <1>1, <2>8, <3>1 DEF Expand
  <2>9. CASE StopSearch(t)
    <3>1. node[t] \in Node
      BY <1>2, <2>9 DEF StopSearch, Inserts
    <3>2. Nearest(seen[t], Dist[node[t]], EfConstruction) \in SUBSET Node
      BY DEF Nearest
    <3>3. Selected(Nearest(seen[t], Dist[node[t]], EfConstruction), node[t], M) \in SUBSET Node
      BY <3>1, <3>2, SelectionIsSound, HnswParameterAssumption
    <3> QED
      BY <1>1, <2>9, <3>3 DEF StopSearch
  <2>10. CASE LinkThere(t)
    <3>1. PICK x \in Farthest(left[t], node[t]) :
              /\ ep' = [ep EXCEPT ![t] = x]
              /\ friends' = [friends EXCEPT ![lev[t]][x] = WithFriend(lev[t], x, node[t])]
      BY <2>10 DEF LinkThere
    <3>2. x \in Node /\ node[t] \in Node
      BY <1>2, <2>10 DEF Farthest, LinkThere, Inserts
    <3>3. WithFriend(lev[t], x, node[t]) \in SUBSET Node
      <4>1. HnswTypeOK /\ lev[t] \in Levels
        OBVIOUS
      <4> HIDE DEF Base, Typed, HnswTypeOK
      <4> QED
        BY <3>2, <4>1, WithFriendTyped
    <3>4. friends' \in [Levels -> [Node -> SUBSET Node]]
      BY <3>1, <3>2, <3>3
    <3> QED
      BY <1>1, <2>10, <3>1, <3>2, <3>4 DEF LinkThere
  <2>11. CASE LinkBack(t)
    <3>1. ep[t] \in Node /\ node[t] \in Node
      BY <1>2, <2>11 DEF LinkBack, Running, RunningOf, Linking, Inserts
    <3>2. WithFriend(lev[t], node[t], ep[t]) \in SUBSET Node
      <4>1. HnswTypeOK /\ lev[t] \in Levels
        OBVIOUS
      <4> HIDE DEF Base, Typed, HnswTypeOK
      <4> QED
        BY <3>1, <4>1, WithFriendTyped
    <3>3. friends' \in [Levels -> [Node -> SUBSET Node]]
      BY <2>11, <3>1, <3>2 DEF LinkBack
    <3> QED
      BY <1>1, <2>11, <3>3 DEF LinkBack
  <2>12. CASE NextLevel(t)
    <3>1. ep[t] \in Node /\ lev[t] - 1 \in Levels
      BY <2>12, DrawnLevels DEF NextLevel, Running, RunningOf, Linking, Levels
    <3> QED
      BY <1>1, <2>12, <3>1 DEF NextLevel, SearchFrom
  <2>13. CASE CompareTop(t)
    <3>1. pc' \in [Threads -> Labels] /\ todo' \in [Threads -> SUBSET Shared]
      <4>1. \/ pc' = [pc EXCEPT ![t] = "store"] /\ todo' = [todo EXCEPT ![t] = Shared]
            \/ pc' = [pc EXCEPT ![t] = "publish"] /\ todo' = todo
        BY <2>13 DEF CompareTop
      <4>2. pc \in [Threads -> Labels] /\ todo \in [Threads -> SUBSET Shared]
        OBVIOUS
      <4>3. CASE pc' = [pc EXCEPT ![t] = "store"] /\ todo' = [todo EXCEPT ![t] = Shared]
        BY <4>2, <4>3
      <4>4. CASE pc' = [pc EXCEPT ![t] = "publish"] /\ todo' = todo
        BY <4>2, <4>4
      <4> QED
        BY <4>1, <4>3, <4>4
    <3> QED
      BY <1>1, <2>13, <3>1 DEF CompareTop
  <2>14. CASE StoreEnterpoint(t)
    BY <1>1, <1>2, <2>14 DEF StoreEnterpoint, Did, Inserts
  <2>15. CASE StoreMaxLevel(t)
    BY <1>1, <1>2, <2>15 DEF StoreMaxLevel, Did, Inserts
  <2>16. CASE Publish(t)
    BY <1>1, <1>2, <2>16, DrawnLevels DEF Publish, Inserted, Inserts
  <2> QED
    BY <2>1, <2>2, <2>3, <2>4, <2>5, <2>6, <2>7, <2>8, <2>9, <2>10, <2>11, <2>12,
       <2>13, <2>14, <2>15, <2>16 DEF Inserting, Worker
<1> QED
  BY <1>1, <1>3 DEF postvars, Tasks

-----------------------------------------------------------------------------
(* What one worker does to the others.                                     *)

\* The steps of an insertion between the id it gets and its end.
Working(t) ==
    \/ NeedGuard(t) \/ Guard(t) \/ ReadMaxLevel(t) \/ ReadEnterpoint(t)
    \/ Start(t) \/ Descend(t) \/ Expand(t) \/ StopSearch(t)
    \/ LinkThere(t) \/ LinkBack(t) \/ NextLevel(t) \/ CompareTop(t)
    \/ StoreEnterpoint(t) \/ StoreMaxLevel(t)

LEMMA WorkingMoves ==
    ASSUME HnswTypeOK, NEW t \in Threads, Working(t)
    PROVE  /\ pc[t] \in Inserts
           /\ \E s \in Inserts : pc' = [pc EXCEPT ![t] = s]
           /\ UNCHANGED <<elList, level, next, node>>
<1> USE DEF Inserts, graph, top, local, search
<1>1. pc = [pc EXCEPT ![t] = pc[t]]
  BY DEF HnswTypeOK
<1>2. CASE NeedGuard(t) \/ Guard(t)
  BY <1>2 DEF NeedGuard, Guard
<1>3. CASE ReadMaxLevel(t)
  BY <1>1, <1>3 DEF ReadMaxLevel
<1>4. CASE ReadEnterpoint(t)
  BY <1>1, <1>4 DEF ReadEnterpoint
<1>5. CASE Start(t)
  <2>1. pc' = [pc EXCEPT ![t] = "descend"] \/ pc' = [pc EXCEPT ![t] = "search"]
    BY <1>5 DEF Start, SearchFrom
  <2> QED
    BY <1>5, <2>1 DEF Start
<1>6. CASE Descend(t)
  <2>1. pc' = pc \/ pc' = [pc EXCEPT ![t] = "search"]
    BY <1>6 DEF Descend, SearchFrom
  <2> QED
    BY <1>1, <1>6, <2>1 DEF Descend
<1>7. CASE Expand(t)
  BY <1>1, <1>7 DEF Expand
<1>8. CASE StopSearch(t)
  BY <1>8 DEF StopSearch
<1>9. CASE LinkThere(t)
  BY <1>9 DEF LinkThere
<1>10. CASE LinkBack(t)
  BY <1>10 DEF LinkBack
<1>11. CASE NextLevel(t)
  BY <1>11 DEF NextLevel, SearchFrom
<1>12. CASE CompareTop(t)
  <2>1. pc' = [pc EXCEPT ![t] = "store"] \/ pc' = [pc EXCEPT ![t] = "publish"]
    BY <1>12 DEF CompareTop
  <2> QED
    BY <1>12, <2>1 DEF CompareTop
<1>13. CASE StoreEnterpoint(t)
  BY <1>1, <1>13 DEF StoreEnterpoint
<1>14. CASE StoreMaxLevel(t)
  BY <1>1, <1>14 DEF StoreMaxLevel
<1> QED
  BY <1>2, <1>3, <1>4, <1>5, <1>6, <1>7, <1>8, <1>9, <1>10, <1>11, <1>12, <1>13, <1>14
     DEF Working

\* The local variables of the others stay.
LEMMA OthersStay ==
    ASSUME HnswTypeOK, NEW t \in Threads, NEW u \in Threads, u # t, Worker(t)
    PROVE  /\ pc'[u] = pc[u] /\ node'[u] = node[u] /\ todo'[u] = todo[u]
           /\ maxcopy'[u] = maxcopy[u] /\ ep'[u] = ep[u] /\ lev'[u] = lev[u]
           /\ seen'[u] = seen[u] /\ expanded'[u] = expanded[u] /\ left'[u] = left[u]
<1> USE DEF HnswTypeOK, graph, top, local, search
<1>1. CASE Fetch(t)
  BY <1>1 DEF Fetch
<1>2. CASE Leave(t)
  BY <1>2 DEF Leave
<1>3. CASE Publish(t)
  BY <1>3 DEF Publish, Inserted
<1>4. CASE NeedGuard(t) \/ Guard(t)
  BY <1>4 DEF NeedGuard, Guard
<1>5. CASE ReadMaxLevel(t)
  BY <1>5 DEF ReadMaxLevel, Did
<1>6. CASE ReadEnterpoint(t)
  BY <1>6 DEF ReadEnterpoint, Did
<1>7. CASE Start(t)
  BY <1>7 DEF Start, SearchFrom
<1>8. CASE Descend(t)
  BY <1>8 DEF Descend, SearchFrom
<1>9. CASE Expand(t)
  BY <1>9 DEF Expand
<1>10. CASE StopSearch(t)
  BY <1>10 DEF StopSearch
<1>11. CASE LinkThere(t)
  BY <1>11 DEF LinkThere
<1>12. CASE LinkBack(t)
  BY <1>12 DEF LinkBack
<1>13. CASE NextLevel(t)
  BY <1>13 DEF NextLevel, SearchFrom
<1>14. CASE CompareTop(t)
  BY <1>14 DEF CompareTop
<1>15. CASE StoreEnterpoint(t)
  BY <1>15 DEF StoreEnterpoint, Did
<1>16. CASE StoreMaxLevel(t)
  BY <1>16 DEF StoreMaxLevel, Did
<1> QED
  BY <1>1, <1>2, <1>3, <1>4, <1>5, <1>6, <1>7, <1>8, <1>9, <1>10, <1>11, <1>12, <1>13,
     <1>14, <1>15, <1>16 DEF Worker

\* A level that was drawn stays.
LEMMA LevelsStay ==
    ASSUME Base, NEW t \in Threads, Worker(t)
    PROVE  \A x \in Fetched : level'[x] = level[x]
<1>1. CASE Fetch(t)
  <2>1. order[next] \notin Fetched
    BY <1>1, NextNode DEF Fetch
  <2>2. \A x \in Fetched : x \in Node
    <3>1. ASSUME NEW i \in 1 .. next - 1 PROVE order[i] \in Node
      <4>1. Len(Data) \in Nat /\ DOMAIN Data = 1 .. Len(Data)
        BY DataAssumption, LenProperties
      <4>2. next \in 2 .. Len(Data) + 1 /\ order \in [DOMAIN Data -> Node]
        BY DEF Base, Typed, HnswTypeOK
      <4> QED
        BY <4>1, <4>2
    <3> QED
      BY <3>1 DEF Fetched
  <2>3. level \in [Node -> Levels \cup {-1}]
    BY DEF Base, Typed, HnswTypeOK
  <2> QED
    BY <1>1, <2>1, <2>2, <2>3 DEF Fetch
<1>2. CASE ~ Fetch(t)
  <2>1. level' = level
    <3>1. CASE Working(t)
      BY <3>1, WorkingMoves DEF Base, Typed
    <3>2. CASE Leave(t) \/ Publish(t)
      BY <3>2 DEF Leave, Publish, Inserted, graph
    <3> QED
      BY <1>2, <3>1, <3>2 DEF Worker, Working
  <2> QED
    BY <2>1
<1> QED
  BY <1>1, <1>2

-----------------------------------------------------------------------------
(* The insertions keep the rest of the base.                               *)

LEMMA HeldInserting ==
    ASSUME Base, NEW t \in Threads, Inserting(t)
    PROVE  Held' /\ Permuted'
<1>1. Worker(t) /\ order' = order
  BY DEF Inserting, Worker
<1>2. Permuted'
  BY <1>1 DEF Base, Permuted
<1>3. /\ next \in 2 .. Len(Data) + 1 /\ Len(Data) \in Nat
      /\ pc \in [Threads -> Labels] /\ node \in [Threads -> Node \cup {Null}]
      /\ level \in [Node -> Levels \cup {-1}]
  BY DataAssumption, LenProperties DEF Base, Typed, HnswTypeOK
<1>4. Held
  BY DEF Base
<1>5. Held'
  <2>1. CASE Working(t)
    <3>1. /\ pc[t] \in Inserts /\ UNCHANGED <<elList, level, next, node>>
          /\ \E s \in Inserts : pc' = [pc EXCEPT ![t] = s]
      BY <2>1, WorkingMoves DEF Base, Typed
    <3>2. pc'[t] \in Inserts /\ \A u \in Threads \ {t} : pc'[u] = pc[u]
      BY <1>3, <3>1
    <3>3. Fetched' = Fetched
      BY <1>1, <3>1 DEF Fetched
    <3>4. "done" \notin Inserts
      BY DEF Inserts
    <3>5. \A u \in Threads : (pc'[u] \in Inserts <=> pc[u] \in Inserts)
                             /\ (pc'[u] = "done" => pc[u] = "done")
      BY <3>1, <3>2, <3>4
    <3> QED
      BY <1>4, <3>1, <3>3, <3>5 DEF Held
  <2>2. CASE Fetch(t)
    <3> DEFINE x == order[next]
    <3>1. x \in Node /\ x \notin Fetched /\ x \notin elList /\ x # Null
          /\ \A u \in Threads : node[u] # x
      BY <2>2, NextNode, DataAssumption DEF Fetch
    <3>2. Fetched' = Fetched \cup {x}
      <4>1. next' = next + 1
        BY <2>2 DEF Fetch
      <4>2. 1 .. next' - 1 = (1 .. next - 1) \cup {next}
        BY <1>3, <4>1
      <4> QED
        BY <1>1, <4>2 DEF Fetched
    <3> HIDE DEF x
    <3>3. /\ node' = [node EXCEPT ![t] = x] /\ elList' = elList /\ pc[t] = "fetch"
          /\ \E l \in Drawn : level' = [level EXCEPT ![x] = l]
          /\ pc' = [pc EXCEPT ![t] = "drawn"]
      BY <2>2 DEF Fetch, x
    <3>4. \A y \in Node : y # x => level'[y] = level[y]
      BY <1>3, <3>3
    <3>5. level'[x] # -1
      BY <1>3, <3>1, <3>3, HnswParameterAssumption
    <3>6. /\ node'[t] = x /\ \A u \in Threads \ {t} : node'[u] = node[u]
          /\ pc'[t] = "drawn" /\ \A u \in Threads \ {t} : pc'[u] = pc[u]
      BY <1>3, <3>3
    <3>7. node[t] = Null
      BY <1>4, <3>3 DEF Held, Inserts
    <3>8. (\A u \in Threads : node[u] # Null <=> pc[u] \in Inserts)'
      BY <1>4, <3>1, <3>6 DEF Held, Inserts
    <3>9. (\A u \in Threads : node[u] # Null => node[u] \in Fetched \ elList)'
      BY <1>4, <3>1, <3>2, <3>3, <3>6 DEF Held
    <3>10. (\A u, v \in Threads : node[u] = node[v] /\ node[u] # Null => u = v)'
      BY <1>4, <3>1, <3>6 DEF Held
    <3>11. (elList \subseteq Fetched /\ Data[1] \in elList)'
      BY <1>4, <3>2, <3>3 DEF Held
    <3>12. (\A y \in Fetched : y \in elList \/ \E u \in Threads : node[u] = y)'
      <4>1. \A u \in Threads : node[u] # Null => node'[u] = node[u]
        BY <3>6, <3>7
      <4>2. \A y \in Fetched : y \in Node
        BY <1>4, DataAssumption DEF Held, Fetched, Base, Typed, HnswTypeOK
      <4> QED
        BY <1>4, <3>2, <3>3, <3>6, <4>1, <4>2, DataAssumption DEF Held
    <3>13. (\A y \in Node : level[y] = -1 <=> y \notin Fetched)'
      BY <1>4, <3>1, <3>2, <3>4, <3>5 DEF Held
    <3>14. (\A u \in Threads : pc[u] = "done" => next = Len(Data) + 1)'
      <4>1. \A u \in Threads : pc'[u] # "done"
        <5>1. next <= Len(Data)
          BY <2>2 DEF Fetch
        <5> QED
          BY <1>3, <1>4, <3>6, <5>1 DEF Held
      <4> QED
        BY <4>1
    <3> QED
      BY <3>8, <3>9, <3>10, <3>11, <3>12, <3>13, <3>14 DEF Held
  <2>3. CASE Leave(t)
    <3>1. /\ UNCHANGED <<elList, level, next, node>> /\ pc[t] = "fetch"
          /\ pc' = [pc EXCEPT ![t] = "done"] /\ next > Len(Data)
      BY <2>3 DEF Leave, graph, local
    <3>2. Fetched' = Fetched
      BY <1>1, <3>1 DEF Fetched
    <3>3. pc'[t] = "done" /\ \A u \in Threads \ {t} : pc'[u] = pc[u]
      BY <1>3, <3>1
    <3>4. next = Len(Data) + 1
      BY <1>3, <3>1
    <3>5. \A u \in Threads : pc'[u] \in Inserts <=> pc[u] \in Inserts
      BY <3>1, <3>3 DEF Inserts
    <3> QED
      BY <1>4, <3>1, <3>2, <3>4, <3>5 DEF Held
  <2>4. CASE Publish(t)
    <3>1. /\ UNCHANGED <<level, next>> /\ elList' = elList \cup {node[t]}
          /\ node' = [node EXCEPT ![t] = Null] /\ pc[t] \in {"publish", "store"}
          /\ pc' = [pc EXCEPT ![t] = "fetch"]
      BY <2>4 DEF Publish, Inserted
    <3>2. Fetched' = Fetched
      BY <1>1, <3>1 DEF Fetched
    <3>3. /\ node'[t] = Null /\ \A u \in Threads \ {t} : node'[u] = node[u]
          /\ pc'[t] = "fetch" /\ \A u \in Threads \ {t} : pc'[u] = pc[u]
      BY <1>3, <3>1
    <3>4. node[t] # Null /\ node[t] \in Fetched
      BY <1>4, <3>1 DEF Held, Inserts
    <3>5. (\A u \in Threads : node[u] # Null <=> pc[u] \in Inserts)'
      BY <1>4, <3>3 DEF Held, Inserts
    <3>6. (\A u \in Threads : node[u] # Null => node[u] \in Fetched \ elList)'
      BY <1>4, <3>1, <3>2, <3>3, <3>4 DEF Held
    <3>7. (\A u, v \in Threads : node[u] = node[v] /\ node[u] # Null => u = v)'
      BY <1>4, <3>3 DEF Held
    <3>8. (\A y \in Fetched : y \in elList \/ \E u \in Threads : node[u] = y)'
      BY <1>4, <3>1, <3>2, <3>3 DEF Held
    <3>9. (\A u \in Threads : pc[u] = "done" => next = Len(Data) + 1)'
      BY <1>4, <3>1, <3>3 DEF Held
    <3> QED
      BY <1>4, <3>1, <3>2, <3>4, <3>5, <3>6, <3>7, <3>8, <3>9 DEF Held
  <2> QED
    BY <1>1, <2>1, <2>2, <2>3, <2>4 DEF Worker, Working
<1> QED
  BY <1>2, <1>5

\* For the others nothing changes, as their nodes keep their levels.
LEMMA OthersRun ==
    ASSUME Base, NEW t \in Threads, Inserting(t), NEW u \in Threads, u # t
    PROVE  RunningOf(u)'
<1>1. /\ pc'[u] = pc[u] /\ node'[u] = node[u] /\ todo'[u] = todo[u]
      /\ ep'[u] = ep[u] /\ lev'[u] = lev[u] /\ seen'[u] = seen[u] /\ left'[u] = left[u]
  BY OthersStay DEF Inserting, Base, Typed
<1>2. pc[u] \in Inserts => level'[node[u]] = level[node[u]]
  BY LevelsStay DEF Inserting, Base, Held
<1>3. pc[u] \in {"descend"} \cup Linking => pc[u] \in Inserts
  BY DEF Linking, Inserts
<1>4. RunningOf(u)
  BY DEF Base, Running
<1> QED
  BY <1>1, <1>2, <1>3, <1>4 DEF RunningOf, Linking

LEMMA RunningInserting ==
    ASSUME Base, NEW t \in Threads, Inserting(t)
    PROVE  Running'
<1> SUFFICES RunningOf(t)'
  BY OthersRun DEF Running
<1>1. Worker(t)
  BY DEF Inserting
<1>2. RunningOf(t) /\ HnswTypeOK
  BY DEF Base, Running, Typed
<1>3. /\ pc \in [Threads -> Labels] /\ todo \in [Threads -> SUBSET Shared]
      /\ ep \in [Threads -> Node \cup {Null}] /\ lev \in [Threads -> Levels]
      /\ maxcopy \in [Threads -> Levels] /\ enterpoint \in Node
      /\ seen \in [Threads -> SUBSET Node] /\ left \in [Threads -> SUBSET Node]
      /\ expanded \in [Threads -> SUBSET Node]
  BY <1>2 DEF HnswTypeOK
<1>4. pc[t] \in Inserts => node[t] \in Node /\ level[node[t]] \in Int
  BY HeldNode, DrawnLevels
<1>5. lev[t] \in Int /\ maxcopy[t] \in Int
  BY <1>3, DrawnLevels
<1>6. CASE Fetch(t)
  <2>1. pc'[t] = "drawn" /\ todo'[t] = Shared
    BY <1>3, <1>6 DEF Fetch
  <2> QED
    BY <2>1 DEF RunningOf, Linking, Shared
<1>7. CASE Leave(t) \/ Publish(t)
  <2>1. pc'[t] \in {"done", "fetch"}
    BY <1>3, <1>7 DEF Leave, Publish, Inserted
  <2> QED
    BY <2>1 DEF RunningOf, Linking
<1>8. CASE Working(t)
  <2>1. UNCHANGED <<level, node>> /\ pc[t] \in Inserts
    BY <1>2, <1>8, WorkingMoves
  <2>2. CASE NeedGuard(t) \/ Guard(t)
    <3>1. pc'[t] \in {"guard", "read"} /\ pc[t] \in {"drawn", "guard"} /\ todo' = todo
      BY <1>3, <2>2 DEF NeedGuard, Guard, local
    <3> QED
      BY <1>2, <3>1 DEF RunningOf, Linking, Shared
  <2>3. CASE ReadMaxLevel(t)
    <3>1. /\ pc'[t] = "read" /\ pc[t] = "read" /\ ep' = ep
          /\ todo'[t] = todo[t] \ {"maxlevel"}
      BY <1>3, <2>3 DEF ReadMaxLevel, Did
    <3> QED
      BY <1>2, <3>1 DEF RunningOf, Linking
  <2>4. CASE ReadEnterpoint(t)
    <3>1. pc'[t] = "read" /\ ep'[t] = enterpoint
      BY <1>3, <2>4 DEF ReadEnterpoint
    <3> QED
      BY <1>3, <3>1 DEF RunningOf, Linking
  <2>5. CASE Start(t)
    <3>1. ep' = ep /\ ep[t] \in Node /\ lev'[t] = maxcopy[t]
      BY <1>2, <1>3, <2>5 DEF Start, RunningOf
    <3>2. CASE level[node[t]] < maxcopy[t]
      <4>1. pc'[t] = "descend"
        BY <1>3, <2>5, <3>2 DEF Start
      <4> QED
        BY <1>4, <1>5, <2>1, <3>1, <3>2, <4>1 DEF RunningOf, Linking
    <3>3. CASE ~ (level[node[t]] < maxcopy[t])
      <4>1. pc'[t] = "search" /\ seen'[t] = {ep[t]}
        BY <1>3, <2>5, <3>3 DEF Start, SearchFrom
      <4> QED
        BY <1>4, <1>5, <2>1, <3>1, <3>3, <4>1 DEF RunningOf, Linking
    <3> QED
      BY <3>2, <3>3
  <2>6. CASE Descend(t)
    <3> DEFINE better == Closer(friends[lev[t]][ep[t]], ep[t], Dist[node[t]])
    <3>1. pc[t] = "descend" /\ ep[t] \in Node /\ lev[t] > level[node[t]]
      BY <1>2, <2>6 DEF Descend, RunningOf
    <3>2. CASE better # {}
      <4>1. UNCHANGED <<pc, lev>> /\ \E x \in Closest(better, node[t]) : ep' = [ep EXCEPT ![t] = x]
        BY <2>6, <3>2 DEF Descend
      <4>2. friends[lev[t]][ep[t]] \in SUBSET Node
        BY <1>2, <3>1 DEF HnswTypeOK
      <4>3. ep'[t] \in Node
        BY <1>3, <4>1, <4>2 DEF Closest, Closer
      <4> QED
        BY <2>1, <3>1, <4>1, <4>3 DEF RunningOf, Linking
    <3>3. CASE better = {} /\ lev[t] - 1 > level[node[t]]
      <4>1. UNCHANGED <<pc, ep>> /\ lev'[t] = lev[t] - 1
        BY <1>3, <2>6, <3>3 DEF Descend
      <4> QED
        BY <2>1, <3>1, <3>3, <4>1 DEF RunningOf, Linking
    <3>4. CASE better = {} /\ ~ (lev[t] - 1 > level[node[t]])
      <4>1. /\ ep' = ep /\ lev'[t] = lev[t] - 1
            /\ pc'[t] = "search" /\ seen'[t] = {ep[t]}
        BY <1>3, <2>6, <3>4 DEF Descend, SearchFrom
      <4> QED
        BY <1>4, <1>5, <2>1, <3>1, <3>4, <4>1 DEF RunningOf, Linking
    <3> QED
      BY <3>2, <3>3, <3>4
  <2>7. CASE Expand(t)
    <3>1. /\ UNCHANGED <<pc, ep, lev>> /\ pc[t] = "search"
          /\ seen[t] \subseteq seen'[t]
      BY <1>3, <2>7 DEF Expand
    <3> QED
      BY <1>2, <2>1, <3>1 DEF RunningOf, Linking
  <2>8. CASE StopSearch(t)
    <3>1. UNCHANGED <<ep, lev>> /\ pc[t] = "search" /\ pc'[t] = "link"
      BY <1>3, <2>8 DEF StopSearch
    <3> QED
      BY <1>2, <2>1, <3>1 DEF RunningOf, Linking
  <2>9. CASE LinkThere(t)
    <3>1. /\ UNCHANGED <<left, lev>> /\ pc[t] = "link" /\ pc'[t] = "linkback"
          /\ ep'[t] \in left[t]
      BY <1>3, <2>9 DEF LinkThere, Farthest
    <3> QED
      BY <1>2, <1>3, <2>1, <3>1 DEF RunningOf, Linking
  <2>10. CASE LinkBack(t)
    <3>1. UNCHANGED <<ep, lev>> /\ pc[t] = "linkback" /\ pc'[t] = "link"
      BY <1>3, <2>10 DEF LinkBack
    <3> QED
      BY <1>2, <2>1, <3>1 DEF RunningOf, Linking
  <2>11. CASE NextLevel(t)
    <3>1. /\ ep' = ep /\ lev'[t] = lev[t] - 1 /\ pc[t] = "link"
          /\ pc'[t] = "search" /\ seen'[t] = {ep[t]}
      BY <1>3, <2>11 DEF NextLevel, SearchFrom
    <3> QED
      BY <1>2, <1>4, <1>5, <2>1, <3>1 DEF RunningOf, Linking
  <2>12. CASE CompareTop(t)
    <3>1. pc'[t] \in {"store", "publish"}
      BY <1>3, <2>12 DEF CompareTop
    <3> QED
      BY <3>1 DEF RunningOf, Linking
  <2>13. CASE StoreEnterpoint(t) \/ StoreMaxLevel(t)
    <3>1. pc'[t] = "store"
      BY <2>13 DEF StoreEnterpoint, StoreMaxLevel
    <3> QED
      BY <3>1 DEF RunningOf, Linking
  <2> QED
    BY <1>8, <2>2, <2>3, <2>4, <2>5, <2>6, <2>7, <2>8, <2>9, <2>10, <2>11, <2>12, <2>13
       DEF Working
<1> QED
  BY <1>1, <1>6, <1>7, <1>8 DEF Worker, Working

-----------------------------------------------------------------------------
(* The other steps of CreateIndex keep the base.                           *)

LEMMA OrderOfData ==
    /\ Len(Data) \in Nat \ {0} /\ DOMAIN Data = 1 .. Len(Data)
    /\ \A i \in DOMAIN Data : Data[i] \in Node
    /\ Data[1] \in Node
<1>1. Len(Data) \in Nat \ {0} /\ DOMAIN Data = 1 .. Len(Data)
  BY DataAssumption, LenProperties, EmptySeq
<1>2. \A i \in DOMAIN Data : Data[i] \in Node
  BY DEF Node
<1> QED
  BY <1>1, <1>2

\* SequencesExt reverses a sequence of nodes into one of the same length.
LEMMA ReverseTyped ==
    ASSUME NEW T \in Seq(Node)
    PROVE  Reverse(T) \in Seq(Node) /\ Len(Reverse(T)) = Len(T)
<1> DEFINE V == Reverse(T)
           n == Len(T)
<1>1. n \in Nat
  BY LenProperties
<1> HIDE DEF n
<1>2. V = [i \in 1 .. n |-> T[(n - i) + 1]]
  BY DEF Reverse, n
<1>3. ASSUME NEW i \in 1 .. n PROVE T[(n - i) + 1] \in Node
  <2>1. (n - i) + 1 \in 1 .. n
    BY <1>1
  <2> QED
    BY <2>1, ElementOfSeq DEF n
<1>4. V \in Seq(Node)
  BY <1>1, <1>2, <1>3, SeqDef
<1>5. Len(V) \in Nat /\ DOMAIN V = 1 .. Len(V) /\ DOMAIN V = 1 .. n
  BY <1>2, <1>4, LenProperties
<1> HIDE DEF V
<1>6. \A i \in Nat : (1 <= i /\ i <= Len(V)) <=> (1 <= i /\ i <= n)
  BY <1>1, <1>5
<1>7. Len(V) = n
  <2>1. Len(V) \in Nat
    BY <1>5
  <2> QED
    BY <1>1, <1>6, <2>1
<1> QED
  BY <1>4, <1>7 DEF V, n

\* The reverse order: the first object, then the others from the last one.
LEMMA ReverseOrder ==
    LET R == <<Data[1]>> \o Reverse(Tail(Data))
    IN  \A i \in DOMAIN Data : R[i] = IF i = 1 THEN Data[1] ELSE Data[Len(Data) + 2 - i]
<1> DEFINE n == Len(Data)
           T == Tail(Data)
           V == Reverse(T)
           R == <<Data[1]>> \o V
<1>1. n \in Nat \ {0} /\ DOMAIN Data = 1 .. n /\ Data \in Seq(Node) /\ Data # <<>>
  BY OrderOfData, DataAssumption
<1>2. T \in Seq(Node) /\ Len(T) = n - 1 /\ \A i \in 1 .. Len(T) : T[i] = Data[i + 1]
  BY <1>1, HeadTailProperties
<1> HIDE DEF T
<1>3. V = [i \in 1 .. Len(T) |-> T[(Len(T) - i) + 1]]
  BY DEF Reverse
<1>4. V \in Seq(Node) /\ Len(V) = n - 1
  BY <1>2, ReverseTyped
<1> HIDE DEF V
<1>5. <<Data[1]>> \in Seq(Node) /\ Len(<<Data[1]>>) = 1 /\ <<Data[1]>>[1] = Data[1]
  BY OrderOfData
<1>6. \A i \in 1 .. 1 + (n - 1) : R[i] = IF i <= 1 THEN <<Data[1]>>[i] ELSE V[i - 1]
  BY <1>4, <1>5, ConcatProperties
<1>7. ASSUME NEW i \in DOMAIN Data PROVE R[i] = IF i = 1 THEN Data[1] ELSE Data[n + 2 - i]
  <2>1. CASE i = 1
    BY <1>1, <1>5, <1>6, <2>1
  <2>2. CASE i # 1
    <3>1. i \in 1 .. 1 + (n - 1) /\ ~ (i <= 1) /\ i - 1 \in 1 .. n - 1
      BY <1>1, <2>2
    <3>2. R[i] = V[i - 1]
      BY <1>6, <3>1
    <3>3. V[i - 1] = T[(n - 1 - (i - 1)) + 1]
      BY <1>2, <1>3, <3>1
    <3>4. (n - 1 - (i - 1)) + 1 = n + 1 - i /\ n + 1 - i \in 1 .. n - 1
      BY <1>1, <3>1
    <3>5. T[n + 1 - i] = Data[(n + 1 - i) + 1]
      BY <1>2, <3>4
    <3>6. (n + 1 - i) + 1 = n + 2 - i
      BY <1>1, <3>1
    <3> QED
      BY <2>2, <3>2, <3>3, <3>4, <3>5, <3>6
  <2> QED
    BY <2>1, <2>2
<1> QED
  BY <1>7 DEF R, V, T

\* The indexing of a build starts with one node and all the ids to give out.
LEMMA FirstNode ==
    ASSUME next = 2, order[1] = Data[1], elList = {Data[1]},
           \E l \in Drawn : level = [x \in Node |-> IF x = Data[1] THEN l ELSE -1],
           \A t \in Threads : pc[t] = "fetch" /\ node[t] = Null
    PROVE  Held /\ Running
<1>1. Fetched = {Data[1]}
  <2>1. 1 .. 2 - 1 = {1}
    OBVIOUS
  <2> QED
    BY <2>1 DEF Fetched
<1>2. PICK l \in Drawn : level = [x \in Node |-> IF x = Data[1] THEN l ELSE -1]
  OBVIOUS
<1>3. l # -1
  BY HnswParameterAssumption
<1>4. \A x \in Node : level[x] = -1 <=> x \notin Fetched
  BY <1>1, <1>2, <1>3, OrderOfData
<1>5. Held
  BY <1>1, <1>4 DEF Held, Inserts
<1> QED
  BY <1>5 DEF Running, RunningOf, Linking

LEMMA BaseInit == CreateInit => Base
<1> SUFFICES ASSUME CreateInit PROVE Base
  OBVIOUS
<1> USE DEF CreateInit, Init
<1>1. Permuted
  BY DataAssumption DEF Permuted, Node
<1>2. Held /\ Running
  BY FirstNode
<1>3. HnswTypeOK
  <2>1. order \in [DOMAIN Data -> Node]
    BY DataAssumption DEF Node
  <2>2. next \in 2 .. Len(Data) + 1
    BY OrderOfData
  <2>3. level \in [Node -> Levels \cup {-1}] /\ maxlevel \in Levels
    BY DrawnLevels
  <2> QED
    BY <2>1, <2>2, <2>3, OrderOfData, DrawnLevels DEF HnswTypeOK, Labels, Shared
<1>4. Typed
  BY <1>3, HnswParameterAssumption DEF Typed, Tasks, Free
<1> QED
  BY <1>1, <1>2, <1>4 DEF Base

LEMMA BaseSecondBuild ==
    ASSUME Base, SecondBuild
    PROVE  Base'
<1> DEFINE n == Len(Data)
           R == <<Data[1]>> \o Reverse(Tail(Data))
<1>1. \A i \in DOMAIN Data : R[i] = IF i = 1 THEN Data[1] ELSE Data[n + 2 - i]
  BY ReverseOrder
<1>2. DOMAIN R = DOMAIN Data
  <2>1. Tail(Data) \in Seq(Node) /\ Len(Tail(Data)) = n - 1
    BY DataAssumption, HeadTailProperties
  <2>2. Reverse(Tail(Data)) \in Seq(Node) /\ Len(Reverse(Tail(Data))) = n - 1
    BY <2>1, ReverseTyped
  <2>3. <<Data[1]>> \in Seq(Node) /\ Len(<<Data[1]>>) = 1
    BY OrderOfData
  <2>4. R \in Seq(Node) /\ Len(R) = 1 + (n - 1)
    BY <2>2, <2>3, ConcatProperties
  <2>5. DOMAIN R = 1 .. Len(R)
    BY <2>4, LenProperties
  <2> QED
    BY <2>4, <2>5, OrderOfData
<1>3. order' = R
  BY DEF SecondBuild
<1>4. n \in Nat \ {0} /\ DOMAIN Data = 1 .. n
  BY OrderOfData
<1> HIDE DEF R
<1>5. \A i \in DOMAIN Data : n + 2 - i \in DOMAIN Data \/ i = 1
  BY <1>4
<1>6. Permuted'
  <2>1. R[1] = Data[1]
    BY <1>1, <1>4
  <2>2. ASSUME NEW i \in DOMAIN Data, NEW j \in DOMAIN Data, R[i] = R[j] PROVE i = j
    <3>1. CASE i = 1 /\ j = 1
      BY <3>1
    <3>2. CASE i = 1 /\ j # 1
      <4>1. Data[1] = Data[n + 2 - j] /\ 1 \in DOMAIN Data /\ n + 2 - j \in DOMAIN Data
        BY <1>1, <1>4, <1>5, <2>2, <3>2
      <4>2. n + 2 - j = 1
        BY <4>1, DataAssumption
      <4> QED
        BY <1>4, <4>2
    <3>3. CASE i # 1 /\ j = 1
      <4>1. Data[1] = Data[n + 2 - i] /\ 1 \in DOMAIN Data /\ n + 2 - i \in DOMAIN Data
        BY <1>1, <1>4, <1>5, <2>2, <3>3
      <4>2. n + 2 - i = 1
        BY <4>1, DataAssumption
      <4> QED
        BY <1>4, <4>2
    <3>4. CASE i # 1 /\ j # 1
      <4>1. /\ Data[n + 2 - i] = Data[n + 2 - j]
            /\ n + 2 - i \in DOMAIN Data /\ n + 2 - j \in DOMAIN Data
        BY <1>1, <1>5, <2>2, <3>4
      <4>2. n + 2 - i = n + 2 - j
        BY <4>1, DataAssumption
      <4> QED
        BY <1>4, <4>2
    <3> QED
      BY <3>1, <3>2, <3>3, <3>4
  <2>3. ASSUME NEW x \in Node PROVE \E i \in DOMAIN Data : R[i] = x
    <3>1. PICK k \in DOMAIN Data : Data[k] = x
      BY DEF Node
    <3>2. CASE k = 1
      BY <2>1, <3>1, <3>2
    <3>3. CASE k # 1
      <4>1. n + 2 - k \in DOMAIN Data /\ n + 2 - k # 1 /\ n + 2 - (n + 2 - k) = k
        BY <1>4, <3>3
      <4>2. R[n + 2 - k] = Data[k]
        BY <1>1, <4>1
      <4> QED
        BY <3>1, <4>1, <4>2
    <3> QED
      BY <3>2, <3>3
  <2> QED
    BY <1>3, <2>1, <2>2, <2>3 DEF Permuted
<1>7. order' \in [DOMAIN Data -> Node]
  <2>1. ASSUME NEW i \in DOMAIN Data PROVE R[i] \in Node
    BY <1>1, <1>5, OrderOfData
  <2>2. R = [i \in DOMAIN R |-> R[i]]
    BY DEF R
  <2> QED
    BY <1>2, <1>3, <2>1, <2>2
<1>8. /\ \A t \in Threads : pc[t] = "done" /\ node[t] = Null
      /\ UNCHANGED local
      /\ pc' = [t \in Threads |-> "fetch"]
  BY DEF SecondBuild, Built, Base, Held, Inserts
<1>9. Held' /\ Running'
  <2>1. /\ next' = 2 /\ order'[1] = Data[1] /\ elList' = {Data[1]}
        /\ \E l \in Drawn : level' = [x \in Node |-> IF x = Data[1] THEN l ELSE -1]
    <3>1. post \in Posts
      BY DEF Base, Typed
    <3>2. DrawnWith[post] \subseteq Drawn
      BY <3>1, PostAssumption
    <3> QED
      BY <1>1, <1>3, <1>4, <3>2 DEF SecondBuild
  <2>2. \A t \in Threads : pc'[t] = "fetch" /\ node'[t] = Null
    BY <1>8 DEF local
  <2>3. Fetched' = {Data[1]}
    <3>1. 1 .. 2 - 1 = {1}
      OBVIOUS
    <3> QED
      BY <2>1, <3>1 DEF Fetched
  <2>4. PICK l \in Drawn : level' = [x \in Node |-> IF x = Data[1] THEN l ELSE -1]
    BY <2>1
  <2>5. l # -1
    BY HnswParameterAssumption
  <2>6. (\A x \in Node : level[x] = -1 <=> x \notin Fetched)'
    BY <2>3, <2>4, <2>5, OrderOfData
  <2>7. Held'
    BY <2>1, <2>2, <2>3, <2>6 DEF Held, Inserts
  <2> QED
    BY <2>2, <2>7 DEF Running, RunningOf, Linking
<1>10. HnswTypeOK'
  <2>1. HnswTypeOK
    BY DEF Base, Typed
  <2>2. level' \in [Node -> Levels \cup {-1}] /\ maxlevel' \in Levels
    <3>1. post \in Posts
      BY DEF Base, Typed
    <3>2. DrawnWith[post] \subseteq Drawn
      BY <3>1, PostAssumption
    <3> QED
      BY <3>2, DrawnLevels DEF SecondBuild
  <2>3. next' \in 2 .. Len(Data) + 1
    BY <1>4 DEF SecondBuild
  <2> QED
    <3>1. /\ delaunayType' = delaunayType /\ guard' = guard /\ enterpoint' = Data[1]
          /\ elList' = {Data[1]} /\ friends' = [l \in Levels |-> [x \in Node |-> {}]]
      BY DEF SecondBuild
    <3>2. pc' \in [Threads -> Labels]
      BY <1>8 DEF Labels
    <3> QED
      BY <1>7, <1>8, <2>1, <2>2, <2>3, <3>1, <3>2, OrderOfData DEF local, HnswTypeOK, search
<1>11. Typed'
  <2>1. temp' \in [Node -> SUBSET Node] /\ phase' = "second"
    BY DrawnLevels DEF SecondBuild, Base, Typed, HnswTypeOK
  <2> QED
    BY <1>10, <2>1 DEF SecondBuild, Base, Typed
<1> QED
  BY <1>6, <1>9, <1>11 DEF Base

-----------------------------------------------------------------------------
(* Merging.                                                                *)

\* A step of the loop that merges, for one worker.
Merging(t) ==
    /\ phase = "merging"
    /\ \/ TakeNode(t) \/ CompareMaxF(t) \/ RaiseMaxF(t)
       \/ ReadMaxF(t) \/ StoreMaxM0(t) \/ Swap(t)
    /\ UNCHANGED <<post, phase, temp>>

\* The steps between, which change the phase only.
Turning ==
    /\ UNCHANGED <<vars, post, temp, maxF, maxM0, merge, task>>
    /\ phase' = phase \/ (phase' \in {"merging", "ready"} /\ Built)

LEMMA StepsOfCreate ==
    ASSUME Base, [CreateNext]_<<vars, postvars>>
    PROVE  \/ \E t \in Threads : Inserting(t) \/ Merging(t)
           \/ SecondBuild
           \/ Turning
<1>1. CASE Build
  BY <1>1 DEF Build, Inserting
<1>2. CASE Merge
  BY <1>2 DEF Merge, Merging
<1>3. CASE StartMerging
  BY <1>3 DEF StartMerging, Turning
<1>4. CASE Finish
  <2>1. Built
    BY <1>4 DEF Finish, Base, Typed
  <2> QED
    BY <1>4, <2>1 DEF Finish, Turning
<1>5. CASE Rest \/ UNCHANGED <<vars, postvars>>
  BY <1>5 DEF Rest, Turning, postvars
<1> QED
  BY <1>1, <1>2, <1>3, <1>4, <1>5 DEF CreateNext

\* A merged list, or what is kept of it, has nodes, and some if both lists had.
LEMMA MergedTyped ==
    ASSUME Typed, NEW x \in Node
    PROVE  Merged(x) \in SUBSET Node /\ friends[0][x] \subseteq Merged(x)
BY DrawnLevels DEF Typed, HnswTypeOK, Merged

LEMMA KeptIsSound ==
    ASSUME Typed, post # 1, NEW x \in Node
    PROVE  /\ Kept(x) \subseteq Merged(x)
           /\ Cardinality(Kept(x)) <= MaxM0
           /\ Merged(x) # {} => Kept(x) # {}
<1>1. Merged(x) \in SUBSET Node
  BY MergedTyped
<1>2. maxM0 = MaxM0 /\ MaxM0 \in Nat \ {0}
  BY HnswParameterAssumption DEF Typed
<1>3. Cardinality(Merged(x)) \in Nat
  BY <1>1, NodesAreFinite
<1>4. Toward(x) \in Ranking
  BY HnswDistAssumption, PostAssumption DEF Toward, Ranking
<1>5. CASE delaunayType = 0
  <2>1. Kept(x) = Nearest(Merged(x), Toward(x), MaxM0)
    BY <1>2, <1>5 DEF Kept
  <2> QED
    BY <1>1, <1>2, <1>4, <2>1, NearestAreFew, NearestIsNotEmpty
<1>6. CASE delaunayType # 0 /\ Cardinality(Merged(x)) < MaxM0
  BY <1>2, <1>3, <1>6 DEF Kept
<1>7. CASE delaunayType # 0 /\ ~ (Cardinality(Merged(x)) < MaxM0)
  <2>1. Kept(x) = Heuristic1(Merged(x), Toward(x), MaxM0)
    BY <1>2, <1>7 DEF Kept
  <2> QED
    BY <1>1, <1>2, <1>4, <2>1, FilledUp
<1> QED
  BY <1>5, <1>6, <1>7

\* Merging touches the lists of level 0 only, and only when they are swapped.
LEMMA MergingMoves ==
    ASSUME Base, NEW t \in Threads, Merging(t)
    PROVE  /\ UNCHANGED <<delaunayType, order, elList, level, top, next, pc, local>>
           /\ phase' = "merging" /\ post' = post /\ temp' = temp
           /\ maxF' \in Nat /\ maxM0' \in Nat /\ merge' \in Nat \ {0}
           /\ task' \in [Threads -> Tasks]
           /\ \A u \in Threads : task'[u].pc # "fetch" => task'[u].node \in Node
           /\ \A u \in Threads : task'[u].pc = "store" => post = 1
           /\ post # 1 => maxM0' = maxM0
           /\ \/ friends' = friends
              \/ \E x \in Node :
                    friends' = [friends EXCEPT ![0][x] = IF post = 1 THEN Merged(x) ELSE Kept(x)]
<1> USE DEF vars, graph, Tasks, Free
<1>1. /\ task \in [Threads -> Tasks] /\ maxF \in Nat /\ maxM0 \in Nat /\ merge \in Nat \ {0}
      /\ \A u \in Threads : task[u].pc # "fetch" => task[u].node \in Node
      /\ \A u \in Threads : task[u].pc = "store" => post = 1
  BY DEF Base, Typed
<1>2. phase' = "merging" /\ post' = post /\ temp' = temp
  BY DEF Merging
<1>3. CASE TakeNode(t)
  <2>1. Data[merge] \in Node
    BY <1>1, <1>3, OrderOfData DEF TakeNode
  <2> DEFINE new == [task[t] EXCEPT !.pc = "compare", !.node = Data[merge]]
  <2>2. new \in Tasks /\ new.node \in Node /\ new.pc = "compare"
    BY <1>1, <2>1
  <2>3. task' = [task EXCEPT ![t] = new] /\ merge' = merge + 1 /\ UNCHANGED <<vars, maxF, maxM0>>
    BY <1>3 DEF TakeNode
  <2> HIDE DEF new
  <2>4. /\ task' \in [Threads -> Tasks]
        /\ \A u \in Threads : task'[u].pc # "fetch" => task'[u].node \in Node
        /\ \A u \in Threads : task'[u].pc = "store" => post = 1
    BY <1>1, <2>2, <2>3
  <2> QED
    BY <1>1, <1>2, <2>3, <2>4
<1>4. CASE CompareMaxF(t)
  <2>1. \E s \in {"raise", "join"} : Goes(t, s)
    BY <1>4 DEF CompareMaxF
  <2>2. task[t].node \in Node
    BY <1>1, <1>4 DEF CompareMaxF
  <2>3. /\ task' \in [Threads -> Tasks]
        /\ \A u \in Threads : task'[u].pc # "fetch" => task'[u].node \in Node
        /\ \A u \in Threads : task'[u].pc = "store" => post = 1
    BY <1>1, <2>1, <2>2 DEF Goes
  <2> QED
    BY <1>1, <1>2, <1>4, <2>3 DEF CompareMaxF
<1>5. CASE RaiseMaxF(t)
  <2>1. task[t].node \in Node
    BY <1>1, <1>5 DEF RaiseMaxF
  <2>2. Cardinality(Merged(task[t].node)) \in Nat
    BY <2>1, MergedTyped, NodesAreFinite DEF Base
  <2> QED
    BY <1>1, <1>2, <1>5, <2>1, <2>2 DEF RaiseMaxF, Goes
<1>6. CASE ReadMaxF(t)
  BY <1>1, <1>2, <1>6 DEF ReadMaxF
<1>7. CASE StoreMaxM0(t)
  BY <1>1, <1>2, <1>7 DEF StoreMaxM0, Goes
<1>8. CASE Swap(t)
  BY <1>1, <1>2, <1>8 DEF Swap
<1> QED
  BY <1>3, <1>4, <1>5, <1>6, <1>7, <1>8 DEF Merging

LEMMA BaseMerging ==
    ASSUME Base, NEW t \in Threads, Merging(t)
    PROVE  Base'
<1>1. /\ UNCHANGED <<delaunayType, order, elList, level, top, next, pc, local>>
      /\ phase' = "merging" /\ post' = post /\ temp' = temp
      /\ maxF' \in Nat /\ maxM0' \in Nat /\ merge' \in Nat \ {0}
      /\ task' \in [Threads -> Tasks]
      /\ \A u \in Threads : task'[u].pc # "fetch" => task'[u].node \in Node
      /\ \A u \in Threads : task'[u].pc = "store" => post = 1
      /\ post # 1 => maxM0' = maxM0
      /\ \/ friends' = friends
         \/ \E x \in Node :
               friends' = [friends EXCEPT ![0][x] = IF post = 1 THEN Merged(x) ELSE Kept(x)]
  BY MergingMoves
<1>2. Typed /\ HnswTypeOK
  BY DEF Base, Typed
<1>3. friends' \in [Levels -> [Node -> SUBSET Node]]
  <2>1. CASE friends' = friends
    BY <1>2, <2>1 DEF HnswTypeOK
  <2>2. ASSUME NEW x \in Node,
               friends' = [friends EXCEPT ![0][x] = IF post = 1 THEN Merged(x) ELSE Kept(x)]
        PROVE  friends' \in [Levels -> [Node -> SUBSET Node]]
    <3> DEFINE F == IF post = 1 THEN Merged(x) ELSE Kept(x)
    <3>1. F \in SUBSET Node
      <4>1. Merged(x) \in SUBSET Node
        BY <1>2, MergedTyped
      <4>2. post # 1 => Kept(x) \subseteq Merged(x)
        BY <1>2, KeptIsSound
      <4> QED
        BY <4>1, <4>2
    <3>2. friends' = [friends EXCEPT ![0][x] = F]
      BY <2>2
    <3> HIDE DEF F
    <3> QED
      BY <1>2, <3>1, <3>2, DrawnLevels DEF HnswTypeOK
  <2> QED
    BY <1>1, <2>1, <2>2
<1>4. HnswTypeOK'
  BY <1>1, <1>2, <1>3 DEF HnswTypeOK, top, local, search
<1>5. Typed'
  <2>1. phase = "merging"
    BY DEF Merging
  <2>2. Built'
    BY <1>1, <1>2, <2>1 DEF Built, Typed
  <2> QED
    BY <1>1, <1>2, <1>4, <2>2 DEF Typed
<1>6. Permuted' /\ Held' /\ Running'
  BY <1>1 DEF Base, Permuted, Held, Fetched, Running, RunningOf, local, search
<1> QED
  BY <1>5, <1>6 DEF Base

LEMMA BaseTurning ==
    ASSUME Base, Turning
    PROVE  Base'
<1> USE DEF Turning, vars, graph, top, local, search
<1>1. HnswTypeOK'
  BY DEF Base, Typed, HnswTypeOK
<1>2. Typed'
  BY <1>1 DEF Base, Typed, Built
<1>3. Permuted' /\ Held' /\ Running'
  BY DEF Base, Permuted, Held, Fetched, Running, RunningOf
<1> QED
  BY <1>2, <1>3 DEF Base

LEMMA BaseStep ==
    ASSUME Base, [CreateNext]_<<vars, postvars>>
    PROVE  Base'
<1>1. ASSUME NEW t \in Threads, Inserting(t) PROVE Base'
  BY <1>1, TypedInserting, HeldInserting, RunningInserting DEF Base
<1>2. ASSUME NEW t \in Threads, Merging(t) PROVE Base'
  BY <1>2, BaseMerging
<1> QED
  BY <1>1, <1>2, BaseSecondBuild, BaseTurning, StepsOfCreate

\* Types, who holds which node, and where each worker is.
THEOREM Foundation == CreateSpec => []Base
<1>1. CreateInit => Base
  BY BaseInit
<1>2. Base /\ [CreateNext]_<<vars, postvars>> => Base'
  BY BaseStep
<1> QED
  BY <1>1, <1>2, PTL DEF CreateSpec

-----------------------------------------------------------------------------
(* The lists: how long, and never empty again.                             *)

\* What an insertion does to one list.
LEMMA FriendsChange ==
    ASSUME Base, NEW t \in Threads, Inserting(t), NEW l \in Levels, NEW x \in Node
    PROVE  \/ friends'[l][x] = friends[l][x]
           \/ /\ l = lev[t] /\ x \in left[t] /\ pc[t] = "link"
              /\ friends'[l][x] = WithFriend(l, x, node[t])
           \/ /\ l = lev[t] /\ x = node[t] /\ pc[t] = "linkback"
              /\ friends'[l][x] = WithFriend(l, x, ep[t])
<1>1. friends \in [Levels -> [Node -> SUBSET Node]] /\ lev[t] \in Levels
  BY DEF Base, Typed, HnswTypeOK
<1>2. CASE LinkThere(t)
  <2>1. PICK y \in Farthest(left[t], node[t]) :
            friends' = [friends EXCEPT ![lev[t]][y] = WithFriend(lev[t], y, node[t])]
    BY <1>2 DEF LinkThere
  <2>2. y \in left[t] /\ pc[t] = "link" /\ y \in Node
    BY <1>2 DEF LinkThere, Farthest, Base, Typed, HnswTypeOK
  <2>3. CASE l = lev[t] /\ x = y
    BY <1>1, <2>1, <2>2, <2>3
  <2>4. CASE ~ (l = lev[t] /\ x = y)
    BY <1>1, <2>1, <2>2, <2>4
  <2> QED
    BY <2>3, <2>4
<1>3. CASE LinkBack(t)
  <2>1. /\ friends' = [friends EXCEPT ![lev[t]][node[t]] = WithFriend(lev[t], node[t], ep[t])]
        /\ pc[t] = "linkback"
    BY <1>3 DEF LinkBack
  <2>2. node[t] \in Node
    BY <2>1, HeldNode DEF Inserts
  <2>3. CASE l = lev[t] /\ x = node[t]
    BY <1>1, <2>1, <2>2, <2>3
  <2>4. CASE ~ (l = lev[t] /\ x = node[t])
    BY <1>1, <2>1, <2>2, <2>4
  <2> QED
    BY <2>3, <2>4
<1>4. CASE ~ LinkThere(t) /\ ~ LinkBack(t)
  <2>1. friends' = friends
    BY <1>4 DEF Inserting, Worker, Fetch, Leave, NeedGuard, Guard, ReadMaxLevel, ReadEnterpoint, Start,
       Descend, Expand, StopSearch, NextLevel, CompareTop, StoreEnterpoint, StoreMaxLevel,
       Publish, Inserted, graph
  <2> QED
    BY <2>1
<1> QED
  BY <1>2, <1>3, <1>4

\* The list is one that addFriendlevel made.
LEMMA FriendsAdded ==
    ASSUME Base, NEW t \in Threads, Inserting(t), NEW l \in Levels, NEW x \in Node
    PROVE  \/ friends'[l][x] = friends[l][x]
           \/ \E y \in Node : friends'[l][x] = WithFriend(l, x, y)
<1>1. pc[t] \in {"link", "linkback"} => node[t] \in Node
  BY HeldNode DEF Inserts
<1>2. pc[t] = "linkback" => ep[t] \in Node
  BY DEF Base, Running, RunningOf, Linking
<1> QED
  BY <1>1, <1>2, FriendsChange

\* Lists fit until they are merged with post = 1.
Fitting == post # 1 \/ phase \in {"first", "second"} => ListsFit

LEMMA FittingStep ==
    ASSUME Base, Fitting, [CreateNext]_<<vars, postvars>>
    PROVE  Fitting'
<1>1. delaunayType \in DelaunayTypes /\ friends \in [Levels -> [Node -> SUBSET Node]]
  BY DEF Base, Typed, HnswTypeOK
<1>2. ASSUME NEW t \in Threads, Inserting(t) PROVE Fitting'
  <2>1. ListsFit
    BY <1>2 DEF Fitting, Inserting
  <2>2. ASSUME NEW l \in Levels, NEW x \in Node
        PROVE  Cardinality(friends'[l][x]) <= MaxSize(l)
    <3>1. Cardinality(friends[l][x]) <= MaxSize(l) /\ friends[l][x] \in SUBSET Node
      BY <1>1, <2>1 DEF ListsFit
    <3>2. \A y \in Node : Cardinality(WithFriend(l, x, y)) <= MaxSize(l)
      BY <1>1, <3>1, WithFriendIsSound
    <3> QED
      BY <1>2, <3>1, <3>2, FriendsAdded
  <2> QED
    BY <2>2 DEF Fitting, ListsFit, MaxSize
<1>3. ASSUME NEW t \in Threads, Merging(t) PROVE Fitting'
  <2>1. SUFFICES ASSUME post # 1, NEW l \in Levels, NEW x \in Node
                 PROVE  Cardinality(friends'[l][x]) <= MaxSize(l)
    BY <1>3, MergingMoves DEF Fitting, ListsFit, MaxSize
  <2>2. Cardinality(friends[l][x]) <= MaxSize(l)
    BY <2>1 DEF Fitting, ListsFit
  <2>3. CASE friends' = friends
    BY <2>2, <2>3
  <2>4. ASSUME NEW y \in Node, friends' = [friends EXCEPT ![0][y] = Kept(y)]
        PROVE  Cardinality(friends'[l][x]) <= MaxSize(l)
    <3>1. CASE l = 0 /\ x = y
      <4>1. friends'[l][x] = Kept(x)
        BY <1>1, <2>4, <3>1
      <4>2. MaxSize(l) = MaxM0
        BY <3>1 DEF MaxSize
      <4> QED
        BY <2>1, <4>1, <4>2, KeptIsSound DEF Base
    <3>2. CASE ~ (l = 0 /\ x = y)
      BY <1>1, <2>2, <2>4, <3>2
    <3> QED
      BY <3>1, <3>2
  <2> QED
    BY <1>3, <2>1, <2>3, <2>4, MergingMoves
<1>4. CASE SecondBuild
  <2>1. friends' = [l \in Levels |-> [x \in Node |-> {}]]
    BY <1>4 DEF SecondBuild
  <2>2. \A l \in Levels : 0 <= MaxSize(l)
    BY MaxSizeIsPositive
  <2>3. \A l \in Levels, x \in Node : Cardinality(friends'[l][x]) <= MaxSize(l)
    BY <2>1, <2>2, FS_EmptySet
  <2> QED
    BY <2>3 DEF Fitting, ListsFit, MaxSize
<1>5. CASE Turning
  BY <1>5 DEF Turning, Fitting, ListsFit, MaxSize, vars, graph
<1> QED
  BY <1>2, <1>3, <1>4, <1>5, StepsOfCreate

\* However insertions interleave, and after a merge with post = 2, no list is
\* longer than maxM_ or maxM0_: addFriendlevel of hnsw.h 259-290, the merge of
\* hnsw.cc 300-340.  With post = 1 it is not so (SectionsHold).
THEOREM ListsStayShort ==
    ASSUME 1 \notin Posts
    PROVE  CreateSpec => []ListsFit
<1>1. CreateInit => Fitting
  <2> SUFFICES ASSUME CreateInit PROVE ListsFit
    BY DEF Fitting
  <2>1. \A l \in Levels : 0 <= MaxSize(l)
    BY MaxSizeIsPositive
  <2> QED
    BY <2>1, FS_EmptySet DEF CreateInit, Init, ListsFit
<1>2. Base /\ Fitting /\ [CreateNext]_<<vars, postvars>> => Fitting'
  BY FittingStep
<1>3. CreateSpec => []Fitting
  BY <1>1, <1>2, Foundation, PTL DEF CreateSpec
<1>4. Base /\ Fitting => ListsFit
  BY DEF Base, Typed, Fitting
<1> QED
  BY <1>3, <1>4, Foundation, PTL

-----------------------------------------------------------------------------
(* Nobody is alone.                                                        *)

\* A worker that has no neighbor left to link on level 0 has linked one; a list
\* that has a friend never becomes empty.
LinkedOf(t) ==
    /\ pc[t] \in {"store", "publish"} => friends[0][node[t]] # {}
    /\ pc[t] = "link" /\ lev[t] = 0 => left[t] # {} \/ friends[0][node[t]] # {}

Known ==
    /\ \A x \in elList \ {Data[1]} : friends[0][x] # {}
    /\ \A t \in Threads : LinkedOf(t)

LEMMA FriendsRemain ==
    ASSUME Base, NEW t \in Threads, Inserting(t), NEW x \in Node, friends[0][x] # {}
    PROVE  friends'[0][x] # {}
<1>1. delaunayType \in DelaunayTypes /\ friends[0][x] \in SUBSET Node /\ 0 \in Levels
  BY DrawnLevels DEF Base, Typed, HnswTypeOK
<1>2. \A y \in Node : WithFriend(0, x, y) # {}
  BY <1>1, WithFriendIsSound
<1> QED
  BY <1>1, <1>2, FriendsAdded

\* A search that stops has found something.
LEMMA SearchFinds ==
    ASSUME Base, NEW t \in Threads, StopSearch(t)
    PROVE  left'[t] # {} /\ left'[t] \subseteq seen[t]
<1> DEFINE N == Nearest(seen[t], Dist[node[t]], EfConstruction)
<1>1. seen[t] \in SUBSET Node /\ seen[t] # {}
  BY DEF StopSearch, Base, Typed, HnswTypeOK, Running, RunningOf
<1>2. node[t] \in Node
  BY HeldNode DEF StopSearch, Inserts
<1>3. N \subseteq seen[t] /\ N # {}
  BY <1>1, <1>2, DistancesRank, NearestAreFew, NearestIsNotEmpty, HnswParameterAssumption
<1>4. delaunayType \in DelaunayTypes /\ left \in [Threads -> SUBSET Node]
  BY DEF Base, Typed, HnswTypeOK
<1>5. left'[t] = Selected(N, node[t], M)
  BY <1>4 DEF StopSearch
<1> HIDE DEF N
<1>6. Selected(N, node[t], M) \subseteq N /\ Selected(N, node[t], M) # {}
  BY <1>1, <1>2, <1>3, <1>4, SelectionIsSound, HnswParameterAssumption
<1> QED
  BY <1>3, <1>5, <1>6

LEMMA LinkedInserting ==
    ASSUME Base, Known, NEW t \in Threads, Inserting(t)
    PROVE  LinkedOf(t)'
<1>1. LinkedOf(t) /\ RunningOf(t) /\ HnswTypeOK /\ Worker(t)
  BY DEF Known, Base, Running, Typed, Inserting
<1>2. /\ pc \in [Threads -> Labels] /\ lev \in [Threads -> Levels]
      /\ left \in [Threads -> SUBSET Node] /\ friends \in [Levels -> [Node -> SUBSET Node]]
      /\ 0 \in Levels /\ delaunayType \in DelaunayTypes
  BY <1>1, DrawnLevels DEF HnswTypeOK
<1>3. pc[t] \in Inserts => node[t] \in Node
  BY HeldNode
<1>4. CASE Fetch(t) \/ Leave(t) \/ Publish(t)
  <2>1. pc'[t] \in {"drawn", "done", "fetch"}
    BY <1>2, <1>4 DEF Fetch, Leave, Publish, Inserted
  <2> QED
    BY <2>1 DEF LinkedOf
<1>5. CASE Working(t)
  <2>1. node' = node /\ node[t] \in Node
    BY <1>1, <1>3, <1>5, WorkingMoves
  <2>2. friends[0][node[t]] # {} => friends'[0][node[t]] # {}
    BY <2>1, FriendsRemain
  <2>3. CASE StopSearch(t)
    <3>1. pc'[t] = "link" /\ left'[t] # {}
      BY <1>2, <2>3, SearchFinds DEF StopSearch
    <3> QED
      BY <3>1 DEF LinkedOf
  <2>4. CASE LinkBack(t)
    <3>1. ep[t] \in Node /\ pc[t] = "linkback" /\ pc'[t] = "link" /\ lev' = lev
      BY <1>1, <1>2, <2>4 DEF LinkBack, RunningOf, Linking
    <3>2. lev[t] = 0 => friends'[0][node[t]] = WithFriend(0, node[t], ep[t])
      BY <1>2, <2>1, <2>4 DEF LinkBack
    <3>3. friends[0][node[t]] \in SUBSET Node
      BY <1>2, <2>1
    <3>4. WithFriend(0, node[t], ep[t]) # {}
      <4>1. \A y \in Node : WithFriend(0, node[t], y) # {}
        BY <1>2, <2>1, <3>3, WithFriendIsSound
      <4> QED
        BY <3>1, <4>1
    <3> QED
      BY <2>1, <3>1, <3>2, <3>4 DEF LinkedOf
  <2>5. CASE CompareTop(t)
    <3>1. pc[t] = "link" /\ lev[t] = 0 /\ left[t] = {} /\ pc'[t] \in {"store", "publish"}
      BY <1>2, <2>5 DEF CompareTop
    <3> QED
      BY <1>1, <2>1, <2>2, <3>1 DEF LinkedOf
  <2>6. CASE StoreEnterpoint(t) \/ StoreMaxLevel(t)
    <3>1. pc[t] = "store" /\ pc' = pc
      BY <2>6 DEF StoreEnterpoint, StoreMaxLevel
    <3> QED
      BY <1>1, <2>1, <2>2, <3>1 DEF LinkedOf
  <2>7. CASE \/ NeedGuard(t) \/ Guard(t) \/ ReadMaxLevel(t) \/ ReadEnterpoint(t)
             \/ Start(t) \/ Descend(t) \/ Expand(t) \/ LinkThere(t) \/ NextLevel(t)
    <3>1. pc'[t] \in {"guard", "read", "descend", "search", "linkback"}
      BY <1>2, <2>7 DEF NeedGuard, Guard, ReadMaxLevel, ReadEnterpoint, Start, Descend, Expand,
         LinkThere, NextLevel, SearchFrom
    <3> QED
      BY <3>1 DEF LinkedOf
  <2> QED
    BY <1>5, <2>3, <2>4, <2>5, <2>6, <2>7 DEF Working
<1> QED
  BY <1>1, <1>4, <1>5 DEF Worker, Working

LEMMA KnownInserting ==
    ASSUME Base, Known, NEW t \in Threads, Inserting(t)
    PROVE  Known'
<1>1. Worker(t) /\ HnswTypeOK
  BY DEF Inserting, Base, Typed
<1>2. ASSUME NEW u \in Threads, u # t PROVE LinkedOf(u)'
  <2>1. pc'[u] = pc[u] /\ node'[u] = node[u] /\ lev'[u] = lev[u] /\ left'[u] = left[u]
    BY <1>1, <1>2, OthersStay
  <2>2. pc[u] \in {"store", "publish", "link"} => node[u] \in Node
    BY HeldNode DEF Inserts
  <2>3. pc[u] \in {"store", "publish", "link"} /\ friends[0][node[u]] # {}
            => friends'[0][node[u]] # {}
    BY <2>2, FriendsRemain
  <2>4. LinkedOf(u)
    BY DEF Known
  <2> QED
    BY <2>1, <2>3, <2>4 DEF LinkedOf
<1>3. ASSUME NEW x \in elList' \ {Data[1]} PROVE friends'[0][x] # {}
  <2>1. x \in elList \/ (x = node[t] /\ Publish(t))
    <3>1. CASE Working(t)
      BY <1>1, <1>3, <3>1, WorkingMoves
    <3>2. CASE Fetch(t) \/ Leave(t)
      BY <1>3, <3>2 DEF Fetch, Leave, graph
    <3>3. CASE Publish(t)
      BY <1>3, <3>3 DEF Publish, Inserted
    <3> QED
      BY <1>1, <3>1, <3>2, <3>3 DEF Worker, Working
  <2>2. CASE x \in elList
    <3>1. x \in Node /\ friends[0][x] # {}
      BY <1>1, <1>3, <2>2 DEF HnswTypeOK, Known
    <3> QED
      BY <3>1, FriendsRemain
  <2>3. CASE x = node[t] /\ Publish(t)
    <3>1. pc[t] \in {"store", "publish"} /\ friends' = friends
      BY <2>3 DEF Publish, Inserted
    <3> QED
      BY <2>3, <3>1 DEF Known, LinkedOf
  <2> QED
    BY <2>1, <2>2, <2>3
<1> QED
  BY <1>2, <1>3, LinkedInserting DEF Known

LEMMA KnownStep ==
    ASSUME Base, Known, [CreateNext]_<<vars, postvars>>
    PROVE  Known'
<1>1. ASSUME NEW t \in Threads, Merging(t) PROVE Known'
  <2>1. /\ UNCHANGED <<elList, pc, node, lev, left>>
        /\ \/ friends' = friends
           \/ \E x \in Node :
                 friends' = [friends EXCEPT ![0][x] = IF post = 1 THEN Merged(x) ELSE Kept(x)]
    BY <1>1, MergingMoves DEF local
  <2>2. Built /\ friends \in [Levels -> [Node -> SUBSET Node]] /\ 0 \in Levels /\ elList \in SUBSET Node
    BY <1>1, DrawnLevels DEF Merging, Base, Typed, HnswTypeOK
  <2>3. ASSUME NEW x \in Node, friends[0][x] # {} PROVE friends'[0][x] # {}
    <3>1. ASSUME NEW y \in Node,
                 friends' = [friends EXCEPT ![0][y] = IF post = 1 THEN Merged(y) ELSE Kept(y)]
          PROVE  friends'[0][x] # {}
      <4>1. CASE x = y
        <5>1. friends'[0][x] = IF post = 1 THEN Merged(x) ELSE Kept(x)
          BY <2>2, <3>1, <4>1
        <5>2. Merged(x) # {}
          BY <2>3, MergedTyped DEF Base
        <5>3. post # 1 => Kept(x) # {}
          BY <5>2, KeptIsSound DEF Base
        <5> QED
          BY <5>1, <5>2, <5>3
      <4>2. CASE x # y
        BY <2>2, <2>3, <3>1, <4>2
      <4> QED
        BY <4>1, <4>2
    <3> QED
      BY <2>1, <2>3, <3>1
  <2>4. \A x \in elList \ {Data[1]} : friends'[0][x] # {}
    BY <2>2, <2>3 DEF Known
  <2>5. \A u \in Threads : pc[u] = "done"
    BY <2>2 DEF Built
  <2> QED
    BY <2>1, <2>4, <2>5 DEF Known, LinkedOf
<1>2. CASE SecondBuild
  BY <1>2 DEF SecondBuild, Known, LinkedOf
<1>3. CASE Turning
  BY <1>3 DEF Turning, Known, LinkedOf, vars, graph, local
<1> QED
  BY <1>1, <1>2, <1>3, KnownInserting, StepsOfCreate

\* Every node that was inserted keeps a friend on level 0, whatever the others
\* remove from its list when they shrink or merge it: add of hnsw.cc 534-600
\* and addFriendlevel of hnsw.h 259-290.
THEOREM NobodyIsAlone == CreateSpec => []KnowsAnother
<1>1. CreateInit => Known
  BY DEF CreateInit, Init, Known, LinkedOf
<1>2. Base /\ Known /\ [CreateNext]_<<vars, postvars>> => Known'
  BY KnownStep
<1>3. Known => KnowsAnother
  BY DEF Known, KnowsAnother
<1> QED
  BY <1>1, <1>2, <1>3, Foundation, PTL DEF CreateSpec

-----------------------------------------------------------------------------
(* The entry point and maxlevel_ keep pace, and no search leaves the       *)
(* levels of the nodes it visits, where no build reorders accesses.        *)

\* The worker has the new entry point stored and maxlevel_ not yet.
Raising(t) == pc[t] = "store" /\ todo[t] = {"maxlevel"}

\* Who inserts above maxlevel_ holds the guard, and only it stores.
EnteredOf(t) ==
    /\ guard = t => pc[t] \in Inserts \ {"drawn", "guard"}
    /\ pc[t] \in Inserts \ {"drawn", "guard"} /\ guard # t => level[node[t]] <= maxlevel
    /\ pc[t] = "store" =>
        /\ guard = t /\ maxlevel <= level[node[t]]
        /\ todo[t] \in {{}, {"maxlevel"}, Shared}
        /\ todo[t] = Shared \/ enterpoint = node[t]
        /\ todo[t] = {} => maxlevel = level[node[t]]
    /\ pc[t] = "publish" => level[node[t]] <= maxlevel

Highest ==
    /\ enterpoint \in Fetched
    /\ maxlevel <= level[enterpoint]
    /\ (\A t \in Threads : ~ Raising(t)) => level[enterpoint] = maxlevel
    /\ \A x \in elList : level[x] <= maxlevel

Topped == Highest /\ \A t \in Threads : EnteredOf(t)

LEMMA FetchedAreNodes ==
    ASSUME Base
    PROVE  Fetched \subseteq Node
<1> SUFFICES ASSUME NEW i \in 1 .. next - 1 PROVE order[i] \in Node
  BY DEF Fetched
<1>1. Len(Data) \in Nat /\ DOMAIN Data = 1 .. Len(Data)
  BY OrderOfData
<1>2. next \in 2 .. Len(Data) + 1 /\ order \in [DOMAIN Data -> Node]
  BY DEF Base, Typed, HnswTypeOK
<1> QED
  BY <1>1, <1>2

\* All of this is about numbers.
LEMMA LevelsAreNumbers ==
    ASSUME Base
    PROVE  /\ \A x \in Node : level[x] \in Int /\ level[x] >= -1
           /\ maxlevel \in Int /\ maxlevel \in Levels
           /\ enterpoint \in Node
           /\ guard \in Threads \cup {Null}
           /\ elList \subseteq Node
<1>1. HnswTypeOK
  BY DEF Base, Typed
<1>2. \A x \in Node : level[x] \in Levels \cup {-1}
  BY <1>1 DEF HnswTypeOK
<1>3. \A x \in Node : level[x] \in Int /\ level[x] >= -1
  BY <1>2, DrawnLevels
<1> QED
  BY <1>1, <1>3, DrawnLevels DEF HnswTypeOK

\* Nodes that have a level keep it.
LEMMA LevelsReached ==
    ASSUME Base, NEW t \in Threads, Inserting(t), NEW x \in Node, NEW l \in Levels,
           l <= level[x]
    PROVE  level'[x] = level[x]
<1>1. l \in Nat
  BY DrawnLevels
<1>2. level[x] # -1
  BY <1>1
<1>3. x \in Fetched
  BY <1>2 DEF Base, Held
<1> QED
  BY <1>3, LevelsStay DEF Inserting

LEMMA FetchedGrows ==
    ASSUME Base, NEW t \in Threads, Inserting(t)
    PROVE  Fetched \subseteq Fetched'
<1>1. Worker(t) /\ order' = order
  BY DEF Inserting, Worker
<1>2. next \in Int
  BY OrderOfData DEF Base, Typed, HnswTypeOK
<1>3. next' = next \/ next' = next + 1
  BY <1>1 DEF Worker, Fetch, Leave, NeedGuard, Guard, ReadMaxLevel, ReadEnterpoint, Start, Descend,
     Expand, StopSearch, LinkThere, LinkBack, NextLevel, CompareTop, StoreEnterpoint,
     StoreMaxLevel, Publish, Inserted
<1> QED
  BY <1>1, <1>2, <1>3 DEF Fetched

\* Which steps change the shared variables.
LEMMA TopMoves ==
    ASSUME NEW t \in Threads, Worker(t)
    PROVE  /\ maxlevel' = maxlevel \/ StoreMaxLevel(t)
           /\ enterpoint' = enterpoint \/ StoreEnterpoint(t)
           /\ \/ guard' = guard
              \/ guard = Null /\ guard' = t /\ Guard(t)
              \/ guard = t /\ guard' = Null /\ Publish(t)
           /\ elList' = elList \/ Publish(t)
BY DEF Worker, Fetch, Leave, NeedGuard, Guard, ReadMaxLevel, ReadEnterpoint, Start, Descend,
   Expand, StopSearch, LinkThere, LinkBack, NextLevel, CompareTop, StoreEnterpoint,
   StoreMaxLevel, Publish, Inserted, graph, top

LEMMA MaxLevelGrows ==
    ASSUME Base, NEW t \in Threads, Inserting(t), EnteredOf(t)
    PROVE  maxlevel <= maxlevel' /\ maxlevel' \in Int
<1>1. CASE StoreMaxLevel(t)
  <2>1. pc[t] = "store" /\ maxlevel' = level[node[t]]
    BY <1>1 DEF StoreMaxLevel
  <2>2. node[t] \in Node
    BY <2>1, HeldNode DEF Inserts
  <2> QED
    BY <2>1, <2>2, LevelsAreNumbers DEF EnteredOf
<1>2. CASE maxlevel' = maxlevel
  BY <1>2, LevelsAreNumbers
<1> QED
  BY <1>1, <1>2, TopMoves DEF Inserting

LEMMA OthersEntered ==
    ASSUME Base, Topped, NEW t \in Threads, Inserting(t), NEW u \in Threads, u # t
    PROVE  EnteredOf(u)'
<1>1. Worker(t) /\ HnswTypeOK /\ EnteredOf(t) /\ EnteredOf(u)
  BY DEF Inserting, Base, Typed, Topped
<1>2. pc'[u] = pc[u] /\ node'[u] = node[u] /\ todo'[u] = todo[u]
  BY <1>1, OthersStay
<1>3. pc[u] \in Inserts => node[u] \in Node /\ level'[node[u]] = level[node[u]]
  BY <1>1, HeldNode, LevelsStay DEF Base, Held
<1>4. guard' = u <=> guard = u
  BY <1>1, TopMoves, HnswParameterAssumption
<1>5. maxlevel <= maxlevel' /\ maxlevel' \in Int
  BY <1>1, MaxLevelGrows
<1>6. pc[u] = "store" => maxlevel' = maxlevel /\ enterpoint' = enterpoint
  <2> SUFFICES ASSUME pc[u] = "store", pc[t] = "store" PROVE FALSE
    BY <1>1, TopMoves DEF StoreMaxLevel, StoreEnterpoint
  <2> QED
    BY <1>1 DEF EnteredOf
<1>7. maxlevel \in Int /\ (pc[u] \in Inserts => level[node[u]] \in Int)
  BY <1>3, LevelsAreNumbers
<1>8. \A i \in Int : i <= maxlevel => i <= maxlevel'
  BY <1>5, <1>7
<1>9. {"store", "publish"} \subseteq Inserts
  BY DEF Inserts
<1>10. guard' = u => pc'[u] \in Inserts \ {"drawn", "guard"}
  BY <1>1, <1>2, <1>4 DEF EnteredOf
<1>11. pc'[u] \in Inserts \ {"drawn", "guard"} /\ guard' # u => level'[node'[u]] <= maxlevel'
  BY <1>1, <1>2, <1>3, <1>4, <1>7, <1>8 DEF EnteredOf
<1>12. ASSUME pc'[u] = "store"
       PROVE  /\ guard' = u /\ maxlevel' <= level'[node'[u]]
              /\ todo'[u] \in {{}, {"maxlevel"}, Shared}
              /\ todo'[u] = Shared \/ enterpoint' = node'[u]
              /\ todo'[u] = {} => maxlevel' = level'[node'[u]]
  BY <1>1, <1>2, <1>3, <1>4, <1>6, <1>9, <1>12 DEF EnteredOf
<1>13. pc'[u] = "publish" => level'[node'[u]] <= maxlevel'
  BY <1>1, <1>2, <1>3, <1>7, <1>8, <1>9 DEF EnteredOf
<1> QED
  BY <1>10, <1>11, <1>12, <1>13 DEF EnteredOf

LEMMA StillEntered ==
    ASSUME Base, Topped, NEW t \in Threads, Inserting(t)
    PROVE  EnteredOf(t)'
<1>1. Worker(t) /\ EnteredOf(t) /\ Highest
  BY DEF Inserting, Topped
<1>2. /\ pc \in [Threads -> Labels] /\ todo \in [Threads -> SUBSET Shared]
      /\ node \in [Threads -> Node \cup {Null}] /\ HnswTypeOK
      /\ level \in [Node -> Levels \cup {-1}]
  BY DEF Base, Typed, HnswTypeOK
<1>3. pc[t] \in Inserts => node[t] \in Node /\ level[node[t]] \in Int
  BY HeldNode, DrawnLevels
<1>4. maxlevel \in Int /\ level[enterpoint] \in Int /\ guard \in Threads \cup {Null}
  BY LevelsAreNumbers
<1>5. CASE Fetch(t)
  <2>1. pc'[t] = "drawn" /\ guard' = guard /\ pc[t] = "fetch"
    BY <1>2, <1>5 DEF Fetch, top
  <2> QED
    BY <1>1, <2>1 DEF EnteredOf, Inserts
<1>6. CASE Leave(t) \/ Publish(t)
  <2>1. pc'[t] \in {"done", "fetch"}
    BY <1>2, <1>6 DEF Leave, Publish, Inserted
  <2>2. guard' # t
    <3>1. CASE Leave(t)
      BY <1>1, <3>1 DEF Leave, top, EnteredOf, Inserts
    <3>2. CASE Publish(t)
      BY <1>4, <3>2, HnswParameterAssumption DEF Publish
    <3> QED
      BY <1>6, <3>1, <3>2
  <2> QED
    BY <2>1, <2>2 DEF EnteredOf, Inserts
<1>7. CASE Working(t)
  <2>1. UNCHANGED <<level, node>> /\ pc[t] \in Inserts /\ pc'[t] \in Inserts
    BY <1>2, <1>7, WorkingMoves
  <2>2. CASE NeedGuard(t) \/ Guard(t)
    <3>1. CASE NeedGuard(t)
      <4>1. /\ pc[t] = "drawn" /\ guard' = guard /\ maxlevel' = maxlevel
            /\ pc'[t] = IF level[node[t]] > maxlevel THEN "guard" ELSE "read"
        BY <1>2, <3>1 DEF NeedGuard, top
      <4> QED
        BY <1>1, <1>3, <1>4, <2>1, <4>1 DEF EnteredOf, Inserts
    <3>2. CASE Guard(t)
      <4>1. pc'[t] = "read" /\ guard' = t
        BY <1>2, <3>2 DEF Guard
      <4> QED
        BY <4>1 DEF EnteredOf, Inserts
    <3> QED
      BY <2>2, <3>1, <3>2
  <2>3. CASE \/ ReadMaxLevel(t) \/ ReadEnterpoint(t) \/ Start(t) \/ Descend(t) \/ Expand(t)
             \/ StopSearch(t) \/ LinkThere(t) \/ LinkBack(t) \/ NextLevel(t)
    <3>1. /\ guard' = guard /\ maxlevel' = maxlevel
          /\ pc[t] \in {"read", "descend", "search", "link", "linkback"}
          /\ pc'[t] \in {"read", "descend", "search", "link", "linkback"}
      BY <1>2, <2>3 DEF ReadMaxLevel, ReadEnterpoint, Start, Descend, Expand, StopSearch,
         LinkThere, LinkBack, NextLevel, SearchFrom, top
    <3> QED
      BY <1>1, <2>1, <3>1 DEF EnteredOf, Inserts
  <2>4. CASE CompareTop(t)
    <3>1. UNCHANGED <<guard, maxlevel, enterpoint>> /\ pc[t] = "link"
      BY <2>4 DEF CompareTop, top
    <3>2. guard # t => level[node[t]] <= maxlevel
      BY <1>1, <3>1 DEF EnteredOf, Inserts
    <3>3. maxlevel <= level[enterpoint]
      BY <1>1 DEF Highest
    <3>4. CASE level[node[t]] > level[enterpoint]
      <4>1. pc'[t] = "store" /\ todo'[t] = Shared
        BY <1>2, <2>4, <3>4 DEF CompareTop
      <4>2. maxlevel <= level[node[t]] /\ guard = t
        BY <1>3, <1>4, <2>1, <3>2, <3>3, <3>4
      <4> QED
        BY <2>1, <3>1, <4>1, <4>2 DEF EnteredOf, Inserts, Shared
    <3>5. CASE ~ (level[node[t]] > level[enterpoint])
      <4>1. pc'[t] = "publish"
        BY <1>2, <2>4, <3>5 DEF CompareTop
      <4>2. level[node[t]] <= maxlevel
        <5>1. CASE guard # t
          BY <3>2, <5>1
        <5>2. CASE guard = t
          <6>1. \A u \in Threads : ~ Raising(u)
            BY <3>1, <5>2 DEF Topped, EnteredOf, Raising
          <6>2. level[enterpoint] = maxlevel
            BY <1>1, <6>1 DEF Highest
          <6> QED
            BY <1>3, <1>4, <2>1, <3>5, <6>2
        <5> QED
          BY <5>1, <5>2
      <4> QED
        BY <1>1, <2>1, <3>1, <4>1, <4>2 DEF EnteredOf, Inserts
    <3> QED
      BY <3>4, <3>5
  <2>5. CASE StoreEnterpoint(t)
    <3>1. /\ pc[t] = "store" /\ pc' = pc /\ UNCHANGED <<guard, maxlevel>>
          /\ enterpoint' = node[t] /\ todo'[t] = todo[t] \ {"enterpoint"}
          /\ "enterpoint" \in todo[t]
      BY <1>2, <2>5 DEF StoreEnterpoint, Did, After
    <3>2. todo[t] = Shared
      BY <1>1, <3>1 DEF EnteredOf
    <3>3. todo'[t] = {"maxlevel"}
      BY <3>1, <3>2 DEF Shared
    <3> QED
      BY <1>1, <2>1, <3>1, <3>3 DEF EnteredOf, Inserts, Shared
  <2>6. CASE StoreMaxLevel(t)
    <3>1. /\ pc[t] = "store" /\ pc' = pc /\ UNCHANGED <<guard, enterpoint>>
          /\ maxlevel' = level[node[t]] /\ todo'[t] = todo[t] \ {"maxlevel"}
          /\ "enterpoint" \notin todo[t]
      BY <1>2, <2>6 DEF StoreMaxLevel, Did, After
    <3>2. todo[t] # Shared /\ todo'[t] = {}
      BY <1>2, <3>1 DEF Shared
    <3> QED
      BY <1>1, <1>3, <2>1, <3>1, <3>2 DEF EnteredOf, Inserts
  <2> QED
    BY <1>7, <2>2, <2>3, <2>4, <2>5, <2>6 DEF Working
<1> QED
  BY <1>1, <1>5, <1>6, <1>7 DEF Worker, Working

LEMMA HighestInserting ==
    ASSUME Base, Topped, NEW t \in Threads, Inserting(t)
    PROVE  Highest'
<1>1. Worker(t) /\ EnteredOf(t) /\ Highest
  BY DEF Inserting, Topped
<1>2. \A x \in Fetched : x \in Node /\ level'[x] = level[x] /\ level[x] \in Int
  BY <1>1, FetchedAreNodes, LevelsStay, LevelsAreNumbers
<1>3. maxlevel <= maxlevel' /\ maxlevel' \in Int /\ maxlevel \in Int
  BY <1>1, MaxLevelGrows, LevelsAreNumbers
<1>4. /\ enterpoint \in Fetched /\ Fetched \subseteq Fetched' /\ elList \subseteq Fetched
      /\ maxlevel <= level[enterpoint]
      /\ (\A u \in Threads : ~ Raising(u)) => level[enterpoint] = maxlevel
  BY <1>1, FetchedGrows DEF Highest, Base, Held
<1>5. todo \in [Threads -> SUBSET Shared] /\ pc \in [Threads -> Labels]
  BY DEF Base, Typed, HnswTypeOK
<1>6. ASSUME NEW u \in Threads, u # t PROVE Raising(u)' <=> Raising(u)
  BY <1>1, <1>6, OthersStay DEF Raising, Base, Typed
<1>7. \A x \in elList' : level'[x] <= maxlevel'
  <2>1. ASSUME NEW x \in elList PROVE level'[x] <= maxlevel'
    BY <1>1, <1>2, <1>3, <1>4 DEF Highest
  <2>2. ASSUME Publish(t) PROVE elList' = elList \cup {node[t]} /\ level'[node[t]] <= maxlevel'
    <3>1. /\ pc[t] = "publish" \/ (pc[t] = "store" /\ todo[t] = {})
          /\ elList' = elList \cup {node[t]} /\ level' = level /\ maxlevel' = maxlevel
      BY <2>2 DEF Publish, Inserted
    <3>2. node[t] \in Node /\ level[node[t]] \in Int
      BY <3>1, HeldNode, DrawnLevels DEF Inserts
    <3> QED
      BY <1>1, <1>3, <3>1, <3>2 DEF EnteredOf
  <2> QED
    BY <1>1, <2>1, <2>2, TopMoves
<1>8. CASE StoreEnterpoint(t)
  <2>1. /\ pc[t] = "store" /\ pc' = pc /\ maxlevel' = maxlevel /\ level' = level
        /\ enterpoint' = node[t] /\ todo'[t] = todo[t] \ {"enterpoint"} /\ "enterpoint" \in todo[t]
    BY <1>5, <1>8 DEF StoreEnterpoint, Did, After, graph
  <2>2. node[t] \in Fetched /\ maxlevel <= level[node[t]]
    BY <1>1, <2>1 DEF EnteredOf, Base, Held, Inserts
  <2>3. Raising(t)'
    BY <1>1, <2>1 DEF EnteredOf, Raising, Shared
  <2> QED
    BY <1>4, <1>7, <2>1, <2>2, <2>3 DEF Highest
<1>9. CASE StoreMaxLevel(t)
  <2>1. /\ pc[t] = "store" /\ maxlevel' = level[node[t]] /\ level' = level
        /\ enterpoint' = enterpoint /\ "enterpoint" \notin todo[t]
    BY <1>9 DEF StoreMaxLevel, After, graph
  <2>2. enterpoint = node[t]
    BY <1>1, <2>1 DEF EnteredOf, Shared
  <2> QED
    BY <1>2, <1>4, <1>7, <2>1, <2>2 DEF Highest
<1>10. CASE ~ StoreEnterpoint(t) /\ ~ StoreMaxLevel(t)
  <2>1. maxlevel' = maxlevel /\ enterpoint' = enterpoint
    BY <1>1, <1>10, TopMoves
  <2>2. level'[enterpoint] = level[enterpoint]
    BY <1>2, <1>4
  <2>3. ASSUME \A u \in Threads : ~ Raising(u)' PROVE level[enterpoint] = maxlevel
    <3>1. CASE ~ Raising(t)
      BY <1>4, <1>6, <2>3, <3>1
    <3>2. CASE Raising(t)
      <4>1. pc[t] = "store" /\ todo[t] # {}
        BY <3>2 DEF Raising
      <4>2. FALSE
        <5>1. CASE Working(t)
          BY <1>10, <4>1, <5>1 DEF Working, NeedGuard, Guard, ReadMaxLevel, ReadEnterpoint, Start, Descend,
             Expand, StopSearch, LinkThere, LinkBack, NextLevel, CompareTop
        <5>2. CASE Fetch(t) \/ Leave(t) \/ Publish(t)
          BY <4>1, <5>2 DEF Fetch, Leave, Publish, Inserted
        <5> QED
          BY <1>1, <5>1, <5>2 DEF Worker, Working
      <4> QED
        BY <4>2
    <3> QED
      BY <3>1, <3>2
  <2> QED
    BY <1>4, <1>7, <2>1, <2>2, <2>3 DEF Highest
<1> QED
  BY <1>8, <1>9, <1>10

\* The first node enters on top of itself, in either build.
LEMMA FirstEnters ==
    ASSUME next = 2, order[1] = Data[1], elList = {Data[1]}, enterpoint = Data[1],
           NEW l \in Drawn, maxlevel = l,
           level = [x \in Node |-> IF x = Data[1] THEN l ELSE -1],
           \A t \in Threads : pc[t] = "fetch" /\ guard # t
    PROVE  Topped
<1>1. Fetched = {Data[1]}
  BY DEF Fetched
<1>2. level[Data[1]] = maxlevel /\ maxlevel \in Int
  BY OrderOfData, DrawnLevels
<1>3. Highest
  BY <1>1, <1>2 DEF Highest
<1> QED
  BY <1>3 DEF Topped, EnteredOf, Inserts

LEMMA ToppedInit == CreateInit => Topped
<1> SUFFICES ASSUME CreateInit PROVE Topped
  OBVIOUS
<1>1. PICK l \in Drawn : level = [x \in Node |-> IF x = Data[1] THEN l ELSE -1] /\ maxlevel = l
  BY DEF CreateInit, Init
<1>2. /\ next = 2 /\ order[1] = Data[1] /\ elList = {Data[1]} /\ enterpoint = Data[1]
      /\ \A t \in Threads : pc[t] = "fetch" /\ guard # t
  BY HnswParameterAssumption DEF CreateInit, Init
<1> QED
  BY <1>1, <1>2, FirstEnters

LEMMA ToppedSecondBuild ==
    ASSUME Base, Topped, SecondBuild
    PROVE  Topped'
<1>1. Fetched' = {Data[1]}
  BY BaseSecondBuild DEF SecondBuild, Base, Permuted, Fetched
<1>2. PICK l \in Drawn : level' = [x \in Node |-> IF x = Data[1] THEN l ELSE -1] /\ maxlevel' = l
  <2>1. DrawnWith[post] \subseteq Drawn
    BY PostAssumption DEF Base, Typed
  <2> QED
    BY <2>1 DEF SecondBuild
<1>3. level'[Data[1]] = maxlevel' /\ maxlevel' \in Int
  BY <1>2, OrderOfData, DrawnLevels
<1>4. enterpoint' = Data[1] /\ elList' = {Data[1]}
  BY DEF SecondBuild
<1>5. Highest'
  BY <1>1, <1>3, <1>4 DEF Highest
<1>6. ASSUME NEW t \in Threads PROVE pc'[t] = "fetch" /\ guard' # t
  <2>1. pc[t] = "done" /\ guard' = guard
    BY DEF SecondBuild, Built
  <2>2. guard # t
    BY <2>1 DEF Topped, EnteredOf, Inserts
  <2> QED
    BY <2>1, <2>2 DEF SecondBuild
<1> QED
  BY <1>5, <1>6 DEF Topped, EnteredOf, Inserts

LEMMA ToppedStep ==
    ASSUME Base, Topped, [CreateNext]_<<vars, postvars>>
    PROVE  Topped'
<1>1. ASSUME NEW t \in Threads, Inserting(t) PROVE Topped'
  BY <1>1, HighestInserting, StillEntered, OthersEntered DEF Topped
<1>2. ASSUME NEW t \in Threads, Merging(t) PROVE Topped'
  <2>1. UNCHANGED <<order, elList, level, top, next, pc, local>>
    BY <1>2, MergingMoves
  <2> QED
    BY <2>1 DEF Topped, Highest, EnteredOf, Raising, Fetched, top, local
<1>3. CASE Turning
  BY <1>3 DEF Turning, Topped, Highest, EnteredOf, Raising, Fetched, vars, graph, top, local
<1> QED
  BY <1>1, <1>2, <1>3, ToppedSecondBuild, StepsOfCreate

LEMMA AllAreInserted ==
    ASSUME Base, Built, Threads # {}
    PROVE  elList = Node
<1>1. next = Len(Data) + 1
  BY DEF Base, Held, Built
<1>2. ASSUME NEW x \in Node PROVE x \in Fetched
  BY <1>1, OrderOfData DEF Base, Permuted, Fetched
<1>3. \A t \in Threads : node[t] = Null
  BY DEF Base, Held, Built, Inserts
<1>4. Null \notin Node
  BY DataAssumption
<1>5. elList \subseteq Node
  BY LevelsAreNumbers
<1>6. ASSUME NEW x \in Node PROVE x \in elList
  <2>1. x \in elList \/ \E t \in Threads : node[t] = x
    BY <1>2 DEF Base, Held
  <2> QED
    BY <1>3, <1>4, <2>1
<1> QED
  BY <1>5, <1>6

\* When a build ends its entry point is a node of level maxlevel_, no node is
\* above it and none was lost, however the insertions interleave: add of
\* hnsw.cc 534-600 and its guard MaxLevelGuard_.  It takes at least one worker.
THEOREM EntryPointIsOnTop ==
    ASSUME Threads # {}
    PROVE  CreateSpec => []EntersOnTop
<1>1. CreateInit => Topped
  BY ToppedInit
<1>2. Base /\ Topped /\ [CreateNext]_<<vars, postvars>> => Topped'
  BY ToppedStep
<1>3. Base /\ Topped => EntersOnTop
  <2> SUFFICES ASSUME Base, Topped, Built PROVE EntersOnTop
    BY DEF EntersOnTop, MaxLevelIsHighest
  <2>1. \A t \in Threads : ~ Raising(t)
    BY DEF Built, Raising
  <2> QED
    BY <2>1, AllAreInserted DEF EntersOnTop, MaxLevelIsHighest, Topped, Highest
<1> QED
  BY <1>1, <1>2, <1>3, Foundation, PTL DEF CreateSpec

-----------------------------------------------------------------------------
(* The levels that searches visit.                                         *)

\* A worker comes down from a level that the entry point it read has, and its
\* search finds only nodes of the level it searches.
ReachedOf(t) ==
    /\ pc[t] = "read" =>
        /\ todo[t] \in {{}, {"enterpoint"}, Shared}
        /\ todo[t] = {"enterpoint"} => maxcopy[t] <= maxlevel
        /\ todo[t] = {} => maxcopy[t] <= level[ep[t]]
    /\ pc[t] \in {"descend"} \cup Linking => lev[t] <= level[ep[t]]
    /\ pc[t] = "search" => \A x \in seen[t] : lev[t] <= level[x]
    /\ pc[t] \in {"link", "linkback"} => \A x \in left[t] : lev[t] <= level[x]

\* The lists of a level lead to nodes of that level, until they are merged.
Leveled ==
    phase \in {"first", "second"} =>
        \A l \in Levels, x \in Node : \A y \in friends[l][x] : l <= level[y]

Ranged == Leveled /\ \A t \in Threads : ReachedOf(t)

LEMMA LeveledInserting ==
    ASSUME Base, Ranged, NEW t \in Threads, Inserting(t)
    PROVE  Leveled'
<1>1. /\ friends \in [Levels -> [Node -> SUBSET Node]] /\ delaunayType \in DelaunayTypes
      /\ \A l \in Levels, x \in Node : \A y \in friends[l][x] : l <= level[y]
  BY DEF Base, Typed, HnswTypeOK, Ranged, Leveled, Inserting
<1>2. SUFFICES ASSUME NEW l \in Levels, NEW x \in Node, NEW y \in friends'[l][x]
               PROVE  l <= level'[y]
  BY DEF Leveled
<1>3. SUFFICES y \in Node /\ l <= level[y]
  BY <1>2, LevelsReached
<1>4. CASE y \in friends[l][x]
  BY <1>1, <1>4
<1>5. CASE y \notin friends[l][x]
  <2>1. friends[l][x] \in SUBSET Node
    BY <1>1
  <2>2. CASE pc[t] = "link" /\ l = lev[t] /\ friends'[l][x] = WithFriend(l, x, node[t])
    <3>1. node[t] \in Node
      BY <2>2, HeldNode DEF Inserts
    <3>2. lev[t] <= level[node[t]]
      BY <2>2 DEF Base, Running, RunningOf, Linking
    <3>3. y = node[t]
      BY <1>1, <1>2, <1>5, <2>1, <2>2, <3>1, WithFriendIsSound
    <3> QED
      BY <2>2, <3>1, <3>2, <3>3
  <2>3. CASE pc[t] = "linkback" /\ l = lev[t] /\ friends'[l][x] = WithFriend(l, x, ep[t])
    <3>1. ep[t] \in Node
      BY <2>3 DEF Base, Running, RunningOf, Linking
    <3>2. lev[t] <= level[ep[t]]
      BY <2>3 DEF Ranged, ReachedOf, Linking
    <3>3. y = ep[t]
      BY <1>1, <1>2, <1>5, <2>1, <2>3, <3>1, WithFriendIsSound
    <3> QED
      BY <2>3, <3>1, <3>2, <3>3
  <2> QED
    BY <1>5, <2>2, <2>3, FriendsChange
<1> QED
  BY <1>4, <1>5

LEMMA OthersReached ==
    ASSUME Base, Topped, Ranged, NEW t \in Threads, Inserting(t), NEW u \in Threads, u # t
    PROVE  ReachedOf(u)'
<1>1. Worker(t) /\ HnswTypeOK /\ ReachedOf(u) /\ RunningOf(u)
  BY DEF Inserting, Base, Typed, Ranged, Running
<1>2. /\ pc'[u] = pc[u] /\ todo'[u] = todo[u] /\ maxcopy'[u] = maxcopy[u] /\ ep'[u] = ep[u]
      /\ lev'[u] = lev[u] /\ seen'[u] = seen[u] /\ left'[u] = left[u]
  BY <1>1, OthersStay
<1>3. maxcopy[u] \in Levels /\ lev[u] \in Levels /\ seen[u] \subseteq Node /\ left[u] \subseteq Node
  BY <1>1 DEF HnswTypeOK
<1>4. maxcopy[u] <= maxlevel => maxcopy[u] <= maxlevel'
  <2>1. maxcopy[u] \in Int /\ maxlevel \in Int
    BY <1>3, DrawnLevels, LevelsAreNumbers
  <2>2. maxlevel <= maxlevel' /\ maxlevel' \in Int
    BY MaxLevelGrows DEF Topped
  <2> QED
    BY <2>1, <2>2
<1>5. \A x \in Node, l \in Levels : l <= level[x] => l <= level'[x]
  BY LevelsReached
<1>6. pc[u] = "read" /\ todo[u] = {} => ep[u] \in Node
  BY <1>1 DEF RunningOf
<1>7. pc[u] \in {"descend"} \cup Linking => ep[u] \in Node
  BY <1>1 DEF RunningOf
<1>8. pc'[u] = "read" =>
        /\ todo'[u] \in {{}, {"enterpoint"}, Shared}
        /\ todo'[u] = {"enterpoint"} => maxcopy'[u] <= maxlevel'
        /\ todo'[u] = {} => maxcopy'[u] <= level'[ep'[u]]
  BY <1>1, <1>2, <1>3, <1>4, <1>5, <1>6 DEF ReachedOf
<1>9. pc'[u] \in {"descend"} \cup Linking => lev'[u] <= level'[ep'[u]]
  BY <1>1, <1>2, <1>3, <1>5, <1>7 DEF ReachedOf
<1>10. pc'[u] = "search" => \A x \in seen'[u] : lev'[u] <= level'[x]
  BY <1>1, <1>2, <1>3, <1>5 DEF ReachedOf
<1>11. pc'[u] \in {"link", "linkback"} => \A x \in left'[u] : lev'[u] <= level'[x]
  BY <1>1, <1>2, <1>3, <1>5 DEF ReachedOf
<1> QED
  BY <1>8, <1>9, <1>10, <1>11 DEF ReachedOf

LEMMA StillReached ==
    ASSUME Base, Topped, Ranged, NEW t \in Threads, Inserting(t)
    PROVE  ReachedOf(t)'
<1>1. Worker(t) /\ HnswTypeOK /\ ReachedOf(t) /\ RunningOf(t)
  BY DEF Inserting, Base, Typed, Ranged, Running
<1>2. /\ pc \in [Threads -> Labels] /\ todo \in [Threads -> SUBSET Shared]
      /\ maxcopy \in [Threads -> Levels] /\ ep \in [Threads -> Node \cup {Null}]
      /\ lev \in [Threads -> Levels] /\ seen \in [Threads -> SUBSET Node]
      /\ expanded \in [Threads -> SUBSET Node] /\ left \in [Threads -> SUBSET Node]
  BY <1>1 DEF HnswTypeOK
<1>3. \A l \in Levels, x \in Node : friends[l][x] \subseteq Node /\ \A y \in friends[l][x] : l <= level[y]
  BY <1>1 DEF HnswTypeOK, Ranged, Leveled, Inserting
<1>4. /\ lev[t] \in Levels /\ lev[t] \in Int /\ maxcopy[t] \in Int
      /\ \A x \in Node : level[x] \in Int
  BY <1>2, DrawnLevels, LevelsAreNumbers
<1>5. CASE Fetch(t)
  <2>1. pc'[t] = "drawn" /\ todo'[t] = Shared
    BY <1>2, <1>5 DEF Fetch
  <2> QED
    BY <2>1 DEF ReachedOf, Linking, Shared
<1>6. CASE Leave(t) \/ Publish(t)
  <2>1. pc'[t] \in {"done", "fetch"}
    BY <1>2, <1>6 DEF Leave, Publish, Inserted
  <2> QED
    BY <2>1 DEF ReachedOf, Linking
<1>7. CASE Working(t)
  <2>1. level' = level
    BY <1>1, <1>7, WorkingMoves
  <2>2. CASE NeedGuard(t) \/ Guard(t)
    <3>1. pc'[t] \in {"guard", "read"} /\ pc[t] \in {"drawn", "guard"} /\ todo' = todo
      BY <1>2, <2>2 DEF NeedGuard, Guard, local
    <3> QED
      BY <1>1, <3>1 DEF RunningOf, ReachedOf, Linking, Shared
  <2>3. CASE ReadMaxLevel(t)
    <3>1. /\ pc'[t] = "read" /\ pc[t] = "read" /\ "maxlevel" \in todo[t]
          /\ todo'[t] = todo[t] \ {"maxlevel"} /\ maxcopy'[t] = maxlevel /\ maxlevel' = maxlevel
      BY <1>2, <2>3 DEF ReadMaxLevel, Did, After, top
    <3>2. todo'[t] = {"enterpoint"}
      BY <1>1, <3>1 DEF ReachedOf, Shared
    <3> QED
      BY <3>1, <3>2, LevelsAreNumbers DEF ReachedOf, Linking
  <2>4. CASE ReadEnterpoint(t)
    <3>1. /\ pc'[t] = "read" /\ pc[t] = "read" /\ "maxlevel" \notin todo[t]
          /\ "enterpoint" \in todo[t] /\ todo'[t] = todo[t] \ {"enterpoint"}
          /\ ep'[t] = enterpoint /\ maxcopy' = maxcopy
      BY <1>2, <2>4 DEF ReadEnterpoint, Did, After
    <3>2. todo[t] = {"enterpoint"} /\ todo'[t] = {}
      BY <1>1, <3>1 DEF ReachedOf, Shared
    <3>3. maxcopy[t] <= maxlevel /\ maxlevel <= level[enterpoint]
      BY <1>1, <3>1, <3>2 DEF ReachedOf, Topped, Highest
    <3>4. maxcopy[t] <= level[enterpoint]
      BY <1>4, <3>3, LevelsAreNumbers
    <3> QED
      BY <2>1, <3>1, <3>2, <3>4 DEF ReachedOf, Linking
  <2>5. CASE Start(t)
    <3>1. /\ ep' = ep /\ lev'[t] = maxcopy[t] /\ pc'[t] \in {"descend", "search"}
          /\ pc[t] = "read" /\ todo[t] = {}
          /\ pc'[t] = "search" => seen'[t] = {ep[t]}
      BY <1>2, <2>5 DEF Start, SearchFrom
    <3>2. maxcopy[t] <= level[ep[t]]
      BY <1>1, <3>1 DEF ReachedOf
    <3> QED
      BY <2>1, <3>1, <3>2 DEF ReachedOf
  <2>6. CASE Descend(t)
    <3> DEFINE better == Closer(friends[lev[t]][ep[t]], ep[t], Dist[node[t]])
    <3>1. pc[t] = "descend" /\ ep[t] \in Node /\ lev[t] <= level[ep[t]]
      BY <1>1, <2>6 DEF Descend, RunningOf, ReachedOf
    <3>2. CASE better # {}
      <4>1. UNCHANGED <<pc, lev>> /\ \E x \in Closest(better, node[t]) : ep' = [ep EXCEPT ![t] = x]
        BY <2>6, <3>2 DEF Descend
      <4>2. \A x \in Closest(better, node[t]) : x \in friends[lev[t]][ep[t]]
        BY DEF Closest, Closer
      <4>3. lev[t] <= level[ep'[t]]
        <5> HIDE DEF better
        <5>1. PICK x \in Closest(better, node[t]) : ep' = [ep EXCEPT ![t] = x]
          BY <4>1
        <5>2. ep'[t] = x
          BY <1>2, <5>1
        <5> QED
          BY <1>3, <1>4, <3>1, <4>2, <5>2
      <4> QED
        BY <2>1, <3>1, <4>1, <4>3 DEF ReachedOf, Linking
    <3>3. CASE better = {}
      <4>1. /\ ep' = ep /\ lev'[t] = lev[t] - 1 /\ pc'[t] \in {"descend", "search"}
            /\ pc'[t] = "search" => seen'[t] = {ep[t]}
        BY <1>2, <2>6, <3>1, <3>3 DEF Descend, SearchFrom
      <4>2. lev[t] - 1 <= level[ep[t]]
        BY <1>4, <3>1
      <4> QED
        BY <2>1, <4>1, <4>2 DEF ReachedOf
    <3> QED
      BY <3>2, <3>3
  <2>7. CASE Expand(t)
    <3>1. UNCHANGED <<pc, ep, lev>> /\ pc[t] = "search"
      BY <2>7 DEF Expand
    <3>2. PICK c \in seen[t] : seen'[t] = seen[t] \cup friends[lev[t]][c]
      BY <1>2, <2>7 DEF Expand, Unread, Closest
    <3>3. c \in Node /\ \A x \in seen'[t] : lev[t] <= level[x]
      BY <1>1, <1>2, <1>3, <1>4, <3>1, <3>2 DEF ReachedOf
    <3> QED
      BY <1>1, <2>1, <3>1, <3>3 DEF ReachedOf, Linking
  <2>8. CASE StopSearch(t)
    <3>1. UNCHANGED <<ep, lev>> /\ pc[t] = "search" /\ pc'[t] = "link"
      BY <1>2, <2>8 DEF StopSearch
    <3>2. left'[t] \subseteq seen[t]
      BY <2>8, SearchFinds
    <3> QED
      BY <1>1, <2>1, <3>1, <3>2 DEF ReachedOf, Linking
  <2>9. CASE LinkThere(t)
    <3>1. UNCHANGED <<left, lev>> /\ pc[t] = "link" /\ pc'[t] = "linkback" /\ ep'[t] \in left[t]
      BY <1>2, <2>9 DEF LinkThere, Farthest
    <3> QED
      BY <1>1, <2>1, <3>1 DEF ReachedOf, Linking
  <2>10. CASE LinkBack(t)
    <3>1. /\ UNCHANGED <<ep, lev>> /\ pc[t] = "linkback" /\ pc'[t] = "link"
          /\ left'[t] \subseteq left[t]
      BY <1>2, <2>10 DEF LinkBack
    <3> QED
      BY <1>1, <2>1, <3>1 DEF ReachedOf, Linking
  <2>11. CASE NextLevel(t)
    <3>1. /\ ep' = ep /\ lev'[t] = lev[t] - 1 /\ pc[t] = "link"
          /\ pc'[t] = "search" /\ seen'[t] = {ep[t]}
      BY <1>2, <2>11 DEF NextLevel, SearchFrom
    <3>2. ep[t] \in Node /\ lev[t] <= level[ep[t]]
      BY <1>1, <3>1 DEF RunningOf, ReachedOf, Linking
    <3>3. lev[t] - 1 <= level[ep[t]]
      BY <1>4, <3>2
    <3> QED
      BY <2>1, <3>1, <3>3 DEF ReachedOf
  <2>12. CASE CompareTop(t) \/ StoreEnterpoint(t) \/ StoreMaxLevel(t)
    <3>1. pc'[t] \in {"store", "publish"}
      BY <1>2, <2>12 DEF CompareTop, StoreEnterpoint, StoreMaxLevel
    <3> QED
      BY <3>1 DEF ReachedOf, Linking
  <2> QED
    BY <1>7, <2>2, <2>3, <2>4, <2>5, <2>6, <2>7, <2>8, <2>9, <2>10, <2>11, <2>12 DEF Working
<1> QED
  BY <1>1, <1>5, <1>6, <1>7 DEF Worker, Working

LEMMA RangedStep ==
    ASSUME Base, Topped, Ranged, [CreateNext]_<<vars, postvars>>
    PROVE  Ranged'
<1>1. ASSUME NEW t \in Threads, Inserting(t) PROVE Ranged'
  BY <1>1, LeveledInserting, StillReached, OthersReached DEF Ranged
<1>2. ASSUME NEW t \in Threads, Merging(t) PROVE Ranged'
  <2>1. UNCHANGED <<elList, level, top, next, pc, local>> /\ phase' = "merging"
    BY <1>2, MergingMoves
  <2> QED
    BY <2>1 DEF Ranged, Leveled, ReachedOf, top, local, search
<1>3. CASE SecondBuild
  <2>1. \A l \in Levels, x \in Node : friends'[l][x] = {}
    BY <1>3 DEF SecondBuild
  <2>2. \A t \in Threads : pc'[t] = "fetch"
    BY <1>3 DEF SecondBuild
  <2> QED
    BY <2>1, <2>2 DEF Ranged, Leveled, ReachedOf, Linking
<1>4. CASE Turning
  BY <1>4 DEF Turning, Ranged, Leveled, ReachedOf, vars, graph, top, local, search
<1> QED
  BY <1>1, <1>2, <1>3, <1>4, StepsOfCreate

\* getAllFriends(level) is only asked of nodes that have that level, although
\* maxlevel_ and enterpoint_ are read without the guard and change meanwhile:
\* add of hnsw.cc 534-600, getAllFriends of hnsw.h.
THEOREM NoSearchLeavesItsLevel == CreateSpec => []LevelsInRange
<1>1. CreateInit => Topped /\ Ranged
  <2> SUFFICES ASSUME CreateInit PROVE Ranged
    BY ToppedInit
  <2>1. \A l \in Levels, x \in Node : friends[l][x] = {}
    BY DEF CreateInit, Init
  <2>2. \A t \in Threads : pc[t] = "fetch"
    BY DEF CreateInit, Init
  <2> QED
    BY <2>1, <2>2 DEF Ranged, Leveled, ReachedOf, Linking
<1>2. Base /\ Topped /\ Ranged /\ [CreateNext]_<<vars, postvars>> => Topped' /\ Ranged'
  BY ToppedStep, RangedStep
<1>3. Base /\ Ranged => LevelsInRange
  <2> SUFFICES ASSUME Base, Ranged PROVE LevelsInRange
    OBVIOUS
  <2>1. HnswTypeOK
    BY DEF Base, Typed
  <2> QED
    BY <2>1 DEF LevelsInRange, Ranged, ReachedOf, Linking
<1> QED
  BY <1>1, <1>2, <1>3, Foundation, PTL DEF CreateSpec

-----------------------------------------------------------------------------
(* No insertion finds its own node.  A worker that searches a level may    *)
(* have linked its node on the level above: another insertion that starts  *)
(* from there can link it to nodes of this level first.  What keeps the    *)
(* search apart from its node is that it started in another component of   *)
(* the level, and that only this worker will ever join the two.            *)

\* Where a worker goes on: where its search started, or the closest of the
\* nodes it links, which is the last one; and on which level.
Entry(t) ==
    IF pc[t] = "search" \/ left[t] = {} THEN ep[t]
    ELSE CHOOSE y \in left[t] : \A z \in left[t] : Dist[node[t]][y] <= Dist[node[t]][z]
EntryLevel(t) == IF pc[t] = "search" THEN lev[t] ELSE lev[t] - 1

\* N: the nodes that nobody has met.  A worker whose node has been met on the
\* level above, and perhaps on this one, has yet to link it here.
Pending(t, N) ==
    \/ pc[t] = "search" /\ node[t] \notin N
    \/ pc[t] \in {"link", "linkback"} /\ lev[t] > 0

\* C gives the nodes of a level names: nodes that were ever joined by links have
\* the same one.
Same(C, l, x, y) == C[l][x] = C[l][y]
Connects(C) == \A l \in Levels, x \in Node : \A y \in friends[l][x] : Same(C, l, x, y)
Nested(C) ==
    \A j, l \in Levels, x, y \in Node : j <= l /\ Same(C, j, x, y) => Same(C, l, x, y)
Lone(C, N) == \A x \in N, l \in Levels, y \in Node : Same(C, l, x, y) => y = x
Unmet(N) ==
    /\ N \in SUBSET Node
    /\ \A x \in Node : x \notin Fetched => x \in N
    /\ enterpoint \notin N

\* S parts the node that is pending from where its worker goes on, and neither
\* the nodes joined on that level nor any other that is pending there.
Separates(S, t, C, N) ==
    /\ node[t] \in S /\ Entry(t) \notin S
    /\ \A x, y \in Node : Same(C, EntryLevel(t), x, y) => (x \in S <=> y \in S)
    /\ \A u \in Threads \ {t} :
        Pending(u, N) /\ EntryLevel(u) = EntryLevel(t) => (node[u] \in S <=> Entry(u) \in S)

\* What a worker has met is joined to where its search started, and not new.
MeetsOf(t, C, N) ==
    /\ pc[t] \in {"drawn", "guard", "read", "descend"} => node[t] \in N
    /\ pc[t] \in {"link", "linkback", "store", "publish"} => node[t] \notin N
    /\ pc[t] = "read" /\ "enterpoint" \notin todo[t] => ep[t] \notin N
    /\ pc[t] \in {"descend"} \cup Linking => ep[t] \notin N
    /\ pc[t] = "search" => \A y \in seen[t] : Same(C, lev[t], y, ep[t])
    /\ pc[t] \in {"link", "linkback"} =>
        /\ node[t] \notin left[t]
        /\ \A y \in left[t] : Same(C, lev[t], y, node[t])
        /\ Same(C, lev[t], Entry(t), node[t])
    /\ pc[t] = "linkback" => ep[t] \in Farthest(left[t], node[t])
    /\ pc[t] = "search" /\ node[t] \notin N =>
        /\ lev[t] + 1 \in Levels
        /\ Same(C, lev[t] + 1, Entry(t), node[t])

Meets(C, N) == \A t \in Threads : MeetsOf(t, C, N)
Parted(C, N) == \A t \in Threads : Pending(t, N) => \E S \in SUBSET Node : Separates(S, t, C, N)
Divided(C, N) ==
    Connects(C) /\ Nested(C) /\ Lone(C, N) /\ Unmet(N) /\ Meets(C, N) /\ Parted(C, N)

IsDivided == \E C, N : Divided(C, N)

Selfless ==
    /\ NoLinkToItself
    /\ \A x \in Node : x \notin temp[x]
    /\ phase \in {"first", "second"} => IsDivided

-----------------------------------------------------------------------------
EntryOf(t) ==
    /\ Entry(t) \in Node
    /\ pc[t] # "search" /\ left[t] # {} =>
        /\ Entry(t) \in left[t]
        /\ \A z \in left[t] : Dist[node[t]][Entry(t)] <= Dist[node[t]][z]
    /\ pc[t] = "search" \/ left[t] = {} => Entry(t) = ep[t]

Entries == \A t \in Threads : pc[t] \in Linking => EntryOf(t)

\* There is a closest neighbor, as long as one is left to link.
LEMMA EntryIs == Base => Entries
<1> SUFFICES ASSUME Base, NEW t \in Threads, pc[t] \in Linking PROVE EntryOf(t)
  BY DEF Entries
<1> USE DEF EntryOf
<1>1. ep[t] \in Node
  BY DEF Base, Running, RunningOf
<1>2. left[t] \in SUBSET Node /\ node[t] \in Node
  BY HeldNode DEF Base, Typed, HnswTypeOK, Linking, Inserts
<1>3. CASE pc[t] = "search" \/ left[t] = {}
  BY <1>1, <1>3 DEF Entry
<1>4. CASE pc[t] # "search" /\ left[t] # {}
  <2> DEFINE f == Dist[node[t]]
             Is(y) == \A z \in left[t] : f[y] <= f[z]
  <2>1. \A y \in left[t] : f[y] \in Nat
    BY <1>2, Distances
  <2>2. \E y \in left[t] : Is(y)
    <3> HIDE DEF f
    <3> QED
      BY <1>4, <2>1, LeastValue
  <2>3. Entry(t) = CHOOSE y \in left[t] : Is(y)
    BY <1>4 DEF Entry
  <2>4. Entry(t) \in left[t] /\ Is(Entry(t))
    <3> HIDE DEF Is
    <3> QED
      BY <2>2, <2>3
  <2> QED
    BY <1>2, <1>4, <2>4
<1> QED
  BY <1>3, <1>4

\* Two workers have two nodes.
LEMMA OtherNode ==
    ASSUME Base, NEW t \in Threads, NEW u \in Threads, t # u, pc[t] \in Inserts
    PROVE  node[u] # node[t]
BY HeldNode, DataAssumption DEF Base, Held

\* What is pending stays parted when nothing is pending that was not.
LEMMA StaysParted ==
    ASSUME NEW C, NEW N, Parted(C, N),
           \A u \in Threads : Pending(u, N)' =>
                /\ Pending(u, N)
                /\ EntryLevel(u)' = EntryLevel(u) /\ Entry(u)' = Entry(u) /\ node'[u] = node[u]
    PROVE  Parted(C, N)'
<1> SUFFICES ASSUME NEW t \in Threads, Pending(t, N)'
             PROVE  \E S \in SUBSET Node : Separates(S, t, C, N)'
  BY DEF Parted
<1>1. /\ Pending(t, N)
      /\ EntryLevel(t)' = EntryLevel(t) /\ Entry(t)' = Entry(t) /\ node'[t] = node[t]
  OBVIOUS
<1>2. PICK S \in SUBSET Node : Separates(S, t, C, N)
  BY <1>1 DEF Parted
<1>3. Separates(S, t, C, N)'
  <2>1. \A u \in Threads \ {t} :
            Pending(u, N)' /\ EntryLevel(u)' = EntryLevel(t)'
                => (node'[u] \in S <=> Entry(u)' \in S)
    BY <1>1, <1>2 DEF Separates
  <2>2. \A x, y \in Node : Same(C, EntryLevel(t), x, y)' => (x \in S <=> y \in S)
    BY <1>1, <1>2 DEF Separates, Same
  <2> QED
    BY <1>1, <1>2, <2>1, <2>2 DEF Separates
<1> QED
  BY <1>3

-----------------------------------------------------------------------------
(* The search of x on level k is over: x is joined to e, where it started. *)

Joined(C, k, x, e) ==
    [l \in Levels |-> [y \in Node |->
        IF l >= k /\ Same(C, l, y, x) THEN C[l][e] ELSE C[l][y]]]

\* Who is joined afterwards: who was before, and the nodes of x with those of e.
LEMMA JoinedIs ==
    ASSUME NEW C, NEW k \in Levels, NEW x \in Node, NEW e \in Node,
           NEW l \in Levels, NEW a \in Node, NEW b \in Node
    PROVE  /\ Same(C, l, a, b) => Same(Joined(C, k, x, e), l, a, b)
           /\ l < k => (Same(Joined(C, k, x, e), l, a, b) <=> Same(C, l, a, b))
           /\ l >= k /\ Same(Joined(C, k, x, e), l, a, b) =>
                \/ Same(C, l, a, b)
                \/ Same(C, l, a, x) /\ Same(C, l, b, e)
                \/ Same(C, l, a, e) /\ Same(C, l, b, x)
           /\ l >= k => Same(Joined(C, k, x, e), l, x, e)
<1>1. l \in Int /\ k \in Int
  BY DrawnLevels
<1>2. \A y \in Node : Joined(C, k, x, e)[l][y] =
          IF l >= k /\ Same(C, l, y, x) THEN C[l][e] ELSE C[l][y]
  BY DEF Joined
<1> QED
  BY <1>1, <1>2 DEF Same

\* What is joined on a level remains joined on the levels above.
LEMMA JoinedNested ==
    ASSUME NEW C, NEW k \in Levels, NEW x \in Node, NEW e \in Node, Nested(C)
    PROVE  Nested(Joined(C, k, x, e))
<1> SUFFICES ASSUME NEW j \in Levels, NEW l \in Levels, NEW a \in Node, NEW b \in Node,
                    j <= l, Same(Joined(C, k, x, e), j, a, b)
             PROVE  Same(Joined(C, k, x, e), l, a, b)
  BY DEF Nested
<1>1. j \in Int /\ k \in Int /\ l \in Int
  BY DrawnLevels
<1>2. \A c, d \in Node : Same(C, j, c, d) => Same(C, l, c, d)
  BY DEF Nested
<1>3. CASE Same(C, j, a, b)
  BY <1>2, <1>3, JoinedIs
<1>4. CASE ~ Same(C, j, a, b)
  <2>1. j >= k /\ l >= k
    BY <1>1, <1>4, JoinedIs
  <2>2. \/ Same(C, l, a, x) /\ Same(C, l, b, e)
        \/ Same(C, l, a, e) /\ Same(C, l, b, x)
    BY <1>2, <1>4, <2>1, JoinedIs
  <2>3. /\ Same(Joined(C, k, x, e), l, x, e)
        /\ \/ Same(Joined(C, k, x, e), l, a, x) /\ Same(Joined(C, k, x, e), l, b, e)
           \/ Same(Joined(C, k, x, e), l, a, e) /\ Same(Joined(C, k, x, e), l, b, x)
    BY <2>1, <2>2, JoinedIs
  <2> QED
    BY <2>3 DEF Same
<1> QED
  BY <1>3, <1>4

\* Nodes that nobody has met stay alone.
LEMMA JoinedLone ==
    ASSUME NEW C, NEW N, NEW k \in Levels, NEW x \in Node, NEW e \in Node,
           Lone(C, N), e \notin N, N \in SUBSET Node
    PROVE  Lone(Joined(C, k, x, e), N \ {x})
<1> SUFFICES ASSUME NEW y \in N \ {x}, NEW l \in Levels, NEW z \in Node,
                    Same(Joined(C, k, x, e), l, y, z)
             PROVE  z = y
  BY DEF Lone
<1>1. \A a \in Node : Same(C, l, y, a) => a = y
  BY DEF Lone
<1>2. y # x /\ y # e /\ y \in Node /\ l \in Int /\ k \in Int
  BY DrawnLevels
<1>3. Same(C, l, y, z)
  BY <1>1, <1>2, JoinedIs
<1> QED
  BY <1>1, <1>3

\* A pending node is joined, on the level above, to where its worker goes on.
LEMMA PendingJoined ==
    ASSUME Base, NEW C, NEW N, Divided(C, N), NEW u \in Threads, Pending(u, N)
    PROVE  /\ EntryLevel(u) \in Levels /\ EntryLevel(u) + 1 \in Levels
           /\ pc[u] \in Linking /\ node[u] \in Node /\ Entry(u) \in Node
           /\ node[u] \notin N /\ Entry(u) \notin N
           /\ \A l \in Levels : l > EntryLevel(u) => Same(C, l, node[u], Entry(u))
<1>1. pc[u] \in Linking /\ pc[u] \in Inserts
  BY DEF Pending, Linking, Inserts
<1>2. node[u] \in Node /\ Entry(u) \in Node /\ lev[u] \in Levels
  BY <1>1, HeldNode, EntryIs DEF Entries, EntryOf, Base, Typed, HnswTypeOK
<1>3. MeetsOf(u, C, N)
  BY DEF Divided, Meets
<1>4. lev[u] \in Nat /\ lev[u] <= TopLevel /\ TopLevel \in Nat
  BY <1>2, DrawnLevels
<1>5. /\ EntryLevel(u) \in Levels /\ EntryLevel(u) + 1 \in Levels
      /\ Same(C, EntryLevel(u) + 1, Entry(u), node[u])
  <2>1. CASE pc[u] = "search"
    BY <1>2, <1>3, <2>1 DEF EntryLevel, Pending, MeetsOf
  <2>2. CASE pc[u] # "search"
    <3>1. EntryLevel(u) = lev[u] - 1 /\ lev[u] > 0 /\ pc[u] \in {"link", "linkback"}
      BY <2>2 DEF EntryLevel, Pending
    <3>2. EntryLevel(u) \in Levels /\ EntryLevel(u) + 1 = lev[u]
      BY <1>4, <3>1 DEF Levels
    <3> QED
      BY <1>2, <1>3, <3>1, <3>2 DEF MeetsOf
  <2> QED
    BY <2>1, <2>2
<1>6. node[u] \notin N
  BY <1>3 DEF Pending, MeetsOf
<1>7. Entry(u) \notin N
  <2>1. \A x \in N : Same(C, EntryLevel(u) + 1, x, node[u]) => node[u] = x
    BY <1>2, <1>5 DEF Divided, Lone
  <2> QED
    BY <1>5, <1>6, <2>1
<1>8. ASSUME NEW l \in Levels, l > EntryLevel(u) PROVE Same(C, l, node[u], Entry(u))
  <2>1. EntryLevel(u) + 1 <= l
    BY <1>5, <1>8, DrawnLevels
  <2>2. Same(C, l, Entry(u), node[u])
    BY <1>2, <1>5, <2>1 DEF Divided, Nested
  <2> QED
    BY <2>2 DEF Same
<1> QED
  BY <1>1, <1>2, <1>5, <1>6, <1>7, <1>8

\* What StopSearch leaves to link.
LEMMA StopSearchFinds ==
    ASSUME Base, NEW C, NEW N, Divided(C, N), NEW t \in Threads, Inserting(t), StopSearch(t)
    PROVE  /\ node[t] \in Node /\ ep[t] \in Node /\ lev[t] \in Levels
           /\ ~ Same(C, lev[t], node[t], ep[t])
           /\ pc'[t] = "link" /\ node'[t] = node[t] /\ lev'[t] = lev[t] /\ ep'[t] = ep[t]
           /\ left'[t] # {} /\ \A y \in left'[t] : y \in Node /\ Same(C, lev[t], y, ep[t])
           /\ Entry(t)' \in left'[t] /\ EntryLevel(t)' = lev[t] - 1
<1>1. pc[t] = "search" /\ pc[t] \in Linking /\ pc[t] \in Inserts /\ HnswTypeOK
  BY DEF StopSearch, Linking, Inserts, Base, Typed
<1>2. node[t] \in Node /\ ep[t] \in Node /\ lev[t] \in Levels
  BY <1>1, HeldNode DEF Base, Running, RunningOf, HnswTypeOK
<1>3. /\ pc' = [pc EXCEPT ![t] = "link"] /\ pc'[t] = "link"
      /\ node' = node /\ lev' = lev /\ ep' = ep
  BY <1>1 DEF StopSearch, HnswTypeOK
<1>4. left'[t] # {} /\ left'[t] \subseteq seen[t] /\ seen[t] \in SUBSET Node
  BY <1>1, SearchFinds DEF HnswTypeOK
<1>5. MeetsOf(t, C, N)
  BY DEF Divided, Meets
<1>6. ~ Same(C, lev[t], node[t], ep[t])
  <2>1. CASE node[t] \in N
    <3>1. \A y \in Node : Same(C, lev[t], node[t], y) => y = node[t]
      BY <1>2, <2>1 DEF Divided, Lone
    <3>2. ep[t] \notin N
      BY <1>1, <1>5 DEF MeetsOf
    <3> QED
      BY <1>2, <2>1, <3>1, <3>2
  <2>2. CASE node[t] \notin N
    <3>1. PICK S \in SUBSET Node : Separates(S, t, C, N)
      BY <1>1, <2>2 DEF Divided, Parted, Pending
    <3>2. Entry(t) = ep[t] /\ EntryLevel(t) = lev[t]
      BY <1>1, EntryIs DEF Entries, EntryOf, EntryLevel
    <3> QED
      BY <1>2, <3>1, <3>2 DEF Separates
  <2> QED
    BY <2>1, <2>2
<1>7. \A y \in left'[t] : y \in Node /\ Same(C, lev[t], y, ep[t])
  BY <1>1, <1>4, <1>5 DEF MeetsOf
<1>8. Base'
  BY BaseStep, TypedInserting, HeldInserting, RunningInserting DEF Base
<1>9. Entry(t)' \in left'[t]
  <2>1. EntryOf(t)'
    <3>1. Entries'
      BY <1>8, EntryIs, PTL
    <3> QED
      BY <1>3, <3>1 DEF Linking, Entries
  <2> QED
    BY <1>3, <1>4, <2>1 DEF EntryOf
<1>10. EntryLevel(t)' = lev[t] - 1
  BY <1>3 DEF EntryLevel
<1> QED
  BY <1>2, <1>3, <1>4, <1>6, <1>7, <1>9, <1>10

\* The others' pending nodes remain what they are.
LEMMA OthersPend ==
    ASSUME Base, NEW t \in Threads, Inserting(t), NEW u \in Threads, u # t
    PROVE  /\ EntryLevel(u)' = EntryLevel(u) /\ Entry(u)' = Entry(u) /\ node'[u] = node[u]
           /\ \A N : Pending(u, N)' <=> Pending(u, N)
<1>1. /\ pc'[u] = pc[u] /\ node'[u] = node[u] /\ ep'[u] = ep[u] /\ lev'[u] = lev[u]
      /\ left'[u] = left[u]
  BY OthersStay DEF Inserting, Base, Typed
<1> QED
  BY <1>1 DEF EntryLevel, Entry, Pending

\* What parted u from where its worker goes on, on another level than the one
\* searched or above it, can be chosen to do so still: either it ends at the
\* nodes that u is joined to one level up, or it does not part x from e2, where
\* x will go on.
\* R agrees with S on K, is the same everywhere else, and does not part x from e2.
Recut(R, S, K, x, e2) ==
    /\ \A y \in Node : y \in K => (y \in R <=> y \in S)
    /\ \A y, z \in Node : y \notin K /\ z \notin K => (y \in R <=> z \in R)
    /\ x \in R <=> e2 \in R

LEMMA CutAgain ==
    ASSUME NEW K, NEW S, NEW x, NEW e2, x \in Node, e2 \in Node, K \in SUBSET Node, S \in SUBSET Node,
           ~ (x \in K /\ e2 \in K)
    PROVE  \E R \in SUBSET Node : Recut(R, S, K, x, e2)
<1> USE DEF Recut
<1>1. CASE (x \in K /\ x \in S) \/ (x \notin K /\ e2 \in S)
  <2> DEFINE R == {y \in Node : y \in K => y \in S}
  <2> WITNESS R \in SUBSET Node
  <2> QED
    BY <1>1
<1>2. CASE ~ ((x \in K /\ x \in S) \/ (x \notin K /\ e2 \in S))
  <2> DEFINE R == K \cap S
  <2>1. \A y \in Node : y \in R <=> y \in K /\ y \in S
    OBVIOUS
  <2>2. R \in SUBSET Node
    OBVIOUS
  <2>3. x \in R <=> e2 \in R
    BY <1>2, <2>1
  <2> HIDE DEF R
  <2> QED
    BY <2>1, <2>2, <2>3
<1> QED
  BY <1>1, <1>2

\* The node whose search is over.
LEMMA StopSearchParts ==
    ASSUME Base, NEW C, NEW N, Divided(C, N), NEW t \in Threads, Inserting(t), StopSearch(t),
           NEW x \in Node, x = node[t], NEW e \in Node, e = ep[t],
           NEW k \in Levels, k = lev[t], k > 0
    PROVE  \E S \in SUBSET Node : Separates(S, t, Joined(C, k, x, e), N \ {x})'
<1> DEFINE S == {y \in Node : Same(C, k, x, y)}
           D == Joined(C, k, x, e)
<1>1. /\ ~ Same(C, k, x, e) /\ node'[t] = x
      /\ \A y \in left'[t] : y \in Node /\ Same(C, k, y, e)
      /\ Entry(t)' \in left'[t] /\ EntryLevel(t)' = k - 1
  BY StopSearchFinds
<1>2. k \in Nat /\ k - 1 \in Levels /\ k - 1 < k
  BY DrawnLevels DEF Levels
<1>3. Entry(t)' \notin S /\ x \in S
  BY <1>1 DEF Same
<1>4. \A y, z \in Node : Same(D, k - 1, y, z) => (y \in S <=> z \in S)
  <2> SUFFICES ASSUME NEW y \in Node, NEW z \in Node, Same(D, k - 1, y, z)
               PROVE  y \in S <=> z \in S
    OBVIOUS
  <2>1. Same(C, k - 1, y, z)
    BY <1>2, JoinedIs
  <2>2. Same(C, k, y, z)
    BY <1>2, <2>1 DEF Divided, Nested
  <2> QED
    BY <2>2 DEF Same
<1>5. ASSUME NEW u \in Threads \ {t}, Pending(u, N \ {x})', EntryLevel(u)' = k - 1
      PROVE  node'[u] \in S <=> Entry(u)' \in S
  <2>1. /\ EntryLevel(u)' = EntryLevel(u) /\ Entry(u)' = Entry(u) /\ node'[u] = node[u]
        /\ Pending(u, N \ {x})
    BY <1>5, OthersPend
  <2>2. node[u] # x
    BY OtherNode DEF StopSearch, Inserts
  <2>3. Pending(u, N)
    BY <2>1, <2>2 DEF Pending
  <2>4. Same(C, k, node[u], Entry(u)) /\ node[u] \in Node /\ Entry(u) \in Node
    BY <1>2, <1>5, <2>1, <2>3, PendingJoined
  <2> QED
    BY <2>1, <2>4 DEF Same
<1>6. Separates(S, t, D, N \ {x})'
  <2>1. \A y, z \in Node : Same(D, EntryLevel(t), y, z)' => (y \in S <=> z \in S)
    <3> HIDE DEF S, D
    <3> QED
      BY <1>1, <1>4 DEF Same
  <2> HIDE DEF S, D
  <2> QED
    BY <1>1, <1>3, <1>5, <2>1 DEF Separates
<1> QED
  BY <1>6

\* What parts the node of another worker afterwards.
LEMMA SeparatesAnew ==
    ASSUME Base, NEW C, NEW N, Divided(C, N), NEW t \in Threads, Inserting(t), StopSearch(t),
           NEW x \in Node, x = node[t], NEW e \in Node, e = ep[t], NEW k \in Levels, k = lev[t],
           NEW u \in Threads, u # t, Pending(u, N), NEW j \in Levels, j = EntryLevel(u), NEW R,
           node[u] \in R, Entry(u) \notin R,
           \A y, z \in Node : Same(C, j, y, z) => (y \in R <=> z \in R),
           j >= k => (x \in R <=> e \in R),
           j = k - 1 => (x \in R <=> Entry(t)' \in R),
           \A w \in Threads : w # u /\ w # t /\ Pending(w, N) /\ EntryLevel(w) = j
               => (node[w] \in R <=> Entry(w) \in R)
    PROVE  Separates(R, u, Joined(C, k, x, e), N \ {x})'
<1> DEFINE D == Joined(C, k, x, e)
<1>1. node'[t] = x /\ EntryLevel(t)' = k - 1
  BY StopSearchFinds
<1>2. EntryLevel(u)' = j /\ Entry(u)' = Entry(u) /\ node'[u] = node[u]
  BY OthersPend
<1>3. ASSUME NEW y \in Node, NEW z \in Node, Same(D, j, y, z)
      PROVE  y \in R <=> z \in R
  <2>1. j \in Int /\ k \in Int
    BY DrawnLevels
  <2>2. CASE Same(C, j, y, z)
    BY <2>2
  <2>3. CASE ~ Same(C, j, y, z)
    <3>1. ~ (j < k)
      BY <1>3, <2>3, JoinedIs
    <3>2. j >= k
      BY <2>1, <3>1
    <3>3. \/ Same(C, j, y, x) /\ Same(C, j, z, e)
          \/ Same(C, j, y, e) /\ Same(C, j, z, x)
      BY <1>3, <2>3, <3>2, JoinedIs
    <3> QED
      BY <3>2, <3>3
  <2> QED
    BY <2>2, <2>3
<1>4. ASSUME NEW w \in Threads \ {u}, Pending(w, N \ {x})', EntryLevel(w)' = j
      PROVE  node'[w] \in R <=> Entry(w)' \in R
  <2>1. CASE w = t
    <3>1. j = k - 1
      BY <1>1, <1>4, <2>1
    <3> QED
      BY <1>1, <2>1, <3>1
  <2>2. CASE w # t
    <3>1. /\ EntryLevel(w)' = EntryLevel(w) /\ Entry(w)' = Entry(w) /\ node'[w] = node[w]
          /\ Pending(w, N \ {x})
      BY <1>4, <2>2, OthersPend
    <3>2. node[w] # x
      BY <2>2, OtherNode DEF StopSearch, Inserts
    <3>3. Pending(w, N)
      BY <3>1, <3>2 DEF Pending
    <3> QED
      BY <1>4, <2>2, <3>1, <3>3
  <2> QED
    BY <2>1, <2>2
<1>5. \A y, z \in Node : Same(D, EntryLevel(u), y, z)' => (y \in R <=> z \in R)
  <2> HIDE DEF D
  <2> QED
    BY <1>2, <1>3 DEF Same
<1> HIDE DEF D
<1>6. Separates(R, u, D, N \ {x})'
  BY <1>2, <1>4, <1>5 DEF Separates
<1> QED
  BY <1>6 DEF D

\* The nodes of the other workers that are pending can still be parted from where
\* those workers go on.
LEMMA OthersStayParted ==
    ASSUME Base, NEW C, NEW N, Divided(C, N), NEW t \in Threads, Inserting(t), StopSearch(t),
           NEW x \in Node, x = node[t], NEW e \in Node, e = ep[t], NEW k \in Levels, k = lev[t],
           NEW u \in Threads, u # t, Pending(u, N)
    PROVE  \E R \in SUBSET Node : Separates(R, u, Joined(C, k, x, e), N \ {x})'
<1> DEFINE j == EntryLevel(u)
<1>1. /\ j \in Levels /\ j + 1 \in Levels
      /\ pc[u] \in Linking /\ node[u] \in Node /\ Entry(u) \in Node
      /\ node[u] \notin N /\ Entry(u) \notin N
      /\ \A l \in Levels : l > j => Same(C, l, node[u], Entry(u))
  BY PendingJoined
<1>2. PICK S \in SUBSET Node : Separates(S, u, C, N)
  BY DEF Divided, Parted
<1>3. /\ ~ Same(C, k, x, e)
      /\ Entry(t)' \in Node /\ Same(C, k, Entry(t)', e)
  BY StopSearchFinds
<1>4. j \in Int /\ k \in Int
  BY <1>1, DrawnLevels
<1>5. /\ node[u] \in S /\ Entry(u) \notin S
      /\ \A y, z \in Node : Same(C, j, y, z) => (y \in S <=> z \in S)
      /\ \A w \in Threads \ {u} :
            Pending(w, N) /\ EntryLevel(w) = j => (node[w] \in S <=> Entry(w) \in S)
  BY <1>2 DEF Separates
<1>6. node[u] # x
  BY OtherNode DEF StopSearch, Inserts
<1>7. pc[t] = "search" /\ Entry(t) = e /\ EntryLevel(t) = k
  BY EntryIs DEF StopSearch, Linking, Entries, EntryOf, EntryLevel
<1>8. CASE j < k - 1
  <2>1. ~ (j >= k) /\ j # k - 1
    BY <1>4, <1>8
  <2> HIDE DEF j
  <2>2. Separates(S, u, Joined(C, k, x, e), N \ {x})'
    BY <1>1, <1>5, <2>1, SeparatesAnew DEF j
  <2> QED
    BY <2>2
<1>9. CASE j = k - 1
  <2>0. PICK f \in Node : f = Entry(t)'
    BY <1>3
  <2> DEFINE K == {y \in Node : Same(C, k, node[u], y)}
  <2>1. ~ (x \in K /\ f \in K)
    BY <1>3, <2>0 DEF Same
  <2>2. K \in SUBSET Node
    OBVIOUS
  <2>3. \E R \in SUBSET Node : Recut(R, S, K, x, f)
    <3> HIDE DEF K
    <3> QED
      BY <2>1, <2>2, CutAgain
  <2>4. PICK R \in SUBSET Node :
            /\ \A y \in Node : y \in K => (y \in R <=> y \in S)
            /\ \A y, z \in Node : y \notin K /\ z \notin K => (y \in R <=> z \in R)
            /\ x \in R <=> f \in R
    BY <2>3 DEF Recut
  <2>5. ASSUME NEW y \in Node, NEW z \in Node, Same(C, k, y, z), y \in S <=> z \in S
        PROVE  y \in R <=> z \in R
    <3>1. y \in K <=> z \in K
      BY <2>5 DEF Same
    <3> HIDE DEF K
    <3> QED
      BY <2>4, <2>5, <3>1
  <2>6. node[u] \in R /\ Entry(u) \notin R
    <3>1. node[u] \in K /\ Entry(u) \in K
      BY <1>1, <1>4, <1>9 DEF Same
    <3> HIDE DEF K
    <3> QED
      BY <1>1, <1>5, <2>4, <3>1
  <2>7. ASSUME NEW y \in Node, NEW z \in Node, Same(C, j, y, z) PROVE y \in R <=> z \in R
    <3>1. j <= k
      BY <1>4, <1>9
    <3>2. Same(C, k, y, z)
      BY <1>1, <2>7, <3>1 DEF Divided, Nested
    <3> QED
      BY <1>5, <2>5, <2>7, <3>2
  <2>8. ASSUME NEW w \in Threads, w # u, Pending(w, N), EntryLevel(w) = j
        PROVE  node[w] \in R <=> Entry(w) \in R
    <3>1. k > j
      BY <1>4, <1>9
    <3>2. node[w] \in Node /\ Entry(w) \in Node /\ Same(C, k, node[w], Entry(w))
      BY <2>8, <3>1, PendingJoined
    <3> QED
      BY <1>5, <2>5, <2>8, <3>2
  <2>9. ~ (j >= k)
    BY <1>4, <1>9
  <2> HIDE DEF j, K
  <2>10. Separates(R, u, Joined(C, k, x, e), N \ {x})'
    BY <1>1, <2>0, <2>4, <2>6, <2>7, <2>8, <2>9, SeparatesAnew DEF j
  <2> QED
    BY <2>10
<1>10. CASE j >= k
  <2> DEFINE R == IF x \in N THEN {y \in Node : IF y = x THEN e \in S ELSE y \in S} ELSE S
  <2>1. j # k - 1
    BY <1>4, <1>10
  <2>2. CASE x \in N
    <3>1. R = {y \in Node : IF y = x THEN e \in S ELSE y \in S}
      BY <2>2
    <3>2. \A y \in Node : y # x => (y \in R <=> y \in S)
      BY <3>1
    <3>3. e # x /\ Entry(u) # x
      BY <1>1, <1>3, <2>2 DEF Same
    <3>4. x \in R <=> e \in R
      BY <3>1, <3>3
    <3> HIDE DEF R
    <3>5. ASSUME NEW y \in Node, NEW z \in Node, Same(C, j, y, z) PROVE y \in R <=> z \in R
      <4>1. CASE y = x \/ z = x
        <5>1. Same(C, j, x, y) /\ Same(C, j, x, z)
          BY <3>5, <4>1 DEF Same
        <5>2. y = x /\ z = x
          BY <1>1, <2>2, <5>1 DEF Divided, Lone
        <5> QED
          BY <5>2
      <4>2. CASE ~ (y = x \/ z = x)
        BY <1>5, <3>2, <3>5, <4>2
      <4> QED
        BY <4>1, <4>2
    <3>6. ASSUME NEW w \in Threads, w # u, w # t, Pending(w, N), EntryLevel(w) = j
          PROVE  node[w] \in R <=> Entry(w) \in R
      <4>1. /\ node[w] \in Node /\ Entry(w) \in Node
            /\ node[w] \notin N /\ Entry(w) \notin N
        BY <3>6, PendingJoined
      <4> QED
        BY <1>5, <2>2, <3>2, <3>6, <4>1
    <3>7. node[u] \in R /\ Entry(u) \notin R
      BY <1>1, <1>5, <1>6, <3>2, <3>3
    <3>8. Separates(R, u, Joined(C, k, x, e), N \ {x})'
      <4> HIDE DEF j
      <4> QED
        BY <1>1, <2>1, <3>4, <3>5, <3>6, <3>7, SeparatesAnew DEF j
    <3>9. R \in SUBSET Node
      BY DEF R
    <3> QED
      BY <3>8, <3>9
  <2>3. CASE x \notin N
    <3>1. Pending(t, N)
      BY <1>7, <2>3 DEF Pending
    <3>2. x \in S <=> e \in S
      <4>1. CASE j = k
        BY <1>5, <1>7, <3>1, <4>1
      <4>2. CASE j # k
        <5>1. j > k
          BY <1>4, <1>10, <4>2
        <5>2. Same(C, j, x, e)
          BY <1>1, <1>7, <3>1, <5>1, PendingJoined
        <5> QED
          BY <1>5, <5>2
      <4> QED
        BY <4>1, <4>2
    <3> HIDE DEF j
    <3>3. Separates(S, u, Joined(C, k, x, e), N \ {x})'
      BY <1>1, <1>5, <2>1, <3>2, SeparatesAnew DEF j
    <3> QED
      BY <3>3
  <2> QED
    BY <2>2, <2>3
<1>11. j < k - 1 \/ j = k - 1 \/ j >= k
  <2> HIDE DEF j
  <2> QED
    BY <1>4
<1> QED
  BY <1>8, <1>9, <1>10, <1>11

-----------------------------------------------------------------------------
(* The other steps: nobody is joined, nobody is met.                       *)

\* A new friend is one that the names already join.
LEMMA ConnectsInserting ==
    ASSUME Base, NEW C, NEW N, Divided(C, N), NEW t \in Threads, Inserting(t)
    PROVE  Connects(C)' /\ (NoLinkToItself => NoLinkToItself')
<1>1. /\ friends \in [Levels -> [Node -> SUBSET Node]] /\ delaunayType \in DelaunayTypes
      /\ MeetsOf(t, C, N) /\ left[t] \in SUBSET Node
  BY DEF Base, Typed, HnswTypeOK, Divided, Meets
<1>2. ASSUME NEW l \in Levels, NEW x \in Node, NEW y \in friends'[l][x], y \notin friends[l][x]
      PROVE  Same(C, l, x, y) /\ x # y
  <2>1. CASE /\ l = lev[t] /\ x \in left[t] /\ pc[t] = "link"
             /\ friends'[l][x] = WithFriend(l, x, node[t])
    <3>1. node[t] \in Node
      BY <2>1, HeldNode DEF Inserts
    <3>2. friends[l][x] \in SUBSET Node
      BY <1>1
    <3>3. y = node[t]
      BY <1>1, <1>2, <2>1, <3>1, <3>2, WithFriendIsSound
    <3> QED
      BY <1>1, <2>1, <3>3 DEF MeetsOf
  <2>2. CASE /\ l = lev[t] /\ x = node[t] /\ pc[t] = "linkback"
             /\ friends'[l][x] = WithFriend(l, x, ep[t])
    <3>1. ep[t] \in Node /\ ep[t] \in left[t]
      BY <2>2 DEF Base, Running, RunningOf, Linking
    <3>2. friends[l][x] \in SUBSET Node
      BY <1>1
    <3>3. y = ep[t]
      BY <1>1, <1>2, <2>2, <3>1, <3>2, WithFriendIsSound
    <3> QED
      BY <1>1, <2>2, <3>1, <3>3 DEF MeetsOf, Same
  <2> QED
    BY <1>2, <2>1, <2>2, FriendsChange
<1>3. ASSUME NEW l \in Levels, NEW x \in Node, NEW y \in friends'[l][x]
      PROVE  Same(C, l, x, y)
  BY <1>2 DEF Divided, Connects
<1>4. Connects(C)'
  BY <1>3 DEF Connects, Same
<1>5. ASSUME NoLinkToItself PROVE NoLinkToItself'
  BY <1>2, <1>5 DEF NoLinkToItself
<1> QED
  BY <1>4, <1>5

\* An entry point has been linked before, so somebody has met it.
LEMMA UnmetInserting ==
    ASSUME Base, NEW C, NEW N, Divided(C, N), NEW t \in Threads, Inserting(t)
    PROVE  Unmet(N)'
<1>1. \A x \in Node : x \notin Fetched' => x \in N
  BY FetchedGrows DEF Divided, Unmet, Inserting
<1>2. enterpoint' \notin N
  <2>1. CASE StoreEnterpoint(t)
    <3>1. pc[t] = "store" /\ enterpoint' = node[t]
      BY <2>1 DEF StoreEnterpoint
    <3> QED
      BY <3>1 DEF Divided, Meets, MeetsOf
  <2>2. CASE ~ StoreEnterpoint(t)
    <3>1. enterpoint' = enterpoint
      BY <2>2 DEF Inserting, Worker, Fetch, Leave, NeedGuard, Guard, ReadMaxLevel, ReadEnterpoint, Start,
         Descend, Expand, StopSearch, LinkThere, LinkBack, NextLevel, CompareTop,
         StoreMaxLevel, Publish, Inserted, top
    <3> QED
      BY <3>1 DEF Divided, Unmet
  <2> QED
    BY <2>1, <2>2
<1> QED
  BY <1>1, <1>2 DEF Divided, Unmet

\* The others have met nobody new.
LEMMA OthersMeet ==
    ASSUME Base, NEW C, NEW N, NEW t \in Threads, Inserting(t),
           NEW u \in Threads, u # t, MeetsOf(u, C, N)
    PROVE  MeetsOf(u, C, N)'
<1>1. /\ pc'[u] = pc[u] /\ node'[u] = node[u] /\ todo'[u] = todo[u] /\ ep'[u] = ep[u]
      /\ lev'[u] = lev[u] /\ seen'[u] = seen[u] /\ left'[u] = left[u]
  BY OthersStay DEF Inserting, Base, Typed
<1>2. Entry(u)' = Entry(u)
  BY OthersPend
<1> QED
  BY <1>1, <1>2 DEF MeetsOf, Same, Farthest

\* Nothing that was not pending becomes so, and what is pending stays where it is.
Keeps(t, N) ==
    Pending(t, N)' =>
        /\ Pending(t, N)
        /\ EntryLevel(t)' = EntryLevel(t) /\ Entry(t)' = Entry(t) /\ node'[t] = node[t]

\* A worker whose node nobody has met, until its search has begun.
LEMMA NewcomerMeets ==
    ASSUME Base, NEW C, NEW N, Divided(C, N), NEW t \in Threads, Inserting(t),
           \/ Fetch(t) \/ Leave(t) \/ Publish(t)
           \/ NeedGuard(t) \/ Guard(t) \/ ReadMaxLevel(t) \/ ReadEnterpoint(t)
           \/ Start(t) \/ Descend(t)
    PROVE  MeetsOf(t, C, N)' /\ Keeps(t, N)
<1>1. Worker(t) /\ HnswTypeOK /\ MeetsOf(t, C, N) /\ RunningOf(t)
  BY DEF Inserting, Base, Typed, Divided, Meets, Running
<1>2. /\ pc \in [Threads -> Labels] /\ todo \in [Threads -> SUBSET Shared]
      /\ ep \in [Threads -> Node \cup {Null}] /\ node \in [Threads -> Node \cup {Null}]
      /\ lev \in [Threads -> Levels] /\ seen \in [Threads -> SUBSET Node]
      /\ friends \in [Levels -> [Node -> SUBSET Node]]
  BY <1>1 DEF HnswTypeOK
<1>3. CASE Fetch(t)
  <2>1. /\ pc'[t] = "drawn" /\ todo'[t] = Shared /\ node'[t] = order[next]
    BY <1>2, <1>3 DEF Fetch
  <2>2. order[next] \in N
    BY <1>3, NextNode DEF Fetch, Divided, Unmet
  <2> QED
    BY <2>1, <2>2 DEF MeetsOf, Keeps, Pending, Linking, Shared
<1>4. CASE Leave(t) \/ Publish(t)
  <2>1. pc'[t] \in {"done", "fetch"}
    BY <1>2, <1>4 DEF Leave, Publish, Inserted
  <2> QED
    BY <2>1 DEF MeetsOf, Keeps, Pending, Linking
<1>5. CASE NeedGuard(t) \/ Guard(t)
  <2>1. /\ pc'[t] \in {"guard", "read"} /\ pc[t] \in {"drawn", "guard"}
        /\ UNCHANGED <<todo, node>>
    BY <1>2, <1>5 DEF NeedGuard, Guard, local
  <2> QED
    BY <1>1, <2>1 DEF RunningOf, MeetsOf, Keeps, Pending, Linking, Shared
<1>6. CASE ReadMaxLevel(t)
  <2>1. /\ pc[t] = "read" /\ UNCHANGED <<pc, ep, node>>
        /\ todo'[t] = todo[t] \ {"maxlevel"}
    BY <1>2, <1>6 DEF ReadMaxLevel, Did
  <2> QED
    BY <1>1, <2>1 DEF MeetsOf, Keeps, Pending, Linking
<1>7. CASE ReadEnterpoint(t)
  <2>1. pc[t] = "read" /\ UNCHANGED <<pc, node>> /\ ep'[t] = enterpoint
    BY <1>2, <1>7 DEF ReadEnterpoint
  <2>2. enterpoint \notin N
    BY DEF Divided, Unmet
  <2> QED
    BY <1>1, <2>1, <2>2 DEF MeetsOf, Keeps, Pending, Linking
<1>8. CASE Start(t)
  <2>1. /\ pc[t] = "read" /\ todo[t] = {} /\ pc'[t] \in {"descend", "search"} /\ UNCHANGED <<node, ep>>
        /\ pc'[t] = "search" => seen'[t] = {ep[t]}
    BY <1>2, <1>8 DEF Start, SearchFrom
  <2>2. node[t] \in N /\ ep[t] \notin N
    BY <1>1, <2>1 DEF MeetsOf
  <2>3. pc'[t] = "search" => \A y \in seen'[t] : Same(C, lev[t], y, ep[t])'
    BY <2>1 DEF Same
  <2> QED
    BY <2>1, <2>2, <2>3 DEF MeetsOf, Keeps, Pending, Linking
<1>9. CASE Descend(t)
  <2> DEFINE better == Closer(friends[lev[t]][ep[t]], ep[t], Dist[node[t]])
  <2>1. pc[t] = "descend" /\ ep[t] \in Node /\ lev[t] \in Levels /\ node' = node
    BY <1>1, <1>2, <1>9 DEF Descend, RunningOf
  <2>2. node[t] \in N /\ ep[t] \notin N
    BY <1>1, <2>1 DEF MeetsOf, Linking
  <2>3. CASE better # {}
    <3>1. UNCHANGED pc /\ \E x \in Closest(better, node[t]) : ep' = [ep EXCEPT ![t] = x]
      BY <1>9, <2>3 DEF Descend
    <3>2. \A x \in Closest(better, node[t]) : x \in friends[lev[t]][ep[t]]
      BY DEF Closest, Closer
    <3> HIDE DEF better
    <3>3. PICK x \in friends[lev[t]][ep[t]] : ep' = [ep EXCEPT ![t] = x]
      BY <3>1, <3>2
    <3>4. x \in Node /\ Same(C, lev[t], ep[t], x) /\ ep'[t] = x
      BY <1>2, <2>1, <3>3 DEF Divided, Connects
    <3>5. x \notin N
      <4>1. ASSUME x \in N PROVE FALSE
        <5>1. Same(C, lev[t], x, ep[t])
          BY <3>4 DEF Same
        <5>2. ep[t] = x
          BY <2>1, <4>1, <5>1 DEF Divided, Lone
        <5> QED
          BY <2>2, <4>1, <5>2
      <4> QED
        BY <4>1
    <3> QED
      BY <2>1, <2>2, <3>1, <3>4, <3>5 DEF MeetsOf, Keeps, Pending, Linking
  <2>4. CASE better = {}
    <3>1. /\ ep' = ep /\ pc'[t] \in {"descend", "search"}
          /\ pc'[t] = "search" => seen'[t] = {ep[t]}
      BY <1>2, <1>9, <2>1, <2>4 DEF Descend, SearchFrom
    <3>2. pc'[t] = "search" => \A y \in seen'[t] : Same(C, lev[t], y, ep[t])'
      BY <3>1 DEF Same
    <3> HIDE DEF better
    <3> QED
      BY <2>1, <2>2, <3>1, <3>2 DEF MeetsOf, Keeps, Pending, Linking
  <2> QED
    BY <2>3, <2>4
<1> QED
  BY <1>3, <1>4, <1>5, <1>6, <1>7, <1>8, <1>9

\* The farthest neighbor is linked first: where the worker goes on stays.
LEMMA NearestRemains ==
    ASSUME Base, NEW t \in Threads, pc[t] = "linkback", LinkBack(t), Inserting(t),
           ep[t] \in Farthest(left[t], node[t])
    PROVE  Entry(t)' = Entry(t)
<1>1. /\ pc'[t] = "link" /\ ep' = ep /\ node' = node /\ left'[t] = left[t] \ {ep[t]}
      /\ left[t] \in SUBSET Node /\ node[t] \in Node /\ ep[t] \in left[t]
  BY HeldNode DEF LinkBack, Base, Typed, HnswTypeOK, Inserts, Farthest
<1>2. Base'
  BY TypedInserting, HeldInserting, RunningInserting DEF Base
<1>3. EntryOf(t)
  BY EntryIs DEF Entries, Linking
<1>4. EntryOf(t)'
  <2>1. Entries'
    BY <1>2, EntryIs, PTL
  <2> QED
    BY <1>1, <2>1 DEF Entries, Linking
<1> DEFINE f == Dist[node[t]]
<1>5. \A y \in Node : f[y] \in Nat
  BY <1>1, Distances
<1>6. \A y, z \in Node : f[y] = f[z] => y = z
  BY <1>1, Distances
<1>7. Entry(t) \in left[t] /\ \A z \in left[t] : f[Entry(t)] <= f[z]
  BY <1>1, <1>3 DEF EntryOf
<1>8. \A z \in left[t] : f[z] <= f[ep[t]]
  BY DEF Farthest
<1>9. CASE left'[t] = {}
  <2>1. Entry(t) = ep[t] /\ Entry(t)' = ep[t]
    BY <1>1, <1>4, <1>7, <1>9 DEF EntryOf
  <2> QED
    BY <2>1
<1>10. CASE left'[t] # {}
  <2>1. Entry(t)' \in left'[t] /\ \A z \in left'[t] : f[Entry(t)'] <= f[z]
    BY <1>1, <1>4, <1>10 DEF EntryOf
  <2> HIDE DEF f
  <2>2. Entry(t) # ep[t]
    <3>1. ASSUME Entry(t) = ep[t] PROVE FALSE
      <4>1. PICK z \in left'[t] : TRUE
        BY <1>10
      <4>2. z \in left[t] /\ z # ep[t]
        BY <1>1, <4>1
      <4>3. f[z] \in Nat /\ f[ep[t]] \in Nat /\ f[z] <= f[ep[t]] /\ f[ep[t]] <= f[z]
        BY <1>1, <1>5, <1>7, <1>8, <3>1, <4>2
      <4>4. f[z] = f[ep[t]]
        BY <4>3
      <4> QED
        BY <1>1, <1>6, <4>2, <4>4
    <3> QED
      BY <3>1
  <2>3. Entry(t) \in left'[t] /\ Entry(t)' \in left[t]
    BY <1>1, <1>7, <2>1, <2>2
  <2>4. /\ f[Entry(t)] \in Nat /\ f[Entry(t)'] \in Nat
        /\ f[Entry(t)] <= f[Entry(t)'] /\ f[Entry(t)'] <= f[Entry(t)]
    BY <1>1, <1>5, <1>7, <2>1, <2>3
  <2>5. f[Entry(t)] = f[Entry(t)']
    BY <2>4
  <2> QED
    BY <1>1, <1>6, <2>3, <2>5
<1> QED
  BY <1>9, <1>10

\* A worker that searches and links.
LEMMA LinkerMeets ==
    ASSUME Base, NEW C, NEW N, Divided(C, N), NEW t \in Threads, Inserting(t),
           \/ Expand(t) \/ LinkThere(t) \/ LinkBack(t) \/ NextLevel(t)
           \/ CompareTop(t) \/ StoreEnterpoint(t) \/ StoreMaxLevel(t)
    PROVE  MeetsOf(t, C, N)' /\ Keeps(t, N)
<1>1. HnswTypeOK /\ MeetsOf(t, C, N) /\ RunningOf(t)
  BY DEF Base, Typed, Divided, Meets, Running
<1>2. /\ pc \in [Threads -> Labels] /\ ep \in [Threads -> Node \cup {Null}]
      /\ lev \in [Threads -> Levels] /\ seen \in [Threads -> SUBSET Node]
      /\ left \in [Threads -> SUBSET Node] /\ friends \in [Levels -> [Node -> SUBSET Node]]
  BY <1>1 DEF HnswTypeOK
<1>3. lev[t] \in Levels /\ lev[t] \in Nat
  BY <1>2, DrawnLevels
<1>4. CASE Expand(t)
  <2>1. pc[t] = "search" /\ UNCHANGED <<pc, node, ep, lev, left>>
    BY <1>4 DEF Expand
  <2>2. PICK c \in seen[t] : seen'[t] = seen[t] \cup friends[lev[t]][c]
    BY <1>2, <1>4 DEF Expand, Unread, Closest
  <2>3. c \in Node /\ \A y \in seen[t] : Same(C, lev[t], y, ep[t])
    BY <1>1, <1>2, <2>1, <2>2 DEF MeetsOf
  <2>4. ASSUME NEW y \in seen'[t] PROVE Same(C, lev[t], y, ep[t])
    <3>1. CASE y \in seen[t]
      BY <2>3, <3>1
    <3>2. CASE y \in friends[lev[t]][c]
      <4>1. Same(C, lev[t], c, y) /\ Same(C, lev[t], c, ep[t])
        BY <1>3, <2>2, <2>3, <3>2 DEF Divided, Connects
      <4> QED
        BY <4>1 DEF Same
    <3> QED
      BY <2>2, <3>1, <3>2
  <2>5. \A y \in seen'[t] : Same(C, lev[t], y, ep[t])'
    BY <2>1, <2>4 DEF Same
  <2>6. Entry(t)' = Entry(t) /\ EntryLevel(t)' = EntryLevel(t)
    BY <2>1 DEF Entry, EntryLevel
  <2>7. Keeps(t, N)
    BY <2>1, <2>6 DEF Keeps, Pending
  <2> QED
    BY <1>1, <2>1, <2>5, <2>6, <2>7 DEF MeetsOf, Linking, Same
<1>5. CASE LinkThere(t)
  <2>1. PICK x \in Farthest(left[t], node[t]) : ep' = [ep EXCEPT ![t] = x]
    BY <1>5 DEF LinkThere
  <2>2. /\ pc[t] = "link" /\ pc'[t] = "linkback" /\ UNCHANGED <<node, lev, left>> /\ ep'[t] = x
        /\ x \in left[t] /\ x \in Node
    BY <1>2, <1>5, <2>1 DEF LinkThere, Farthest
  <2>3. node[t] \in Node /\ node[t] \notin N
    BY <1>1, <2>2, HeldNode DEF MeetsOf, Inserts
  <2>4. x \notin N
    <3>1. ASSUME x \in N PROVE FALSE
      <4>1. Same(C, lev[t], x, node[t])
        BY <1>1, <2>2 DEF MeetsOf
      <4>2. node[t] = x
        BY <1>3, <2>3, <3>1, <4>1 DEF Divided, Lone
      <4> QED
        BY <2>3, <3>1, <4>2
    <3> QED
      BY <3>1
  <2>5. Entry(t)' = Entry(t) /\ EntryLevel(t)' = EntryLevel(t)
    BY <2>2 DEF Entry, EntryLevel
  <2>6. Keeps(t, N)
    BY <2>2, <2>5 DEF Keeps, Pending
  <2>7. ep'[t] \in Farthest(left[t], node[t])'
    BY <2>1, <2>2 DEF Farthest
  <2> QED
    BY <1>1, <2>2, <2>3, <2>4, <2>5, <2>6, <2>7 DEF MeetsOf, Linking, Same
<1>6. CASE LinkBack(t)
  <2>1. /\ pc[t] = "linkback" /\ pc'[t] = "link" /\ UNCHANGED <<node, lev, ep>>
        /\ left'[t] \subseteq left[t]
    BY <1>2, <1>6 DEF LinkBack
  <2>2. Entry(t)' = Entry(t) /\ EntryLevel(t)' = EntryLevel(t)
    BY <1>1, <1>6, <2>1, NearestRemains DEF MeetsOf, EntryLevel
  <2>3. Keeps(t, N)
    BY <2>1, <2>2 DEF Keeps, Pending
  <2> QED
    BY <1>1, <2>1, <2>2, <2>3 DEF MeetsOf, Linking, Same
<1>7. CASE NextLevel(t)
  <2>1. /\ pc[t] = "link" /\ pc'[t] = "search" /\ left[t] = {} /\ lev[t] > 0
        /\ lev'[t] = lev[t] - 1 /\ UNCHANGED <<node, ep, left>> /\ seen'[t] = {ep[t]}
    BY <1>2, <1>7 DEF NextLevel, SearchFrom
  <2>2. Entry(t) = ep[t] /\ Entry(t)' = ep[t] /\ EntryLevel(t) = lev[t] - 1 /\ EntryLevel(t)' = lev[t] - 1
    BY <2>1 DEF Entry, EntryLevel
  <2>3. Keeps(t, N)
    BY <2>1, <2>2 DEF Keeps, Pending
  <2>4. lev'[t] + 1 = lev[t]
    BY <1>3, <2>1
  <2>5. Same(C, lev[t], Entry(t), node[t]) /\ node[t] \notin N /\ ep[t] \notin N
    BY <1>1, <2>1 DEF MeetsOf, Linking
  <2>6. Same(C, lev[t] + 1, Entry(t), node[t])' /\ lev'[t] + 1 \in Levels
    BY <1>3, <2>1, <2>2, <2>4, <2>5 DEF Same
  <2>7. \A y \in seen'[t] : Same(C, lev[t], y, ep[t])'
    BY <2>1 DEF Same
  <2> QED
    BY <2>1, <2>3, <2>5, <2>6, <2>7 DEF MeetsOf, Linking
<1>8. CASE CompareTop(t) \/ StoreEnterpoint(t) \/ StoreMaxLevel(t)
  <2>1. pc[t] \in {"link", "store"} /\ pc'[t] \in {"store", "publish"} /\ node' = node
    BY <1>2, <1>8 DEF CompareTop, StoreEnterpoint, StoreMaxLevel
  <2> QED
    BY <1>1, <2>1 DEF MeetsOf, Keeps, Pending, Linking
<1> QED
  BY <1>4, <1>5, <1>6, <1>7, <1>8

\* The names stay the same until a search is over.
LEMMA DividedStays ==
    ASSUME Base, NEW C, NEW N, Divided(C, N), NEW t \in Threads, Inserting(t), ~ StopSearch(t)
    PROVE  Divided(C, N)'
<1>1. MeetsOf(t, C, N)' /\ Keeps(t, N)
  BY NewcomerMeets, LinkerMeets DEF Inserting, Worker
<1>2. Meets(C, N)'
  BY <1>1, OthersMeet DEF Divided, Meets
<1>3. ASSUME NEW u \in Threads, Pending(u, N)'
      PROVE  /\ Pending(u, N)
             /\ EntryLevel(u)' = EntryLevel(u) /\ Entry(u)' = Entry(u) /\ node'[u] = node[u]
  BY <1>1, <1>3, OthersPend DEF Keeps
<1>4. Parted(C, N)'
  <2>1. Parted(C, N)
    BY DEF Divided
  <2> QED
    BY <1>3, <2>1, StaysParted
<1>5. Nested(C)' /\ Lone(C, N)'
  BY DEF Divided, Nested, Lone, Same
<1> QED
  BY <1>2, <1>4, <1>5, ConnectsInserting, UnmetInserting DEF Divided

\* The search of t is over: its node has been met, and is joined.
LEMMA DividedJoins ==
    ASSUME Base, NEW C, NEW N, Divided(C, N), NEW t \in Threads, Inserting(t), StopSearch(t)
    PROVE  \E D, O : Divided(D, O)'
<1>1. PICK x \in Node : x = node[t]
  BY StopSearchFinds
<1>2. PICK e \in Node : e = ep[t]
  BY StopSearchFinds
<1>3. PICK k \in Levels : k = lev[t]
  BY StopSearchFinds
<1> DEFINE D == Joined(C, k, x, e)
           O == N \ {x}
<1>4. pc[t] = "search" /\ pc[t] \in Inserts /\ HnswTypeOK /\ MeetsOf(t, C, N)
  BY DEF StopSearch, Inserts, Base, Typed, Divided, Meets
<1>5. /\ pc'[t] = "link" /\ node'[t] = x /\ lev'[t] = k /\ ep'[t] = e
      /\ ~ Same(C, k, x, e)
      /\ \A y \in left'[t] : y \in Node /\ Same(C, k, y, e)
      /\ Entry(t)' \in left'[t] /\ EntryLevel(t)' = k - 1
  BY <1>1, <1>2, <1>3, StopSearchFinds
<1>6. Connects(D)'
  <2>1. friends' = friends /\ friends \in [Levels -> [Node -> SUBSET Node]]
    BY <1>4 DEF StopSearch, graph, HnswTypeOK
  <2>2. ASSUME NEW l \in Levels, NEW y \in Node, NEW z \in friends[l][y]
        PROVE  Same(D, l, y, z)
    <3>1. z \in Node /\ Same(C, l, y, z)
      BY <2>1 DEF Divided, Connects
    <3> QED
      BY <3>1, JoinedIs
  <2> HIDE DEF D
  <2> QED
    BY <2>1, <2>2 DEF Connects, Same
<1>7. Nested(D)' /\ Lone(D, O)'
  <2>1. Nested(D)
    BY JoinedNested DEF Divided
  <2>2. e \notin N
    BY <1>2, <1>4 DEF MeetsOf, Linking
  <2>3. Lone(D, O)
    BY <2>2, JoinedLone DEF Divided, Unmet
  <2> HIDE DEF D, O
  <2> QED
    BY <2>1, <2>3 DEF Nested, Lone, Same
<1>8. Unmet(O)'
  <2>1. Unmet(N)'
    BY UnmetInserting
  <2>2. x \in Fetched
    BY <1>1, <1>4 DEF Base, Held
  <2>3. x \in Fetched'
    BY <2>2, FetchedGrows
  <2> QED
    BY <2>1, <2>3 DEF Unmet
<1>9. Meets(D, O)'
  <2>1. ASSUME NEW u \in Threads, u # t PROVE MeetsOf(u, D, O)'
    <3>1. MeetsOf(u, C, N)
      BY DEF Divided, Meets
    <3>2. /\ pc'[u] = pc[u] /\ node'[u] = node[u] /\ todo'[u] = todo[u] /\ ep'[u] = ep[u]
          /\ lev'[u] = lev[u] /\ seen'[u] = seen[u] /\ left'[u] = left[u]
      BY <2>1, OthersStay DEF Inserting, Base, Typed
    <3>3. Entry(u)' = Entry(u)
      BY <2>1, OthersPend
    <3>4. node[u] # x
      BY <1>1, <1>4, <2>1, OtherNode
    <3>5. pc[u] \in Linking => node[u] \in Node /\ ep[u] \in Node /\ Entry(u) \in Node /\ lev[u] \in Levels
      <4> SUFFICES ASSUME pc[u] \in Linking
                   PROVE  node[u] \in Node /\ ep[u] \in Node /\ Entry(u) \in Node /\ lev[u] \in Levels
        OBVIOUS
      <4>1. pc[u] \in Inserts
        BY DEF Linking, Inserts
      <4>2. ep[u] \in Node /\ lev[u] \in Levels
        BY <1>4 DEF Base, Running, RunningOf, HnswTypeOK
      <4> QED
        BY <4>1, <4>2, HeldNode, EntryIs DEF Entries, EntryOf
    <3>6. seen[u] \in SUBSET Node /\ left[u] \in SUBSET Node
      BY <1>4 DEF HnswTypeOK
    <3>7. \A l \in Levels, y, z \in Node : Same(C, l, y, z) => Same(D, l, y, z)
      BY JoinedIs
    <3> HIDE DEF D
    <3>8. pc[u] = "search" => \A y \in seen[u] : Same(D, lev[u], y, ep[u])
      BY <3>1, <3>5, <3>6, <3>7 DEF MeetsOf, Linking
    <3>9. pc[u] \in {"link", "linkback"} =>
            /\ \A y \in left[u] : Same(D, lev[u], y, node[u])
            /\ Same(D, lev[u], Entry(u), node[u])
      BY <3>1, <3>5, <3>6, <3>7 DEF MeetsOf, Linking
    <3>10. pc[u] = "search" /\ node[u] \notin N =>
             /\ lev[u] + 1 \in Levels
             /\ Same(D, lev[u] + 1, Entry(u), node[u])
      BY <3>1, <3>5, <3>7 DEF MeetsOf, Linking
    <3>11. pc[u] = "linkback" => ep'[u] \in Farthest(left[u], node[u])'
      BY <3>1, <3>2 DEF MeetsOf, Farthest
    <3> QED
      BY <3>1, <3>2, <3>3, <3>4, <3>8, <3>9, <3>10, <3>11 DEF MeetsOf, Same
  <2>2. MeetsOf(t, D, O)'
    <3>1. e \notin N
      BY <1>2, <1>4 DEF MeetsOf, Linking
    <3>2. x \notin left'[t]
      BY <1>5
    <3>3. ASSUME NEW y \in left'[t] PROVE Same(D, k, y, x)
      <4>1. y \in Node /\ Same(C, k, y, e)
        BY <1>5
      <4>2. k >= k
        BY DrawnLevels
      <4>3. Same(D, k, y, e) /\ Same(D, k, x, e)
        BY <4>1, <4>2, JoinedIs
      <4> QED
        BY <4>3 DEF Same
    <3> HIDE DEF D
    <3>4. \A y \in left'[t] : Same(D, lev[t], y, node[t])'
      BY <1>5, <3>3 DEF Same
    <3>5. Same(D, lev[t], Entry(t), node[t])'
      BY <1>5, <3>3 DEF Same
    <3> QED
      BY <1>5, <3>1, <3>2, <3>4, <3>5 DEF MeetsOf, Linking
  <2> HIDE DEF D, O
  <2> QED
    BY <2>1, <2>2 DEF Meets
<1>10. Parted(D, O)'
  <2>1. ASSUME NEW u \in Threads, Pending(u, O)'
        PROVE  \E S \in SUBSET Node : Separates(S, u, D, O)'
    <3>1. CASE u = t
      <4>1. k > 0
        BY <1>5, <2>1, <3>1 DEF Pending
      <4>2. \E S \in SUBSET Node : Separates(S, t, D, O)'
        BY <1>1, <1>2, <1>3, <4>1, StopSearchParts
      <4> QED
        BY <3>1, <4>2
    <3>2. CASE u # t
      <4>1. node[u] # x
        BY <1>1, <1>4, <3>2, OtherNode
      <4>2. Pending(u, O)
        BY <2>1, <3>2, OthersPend
      <4>3. Pending(u, N)
        BY <4>1, <4>2 DEF Pending
      <4> QED
        BY <1>1, <1>2, <1>3, <3>2, <4>3, OthersStayParted
    <3> QED
      BY <3>1, <3>2
  <2> HIDE DEF D, O
  <2> QED
    BY <2>1 DEF Parted
<1>11. Divided(D, O)'
  <2> HIDE DEF D, O
  <2> QED
    BY <1>6, <1>7, <1>8, <1>9, <1>10 DEF Divided
<1> QED
  BY <1>11

\* A build begins with one node, and all names are different.
Beginning ==
    /\ friends = [l \in Levels |-> [x \in Node |-> {}]]
    /\ pc = [t \in Threads |-> "fetch"]
    /\ order[1] = Data[1] /\ enterpoint = Data[1] /\ next = 2

LEMMA BeginsDivided == Beginning => IsDivided
<1> SUFFICES ASSUME Beginning PROVE IsDivided
  OBVIOUS
<1> DEFINE C == [l \in Levels |-> [x \in Node |-> x]]
           N == Node \ {Data[1]}
<1>1. Fetched = {Data[1]}
  BY DEF Beginning, Fetched
<1>2. \A l \in Levels, x, y \in Node : Same(C, l, x, y) <=> x = y
  BY DEF Same
<1>3. \A t \in Threads : pc[t] = "fetch"
  BY DEF Beginning
<1> HIDE DEF C
<1>4. Connects(C)
  BY DEF Beginning, Connects
<1>5. Nested(C) /\ Lone(C, N)
  BY <1>2 DEF Nested, Lone
<1>6. Unmet(N)
  BY <1>1 DEF Unmet, Beginning
<1> HIDE DEF N
<1>7. Meets(C, N) /\ Parted(C, N)
  BY <1>3 DEF Meets, MeetsOf, Parted, Pending, Linking
<1>8. Divided(C, N)
  BY <1>4, <1>5, <1>6, <1>7 DEF Divided
<1> QED
  BY <1>8 DEF IsDivided

\* The second build begins anew; a merge has only friends of both builds.
LEMMA SelflessStep ==
    ASSUME Base, Selfless, [CreateNext]_<<vars, postvars>>
    PROVE  Selfless'
<1>1. ASSUME NEW t \in Threads, Inserting(t) PROVE Selfless'
  <2>1. PICK C, N : Divided(C, N)
    BY <1>1 DEF Selfless, IsDivided, Inserting
  <2>2. NoLinkToItself'
    BY <1>1, <2>1, ConnectsInserting DEF Selfless
  <2>3. IsDivided'
    <3>1. CASE StopSearch(t)
      BY <1>1, <2>1, <3>1, DividedJoins DEF IsDivided
    <3>2. CASE ~ StopSearch(t)
      <4>1. Divided(C, N)'
        BY <1>1, <2>1, <3>2, DividedStays
      <4> QED
        BY <4>1 DEF IsDivided
    <3> QED
      BY <3>1, <3>2
  <2>4. temp' = temp
    BY <1>1 DEF Inserting, postvars
  <2> QED
    BY <2>2, <2>3, <2>4 DEF Selfless
<1>2. ASSUME NEW t \in Threads, Merging(t) PROVE Selfless'
  <2>1. /\ phase' = "merging" /\ post' = post /\ temp' = temp /\ phase = "merging"
        /\ \/ friends' = friends
           \/ \E x \in Node :
                 friends' = [friends EXCEPT ![0][x] = IF post = 1 THEN Merged(x) ELSE Kept(x)]
    BY <1>2, MergingMoves DEF Merging
  <2>2. friends \in [Levels -> [Node -> SUBSET Node]] /\ 0 \in Levels
    BY DrawnLevels DEF Base, Typed, HnswTypeOK
  <2>3. \A x \in Node : x \notin Merged(x)
    BY <2>2 DEF Selfless, NoLinkToItself, Merged
  <2>4. \A x \in Node : x \notin (IF post = 1 THEN Merged(x) ELSE Kept(x))
    <3>1. post # 1 => \A x \in Node : Kept(x) \subseteq Merged(x)
      BY KeptIsSound DEF Base
    <3> QED
      BY <2>3, <3>1
  <2>5. ASSUME NEW l \in Levels, NEW x \in Node PROVE x \notin friends'[l][x]
    <3>1. x \notin friends[l][x]
      BY DEF Selfless, NoLinkToItself
    <3>2. ASSUME NEW y \in Node,
                 friends' = [friends EXCEPT ![0][y] = IF post = 1 THEN Merged(y) ELSE Kept(y)]
          PROVE  x \notin friends'[l][x]
      <4>1. CASE l = 0 /\ x = y
        <5>1. friends'[l][x] = IF post = 1 THEN Merged(x) ELSE Kept(x)
          BY <2>2, <3>2, <4>1
        <5> QED
          BY <2>4, <5>1
      <4>2. CASE ~ (l = 0 /\ x = y)
        BY <2>2, <3>1, <3>2, <4>2
      <4> QED
        BY <4>1, <4>2
    <3> QED
      BY <2>1, <3>1, <3>2
  <2> QED
    BY <2>1, <2>5 DEF Selfless, NoLinkToItself
<1>3. CASE SecondBuild
  <2>1. /\ friends' = [l \in Levels |-> [x \in Node |-> {}]]
        /\ temp' = friends[0] /\ 0 \in Levels
    BY <1>3, DrawnLevels DEF SecondBuild
  <2>2. NoLinkToItself' /\ \A x \in Node : x \notin temp'[x]
    BY <2>1 DEF Selfless, NoLinkToItself
  <2>3. Beginning'
    <3>1. order'[1] = Data[1]
      BY <1>3, BaseStep DEF Base, Permuted
    <3> QED
      BY <1>3, <3>1 DEF SecondBuild, Beginning
  <2>4. IsDivided'
    BY <2>3, BeginsDivided, PTL
  <2> QED
    BY <2>2, <2>4 DEF Selfless
<1>4. CASE Turning
  <2>1. /\ UNCHANGED <<vars, temp>>
        /\ phase' \in {"first", "second"} => phase \in {"first", "second"}
    BY <1>4 DEF Turning
  <2>2. NoLinkToItself' /\ \A x \in Node : x \notin temp'[x]
    BY <2>1 DEF Selfless, NoLinkToItself, vars, graph
  <2>3. IsDivided => IsDivided'
    <3> SUFFICES ASSUME NEW C, NEW N, Divided(C, N) PROVE Divided(C, N)'
      BY DEF IsDivided
    <3> USE <2>1 DEF vars, graph, top, local, search
    <3>1. (Connects(C) /\ Nested(C) /\ Lone(C, N) /\ Unmet(N))'
      BY DEF Divided, Connects, Nested, Lone, Unmet, Fetched, Same
    <3>2. \A t \in Threads : Entry(t)' = Entry(t) /\ EntryLevel(t)' = EntryLevel(t)
      BY DEF Entry, EntryLevel
    <3>3. Meets(C, N)'
      BY <3>2 DEF Divided, Meets, MeetsOf, Same, Farthest, Linking
    <3>4. Parted(C, N)'
      <4>1. \A u \in Threads : Pending(u, N)' =>
                /\ Pending(u, N)
                /\ EntryLevel(u)' = EntryLevel(u) /\ Entry(u)' = Entry(u) /\ node'[u] = node[u]
        BY <3>2 DEF Pending
      <4>2. Parted(C, N)
        BY DEF Divided
      <4> QED
        BY <4>1, <4>2, StaysParted
    <3> QED
      BY <3>1, <3>3, <3>4 DEF Divided
  <2> QED
    BY <2>1, <2>2, <2>3 DEF Selfless
<1> QED
  BY <1>1, <1>2, <1>3, <1>4, StepsOfCreate

\* checkList1 of hnsw.cc never finds a "Link to the same element": a search of
\* add (534-600) does not find the node it is made for, although others may know
\* this node on the level already; nor does the merge link a node to itself.
\* No assumption is made about the order of unsynchronised accesses.
THEOREM NoSearchFindsItself == CreateSpec => []NoLinkToItself
<1>1. CreateInit => Selfless
  <2> SUFFICES ASSUME CreateInit PROVE Selfless
    OBVIOUS
  <2>1. NoLinkToItself /\ \A x \in Node : x \notin temp[x]
    BY DEF CreateInit, Init, NoLinkToItself
  <2>2. Beginning
    BY DEF CreateInit, Init, Beginning
  <2> QED
    BY <2>1, <2>2, BeginsDivided DEF Selfless
<1>2. Base /\ Selfless /\ [CreateNext]_<<vars, postvars>> => Selfless'
  BY SelflessStep
<1>3. Selfless => NoLinkToItself
  BY DEF Selfless
<1> QED
  BY <1>1, <1>2, <1>3, Foundation, PTL DEF CreateSpec
=============================================================================
