------------------------------- MODULE VPTree -------------------------------
(***************************************************************************)
(* The vantage-point tree of src/method/vptree.cc with the pruning rule of *)
(* include/searchoracle.h: construction, saving and loading, and the       *)
(* recursive search with its budget of leaves.  One thread; the recursions *)
(* of the constructor and of GenericSearch are kept on explicit stacks.    *)
(*                                                                         *)
(* An object is its address, a number: the split compares addresses when   *)
(* distances are equal.  A node is named by the path that leads to it.     *)
(* Distances are integers, as in VPTree<int>, no larger than those a float *)
(* holds exactly, which is what a node keeps its median as; the tuned      *)
(* pruning rules with an exponent other than 1 are left out.               *)
(***************************************************************************)
EXTENDS KNNQueue, SequencesExt

CONSTANTS Objects,      \* the addresses of the objects
          Points,       \* where an object or a query can be
          Distance,     \* [Points -> [Points -> Nat]], a metric
          DistMax,      \* the largest distance_t
          BucketSizes,  \* values of bucketSize
          LeafBounds,   \* values of maxLeavesToVisit, not all negative
          Stretches,    \* values of (alphaLeft, alphaRight)
          Queries       \* [kind : {"knn", "range"}, limit : Nat, at : Points]

Unlimited == CHOOSE n \in LeafBounds : \A m \in LeafBounds : m <= n

ASSUME VPTreeAssumption ==
    /\ Objects # {} /\ IsFiniteSet(Objects) /\ Objects \subseteq Nat
    /\ Distance \in [Points -> [Points -> Nat]] /\ DistMax \in Nat
    /\ BucketSizes \subseteq Nat /\ Stretches \subseteq [left : Nat, right : Nat]
    /\ Queries \subseteq [kind : {"knn", "range"}, limit : Nat, at : Points]
    /\ \A q \in Queries : q.kind = "knn" => q.limit # 0
    /\ LeafBounds \subseteq Int /\ \E n \in LeafBounds : \A m \in LeafBounds : m <= n
    /\ \A x, y, z \in Points :
        /\ Distance[x][y] = Distance[y][x]
        /\ Distance[x][z] <= Distance[x][y] + Distance[y][z]
    /\ \A x, y \in Points : Distance[x][y] <= 2^24      \* see mediandist_
    /\ Cardinality(Objects) < Unlimited
    /\ [left |-> 1, right |-> 1] \in Stretches
    /\ \A x, y \in Points, s \in Stretches :
        DistMax >= s.left * Distance[x][y] /\ DistMax >= s.right * Distance[x][y]

VARIABLES data,         \* where each object is
          bucketSize,   \* BucketSize_
          tree,         \* the nodes: [path -> [pivot, median, bucket]]
          pending,      \* subtrees the constructor has yet to build
          maxLeaves,    \* MaxLeavesToVisit_
          alpha,        \* alpha_left_ and alpha_right_ of the oracle
          query,        \* the query that runs, or Nothing
          stack,        \* the activations of GenericSearch
          leaves,       \* the budget left, MaxLeavesToVisit
          result        \* the objects the query holds

index == <<data, bucketSize, tree, pending>>
params == <<maxLeaves, alpha>>
search == <<query, stack, leaves, result>>
vars == <<index, params, search>>

Nothing == [kind |-> "none"]
Null == 0                              \* PIVOT_ID_NULL_PIVOT and a null pivot_
NullNode == [pivot |-> -1, median |-> 0, bucket |-> {}]   \* PIVOT_ID_NULL_NODE
NoNodes == [p \in {} |-> NullNode]
Default == [left |-> 1, right |-> 1]
Left(p) == Append(p, "left")
Right(p) == Append(p, "right")
Between(x, y) == Distance[data[x]][data[y]]
D == [x \in Objects |-> Distance[query.at][data[x]]]      \* of the query

-----------------------------------------------------------------------------
(* Construction.                                                           *)

\* The comparison of pairs of a distance and an object.
Before(pivot, x, y) ==
    \/ Between(pivot, x) < Between(pivot, y)
    \/ Between(pivot, x) = Between(pivot, y) /\ x < y

\* The i-th of dpARR[bestDP], the other objects in that order.
Sorted(S, pivot, i) ==
    CHOOSE x \in S \ {pivot} :
        Cardinality({y \in S \ {pivot} : Before(pivot, y, x)}) = i - 1

\* GetMedian, truncated to an integer, and the address that goes with it.
Median(S, pivot) ==
    LET n == Cardinality(S) - 1
        i == n \div 2
        second == Sorted(S, pivot, i + 1)
        far == Between(pivot, second)
    IN  [first  |-> IF n % 2 = 1 THEN far
                    ELSE (Between(pivot, Sorted(S, pivot, i)) + far) \div 2,
         second |-> second]

\* The objects before the median pair go left, the rest goes right.
LeftPart(S, pivot, m) ==
    {x \in S \ {pivot} :
        \/ Between(pivot, x) < m.first
        \/ Between(pivot, x) = m.first /\ x < m.second}

Node(pivot, median, bucket) ==
    [pivot |-> pivot, median |-> median, bucket |-> bucket]

\* The tree with one more node, and two trees that hang below one node.
With(p, node, nodes) ==
    [q \in {p} \cup DOMAIN nodes |-> IF q = p THEN node ELSE nodes[q]]

Join(l, r) ==
    [q \in DOMAIN l \cup DOMAIN r |-> IF q \in DOMAIN l THEN l[q] ELSE r[q]]

\* The subtrees still to build; the constructor makes none of no objects.
Children(p, L, R) ==
    (IF L = {} THEN <<>> ELSE <<[at |-> Left(p), objects |-> L]>>)
    \o (IF R = {} THEN <<>> ELSE <<[at |-> Right(p), objects |-> R]>>)

\* What the constructor makes of the first pending subtree with this pivot:
\* two children or, when the median does not tell the objects apart, a bucket
\* of all of them.
Build(pivot) ==
    LET p == Head(pending).at
        S == Head(pending).objects
        m == Median(S, pivot)
        L == LeftPart(S, pivot, m)
        R == S \ (L \cup {pivot})
        least == (Cardinality(S) - 1) \div 4      \* BalanceConst
        lopsided == Cardinality(L) < least \/ Cardinality(R) < least
    IN  /\ tree' = With(p, Node(pivot, m.first, IF lopsided THEN S ELSE {}), tree)
        /\ pending' = (IF lopsided THEN <<>> ELSE Children(p, L, R)) \o Tail(pending)

\* The three ways through the constructor.
MakeBucket ==
    /\ pending # <<>> /\ Cardinality(Head(pending).objects) <= bucketSize
    /\ tree' = With(Head(pending).at, Node(Null, 0, Head(pending).objects), tree)
    /\ pending' = Tail(pending)
    /\ UNCHANGED <<data, bucketSize, params, search>>

MakeSplit ==
    /\ pending # <<>> /\ Cardinality(Head(pending).objects) > bucketSize
    /\ Cardinality(Head(pending).objects) >= 2
    /\ \E pivot \in Head(pending).objects : Build(pivot)
    /\ UNCHANGED <<data, bucketSize, params, search>>

MakeSingle ==
    /\ pending # <<>> /\ bucketSize = 0
    /\ \E x \in Objects :
        /\ Head(pending).objects = {x}
        /\ tree' = With(Head(pending).at, Node(x, 0, {}), tree)
    /\ pending' = Tail(pending)
    /\ UNCHANGED <<data, bucketSize, params, search>>

\* CreateIndex: query-time parameters are reset, then the root is built.
CreateIndex ==
    /\ DOMAIN tree = {} /\ pending = <<>>
    /\ pending' = <<[at |-> <<>>, objects |-> Objects]>>
    /\ maxLeaves' = Unlimited /\ alpha' = Default
    /\ UNCHANGED <<data, bucketSize, tree, search>>

Built == <<>> \in DOMAIN tree /\ pending = <<>>

-----------------------------------------------------------------------------
(* Saving and loading.                                                     *)

Paths == Seq({"left", "right"})

\* SaveNodeData: the nodes in pre-order, NullNode for a missing child.
SaveNodeData[p \in Paths] ==
    IF p \in DOMAIN tree
    THEN <<tree[p]>> \o SaveNodeData[Left(p)] \o SaveNodeData[Right(p)]
    ELSE <<NullNode>>

\* Mutant: a bucket is taken for the end of its subtree.
LoadNodeDataShort(file) ==
    LET load[i \in Nat] == [p \in Paths |->
            IF i \notin DOMAIN file THEN [nodes |-> NoNodes, next |-> i]
            ELSE IF file[i] = NullNode THEN [nodes |-> NoNodes, next |-> i + 1]
            ELSE IF file[i].bucket # {}
            THEN [nodes |-> With(p, file[i], NoNodes), next |-> i + 1]
            ELSE LET l == load[i + 1][Left(p)]
                     r == load[l.next][Right(p)]
                 IN  [nodes |-> With(p, file[i], Join(l.nodes, r.nodes)), next |-> r.next]]
    IN  load[1][<<>>].nodes

\* LoadNodeData: the nodes from position i on, and the position after them.  At
\* the end of the file, where a saved tree never leads, the stream throws.
LoadNodeData(file) ==
    LET load[i \in Nat] == [p \in Paths |->
            IF i \notin DOMAIN file THEN [nodes |-> NoNodes, next |-> i]
            ELSE IF file[i] = NullNode THEN [nodes |-> NoNodes, next |-> i + 1]
            ELSE LET l == load[i + 1][Left(p)]
                     r == load[l.next][Right(p)]
                 IN  [nodes |-> With(p, file[i], Join(l.nodes, r.nodes)), next |-> r.next]]
    IN  load[1][<<>>].nodes

\* SaveIndex, then LoadIndex of a new index over the same objects: it has the
\* default pruning rule and an uninitialised bound of leaves.
Reload ==
    /\ Built /\ query = Nothing
    /\ tree' = LoadNodeData(SaveNodeData[<<>>])
    /\ maxLeaves' \in LeafBounds /\ alpha' = Default
    /\ UNCHANGED <<data, bucketSize, pending, search>>

SetQueryTimeParams ==
    /\ Built /\ query = Nothing
    /\ maxLeaves' \in LeafBounds /\ alpha' \in Stretches
    /\ UNCHANGED <<index, search>>

-----------------------------------------------------------------------------
(* Search.                                                                 *)

\* Mutant: the farthest object bounds the search before K are held.
RadiusNotFull(R) ==
    IF query.kind = "range" THEN query.limit
    ELSE IF R = {} THEN DistMax ELSE D[Farthest(D, R)]

Radius(R) ==
    IF query.kind = "range" THEN query.limit
    ELSE IF Cardinality(R) < query.limit THEN DistMax
    ELSE D[Farthest(D, R)]

Checked(R, x) ==
    IF query.kind = "range" THEN IF D[x] <= query.limit THEN R \cup {x} ELSE R
    ELSE CheckAndAdd(D, query.limit, R, x)

\* Mutant: parts that touch the query ball are pruned.
ClassifyNotStrict(distance, radius, median) ==
    IF distance <= median /\ radius <= alpha.left * (median - distance)
    THEN {"left"}
    ELSE IF distance >= median /\ radius <= alpha.right * (distance - median)
    THEN {"right"}
    ELSE {"left", "right"}

\* The parts the pruning rule wants visited; strictly, so that a query on the
\* border visits both.
Classify(distance, radius, median) ==
    IF distance <= median /\ radius < alpha.left * (median - distance)
    THEN {"left"}
    ELSE IF distance >= median /\ radius < alpha.right * (distance - median)
    THEN {"right"}
    ELSE {"left", "right"}

Near(p) == IF D[tree[p].pivot] < tree[p].median THEN "left" ELSE "right"
Far(p) == IF Near(p) = "left" THEN "right" ELSE "left"

Activation(call, at, rest) == [call |-> call, at |-> at, rest |-> rest]

\* The call of a child, if it is there and wanted with the radius of now.
Call(p, side, R) ==
    IF /\ Append(p, side) \in DOMAIN tree
       /\ side \in Classify(D[tree[p].pivot], Radius(R), tree[p].median)
    THEN <<Activation("enter", Append(p, side), {})>>
    ELSE <<>>

Top == Head(stack)

\* Mutant: the budget is not looked at.
EnterOverBudget ==
    /\ stack # <<>> /\ Top.call = "enter"
    /\ LET p == Top.at
           node == tree[p]
           R == Checked(result, node.pivot)
       IN  \/ /\ node.bucket # {}
              /\ leaves' = leaves - 1
              /\ stack' = <<Activation("scan", p, node.bucket)>> \o Tail(stack)
              /\ UNCHANGED result
           \/ /\ node.bucket = {}
              /\ result' = R
              /\ stack' = Call(p, Near(p), R)
                          \o (<<Activation("second", p, {})>> \o Tail(stack))
              /\ UNCHANGED leaves
    /\ UNCHANGED <<index, params, query>>

\* GenericSearch up to the loop over a bucket or the call of the nearer child.
Enter ==
    /\ stack # <<>> /\ Top.call = "enter"
    /\ LET p == Top.at
           node == tree[p]
           R == Checked(result, node.pivot)
       IN  \/ /\ leaves <= 0                        \* early termination
              /\ stack' = Tail(stack)
              /\ UNCHANGED <<leaves, result>>
           \/ /\ leaves > 0 /\ node.bucket # {}
              /\ leaves' = leaves - 1
              /\ stack' = <<Activation("scan", p, node.bucket)>> \o Tail(stack)
              /\ UNCHANGED result
           \/ /\ leaves > 0 /\ node.bucket = {}
              /\ result' = R
              /\ stack' = Call(p, Near(p), R)
                          \o (<<Activation("second", p, {})>> \o Tail(stack))
              /\ UNCHANGED leaves
    /\ UNCHANGED <<index, params, query>>

\* One object of a bucket; the order of the objects only decides between equal
\* distances.
Scan ==
    /\ stack # <<>> /\ Top.call = "scan"
    /\ \E x \in Top.rest :
        /\ result' = Checked(result, x)
        /\ stack' = (IF Top.rest = {x} THEN <<>>
                     ELSE <<Activation("scan", Top.at, Top.rest \ {x})>>) \o Tail(stack)
    /\ UNCHANGED <<index, params, query, leaves>>

\* After the nearer child: the other one, by the radius there is now.
Second ==
    /\ stack # <<>> /\ Top.call = "second"
    /\ stack' = Call(Top.at, Far(Top.at), result) \o Tail(stack)
    /\ UNCHANGED <<index, params, query, leaves, result>>

Search ==
    /\ Built /\ query = Nothing
    /\ query' \in Queries
    /\ stack' = <<Activation("enter", <<>>, {})>>
    /\ leaves' = maxLeaves /\ result' = {}
    /\ UNCHANGED <<index, params>>

Answered == query # Nothing /\ stack = <<>>

\* The caller takes the answer.
Deliver ==
    /\ Answered
    /\ query' = Nothing /\ stack' = <<>> /\ leaves' = 0 /\ result' = {}
    /\ UNCHANGED <<index, params>>

-----------------------------------------------------------------------------

Init ==
    /\ data \in [Objects -> Points]
    /\ bucketSize \in BucketSizes /\ tree = NoNodes /\ pending = <<>>
    /\ maxLeaves = Unlimited /\ alpha = Default          \* set before any use
    /\ query = Nothing /\ stack = <<>> /\ leaves = 0 /\ result = {}

Next ==
    \/ CreateIndex \/ MakeBucket \/ MakeSplit \/ MakeSingle
    \/ Reload \/ SetQueryTimeParams
    \/ Search \/ Enter \/ Scan \/ Second \/ Deliver

Spec == Init /\ [][Next]_vars

-----------------------------------------------------------------------------
(* Properties.                                                             *)

\* The types; the budget of leaves is never overdrawn, and every node hangs
\* below a node.
TypesAndBudget ==
    /\ data \in [Objects -> Points] /\ bucketSize \in BucketSizes
    /\ DOMAIN tree \subseteq Paths
    /\ \A p \in DOMAIN tree : p = <<>> \/ Front(p) \in DOMAIN tree
    /\ \A p \in DOMAIN tree :
        /\ tree[p].pivot \in Objects \cup {Null}
        /\ tree[p].median \in 0 .. DistMax
        /\ tree[p].bucket \subseteq Objects
    /\ maxLeaves \in LeafBounds /\ alpha \in Stretches
    /\ query \in Queries \cup {Nothing}
    /\ \A i \in DOMAIN stack : stack[i].at \in DOMAIN tree
    /\ leaves \in Int /\ leaves <= Unlimited /\ (leaves < 0 => leaves = maxLeaves)
    /\ result \subseteq Objects

\* What a node itself holds: a bucket, or else its pivot.
Held(p) == IF tree[p].bucket # {} THEN tree[p].bucket ELSE {tree[p].pivot}

Below(p, q) == IsPrefix(p, q)

\* Every object is in exactly one node of a finished tree, also of one that was
\* saved and loaded; and on each side of a split stand only objects that the
\* pruning rule takes to be there: not farther from the pivot than the median
\* on the left, not nearer on the right, also when the median was truncated.
WellSplit ==
    Built =>
        /\ \A x \in Objects :
            Cardinality({p \in DOMAIN tree : x \in Held(p)}) = 1
        /\ \A p, q \in DOMAIN tree : \A x \in Held(q) : tree[p].bucket = {} =>
            /\ Below(Left(p), q) => Between(tree[p].pivot, x) <= tree[p].median
            /\ Below(Right(p), q) => Between(tree[p].pivot, x) >= tree[p].median

\* With the triangle rule not stretched and leaves to spare, the tree answers
\* as a scan of all objects does: pruning by a radius that shrinks during the
\* recursion, and by a median shared by both sides, loses nothing.
Exact ==
    Answered /\ leaves > 0 /\ alpha = Default =>
        IF query.kind = "range"
        THEN result = {x \in Objects : D[x] <= query.limit}
        ELSE \A x \in result, y \in Objects \ result : D[x] <= D[y]

\* However far the rule is stretched, a search with leaves to spare returns
\* as many objects as were asked for, or all.
FullAnswer ==
    Answered /\ leaves > 0 /\ query.kind = "knn" =>
        Cardinality(result) =
            IF Cardinality(Objects) < query.limit THEN Cardinality(Objects)
            ELSE query.limit
=============================================================================
