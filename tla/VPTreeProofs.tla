---------------------------- MODULE VPTreeProofs ----------------------------
(***************************************************************************)
(* A vantage-point tree over any set of objects, with any pivots, holds    *)
(* every object once and on the right side of every split, comes back from *)
(* a file as it was saved, and answers as a scan does.                     *)
(***************************************************************************)
EXTENDS VPTree, Extremes, SequenceTheorems

-----------------------------------------------------------------------------
(* Paths.                                                                  *)

Sides == {"left", "right"}

LEMMA BelowIs ==
    ASSUME NEW p \in Paths, NEW q \in Paths
    PROVE  Below(p, q) <=> Len(p) <= Len(q) /\ \A i \in 1 .. Len(p) : p[i] = q[i]
<1>1. Len(p) \in Nat /\ Len(q) \in Nat
  BY LenProperties DEF Paths
<1>2. ASSUME Len(p) <= Len(q)
      PROVE  SubSeq(p, 1, Len(p)) = SubSeq(q, 1, Len(p)) <=> \A i \in 1 .. Len(p) : p[i] = q[i]
  <2>1. \A i \in 1 .. Len(p) : p[i] \in Sides /\ q[i] \in Sides
    BY <1>1, <1>2, ElementOfSeq DEF Paths, Sides
  <2>2. /\ SubSeq(p, 1, Len(p)) \in Seq(Sides) /\ SubSeq(q, 1, Len(p)) \in Seq(Sides)
        /\ Len(SubSeq(p, 1, Len(p))) = Len(p) /\ Len(SubSeq(q, 1, Len(p))) = Len(p)
        /\ \A i \in 1 .. Len(p) : SubSeq(p, 1, Len(p))[i] = p[i]
        /\ \A i \in 1 .. Len(p) : SubSeq(q, 1, Len(p))[i] = q[i]
    BY <1>1, <2>1, SubSeqProperties
  <2>3. ASSUME \A i \in 1 .. Len(p) : p[i] = q[i]
        PROVE  SubSeq(p, 1, Len(p)) = SubSeq(q, 1, Len(p))
    BY <2>2, <2>3, SeqEqual
  <2> QED
    BY <2>2, <2>3
<1> QED
  BY <1>2 DEF Below, IsPrefix

LEMMA BelowItself ==
    ASSUME NEW p \in Paths
    PROVE  Below(p, p) /\ <<>> \in Paths /\ Below(<<>>, p)
<1>1. Len(p) \in Nat
  BY LenProperties DEF Paths
<1>2. <<>> \in Paths /\ Len(<<>>) = 0
  BY EmptySeq DEF Paths
<1> QED
  BY <1>1, <1>2, BelowIs

LEMMA BelowIsTransitive ==
    ASSUME NEW p \in Paths, NEW q \in Paths, NEW r \in Paths, Below(p, q), Below(q, r)
    PROVE  Below(p, r)
<1>1. Len(p) \in Nat /\ Len(q) \in Nat /\ Len(r) \in Nat
  BY LenProperties DEF Paths
<1>2. Len(p) <= Len(q) /\ Len(q) <= Len(r)
  BY BelowIs
<1>3. \A i \in 1 .. Len(p) : i \in 1 .. Len(q) /\ p[i] = q[i] /\ q[i] = r[i]
  BY <1>1, <1>2, BelowIs
<1> QED
  BY <1>1, <1>2, <1>3, BelowIs

\* The children of a node.
LEMMA ChildPaths ==
    ASSUME NEW p \in Paths, NEW side \in Sides
    PROVE  /\ Append(p, side) \in Paths
           /\ Append(p, side) # <<>> /\ Append(p, side) # p
           /\ Len(Append(p, side)) = Len(p) + 1
           /\ \A i \in 1 .. Len(p) : Append(p, side)[i] = p[i]
           /\ Append(p, side)[Len(p) + 1] = side
           /\ Below(p, Append(p, side))
<1>1. Len(p) \in Nat /\ p \in Seq(Sides)
  BY LenProperties DEF Paths, Sides
<1>2. /\ Append(p, side) \in Seq(Sides)
      /\ Append(p, side) # <<>>
      /\ Len(Append(p, side)) = Len(p) + 1
      /\ \A i \in 1 .. Len(p) : Append(p, side)[i] = p[i]
      /\ Append(p, side)[Len(p) + 1] = side
  BY <1>1, AppendProperties
<1>3. Append(p, side) \in Paths
  BY <1>2 DEF Paths, Sides
<1>4. Append(p, side) # p
  BY <1>1, <1>2
<1> DEFINE c == Append(p, side)
<1>5. c \in Paths /\ Len(p) <= Len(c) /\ \A i \in 1 .. Len(p) : p[i] = c[i]
  BY <1>1, <1>2, <1>3
<1> HIDE DEF c
<1>6. Below(p, c)
  BY <1>5, BelowIs
<1> QED
  BY <1>2, <1>3, <1>4, <1>6 DEF c

LEMMA ChildrenDiffer ==
    ASSUME NEW p \in Paths, NEW q \in Paths, NEW s \in Sides, NEW t \in Sides,
           Append(p, s) = Append(q, t)
    PROVE  p = q /\ s = t
BY AppendInjective DEF Paths, Sides

\* Nothing is below both children.
LEMMA ChildrenAreApart ==
    ASSUME NEW p \in Paths, NEW q \in Paths, NEW s \in Sides, NEW t \in Sides,
           Below(Append(p, s), q), Below(Append(p, t), q)
    PROVE  s = t
<1>1. Len(p) \in Nat
  BY LenProperties DEF Paths
<1>2. ASSUME NEW side \in Sides, Below(Append(p, side), q)
      PROVE  q[Len(p) + 1] = side
  <2> DEFINE c == Append(p, side)
  <2>1. c \in Paths /\ Len(c) = Len(p) + 1 /\ c[Len(p) + 1] = side /\ Below(c, q)
    BY <1>2, ChildPaths
  <2> HIDE DEF c
  <2>2. Len(p) + 1 \in 1 .. Len(c)
    BY <1>1, <2>1
  <2> QED
    BY <2>1, <2>2, BelowIs
<1> QED
  BY <1>2

\* What is below a node is the node or below one of its children.
LEMMA BelowChildren ==
    ASSUME NEW p \in Paths, NEW q \in Paths, Below(p, q), q # p
    PROVE  \E side \in Sides : Below(Append(p, side), q)
<1>1. Len(p) \in Nat /\ Len(q) \in Nat /\ p \in Seq(Sides) /\ q \in Seq(Sides)
  BY LenProperties DEF Paths, Sides
<1>2. Len(p) <= Len(q) /\ \A i \in 1 .. Len(p) : p[i] = q[i]
  BY BelowIs
<1>3. Len(p) # Len(q)
  BY <1>1, <1>2, SeqEqual
<1>4. Len(p) + 1 \in 1 .. Len(q)
  BY <1>1, <1>2, <1>3
<1>5. q[Len(p) + 1] \in Sides
  BY <1>1, <1>4, ElementOfSeq
<1> DEFINE side == q[Len(p) + 1]
<1> HIDE DEF side
<1>6. side \in Sides
  BY <1>5 DEF side
<1>7. \A i \in 1 .. Len(p) + 1 : Append(p, side)[i] = q[i]
  <2> TAKE i \in 1 .. Len(p) + 1
  <2>1. CASE i = Len(p) + 1
    BY <1>6, <2>1, ChildPaths DEF side
  <2>2. CASE i # Len(p) + 1
    BY <1>1, <1>2, <1>6, <2>2, ChildPaths
  <2> QED
    BY <2>1, <2>2
<1> DEFINE c == Append(p, side)
<1>8. c \in Paths /\ Len(c) <= Len(q) /\ \A i \in 1 .. Len(c) : c[i] = q[i]
  BY <1>1, <1>4, <1>6, <1>7, ChildPaths
<1> HIDE DEF c
<1>9. Below(c, q)
  BY <1>8, BelowIs
<1> QED
  BY <1>6, <1>9 DEF c

\* What a child is below is the child or the node is below it.
LEMMA AboveChild ==
    ASSUME NEW p \in Paths, NEW q \in Paths, NEW side \in Sides,
           Below(q, Append(p, side))
    PROVE  q = Append(p, side) \/ Below(q, p)
<1>1. Len(p) \in Nat /\ Len(q) \in Nat /\ p \in Seq(Sides) /\ q \in Seq(Sides)
  BY LenProperties DEF Paths, Sides
<1>2. /\ Append(p, side) \in Paths /\ Append(p, side) \in Seq(Sides)
      /\ Len(Append(p, side)) = Len(p) + 1
  BY ChildPaths DEF Paths, Sides
<1>3. Len(q) <= Len(p) + 1 /\ \A i \in 1 .. Len(q) : q[i] = Append(p, side)[i]
  BY <1>2, BelowIs
<1>4. CASE Len(q) = Len(p) + 1
  BY <1>1, <1>2, <1>3, <1>4, SeqEqual
<1>5. CASE Len(q) <= Len(p)
  BY <1>1, <1>3, <1>5, ChildPaths, BelowIs
<1> QED
  BY <1>1, <1>3, <1>4, <1>5

LEMMA Parents ==
    ASSUME NEW p \in Paths, p # <<>>
    PROVE  Front(p) \in Paths /\ Below(Front(p), p)
<1>1. p \in Seq(Sides) /\ Len(p) \in Nat \ {0}
  BY EmptySeq DEF Paths, Sides
<1>2. \A i \in 1 .. Len(p) - 1 : p[i] \in Sides
  BY <1>1, ElementOfSeq
<1>3. /\ Front(p) \in Seq(Sides)
      /\ Len(Front(p)) = Len(p) - 1
      /\ \A i \in 1 .. Len(p) - 1 : Front(p)[i] = p[i]
  <2> DEFINE n == Len(p) - 1
  <2>1. n \in Nat /\ \A i \in 1 .. n : p[i] \in Sides
    BY <1>1, <1>2
  <2> HIDE DEF n
  <2>2. /\ SubSeq(p, 1, n) \in Seq(Sides)
        /\ Len(SubSeq(p, 1, n)) = n
        /\ \A i \in 1 .. n : SubSeq(p, 1, n)[i] = p[i]
    BY <2>1, SubSeqProperties
  <2> QED
    BY <2>2 DEF Front, n
<1>4. Front(p) \in Paths
  BY <1>3 DEF Paths, Sides
<1> QED
  BY <1>1, <1>3, <1>4, BelowIs

-----------------------------------------------------------------------------
(* Distances, ranks and medians.                                           *)

LEMMA Bounds ==
    /\ Unlimited \in LeafBounds /\ Unlimited \in Int
    /\ \A n \in LeafBounds : n \in Int /\ n <= Unlimited
    /\ Default \in Stretches
    /\ 0 < Unlimited
<1>1. Unlimited \in LeafBounds /\ \A n \in LeafBounds : n <= Unlimited
  BY VPTreeAssumption DEF Unlimited
<1>2. Cardinality(Objects) \in Nat /\ Cardinality(Objects) < Unlimited
  BY VPTreeAssumption, FS_CardinalityType
<1>3. LeafBounds \subseteq Int /\ Default \in Stretches
  BY VPTreeAssumption DEF Default
<1> QED
  BY <1>1, <1>2, <1>3

LEMMA SomeObjects ==
    ASSUME NEW S \in SUBSET Objects
    PROVE  IsFiniteSet(S) /\ Cardinality(S) \in Nat /\ Cardinality(S) <= Cardinality(Objects)
BY VPTreeAssumption, FS_Subset, FS_CardinalityType

LEMMA BetweenIsNatural ==
    ASSUME data \in [Objects -> Points], NEW x \in Objects, NEW y \in Objects
    PROVE  Between(x, y) \in Nat /\ \E u, v \in Points : Between(x, y) = Distance[u][v]
<1>1. Distance \in [Points -> [Points -> Nat]]
  BY VPTreeAssumption
<1>2. data[x] \in Points /\ data[y] \in Points
  OBVIOUS
<1> QED
  BY <1>1, <1>2 DEF Between

\* Objects are numbers, so that the comparison of pairs is a strict total order.
LEMMA BeforeIsTotal ==
    ASSUME data \in [Objects -> Points], NEW pivot \in Objects
    PROVE  /\ \A x \in Objects : ~ Before(pivot, x, x)
           /\ \A x, y \in Objects : x # y => Before(pivot, x, y) \/ Before(pivot, y, x)
           /\ \A x, y, z \in Objects :
                  Before(pivot, x, y) /\ Before(pivot, y, z) => Before(pivot, x, z)
<1>1. \A x \in Objects : Between(pivot, x) \in Nat /\ x \in Nat
  BY BetweenIsNatural, VPTreeAssumption
<1> QED
  BY <1>1 DEF Before

\* Every position of the sorted array is some object's.
LEMMA SortedIsThere ==
    ASSUME data \in [Objects -> Points], NEW S \in SUBSET Objects, NEW pivot \in S,
           NEW i \in 1 .. Cardinality(S) - 1
    PROVE  Sorted(S, pivot, i) \in S \ {pivot}
<1> DEFINE O == S \ {pivot}
           n == Cardinality(O)
           lower(x) == {y \in O : Before(pivot, y, x)}
           rank == [x \in O |-> Cardinality(lower(x))]
<1>1. /\ O \in SUBSET Objects /\ IsFiniteSet(O)
      /\ n = Cardinality(S) - 1 /\ n \in Nat
  BY SomeObjects, FS_RemoveElement
<1>2. ASSUME NEW x \in O
      PROVE  /\ lower(x) \in SUBSET (O \ {x}) /\ IsFiniteSet(lower(x))
             /\ Cardinality(lower(x)) \in 0 .. n - 1
  <2>1. lower(x) \in SUBSET (O \ {x})
    BY <1>1, <1>2, BeforeIsTotal
  <2>2. IsFiniteSet(O \ {x}) /\ Cardinality(O \ {x}) = n - 1
    BY <1>1, <1>2, FS_RemoveElement
  <2> HIDE DEF lower, O
  <2>3. IsFiniteSet(lower(x)) /\ Cardinality(lower(x)) <= n - 1
    BY <2>1, <2>2, FS_Subset
  <2>4. Cardinality(lower(x)) \in Nat
    BY <2>3, FS_CardinalityType
  <2> QED
    BY <1>1, <2>1, <2>3, <2>4
<1>3. ASSUME NEW x \in O, NEW y \in O, Before(pivot, x, y)
      PROVE  Cardinality(lower(x)) < Cardinality(lower(y))
  <2>1. x \notin lower(x) /\ lower(x) \cup {x} \in SUBSET lower(y)
    BY <1>1, <1>3, BeforeIsTotal
  <2>2. /\ IsFiniteSet(lower(x)) /\ Cardinality(lower(x)) \in Nat
        /\ IsFiniteSet(lower(y)) /\ Cardinality(lower(y)) \in Nat
    BY <1>1, <1>2
  <2> HIDE DEF lower
  <2>3. Cardinality(lower(x) \cup {x}) = Cardinality(lower(x)) + 1
    BY <2>1, <2>2, FS_AddElement
  <2>4. Cardinality(lower(x) \cup {x}) <= Cardinality(lower(y))
    BY <2>1, <2>2, FS_Subset
  <2> QED
    BY <2>2, <2>3, <2>4
<1>4. rank \in Injection(O, 0 .. n - 1)
  <2>1. rank \in [O -> 0 .. n - 1]
    BY <1>2
  <2>2. ASSUME NEW x \in O, NEW y \in O, rank[x] = rank[y] PROVE x = y
    <3>1. Cardinality(lower(x)) = Cardinality(lower(y)) /\ Cardinality(lower(x)) \in 0 .. n - 1
      BY <1>2, <2>2
    <3> HIDE DEF lower
    <3>2. ~ (Cardinality(lower(x)) < Cardinality(lower(y))) /\ ~ (Cardinality(lower(y)) < Cardinality(lower(x)))
      BY <1>1, <3>1
    <3>3. ~ Before(pivot, x, y) /\ ~ Before(pivot, y, x)
      BY <1>3, <3>2
    <3> QED
      BY <1>1, <3>3, BeforeIsTotal
  <2> HIDE DEF rank, O
  <2> QED
    BY <2>1, <2>2 DEF Injection, IsInjective
<1>5. IsFiniteSet(0 .. n - 1) /\ Cardinality(0 .. n - 1) = n
  <2> HIDE DEF n
  <2>1. 0 \in Int /\ n - 1 \in Int /\ (0 > n - 1 <=> n = 0) /\ n - 1 - 0 + 1 = n
    BY <1>1
  <2> QED
    BY <2>1, FS_Interval
<1>6. rank \in Surjection(O, 0 .. n - 1)
  <2> HIDE DEF rank, O
  <2> QED
    BY <1>4, <1>5, FS_Injection
<1>7. i - 1 \in 0 .. n - 1
  BY <1>1
<1>8. \E x \in O : rank[x] = i - 1
  <2> HIDE DEF rank, O
  <2> QED
    BY <1>6, <1>7 DEF Surjection
<1>9. \E x \in O : Cardinality(lower(x)) = i - 1
  BY <1>8
<1>10. Sorted(S, pivot, i) = CHOOSE x \in O : Cardinality(lower(x)) = i - 1
  BY DEF Sorted
<1> HIDE DEF lower, O
<1>11. Sorted(S, pivot, i) \in O
  BY <1>9, <1>10
<1> QED
  BY <1>11 DEF O

\* A median is at most the distance of two points.
WithinReach(m) == m \in Nat /\ \E u, v \in Points : m <= Distance[u][v]

LEMMA MedianIsWithinReach ==
    ASSUME data \in [Objects -> Points], NEW S \in SUBSET Objects, NEW pivot \in S,
           Cardinality(S) >= 2
    PROVE  WithinReach(Median(S, pivot).first)
<1> DEFINE n == Cardinality(S) - 1
           i == n \div 2
           far == Between(pivot, Sorted(S, pivot, i + 1))
           near == Between(pivot, Sorted(S, pivot, i))
           m == Median(S, pivot).first
<1>1. Cardinality(S) \in Nat
  BY SomeObjects
<1>2. i + 1 \in 1 .. n
  BY <1>1
<1>3. n % 2 # 1 => i \in 1 .. n
  BY <1>1
<1>4. m = IF n % 2 = 1 THEN far ELSE (near + far) \div 2
  BY DEF Median
<1>5. ASSUME NEW j \in 1 .. n
      PROVE  LET d == Between(pivot, Sorted(S, pivot, j))
             IN  d \in Nat /\ \E u, v \in Points : d = Distance[u][v]
  <2> DEFINE x == Sorted(S, pivot, j)
  <2>1. x \in S
    BY <1>5, SortedIsThere
  <2> HIDE DEF x
  <2>2. Between(pivot, x) \in Nat /\ \E u, v \in Points : Between(pivot, x) = Distance[u][v]
    BY <2>1, BetweenIsNatural
  <2> QED
    BY <2>2 DEF x
<1>6. far \in Nat /\ \E u, v \in Points : far = Distance[u][v]
  BY <1>2, <1>5
<1>7. n % 2 # 1 => near \in Nat /\ \E u, v \in Points : near = Distance[u][v]
  BY <1>3, <1>5
<1> HIDE DEF n, far, near, m
<1>8. CASE n % 2 = 1
  BY <1>4, <1>6, <1>8 DEF WithinReach, m
<1>9. CASE n % 2 # 1
  <2>1. m \in Nat /\ (m <= far \/ m <= near)
    BY <1>4, <1>6, <1>7, <1>9
  <2> QED
    BY <1>6, <1>7, <1>9, <2>1 DEF WithinReach, m
<1> QED
  BY <1>8, <1>9

-----------------------------------------------------------------------------
(* Stacks: the first element is replaced by others.                        *)

Replaces(r, c, s) ==
    /\ \A i \in 1 .. Len(r) :
        \/ i \in 1 .. Len(c) /\ r[i] = c[i]
        \/ i > Len(c) /\ i - Len(c) + 1 \in 2 .. Len(s) /\ r[i] = s[i - Len(c) + 1]
    /\ \A i \in 1 .. Len(c) : \E k \in 1 .. Len(r) : r[k] = c[i]
    /\ \A j \in 2 .. Len(s) : \E k \in 1 .. Len(r) : r[k] = s[j]

LEMMA Replaced ==
    ASSUME NEW S, NEW c \in Seq(S), NEW s \in Seq(S), s # <<>>,
           NEW r, r = c \o Tail(s)
    PROVE  r \in Seq(S) /\ Replaces(r, c, s)
<1> DEFINE t == Tail(s)
<1>1. Len(c) \in Nat /\ Len(s) \in Nat /\ Len(s) # 0
  BY LenProperties, EmptySeq
<1>2. t \in Seq(S) /\ Len(t) = Len(s) - 1 /\ \A i \in 1 .. Len(t) : t[i] = s[i + 1]
  BY HeadTailProperties
<1> HIDE DEF t
<1>3. /\ c \o t \in Seq(S)
      /\ Len(c \o t) = Len(c) + Len(t)
      /\ \A i \in 1 .. Len(c) + Len(t) : (c \o t)[i] = IF i <= Len(c) THEN c[i] ELSE t[i - Len(c)]
  BY <1>2, ConcatProperties
<1>4. r = c \o t
  BY DEF t
<1>5. /\ r \in Seq(S) /\ Len(r) = Len(c) + Len(s) - 1
      /\ \A i \in 1 .. Len(r) : r[i] = IF i <= Len(c) THEN c[i] ELSE t[i - Len(c)]
  BY <1>1, <1>2, <1>3, <1>4
<1>6. ASSUME NEW i \in 1 .. Len(r)
      PROVE  \/ i \in 1 .. Len(c) /\ r[i] = c[i]
             \/ i > Len(c) /\ i - Len(c) + 1 \in 2 .. Len(s) /\ r[i] = s[i - Len(c) + 1]
  <2>1. CASE i <= Len(c)
    BY <1>1, <1>5, <2>1
  <2>2. CASE i > Len(c)
    <3>1. i - Len(c) \in 1 .. Len(t) /\ r[i] = t[i - Len(c)]
      BY <1>1, <1>2, <1>5, <2>2
    <3> QED
      BY <1>1, <1>2, <2>2, <3>1
  <2> QED
    BY <1>1, <2>1, <2>2
<1>7. ASSUME NEW i \in 1 .. Len(c)
      PROVE  i \in 1 .. Len(r) /\ r[i] = c[i]
  BY <1>1, <1>5
<1>8. ASSUME NEW j \in 2 .. Len(s)
      PROVE  Len(c) + j - 1 \in 1 .. Len(r) /\ r[Len(c) + j - 1] = s[j]
  <2> DEFINE k == Len(c) + j - 1
  <2>1. k \in 1 .. Len(r) /\ k > Len(c) /\ k - Len(c) \in 1 .. Len(t) /\ k - Len(c) + 1 = j
    BY <1>1, <1>2, <1>5
  <2> HIDE DEF k
  <2>2. r[k] = t[k - Len(c)]
    BY <1>1, <1>5, <2>1
  <2>3. t[k - Len(c)] = s[k - Len(c) + 1]
    BY <1>2, <2>1
  <2> QED
    BY <2>1, <2>2, <2>3 DEF k
<1> QED
  BY <1>5, <1>6, <1>7, <1>8 DEF Replaces

-----------------------------------------------------------------------------
(* Construction.                                                           *)

NodeType == [pivot : Objects \cup {Null}, median : Nat, bucket : SUBSET Objects]
Entry == [at : Paths, objects : SUBSET Objects]

TreeTyped ==
    /\ data \in [Objects -> Points] /\ bucketSize \in BucketSizes
    /\ DOMAIN tree \subseteq Paths /\ tree \in [DOMAIN tree -> NodeType]
    /\ \A p \in DOMAIN tree :
        /\ WithinReach(tree[p].median)
        /\ tree[p].bucket = {} => tree[p].pivot \in Objects
    /\ pending \in Seq(Entry)

\* Nodes hang below nodes without a bucket, and so will those to come.
Hanging ==
    /\ \A p \in Paths, q \in DOMAIN tree : Below(p, q) => p \in DOMAIN tree
    /\ \A p \in DOMAIN tree, side \in Sides :
        Append(p, side) \in DOMAIN tree => tree[p].bucket = {}
    /\ \A i \in 1 .. Len(pending) :
        LET a == pending[i].at
        IN  /\ a \notin DOMAIN tree
            /\ \/ a = <<>> /\ DOMAIN tree = {}
               \/ \E p \in DOMAIN tree, side \in Sides :
                   tree[p].bucket = {} /\ a = Append(p, side)
    /\ \E k \in Nat : \A p \in DOMAIN tree : Len(p) < k

\* Nothing is in two places.
Once ==
    /\ \A p, q \in DOMAIN tree : p # q => Held(p) \cap Held(q) = {}
    /\ \A p \in DOMAIN tree, i \in 1 .. Len(pending) : Held(p) \cap pending[i].objects = {}
    /\ \A i, j \in 1 .. Len(pending) :
        i # j => /\ pending[i].at # pending[j].at
                 /\ pending[i].objects \cap pending[j].objects = {}
    /\ \A i \in 1 .. Len(pending) : pending[i].objects # {}

\* Everything is somewhere.
Complete ==
    DOMAIN tree # {} \/ pending # <<>> =>
        \A x \in Objects :
            \/ \E p \in DOMAIN tree : x \in Held(p)
            \/ \E i \in 1 .. Len(pending) : x \in pending[i].objects

\* The object may be on this side of the split.
Fits(p, side, x) ==
    IF side = "left" THEN Between(tree[p].pivot, x) <= tree[p].median
    ELSE Between(tree[p].pivot, x) >= tree[p].median

Split ==
    \A p \in DOMAIN tree, side \in Sides : tree[p].bucket = {} =>
        /\ \A q \in DOMAIN tree : Below(Append(p, side), q) =>
               \A x \in Held(q) : Fits(p, side, x)
        /\ \A i \in 1 .. Len(pending) : Below(Append(p, side), pending[i].at) =>
               \A x \in pending[i].objects : Fits(p, side, x)

BuildInv == TreeTyped /\ Hanging /\ Once /\ Complete /\ Split

\* What a node with this content holds.
Content(node) == IF node.bucket # {} THEN node.bucket ELSE {node.pivot}

\* The pending subtrees c share what S holds besides the node at a.
Shared(a, S, node, c) ==
    /\ \A x \in S : x \in Content(node) \/ \E i \in 1 .. Len(c) : x \in c[i].objects
    /\ \A i \in 1 .. Len(c) :
        /\ node.bucket = {}
        /\ c[i].objects # {} /\ c[i].objects \subseteq S
        /\ c[i].objects \cap Content(node) = {}
        /\ \E side \in Sides :
            /\ c[i].at = Append(a, side)
            /\ \A x \in c[i].objects :
                IF side = "left" THEN Between(node.pivot, x) <= node.median
                ELSE Between(node.pivot, x) >= node.median
    /\ \A i, j \in 1 .. Len(c) :
        i # j => c[i].at # c[j].at /\ c[i].objects \cap c[j].objects = {}

\* The first pending subtree becomes a node and up to two pending subtrees.
Grown(node, c) ==
    /\ node \in NodeType /\ WithinReach(node.median)
    /\ node.bucket = {} => node.pivot \in Objects
    /\ c \in Seq(Entry)
    /\ Content(node) \subseteq Head(pending).objects
    /\ Shared(Head(pending).at, Head(pending).objects, node, c)
    /\ tree' = With(Head(pending).at, node, tree)
    /\ pending' = c \o Tail(pending)
    /\ UNCHANGED <<data, bucketSize>>

\* What is known of the first pending subtree and of the step.
LEMMA GrownBasics ==
    ASSUME BuildInv, pending # <<>>, NEW node, NEW c, Grown(node, c),
           NEW a, a = Head(pending).at, NEW S, S = Head(pending).objects
    PROVE  /\ Len(pending) \in Nat \ {0} /\ 1 \in 1 .. Len(pending)
           /\ a = pending[1].at /\ S = pending[1].objects
           /\ a \in Paths /\ a \notin DOMAIN tree /\ S \in SUBSET Objects /\ S # {}
           /\ \A i \in 1 .. Len(pending) : pending[i] \in Entry
           /\ DOMAIN tree' = DOMAIN tree \cup {a}
           /\ tree'[a] = node
           /\ \A q \in DOMAIN tree : tree'[q] = tree[q]
           /\ Held(a)' = Content(node)
           /\ \A q \in DOMAIN tree : Held(q)' = Held(q)
           /\ pending' \in Seq(Entry) /\ Replaces(pending', c, pending)
<1>1. pending \in Seq(Entry) /\ c \in Seq(Entry) /\ pending' = c \o Tail(pending)
  BY DEF BuildInv, TreeTyped, Grown
<1>2. Len(pending) \in Nat \ {0} /\ 1 \in 1 .. Len(pending) /\ Head(pending) = pending[1]
  BY <1>1, EmptySeq
<1>3. \A i \in 1 .. Len(pending) : pending[i] \in Entry
  BY <1>1, ElementOfSeq
<1>4. a \in Paths /\ S \in SUBSET Objects
  BY <1>2, <1>3 DEF Entry
<1>5. a \notin DOMAIN tree /\ S # {}
  BY <1>2 DEF BuildInv, Hanging, Once
<1>6. tree' = With(a, node, tree)
  BY DEF Grown
<1>7. /\ DOMAIN tree' = DOMAIN tree \cup {a}
      /\ tree'[a] = node
      /\ \A q \in DOMAIN tree : tree'[q] = tree[q]
  BY <1>5, <1>6 DEF With
<1>8. Held(a)' = Content(node)
  BY <1>7 DEF Held, Content
<1>9. ASSUME NEW q \in DOMAIN tree PROVE Held(q)' = Held(q)
  BY <1>7, <1>9 DEF Held
<1>10. pending' \in Seq(Entry) /\ Replaces(pending', c, pending)
  BY <1>1, Replaced
<1> QED
  BY <1>1, <1>2, <1>3, <1>4, <1>5, <1>7, <1>8, <1>9, <1>10

LEMMA BelowRoot ==
    ASSUME NEW p \in Paths
    PROVE  Below(p, <<>>) => p = <<>>
<1>1. p \in Seq(Sides) /\ <<>> \in Paths
  BY BelowItself DEF Paths, Sides
<1>2. Len(p) \in Nat /\ Len(<<>>) = 0 /\ (p # <<>> => Len(p) # 0)
  BY <1>1, EmptySeq, LenProperties
<1> QED
  BY <1>1, <1>2, BelowIs

LEMMA BelowSelf ==
    ASSUME NEW p \in Paths, NEW side \in Sides
    PROVE  ~ Below(Append(p, side), p)
<1> DEFINE c == Append(p, side)
<1>1. c \in Paths /\ Len(c) = Len(p) + 1 /\ Len(p) \in Nat
  BY ChildPaths, LenProperties DEF Paths
<1> HIDE DEF c
<1>2. ~ Below(c, p)
  BY <1>1, BelowIs
<1> QED
  BY <1>2 DEF c

\* Nothing stands below a path that is not in the tree.
LEMMA NothingBelow ==
    ASSUME Hanging, DOMAIN tree \subseteq Paths, NEW a \in Paths, a \notin DOMAIN tree,
           NEW side \in Sides
    PROVE  /\ Append(a, side) \notin DOMAIN tree
           /\ \A q \in DOMAIN tree : ~ Below(Append(a, side), q)
<1>1. Append(a, side) \in Paths /\ Below(a, Append(a, side))
  BY ChildPaths
<1>2. Append(a, side) \notin DOMAIN tree
  BY <1>1 DEF Hanging
<1> QED
  BY <1>1, <1>2 DEF Hanging

\* Where the first pending subtree hangs.
LEMMA WherePending ==
    ASSUME BuildInv, NEW i \in 1 .. Len(pending)
    PROVE  /\ pending[i].at \in Paths /\ pending[i].at \notin DOMAIN tree
           /\ pending[i].objects \in SUBSET Objects /\ pending[i].objects # {}
           /\ \/ pending[i].at = <<>> /\ DOMAIN tree = {}
              \/ \E p \in DOMAIN tree, side \in Sides :
                     p \in Paths /\ tree[p].bucket = {} /\ pending[i].at = Append(p, side)
<1>1. pending[i] \in Entry
  BY ElementOfSeq DEF BuildInv, TreeTyped
<1>2. pending[i].at \in Paths /\ pending[i].objects \in SUBSET Objects
  BY <1>1 DEF Entry
<1>3. pending[i].objects # {}
  BY DEF BuildInv, Once
<1>4. /\ pending[i].at \notin DOMAIN tree
      /\ \/ pending[i].at = <<>> /\ DOMAIN tree = {}
         \/ \E p \in DOMAIN tree, side \in Sides :
                tree[p].bucket = {} /\ pending[i].at = Append(p, side)
  BY DEF BuildInv, Hanging
<1>5. DOMAIN tree \subseteq Paths
  BY DEF BuildInv, TreeTyped
<1> QED
  BY <1>2, <1>3, <1>4, <1>5

LEMMA GrownTyped ==
    ASSUME BuildInv, pending # <<>>, NEW node, NEW c, Grown(node, c)
    PROVE  TreeTyped'
<1> DEFINE a == Head(pending).at
<1>1. /\ a \in Paths
      /\ DOMAIN tree' = DOMAIN tree \cup {a}
      /\ tree'[a] = node
      /\ \A q \in DOMAIN tree : tree'[q] = tree[q]
      /\ pending' \in Seq(Entry)
  BY GrownBasics
<1>2. tree' = With(a, node, tree)
  BY DEF Grown
<1> HIDE DEF a
<1>3. tree' = [q \in DOMAIN tree' |-> tree'[q]]
  BY <1>2 DEF With
<1>4. TreeTyped /\ node \in NodeType /\ WithinReach(node.median)
      /\ (node.bucket = {} => node.pivot \in Objects) /\ data' = data /\ bucketSize' = bucketSize
  BY DEF BuildInv, Grown
<1>5. \A q \in DOMAIN tree' : tree'[q] \in NodeType
  BY <1>1, <1>4 DEF TreeTyped
<1>6. \A q \in DOMAIN tree' : /\ WithinReach(tree'[q].median)
                              /\ tree'[q].bucket = {} => tree'[q].pivot \in Objects
  BY <1>1, <1>4 DEF TreeTyped
<1>7. DOMAIN tree' \subseteq Paths
  BY <1>1, <1>4 DEF TreeTyped
<1> HIDE DEF NodeType
<1>8. tree' \in [DOMAIN tree' -> NodeType]
  BY <1>3, <1>5
<1> QED
  BY <1>1, <1>4, <1>6, <1>7, <1>8 DEF TreeTyped, WithinReach

LEMMA GrownHanging ==
    ASSUME BuildInv, pending # <<>>, NEW node, NEW c, Grown(node, c)
    PROVE  Hanging'
<1>1. PICK a, S : a = Head(pending).at /\ S = Head(pending).objects
  OBVIOUS
<1>2. /\ Len(pending) \in Nat \ {0} /\ 1 \in 1 .. Len(pending)
      /\ a = pending[1].at /\ a \in Paths /\ a \notin DOMAIN tree
      /\ DOMAIN tree' = DOMAIN tree \cup {a}
      /\ tree'[a] = node
      /\ \A q \in DOMAIN tree : tree'[q] = tree[q]
      /\ Replaces(pending', c, pending)
  BY <1>1, GrownBasics
<1>3. DOMAIN tree \subseteq Paths /\ Hanging
  BY DEF BuildInv, TreeTyped
<1>4. \/ a = <<>> /\ DOMAIN tree = {}
      \/ \E p \in DOMAIN tree, side \in Sides : tree[p].bucket = {} /\ a = Append(p, side)
  <2>1. 1 \in 1 .. Len(pending) /\ a = pending[1].at
    BY <1>2
  <2>2. \/ pending[1].at = <<>> /\ DOMAIN tree = {}
        \/ \E p \in DOMAIN tree, side \in Sides :
               tree[p].bucket = {} /\ pending[1].at = Append(p, side)
    BY <2>1, WherePending
  <2> QED
    BY <2>1, <2>2
<1>5. ASSUME NEW p \in Paths, NEW q \in DOMAIN tree', Below(p, q)
      PROVE  p \in DOMAIN tree'
  <2>1. CASE q \in DOMAIN tree
    BY <1>2, <1>3, <1>5, <2>1 DEF Hanging
  <2>2. CASE q = a /\ a = <<>>
    BY <1>2, <1>5, <2>2, BelowRoot
  <2>3. CASE q = a /\ \E r \in DOMAIN tree, side \in Sides : a = Append(r, side)
    <3>1. PICK r \in DOMAIN tree : \E side \in Sides : a = Append(r, side)
      BY <2>3
    <3>2. p = a \/ Below(p, r)
      BY <1>3, <1>5, <2>3, <3>1, AboveChild
    <3> QED
      BY <1>2, <1>3, <3>1, <3>2 DEF Hanging
  <2> QED
    BY <1>2, <1>4, <2>1, <2>2, <2>3
<1>6. ASSUME NEW p \in DOMAIN tree', NEW side \in Sides, Append(p, side) \in DOMAIN tree'
      PROVE  tree'[p].bucket = {}
  <2>1. CASE p = a
    <3>1. Append(p, side) \notin DOMAIN tree
      BY <1>2, <1>3, <2>1, NothingBelow
    <3>2. Append(p, side) # a
      BY <1>2, <2>1, ChildPaths
    <3> QED
      BY <1>2, <1>6, <3>1, <3>2
  <2>2. CASE p \in DOMAIN tree /\ Append(p, side) \in DOMAIN tree
    BY <1>2, <1>3, <2>2 DEF Hanging
  <2>3. CASE p \in DOMAIN tree /\ Append(p, side) = a
    <3>1. a # <<>>
      BY <1>3, <2>3, ChildPaths
    <3>2. PICK r \in DOMAIN tree, sd \in Sides : tree[r].bucket = {} /\ a = Append(r, sd)
      BY <1>4, <3>1
    <3>3. r = p
      BY <1>3, <2>3, <3>2, ChildrenDiffer
    <3> QED
      BY <1>2, <2>3, <3>2, <3>3
  <2> QED
    BY <1>2, <1>6, <2>1, <2>2, <2>3
<1>7. ASSUME NEW i \in 1 .. Len(pending')
      PROVE  LET b == pending'[i].at
             IN  /\ b \notin DOMAIN tree'
                 /\ \/ b = <<>> /\ DOMAIN tree' = {}
                    \/ \E p \in DOMAIN tree', side \in Sides :
                        tree'[p].bucket = {} /\ b = Append(p, side)
  <2>1. CASE i \in 1 .. Len(c) /\ pending'[i] = c[i]
    <3>1. node.bucket = {} /\ \E side \in Sides : c[i].at = Append(a, side)
      BY <1>1, <2>1 DEF Grown, Shared
    <3>2. PICK side \in Sides : c[i].at = Append(a, side)
      BY <3>1
    <3>3. Append(a, side) \notin DOMAIN tree /\ Append(a, side) # a
      BY <1>2, <1>3, NothingBelow, ChildPaths
    <3>4. a \in DOMAIN tree' /\ tree'[a].bucket = {}
      BY <1>2, <3>1
    <3>5. Append(a, side) \notin DOMAIN tree'
      BY <1>2, <3>3
    <3> QED
      BY <2>1, <3>2, <3>4, <3>5
  <2>2. ASSUME NEW j \in 2 .. Len(pending), pending'[i] = pending[j]
        PROVE  LET b == pending'[i].at
               IN  /\ b \notin DOMAIN tree'
                   /\ \/ b = <<>> /\ DOMAIN tree' = {}
                      \/ \E p \in DOMAIN tree', side \in Sides :
                          tree'[p].bucket = {} /\ b = Append(p, side)
    <3>1. j \in 1 .. Len(pending) /\ j # 1
      BY <1>2
    <3>2. pending[j].at # a
      BY <1>2, <3>1 DEF BuildInv, Once
    <3>3. /\ pending[j].at \notin DOMAIN tree
          /\ \/ pending[j].at = <<>> /\ DOMAIN tree = {}
             \/ \E p \in DOMAIN tree, side \in Sides :
                    tree[p].bucket = {} /\ pending[j].at = Append(p, side)
      BY <3>1, WherePending
    <3>4. \E p \in DOMAIN tree, side \in Sides :
              tree[p].bucket = {} /\ pending[j].at = Append(p, side)
      BY <1>4, <3>2, <3>3
    <3>5. PICK p \in DOMAIN tree, side \in Sides :
              tree[p].bucket = {} /\ pending[j].at = Append(p, side)
      BY <3>4
    <3> HIDE DEF Sides
    <3>6. p \in DOMAIN tree' /\ tree'[p].bucket = {}
      BY <1>2, <3>5
    <3>7. pending'[i].at = pending[j].at /\ pending[j].at \notin DOMAIN tree'
      BY <1>2, <2>2, <3>2, <3>3
    <3> QED
      BY <3>5, <3>6, <3>7
  <2> QED
    BY <1>2, <2>1, <2>2 DEF Replaces
<1>8. \E k \in Nat : \A p \in DOMAIN tree' : Len(p) < k
  <2>1. PICK k \in Nat : \A p \in DOMAIN tree : Len(p) < k
    BY <1>3 DEF Hanging
  <2>2. \A p \in DOMAIN tree' : Len(p) \in Nat
    BY <1>2, <1>3, LenProperties DEF Paths
  <2>3. k + Len(a) + 1 \in Nat /\ \A p \in DOMAIN tree' : Len(p) < k + Len(a) + 1
    <3>1. Len(a) \in Nat /\ a \in DOMAIN tree'
      BY <1>2, <2>2
    <3>2. \A p \in DOMAIN tree' : p = a \/ Len(p) < k
      BY <1>2, <2>1
    <3> QED
      BY <2>2, <3>1, <3>2
  <2> QED
    BY <2>3
<1> QED
  BY <1>5, <1>6, <1>7, <1>8 DEF Hanging

LEMMA GrownOnce ==
    ASSUME BuildInv, pending # <<>>, NEW node, NEW c, Grown(node, c)
    PROVE  Once'
<1>1. PICK a, S : a = Head(pending).at /\ S = Head(pending).objects
  OBVIOUS
<1>2. /\ Len(pending) \in Nat \ {0} /\ 1 \in 1 .. Len(pending)
      /\ a = pending[1].at /\ S = pending[1].objects /\ a \in Paths /\ a \notin DOMAIN tree
      /\ DOMAIN tree' = DOMAIN tree \cup {a}
      /\ Held(a)' = Content(node)
      /\ \A q \in DOMAIN tree : Held(q)' = Held(q)
      /\ Replaces(pending', c, pending)
  BY <1>1, GrownBasics
<1>3. Once /\ DOMAIN tree \subseteq Paths
  BY DEF BuildInv, TreeTyped
<1>4. /\ Content(node) \subseteq S
      /\ \A i \in 1 .. Len(c) :
            /\ c[i].objects # {} /\ c[i].objects \subseteq S
            /\ c[i].objects \cap Content(node) = {}
            /\ \E side \in Sides : c[i].at = Append(a, side)
      /\ \A i, j \in 1 .. Len(c) :
            i # j => c[i].at # c[j].at /\ c[i].objects \cap c[j].objects = {}
  BY <1>1 DEF Grown, Shared
<1>5. /\ \A q \in DOMAIN tree : Held(q) \cap S = {}
      /\ \A j \in 2 .. Len(pending) : pending[j].objects \cap S = {}
  BY <1>2, <1>3 DEF Once
<1>6. \A i \in 1 .. Len(pending') :
        \/ i \in 1 .. Len(c) /\ pending'[i] = c[i]
        \/ /\ i > Len(c) /\ i - Len(c) + 1 \in 2 .. Len(pending)
           /\ pending'[i] = pending[i - Len(c) + 1]
  BY <1>2 DEF Replaces
<1>7. ASSUME NEW p \in DOMAIN tree', NEW q \in DOMAIN tree', p # q
      PROVE  Held(p)' \cap Held(q)' = {}
  <2>1. CASE p = a
    BY <1>2, <1>4, <1>5, <1>7, <2>1
  <2>2. CASE q = a
    BY <1>2, <1>4, <1>5, <1>7, <2>2
  <2>3. CASE p # a /\ q # a
    BY <1>2, <1>3, <1>7, <2>3 DEF Once
  <2> QED
    BY <2>1, <2>2, <2>3
<1>8. ASSUME NEW p \in DOMAIN tree', NEW i \in 1 .. Len(pending')
      PROVE  Held(p)' \cap pending'[i].objects = {}
  <2>1. CASE i \in 1 .. Len(c) /\ pending'[i] = c[i]
    BY <1>2, <1>4, <1>5, <2>1
  <2>2. ASSUME NEW j \in 2 .. Len(pending), pending'[i] = pending[j]
        PROVE  Held(p)' \cap pending'[i].objects = {}
    <3>1. CASE p = a
      BY <1>2, <1>4, <1>5, <2>2, <3>1
    <3>2. CASE p \in DOMAIN tree
      BY <1>2, <1>3, <2>2, <3>2 DEF Once
    <3> QED
      BY <1>2, <3>1, <3>2
  <2> QED
    BY <1>6, <2>1, <2>2
<1>9. ASSUME NEW i \in 1 .. Len(c), NEW j \in 2 .. Len(pending)
      PROVE  c[i].at # pending[j].at /\ c[i].objects \cap pending[j].objects = {}
  <2>1. PICK side \in Sides : c[i].at = Append(a, side)
    BY <1>4
  <2>2. \/ pending[j].at = <<>>
        \/ \E p \in DOMAIN tree, sd \in Sides : pending[j].at = Append(p, sd)
    <3>1. j \in 1 .. Len(pending)
      BY <1>2
    <3> QED
      BY <3>1, WherePending
  <2>3. ASSUME pending[j].at = <<>> PROVE c[i].at # pending[j].at
    <3>1. Append(a, side) # <<>>
      BY <1>2, ChildPaths
    <3> QED
      BY <2>1, <2>3, <3>1
  <2>4. ASSUME NEW p \in DOMAIN tree, NEW sd \in Sides, pending[j].at = Append(p, sd)
        PROVE  c[i].at # pending[j].at
    <3>1. p \in Paths /\ p # a
      BY <1>2, <1>3
    <3>2. a \in Paths
      BY <1>2
    <3>3. Append(a, side) # Append(p, sd)
      BY <3>1, <3>2, ChildrenDiffer
    <3> QED
      BY <2>1, <2>4, <3>3
  <2>5. c[i].objects \cap pending[j].objects = {}
    BY <1>4, <1>5
  <2> QED
    BY <2>2, <2>3, <2>4, <2>5
<1>10. ASSUME NEW i \in 1 .. Len(pending'), NEW j \in 1 .. Len(pending'), i # j
       PROVE  /\ pending'[i].at # pending'[j].at
              /\ pending'[i].objects \cap pending'[j].objects = {}
  <2>1. Len(c) \in Nat
    BY LenProperties DEF Grown
  <2>2. CASE i \in 1 .. Len(c) /\ pending'[i] = c[i] /\ j \in 1 .. Len(c) /\ pending'[j] = c[j]
    BY <1>4, <1>10, <2>2
  <2>3. CASE /\ i \in 1 .. Len(c) /\ pending'[i] = c[i]
             /\ j - Len(c) + 1 \in 2 .. Len(pending) /\ pending'[j] = pending[j - Len(c) + 1]
    BY <1>9, <2>3
  <2>4. CASE /\ j \in 1 .. Len(c) /\ pending'[j] = c[j]
             /\ i - Len(c) + 1 \in 2 .. Len(pending) /\ pending'[i] = pending[i - Len(c) + 1]
    BY <1>9, <2>4
  <2>5. CASE /\ i - Len(c) + 1 \in 2 .. Len(pending) /\ pending'[i] = pending[i - Len(c) + 1]
             /\ j - Len(c) + 1 \in 2 .. Len(pending) /\ pending'[j] = pending[j - Len(c) + 1]
    <3>1. i - Len(c) + 1 # j - Len(c) + 1
      BY <1>10, <2>1
    <3>2. i - Len(c) + 1 \in 1 .. Len(pending) /\ j - Len(c) + 1 \in 1 .. Len(pending)
      <4>1. 2 .. Len(pending) \subseteq 1 .. Len(pending)
        BY <1>2
      <4> QED
        BY <2>5, <4>1
    <3> QED
      BY <1>3, <2>5, <3>1, <3>2 DEF Once
  <2> QED
    BY <1>6, <2>2, <2>3, <2>4, <2>5
<1>11. ASSUME NEW i \in 1 .. Len(pending') PROVE pending'[i].objects # {}
  <2>1. CASE i \in 1 .. Len(c) /\ pending'[i] = c[i]
    BY <1>4, <2>1
  <2>2. ASSUME NEW j \in 2 .. Len(pending), pending'[i] = pending[j]
        PROVE  pending'[i].objects # {}
    BY <1>2, <2>2, WherePending
  <2> QED
    BY <1>6, <2>1, <2>2
<1> QED
  BY <1>7, <1>8, <1>10, <1>11 DEF Once

LEMMA GrownComplete ==
    ASSUME BuildInv, pending # <<>>, NEW node, NEW c, Grown(node, c)
    PROVE  Complete'
<1>1. PICK a, S : a = Head(pending).at /\ S = Head(pending).objects
  OBVIOUS
<1>2. /\ Len(pending) \in Nat \ {0}
      /\ S = pending[1].objects
      /\ DOMAIN tree' = DOMAIN tree \cup {a}
      /\ Held(a)' = Content(node)
      /\ \A q \in DOMAIN tree : Held(q)' = Held(q)
      /\ Replaces(pending', c, pending)
  BY <1>1, GrownBasics
<1>3. \A x \in S : x \in Content(node) \/ \E i \in 1 .. Len(c) : x \in c[i].objects
  BY <1>1 DEF Grown, Shared
<1>4. /\ \A i \in 1 .. Len(c) : \E k \in 1 .. Len(pending') : pending'[k] = c[i]
      /\ \A j \in 2 .. Len(pending) : \E k \in 1 .. Len(pending') : pending'[k] = pending[j]
  BY <1>2 DEF Replaces
<1> SUFFICES ASSUME NEW x \in Objects
             PROVE  \/ \E p \in DOMAIN tree' : x \in Held(p)'
                    \/ \E i \in 1 .. Len(pending') : x \in pending'[i].objects
  BY DEF Complete
<1>5. \/ \E p \in DOMAIN tree : x \in Held(p)
      \/ \E i \in 1 .. Len(pending) : x \in pending[i].objects
  BY DEF BuildInv, Complete
<1>6. CASE \E p \in DOMAIN tree : x \in Held(p)
  BY <1>2, <1>6
<1>7. CASE x \in S
  <2>1. CASE x \in Content(node)
    BY <1>2, <2>1
  <2>2. CASE \E i \in 1 .. Len(c) : x \in c[i].objects
    BY <1>4, <2>2
  <2> QED
    BY <1>3, <1>7, <2>1, <2>2
<1>8. CASE \E i \in 2 .. Len(pending) : x \in pending[i].objects
  BY <1>4, <1>8
<1>9. \A i \in 1 .. Len(pending) : i = 1 \/ i \in 2 .. Len(pending)
  BY <1>2
<1> QED
  BY <1>2, <1>5, <1>6, <1>7, <1>8, <1>9

LEMMA GrownSplit ==
    ASSUME BuildInv, pending # <<>>, NEW node, NEW c, Grown(node, c)
    PROVE  Split'
<1>1. PICK a, S : a = Head(pending).at /\ S = Head(pending).objects
  OBVIOUS
<1>2. /\ Len(pending) \in Nat \ {0} /\ 1 \in 1 .. Len(pending)
      /\ a = pending[1].at /\ S = pending[1].objects /\ a \in Paths /\ a \notin DOMAIN tree
      /\ DOMAIN tree' = DOMAIN tree \cup {a}
      /\ tree'[a] = node
      /\ \A q \in DOMAIN tree : tree'[q] = tree[q]
      /\ Held(a)' = Content(node)
      /\ \A q \in DOMAIN tree : Held(q)' = Held(q)
      /\ Replaces(pending', c, pending)
  BY <1>1, GrownBasics
<1>3. Hanging /\ Split /\ DOMAIN tree \subseteq Paths
  BY DEF BuildInv, TreeTyped
<1>4. /\ Content(node) \subseteq S /\ data' = data
      /\ \A i \in 1 .. Len(c) :
            /\ c[i].objects \subseteq S
            /\ \E side \in Sides :
                /\ c[i].at = Append(a, side)
                /\ \A x \in c[i].objects :
                    IF side = "left" THEN Between(node.pivot, x) <= node.median
                    ELSE Between(node.pivot, x) >= node.median
  BY <1>1 DEF Grown, Shared
<1>5. \A i \in 1 .. Len(pending') :
        \/ i \in 1 .. Len(c) /\ pending'[i] = c[i]
        \/ \E j \in 2 .. Len(pending) : pending'[i] = pending[j]
  BY <1>2 DEF Replaces
<1>6. \A x : \A p \in DOMAIN tree, side \in Sides : Fits(p, side, x)' <=> Fits(p, side, x)
  BY <1>2, <1>4 DEF Fits, Between
<1>7. \A x : \A side \in Sides :
        Fits(a, side, x)' <=> IF side = "left" THEN Between(node.pivot, x) <= node.median
                              ELSE Between(node.pivot, x) >= node.median
  BY <1>2, <1>4 DEF Fits, Between
<1>8. 2 .. Len(pending) \subseteq 1 .. Len(pending)
  BY <1>2
<1>9. ASSUME NEW p \in DOMAIN tree', NEW side \in Sides, tree'[p].bucket = {},
             NEW q \in DOMAIN tree', Below(Append(p, side), q), NEW x \in Held(q)'
      PROVE  Fits(p, side, x)'
  <2>1. CASE p \in DOMAIN tree /\ q \in DOMAIN tree
    <3>1. tree[p].bucket = {} /\ x \in Held(q)
      BY <1>2, <1>9, <2>1
    <3> QED
      BY <1>3, <1>6, <1>9, <2>1, <3>1 DEF Split
  <2>2. CASE p \in DOMAIN tree /\ q = a
    <3>1. tree[p].bucket = {} /\ x \in pending[1].objects /\ Below(Append(p, side), pending[1].at)
      BY <1>2, <1>4, <1>9, <2>2
    <3> QED
      BY <1>2, <1>3, <1>6, <2>2, <3>1 DEF Split
  <2>3. CASE p = a
    <3>1. q \in DOMAIN tree => FALSE
      BY <1>2, <1>3, <1>9, <2>3, NothingBelow
    <3>2. q = a => FALSE
      BY <1>2, <1>9, <2>3, BelowSelf
    <3> QED
      BY <1>2, <3>1, <3>2
  <2> QED
    BY <1>2, <2>1, <2>2, <2>3
<1>10. ASSUME NEW p \in DOMAIN tree', NEW side \in Sides, tree'[p].bucket = {},
              NEW i \in 1 .. Len(c), Below(Append(p, side), c[i].at), NEW x \in c[i].objects
       PROVE  Fits(p, side, x)'
  <2>1. PICK sd \in Sides :
            /\ c[i].at = Append(a, sd)
            /\ IF sd = "left" THEN Between(node.pivot, x) <= node.median
               ELSE Between(node.pivot, x) >= node.median
    BY <1>4
  <2>2. CASE p = a
    <3>1. Append(a, sd) \in Paths /\ Below(Append(a, sd), Append(a, sd))
      BY <1>2, ChildPaths, BelowItself
    <3>2. side = sd
      BY <1>2, <1>10, <2>1, <2>2, <3>1, ChildrenAreApart
    <3> QED
      BY <1>7, <2>1, <2>2, <3>2
  <2>3. CASE p \in DOMAIN tree
    <3>1. p \in Paths /\ p # a /\ Append(p, side) \in Paths
      BY <1>2, <1>3, <2>3, ChildPaths
    <3>2. Append(p, side) = Append(a, sd) \/ Below(Append(p, side), a)
      BY <1>2, <1>10, <2>1, <3>1, AboveChild
    <3>3. Append(p, side) # Append(a, sd)
      <4>1. a \in Paths
        BY <1>2
      <4> QED
        BY <3>1, <4>1, ChildrenDiffer
    <3>4. tree[p].bucket = {} /\ x \in pending[1].objects /\ Below(Append(p, side), pending[1].at)
      BY <1>2, <1>4, <1>10, <2>3, <3>2, <3>3
    <3> QED
      BY <1>2, <1>3, <1>6, <2>3, <3>4 DEF Split
  <2> QED
    BY <1>2, <2>2, <2>3
<1>11. ASSUME NEW p \in DOMAIN tree', NEW side \in Sides, tree'[p].bucket = {},
              NEW j \in 2 .. Len(pending), Below(Append(p, side), pending[j].at),
              NEW x \in pending[j].objects
       PROVE  Fits(p, side, x)'
  <2>1. j \in 1 .. Len(pending)
    BY <1>8
  <2>2. CASE p \in DOMAIN tree
    <3>1. tree[p].bucket = {}
      BY <1>2, <1>11, <2>2
    <3> QED
      BY <1>3, <1>6, <1>11, <2>1, <2>2, <3>1 DEF Split
  <2>3. CASE p = a
    <3>1. \/ pending[j].at = <<>>
          \/ \E r \in DOMAIN tree, sd \in Sides : pending[j].at = Append(r, sd)
      BY <2>1, WherePending
    <3>2. Append(a, side) \in Paths /\ Append(a, side) # <<>>
      BY <1>2, ChildPaths
    <3>3. pending[j].at # <<>>
      BY <1>11, <2>3, <3>2, BelowRoot
    <3>4. PICK r \in DOMAIN tree, sd \in Sides : pending[j].at = Append(r, sd)
      BY <3>1, <3>3
    <3>5. r \in Paths /\ r # a
      BY <1>2, <1>3
    <3>6. Append(a, side) # Append(r, sd)
      BY <1>2, <3>5, ChildrenDiffer
    <3>7. Below(Append(a, side), r)
      BY <1>11, <2>3, <3>2, <3>4, <3>5, <3>6, AboveChild
    <3> QED
      BY <1>2, <1>3, <3>7, NothingBelow
  <2> QED
    BY <1>2, <2>2, <2>3
<1>12. ASSUME NEW p \in DOMAIN tree', NEW side \in Sides, tree'[p].bucket = {},
              NEW i \in 1 .. Len(pending'), Below(Append(p, side), pending'[i].at),
              NEW x \in pending'[i].objects
       PROVE  Fits(p, side, x)'
  BY <1>5, <1>10, <1>11, <1>12
<1> QED
  BY <1>9, <1>12 DEF Split

LEMMA GrownInv ==
    ASSUME BuildInv, pending # <<>>, NEW node, NEW c, Grown(node, c)
    PROVE  BuildInv'
BY GrownTyped, GrownHanging, GrownOnce, GrownComplete, GrownSplit DEF BuildInv

\* Two children at most, one for each side that is not empty.
OneEach(c, l, L, r, R) ==
    /\ \A i \in 1 .. Len(c) : (c[i] = l /\ L # {}) \/ (c[i] = r /\ R # {})
    /\ \A i, j \in 1 .. Len(c) :
        i # j => (c[i] = l /\ c[j] = r) \/ (c[i] = r /\ c[j] = l)
    /\ L # {} => \E i \in 1 .. Len(c) : c[i] = l
    /\ R # {} => \E i \in 1 .. Len(c) : c[i] = r

LEMMA ChildrenAre ==
    ASSUME NEW a \in Paths, NEW L \in SUBSET Objects, NEW R \in SUBSET Objects,
           NEW c, c = Children(a, L, R),
           NEW l, l = [at |-> Left(a), objects |-> L],
           NEW r, r = [at |-> Right(a), objects |-> R]
    PROVE  c \in Seq(Entry) /\ OneEach(c, l, L, r, R)
<1>1. l \in Entry /\ r \in Entry
  BY ChildPaths DEF Entry, Left, Right, Sides
<1>2. c = (IF L = {} THEN <<>> ELSE <<l>>) \o (IF R = {} THEN <<>> ELSE <<r>>)
  BY DEF Children
<1> HIDE DEF Entry
<1>3. CASE L = {} /\ R = {}
  <2>1. c = <<>> \o <<>>
    BY <1>2, <1>3
  <2>2. c \in Seq(Entry) /\ Len(c) = 0
    BY <2>1
  <2>3. \A i \in 1 .. Len(c) : FALSE
    BY <2>2
  <2> QED
    BY <1>3, <2>2, <2>3 DEF OneEach
<1>4. CASE L # {} /\ R = {}
  <2>1. c = <<l>> \o <<>>
    BY <1>2, <1>4
  <2>2. c \in Seq(Entry) /\ Len(c) = 1 /\ c[1] = l
    BY <1>1, <2>1
  <2>3. 1 \in 1 .. Len(c) /\ \A i \in 1 .. Len(c) : i = 1
    BY <2>2
  <2> QED
    BY <1>4, <2>2, <2>3 DEF OneEach
<1>5. CASE L = {} /\ R # {}
  <2>1. c = <<>> \o <<r>>
    BY <1>2, <1>5
  <2>2. c \in Seq(Entry) /\ Len(c) = 1 /\ c[1] = r
    BY <1>1, <2>1
  <2>3. 1 \in 1 .. Len(c) /\ \A i \in 1 .. Len(c) : i = 1
    BY <2>2
  <2> QED
    BY <1>5, <2>2, <2>3 DEF OneEach
<1>6. CASE L # {} /\ R # {}
  <2>1. c = <<l>> \o <<r>>
    BY <1>2, <1>6
  <2>2. c \in Seq(Entry) /\ Len(c) = 2 /\ c[1] = l /\ c[2] = r
    BY <1>1, <2>1
  <2>3. 1 \in 1 .. Len(c) /\ 2 \in 1 .. Len(c) /\ \A i \in 1 .. Len(c) : i = 1 \/ i = 2
    BY <2>2
  <2> QED
    BY <1>6, <2>2, <2>3 DEF OneEach
<1> QED
  BY <1>3, <1>4, <1>5, <1>6

LEMMA FirstPending ==
    ASSUME BuildInv, pending # <<>>
    PROVE  /\ Head(pending).at \in Paths
           /\ Head(pending).objects \in SUBSET Objects /\ Head(pending).objects # {}
           /\ <<>> \o Tail(pending) = Tail(pending) /\ <<>> \in Seq(Entry) /\ Len(<<>>) = 0
           /\ WithinReach(0)
<1>1. pending \in Seq(Entry) /\ data \in [Objects -> Points]
  BY DEF BuildInv, TreeTyped
<1>2. Head(pending) = pending[1] /\ 1 \in 1 .. Len(pending)
  BY <1>1, EmptySeq
<1>3. <<>> \o Tail(pending) = Tail(pending) /\ <<>> \in Seq(Entry) /\ Len(<<>>) = 0
  <2>1. Tail(pending) \in Seq(Entry)
    BY <1>1, HeadTailProperties
  <2> QED
    BY <2>1, ConcatEmptySeq, EmptySeq
<1>4. WithinReach(0)
  <2>1. PICK x \in Objects : TRUE
    BY VPTreeAssumption
  <2>2. Between(x, x) \in Nat /\ \E u, v \in Points : Between(x, x) = Distance[u][v]
    BY <1>1, BetweenIsNatural
  <2> QED
    BY <2>2 DEF WithinReach
<1> QED
  BY <1>2, <1>3, <1>4, WherePending

LEMMA MakeBucketGrows ==
    ASSUME BuildInv, MakeBucket
    PROVE  BuildInv'
<1> DEFINE node == Node(Null, 0, Head(pending).objects)
<1>1. node \in NodeType /\ node.median = 0 /\ node.bucket = Head(pending).objects
  BY FirstPending DEF Node, NodeType, MakeBucket
<1>2. Content(node) = Head(pending).objects
  BY <1>1, FirstPending DEF Content, MakeBucket
<1>3. /\ pending # <<>> /\ pending' = <<>> \o Tail(pending)
      /\ tree' = With(Head(pending).at, node, tree)
      /\ UNCHANGED <<data, bucketSize>>
  BY FirstPending DEF MakeBucket
<1> HIDE DEF node
<1>4. Grown(node, <<>>)
  BY <1>1, <1>2, <1>3, FirstPending DEF Grown, Shared
<1> QED
  BY <1>3, <1>4, GrownInv

LEMMA MakeSingleGrows ==
    ASSUME BuildInv, MakeSingle
    PROVE  BuildInv'
<1>1. PICK x \in Objects :
        /\ Head(pending).objects = {x}
        /\ tree' = With(Head(pending).at, Node(x, 0, {}), tree)
  BY DEF MakeSingle
<1> DEFINE node == Node(x, 0, {})
<1>2. node \in NodeType /\ node.median = 0 /\ node.bucket = {} /\ node.pivot = x
  BY DEF Node, NodeType
<1>3. Content(node) = {x}
  BY <1>2 DEF Content
<1>4. /\ pending # <<>> /\ pending' = <<>> \o Tail(pending)
      /\ UNCHANGED <<data, bucketSize>>
  BY FirstPending DEF MakeSingle
<1> HIDE DEF node
<1>5. Grown(node, <<>>)
  BY <1>1, <1>2, <1>3, <1>4, FirstPending DEF Grown, Shared, node
<1> QED
  BY <1>4, <1>5, GrownInv

\* The pivot and the two parts: not before the median pair is not nearer than
\* the median.
Parted(S, pivot, median, L, R) ==
    /\ L \subseteq S /\ R \subseteq S /\ L \cap R = {}
    /\ pivot \notin L /\ pivot \notin R /\ S = {pivot} \cup L \cup R
    /\ \A x \in L : Between(pivot, x) <= median
    /\ \A x \in R : Between(pivot, x) >= median

LEMMA Parts ==
    ASSUME data \in [Objects -> Points], NEW S \in SUBSET Objects, NEW pivot \in S,
           NEW m, m.first \in Nat
    PROVE  LET L == LeftPart(S, pivot, m)
           IN  Parted(S, pivot, m.first, L, S \ (L \cup {pivot}))
<1>1. \A x \in S : Between(pivot, x) \in Nat
  BY BetweenIsNatural
<1> QED
  BY <1>1 DEF LeftPart, Parted

LEMMA PartsAreChildren ==
    ASSUME NEW a \in Paths, NEW S \in SUBSET Objects, NEW node,
           node.pivot \in S, node.bucket = {}, Content(node) = {node.pivot},
           NEW L, NEW R, Parted(S, node.pivot, node.median, L, R), NEW c,
           NEW l, NEW r, l.at = Append(a, "left"), l.objects = L,
           r.at = Append(a, "right"), r.objects = R, OneEach(c, l, L, r, R)
    PROVE  Shared(a, S, node, c)
<1>1. "left" \in Sides /\ "right" \in Sides /\ "left" # "right"
  BY DEF Sides
<1>2. l.at # r.at
  BY <1>1, ChildrenDiffer
<1>3. ASSUME NEW x \in S
      PROVE  x \in Content(node) \/ \E i \in 1 .. Len(c) : x \in c[i].objects
  <2>1. CASE x \in L
    BY <2>1 DEF OneEach
  <2>2. CASE x \in R
    BY <2>2 DEF OneEach
  <2> QED
    BY <2>1, <2>2 DEF Parted
<1>4. ASSUME NEW i \in 1 .. Len(c)
      PROVE  /\ c[i].objects # {} /\ c[i].objects \subseteq S
             /\ c[i].objects \cap Content(node) = {}
             /\ \E side \in Sides :
                 /\ c[i].at = Append(a, side)
                 /\ \A x \in c[i].objects :
                     IF side = "left" THEN Between(node.pivot, x) <= node.median
                     ELSE Between(node.pivot, x) >= node.median
  <2>1. (c[i] = l /\ L # {}) \/ (c[i] = r /\ R # {})
    BY DEF OneEach
  <2>2. CASE c[i] = l /\ L # {}
    BY <1>1, <2>2 DEF Parted
  <2>3. CASE c[i] = r /\ R # {}
    BY <1>1, <2>3 DEF Parted
  <2> QED
    BY <2>1, <2>2, <2>3
<1>5. ASSUME NEW i \in 1 .. Len(c), NEW j \in 1 .. Len(c), i # j
      PROVE  c[i].at # c[j].at /\ c[i].objects \cap c[j].objects = {}
  <2>1. (c[i] = l /\ c[j] = r) \/ (c[i] = r /\ c[j] = l)
    BY <1>5 DEF OneEach
  <2> QED
    BY <1>2, <2>1 DEF Parted
<1> QED
  BY <1>3, <1>4, <1>5 DEF Shared

LEMMA SplitGrows ==
    ASSUME BuildInv, pending # <<>>, NEW a, a = Head(pending).at,
           NEW S, S = Head(pending).objects, NEW pivot \in S,
           NEW median, WithinReach(median),
           NEW L, NEW R, Parted(S, pivot, median, L, R),
           NEW c, c = Children(a, L, R),
           NEW node, node = Node(pivot, median, {}),
           tree' = With(a, node, tree), pending' = c \o Tail(pending),
           UNCHANGED <<data, bucketSize>>
    PROVE  Grown(node, c)
<1>1. a \in Paths /\ S \in SUBSET Objects /\ median \in Nat
  BY FirstPending DEF WithinReach
<1>2. /\ node \in NodeType /\ node.median = median /\ node.bucket = {}
      /\ node.pivot = pivot /\ pivot \in Objects
  BY <1>1 DEF Node, NodeType
<1>3. Content(node) = {node.pivot} /\ Content(node) \subseteq S
  BY <1>2 DEF Content
<1>4. PICK l, r : l = [at |-> Left(a), objects |-> L] /\ r = [at |-> Right(a), objects |-> R]
  OBVIOUS
<1>5. /\ l.at = Append(a, "left") /\ l.objects = L
      /\ r.at = Append(a, "right") /\ r.objects = R
  BY <1>4 DEF Left, Right
<1>6. L \in SUBSET Objects /\ R \in SUBSET Objects
  BY <1>1 DEF Parted
<1>7. c \in Seq(Entry) /\ OneEach(c, l, L, r, R)
  BY <1>1, <1>4, <1>6, ChildrenAre
<1>8. Shared(a, S, node, c)
  <2>1. Parted(S, node.pivot, node.median, L, R) /\ node.pivot \in S
    BY <1>2
  <2> QED
    BY <1>1, <1>2, <1>3, <1>5, <1>7, <2>1, PartsAreChildren
<1>9. WithinReach(node.median)
  BY <1>2
<1> QED
  BY <1>2, <1>3, <1>7, <1>8, <1>9 DEF Grown

LEMMA MakeSplitGrows ==
    ASSUME BuildInv, MakeSplit
    PROVE  BuildInv'
<1>1. PICK a, S : a = Head(pending).at /\ S = Head(pending).objects
  OBVIOUS
<1>2. PICK pivot \in S : Build(pivot)
  BY <1>1 DEF MakeSplit
<1>3. /\ pending # <<>> /\ UNCHANGED <<data, bucketSize>>
      /\ Cardinality(S) >= 2
      /\ S \in SUBSET Objects /\ data \in [Objects -> Points]
  BY <1>1, FirstPending DEF MakeSplit, BuildInv, TreeTyped
<1>4. PICK m : m = Median(S, pivot)
  OBVIOUS
<1>5. WithinReach(m.first) /\ m.first \in Nat
  <2>1. WithinReach(m.first)
    BY <1>3, <1>4, MedianIsWithinReach
  <2> QED
    BY <2>1 DEF WithinReach
<1>6. PICK L, R : L = LeftPart(S, pivot, m) /\ R = S \ (L \cup {pivot})
  OBVIOUS
<1>10. Parted(S, pivot, m.first, L, R)
  BY <1>3, <1>5, <1>6, Parts
<1>7. \/ /\ tree' = With(a, Node(pivot, m.first, S), tree)
         /\ pending' = <<>> \o Tail(pending)
      \/ /\ tree' = With(a, Node(pivot, m.first, {}), tree)
         /\ pending' = Children(a, L, R) \o Tail(pending)
  BY <1>1, <1>2, <1>4, <1>6 DEF Build
<1>8. CASE /\ tree' = With(a, Node(pivot, m.first, S), tree)
           /\ pending' = <<>> \o Tail(pending)
  <2>1. PICK node : node = Node(pivot, m.first, S)
    OBVIOUS
  <2>2. node \in NodeType /\ node.median = m.first /\ node.bucket = S
    BY <1>3, <1>5, <2>1 DEF Node, NodeType
  <2>3. Content(node) = S /\ S # {}
    BY <2>2 DEF Content
  <2>4. Grown(node, <<>>)
    BY <1>1, <1>3, <1>5, <1>8, <2>1, <2>2, <2>3, FirstPending DEF Grown, Shared
  <2> QED
    BY <1>3, <2>4, GrownInv
<1>9. CASE /\ tree' = With(a, Node(pivot, m.first, {}), tree)
           /\ pending' = Children(a, L, R) \o Tail(pending)
  <2>1. Grown(Node(pivot, m.first, {}), Children(a, L, R))
    BY <1>1, <1>3, <1>5, <1>9, <1>10, SplitGrows
  <2> QED
    BY <1>3, <2>1, GrownInv
<1> QED
  BY <1>7, <1>8, <1>9

-----------------------------------------------------------------------------
(* Files.                                                                  *)

\* The right-hand side of SaveNodeData.
SaveBody(f, p) ==
    IF p \in DOMAIN tree THEN <<tree[p]>> \o f[Left(p)] \o f[Right(p)] ELSE <<NullNode>>

\* The tree is not deeper than some number, so that the recursion ends.
LEMMA SaveEnds ==
    ASSUME TreeTyped, Hanging
    PROVE  \E f : f = [p \in Paths |-> SaveBody(f, p)]
<1> DEFINE Works(f, k) == \A p \in Paths : Len(p) >= k => f[p] = SaveBody(f, p)
           T == {k \in Nat : \E f : Works(f, k)}
<1>1. PICK n \in Nat : \A p \in DOMAIN tree : Len(p) < n
  BY DEF Hanging
<1>2. \A p \in Paths : /\ Len(p) \in Nat
                       /\ Left(p) \in Paths /\ Len(Left(p)) = Len(p) + 1
                       /\ Right(p) \in Paths /\ Len(Right(p)) = Len(p) + 1
  BY ChildPaths, LenProperties DEF Left, Right, Sides, Paths
<1>3. n \in T
  <2> DEFINE f == [p \in Paths |-> <<NullNode>>]
  <2>1. ASSUME NEW p \in Paths, Len(p) >= n PROVE f[p] = SaveBody(f, p)
    <3>1. p \notin DOMAIN tree
      BY <1>1, <1>2, <2>1
    <3> QED
      BY <3>1 DEF SaveBody
  <2> HIDE DEF f
  <2>2. Works(f, n)
    BY <2>1
  <2> HIDE DEF Works
  <2> QED
    BY <2>2
<1>4. ASSUME NEW k \in Nat, k + 1 \in T PROVE k \in T
  <2>1. PICK f : Works(f, k + 1)
    BY <1>4
  <2> DEFINE g == [p \in Paths |-> IF Len(p) >= k + 1 THEN f[p] ELSE SaveBody(f, p)]
  <2>2. ASSUME NEW p \in Paths, Len(p) >= k PROVE g[p] = SaveBody(g, p)
    <3>0. /\ Left(p) \in Paths /\ Len(Left(p)) >= k + 1
          /\ Right(p) \in Paths /\ Len(Right(p)) >= k + 1
      BY <1>2, <2>2
    <3>1. g[Left(p)] = f[Left(p)] /\ g[Right(p)] = f[Right(p)]
      BY <3>0
    <3>2. SaveBody(g, p) = SaveBody(f, p)
      BY <3>1 DEF SaveBody
    <3>3. g[p] = SaveBody(f, p)
      BY <1>2, <2>1, <2>2
    <3> QED
      BY <3>2, <3>3
  <2>3. Works(g, k)
    BY <2>2
  <2> HIDE DEF g, Works
  <2> QED
    BY <2>3
<1>5. T \subseteq Nat
  OBVIOUS
<1> HIDE DEF T
<1>6. PICK k \in T : \A j \in T : k <= j
  BY <1>3, <1>5, LeastExists
<1>7. k = 0
  <2>1. k # 0 => k - 1 \in Nat /\ (k - 1) + 1 = k /\ ~ (k <= k - 1)
    BY <1>5, <1>6
  <2> QED
    BY <1>4, <1>6, <2>1
<1>8. PICK f : Works(f, 0)
  BY <1>6, <1>7 DEF T
<1> DEFINE g == [p \in Paths |-> f[p]]
<1>9. ASSUME NEW p \in Paths PROVE g[p] = SaveBody(g, p)
  <2>1. f[p] = SaveBody(f, p)
    <3>1. Len(p) >= 0
      BY <1>2
    <3> QED
      BY <1>8, <3>1
  <2>2. g[p] = f[p] /\ g[Left(p)] = f[Left(p)] /\ g[Right(p)] = f[Right(p)]
    BY <1>2
  <2> HIDE DEF g
  <2> QED
    BY <2>1, <2>2 DEF SaveBody
<1>10. g = [p \in Paths |-> SaveBody(g, p)]
  BY <1>9
<1> HIDE DEF g
<1> QED
  BY <1>10

LEMMA SaveNodeDataIs ==
    ASSUME TreeTyped, Hanging
    PROVE  \A p \in Paths : SaveNodeData[p] = SaveBody(SaveNodeData, p)
<1>1. SaveNodeData = CHOOSE f : f = [p \in Paths |-> SaveBody(f, p)]
  BY DEF SaveNodeData, SaveBody
<1>2. SaveNodeData = [p \in Paths |-> SaveBody(SaveNodeData, p)]
  BY <1>1, SaveEnds
<1> HIDE DEF SaveNodeData
<1> QED
  BY <1>2

\* The right-hand side of LoadNodeData's function load.
LoadBody(file, load, i, p) ==
    IF i \notin DOMAIN file THEN [nodes |-> NoNodes, next |-> i]
    ELSE IF file[i] = NullNode THEN [nodes |-> NoNodes, next |-> i + 1]
    ELSE LET l == load[i + 1][Left(p)]
             r == load[l.next][Right(p)]
         IN  [nodes |-> With(p, file[i], Join(l.nodes, r.nodes)), next |-> r.next]

Loader(file) ==
    CHOOSE load : load = [i \in Nat |-> [p \in Paths |-> LoadBody(file, load, i, p)]]

LEMMA LoadNodeDataIs ==
    ASSUME NEW file
    PROVE  LoadNodeData(file) = Loader(file)[1][<<>>].nodes
BY DEF LoadNodeData, Loader, LoadBody

\* The position only moves forward and a file ends, so that the recursion ends.
LEMMA LoadEnds ==
    ASSUME NEW F, NEW file \in Seq(F)
    PROVE  \E f : f = [i \in Nat |-> [p \in Paths |-> LoadBody(file, f, i, p)]]
<1> DEFINE Good(f, i) == \A p \in Paths : f[i][p] = LoadBody(file, f, i, p)
                                            /\ f[i][p].next \in Nat /\ f[i][p].next >= i
           Works(f, m) == \A i \in Nat : i >= m => Good(f, i)
           T == {m \in Nat : \E f : Works(f, m)}
           end == Len(file) + 1
<1>1. end \in Nat /\ \A i \in Nat : i >= end => i \notin DOMAIN file
  BY LenProperties
<1>2. \A p \in Paths : Left(p) \in Paths /\ Right(p) \in Paths
  BY ChildPaths DEF Left, Right, Sides
<1>3. end \in T
  <2> DEFINE f == [i \in Nat |-> [p \in Paths |-> [nodes |-> NoNodes, next |-> i]]]
  <2>1. ASSUME NEW i \in Nat, i >= end, NEW p \in Paths
        PROVE  f[i][p] = LoadBody(file, f, i, p) /\ f[i][p].next \in Nat /\ f[i][p].next >= i
    <3>1. i \notin DOMAIN file
      BY <1>1, <2>1
    <3>2. f[i][p] = [nodes |-> NoNodes, next |-> i]
      BY <2>1
    <3> HIDE DEF f
    <3> QED
      BY <3>1, <3>2 DEF LoadBody
  <2>2. Works(f, end)
    BY <2>1
  <2> HIDE DEF f, Works
  <2> QED
    BY <1>1, <2>2
<1>4. ASSUME NEW m \in Nat, m + 1 \in T PROVE m \in T
  <2>1. PICK f : Works(f, m + 1)
    BY <1>4
  <2> DEFINE g == [i \in Nat |-> IF i = m THEN [p \in Paths |-> LoadBody(file, f, m, p)] ELSE f[i]]
  <2>2. ASSUME NEW i \in Nat, i >= m + 1 PROVE g[i] = f[i] /\ Good(f, i)
    BY <2>1, <2>2
  <2>3. \A p \in Paths : g[m][p] = LoadBody(file, f, m, p)
    OBVIOUS
  <2> HIDE DEF g
  <2>4. ASSUME NEW i \in Nat, i >= m, NEW p \in Paths, i \in DOMAIN file, file[i] # NullNode,
               NEW l, l = f[i + 1][Left(p)], NEW r, r = f[l.next][Right(p)]
        PROVE  /\ g[i + 1][Left(p)] = l /\ g[l.next][Right(p)] = r
               /\ r.next \in Nat /\ r.next >= i
    <3>1. i + 1 \in Nat /\ i + 1 >= m + 1
      BY <2>4
    <3>2. g[i + 1] = f[i + 1] /\ l.next \in Nat /\ l.next >= i + 1
      BY <1>2, <2>2, <2>4, <3>1
    <3>3. l.next >= m + 1
      BY <3>1, <3>2
    <3>4. g[l.next] = f[l.next] /\ r.next \in Nat /\ r.next >= l.next
      BY <1>2, <2>2, <2>4, <3>2, <3>3
    <3> QED
      BY <2>4, <3>2, <3>4
  <2>5. ASSUME NEW i \in Nat, i >= m, NEW p \in Paths
        PROVE  /\ LoadBody(file, g, i, p) = LoadBody(file, f, i, p)
               /\ LoadBody(file, f, i, p).next \in Nat /\ LoadBody(file, f, i, p).next >= i
    <3>1. CASE i \notin DOMAIN file
      BY <3>1 DEF LoadBody
    <3>2. CASE i \in DOMAIN file /\ file[i] = NullNode
      BY <3>2 DEF LoadBody
    <3>3. CASE i \in DOMAIN file /\ file[i] # NullNode
      <4>1. PICK l, r : l = f[i + 1][Left(p)] /\ r = f[l.next][Right(p)]
        OBVIOUS
      <4>2. /\ g[i + 1][Left(p)] = l /\ g[l.next][Right(p)] = r
            /\ r.next \in Nat /\ r.next >= i
        BY <2>4, <2>5, <3>3, <4>1
      <4>3. LoadBody(file, f, i, p) = [nodes |-> With(p, file[i], Join(l.nodes, r.nodes)), next |-> r.next]
        BY <3>3, <4>1 DEF LoadBody
      <4>4. LoadBody(file, g, i, p) = [nodes |-> With(p, file[i], Join(l.nodes, r.nodes)), next |-> r.next]
        BY <3>3, <4>2 DEF LoadBody
      <4> QED
        BY <4>2, <4>3, <4>4
    <3> QED
      BY <3>1, <3>2, <3>3
  <2>6. ASSUME NEW i \in Nat, i >= m, NEW p \in Paths
        PROVE  g[i][p] = LoadBody(file, g, i, p) /\ g[i][p].next \in Nat /\ g[i][p].next >= i
    <3>1. g[i][p] = LoadBody(file, f, i, p)
      <4>1. CASE i = m
        BY <2>3, <4>1
      <4>2. CASE i # m
        <5>1. i >= m + 1
          BY <2>6, <4>2
        <5> QED
          BY <2>2, <5>1
      <4> QED
        BY <4>1, <4>2
    <3> QED
      BY <2>5, <2>6, <3>1
  <2>7. Works(g, m)
    BY <2>6
  <2> HIDE DEF Works
  <2> QED
    BY <2>7
<1>5. T \subseteq Nat
  OBVIOUS
<1> HIDE DEF T
<1>6. PICK k \in T : \A j \in T : k <= j
  BY <1>3, <1>5, LeastExists
<1>7. k = 0
  <2>1. k # 0 => k - 1 \in Nat /\ (k - 1) + 1 = k /\ ~ (k <= k - 1)
    BY <1>5, <1>6
  <2> QED
    BY <1>4, <1>6, <2>1
<1>8. PICK f : Works(f, 0)
  BY <1>6, <1>7 DEF T
<1>9. ASSUME NEW i \in Nat, NEW p \in Paths
      PROVE  f[i][p] = LoadBody(file, f, i, p) /\ f[i][p].next \in Nat
  <2>1. i >= 0
    OBVIOUS
  <2> QED
    BY <1>8, <2>1
<1> DEFINE g == [i \in Nat |-> [p \in Paths |-> f[i][p]]]
<1>10. \A i \in Nat, p \in Paths : g[i][p] = f[i][p]
  OBVIOUS
<1>11. g = [i \in Nat |-> [p \in Paths |-> g[i][p]]]
  BY <1>10
<1> HIDE DEF g
<1>12. ASSUME NEW i \in Nat, NEW p \in Paths
       PROVE  g[i][p] = LoadBody(file, g, i, p)
  <2>1. i + 1 \in Nat /\ f[i + 1][Left(p)].next \in Nat
    BY <1>2, <1>9
  <2>2. /\ g[i][p] = f[i][p] /\ g[i + 1][Left(p)] = f[i + 1][Left(p)]
        /\ g[f[i + 1][Left(p)].next][Right(p)] = f[f[i + 1][Left(p)].next][Right(p)]
    BY <1>2, <1>10, <2>1
  <2>3. LoadBody(file, g, i, p) = LoadBody(file, f, i, p)
    BY <2>2 DEF LoadBody
  <2> QED
    BY <1>9, <2>2, <2>3
<1>13. g = [i \in Nat |-> [p \in Paths |-> LoadBody(file, g, i, p)]]
  BY <1>11, <1>12
<1> QED
  BY <1>13

LEMMA LoaderIs ==
    ASSUME NEW F, NEW file \in Seq(F), NEW i \in Nat, NEW p \in Paths
    PROVE  Loader(file)[i][p] = LoadBody(file, Loader(file), i, p)
<1>1. Loader(file) = [j \in Nat |-> [q \in Paths |-> LoadBody(file, Loader(file), j, q)]]
  BY LoadEnds DEF Loader
<1> HIDE DEF Loader
<1> QED
  BY <1>1

\* The file holds s from position i on.
Holds(file, i, s) ==
    \A j \in 1 .. Len(s) : i + j - 1 \in DOMAIN file /\ file[i + j - 1] = s[j]

LEMMA HoldsParts ==
    ASSUME NEW F, NEW x \in F, NEW s \in Seq(F), NEW t \in Seq(F),
           NEW file, NEW i \in Nat, Holds(file, i, <<x>> \o s \o t)
    PROVE  /\ i \in DOMAIN file /\ file[i] = x
           /\ Holds(file, i + 1, s) /\ Holds(file, i + 1 + Len(s), t)
           /\ Len(<<x>> \o s \o t) = 1 + Len(s) + Len(t)
<1> DEFINE all == <<x>> \o s \o t
<1>1. Len(s) \in Nat /\ Len(t) \in Nat
  BY LenProperties
<1>2. /\ Len(all) = 1 + Len(s) + Len(t)
      /\ all[1] = x
      /\ \A j \in 1 .. Len(s) : all[j + 1] = s[j]
      /\ \A j \in 1 .. Len(t) : all[j + 1 + Len(s)] = t[j]
  <2> DEFINE left == <<x>> \o s
  <2>1. <<x>> \in Seq(F) /\ Len(<<x>>) = 1 /\ <<x>>[1] = x
    OBVIOUS
  <2>2. /\ left \in Seq(F) /\ Len(left) = 1 + Len(s)
        /\ \A j \in 1 .. 1 + Len(s) : left[j] = IF j <= 1 THEN <<x>>[j] ELSE s[j - 1]
    BY <2>1, ConcatProperties
  <2>3. left[1] = x /\ \A j \in 1 .. Len(s) : left[j + 1] = s[j]
    BY <1>1, <2>1, <2>2
  <2> HIDE DEF left
  <2>4. /\ Len(left \o t) = Len(left) + Len(t)
        /\ \A j \in 1 .. Len(left) + Len(t) :
            (left \o t)[j] = IF j <= Len(left) THEN left[j] ELSE t[j - Len(left)]
    BY <2>2, ConcatProperties
  <2>5. all = left \o t
    BY DEF left
  <2> HIDE DEF all
  <2>6. Len(all) = 1 + Len(s) + Len(t) /\ all[1] = x
    BY <1>1, <2>2, <2>3, <2>4, <2>5
  <2>7. ASSUME NEW j \in 1 .. Len(s) PROVE all[j + 1] = s[j]
    BY <1>1, <2>2, <2>3, <2>4, <2>5
  <2>8. ASSUME NEW j \in 1 .. Len(t) PROVE all[j + 1 + Len(s)] = t[j]
    <3> DEFINE k == j + 1 + Len(s)
    <3>1. k \in 1 .. Len(left) + Len(t) /\ ~ (k <= Len(left)) /\ k - Len(left) = j
      BY <1>1, <2>2
    <3> HIDE DEF k
    <3>2. all[k] = t[j]
      BY <2>4, <2>5, <3>1
    <3> QED
      BY <3>2 DEF k
  <2> QED
    BY <2>6, <2>7, <2>8
<1>3. \A j \in 1 .. Len(all) : i + j - 1 \in DOMAIN file /\ file[i + j - 1] = all[j]
  BY DEF Holds
<1> HIDE DEF all
<1>4. i \in DOMAIN file /\ file[i] = x
  <2>1. 1 \in 1 .. Len(all) /\ i + 1 - 1 = i
    BY <1>1, <1>2
  <2> QED
    BY <1>2, <1>3, <2>1
<1>5. ASSUME NEW j \in 1 .. Len(s)
      PROVE  (i + 1) + j - 1 \in DOMAIN file /\ file[(i + 1) + j - 1] = s[j]
  <2>1. j + 1 \in 1 .. Len(all) /\ i + (j + 1) - 1 = (i + 1) + j - 1
    BY <1>1, <1>2
  <2> QED
    BY <1>2, <1>3, <2>1
<1>6. ASSUME NEW j \in 1 .. Len(t)
      PROVE  (i + 1 + Len(s)) + j - 1 \in DOMAIN file /\ file[(i + 1 + Len(s)) + j - 1] = t[j]
  <2>1. j + 1 + Len(s) \in 1 .. Len(all) /\ i + (j + 1 + Len(s)) - 1 = (i + 1 + Len(s)) + j - 1
    BY <1>1, <1>2
  <2> QED
    BY <1>2, <1>3, <2>1
<1>7. Holds(file, i + 1, s)
  BY <1>5 DEF Holds
<1>8. Holds(file, i + 1 + Len(s), t)
  BY <1>6 DEF Holds
<1> QED
  BY <1>2, <1>4, <1>7, <1>8 DEF all

\* The nodes below a path.
Branch(p) == [q \in {q \in DOMAIN tree : Below(p, q)} |-> tree[q]]

\* A node and what hangs below its two children.
LEMMA BranchOf ==
    ASSUME TreeTyped, Hanging, NEW p \in DOMAIN tree
    PROVE  Branch(p) = With(p, tree[p], Join(Branch(Left(p)), Branch(Right(p))))
<1>1. /\ p \in Paths /\ DOMAIN tree \subseteq Paths
      /\ Left(p) \in Paths /\ Below(p, Left(p)) /\ Right(p) \in Paths /\ Below(p, Right(p))
      /\ "left" \in Sides /\ "right" \in Sides
  BY ChildPaths DEF TreeTyped, Left, Right, Sides
<1>2. \A q \in DOMAIN tree : Below(p, q) <=> q = p \/ Below(Left(p), q) \/ Below(Right(p), q)
  <2> TAKE q \in DOMAIN tree
  <2>1. Below(p, q) => q = p \/ Below(Left(p), q) \/ Below(Right(p), q)
    BY <1>1, BelowChildren DEF Left, Right, Sides
  <2>2. Below(Left(p), q) \/ Below(Right(p), q) => Below(p, q)
    BY <1>1, BelowIsTransitive
  <2>3. q = p => Below(p, q)
    BY <1>1, BelowItself
  <2> QED
    BY <2>1, <2>2, <2>3
<1> DEFINE B(r) == {q \in DOMAIN tree : Below(r, q)}
           lr == Join(Branch(Left(p)), Branch(Right(p)))
           all == With(p, tree[p], lr)
<1>3. B(p) = {p} \cup (B(Left(p)) \cup B(Right(p)))
  BY <1>2
<1>4. \A r : DOMAIN Branch(r) = B(r) /\ \A q \in B(r) : Branch(r)[q] = tree[q]
  BY DEF Branch
<1>5. /\ DOMAIN lr = B(Left(p)) \cup B(Right(p))
      /\ \A q \in B(Left(p)) \cup B(Right(p)) : lr[q] = tree[q]
  BY <1>4 DEF Join
<1>6. all = [q \in {p} \cup DOMAIN lr |-> IF q = p THEN tree[p] ELSE lr[q]]
  BY DEF With
<1> HIDE DEF lr, all
<1>7. all = [q \in B(p) |-> tree[q]]
  BY <1>3, <1>5, <1>6
<1> QED
  BY <1>7 DEF all, lr, Branch

\* A subtree that stands in a file comes back as it was.
Stored == NodeType \cup {NullNode}

ComesBack(file, p) ==
    /\ SaveNodeData[p] \in Seq(Stored)
    /\ \A i \in Nat : Holds(file, i, SaveNodeData[p]) =>
        Loader(file)[i][p] = [nodes |-> Branch(p), next |-> i + Len(SaveNodeData[p])]

LEMMA ComesBackIs ==
    ASSUME NEW file, NEW p, ComesBack(file, p), NEW i \in Nat, Holds(file, i, SaveNodeData[p])
    PROVE  Loader(file)[i][p] = [nodes |-> Branch(p), next |-> i + Len(SaveNodeData[p])]
BY DEF ComesBack

LEMMA LoadsBranch ==
    ASSUME TreeTyped, Hanging, NEW F, NEW file \in Seq(F)
    PROVE  \A p \in Paths : ComesBack(file, p)
<1> DEFINE T == {k \in Nat : \A p \in Paths : Len(p) >= k => ComesBack(file, p)}
<1>1. PICK n \in Nat : \A p \in DOMAIN tree : Len(p) < n
  BY DEF Hanging
<1>2. \A p \in Paths : /\ Len(p) \in Nat
                       /\ Left(p) \in Paths /\ Len(Left(p)) = Len(p) + 1
                       /\ Right(p) \in Paths /\ Len(Right(p)) = Len(p) + 1
  BY ChildPaths, LenProperties DEF Left, Right, Sides, Paths
<1>3. \A p \in Paths : SaveNodeData[p] = SaveBody(SaveNodeData, p)
  BY SaveNodeDataIs
<1>4. \A p \in DOMAIN tree : tree[p] \in Stored /\ tree[p] # NullNode
  <2>1. -1 \notin Objects \cup {Null}
    BY VPTreeAssumption DEF Null
  <2> QED
    BY <2>1 DEF TreeTyped, NodeType, NullNode, Stored
<1>5. ASSUME NEW p \in Paths, p \notin DOMAIN tree PROVE ComesBack(file, p)
  <2>1. SaveNodeData[p] = <<NullNode>>
    BY <1>3, <1>5 DEF SaveBody
  <2>2. Branch(p) = NoNodes
    <3>1. {q \in DOMAIN tree : Below(p, q)} = {}
      BY <1>5 DEF Hanging
    <3> QED
      BY <3>1 DEF Branch, NoNodes
  <2>3. ASSUME NEW i \in Nat, Holds(file, i, SaveNodeData[p])
        PROVE  Loader(file)[i][p] = [nodes |-> Branch(p), next |-> i + Len(SaveNodeData[p])]
    <3>1. Len(SaveNodeData[p]) = 1 /\ SaveNodeData[p][1] = NullNode
      BY <2>1
    <3>2. i + 1 - 1 \in DOMAIN file /\ file[i + 1 - 1] = NullNode
      BY <2>3, <3>1 DEF Holds
    <3>3. i \in DOMAIN file /\ file[i] = NullNode
      BY <3>2
    <3>4. LoadBody(file, Loader(file), i, p) = [nodes |-> NoNodes, next |-> i + 1]
      BY <3>3 DEF LoadBody
    <3>5. Loader(file)[i][p] = LoadBody(file, Loader(file), i, p)
      BY LoaderIs
    <3> QED
      BY <2>2, <3>1, <3>4, <3>5
  <2>4. SaveNodeData[p] \in Seq(Stored)
    BY <2>1 DEF Stored
  <2> QED
    BY <2>3, <2>4 DEF ComesBack
<1>6. n \in T
  <2>1. ASSUME NEW p \in Paths, Len(p) >= n PROVE ComesBack(file, p)
    <3>1. p \notin DOMAIN tree
      BY <1>1, <1>2, <2>1
    <3> QED
      BY <1>5, <3>1
  <2> QED
    BY <2>1
<1>7. ASSUME NEW k \in Nat, k + 1 \in T PROVE k \in T
  <2> SUFFICES ASSUME NEW p \in Paths, Len(p) >= k, p \in DOMAIN tree PROVE ComesBack(file, p)
    BY <1>5
  <2>1. ComesBack(file, Left(p)) /\ ComesBack(file, Right(p))
    <3>1. Len(Left(p)) >= k + 1 /\ Len(Right(p)) >= k + 1
      <4>1. /\ Len(p) \in Nat /\ Len(p) >= k
            /\ Len(Left(p)) = Len(p) + 1 /\ Len(Right(p)) = Len(p) + 1
        BY <1>2
      <4> HIDE DEF T
      <4> QED
        BY <4>1
    <3>2. \A q \in Paths : Len(q) >= k + 1 => ComesBack(file, q)
      BY <1>7
    <3> QED
      BY <1>2, <3>1, <3>2
  <2>2. PICK s, t : s = SaveNodeData[Left(p)] /\ t = SaveNodeData[Right(p)]
    OBVIOUS
  <2>3. SaveNodeData[p] = <<tree[p]>> \o s \o t
    BY <1>3, <2>2 DEF SaveBody
  <2>4. s \in Seq(Stored) /\ t \in Seq(Stored) /\ tree[p] \in Stored
    BY <1>4, <2>1, <2>2 DEF ComesBack
  <2>5. SaveNodeData[p] \in Seq(Stored)
    <3>1. <<tree[p]>> \in Seq(Stored)
      BY <2>4
    <3>2. <<tree[p]>> \o s \in Seq(Stored)
      BY <2>4, <3>1, ConcatProperties
    <3> QED
      BY <2>3, <2>4, <3>2, ConcatProperties
  <2>6. ASSUME NEW i \in Nat, Holds(file, i, SaveNodeData[p])
        PROVE  Loader(file)[i][p] = [nodes |-> Branch(p), next |-> i + Len(SaveNodeData[p])]
    <3>1. Holds(file, i, <<tree[p]>> \o s \o t)
      BY <2>3, <2>6
    <3>2. /\ i \in DOMAIN file /\ file[i] = tree[p]
          /\ Holds(file, i + 1, s) /\ Holds(file, i + 1 + Len(s), t)
          /\ Len(<<tree[p]>> \o s \o t) = 1 + Len(s) + Len(t)
      <4>1. PICK x : x = tree[p]
        OBVIOUS
      <4>2. x \in Stored /\ Holds(file, i, <<x>> \o s \o t)
        BY <2>4, <3>1, <4>1
      <4>3. /\ i \in DOMAIN file /\ file[i] = x
            /\ Holds(file, i + 1, s) /\ Holds(file, i + 1 + Len(s), t)
            /\ Len(<<x>> \o s \o t) = 1 + Len(s) + Len(t)
        BY <2>4, <4>2, HoldsParts
      <4> QED
        BY <4>1, <4>3
    <3>3. Len(s) \in Nat /\ Len(t) \in Nat
      BY <2>4, LenProperties
    <3>4. Loader(file)[i + 1][Left(p)] = [nodes |-> Branch(Left(p)), next |-> i + 1 + Len(s)]
      <4>1. PICK j \in Nat : j = i + 1
        OBVIOUS
      <4>2. Holds(file, j, s)
        BY <3>2, <4>1
      <4>3. ComesBack(file, Left(p)) /\ s = SaveNodeData[Left(p)]
        BY <2>1, <2>2
      <4>4. Holds(file, j, SaveNodeData[Left(p)])
        BY <4>2, <4>3
      <4>5. Loader(file)[j][Left(p)] = [nodes |-> Branch(Left(p)), next |-> j + Len(SaveNodeData[Left(p)])]
        BY <4>3, <4>4, ComesBackIs
      <4> QED
        BY <4>1, <4>3, <4>5
    <3>5. Loader(file)[i + 1 + Len(s)][Right(p)] =
              [nodes |-> Branch(Right(p)), next |-> i + 1 + Len(s) + Len(t)]
      <4>1. PICK j \in Nat : j = i + 1 + Len(s)
        BY <3>3
      <4>2. Holds(file, j, t)
        BY <3>2, <4>1
      <4>3. ComesBack(file, Right(p)) /\ t = SaveNodeData[Right(p)]
        BY <2>1, <2>2
      <4>4. Holds(file, j, SaveNodeData[Right(p)])
        BY <4>2, <4>3
      <4>5. Loader(file)[j][Right(p)] = [nodes |-> Branch(Right(p)), next |-> j + Len(SaveNodeData[Right(p)])]
        BY <4>3, <4>4, ComesBackIs
      <4> QED
        BY <4>1, <4>3, <4>5
    <3>6. Loader(file)[i][p] = LoadBody(file, Loader(file), i, p)
      BY LoaderIs
    <3>7. LoadBody(file, Loader(file), i, p) =
              [nodes |-> With(p, tree[p], Join(Branch(Left(p)), Branch(Right(p)))),
               next |-> i + 1 + Len(s) + Len(t)]
      BY <1>4, <3>2, <3>4, <3>5 DEF LoadBody
    <3>8. i + Len(SaveNodeData[p]) = i + 1 + Len(s) + Len(t)
      BY <2>3, <3>2, <3>3
    <3> QED
      BY <3>6, <3>7, <3>8, BranchOf
  <2> QED
    BY <2>5, <2>6 DEF ComesBack
<1>8. T \subseteq Nat
  OBVIOUS
<1> HIDE DEF T
<1>9. PICK k \in T : \A j \in T : k <= j
  BY <1>6, <1>8, LeastExists
<1>10. k = 0
  <2>1. k # 0 => k - 1 \in Nat /\ (k - 1) + 1 = k /\ ~ (k <= k - 1)
    BY <1>8, <1>9
  <2> QED
    BY <1>7, <1>9, <2>1
<1>11. \A p \in Paths : ComesBack(file, p)
  <2>1. \A p \in Paths : Len(p) >= 0
    BY <1>2
  <2> QED
    BY <1>9, <1>10, <2>1 DEF T
<1> QED
  BY <1>11

LEMMA LoadsTree ==
    ASSUME TreeTyped, Hanging
    PROVE  LoadNodeData(SaveNodeData[<<>>]) = tree
<1> DEFINE file == SaveNodeData[<<>>]
<1>1. <<>> \in Paths
  BY EmptySeq DEF Paths
<1>2. file \in Seq(Stored)
  <2>1. <<>> \in Seq(Stored)
    OBVIOUS
  <2>2. ComesBack(<<>>, <<>>)
    BY <1>1, <2>1, LoadsBranch
  <2> QED
    BY <2>2 DEF ComesBack
<1>3. Holds(file, 1, file)
  <2> HIDE DEF file
  <2>1. \A j \in 1 .. Len(file) : 1 + j - 1 = j /\ j \in DOMAIN file
    BY <1>2
  <2> QED
    BY <2>1 DEF Holds
<1>4. ComesBack(file, <<>>)
  <2> HIDE DEF file
  <2> QED
    BY <1>1, <1>2, LoadsBranch
<1>5. Loader(file)[1][<<>>].nodes = Branch(<<>>)
  <2> HIDE DEF file
  <2>1. Loader(file)[1][<<>>] = [nodes |-> Branch(<<>>), next |-> 1 + Len(file)]
    BY <1>3, <1>4, ComesBackIs DEF file
  <2> QED
    BY <2>1
<1>6. Branch(<<>>) = tree
  <2>1. DOMAIN tree \subseteq Paths /\ tree = [q \in DOMAIN tree |-> tree[q]]
    BY DEF TreeTyped
  <2>2. {q \in DOMAIN tree : Below(<<>>, q)} = DOMAIN tree
    BY <2>1, BelowItself
  <2> QED
    BY <2>1, <2>2 DEF Branch
<1> HIDE DEF file
<1> QED
  BY <1>5, <1>6, LoadNodeDataIs DEF file

-----------------------------------------------------------------------------
(* The index keeps its shape.                                              *)

LEMMA SameIndex ==
    ASSUME BuildInv, UNCHANGED index
    PROVE  BuildInv'
<1>1. data' = data /\ bucketSize' = bucketSize /\ tree' = tree /\ pending' = pending
  BY DEF index
<1>2. TreeTyped' /\ Hanging'
  BY <1>1 DEF BuildInv, TreeTyped, Hanging
<1>3. \A p : Held(p)' = Held(p)
  BY <1>1 DEF Held
<1>4. \A x, p, side : Fits(p, side, x)' <=> Fits(p, side, x)
  BY <1>1 DEF Fits, Between
<1>5. Once' /\ Complete'
  BY <1>1, <1>3 DEF BuildInv, Once, Complete
<1>6. Split'
  BY <1>1, <1>3, <1>4 DEF BuildInv, Split
<1> QED
  BY <1>2, <1>5, <1>6 DEF BuildInv

LEMMA BuildInvInit == Init => BuildInv
<1> SUFFICES ASSUME Init PROVE BuildInv
  OBVIOUS
<1>1. DOMAIN tree = {} /\ pending = <<>> /\ tree = [p \in {} |-> NullNode]
  BY DEF Init, NoNodes
<1>2. Len(pending) = 0 /\ \A i \in 1 .. Len(pending) : FALSE
  BY <1>1
<1>3. TreeTyped
  <2>1. pending \in Seq(Entry)
    BY <1>1
  <2>2. tree \in [DOMAIN tree -> NodeType]
    BY <1>1
  <2> QED
    BY <1>1, <2>1, <2>2 DEF Init, TreeTyped
<1> QED
  BY <1>1, <1>2, <1>3 DEF BuildInv, Hanging, Once, Complete, Split

LEMMA CreateIndexGrows ==
    ASSUME BuildInv, CreateIndex
    PROVE  BuildInv'
<1>1. /\ data' = data /\ bucketSize' = bucketSize /\ tree' = tree /\ DOMAIN tree = {}
      /\ pending' = <<[at |-> <<>>, objects |-> Objects]>>
  BY DEF CreateIndex
<1>2. PICK root : root = [at |-> <<>>, objects |-> Objects]
  OBVIOUS
<1>3. root \in Entry /\ root.at = <<>> /\ root.objects = Objects /\ Objects # {}
  BY <1>2, EmptySeq, VPTreeAssumption DEF Entry, Paths
<1> HIDE DEF Entry
<1>4. pending' \in Seq(Entry) /\ Len(pending') = 1 /\ pending'[1] = root
  BY <1>1, <1>2, <1>3
<1>5. 1 \in 1 .. Len(pending') /\ \A i \in 1 .. Len(pending') : pending'[i] = root /\ i = 1
  BY <1>4
<1>6. TreeTyped'
  BY <1>1, <1>4 DEF BuildInv, TreeTyped, WithinReach
<1>7. Hanging'
  BY <1>1, <1>3, <1>5 DEF BuildInv, Hanging
<1>8. Once'
  <2>1. \A i, j \in 1 .. Len(pending') : i = j
    BY <1>5
  <2>2. \A i \in 1 .. Len(pending') : pending'[i].objects # {}
    BY <1>3, <1>5
  <2> QED
    BY <1>1, <2>1, <2>2 DEF Once
<1>9. Complete'
  BY <1>3, <1>5 DEF Complete
<1>10. Split'
  BY <1>1 DEF Split
<1> QED
  BY <1>6, <1>7, <1>8, <1>9, <1>10 DEF BuildInv

LEMMA ReloadKeeps ==
    ASSUME BuildInv, Reload
    PROVE  tree' = tree /\ BuildInv'
<1>1. tree' = tree
  BY LoadsTree DEF Reload, BuildInv
<1>2. UNCHANGED index
  BY <1>1 DEF Reload, index
<1> QED
  BY <1>1, <1>2, SameIndex

LEMMA BuildInvStep == BuildInv /\ [Next]_vars => BuildInv'
<1> SUFFICES ASSUME BuildInv, [Next]_vars PROVE BuildInv'
  OBVIOUS
<1>1. CASE CreateIndex
  BY <1>1, CreateIndexGrows
<1>2. CASE MakeBucket
  BY <1>2, MakeBucketGrows
<1>3. CASE MakeSplit
  BY <1>3, MakeSplitGrows
<1>4. CASE MakeSingle
  BY <1>4, MakeSingleGrows
<1>5. CASE Reload
  BY <1>5, ReloadKeeps
<1>6. CASE SetQueryTimeParams \/ Search \/ Enter \/ Scan \/ Second \/ Deliver
  <2>1. UNCHANGED index
    BY <1>6 DEF SetQueryTimeParams, Search, Enter, Scan, Second, Deliver
  <2> QED
    BY <2>1, SameIndex
<1>7. CASE UNCHANGED vars
  <2>1. UNCHANGED index
    BY <1>7 DEF vars
  <2> QED
    BY <2>1, SameIndex
<1> QED
  BY <1>1, <1>2, <1>3, <1>4, <1>5, <1>6, <1>7 DEF Next

\* In every reachable state the tree and what is still to be built hold every
\* object once, below the splits it belongs to.
THEOREM BuildInvariant == Spec => []BuildInv
<1>1. BuildInv /\ [Next]_vars => BuildInv'
  BY BuildInvStep
<1> QED
  BY BuildInvInit, <1>1, PTL DEF Spec

\* What SaveIndex wrote, LoadIndex reads back as the tree it was (SaveNodeData and
\* LoadNodeData of vptree.cc), whatever its shape and depth.
THEOREM FilesAreFaithful == Spec => [][Reload => tree' = tree]_vars
<1>1. BuildInv /\ [Next]_vars => [Reload => tree' = tree]_vars
  BY ReloadKeeps
<1> QED
  BY BuildInvariant, <1>1, PTL DEF Spec

\* Every object of a finished tree is in one node, and where the splits say
\* (the constructor of VPNode).
THEOREM TreeIsWellSplit == Spec => []WellSplit
<1>1. ASSUME BuildInv, Built PROVE \A x \in Objects : Cardinality({p \in DOMAIN tree : x \in Held(p)}) = 1
  <2> TAKE x \in Objects
  <2>1. Len(pending) = 0
    BY <1>1 DEF Built
  <2>2. PICK p \in DOMAIN tree : x \in Held(p)
    BY <1>1, <2>1 DEF Built, BuildInv, Complete
  <2>3. {q \in DOMAIN tree : x \in Held(q)} = {p}
    BY <1>1, <2>2 DEF BuildInv, Once
  <2> QED
    BY <2>3, FS_Singleton
<1>2. ASSUME BuildInv
      PROVE  \A p, q \in DOMAIN tree : \A x \in Held(q) : tree[p].bucket = {} =>
                /\ Below(Left(p), q) => Between(tree[p].pivot, x) <= tree[p].median
                /\ Below(Right(p), q) => Between(tree[p].pivot, x) >= tree[p].median
  BY <1>2 DEF BuildInv, Split, Fits, Left, Right, Sides
<1>3. BuildInv => WellSplit
  BY <1>1, <1>2 DEF WellSplit
<1> QED
  BY BuildInvariant, <1>3, PTL

-----------------------------------------------------------------------------
(* The objects below a node.                                               *)

Objs(p) == {x \in Objects : \E q \in DOMAIN tree : Below(p, q) /\ x \in Held(q)}

LEMMA HeldAre ==
    ASSUME BuildInv, NEW p \in DOMAIN tree
    PROVE  /\ p \in Paths /\ Held(p) \subseteq Objects /\ Held(p) # {}
           /\ tree[p].bucket \subseteq Objects
           /\ tree[p].bucket # {} => Held(p) = tree[p].bucket
           /\ tree[p].bucket = {} => Held(p) = {tree[p].pivot} /\ tree[p].pivot \in Objects
           /\ WithinReach(tree[p].median) /\ tree[p].median \in Nat
<1>1. /\ p \in Paths /\ tree[p] \in NodeType /\ WithinReach(tree[p].median)
      /\ tree[p].bucket = {} => tree[p].pivot \in Objects
  BY DEF BuildInv, TreeTyped
<1> QED
  BY <1>1 DEF NodeType, Held

LEMMA BucketsHaveNoChildren ==
    ASSUME BuildInv, NEW p \in DOMAIN tree, tree[p].bucket # {}
    PROVE  Objs(p) = tree[p].bucket
<1>1. p \in Paths /\ Held(p) = tree[p].bucket /\ tree[p].bucket \subseteq Objects
  BY HeldAre
<1>2. ASSUME NEW q \in DOMAIN tree, Below(p, q) PROVE q = p
  <2> SUFFICES ASSUME q # p PROVE FALSE
    OBVIOUS
  <2>1. q \in Paths
    BY HeldAre
  <2>2. PICK side \in Sides : Below(Append(p, side), q)
    BY <1>1, <1>2, <2>1, BelowChildren
  <2>3. Append(p, side) \in Paths
    BY <1>1, ChildPaths
  <2>4. Append(p, side) \in DOMAIN tree
    BY <2>2, <2>3 DEF BuildInv, Hanging
  <2> QED
    BY <2>4 DEF BuildInv, Hanging
<1>3. Below(p, p)
  BY <1>1, BelowItself
<1> QED
  BY <1>1, <1>2, <1>3 DEF Objs

\* A split: the pivot, and what is below the two children.
LEMMA SplitsAre ==
    ASSUME BuildInv, NEW p \in DOMAIN tree, tree[p].bucket = {},
           NEW s \in Sides, NEW t \in Sides, s # t
    PROVE  /\ Objs(p) = {tree[p].pivot} \cup Objs(Append(p, s)) \cup Objs(Append(p, t))
           /\ tree[p].pivot \notin Objs(Append(p, s))
           /\ tree[p].pivot \notin Objs(Append(p, t))
           /\ Objs(Append(p, s)) \cap Objs(Append(p, t)) = {}
<1>1. p \in Paths /\ Held(p) = {tree[p].pivot} /\ tree[p].pivot \in Objects
  BY HeldAre
<1>2. DOMAIN tree \subseteq Paths
  BY HeldAre
<1>3. \A u \in Sides : u = s \/ u = t
  BY DEF Sides
<1>4. \A u \in Sides : Append(p, u) \in Paths /\ Below(p, Append(p, u))
  BY <1>1, ChildPaths
<1>5. ASSUME NEW q \in DOMAIN tree
      PROVE  Below(p, q) <=> q = p \/ Below(Append(p, s), q) \/ Below(Append(p, t), q)
  <2>1. Below(p, q) => q = p \/ Below(Append(p, s), q) \/ Below(Append(p, t), q)
    BY <1>1, <1>2, <1>3, BelowChildren
  <2>2. Below(Append(p, s), q) => Below(p, q)
    BY <1>1, <1>2, <1>4, BelowIsTransitive
  <2>3. Below(Append(p, t), q) => Below(p, q)
    BY <1>1, <1>2, <1>4, BelowIsTransitive
  <2>4. q = p => Below(p, q)
    BY <1>1, BelowItself
  <2> QED
    BY <2>1, <2>2, <2>3, <2>4
<1>6. ASSUME NEW q \in DOMAIN tree, NEW u \in Sides, Below(Append(p, u), q)
      PROVE  q # p
  BY <1>1, <1>6, BelowSelf
<1>7. ASSUME NEW q \in DOMAIN tree, Below(Append(p, s), q), NEW r \in DOMAIN tree, Below(Append(p, t), r)
      PROVE  q # r
  BY <1>1, <1>2, <1>7, ChildrenAreApart
<1>8. \A q, r \in DOMAIN tree : q # r => Held(q) \cap Held(r) = {}
  BY DEF BuildInv, Once
<1>9. Objs(p) = {tree[p].pivot} \cup Objs(Append(p, s)) \cup Objs(Append(p, t))
  BY <1>1, <1>5 DEF Objs
<1>10. \A u \in Sides : tree[p].pivot \notin Objs(Append(p, u))
  BY <1>1, <1>6, <1>8 DEF Objs
<1>11. Objs(Append(p, s)) \cap Objs(Append(p, t)) = {}
  BY <1>7, <1>8 DEF Objs
<1> QED
  BY <1>9, <1>10, <1>11

LEMMA MissingChild ==
    ASSUME BuildInv, NEW p \in DOMAIN tree, NEW side \in Sides, Append(p, side) \notin DOMAIN tree
    PROVE  Objs(Append(p, side)) = {}
<1>1. Append(p, side) \in Paths
  BY HeldAre, ChildPaths
<1> QED
  BY <1>1 DEF Objs, BuildInv, Hanging

LEMMA ChildrenFit ==
    ASSUME BuildInv, NEW p \in DOMAIN tree, tree[p].bucket = {}, NEW side \in Sides,
           NEW x \in Objs(Append(p, side))
    PROVE  x \in Objects /\ Fits(p, side, x)
BY DEF Objs, BuildInv, Split

LEMMA RootHasAll ==
    ASSUME BuildInv, Built
    PROVE  Objs(<<>>) = Objects
<1>1. \A q \in DOMAIN tree : Below(<<>>, q)
  BY HeldAre, BelowItself
<1>2. Len(pending) = 0
  BY DEF Built
<1> QED
  BY <1>1, <1>2 DEF Objs, BuildInv, Complete, Built

-----------------------------------------------------------------------------
(* Distances and results.                                                  *)

LEMMA Growing ==
    ASSUME NEW a \in Nat, NEW b \in Int, NEW c \in Nat, b <= c
    PROVE  a * b <= a * c
OBVIOUS

LEMMA Distances ==
    ASSUME data \in [Objects -> Points], query \in Queries
    PROVE  /\ \A x \in Objects : /\ D[x] \in Nat /\ D[x] <= DistMax
                                 /\ \E u, v \in Points : D[x] = Distance[u][v]
           /\ \A x, y \in Objects : /\ Between(x, y) \in Nat
                                    /\ Between(x, y) <= D[x] + D[y]
                                    /\ D[x] <= D[y] + Between(y, x)
<1>1. query.at \in Points /\ Distance \in [Points -> [Points -> Nat]] /\ DistMax \in Nat
  BY VPTreeAssumption
<1>2. \A x \in Objects : D[x] = Distance[query.at][data[x]] /\ data[x] \in Points
  BY DEF D
<1>3. \A u, v \in Points : Distance[u][v] \in Nat /\ Distance[u][v] <= DistMax
  <2> TAKE u, v \in Points
  <2>1. Distance[u][v] \in Nat
    BY <1>1
  <2>2. DistMax >= Default.left * Distance[u][v] /\ Default.left = 1
    BY VPTreeAssumption DEF Default
  <2> QED
    BY <1>1, <2>1, <2>2
<1>4. \A u, v, w \in Points : /\ Distance[u][v] = Distance[v][u]
                              /\ Distance[u][w] <= Distance[u][v] + Distance[v][w]
  BY VPTreeAssumption
<1>5. ASSUME NEW x \in Objects, NEW y \in Objects
      PROVE  /\ Between(x, y) \in Nat
             /\ Between(x, y) <= D[x] + D[y]
             /\ D[x] <= D[y] + Between(y, x)
  <2>1. PICK q, u, v \in Points : q = query.at /\ u = data[x] /\ v = data[y]
    BY <1>1, <1>2
  <2>2. /\ Distance[u][v] <= Distance[u][q] + Distance[q][v]
        /\ Distance[q][u] <= Distance[q][v] + Distance[v][u]
        /\ Distance[u][q] = Distance[q][u]
        /\ Distance[u][v] \in Nat
    BY <1>3, <1>4
  <2>3. /\ D[x] = Distance[q][u] /\ D[y] = Distance[q][v]
        /\ Between(x, y) = Distance[u][v] /\ Between(y, x) = Distance[v][u]
    BY <1>2, <2>1 DEF Between
  <2> HIDE DEF D
  <2> QED
    BY <2>2, <2>3
<1>6. \A x \in Objects : /\ D[x] \in Nat /\ D[x] <= DistMax
                         /\ \E u, v \in Points : D[x] = Distance[u][v]
  BY <1>1, <1>2, <1>3
<1> QED
  BY <1>5, <1>6

\* What a median or a distance is stretched to is still a distance_t.
LEMMA Stretching ==
    ASSUME NEW m \in Nat, NEW u \in Points, NEW v \in Points, m <= Distance[u][v],
           NEW d \in Int, d <= m, NEW s \in Stretches
    PROVE  s.left * d <= DistMax /\ s.right * d <= DistMax
<1>1. /\ Distance[u][v] \in Nat /\ DistMax \in Nat /\ s.left \in Nat /\ s.right \in Nat
      /\ DistMax >= s.left * Distance[u][v] /\ DistMax >= s.right * Distance[u][v]
  BY VPTreeAssumption
<1>2. PICK k \in Nat : k = Distance[u][v] /\ d <= k
  BY <1>1
<1>3. s.left * d <= s.left * k /\ s.right * d <= s.right * k
  BY <1>1, <1>2, Growing
<1>4. PICK a, b \in Nat : a = s.left /\ b = s.right
  BY <1>1
<1>5. a * d \in Int /\ b * d \in Int /\ a * k \in Int /\ b * k \in Int
  OBVIOUS
<1>6. a * d <= a * k /\ a * k <= DistMax /\ b * d <= b * k /\ b * k <= DistMax
  BY <1>1, <1>2, <1>3, <1>4
<1>7. a * d <= DistMax /\ b * d <= DistMax
  BY <1>1, <1>5, <1>6
<1> QED
  BY <1>4, <1>7

Fitting(R) ==
    R \subseteq Objects /\ (query.kind = "knn" => Cardinality(R) <= query.limit)

\* The answer R need not have x, or has it.
Enough(R, x) ==
    query.kind = "knn" => x \in R \/ Cardinality(R) >= query.limit

\* The answer R is right about x.
Settled(R, x) ==
    IF query.kind = "range" THEN x \in R <=> D[x] <= query.limit
    ELSE x \in R \/ (Cardinality(R) >= query.limit /\ \A y \in R : D[y] <= D[x])

LEMMA QueriesAre ==
    ASSUME query \in Queries
    PROVE  /\ query.kind \in {"knn", "range"} /\ query.limit \in Nat /\ query # Nothing
           /\ query.kind = "knn" => query.limit # 0
<1>1. query \in [kind : {"knn", "range"}, limit : Nat, at : Points]
  BY VPTreeAssumption
<1>2. query.kind = "knn" => query.limit # 0
  BY VPTreeAssumption
<1> QED
  BY <1>1, <1>2 DEF Nothing

LEMMA FarthestIs ==
    ASSUME NEW d, \A x \in Objects : d[x] \in Nat, NEW R \in SUBSET Objects, R # {}
    PROVE  Farthest(d, R) \in R /\ \A y \in R : d[y] <= d[Farthest(d, R)]
<1>1. \E x \in R : \A y \in R : d[y] <= d[x]
  BY SomeObjects, GreatestValue
<1> QED
  BY <1>1 DEF Farthest

\* The three outcomes of CheckAndAddToResult.
LEMMA CheckAndAddIs ==
    ASSUME NEW d, \A x \in Objects : d[x] \in Nat, NEW k \in Nat \ {0},
           NEW R \in SUBSET Objects, Cardinality(R) <= k, NEW x \in Objects, x \notin R,
           NEW Q, Q = CheckAndAdd(d, k, R, x)
    PROVE  \/ Cardinality(R) < k /\ Q = R \cup {x} /\ Cardinality(Q) = Cardinality(R) + 1
           \/ /\ Cardinality(R) = k /\ Cardinality(Q) = k
              /\ \E f \in R : /\ \A y \in R : d[y] <= d[f]
                              /\ d[x] < d[f] /\ Q = (R \ {f}) \cup {x}
           \/ Cardinality(R) = k /\ Q = R /\ \A y \in R : d[y] <= d[x]
<1>1. IsFiniteSet(R) /\ Cardinality(R) \in Nat
  BY SomeObjects
<1>2. CASE Cardinality(R) < k
  <2>1. Q = R \cup {x}
    BY <1>2 DEF CheckAndAdd
  <2>2. Cardinality(R \cup {x}) = Cardinality(R) + 1
    BY <1>1, FS_AddElement
  <2> QED
    BY <1>2, <2>1, <2>2
<1>3. CASE Cardinality(R) = k
  <2>1. R # {}
    BY <1>3, FS_EmptySet
  <2>2. PICK f \in R : f = Farthest(d, R) /\ \A y \in R : d[y] <= d[f]
    BY <2>1, FarthestIs
  <2>3. CASE d[x] < d[f]
    <3>1. Q = (R \ {f}) \cup {x}
      BY <1>3, <2>2, <2>3 DEF CheckAndAdd
    <3>2. IsFiniteSet(R \ {f}) /\ Cardinality(R \ {f}) = k - 1 /\ x \notin R \ {f}
      BY <1>1, <1>3, FS_RemoveElement
    <3>3. Cardinality((R \ {f}) \cup {x}) = k
      BY <3>2, FS_AddElement
    <3> QED
      BY <1>3, <2>2, <2>3, <3>1, <3>3
  <2>4. CASE ~ (d[x] < d[f])
    <3>1. Q = R
      BY <1>3, <2>2, <2>4 DEF CheckAndAdd
    <3>2. ASSUME NEW y \in R PROVE d[y] <= d[x]
      <4>1. d[x] \in Nat /\ d[y] \in Nat /\ d[f] \in Nat /\ d[y] <= d[f]
        BY <2>2
      <4> QED
        BY <2>4, <4>1
    <3> QED
      BY <1>3, <3>1, <3>2
  <2> QED
    BY <2>3, <2>4
<1> QED
  BY <1>1, <1>2, <1>3

\* One more object is looked at, and nothing that was right becomes wrong.
LEMMA CheckedKeeps ==
    ASSUME data \in [Objects -> Points], query \in Queries, NEW R, Fitting(R),
           NEW x \in Objects, x \notin R, NEW Q, Q = Checked(R, x)
    PROVE  /\ Fitting(Q) /\ Q \subseteq R \cup {x}
           /\ Enough(Q, x) /\ Settled(Q, x)
           /\ \A y \in Objects : Enough(R, y) => Enough(Q, y)
           /\ \A y \in Objects : y # x /\ Settled(R, y) => Settled(Q, y)
<1>1. /\ query.kind \in {"knn", "range"} /\ query.limit \in Nat
      /\ query.kind = "knn" => query.limit # 0
  BY QueriesAre
<1>2. \A y \in Objects : D[y] \in Nat
  BY Distances
<1>3. R \in SUBSET Objects
  BY DEF Fitting
<1> HIDE DEF D
<1>4. CASE query.kind = "range"
  <2>1. Q = IF D[x] <= query.limit THEN R \cup {x} ELSE R
    BY <1>4 DEF Checked
  <2> QED
    BY <1>3, <1>4, <2>1 DEF Fitting, Enough, Settled
<1>5. CASE query.kind = "knn"
  <2>1. PICK k \in Nat \ {0} : k = query.limit
    BY <1>1, <1>5
  <2>2. Q = CheckAndAdd(D, k, R, x) /\ Cardinality(R) <= k
    BY <1>5, <2>1 DEF Checked, Fitting
  <2>3. \/ Cardinality(R) < k /\ Q = R \cup {x} /\ Cardinality(Q) = Cardinality(R) + 1
        \/ /\ Cardinality(R) = k /\ Cardinality(Q) = k
           /\ \E f \in R : /\ \A y \in R : D[y] <= D[f]
                           /\ D[x] < D[f] /\ Q = (R \ {f}) \cup {x}
        \/ Cardinality(R) = k /\ Q = R /\ \A y \in R : D[y] <= D[x]
    BY <1>2, <1>3, <2>1, <2>2, CheckAndAddIs
  <2>4. Cardinality(R) \in Nat
    BY <1>3, SomeObjects
  <2>5. CASE Cardinality(R) < k /\ Q = R \cup {x} /\ Cardinality(Q) = Cardinality(R) + 1
    <3>1. Cardinality(Q) <= k /\ ~ (Cardinality(R) >= k)
      BY <2>1, <2>4, <2>5
    <3> QED
      BY <1>3, <1>5, <2>1, <2>5, <3>1 DEF Fitting, Enough, Settled
  <2>6. CASE /\ Cardinality(R) = k /\ Cardinality(Q) = k
             /\ \E f \in R : /\ \A y \in R : D[y] <= D[f]
                             /\ D[x] < D[f] /\ Q = (R \ {f}) \cup {x}
    <3>1. PICK f \in R : /\ \A y \in R : D[y] <= D[f]
                         /\ D[x] < D[f] /\ Q = (R \ {f}) \cup {x}
      BY <2>6
    <3>2. Cardinality(Q) <= k /\ Cardinality(Q) >= k /\ Cardinality(R) >= k
      BY <2>1, <2>6
    <3>3. Q \subseteq Objects /\ x \in Q /\ Q \subseteq R \cup {x}
      BY <1>3, <3>1
    <3>4. ASSUME NEW y \in Objects, y # x, Settled(R, y) PROVE Settled(Q, y)
      <4>1. \A z \in Q : D[z] <= D[f]
        BY <1>2, <1>3, <3>1
      <4>2. CASE y \in R /\ y # f
        BY <1>5, <3>1, <4>2 DEF Settled
      <4>3. CASE y = f
        BY <1>5, <2>1, <3>2, <4>1, <4>3 DEF Settled
      <4>4. CASE y \notin R
        <5>1. D[f] <= D[y]
          BY <1>5, <3>4, <4>4 DEF Settled
        <5>2. \A z \in Q : D[z] <= D[y]
          BY <1>2, <1>3, <3>3, <4>1, <5>1
        <5> QED
          BY <1>5, <2>1, <3>2, <5>2 DEF Settled
      <4> QED
        BY <4>2, <4>3, <4>4
    <3>5. Fitting(Q) /\ Settled(Q, x) /\ \A y \in Objects : Enough(Q, y)
      BY <1>5, <2>1, <3>2, <3>3 DEF Fitting, Settled, Enough
    <3> QED
      BY <3>3, <3>4, <3>5
  <2>7. CASE Cardinality(R) = k /\ Q = R /\ \A y \in R : D[y] <= D[x]
    <3>1. Cardinality(Q) >= k
      BY <2>1, <2>7
    <3>2. Fitting(Q) /\ Q \subseteq R \cup {x}
      BY <2>7
    <3>3. Settled(Q, x) /\ \A y \in Objects : Enough(Q, y)
      BY <1>5, <2>1, <2>7, <3>1 DEF Settled, Enough
    <3> QED
      BY <2>7, <3>2, <3>3
  <2> QED
    BY <2>3, <2>5, <2>6, <2>7
<1> QED
  BY <1>1, <1>4, <1>5

\* What the pruning rule leaves out.
LEMMA PrunedIsSettled ==
    ASSUME BuildInv, query \in Queries, alpha \in Stretches,
           NEW p \in DOMAIN tree, tree[p].bucket = {}, NEW side \in Sides,
           NEW R, Fitting(R),
           side \notin Classify(D[tree[p].pivot], Radius(R), tree[p].median),
           NEW x \in Objs(Append(p, side))
    PROVE  /\ Enough(R, x)
           /\ alpha = Default /\ x \notin R => Settled(R, x)
<1>1. PICK v, m : v = tree[p].pivot /\ m = tree[p].median
  OBVIOUS
<1>2. /\ v \in Objects /\ m \in Nat /\ WithinReach(m)
      /\ data \in [Objects -> Points] /\ R \in SUBSET Objects
  BY <1>1, HeldAre DEF BuildInv, TreeTyped, Fitting
<1>3. x \in Objects /\ Fits(p, side, x)
  BY ChildrenFit
<1>4. /\ D[v] \in Nat /\ D[x] \in Nat /\ D[x] <= DistMax /\ \A y \in Objects : D[y] \in Nat
      /\ \E a, b \in Points : D[v] = Distance[a][b]
      /\ Between(v, x) \in Nat /\ Between(v, x) <= D[v] + D[x]
      /\ D[v] <= D[x] + Between(x, v)
      /\ D[x] <= D[v] + Between(v, x)
  BY <1>2, <1>3, Distances
<1>5. Between(x, v) = Between(v, x)
  <2>1. data[x] \in Points /\ data[v] \in Points
    BY <1>2, <1>3
  <2> QED
    BY <2>1, VPTreeAssumption DEF Between
<1>6. /\ query.kind \in {"knn", "range"} /\ query.limit \in Nat
      /\ query.kind = "knn" => query.limit # 0
  BY QueriesAre
<1> HIDE DEF D
<1>7. PICK r : r = Radius(R)
  OBVIOUS
<1>8. \/ query.kind = "range" /\ r = query.limit
      \/ query.kind = "knn" /\ Cardinality(R) < query.limit /\ r = DistMax
      \/ /\ query.kind = "knn" /\ Cardinality(R) >= query.limit
         /\ r \in Nat /\ \A y \in R : D[y] <= r
  <2>1. Cardinality(R) \in Nat /\ (R = {} => Cardinality(R) = 0)
    BY <1>2, SomeObjects, FS_EmptySet
  <2>2. CASE query.kind = "range"
    BY <1>7, <2>2 DEF Radius
  <2>3. CASE query.kind = "knn" /\ Cardinality(R) < query.limit
    BY <1>7, <2>3 DEF Radius
  <2>4. CASE query.kind = "knn" /\ Cardinality(R) >= query.limit
    <3>1. R # {}
      BY <1>6, <2>1, <2>4
    <3>2. Farthest(D, R) \in R /\ \A y \in R : D[y] <= D[Farthest(D, R)]
      BY <1>2, <1>4, <3>1, FarthestIs
    <3>3. r = D[Farthest(D, R)]
      BY <1>6, <1>7, <2>1, <2>4 DEF Radius
    <3> QED
      BY <1>2, <1>4, <2>4, <3>2, <3>3
  <2> QED
    BY <1>6, <2>1, <2>2, <2>3, <2>4
<1>9. r \in Nat
  BY <1>6, <1>8, VPTreeAssumption
<1>10. \/ side = "right" /\ D[v] <= m /\ r < alpha.left * (m - D[v])
       \/ side = "left" /\ D[v] >= m /\ r < alpha.right * (D[v] - m)
  BY <1>1, <1>7 DEF Classify, Sides
<1>11. r < DistMax
  <2>1. CASE D[v] <= m /\ r < alpha.left * (m - D[v])
    <3>1. PICK a, b \in Points : m <= Distance[a][b]
      BY <1>2 DEF WithinReach
    <3>2. m - D[v] \in Int /\ m - D[v] <= m
      BY <1>2, <1>4
    <3>3. alpha.left * (m - D[v]) <= DistMax
      BY <1>2, <3>1, <3>2, Stretching
    <3>4. PICK c : c = alpha.left * (m - D[v])
      OBVIOUS
    <3>5. alpha.left \in Nat
      BY VPTreeAssumption
    <3>6. c \in Int /\ DistMax \in Nat
      BY <3>2, <3>4, <3>5, VPTreeAssumption
    <3> QED
      BY <1>9, <2>1, <3>3, <3>4, <3>6
  <2>2. CASE D[v] >= m /\ r < alpha.right * (D[v] - m)
    <3>1. PICK a, b \in Points : D[v] = Distance[a][b]
      BY <1>4
    <3>2. D[v] - m \in Int /\ D[v] - m <= D[v] /\ D[v] <= Distance[a][b]
      BY <1>2, <1>4, <3>1
    <3>3. alpha.right * (D[v] - m) <= DistMax
      BY <1>4, <3>2, Stretching
    <3>4. PICK c : c = alpha.right * (D[v] - m)
      OBVIOUS
    <3>5. alpha.right \in Nat
      BY VPTreeAssumption
    <3>6. c \in Int /\ DistMax \in Nat
      BY <3>2, <3>4, <3>5, VPTreeAssumption
    <3> QED
      BY <1>9, <2>2, <3>3, <3>4, <3>6
  <2> QED
    BY <1>10, <2>1, <2>2
<1>12. Enough(R, x)
  <2>1. r # DistMax
    BY <1>9, <1>11, VPTreeAssumption
  <2> QED
    BY <1>8, <2>1 DEF Enough
<1>13. ASSUME alpha = Default, x \notin R PROVE Settled(R, x)
  <2>1. r < D[x]
    <3>1. alpha.left = 1 /\ alpha.right = 1
      BY <1>13 DEF Default
    <3>2. side = "right" => Between(v, x) >= m
      BY <1>1, <1>3 DEF Fits
    <3>3. side = "left" => Between(v, x) <= m
      BY <1>1, <1>3 DEF Fits
    <3>4. PICK dv, dx, b \in Nat : dv = D[v] /\ dx = D[x] /\ b = Between(v, x)
      BY <1>4
    <3>5. \/ b >= m /\ r < m - dv
          \/ b <= m /\ r < dv - m
      BY <1>2, <1>4, <1>10, <3>1, <3>2, <3>3, <3>4
    <3>6. b <= dv + dx /\ dv <= dx + b
      BY <1>4, <1>5, <3>4
    <3>7. r < dx
      BY <1>2, <1>9, <3>5, <3>6
    <3> QED
      BY <3>4, <3>7
  <2>2. CASE query.kind = "range"
    BY <1>4, <1>6, <1>8, <1>13, <2>1, <2>2 DEF Settled
  <2>3. CASE query.kind = "knn"
    <3>1. Cardinality(R) >= query.limit /\ \A y \in R : D[y] <= r
      BY <1>8, <1>9, <1>11, <2>3, VPTreeAssumption
    <3>2. \A y \in R : D[y] <= D[x]
      BY <1>2, <1>4, <1>9, <2>1, <3>1
    <3> QED
      BY <2>3, <3>1, <3>2 DEF Settled
  <2> QED
    BY <1>6, <2>2, <2>3
<1> QED
  BY <1>12, <1>13

-----------------------------------------------------------------------------
(* The search.                                                             *)

Act == [call : {"enter", "scan", "second"}, at : Paths, rest : SUBSET Objects]

\* An activation stands at a node, in the second call at a split.
Sound(a) ==
    a \in Act /\ a.at \in DOMAIN tree /\ (a.call = "second" => tree[a.at].bucket = {})

\* The objects an activation has yet to look at.
Region(a) ==
    IF a.call = "scan" THEN a.rest
    ELSE IF a.call = "enter" THEN Objs(a.at)
    ELSE Objs(Append(a.at, Far(a.at)))

SearchTyped ==
    /\ maxLeaves \in LeafBounds /\ alpha \in Stretches
    /\ query \in Queries \cup {Nothing}
    /\ query # Nothing => Built
    /\ query = Nothing => stack = <<>> /\ leaves = 0 /\ result = {}
    /\ stack \in Seq(Act) /\ \A i \in 1 .. Len(stack) : Sound(stack[i])
    /\ leaves \in Int /\ leaves <= Unlimited /\ (leaves < 0 => leaves = maxLeaves)
    /\ result \subseteq Objects

\* No object is looked at twice.
Apart ==
    /\ \A i, j \in 1 .. Len(stack) : i # j => Region(stack[i]) \cap Region(stack[j]) = {}
    /\ \A i \in 1 .. Len(stack) : Region(stack[i]) \cap result = {}

\* With leaves to spare, every object is yet to be looked at or was treated as
\* it should.
Progress ==
    query # Nothing =>
        /\ Fitting(result)
        /\ leaves > 0 => \A x \in Objects :
            Enough(result, x) \/ \E i \in 1 .. Len(stack) : x \in Region(stack[i])
        /\ leaves > 0 /\ alpha = Default => \A x \in Objects :
            Settled(result, x) \/ \E i \in 1 .. Len(stack) : x \in Region(stack[i])

SearchInv == SearchTyped /\ Apart /\ Progress

\* One step of the recursion: the activation at the top makes way for those in
\* c, which share what it had to look at.
Disjoint(c, R) ==
    /\ \A i \in 1 .. Len(c) :
        Sound(c[i]) /\ Region(c[i]) \subseteq Region(Top) /\ Region(c[i]) \cap R = {}
    /\ \A i, j \in 1 .. Len(c) : i # j => Region(c[i]) \cap Region(c[j]) = {}

Open(c, x) == \E i \in 1 .. Len(c) : x \in Region(c[i])

Moves(c) ==
    /\ stack # <<>> /\ c \in Seq(Act) /\ stack' = c \o Tail(stack)
    /\ Disjoint(c, result')
    /\ Fitting(result') /\ result' \subseteq result \cup Region(Top)
    /\ leaves' \in Int /\ leaves' <= leaves /\ (leaves' < 0 => leaves' = leaves)
    /\ leaves' > 0 => \A x \in Objects :
        Enough(result, x) \/ x \in Region(Top) => Enough(result', x) \/ Open(c, x)
    /\ leaves' > 0 /\ alpha = Default => \A x \in Objects :
        Settled(result, x) \/ x \in Region(Top) => Settled(result', x) \/ Open(c, x)
    /\ UNCHANGED <<index, params, query>>

\* What a step of the recursion leaves as it is.
LEMMA SameQuery ==
    ASSUME UNCHANGED <<index, params, query>>
    PROVE  /\ \A a : Region(a)' = Region(a) /\ (Sound(a)' <=> Sound(a))
           /\ \A R : Fitting(R)' <=> Fitting(R)
           /\ \A R, x : (Enough(R, x)' <=> Enough(R, x)) /\ (Settled(R, x)' <=> Settled(R, x))
           /\ Built' <=> Built
<1>1. data' = data /\ tree' = tree /\ pending' = pending /\ query' = query
  BY DEF index
<1>2. D' = D
  BY <1>1 DEF D
<1>3. \A p : Held(p)' = Held(p)
  BY <1>1 DEF Held
<1>4. \A p : Objs(p)' = Objs(p)
  BY <1>1, <1>3 DEF Objs
<1>5. \A p : Far(p)' = Far(p)
  BY <1>1, <1>2 DEF Far, Near
<1>6. \A a : Region(a)' = Region(a)
  BY <1>4, <1>5 DEF Region
<1>7. \A a : Sound(a)' <=> Sound(a)
  BY <1>1 DEF Sound
<1>8. \A R : Fitting(R)' <=> Fitting(R)
  BY <1>1 DEF Fitting
<1>9. \A R, x : (Enough(R, x)' <=> Enough(R, x)) /\ (Settled(R, x)' <=> Settled(R, x))
  BY <1>1, <1>2 DEF Enough, Settled
<1>10. Built' <=> Built
  BY <1>1 DEF Built
<1> QED
  BY <1>6, <1>7, <1>8, <1>9, <1>10

\* The first activation.
LEMMA TopIs ==
    ASSUME stack \in Seq(Act), stack # <<>>
    PROVE  /\ Len(stack) \in Nat /\ 1 \in 1 .. Len(stack) /\ Top = stack[1]
           /\ 2 .. Len(stack) \subseteq 1 .. Len(stack)
           /\ \A i \in 1 .. Len(stack) : i = 1 \/ i \in 2 .. Len(stack)
<1>1. Len(stack) \in Nat \ {0}
  BY EmptySeq
<1> QED
  BY <1>1 DEF Top

LEMMA MovesKeepTypes ==
    ASSUME SearchTyped, query # Nothing, NEW c, Moves(c)
    PROVE  SearchTyped'
<1>1. stack \in Seq(Act) /\ stack # <<>> /\ c \in Seq(Act) /\ stack' = c \o Tail(stack)
  BY DEF SearchTyped, Moves
<1>2. stack' \in Seq(Act) /\ Replaces(stack', c, stack)
  BY <1>1, Replaced
<1>3. UNCHANGED <<index, params, query>>
  BY DEF Moves
<1>4. (\A a : Sound(a)' <=> Sound(a)) /\ (Built' <=> Built)
  BY <1>3, SameQuery
<1>5. \A i \in 1 .. Len(c) : Sound(c[i])
  BY DEF Moves, Disjoint
<1>6. \A i \in 1 .. Len(stack') : Sound(stack'[i])
  <2>1. \A j \in 2 .. Len(stack) : Sound(stack[j])
    BY <1>1, TopIs DEF SearchTyped
  <2> QED
    BY <1>2, <1>5, <2>1 DEF Replaces
<1>7. /\ leaves' \in Int /\ leaves' <= Unlimited
      /\ leaves' < 0 => leaves' = maxLeaves
  <2>1. leaves \in Int /\ leaves <= Unlimited /\ (leaves < 0 => leaves = maxLeaves)
    BY DEF SearchTyped
  <2>2. leaves' \in Int /\ leaves' <= leaves /\ (leaves' < 0 => leaves' = leaves)
    BY DEF Moves
  <2> QED
    BY <2>1, <2>2, Bounds
<1>8. result' \subseteq Objects
  BY DEF Moves, Fitting
<1>9. maxLeaves' = maxLeaves /\ alpha' = alpha /\ query' = query
  BY <1>3 DEF params
<1> HIDE DEF Act
<1> QED
  BY <1>2, <1>4, <1>6, <1>7, <1>8, <1>9 DEF SearchTyped

LEMMA MovesKeepApart ==
    ASSUME SearchTyped, Apart, NEW c, Moves(c)
    PROVE  Apart'
<1>1. stack \in Seq(Act) /\ stack # <<>> /\ c \in Seq(Act) /\ stack' = c \o Tail(stack)
  BY DEF SearchTyped, Moves
<1>2. Replaces(stack', c, stack) /\ Len(c) \in Nat
  BY <1>1, Replaced, LenProperties
<1>3. \A a : Region(a)' = Region(a)
  BY SameQuery DEF Moves
<1>4. Disjoint(c, result') /\ result' \subseteq result \cup Region(Top)
  BY DEF Moves
<1>5. ASSUME NEW j \in 2 .. Len(stack)
      PROVE  /\ Region(stack[j]) \cap Region(Top) = {}
             /\ Region(stack[j]) \cap result' = {}
  <2>1. j \in 1 .. Len(stack) /\ 1 \in 1 .. Len(stack) /\ j # 1 /\ Top = stack[1]
    BY <1>1, TopIs
  <2>2. Region(stack[j]) \cap Region(Top) = {} /\ Region(stack[j]) \cap result = {}
    BY <2>1 DEF Apart
  <2> QED
    BY <1>4, <2>2
<1>6. \A i \in 1 .. Len(stack') :
        \/ i \in 1 .. Len(c) /\ stack'[i] = c[i]
        \/ i - Len(c) + 1 \in 2 .. Len(stack) /\ stack'[i] = stack[i - Len(c) + 1]
  BY <1>2 DEF Replaces
<1>7. ASSUME NEW i \in 1 .. Len(stack') PROVE Region(stack'[i]) \cap result' = {}
  <2>1. CASE i \in 1 .. Len(c) /\ stack'[i] = c[i]
    BY <1>4, <2>1 DEF Disjoint
  <2>2. CASE i - Len(c) + 1 \in 2 .. Len(stack) /\ stack'[i] = stack[i - Len(c) + 1]
    BY <1>5, <2>2
  <2> QED
    BY <1>6, <2>1, <2>2
<1>8. ASSUME NEW i \in 1 .. Len(c), NEW j \in 2 .. Len(stack)
      PROVE  Region(c[i]) \cap Region(stack[j]) = {}
  BY <1>4, <1>5 DEF Disjoint
<1>9. ASSUME NEW i \in 1 .. Len(stack'), NEW j \in 1 .. Len(stack'), i # j
      PROVE  Region(stack'[i]) \cap Region(stack'[j]) = {}
  <2>1. CASE i \in 1 .. Len(c) /\ stack'[i] = c[i] /\ j \in 1 .. Len(c) /\ stack'[j] = c[j]
    BY <1>4, <1>9, <2>1 DEF Disjoint
  <2>2. CASE /\ i \in 1 .. Len(c) /\ stack'[i] = c[i]
             /\ j - Len(c) + 1 \in 2 .. Len(stack) /\ stack'[j] = stack[j - Len(c) + 1]
    BY <1>8, <2>2
  <2>3. CASE /\ j \in 1 .. Len(c) /\ stack'[j] = c[j]
             /\ i - Len(c) + 1 \in 2 .. Len(stack) /\ stack'[i] = stack[i - Len(c) + 1]
    BY <1>8, <2>3
  <2>4. CASE /\ i - Len(c) + 1 \in 2 .. Len(stack) /\ stack'[i] = stack[i - Len(c) + 1]
             /\ j - Len(c) + 1 \in 2 .. Len(stack) /\ stack'[j] = stack[j - Len(c) + 1]
    <3>1. i - Len(c) + 1 # j - Len(c) + 1
      BY <1>2, <1>9
    <3>2. i - Len(c) + 1 \in 1 .. Len(stack) /\ j - Len(c) + 1 \in 1 .. Len(stack)
      BY <1>1, <2>4, TopIs
    <3> QED
      BY <2>4, <3>1, <3>2 DEF Apart
  <2> QED
    BY <1>6, <2>1, <2>2, <2>3, <2>4
<1> QED
  BY <1>3, <1>7, <1>9 DEF Apart

\* What was open is open in what remains of the stack or was the activation's.
LEMMA OpenMoves ==
    ASSUME SearchTyped, NEW c, Moves(c), NEW x
    PROVE  /\ Open(stack, x) => x \in Region(Top) \/ Open(stack', x)
           /\ Open(c, x) => Open(stack', x)
<1>1. stack \in Seq(Act) /\ stack # <<>> /\ c \in Seq(Act) /\ stack' = c \o Tail(stack)
  BY DEF SearchTyped, Moves
<1>2. Replaces(stack', c, stack)
  BY <1>1, Replaced
<1>3. Top = stack[1] /\ \A i \in 1 .. Len(stack) : i = 1 \/ i \in 2 .. Len(stack)
  BY <1>1, TopIs
<1> QED
  BY <1>2, <1>3 DEF Open, Replaces

LEMMA MovesKeepProgress ==
    ASSUME SearchTyped, Progress, query # Nothing, NEW c, Moves(c)
    PROVE  Progress'
<1>1. /\ \A a : Region(a)' = Region(a)
      /\ \A R : Fitting(R)' <=> Fitting(R)
      /\ \A R, x : (Enough(R, x)' <=> Enough(R, x)) /\ (Settled(R, x)' <=> Settled(R, x))
  BY SameQuery DEF Moves
<1>2. Fitting(result') /\ leaves \in Int /\ leaves' \in Int /\ leaves' <= leaves /\ alpha' = alpha
  BY DEF Moves, SearchTyped, params
<1>3. ASSUME leaves' > 0, NEW x \in Objects
      PROVE  Enough(result', x) \/ Open(stack', x)
  <2>1. Enough(result, x) \/ Open(stack, x)
    BY <1>2, <1>3 DEF Progress, Open
  <2>2. Enough(result, x) \/ x \in Region(Top) => Enough(result', x) \/ Open(c, x)
    BY <1>3 DEF Moves
  <2> QED
    BY <2>1, <2>2, OpenMoves
<1>4. ASSUME leaves' > 0, alpha = Default, NEW x \in Objects
      PROVE  Settled(result', x) \/ Open(stack', x)
  <2>1. Settled(result, x) \/ Open(stack, x)
    BY <1>2, <1>4 DEF Progress, Open
  <2>2. Settled(result, x) \/ x \in Region(Top) => Settled(result', x) \/ Open(c, x)
    BY <1>4 DEF Moves
  <2> QED
    BY <2>1, <2>2, OpenMoves
<1> QED
  BY <1>1, <1>2, <1>3, <1>4 DEF Progress, Open

LEMMA MovesKeep ==
    ASSUME SearchInv, query # Nothing, NEW c, Moves(c)
    PROVE  SearchInv'
BY MovesKeepTypes, MovesKeepApart, MovesKeepProgress DEF SearchInv

LEMMA SidesAre ==
    ASSUME NEW p
    PROVE  Near(p) \in Sides /\ Far(p) \in Sides /\ Near(p) # Far(p)
BY DEF Near, Far, Sides

\* The call of a child, and what is left out when there is no call.
LEMMA CallIs ==
    ASSUME BuildInv, query \in Queries, alpha \in Stretches,
           NEW p \in DOMAIN tree, tree[p].bucket = {}, NEW side \in Sides,
           NEW R, Fitting(R), NEW a, a = Activation("enter", Append(p, side), {})
    PROVE  /\ Call(p, side, R) = <<a>> \/ Call(p, side, R) = <<>>
           /\ Call(p, side, R) = <<a>> => Sound(a) /\ Region(a) = Objs(Append(p, side))
           /\ Call(p, side, R) = <<>> => \A x \in Objs(Append(p, side)) :
               Enough(R, x) /\ (alpha = Default /\ x \notin R => Settled(R, x))
<1>1. <<a>> # <<>>
  OBVIOUS
<1>2. CASE /\ Append(p, side) \in DOMAIN tree
           /\ side \in Classify(D[tree[p].pivot], Radius(R), tree[p].median)
  <2>1. Call(p, side, R) = <<a>>
    BY <1>2 DEF Call
  <2>2. Append(p, side) \in Paths
    BY HeldAre, ChildPaths
  <2>3. a \in Act /\ a.call = "enter" /\ a.at = Append(p, side)
    BY <2>2 DEF Act, Activation
  <2> QED
    BY <1>1, <1>2, <2>1, <2>3 DEF Sound, Region
<1>3. CASE Append(p, side) \notin DOMAIN tree
  <2>1. Call(p, side, R) = <<>>
    BY <1>3 DEF Call
  <2>2. Objs(Append(p, side)) = {}
    BY <1>3, MissingChild
  <2> QED
    BY <1>1, <2>1, <2>2
<1>4. CASE /\ Append(p, side) \in DOMAIN tree
           /\ side \notin Classify(D[tree[p].pivot], Radius(R), tree[p].median)
  <2>1. Call(p, side, R) = <<>>
    BY <1>4 DEF Call
  <2> QED
    BY <1>1, <1>4, <2>1, PrunedIsSettled
<1> QED
  BY <1>2, <1>3, <1>4

\* One activation or none.
LEMMA OneOrNone ==
    ASSUME NEW a
    PROVE  /\ Len(<<a>>) = 1 /\ <<a>>[1] = a /\ (\A i \in 1 .. Len(<<a>>) : <<a>>[i] = a)
           /\ \A i, j \in 1 .. Len(<<a>>) : i = j
           /\ a \in Act => <<a>> \in Seq(Act)
           /\ \A x : Open(<<a>>, x) <=> x \in Region(a)
           /\ <<>> \in Seq(Act) /\ Len(<<>>) = 0 /\ (\A i \in 1 .. Len(<<>>) : FALSE)
           /\ \A x : ~ Open(<<>>, x)
<1>1. PICK s : s = <<a>>
  OBVIOUS
<1>2. Len(s) = 1 /\ s[1] = a
  BY <1>1
<1>3. 1 \in 1 .. Len(s) /\ \A i \in 1 .. Len(s) : i = 1
  BY <1>2
<1>4. \A x : Open(s, x) <=> x \in Region(a)
  BY <1>2, <1>3 DEF Open
<1>5. a \in Act => s \in Seq(Act)
  <2> HIDE DEF Act
  <2> QED
    BY <1>1
<1>6. PICK e : e = <<>>
  OBVIOUS
<1>7. Len(e) = 0 /\ \A i \in 1 .. Len(e) : FALSE
  <2>1. Len(e) = 0
    BY <1>6
  <2> QED
    BY <2>1
<1>8. \A x : ~ Open(e, x)
  BY <1>7 DEF Open
<1>9. <<>> \in Seq(Act)
  BY EmptySeq
<1> QED
  BY <1>1, <1>2, <1>3, <1>4, <1>5, <1>6, <1>7, <1>8, <1>9

\* The budget is exhausted.
LEMMA StopMoves ==
    ASSUME SearchInv, query # Nothing, Enter, leaves <= 0, stack' = Tail(stack),
           leaves' = leaves, result' = result
    PROVE  Moves(<<>>)
<1>1. stack \in Seq(Act) /\ stack # <<>>
  BY DEF SearchInv, SearchTyped, Enter
<1>2. stack' = <<>> \o Tail(stack)
  <2>1. Tail(stack) \in Seq(Act)
    BY <1>1, HeadTailProperties
  <2> QED
    BY <2>1, ConcatEmptySeq
<1>3. UNCHANGED <<index, params, query>> /\ Fitting(result) /\ leaves \in Int
  BY DEF Enter, SearchInv, SearchTyped, Progress
<1> QED
  BY <1>1, <1>2, <1>3, OneOrNone DEF Moves, Disjoint

LEMMA BucketMoves ==
    ASSUME BuildInv, SearchInv, query # Nothing, stack # <<>>, Top.call = "enter",
           tree[Top.at].bucket # {},
           leaves > 0, leaves' = leaves - 1, result' = result,
           NEW a, a = Activation("scan", Top.at, tree[Top.at].bucket),
           stack' = <<a>> \o Tail(stack), UNCHANGED <<index, params, query>>
    PROVE  Moves(<<a>>)
<1>1. /\ stack \in Seq(Act) /\ Sound(Top) /\ Region(Top) \cap result = {}
      /\ leaves \in Int /\ Fitting(result)
  BY TopIs DEF SearchInv, SearchTyped, Apart, Progress
<1>2. Top.at \in DOMAIN tree /\ tree[Top.at].bucket \subseteq Objects /\ Top.at \in Paths
  BY <1>1, HeldAre DEF Sound
<1>3. a \in Act /\ a.call = "scan" /\ a.at = Top.at /\ a.rest = tree[Top.at].bucket
  BY <1>2 DEF Act, Activation
<1>4. Sound(a)
  BY <1>2, <1>3 DEF Sound
<1>5. Region(a) = Region(Top)
  <2>1. Region(Top) = Objs(Top.at)
    BY DEF Region
  <2> QED
    BY <1>2, <1>3, <2>1, BucketsHaveNoChildren DEF Region
<1>6. Disjoint(<<a>>, result')
  BY <1>1, <1>4, <1>5, OneOrNone DEF Disjoint
<1>7. leaves' \in Int /\ leaves' <= leaves /\ ~ (leaves' < 0)
  BY <1>1
<1> QED
  BY <1>1, <1>3, <1>5, <1>6, <1>7, OneOrNone DEF Moves

LEMMA SecondMoves ==
    ASSUME BuildInv, SearchInv, query # Nothing, Second
    PROVE  Moves(Call(Top.at, Far(Top.at), result))
<1>1. stack # <<>> /\ Top.call = "second"
  BY DEF Second
<1>2. /\ stack \in Seq(Act) /\ Sound(Top) /\ Region(Top) \cap result = {}
      /\ leaves \in Int /\ Fitting(result) /\ query \in Queries /\ alpha \in Stretches
  BY <1>1, TopIs DEF SearchInv, SearchTyped, Apart, Progress
<1>3. PICK p, side : p = Top.at /\ side = Far(Top.at)
  OBVIOUS
<1>4. p \in DOMAIN tree /\ tree[p].bucket = {} /\ side \in Sides
  BY <1>1, <1>2, <1>3, SidesAre DEF Sound
<1>5. Region(Top) = Objs(Append(p, side))
  BY <1>1, <1>3 DEF Region
<1>6. PICK a, c : a = Activation("enter", Append(p, side), {}) /\ c = Call(p, side, result)
  OBVIOUS
<1>7. /\ c = <<a>> \/ c = <<>>
      /\ c = <<a>> => Sound(a) /\ Region(a) = Objs(Append(p, side))
      /\ c = <<>> => \A x \in Objs(Append(p, side)) :
          Enough(result, x) /\ (alpha = Default /\ x \notin result => Settled(result, x))
  BY <1>2, <1>4, <1>6, CallIs
<1>8. /\ stack' = c \o Tail(stack) /\ result' = result /\ leaves' = leaves
      /\ UNCHANGED <<index, params, query>>
  BY <1>3, <1>6 DEF Second
<1>9. CASE c = <<a>>
  <2>1. Disjoint(c, result')
    BY <1>2, <1>5, <1>7, <1>8, <1>9, OneOrNone DEF Disjoint
  <2>2. c \in Seq(Act)
    BY <1>7, <1>9, OneOrNone DEF Sound
  <2> QED
    BY <1>1, <1>2, <1>3, <1>5, <1>6, <1>7, <1>8, <1>9, <2>1, <2>2, OneOrNone DEF Moves
<1>10. CASE c = <<>>
  <2>1. Disjoint(c, result')
    BY <1>10, OneOrNone DEF Disjoint
  <2>2. \A x \in Region(Top) : Enough(result, x) /\ (alpha = Default => Settled(result, x))
    BY <1>2, <1>5, <1>7, <1>10
  <2>3. c \in Seq(Act)
    BY <1>10, OneOrNone
  <2> QED
    BY <1>1, <1>2, <1>3, <1>6, <1>8, <2>1, <2>2, <2>3 DEF Moves
<1> QED
  BY <1>7, <1>9, <1>10

LEMMA ScanMoves ==
    ASSUME BuildInv, SearchInv, query # Nothing, Scan
    PROVE  \E c : Moves(c)
<1>1. stack # <<>> /\ Top.call = "scan"
  BY DEF Scan
<1>2. /\ stack \in Seq(Act) /\ Sound(Top) /\ Region(Top) \cap result = {}
      /\ leaves \in Int /\ Fitting(result) /\ query \in Queries
      /\ data \in [Objects -> Points]
  BY <1>1, TopIs DEF SearchInv, SearchTyped, Apart, Progress, BuildInv, TreeTyped
<1>3. Region(Top) = Top.rest /\ Top.rest \subseteq Objects /\ Top.at \in Paths /\ Top.at \in DOMAIN tree
  BY <1>1, <1>2 DEF Region, Sound, Act
<1>4. PICK x \in Top.rest :
        /\ result' = Checked(result, x)
        /\ stack' = (IF Top.rest = {x} THEN <<>>
                     ELSE <<Activation("scan", Top.at, Top.rest \ {x})>>) \o Tail(stack)
  BY DEF Scan
<1>5. x \in Objects /\ x \notin result
  BY <1>2, <1>3
<1>6. /\ Fitting(result') /\ result' \subseteq result \cup {x}
      /\ Enough(result', x) /\ Settled(result', x)
      /\ \A y \in Objects : Enough(result, y) => Enough(result', y)
      /\ \A y \in Objects : y # x /\ Settled(result, y) => Settled(result', y)
  BY <1>2, <1>4, <1>5, CheckedKeeps
<1>7. leaves' = leaves /\ UNCHANGED <<index, params, query>>
  BY DEF Scan
<1>8. CASE Top.rest = {x}
  <2>1. stack' = <<>> \o Tail(stack)
    BY <1>4, <1>8
  <2>2. Disjoint(<<>>, result')
    BY OneOrNone DEF Disjoint
  <2>3. Moves(<<>>)
    BY <1>1, <1>2, <1>3, <1>6, <1>7, <1>8, <2>1, <2>2, OneOrNone DEF Moves
  <2> QED
    BY <2>3
<1>9. CASE Top.rest # {x}
  <2>1. PICK a : a = Activation("scan", Top.at, Top.rest \ {x})
    OBVIOUS
  <2>2. a \in Act /\ a.call = "scan" /\ a.at = Top.at /\ a.rest = Top.rest \ {x}
    BY <1>3, <2>1 DEF Act, Activation
  <2>3. Sound(a) /\ Region(a) = Region(Top) \ {x}
    BY <1>3, <2>2 DEF Sound, Region
  <2>4. stack' = <<a>> \o Tail(stack)
    BY <1>4, <1>9, <2>1
  <2>5. Disjoint(<<a>>, result')
    BY <1>2, <1>6, <2>3, OneOrNone DEF Disjoint
  <2>6. ASSUME NEW y \in Objects
        PROVE  /\ Enough(result, y) \/ y \in Region(Top) => Enough(result', y) \/ Open(<<a>>, y)
               /\ Settled(result, y) \/ y \in Region(Top) => Settled(result', y) \/ Open(<<a>>, y)
    <3>1. CASE y = x
      BY <1>6, <3>1
    <3>2. CASE y # x
      BY <1>6, <2>3, <3>2, OneOrNone
    <3> QED
      BY <3>1, <3>2
  <2>7. result' \subseteq result \cup Region(Top)
    BY <1>3, <1>6
  <2>8. <<a>> \in Seq(Act)
    BY <2>2, OneOrNone
  <2>9. Moves(<<a>>)
    BY <1>1, <1>2, <1>6, <1>7, <2>4, <2>5, <2>6, <2>7, <2>8 DEF Moves
  <2> QED
    BY <2>9
<1> QED
  BY <1>8, <1>9

\* Two activations.
Two(c, a, b) ==
    /\ \A i \in 1 .. Len(c) : c[i] = a \/ c[i] = b
    /\ \A i, j \in 1 .. Len(c) :
        i # j => (c[i] = a /\ c[j] = b) \/ (c[i] = b /\ c[j] = a)

LEMMA TwoAre ==
    ASSUME NEW a \in Act, NEW b \in Act, NEW c, c = <<a>> \o <<b>>
    PROVE  /\ c \in Seq(Act) /\ Two(c, a, b)
           /\ \A x : Open(c, x) <=> x \in Region(a) \/ x \in Region(b)
<1> HIDE DEF Act
<1>1. c \in Seq(Act) /\ Len(c) = 2 /\ c[1] = a /\ c[2] = b
  OBVIOUS
<1>2. 1 \in 1 .. Len(c) /\ 2 \in 1 .. Len(c) /\ \A i \in 1 .. Len(c) : i = 1 \/ i = 2
  BY <1>1
<1>3. \A x : Open(c, x) <=> x \in Region(a) \/ x \in Region(b)
  BY <1>1, <1>2 DEF Open
<1>4. \A i, j \in 1 .. Len(c) :
        i # j => (c[i] = a /\ c[j] = b) \/ (c[i] = b /\ c[j] = a)
  BY <1>1, <1>2
<1>5. Two(c, a, b)
  BY <1>1, <1>2, <1>4 DEF Two
<1> QED
  BY <1>1, <1>3, <1>5

\* The call of the nearer child and the one to come of the other child share
\* what is below a split.
LEMMA SplitMoves ==
    ASSUME BuildInv, SearchInv, query # Nothing, Enter, leaves > 0,
           NEW p, p = Top.at, tree[p].bucket = {}
    PROVE  \E c : Moves(c)
<1>0. PICK R : R = Checked(result, tree[p].pivot)
  OBVIOUS
<1>1. /\ stack \in Seq(Act) /\ Sound(Top) /\ Region(Top) \cap result = {}
      /\ leaves \in Int /\ Fitting(result) /\ query \in Queries /\ alpha \in Stretches
      /\ data \in [Objects -> Points] /\ stack # <<>> /\ Top.call = "enter"
      /\ UNCHANGED <<index, params, query>>
  <2>1. stack # <<>> /\ Top.call = "enter" /\ UNCHANGED <<index, params, query>>
    BY DEF Enter
  <2>2. /\ stack \in Seq(Act) /\ Sound(Top) /\ Region(Top) \cap result = {}
        /\ leaves \in Int /\ Fitting(result) /\ query \in Queries /\ alpha \in Stretches
    BY <2>1, TopIs DEF SearchInv, SearchTyped, Apart, Progress
  <2>3. data \in [Objects -> Points]
    BY DEF BuildInv, TreeTyped
  <2> QED
    BY <2>1, <2>2, <2>3
<1>18. /\ result' = R /\ leaves' = leaves
       /\ stack' = Call(p, Near(p), R) \o (<<Activation("second", p, {})>> \o Tail(stack))
  <2>1. tree[Top.at].bucket = {} /\ R = Checked(result, tree[Top.at].pivot)
    BY <1>0
  <2>2. ~ (leaves <= 0)
    BY <1>1
  <2>3. /\ result' = R /\ leaves' = leaves
        /\ stack' = Call(Top.at, Near(Top.at), R)
                    \o (<<Activation("second", Top.at, {})>> \o Tail(stack))
    BY <2>1, <2>2 DEF Enter
  <2> QED
    BY <2>3
<1>2. PICK x, s, t : x = tree[p].pivot /\ s = Near(p) /\ t = Far(p)
  OBVIOUS
<1>3. s \in Sides /\ t \in Sides /\ s # t
  BY <1>2, SidesAre
<1>4. p \in DOMAIN tree /\ p \in Paths /\ x \in Objects
  BY <1>1, <1>2, HeldAre DEF Sound
<1>5. PICK N, F : N = Objs(Append(p, s)) /\ F = Objs(Append(p, t))
  OBVIOUS
<1>6. /\ Region(Top) = {x} \cup N \cup F
      /\ x \notin N /\ x \notin F /\ N \cap F = {}
  <2>1. Region(Top) = Objs(p)
    BY <1>1 DEF Region
  <2> QED
    BY <1>2, <1>3, <1>4, <1>5, <2>1, SplitsAre
<1>7. x \notin result
  BY <1>1, <1>6
<1>8. /\ Fitting(R) /\ R \subseteq result \cup {x}
      /\ Enough(R, x) /\ Settled(R, x)
      /\ \A y \in Objects : Enough(result, y) => Enough(R, y)
      /\ \A y \in Objects : y # x /\ Settled(result, y) => Settled(R, y)
  BY <1>0, <1>1, <1>2, <1>4, <1>7, CheckedKeeps
<1>9. PICK a, b, f : /\ a = Activation("enter", Append(p, s), {})
                     /\ b = Activation("second", p, {})
                     /\ f = Call(p, s, R)
  OBVIOUS
<1>10. b \in Act /\ Sound(b) /\ Region(b) = F
  <2>1. b \in Act /\ b.call = "second" /\ b.at = p
    BY <1>4, <1>9 DEF Act, Activation
  <2> QED
    BY <1>2, <1>4, <1>5, <2>1 DEF Sound, Region
<1>11. /\ f = <<a>> \/ f = <<>>
       /\ f = <<a>> => Sound(a) /\ Region(a) = N
       /\ f = <<>> => \A y \in N : Enough(R, y) /\ (alpha = Default /\ y \notin R => Settled(R, y))
  BY <1>1, <1>3, <1>4, <1>5, <1>8, <1>9, CallIs
<1>12. stack' = f \o (<<b>> \o Tail(stack))
  BY <1>2, <1>9, <1>18
<1>13. result' \subseteq result \cup Region(Top) /\ Fitting(result')
  BY <1>6, <1>8, <1>18
<1>14. Tail(stack) \in Seq(Act) /\ <<b>> \in Seq(Act)
  BY <1>1, <1>10, HeadTailProperties, OneOrNone
<1>15. N \cap R = {} /\ F \cap R = {}
  BY <1>1, <1>6, <1>8
<1>16. CASE f = <<a>>
  <2>1. PICK c : c = <<a>> \o <<b>>
    OBVIOUS
  <2>2. Sound(a) /\ a \in Act /\ Region(a) = N
    BY <1>11, <1>16 DEF Sound
  <2>3. stack' = c \o Tail(stack)
    <3>1. <<a>> \in Seq(Act)
      BY <2>2, OneOrNone
    <3> QED
      BY <1>12, <1>14, <1>16, <2>1, <3>1, ConcatAssociative
  <2>4. /\ c \in Seq(Act) /\ Two(c, a, b)
        /\ \A y : Open(c, y) <=> y \in Region(a) \/ y \in Region(b)
    BY <1>10, <2>1, <2>2, TwoAre
  <2>5. Disjoint(c, result')
    <3>1. \A i \in 1 .. Len(c) :
            Sound(c[i]) /\ Region(c[i]) \subseteq Region(Top) /\ Region(c[i]) \cap result' = {}
      BY <1>6, <1>10, <1>15, <1>18, <2>2, <2>4 DEF Two
    <3>2. \A i, j \in 1 .. Len(c) : i # j => Region(c[i]) \cap Region(c[j]) = {}
      BY <1>6, <1>10, <2>2, <2>4 DEF Two
    <3> QED
      BY <3>1, <3>2 DEF Disjoint
  <2>6. ASSUME NEW y \in Objects
        PROVE  /\ Enough(result, y) \/ y \in Region(Top) => Enough(result', y) \/ Open(c, y)
               /\ Settled(result, y) \/ y \in Region(Top) => Settled(result', y) \/ Open(c, y)
    BY <1>6, <1>8, <1>10, <1>18, <2>2, <2>4
  <2>7. c \in Seq(Act) /\ leaves' = leaves
    BY <1>18, <2>4
  <2>8. Moves(c)
    BY <1>1, <1>13, <2>3, <2>5, <2>6, <2>7 DEF Moves
  <2> QED
    BY <2>8
<1>17. CASE f = <<>>
  <2>1. stack' = <<b>> \o Tail(stack)
    <3>1. <<b>> \o Tail(stack) \in Seq(Act)
      BY <1>14, ConcatProperties
    <3> QED
      BY <1>12, <1>17, <3>1, ConcatEmptySeq
  <2>2. Disjoint(<<b>>, result')
    BY <1>6, <1>10, <1>15, <1>18, OneOrNone DEF Disjoint
  <2>3. ASSUME NEW y \in Objects
        PROVE  Enough(result, y) \/ y \in Region(Top) => Enough(result', y) \/ Open(<<b>>, y)
    BY <1>6, <1>8, <1>10, <1>11, <1>17, <1>18, OneOrNone
  <2>4. ASSUME alpha = Default, NEW y \in Objects
        PROVE  Settled(result, y) \/ y \in Region(Top) => Settled(result', y) \/ Open(<<b>>, y)
    BY <1>6, <1>8, <1>10, <1>11, <1>15, <1>17, <1>18, <2>4, OneOrNone
  <2>5. Moves(<<b>>)
    BY <1>1, <1>13, <1>14, <1>18, <2>1, <2>2, <2>3, <2>4 DEF Moves
  <2> QED
    BY <2>5
<1> QED
  BY <1>11, <1>16, <1>17

LEMMA EnterMoves ==
    ASSUME BuildInv, SearchInv, query # Nothing, Enter
    PROVE  \E c : Moves(c)
<1>1. /\ stack # <<>> /\ Top.call = "enter" /\ UNCHANGED <<index, params, query>>
      /\ leaves \in Int
  BY DEF Enter, SearchInv, SearchTyped
<1>2. CASE leaves <= 0
  <2>0. ~ (leaves > 0)
    BY <1>1, <1>2
  <2>1. stack' = Tail(stack) /\ leaves' = leaves /\ result' = result
    BY <2>0 DEF Enter
  <2> QED
    BY <1>2, <2>1, StopMoves
<1>3. CASE leaves > 0 /\ tree[Top.at].bucket # {}
  <2>0. ~ (leaves <= 0)
    BY <1>1, <1>3
  <2>1. /\ leaves' = leaves - 1 /\ result' = result
        /\ stack' = <<Activation("scan", Top.at, tree[Top.at].bucket)>> \o Tail(stack)
    BY <1>3, <2>0 DEF Enter
  <2> QED
    BY <1>1, <1>3, <2>1, BucketMoves
<1>4. CASE leaves > 0 /\ tree[Top.at].bucket = {}
  BY <1>4, SplitMoves
<1> QED
  BY <1>1, <1>2, <1>3, <1>4

-----------------------------------------------------------------------------
(* The whole program.                                                      *)

LEMMA SearchInvInit == Init => SearchInv
<1> SUFFICES ASSUME Init PROVE SearchInv
  OBVIOUS
<1>1. /\ maxLeaves = Unlimited /\ alpha = Default /\ query = Nothing /\ stack = <<>>
      /\ leaves = 0 /\ result = {}
  BY DEF Init
<1>2. stack \in Seq(Act) /\ Len(stack) = 0 /\ \A i \in 1 .. Len(stack) : FALSE
  BY <1>1, OneOrNone
<1>3. SearchTyped
  BY <1>1, <1>2, Bounds DEF SearchTyped
<1> QED
  BY <1>1, <1>2, <1>3 DEF SearchInv, Apart, Progress

\* Outside of a query nothing is on the stack.
LEMMA IdleInv ==
    ASSUME query' = Nothing, stack' = <<>>, leaves' = 0, result' = {},
           maxLeaves' \in LeafBounds, alpha' \in Stretches
    PROVE  SearchInv'
<1>1. stack' \in Seq(Act) /\ Len(stack') = 0 /\ \A i \in 1 .. Len(stack') : FALSE
  BY OneOrNone
<1>2. SearchTyped'
  BY <1>1, Bounds DEF SearchTyped
<1> QED
  BY <1>1, <1>2 DEF SearchInv, Apart, Progress

\* A new query has everything before it.
LEMMA SearchStarts ==
    ASSUME BuildInv, SearchInv, Search
    PROVE  SearchInv'
<1>1. PICK a : a = Activation("enter", <<>>, {})
  OBVIOUS
<1>2. /\ Built /\ query' \in Queries /\ stack' = <<a>>
      /\ leaves' = maxLeaves /\ result' = {}
      /\ maxLeaves' = maxLeaves /\ alpha' = alpha
      /\ data' = data /\ tree' = tree /\ pending' = pending
  BY <1>1 DEF Search, index, params
<1>3. maxLeaves \in LeafBounds /\ alpha \in Stretches
  BY DEF SearchInv, SearchTyped
<1>4. <<>> \in DOMAIN tree /\ <<>> \in Paths
  BY <1>2, EmptySeq DEF Built, Paths
<1>5. a \in Act /\ a.call = "enter" /\ a.at = <<>>
  BY <1>1, <1>4 DEF Act, Activation
<1>6. Region(a)' = Objects /\ Sound(a)' /\ Built'
  <2>1. \A p : Held(p)' = Held(p)
    BY <1>2 DEF Held
  <2>2. Objs(<<>>)' = Objs(<<>>)
    BY <1>2, <2>1 DEF Objs
  <2>3. Objs(<<>>) = Objects
    BY <1>2, RootHasAll
  <2> QED
    BY <1>2, <1>4, <1>5, <2>2, <2>3 DEF Region, Sound, Built
<1>7. /\ stack' \in Seq(Act)
      /\ \A i \in 1 .. Len(stack') : stack'[i] = a
      /\ \A i, j \in 1 .. Len(stack') : i = j
      /\ 1 \in 1 .. Len(stack')
  <2>1. Len(<<a>>) = 1
    BY OneOrNone
  <2> QED
    BY <1>2, <1>5, <2>1, OneOrNone
<1>8. query' # Nothing
  <2>1. query' \in [kind : {"knn", "range"}, limit : Nat, at : Points]
    BY <1>2, VPTreeAssumption
  <2> QED
    BY <2>1 DEF Nothing
<1>9. SearchTyped'
  BY <1>2, <1>3, <1>6, <1>7, <1>8, Bounds DEF SearchTyped
<1>10. Apart'
  BY <1>2, <1>7 DEF Apart
<1>11. Progress'
  <2>1. Fitting(result)'
    <3>1. query'.limit \in Nat
      BY <1>2, VPTreeAssumption
    <3>2. Cardinality({}) = 0
      BY FS_EmptySet
    <3> QED
      BY <1>2, <3>1, <3>2 DEF Fitting
  <2>2. \A x \in Objects : \E i \in 1 .. Len(stack') : x \in Region(stack[i])'
    BY <1>6, <1>7
  <2> QED
    BY <2>1, <2>2 DEF Progress
<1> QED
  BY <1>9, <1>10, <1>11 DEF SearchInv

LEMMA SameSearch ==
    ASSUME SearchInv, UNCHANGED vars
    PROVE  SearchInv'
<1>1. UNCHANGED <<index, params, query>> /\ UNCHANGED <<index, params, search>>
  BY DEF vars, search
<1>2. /\ \A a : Region(a)' = Region(a) /\ (Sound(a)' <=> Sound(a))
      /\ \A R : Fitting(R)' <=> Fitting(R)
      /\ \A R, x : (Enough(R, x)' <=> Enough(R, x)) /\ (Settled(R, x)' <=> Settled(R, x))
      /\ Built' <=> Built
  BY <1>1, SameQuery
<1>3. /\ maxLeaves' = maxLeaves /\ alpha' = alpha /\ query' = query /\ stack' = stack
      /\ leaves' = leaves /\ result' = result
  BY <1>1 DEF params, search
<1>4. SearchTyped'
  BY <1>2, <1>3 DEF SearchInv, SearchTyped
<1>5. Apart'
  BY <1>2, <1>3 DEF SearchInv, Apart
<1>6. Progress'
  BY <1>2, <1>3 DEF SearchInv, Progress
<1> QED
  BY <1>4, <1>5, <1>6 DEF SearchInv

LEMMA SearchInvStep == BuildInv /\ SearchInv /\ [Next]_vars => SearchInv'
<1> SUFFICES ASSUME BuildInv, SearchInv, [Next]_vars PROVE SearchInv'
  OBVIOUS
<1>1. /\ maxLeaves \in LeafBounds /\ alpha \in Stretches
      /\ query \in Queries \cup {Nothing}
      /\ query # Nothing => Built
      /\ query = Nothing => stack = <<>> /\ leaves = 0 /\ result = {}
  BY DEF SearchInv, SearchTyped
<1>2. CASE CreateIndex \/ MakeBucket \/ MakeSplit \/ MakeSingle
  <2>1. ~ Built
    BY <1>2 DEF Built, CreateIndex, MakeBucket, MakeSplit, MakeSingle
  <2>2. UNCHANGED search
    BY <1>2 DEF CreateIndex, MakeBucket, MakeSplit, MakeSingle
  <2>3. query' = Nothing /\ stack' = <<>> /\ leaves' = 0 /\ result' = {}
    BY <1>1, <2>1, <2>2 DEF search
  <2>4. maxLeaves' \in LeafBounds /\ alpha' \in Stretches
    BY <1>1, <1>2, Bounds DEF CreateIndex, MakeBucket, MakeSplit, MakeSingle, params
  <2> QED
    BY <2>3, <2>4, IdleInv
<1>3. CASE Reload \/ SetQueryTimeParams
  <2>1. UNCHANGED search /\ query = Nothing /\ maxLeaves' \in LeafBounds /\ alpha' \in Stretches
    BY <1>3, Bounds DEF Reload, SetQueryTimeParams
  <2>2. query' = Nothing /\ stack' = <<>> /\ leaves' = 0 /\ result' = {}
    BY <1>1, <2>1 DEF search
  <2> QED
    BY <2>1, <2>2, IdleInv
<1>4. CASE Search
  BY <1>4, SearchStarts
<1>5. CASE Enter \/ Scan \/ Second
  <2>1. query # Nothing
    BY <1>1, <1>5 DEF Enter, Scan, Second
  <2>2. \E c : Moves(c)
    BY <1>5, <2>1, EnterMoves, ScanMoves, SecondMoves
  <2> QED
    BY <2>1, <2>2, MovesKeep
<1>6. CASE Deliver
  <2>1. /\ query' = Nothing /\ stack' = <<>> /\ leaves' = 0 /\ result' = {}
        /\ maxLeaves' = maxLeaves /\ alpha' = alpha
    BY <1>6 DEF Deliver, params
  <2> QED
    BY <1>1, <2>1, IdleInv
<1>7. CASE UNCHANGED vars
  BY <1>7, SameSearch
<1> QED
  BY <1>2, <1>3, <1>4, <1>5, <1>6, <1>7 DEF Next

\* While GenericSearch runs, every object that it has not looked at is below an
\* activation that will, or cannot change the answer any more.
THEOREM SearchInvariant == Spec => []SearchInv
<1>1. BuildInv /\ SearchInv /\ [Next]_vars => SearchInv'
  BY SearchInvStep
<1> QED
  BY BuildInvariant, SearchInvInit, <1>1, PTL DEF Spec

\* The types: no budget of leaves is overdrawn, every node hangs below a node, and
\* the recursion stands at nodes that are there.
THEOREM TypeCorrect == Spec => []TypesAndBudget
<1>1. ASSUME BuildInv, SearchInv PROVE TypesAndBudget
  <2>1. /\ data \in [Objects -> Points] /\ bucketSize \in BucketSizes
        /\ DOMAIN tree \subseteq Paths
    BY <1>1 DEF BuildInv, TreeTyped
  <2>2. \A p \in DOMAIN tree : p = <<>> \/ Front(p) \in DOMAIN tree
    BY <1>1, <2>1, Parents DEF BuildInv, Hanging
  <2>3. ASSUME NEW p \in DOMAIN tree
        PROVE  /\ tree[p].pivot \in Objects \cup {Null}
               /\ tree[p].median \in 0 .. DistMax
               /\ tree[p].bucket \subseteq Objects
    <3>1. tree[p] \in NodeType /\ WithinReach(tree[p].median)
      BY <1>1 DEF BuildInv, TreeTyped
    <3>2. PICK u, v \in Points : tree[p].median <= Distance[u][v]
      BY <3>1 DEF WithinReach
    <3>3. Distance[u][v] \in Nat /\ DistMax \in Nat
      BY VPTreeAssumption
    <3>4. DistMax >= Default.left * Distance[u][v] /\ Default.left = 1
      BY VPTreeAssumption DEF Default
    <3>5. tree[p].median \in Nat
      BY <3>1 DEF NodeType
    <3>6. tree[p].median \in 0 .. DistMax
      BY <3>2, <3>3, <3>4, <3>5
    <3> QED
      BY <3>1, <3>6 DEF NodeType
  <2>4. /\ maxLeaves \in LeafBounds /\ alpha \in Stretches
        /\ query \in Queries \cup {Nothing}
        /\ leaves \in Int /\ leaves <= Unlimited /\ (leaves < 0 => leaves = maxLeaves)
        /\ result \subseteq Objects
        /\ stack \in Seq(Act) /\ \A i \in 1 .. Len(stack) : Sound(stack[i])
    BY <1>1 DEF SearchInv, SearchTyped
  <2>5. \A i \in DOMAIN stack : stack[i].at \in DOMAIN tree
    BY <2>4 DEF Sound
  <2> QED
    BY <2>1, <2>2, <2>3, <2>4, <2>5 DEF TypesAndBudget
<1> QED
  BY BuildInvariant, SearchInvariant, <1>1, PTL

LEMMA NothingOpen ==
    ASSUME SearchInv, Answered, leaves > 0
    PROVE  /\ Fitting(result) /\ query \in Queries
           /\ \A x \in Objects : Enough(result, x)
           /\ alpha = Default => \A x \in Objects : Settled(result, x)
<1>1. query # Nothing /\ Len(stack) = 0
  BY DEF Answered
<1>2. query \in Queries
  BY <1>1 DEF SearchInv, SearchTyped
<1>3. \A i \in 1 .. Len(stack) : FALSE
  BY <1>1
<1> QED
  BY <1>1, <1>2, <1>3 DEF SearchInv, Progress

\* A search that is neither stretched nor cut short answers as a scan of all
\* objects does (GenericSearch with the rule of TriangIneq), for every metric, every
\* choice of pivots and every order in which the leaves are reached.
THEOREM TreeIsExact == Spec => []Exact
<1>1. ASSUME SearchInv PROVE Exact
  <2> SUFFICES ASSUME Answered, leaves > 0, alpha = Default
               PROVE  IF query.kind = "range"
                      THEN result = {x \in Objects : D[x] <= query.limit}
                      ELSE \A x \in result, y \in Objects \ result : D[x] <= D[y]
    BY DEF Exact
  <2>1. /\ result \subseteq Objects /\ \A x \in Objects : Settled(result, x)
    BY <1>1, NothingOpen DEF Fitting
  <2> QED
    BY <2>1 DEF Settled
<1> QED
  BY SearchInvariant, <1>1, PTL

\* A search with leaves to spare returns as many objects as were asked for, or all,
\* however far the pruning rule is stretched.
THEOREM AnswerIsFull == Spec => []FullAnswer
<1>1. ASSUME SearchInv PROVE FullAnswer
  <2> SUFFICES ASSUME Answered, leaves > 0, query.kind = "knn"
               PROVE  Cardinality(result) =
                          IF Cardinality(Objects) < query.limit THEN Cardinality(Objects)
                          ELSE query.limit
    BY DEF FullAnswer
  <2>1. /\ result \in SUBSET Objects /\ Cardinality(result) <= query.limit
        /\ query \in Queries /\ query.limit \in Nat
        /\ \A x \in Objects : x \in result \/ Cardinality(result) >= query.limit
    BY <1>1, NothingOpen, QueriesAre DEF Fitting, Enough
  <2>2. /\ Cardinality(result) \in Nat /\ Cardinality(result) <= Cardinality(Objects)
        /\ Cardinality(Objects) \in Nat
    BY <2>1, SomeObjects
  <2>3. CASE Cardinality(result) >= query.limit
    BY <2>1, <2>2, <2>3
  <2>4. CASE ~ (Cardinality(result) >= query.limit)
    <3>1. result = Objects
      BY <2>1, <2>4
    <3> QED
      BY <2>1, <2>2, <2>4, <3>1
  <2> QED
    BY <2>3, <2>4
<1> QED
  BY SearchInvariant, <1>1, PTL
=============================================================================
