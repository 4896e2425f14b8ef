------------------------- MODULE PivotNeighbProofs -------------------------
(***************************************************************************)
(* Every algorithm of NAPP checks the right candidates: posting lists hold *)
(* the ids of the objects that are near a pivot, in ascending order and    *)
(* whichever threads made them; unions and counters count in how many of   *)
(* the lists an id is; queues leave no id behind; and the quick select     *)
(* puts the best candidates in front.                                      *)
(***************************************************************************)
EXTENDS PivotNeighb, Extremes, SequenceTheorems

-----------------------------------------------------------------------------
(* Sequences and their elements.                                           *)

\* Numbers in ascending order, each once.
Ascends(s) == \A i, j \in DOMAIN s : i < j => s[i] < s[j]
IsList(s, S) == s \in Seq(Nat) /\ Ascends(s) /\ ToSet(s) = S
Once(s) == \A i, j \in DOMAIN s : s[i] = s[j] => i = j

\* The indices and the elements of a sequence.
LEMMA SeqIs ==
    ASSUME NEW S, NEW s \in Seq(S)
    PROVE  /\ Len(s) \in Nat /\ DOMAIN s = 1 .. Len(s)
           /\ \A i \in 1 .. Len(s) : s[i] \in S
           /\ ToSet(s) \subseteq S
<1>1. Len(s) \in Nat /\ DOMAIN s = 1 .. Len(s) /\ \A i \in 1 .. Len(s) : s[i] \in S
  BY LenProperties, ElementOfSeq
<1> QED
  BY <1>1 DEF ToSet

\* A function on 1 .. n is a sequence.
LEMMA FunctionIsSeq ==
    ASSUME NEW S, NEW n \in Nat, NEW s, DOMAIN s = 1 .. n, s = [i \in 1 .. n |-> s[i]],
           \A i \in 1 .. n : s[i] \in S
    PROVE  s \in Seq(S) /\ Len(s) = n
<1>1. s \in [1 .. n -> S]
  OBVIOUS
<1>2. s \in Seq(S)
  BY <1>1, SeqDef
<1>3. Len(s) \in Nat /\ 1 .. n = 1 .. Len(s)
  BY <1>2, LenProperties
<1>4. \A i \in Nat : i \in 1 .. n <=> i \in 1 .. Len(s)
  BY <1>3
<1>5. ~ (n < Len(s)) /\ ~ (Len(s) < n)
  <2>1. CASE n = 0
    BY <1>3, <1>4, <2>1
  <2>2. CASE n > 0
    BY <1>3, <1>4, <2>2
  <2> QED
    BY <2>1, <2>2
<1> QED
  BY <1>2, <1>3, <1>5

\* There are n numbers from 1 to n.
LEMMA IntervalSize == \A n \in Nat : IsFiniteSet(1 .. n) /\ Cardinality(1 .. n) = n
<1> TAKE n \in Nat
<1>1. 1 \in Int /\ n \in Int /\ n - 1 + 1 = n /\ (1 > n <=> n = 0)
  OBVIOUS
<1> QED
  BY <1>1, FS_Interval

\* Ascending numbers are different, and in the order of their indices.
LEMMA AscendsOnce ==
    ASSUME NEW s \in Seq(Nat), Ascends(s)
    PROVE  /\ Once(s)
           /\ \A i, j \in DOMAIN s : s[i] <= s[j] <=> i <= j
           /\ \A i, j \in DOMAIN s : s[i] < s[j] <=> i < j
<1>1. DOMAIN s = 1 .. Len(s) /\ Len(s) \in Nat /\ \A i \in DOMAIN s : s[i] \in Nat
  BY SeqIs
<1>2. ASSUME NEW i \in DOMAIN s, NEW j \in DOMAIN s
      PROVE  (i < j /\ s[i] < s[j]) \/ (i = j /\ s[i] = s[j]) \/ (j < i /\ s[j] < s[i])
  BY <1>1 DEF Ascends
<1> QED
  BY <1>1, <1>2 DEF Once

\* Sorting a list that is sorted gives it back.
LEMMA SortedIs ==
    ASSUME NEW s \in Seq(Nat), Ascends(s)
    PROVE  Sorted(s) = s
<1> DEFINE UpTo(v) == Cardinality({k \in DOMAIN s : s[k] <= v})
           Below(v) == Cardinality({k \in DOMAIN s : s[k] < v})
           Fits(i, v) == Below(v) < i /\ i <= UpTo(v)
<1>1. DOMAIN s = 1 .. Len(s) /\ Len(s) \in Nat /\ \A i \in DOMAIN s : s[i] \in Nat
  BY SeqIs
<1>2. ASSUME NEW j \in DOMAIN s PROVE UpTo(s[j]) = j /\ Below(s[j]) = j - 1
  <2>a. \A k \in DOMAIN s : (s[k] <= s[j] <=> k <= j) /\ (s[k] < s[j] <=> k < j)
    BY <1>2, AscendsOnce
  <2>1. {k \in DOMAIN s : s[k] <= s[j]} = 1 .. j
    BY <1>1, <1>2, <2>a
  <2>2. {k \in DOMAIN s : s[k] < s[j]} = 1 .. j - 1
    BY <1>1, <1>2, <2>a
  <2>3. j \in Nat /\ j - 1 \in Nat
    BY <1>1, <1>2
  <2> QED
    BY <2>1, <2>2, <2>3, IntervalSize
<1>3. ASSUME NEW i \in DOMAIN s PROVE (CHOOSE v \in ToSet(s) : Fits(i, v)) = s[i]
  <2>1. s[i] \in ToSet(s) /\ Fits(i, s[i])
    <3>1. s[i] \in ToSet(s)
      BY <1>3 DEF ToSet
    <3>2. UpTo(s[i]) = i /\ Below(s[i]) = i - 1
      BY <1>2, <1>3
    <3> HIDE DEF UpTo, Below
    <3>3. Below(s[i]) < i /\ i <= UpTo(s[i])
      BY <1>1, <1>3, <3>2
    <3> QED
      BY <3>1, <3>3
  <2>2. ASSUME NEW v \in ToSet(s), Fits(i, v) PROVE v = s[i]
    <3>1. PICK j \in DOMAIN s : v = s[j]
      BY DEF ToSet
    <3>2. j - 1 < i /\ i <= j
      BY <1>2, <2>2, <3>1
    <3>3. i = j
      BY <1>1, <1>3, <3>1, <3>2
    <3> QED
      BY <3>1, <3>3
  <2> HIDE DEF Fits
  <2> QED
    BY <2>1, <2>2
<1>4. Sorted(s) = [i \in DOMAIN s |-> CHOOSE v \in ToSet(s) : Fits(i, v)]
  BY DEF Sorted
<1>5. s = [i \in DOMAIN s |-> s[i]]
  BY <1>1
<1> HIDE DEF Fits
<1> QED
  BY <1>3, <1>4, <1>5

\* Pairs in the order of their ids are all of them, each once.
LEMMA ByIdIs ==
    ASSUME NEW S, IsFiniteSet(S), \A p \in S : p[2] \in Int,
           \A p, q \in S : p[2] = q[2] => p = q
    PROVE  /\ ById(S) \in Seq(S) /\ Len(ById(S)) = Cardinality(S)
           /\ Once(ById(S)) /\ ToSet(ById(S)) = S
<1> DEFINE n == Cardinality(S)
           lower(p) == {q \in S : q[2] < p[2]}
           rank == [p \in S |-> Cardinality(lower(p))]
<1>1. n \in Nat
  BY FS_CardinalityType
<1>2. ASSUME NEW p \in S
      PROVE  IsFiniteSet(lower(p)) /\ Cardinality(lower(p)) \in 0 .. n - 1
  <2>1. lower(p) \in SUBSET (S \ {p})
    BY <1>2
  <2>2. IsFiniteSet(S \ {p}) /\ Cardinality(S \ {p}) = n - 1
    BY <1>2, FS_RemoveElement
  <2> HIDE DEF lower
  <2>3. IsFiniteSet(lower(p)) /\ Cardinality(lower(p)) <= n - 1
    BY <2>1, <2>2, FS_Subset
  <2>4. Cardinality(lower(p)) \in Nat
    BY <2>3, FS_CardinalityType
  <2> QED
    BY <1>1, <2>3, <2>4
<1>3. ASSUME NEW p \in S, NEW q \in S, p[2] < q[2]
      PROVE  Cardinality(lower(p)) < Cardinality(lower(q))
  <2>1. p \notin lower(p) /\ lower(p) \cup {p} \in SUBSET lower(q)
    BY <1>3
  <2>2. /\ IsFiniteSet(lower(p)) /\ Cardinality(lower(p)) \in Nat
        /\ IsFiniteSet(lower(q)) /\ Cardinality(lower(q)) \in Nat
    BY <1>1, <1>2
  <2> HIDE DEF lower
  <2>3. Cardinality(lower(p) \cup {p}) = Cardinality(lower(p)) + 1
    BY <2>1, <2>2, FS_AddElement
  <2>4. Cardinality(lower(p) \cup {p}) <= Cardinality(lower(q))
    BY <2>1, <2>2, FS_Subset
  <2> QED
    BY <2>2, <2>3, <2>4
<1>4. \A p \in S : rank[p] = Cardinality(lower(p)) /\ rank[p] \in 0 .. n - 1
  BY <1>2
<1>5. \A p, q \in S : rank[p] = rank[q] => p = q
  <2> SUFFICES ASSUME NEW p \in S, NEW q \in S, rank[p] = rank[q] PROVE p = q
    OBVIOUS
  <2>1. rank[p] \in Int /\ ~ (rank[p] < rank[q]) /\ ~ (rank[q] < rank[p])
    BY <1>1, <1>4
  <2>2. ~ (p[2] < q[2]) /\ ~ (q[2] < p[2])
    <3> HIDE DEF rank, lower
    <3> QED
      BY <1>3, <1>4, <2>1
  <2>3. p[2] \in Int /\ q[2] \in Int
    OBVIOUS
  <2>4. p[2] = q[2]
    BY <2>2, <2>3
  <2> QED
    BY <2>4
<1>6. rank \in Surjection(S, 0 .. n - 1)
  <2>1. rank \in Injection(S, 0 .. n - 1)
    <3>1. rank \in [S -> 0 .. n - 1]
      BY <1>4
    <3> HIDE DEF rank
    <3> QED
      BY <1>5, <3>1 DEF Injection, IsInjective
  <2>2. IsFiniteSet(0 .. n - 1) /\ Cardinality(0 .. n - 1) = n
    <3>1. 0 \in Int /\ n - 1 \in Int /\ (0 > n - 1 <=> n = 0) /\ n - 1 - 0 + 1 = n
      BY <1>1
    <3> HIDE DEF n
    <3> QED
      BY <3>1, FS_Interval
  <2> HIDE DEF rank
  <2> QED
    BY <2>1, <2>2, FS_Injection
<1> DEFINE at(i) == CHOOSE p \in S : Cardinality(lower(p)) = i - 1
           g == [i \in 1 .. n |-> at(i)]
<1>7. ASSUME NEW i \in 1 .. n PROVE at(i) \in S /\ rank[at(i)] = i - 1
  <2>1. i - 1 \in 0 .. n - 1
    BY <1>1
  <2>2. \E p \in S : rank[p] = i - 1
    <3> HIDE DEF rank
    <3> QED
      BY <1>6, <2>1 DEF Surjection
  <2>3. \E p \in S : Cardinality(lower(p)) = i - 1
    BY <2>2
  <2> HIDE DEF lower
  <2>4. at(i) \in S /\ Cardinality(lower(at(i))) = i - 1
    BY <2>3
  <2> HIDE DEF at
  <2> QED
    BY <2>4
<1>8. ById(S) = g
  BY DEF ById
<1> HIDE DEF lower, rank, at
<1>9. /\ DOMAIN g = 1 .. n /\ g = [i \in 1 .. n |-> g[i]]
      /\ \A i \in 1 .. n : g[i] = at(i) /\ g[i] \in S
  BY <1>7
<1> HIDE DEF g
<1>10. g \in Seq(S) /\ Len(g) = n
  <2> HIDE DEF n
  <2> QED
    BY <1>1, <1>9, FunctionIsSeq
<1>11. Once(g)
  BY <1>7, <1>9 DEF Once
<1>12. ASSUME NEW p \in S PROVE p \in ToSet(g)
  <2>1. rank[p] + 1 \in 1 .. n
    BY <1>1, <1>4
  <2>2. rank[at(rank[p] + 1)] = rank[p] /\ at(rank[p] + 1) \in S
    BY <1>1, <1>4, <1>7, <2>1
  <2>3. g[rank[p] + 1] = p
    BY <1>5, <1>9, <2>1, <2>2
  <2> QED
    BY <1>9, <2>1, <2>3 DEF ToSet
<1>13. ToSet(g) = S
  BY <1>9, <1>12 DEF ToSet
<1> QED
  BY <1>8, <1>10, <1>11, <1>13

-----------------------------------------------------------------------------
(* Loops whose rounds do not count.                                        *)

Looped(n, base, Round) ==
    CHOOSE f : f = [i \in 0 .. n |-> IF i = 0 THEN base ELSE Round[f[i - 1]]]

\* They have states, too.
LEMMA RoundsIs ==
    ASSUME NEW n \in Nat, NEW S, NEW base, NEW Round, NEW A, base \in A[0],
           \A i \in 0 .. n : A[i] \subseteq S,
           \A i \in 1 .. n : \A a \in A[i - 1] : Round[a] \in A[i]
    PROVE  \A i \in 0 .. n : Looped(n, base, Round)[i] \in A[i]
<1> DEFINE step == [a \in S \X (1 .. n) |-> Round[a[1]]]
           F == Looped(n, base, Round)
<1>1. \A i \in 1 .. n : i - 1 \in 0 .. n /\ i \in 0 .. n /\ i # 0
  OBVIOUS
<1>2. \A i \in 1 .. n : \A a \in A[i - 1] : step[<<a, i>>] = Round[a]
  BY <1>1
<1> HIDE DEF step
<1>3. Leads(n, A, step)
  BY <1>2 DEF Leads
<1>4. PICK f : Runs(f, n, base, step) /\ \A i \in 0 .. n : f[i] \in A[i]
  BY <1>3, LoopExists
<1>5. f = [i \in 0 .. n |-> IF i = 0 THEN base ELSE step[<<f[i - 1], i>>]]
  BY <1>4 DEF Runs
<1>6. ASSUME NEW i \in 0 .. n
      PROVE  f[i] = IF i = 0 THEN base ELSE Round[f[i - 1]]
  <2>1. CASE i = 0
    BY <1>5, <2>1
  <2>2. CASE i # 0
    <3>1. i \in 1 .. n /\ i - 1 \in 0 .. n
      BY <2>2
    <3>2. f[i] = step[<<f[i - 1], i>>]
      BY <1>5, <2>2
    <3> QED
      BY <1>2, <1>4, <2>2, <3>1, <3>2
  <2> QED
    BY <2>1, <2>2
<1>7. f = [i \in 0 .. n |-> f[i]]
  BY <1>5
<1>8. f = [i \in 0 .. n |-> IF i = 0 THEN base ELSE Round[f[i - 1]]]
  BY <1>6, <1>7
<1>9. F = [i \in 0 .. n |-> IF i = 0 THEN base ELSE Round[F[i - 1]]]
  BY <1>8, Zenon DEF F, Looped
<1> HIDE DEF F
<1>10. F[0] \in A[0]
  BY <1>9
<1>11. ASSUME NEW i \in 1 .. n, F[i - 1] \in A[i - 1] PROVE F[i] \in A[i]
  <2>1. F[i] = Round[F[i - 1]]
    BY <1>1, <1>9
  <2> QED
    BY <1>11, <2>1
<1>12. \A i \in 0 .. n : F[i] \in A[i]
  BY <1>10, <1>11, LoopKeeps
<1> QED
  BY <1>12 DEF F

-----------------------------------------------------------------------------
(* The quick select.                                                       *)

Entries == Int \X Int

\* Candidates are compared by a strict total order.
LEMMA LessOrders ==
    ASSUME NEW p \in Entries, NEW q \in Entries
    PROVE  /\ ~ Less(p, p)
           /\ p = q \/ Less(p, q) \/ Less(q, p)
           /\ Less(p, q) => ~ Less(q, p)
           /\ \A r \in Entries : Less(p, q) /\ Less(q, r) => Less(p, r)
<1>1. /\ p = <<p[1], p[2]>> /\ p[1] \in Int /\ p[2] \in Int
      /\ q = <<q[1], q[2]>> /\ q[1] \in Int /\ q[2] \in Int
      /\ \A r \in Entries : r[1] \in Int /\ r[2] \in Int
  BY DEF Entries
<1>2. ~ Less(p, p) /\ (Less(p, q) => ~ Less(q, p))
  BY <1>1 DEF Less
<1>3. p = q \/ Less(p, q) \/ Less(q, p)
  <2>1. CASE p[1] = q[1] /\ p[2] = q[2]
    BY <1>1, <2>1
  <2>2. CASE ~ (p[1] = q[1] /\ p[2] = q[2])
    BY <1>1, <2>2 DEF Less
  <2> QED
    BY <2>1, <2>2
<1>4. \A r \in Entries : Less(p, q) /\ Less(q, r) => Less(p, r)
  BY <1>1 DEF Less
<1> QED
  BY <1>2, <1>3, <1>4

\* Going up stops at the pivot or before it.
LEMMA UpIs ==
    ASSUME NEW x \in Seq(Entries), NEW left \in 1 .. Len(x), NEW m \in left .. Len(x)
    PROVE  LET l == Up(x, left, x[m])
           IN  /\ l \in left .. m /\ ~ Less(x[l], x[m])
               /\ \A j \in left .. l - 1 : Less(x[j], x[m])
<1> DEFINE v == x[m]
           Stops == {i \in left .. Len(x) : ~ Less(x[i], v)}
           Is(i) == ~ Less(x[i], v) /\ \A j \in left .. i - 1 : Less(x[j], v)
           l == CHOOSE i \in left .. Len(x) : Is(i)
<1>1. Len(x) \in Nat /\ \A i \in 1 .. Len(x) : x[i] \in Entries
  BY SeqIs
<1>2. m \in Stops /\ Stops \subseteq Nat
  <2>1. ~ Less(x[m], x[m])
    <3>1. x[m] \in Entries
      BY <1>1
    <3> QED
      BY <3>1, LessOrders
  <2> QED
    BY <1>1, <2>1
<1> HIDE DEF v
<1>3. PICK i \in Stops : \A j \in Stops : i <= j
  <2> HIDE DEF Stops
  <2> QED
    BY <1>2, LeastExists
<1>4. \A j \in left .. i - 1 : Less(x[j], v)
  <2>1. ASSUME NEW j \in left .. i - 1 PROVE Less(x[j], v)
    <3>1. j \in left .. Len(x) /\ ~ (i <= j)
      BY <1>1, <1>3
    <3> QED
      BY <1>3, <3>1
  <2> QED
    BY <2>1
<1>5. i \in left .. Len(x) /\ Is(i)
  BY <1>3, <1>4
<1>6. l \in left .. Len(x) /\ Is(l)
  <2> HIDE DEF Is
  <2> QED
    BY <1>5
<1>7. l <= m
  <2>1. SUFFICES ASSUME m < l PROVE FALSE
    BY <1>1, <1>6
  <2>2. m \in left .. l - 1
    BY <1>1, <1>6, <2>1
  <2> HIDE DEF l
  <2> QED
    BY <1>2, <1>6, <2>2
<1>8. l = Up(x, left, v)
  BY Zenon DEF Up
<1> HIDE DEF l
<1>9. l \in left .. m
  BY <1>1, <1>6, <1>7
<1> QED
  BY <1>6, <1>8, <1>9 DEF v

\* Going down stops at the pivot or behind it.
LEMMA DownIs ==
    ASSUME NEW x \in Seq(Entries), NEW right \in 1 .. Len(x), NEW m \in 1 .. right
    PROVE  LET r == Down(x, right, x[m])
           IN  /\ r \in m .. right /\ ~ Less(x[m], x[r])
               /\ \A j \in r + 1 .. right : Less(x[m], x[j])
<1> DEFINE v == x[m]
           Stops == {d \in 0 .. right - 1 : ~ Less(v, x[right - d])}
           Is(i) == ~ Less(v, x[i]) /\ \A j \in i + 1 .. right : Less(v, x[j])
           r == CHOOSE i \in 1 .. right : Is(i)
<1>1. Len(x) \in Nat /\ \A i \in 1 .. Len(x) : x[i] \in Entries
  BY SeqIs
<1>2. right - m \in Stops /\ Stops \subseteq Nat
  <2>1. ~ Less(x[m], x[m])
    <3>1. x[m] \in Entries
      BY <1>1
    <3> QED
      BY <3>1, LessOrders
  <2>2. right - (right - m) = m /\ right - m \in 0 .. right - 1
    BY <1>1
  <2> QED
    BY <1>1, <2>1, <2>2
<1>a. ~ Less(v, x[m])
  <2>1. x[m] \in Entries
    BY <1>1
  <2> QED
    BY <2>1, LessOrders
<1> HIDE DEF v
<1>3. PICK d \in Stops : \A j \in Stops : d <= j
  <2> HIDE DEF Stops
  <2> QED
    BY <1>2, LeastExists
<1>4. \A j \in right - d + 1 .. right : Less(v, x[j])
  <2>1. ASSUME NEW j \in right - d + 1 .. right PROVE Less(v, x[j])
    <3>1. right - j \in 0 .. right - 1 /\ ~ (d <= right - j) /\ right - (right - j) = j
      BY <1>1, <1>3
    <3>2. right - j \notin Stops
      BY <1>3, <3>1
    <3> QED
      BY <3>1, <3>2
  <2> QED
    BY <2>1
<1>5. right - d \in 1 .. right /\ Is(right - d)
  BY <1>3, <1>4
<1>6. r \in 1 .. right /\ Is(r)
  <2> HIDE DEF Is
  <2> QED
    BY <1>5
<1>7. m <= r
  <2>1. SUFFICES ASSUME r < m PROVE FALSE
    BY <1>1, <1>6
  <2>2. m \in r + 1 .. right
    BY <1>1, <1>6, <2>1
  <2> HIDE DEF r
  <2> QED
    BY <1>6, <1>a, <2>2
<1>8. r = Down(x, right, v)
  BY Zenon DEF Down
<1> HIDE DEF r
<1>9. r \in m .. right
  BY <1>1, <1>6, <1>7
<1> QED
  BY <1>6, <1>8, <1>9 DEF v

\* The entries of x0 with those at a .. b in another order.
Rearranged(x, x0, a, b) ==
    /\ x \in Seq(Entries) /\ Len(x) = Len(x0) /\ Once(x) /\ ToSet(x) = ToSet(x0)
    /\ \A i \in 1 .. Len(x0) : i \notin a .. b => x[i] = x0[i]

\* The state of the loop after k rounds, with the pivot v.
Cut(s, k, x0, a, b, v) ==
    /\ Rearranged(s.x, x0, a, b)
    /\ s.left \in a .. b /\ s.right \in s.left .. b
    /\ \E m \in s.left .. s.right : s.x[m] = v
    /\ \A i \in a .. s.left - 1 : Less(s.x[i], v)
    /\ \A i \in s.right + 1 .. b : Less(v, s.x[i])
    /\ k > 0 => /\ ~ Less(v, s.x[s.left]) /\ ~ Less(s.x[s.right], v)
                /\ s.left = s.right \/ s.right - s.left <= Len(x0) - k

\* Two entries that change their places.
LEMMA SwapIs ==
    ASSUME NEW x0, NEW a \in Nat, NEW b \in Nat, NEW x, Rearranged(x, x0, a, b),
           NEW l \in 1 .. Len(x), NEW r \in 1 .. Len(x), l \in a .. b, r \in a .. b, l # r
    PROVE  LET w == [x EXCEPT ![l] = x[r], ![r] = x[l]]
           IN  /\ Rearranged(w, x0, a, b)
               /\ \A i \in 1 .. Len(x) :
                      w[i] = IF i = l THEN x[r] ELSE IF i = r THEN x[l] ELSE x[i]
<1> DEFINE w == [x EXCEPT ![l] = x[r], ![r] = x[l]]
           to(i) == IF i = l THEN r ELSE IF i = r THEN l ELSE i
<1>1. /\ Len(x) \in Nat /\ DOMAIN x = 1 .. Len(x) /\ \A i \in 1 .. Len(x) : x[i] \in Entries
      /\ x \in Seq(Entries)
  BY SeqIs DEF Rearranged
<1>2. /\ DOMAIN w = 1 .. Len(x) /\ w = [i \in 1 .. Len(x) |-> w[i]]
      /\ \A i \in 1 .. Len(x) : w[i] = x[to(i)] /\ to(i) \in 1 .. Len(x)
  <2>1. w = [i \in DOMAIN x |-> x[to(i)]]
    BY <1>1
  <2> QED
    BY <1>1, <2>1
<1>3. \A i, j \in 1 .. Len(x) : to(to(i)) = i /\ (to(i) = to(j) => i = j)
  OBVIOUS
<1>4. \A i \in 1 .. Len(x) : i \notin a .. b => to(i) = i
  OBVIOUS
<1>5. \A i \in 1 .. Len(x) :
          x[to(i)] = IF i = l THEN x[r] ELSE IF i = r THEN x[l] ELSE x[i]
  OBVIOUS
<1> HIDE DEF w, to
<1>6. \A i \in 1 .. Len(x) : w[i] \in Entries
  BY <1>1, <1>2
<1>7. w \in Seq(Entries) /\ Len(w) = Len(x)
  BY <1>1, <1>2, <1>6, FunctionIsSeq
<1>8. Once(w)
  <2>1. \A i, j \in 1 .. Len(x) : x[i] = x[j] => i = j
    BY <1>1 DEF Rearranged, Once
  <2> QED
    BY <1>2, <1>3, <2>1, SMTT(30) DEF Once
<1>9. ToSet(w) = ToSet(x)
  BY <1>1, <1>2, <1>3 DEF ToSet
<1>10. \A i \in 1 .. Len(x0) : i \notin a .. b => w[i] = x0[i]
  BY <1>2, <1>4 DEF Rearranged
<1>11. Rearranged(w, x0, a, b)
  BY <1>7, <1>8, <1>9, <1>10 DEF Rearranged
<1>12. \A i \in 1 .. Len(x) :
          w[i] = IF i = l THEN x[r] ELSE IF i = r THEN x[l] ELSE x[i]
  BY <1>2, <1>5
<1> QED
  BY <1>11, <1>12 DEF w

\* One round of the loop.
LEMMA RoundCuts ==
    ASSUME NEW x0 \in Seq(Entries), NEW a \in 1 .. Len(x0), NEW b \in a .. Len(x0),
           NEW v \in Entries, NEW k \in 1 .. Len(x0),
           NEW s, Cut(s, k - 1, x0, a, b, v)
    PROVE  Cut(PartitionRound(s, v), k, x0, a, b, v)
<1> DEFINE l == Up(s.x, s.left, v)
           r == Down(s.x, s.right, v)
           t == PartitionRound(s, v)
           w == [s.x EXCEPT ![l] = s.x[r], ![r] = s.x[l]]
           n == Len(x0)
<1>1. /\ n \in Nat /\ Len(s.x) = n /\ s.x \in Seq(Entries) /\ DOMAIN s.x = 1 .. n
      /\ \A i \in 1 .. n : s.x[i] \in Entries
      /\ \A i, j \in 1 .. n : s.x[i] = s.x[j] => i = j
  BY SeqIs DEF Cut, Rearranged, Once
<1>2. PICK m \in s.left .. s.right : s.x[m] = v
  BY DEF Cut
<1>3. s.left \in a .. b /\ s.right \in s.left .. b /\ m \in 1 .. n
  BY <1>1 DEF Cut
<1>4. l \in s.left .. m /\ ~ Less(s.x[l], v) /\ \A j \in s.left .. l - 1 : Less(s.x[j], v)
  <2>1. s.left \in 1 .. Len(s.x) /\ m \in s.left .. Len(s.x)
    BY <1>1, <1>3
  <2> QED
    BY <1>1, <1>2, <2>1, UpIs
<1>5. r \in m .. s.right /\ ~ Less(v, s.x[r]) /\ \A j \in r + 1 .. s.right : Less(v, s.x[j])
  <2>1. s.right \in 1 .. Len(s.x) /\ m \in 1 .. s.right
    BY <1>1, <1>3
  <2> QED
    BY <1>1, <1>2, <2>1, DownIs
<1>6. t = [x     |-> IF l < r THEN w ELSE s.x,
           left  |-> IF l < r /\ s.x[l] = s.x[r] THEN l + 1 ELSE l,
           right |-> r]
  BY Zenon DEF PartitionRound
<1> HIDE DEF l, r, w
<1> SUFFICES Cut(t, k, x0, a, b, v)
  OBVIOUS
<1> HIDE DEF t
<1>7. l \in a .. b /\ r \in l .. b /\ l \in 1 .. n /\ r \in 1 .. n
  BY <1>1, <1>3, <1>4, <1>5, SMTT(30)
<1>8. \A i \in a .. l - 1 : Less(s.x[i], v)
  <2>1. \A i \in a .. s.left - 1 : Less(s.x[i], v)
    BY DEF Cut
  <2>2. \A i \in a .. l - 1 : i \in a .. s.left - 1 \/ i \in s.left .. l - 1
    BY <1>3, <1>7
  <2> QED
    BY <1>4, <2>1, <2>2
<1>9. \A i \in r + 1 .. b : Less(v, s.x[i])
  <2>1. \A i \in s.right + 1 .. b : Less(v, s.x[i])
    BY DEF Cut
  <2>2. \A i \in r + 1 .. b : i \in s.right + 1 .. b \/ i \in r + 1 .. s.right
    BY <1>3, <1>7
  <2> QED
    BY <1>5, <2>1, <2>2
<1>10. CASE l = r
  <2>1. m = l
    BY <1>3, <1>4, <1>5, <1>10
  <2>2. t.x = s.x /\ t.left = l /\ t.right = l
    BY <1>6, <1>7, <1>10
  <2>3. Rearranged(t.x, x0, a, b)
    BY <2>2 DEF Cut
  <2>4. \E i \in t.left .. t.right : t.x[i] = v
    BY <1>2, <1>7, <2>1, <2>2
  <2>5. t.left \in a .. b /\ t.right \in t.left .. b
    BY <1>7, <2>2
  <2>6. ~ Less(v, t.x[t.left]) /\ ~ Less(t.x[t.right], v) /\ t.left = t.right
    BY <1>4, <1>5, <1>10, <2>2
  <2>7. /\ \A i \in a .. t.left - 1 : Less(t.x[i], v)
        /\ \A i \in t.right + 1 .. b : Less(v, t.x[i])
    BY <1>8, <1>9, <1>10, <2>2
  <2> QED
    BY <2>3, <2>4, <2>5, <2>6, <2>7 DEF Cut
<1>11. CASE l # r
  <2>1. l < r /\ s.x[l] # s.x[r]
    BY <1>1, <1>7, <1>11
  <2>2. t.x = w /\ t.left = l /\ t.right = r
    BY <1>6, <2>1
  <2>3. /\ Rearranged(w, x0, a, b)
        /\ \A i \in 1 .. n : w[i] = IF i = l THEN s.x[r] ELSE IF i = r THEN s.x[l] ELSE s.x[i]
    <3>1. a \in Nat /\ b \in Nat /\ l \in 1 .. Len(s.x) /\ r \in 1 .. Len(s.x)
          /\ l \in a .. b /\ r \in a .. b /\ Rearranged(s.x, x0, a, b)
      BY <1>1, <1>7 DEF Cut
    <3> QED
      BY <1>1, <1>11, <3>1, SwapIs DEF w
  <2>4. \E i \in l .. r : w[i] = v
    <3>1. m \in l .. r
      BY <1>3, <1>4, <1>5
    <3>2. CASE m = l
      BY <1>2, <1>7, <2>1, <2>3, <3>2
    <3>3. CASE m = r
      BY <1>2, <1>7, <2>1, <2>3, <3>3
    <3>4. CASE m # l /\ m # r
      BY <1>2, <1>3, <2>3, <3>1, <3>4
    <3> QED
      BY <3>2, <3>3, <3>4
  <2>5. \A i \in a .. l - 1 : Less(w[i], v)
    <3>1. \A i \in a .. l - 1 : i \in 1 .. n /\ i # l /\ i # r
      BY <1>1, <1>7
    <3> QED
      BY <1>8, <2>3, <3>1
  <2>6. \A i \in r + 1 .. b : Less(v, w[i])
    <3>1. \A i \in r + 1 .. b : i \in 1 .. n /\ i # l /\ i # r
      BY <1>1, <1>7
    <3> QED
      BY <1>9, <2>3, <3>1
  <2>7. ~ Less(v, w[l]) /\ ~ Less(w[r], v)
    BY <1>4, <1>5, <1>7, <1>11, <2>3
  <2>8. r - l <= n - k
    <3>1. CASE k = 1
      BY <1>1, <1>7, <3>1
    <3>2. CASE k > 1
      <4>1. /\ ~ Less(v, s.x[s.left]) /\ ~ Less(s.x[s.right], v)
            /\ s.left = s.right \/ s.right - s.left <= n - (k - 1)
        BY <3>2 DEF Cut
      <4>2. s.left # s.right
        BY <1>3, <1>4, <1>5, <1>11
      <4>3. l # s.left \/ r # s.right
        <5>1. SUFFICES ASSUME l = s.left, r = s.right PROVE FALSE
          OBVIOUS
        <5>2. s.x[l] = v
          BY <1>1, <1>4, <1>7, <4>1, <5>1, LessOrders
        <5>3. s.x[r] = v
          BY <1>1, <1>5, <1>7, <4>1, <5>1, LessOrders
        <5> QED
          BY <2>1, <5>2, <5>3
      <4>4. /\ s.left \in Int /\ s.right \in Int /\ l \in Int /\ r \in Int
            /\ s.left <= l /\ r <= s.right
        BY <1>1, <1>3, <1>4, <1>5, <1>7
      <4>5. r - l < s.right - s.left
        BY <4>3, <4>4
      <4> QED
        BY <1>1, <4>1, <4>2, <4>4, <4>5
    <3> QED
      BY <3>1, <3>2
  <2>9. l \in a .. b /\ r \in l .. b
    BY <1>7
  <2>10. /\ Rearranged(t.x, x0, a, b)
         /\ t.left \in a .. b /\ t.right \in t.left .. b
         /\ \E i \in t.left .. t.right : t.x[i] = v
         /\ \A i \in a .. t.left - 1 : Less(t.x[i], v)
         /\ \A i \in t.right + 1 .. b : Less(v, t.x[i])
    BY <2>2, <2>3, <2>4, <2>5, <2>6, <2>9
  <2>11. /\ ~ Less(v, t.x[t.left]) /\ ~ Less(t.x[t.right], v)
         /\ t.right - t.left <= Len(x0) - k
    BY <2>2, <2>7, <2>8
  <2> QED
    BY <2>10, <2>11 DEF Cut
<1> QED
  BY <1>10, <1>11

\* Entries of the rearranged part come from this part.
LEMMA RearrangedWithin ==
    ASSUME NEW x0 \in Seq(Entries), Once(x0), NEW a, NEW b, NEW x, Rearranged(x, x0, a, b),
           NEW i \in 1 .. Len(x0), i \in a .. b
    PROVE  \E j \in 1 .. Len(x0) : j \in a .. b /\ x[i] = x0[j]
<1>1. DOMAIN x0 = 1 .. Len(x0) /\ DOMAIN x = 1 .. Len(x0)
  BY SeqIs DEF Rearranged
<1>2. x[i] \in ToSet(x0)
  BY <1>1 DEF Rearranged, ToSet
<1>3. PICK j \in 1 .. Len(x0) : x0[j] = x[i]
  BY <1>1, <1>2 DEF ToSet
<1>4. CASE j \notin a .. b
  <2>1. x[j] = x0[j]
    BY <1>4 DEF Rearranged
  <2>2. i = j
    BY <1>1, <1>3, <2>1 DEF Rearranged, Once
  <2> QED
    BY <1>4, <2>2
<1> QED
  BY <1>3, <1>4

\* The partition puts the pivot in its place.
LEMMA PartitionIs ==
    ASSUME NEW x0 \in Seq(Entries), Once(x0), NEW a \in 1 .. Len(x0), NEW b \in a .. Len(x0)
    PROVE  LET p == Partition(x0, a, b)
           IN  /\ Rearranged(p.x, x0, a, b) /\ p.at \in a .. b
               /\ \A i \in a .. p.at - 1 : Less(p.x[i], p.x[p.at])
               /\ \A i \in p.at + 1 .. b : Less(p.x[p.at], p.x[i])
<1> DEFINE n == Len(x0)
           v == x0[a]
           States == [x : Seq(Int \X Int), left : Nat, right : Nat]
           Round == [s \in States |-> PartitionRound(s, x0[a])]
           base == [x |-> x0, left |-> a, right |-> b]
           A == [k \in 0 .. n |-> {s \in States : Cut(s, k, x0, a, b, v)}]
           F == Looped(n, base, Round)
<1>1. /\ n \in Nat /\ DOMAIN x0 = 1 .. n /\ \A i \in 1 .. n : x0[i] \in Entries
  BY SeqIs
<1>2. v \in Entries
  BY <1>1
<1>3. Rearranged(x0, x0, a, b)
  BY DEF Rearranged
<1>4. Cut(base, 0, x0, a, b, v)
  <2>1. base.x = x0 /\ base.left = a /\ base.right = b
    OBVIOUS
  <2> HIDE DEF base
  <2>2. base.left \in a .. b /\ base.right \in base.left .. b
    BY <1>1, <2>1
  <2>3. \E m \in base.left .. base.right : base.x[m] = v
    BY <1>1, <2>1
  <2>4. /\ \A i \in a .. base.left - 1 : Less(base.x[i], v)
        /\ \A i \in base.right + 1 .. b : Less(v, base.x[i])
    BY <1>1, <2>1
  <2> HIDE DEF v
  <2> QED
    BY <1>3, <2>1, <2>2, <2>3, <2>4 DEF Cut
<1>5. ASSUME NEW k \in 1 .. n, NEW s \in A[k - 1] PROVE Round[s] \in A[k]
  <2> DEFINE t == PartitionRound(s, v)
  <2>1. k - 1 \in 0 .. n /\ k \in 0 .. n
    BY <1>1
  <2>2. s \in States /\ Cut(s, k - 1, x0, a, b, v)
    BY <1>5, <2>1
  <2>3. Cut(t, k, x0, a, b, v)
    <3> HIDE DEF States, v, A, Round
    <3> QED
      BY <1>2, <2>2, RoundCuts
  <2>4. t = [x |-> t.x, left |-> t.left, right |-> t.right]
    BY DEF PartitionRound
  <2>5. Round[s] = t
    BY <2>2
  <2> HIDE DEF t
  <2>6. t.x \in Seq(Int \X Int) /\ t.left \in a .. b /\ t.right \in t.left .. b
    BY <2>3 DEF Cut, Rearranged, Entries
  <2>7. t.left \in Nat /\ t.right \in Nat
    BY <1>1, <2>6
  <2>8. t \in States
    BY <2>4, <2>6, <2>7
  <2> QED
    BY <2>1, <2>3, <2>5, <2>8
<1>6. base \in A[0]
  <2>1. base \in States
    BY <1>1 DEF Entries
  <2> HIDE DEF States, base, v
  <2> QED
    BY <1>1, <1>4, <2>1
<1>7. \A k \in 0 .. n : A[k] \subseteq States
  OBVIOUS
<1> HIDE DEF States, base, Round
<1>8. \A k \in 0 .. n : F[k] \in A[k]
  <2> HIDE DEF A, n, F
  <2> QED
    BY <1>1, <1>5, <1>6, <1>7, RoundsIs DEF F
<1>9. F[n].left = F[n].right /\ Cut(F[n], n, x0, a, b, v)
  <2>1. Cut(F[n], n, x0, a, b, v)
    <3> HIDE DEF F, v
    <3> QED
      BY <1>1, <1>8
  <2> HIDE DEF F, v
  <2> DEFINE s == F[n]
  <2>2. s.left \in a .. b /\ s.right \in s.left .. b
    BY <2>1 DEF Cut
  <2>3. s.left = s.right \/ s.right - s.left <= n - n
    BY <1>1, <2>1 DEF Cut
  <2>4. s.left = s.right
    BY <1>1, <2>2, <2>3
  <2> QED
    BY <2>1, <2>4
<1>10. Partition(x0, a, b) = [x |-> F[n].x, at |-> F[n].right]
  BY Zenon DEF Partition, Looped, F, Round, base, States, n
<1> HIDE DEF F
<1> DEFINE s == F[n]
           p == Partition(x0, a, b)
<1>11. p.x = s.x /\ p.at = s.right
  BY <1>10
<1> HIDE DEF p, v
<1>12. /\ Rearranged(s.x, x0, a, b) /\ s.left \in a .. b /\ s.right \in s.left .. b
       /\ \E m \in s.left .. s.right : s.x[m] = v
       /\ \A i \in a .. s.left - 1 : Less(s.x[i], v)
       /\ \A i \in s.right + 1 .. b : Less(v, s.x[i])
  BY <1>9 DEF Cut
<1>13. s.x[s.right] = v
  <2>1. PICK m \in s.left .. s.right : s.x[m] = v
    BY <1>12
  <2>2. m = s.right
    BY <1>1, <1>9, <1>12, <2>1
  <2> QED
    BY <2>1, <2>2
<1>14. /\ Rearranged(p.x, x0, a, b) /\ p.at \in a .. b
       /\ \A i \in a .. p.at - 1 : Less(p.x[i], p.x[p.at])
       /\ \A i \in p.at + 1 .. b : Less(p.x[p.at], p.x[i])
  BY <1>9, <1>11, <1>12, <1>13
<1> QED
  BY <1>14 DEF p

-----------------------------------------------------------------------------
(* The union of posting lists.                                             *)

Counters == [id : Nat, qty : Nat]

\* lst counts the numbers of D as often as g does, if it does so at all.
Counts(lst, D, g) ==
    /\ lst \in Seq(Counters)
    /\ \A i, j \in 1 .. Len(lst) : i < j => lst[i].id < lst[j].id
    /\ \A i \in 1 .. Len(lst) : lst[i].id \in D /\ lst[i].qty = g[lst[i].id] /\ g[lst[i].id] > 0
    /\ \A d \in D : g[d] > 0 => \E i \in 1 .. Len(lst) : lst[i].id = d

\* What is left after k rounds comes behind what was merged into the result,
\* and this is counted as h counts.
Merging(s, k, lst1, lst2, D, h) ==
    /\ s.i1 \in 1 .. Len(lst1) + 1 /\ s.i2 \in 1 .. Len(lst2) + 1
    /\ \/ s.i1 = Len(lst1) + 1 /\ s.i2 = Len(lst2) + 1
       \/ s.i1 + s.i2 >= k + 2
    /\ s.res \in Seq(Counters)
    /\ \A i, j \in 1 .. Len(s.res) : i < j => s.res[i].id < s.res[j].id
    /\ \A i \in 1 .. Len(s.res) :
           /\ s.res[i].id \in D /\ s.res[i].qty = h[s.res[i].id] /\ h[s.res[i].id] > 0
           /\ \A j \in s.i1 .. Len(lst1) : s.res[i].id < lst1[j].id
           /\ \A j \in s.i2 .. Len(lst2) : s.res[i].id < lst2[j]
    /\ \A j \in 1 .. s.i1 - 1 : \E i \in 1 .. Len(s.res) : s.res[i].id = lst1[j].id
    /\ \A j \in 1 .. s.i2 - 1 : \E i \in 1 .. Len(s.res) : s.res[i].id = lst2[j]

\* What D counts with one more posting list.
More(g, D, lst2) == [d \in D |-> g[d] + IF d \in ToSet(lst2) THEN 1 ELSE 0]

\* One round takes the least number that is left.
LEMMA LeastTaken ==
    ASSUME NEW D, D \subseteq Nat, NEW g \in [D -> Nat], NEW lst1, Counts(lst1, D, g),
           NEW lst2, IsList(lst2, ToSet(lst2)), ToSet(lst2) \subseteq D,
           NEW k \in Nat, NEW s, Merging(s, k, lst1, lst2, D, More(g, D, lst2)),
           Takes1(lst1, lst2, s) \/ Takes2(lst1, lst2, s)
    PROVE  LET e == Counted1(lst1, lst2, s)
               h == More(g, D, lst2)
           IN  /\ e \in Counters /\ e.id \in D /\ e.qty = h[e.id] /\ h[e.id] > 0
               /\ \A i \in 1 .. Len(s.res) : s.res[i].id < e.id
               /\ Takes1(lst1, lst2, s) => lst1[s.i1].id = e.id
               /\ Takes2(lst1, lst2, s) => lst2[s.i2] = e.id
               /\ \A j \in s.i1 .. Len(lst1) :
                      IF j = s.i1 /\ Takes1(lst1, lst2, s) THEN TRUE ELSE e.id < lst1[j].id
               /\ \A j \in s.i2 .. Len(lst2) :
                      IF j = s.i2 /\ Takes2(lst1, lst2, s) THEN TRUE ELSE e.id < lst2[j]
<1> DEFINE h == More(g, D, lst2)
           t1 == Takes1(lst1, lst2, s)
           t2 == Takes2(lst1, lst2, s)
           e == Counted1(lst1, lst2, s)
           n1 == Len(lst1)
           n2 == Len(lst2)
<1>1. /\ n1 \in Nat /\ \A i \in 1 .. n1 : lst1[i] \in Counters
      /\ n2 \in Nat /\ DOMAIN lst2 = 1 .. n2 /\ \A i \in 1 .. n2 : lst2[i] \in Nat /\ lst2[i] \in D
      /\ Len(s.res) \in Nat /\ \A i \in 1 .. Len(s.res) : s.res[i] \in Counters
  <2>1. /\ n1 \in Nat /\ \A i \in 1 .. n1 : lst1[i] \in Counters
    BY SeqIs DEF Counts
  <2>2. n2 \in Nat /\ DOMAIN lst2 = 1 .. n2 /\ \A i \in 1 .. n2 : lst2[i] \in Nat
    BY SeqIs DEF IsList
  <2>3. \A i \in 1 .. n2 : lst2[i] \in ToSet(lst2)
    BY <2>2 DEF ToSet
  <2>4. /\ Len(s.res) \in Nat /\ \A i \in 1 .. Len(s.res) : s.res[i] \in Counters
    BY SeqIs DEF Merging
  <2> QED
    BY <2>1, <2>2, <2>3, <2>4
<1>2. \A i \in 1 .. n1 : lst1[i].id \in Nat /\ lst1[i].qty \in Nat
                         /\ lst1[i] = [id |-> lst1[i].id, qty |-> lst1[i].qty]
  BY <1>1 DEF Counters
<1>3. /\ s.i1 \in 1 .. n1 + 1 /\ s.i2 \in 1 .. n2 + 1
  BY DEF Merging
<1>4. \A i, j \in 1 .. n1 : i < j => lst1[i].id < lst1[j].id
  BY DEF Counts
<1>5. \A i, j \in 1 .. n2 : i < j => lst2[i] < lst2[j]
  BY <1>1 DEF IsList, Ascends
<1>6. /\ \A i \in 1 .. Len(s.res), j \in s.i1 .. n1 : s.res[i].id < lst1[j].id
      /\ \A i \in 1 .. Len(s.res), j \in s.i2 .. n2 : s.res[i].id < lst2[j]
      /\ \A j \in 1 .. s.i1 - 1 : \E i \in 1 .. Len(s.res) : s.res[i].id = lst1[j].id
      /\ \A j \in 1 .. s.i2 - 1 : \E i \in 1 .. Len(s.res) : s.res[i].id = lst2[j]
  BY DEF Merging
<1>7. \A d \in D : h[d] = g[d] + (IF d \in ToSet(lst2) THEN 1 ELSE 0) /\ g[d] \in Nat /\ d \in Nat
  BY DEF More
<1>8. /\ t1 <=> s.i1 <= n1 /\ (s.i2 <= n2 => lst1[s.i1].id <= lst2[s.i2])
      /\ t2 <=> s.i2 <= n2 /\ (s.i1 <= n1 => lst2[s.i2] <= lst1[s.i1].id)
  BY DEF Takes1, Takes2
<1>9. e = IF t2 THEN [id |-> lst2[s.i2], qty |-> 1 + IF t1 THEN lst1[s.i1].qty ELSE 0]
          ELSE lst1[s.i1]
  BY DEF Counted1
<1> HIDE DEF h, t1, t2, e, n1, n2
<1> SUFFICES /\ e \in Counters /\ e.id \in D /\ e.qty = h[e.id] /\ h[e.id] > 0
             /\ \A i \in 1 .. Len(s.res) : s.res[i].id < e.id
             /\ t1 => lst1[s.i1].id = e.id
             /\ t2 => lst2[s.i2] = e.id
             /\ \A j \in s.i1 .. n1 : IF j = s.i1 /\ t1 THEN TRUE ELSE e.id < lst1[j].id
             /\ \A j \in s.i2 .. n2 : IF j = s.i2 /\ t2 THEN TRUE ELSE e.id < lst2[j]
  BY DEF h, t1, t2, e, n1, n2
<1>10. /\ s.i1 \in Nat /\ s.i2 \in Nat
       /\ t1 => s.i1 \in 1 .. n1 /\ s.i1 \in s.i1 .. n1
       /\ t2 => s.i2 \in 1 .. n2 /\ s.i2 \in s.i2 .. n2
  BY <1>1, <1>3, <1>8
<1>11. t1 \/ t2
  BY DEF t1, t2
<1>12. \A j \in s.i1 .. n1 : j \in 1 .. n1 /\ s.i1 \in 1 .. n1 /\ (j = s.i1 \/ lst1[s.i1].id < lst1[j].id)
  BY <1>1, <1>3, <1>4
<1>13. \A j \in s.i2 .. n2 : j \in 1 .. n2 /\ s.i2 \in 1 .. n2 /\ (j = s.i2 \/ lst2[s.i2] < lst2[j])
  BY <1>1, <1>3, <1>5
<1>14. CASE t1 /\ t2
  <2> DEFINE d == lst2[s.i2]
  <2>a. d \in D /\ d \in Nat /\ lst1[s.i1].id \in Nat
    BY <1>1, <1>2, <1>10, <1>14
  <2>b. s.i1 <= n1 /\ s.i2 <= n2
    BY <1>8, <1>14
  <2>c. lst1[s.i1].id <= d /\ d <= lst1[s.i1].id
    BY <1>8, <1>14, <2>b
  <2>1. d \in D /\ d \in Nat /\ lst1[s.i1].id = d
    <3> HIDE DEF d
    <3> QED
      BY <2>a, <2>c
  <2>2. lst1[s.i1].qty = g[d]
    BY <1>10, <1>14, <2>1 DEF Counts, n1
  <2>3. d \in ToSet(lst2)
    BY <1>1, <1>10, <1>14 DEF ToSet
  <2>4. h[d] = g[d] + 1 /\ g[d] \in Nat
    BY <1>7, <2>1, <2>3
  <2>5. e = [id |-> d, qty |-> 1 + g[d]]
    BY <1>9, <1>14, <2>2
  <2>6. \A i \in 1 .. Len(s.res) : s.res[i].id < d
    BY <1>6, <1>10, <1>14
  <2>7. /\ \A j \in s.i1 .. n1 : j = s.i1 \/ d < lst1[j].id
        /\ \A j \in s.i2 .. n2 : j = s.i2 \/ d < lst2[j]
    BY <1>12, <1>13, <2>1
  <2> HIDE DEF d
  <2>8. e \in Counters /\ e.id = d /\ e.qty = h[d] /\ h[d] > 0
    BY <2>1, <2>4, <2>5 DEF Counters
  <2> QED
    BY <1>14, <2>1, <2>6, <2>7, <2>8 DEF d
<1>15. CASE t1 /\ ~ t2
  <2> DEFINE d == lst1[s.i1].id
  <2>1. d \in D /\ d \in Nat /\ lst1[s.i1].qty = g[d] /\ g[d] > 0
    BY <1>2, <1>10, <1>15 DEF Counts, n1
  <2>2. e = lst1[s.i1] /\ e \in Counters /\ e.id = d /\ e.qty = g[d]
    BY <1>1, <1>9, <1>10, <1>15, <2>1
  <2>3. \A j \in s.i2 .. n2 : d < lst2[j]
    <3>1. ASSUME NEW j \in s.i2 .. n2 PROVE d < lst2[j]
      <4>1. s.i2 \in 1 .. n2 /\ s.i2 <= n2
        BY <1>1, <1>13
      <4>2. d < lst2[s.i2]
        BY <1>1, <1>8, <1>15, <2>1, <4>1
      <4>3. lst2[s.i2] <= lst2[j] /\ lst2[j] \in Nat /\ lst2[s.i2] \in Nat
        BY <1>1, <1>13, SMTT(30)
      <4> HIDE DEF d
      <4> QED
        BY <2>1, <4>2, <4>3
    <3> QED
      BY <3>1
  <2>4. d \notin ToSet(lst2)
    <3>1. SUFFICES ASSUME NEW j \in 1 .. n2, lst2[j] = d PROVE FALSE
      BY <1>1 DEF ToSet
    <3>2. CASE j \in s.i2 .. n2
      BY <2>1, <2>3, <3>1, <3>2
    <3>3. CASE j \in 1 .. s.i2 - 1
      <4>1. PICK i \in 1 .. Len(s.res) : s.res[i].id = d
        BY <1>6, <3>1, <3>3
      <4>2. s.res[i].id < d
        BY <1>6, <1>10, <1>15
      <4> HIDE DEF d
      <4> QED
        BY <2>1, <4>1, <4>2
    <3>4. j \in s.i2 .. n2 \/ j \in 1 .. s.i2 - 1
      BY <1>1, <1>10
    <3> QED
      BY <3>2, <3>3, <3>4
  <2>5. h[d] = g[d] /\ g[d] \in Nat
    BY <1>7, <2>1, <2>4
  <2>6. \A i \in 1 .. Len(s.res) : s.res[i].id < d
    BY <1>6, <1>10, <1>15
  <2>7. \A j \in s.i1 .. n1 : j = s.i1 \/ d < lst1[j].id
    BY <1>12
  <2>8. lst1[s.i1].id = d
    OBVIOUS
  <2> HIDE DEF d
  <2> QED
    BY <1>15, <2>1, <2>2, <2>3, <2>5, <2>6, <2>7, <2>8
<1>16. CASE ~ t1 /\ t2
  <2> DEFINE d == lst2[s.i2]
  <2>1. d \in D /\ d \in Nat
    BY <1>1, <1>10, <1>16
  <2>2. \A j \in s.i1 .. n1 : d < lst1[j].id
    <3>1. ASSUME NEW j \in s.i1 .. n1 PROVE d < lst1[j].id
      <4>1. s.i1 \in 1 .. n1 /\ s.i1 <= n1
        BY <1>1, <1>12
      <4>a. lst1[j].id \in Nat /\ lst1[s.i1].id \in Nat
        BY <1>2, <1>12
      <4>b. s.i2 <= n2 /\ ~ (lst1[s.i1].id <= d)
        BY <1>8, <1>16, <4>1
      <4>2. d < lst1[s.i1].id
        <5> HIDE DEF d
        <5> QED
          BY <2>1, <4>a, <4>b
      <4>3. lst1[s.i1].id <= lst1[j].id /\ lst1[j].id \in Nat /\ lst1[s.i1].id \in Nat
        <5>1. j = s.i1 \/ lst1[s.i1].id < lst1[j].id
          BY <1>12
        <5> QED
          BY <4>a, <5>1
      <4> HIDE DEF d
      <4> QED
        BY <2>1, <4>2, <4>3
    <3> QED
      BY <3>1
  <2>3. g[d] = 0
    <3>1. SUFFICES ASSUME g[d] > 0 PROVE FALSE
      BY <1>7, <2>1
    <3>2. PICK j \in 1 .. n1 : lst1[j].id = d
      BY <2>1, <3>1 DEF Counts, n1
    <3>3. CASE j \in s.i1 .. n1
      BY <2>1, <2>2, <3>2, <3>3
    <3>4. CASE j \in 1 .. s.i1 - 1
      <4>1. PICK i \in 1 .. Len(s.res) : s.res[i].id = d
        BY <1>6, <3>2, <3>4
      <4>2. s.res[i].id < d
        BY <1>6, <1>10, <1>16
      <4> HIDE DEF d
      <4> QED
        BY <2>1, <4>1, <4>2
    <3>5. j \in s.i1 .. n1 \/ j \in 1 .. s.i1 - 1
      BY <1>1, <1>10
    <3> QED
      BY <3>3, <3>4, <3>5
  <2>4. d \in ToSet(lst2)
    BY <1>1, <1>10, <1>16 DEF ToSet
  <2>5. h[d] = 1
    BY <1>7, <2>1, <2>3, <2>4
  <2>6. e = [id |-> d, qty |-> 1]
    BY <1>9, <1>16
  <2>7. \A i \in 1 .. Len(s.res) : s.res[i].id < d
    BY <1>6, <1>10, <1>16
  <2>8. \A j \in s.i2 .. n2 : j = s.i2 \/ d < lst2[j]
    BY <1>13
  <2>9. lst2[s.i2] = d
    OBVIOUS
  <2> HIDE DEF d
  <2>10. e \in Counters /\ e.id = d /\ e.qty = h[d] /\ h[d] > 0
    BY <2>1, <2>5, <2>6 DEF Counters
  <2> QED
    BY <1>16, <2>1, <2>2, <2>7, <2>8, <2>9, <2>10
<1> QED
  BY <1>11, <1>14, <1>15, <1>16

\* One round of the union, whatever it takes.
LEMMA RoundMerges ==
    ASSUME NEW D, D \subseteq Nat, NEW g \in [D -> Nat], NEW lst1, Counts(lst1, D, g),
           NEW lst2, IsList(lst2, ToSet(lst2)), ToSet(lst2) \subseteq D,
           NEW k \in Nat, NEW s, Merging(s, k, lst1, lst2, D, More(g, D, lst2))
    PROVE  Merging(UnionRound(lst1, lst2, s), k + 1, lst1, lst2, D, More(g, D, lst2))
<1> DEFINE h == More(g, D, lst2)
           t1 == Takes1(lst1, lst2, s)
           t2 == Takes2(lst1, lst2, s)
           e == Counted1(lst1, lst2, s)
           n1 == Len(lst1)
           n2 == Len(lst2)
           t == UnionRound(lst1, lst2, s)
           res == Append(s.res, e)
           m == Len(s.res)
<1>1. /\ n1 \in Nat /\ n2 \in Nat /\ m \in Nat
      /\ \A i \in 1 .. n1 : lst1[i].id \in Nat
      /\ \A i \in 1 .. n2 : lst2[i] \in Nat
  <2>1. n1 \in Nat /\ \A i \in 1 .. n1 : lst1[i] \in Counters
    BY SeqIs DEF Counts
  <2>2. n2 \in Nat /\ \A i \in 1 .. n2 : lst2[i] \in Nat
    BY SeqIs DEF IsList
  <2>3. m \in Nat
    BY SeqIs DEF Merging
  <2> QED
    BY <2>1, <2>2, <2>3 DEF Counters
<1>2. t = [i1 |-> IF t1 THEN s.i1 + 1 ELSE s.i1,
           i2 |-> IF t2 THEN s.i2 + 1 ELSE s.i2,
           res |-> IF t1 \/ t2 THEN res ELSE s.res]
  BY Zenon DEF UnionRound
<1>3. /\ s.i1 \in 1 .. n1 + 1 /\ s.i2 \in 1 .. n2 + 1 /\ s.res \in Seq(Counters)
      /\ (s.i1 = n1 + 1 /\ s.i2 = n2 + 1) \/ s.i1 + s.i2 >= k + 2
  BY DEF Merging
<1>4. /\ t1 <=> s.i1 <= n1 /\ (s.i2 <= n2 => lst1[s.i1].id <= lst2[s.i2])
      /\ t2 <=> s.i2 <= n2 /\ (s.i1 <= n1 => lst2[s.i2] <= lst1[s.i1].id)
  BY DEF Takes1, Takes2
<1>5. t1 \/ t2 =>
          /\ e \in Counters /\ e.id \in D /\ e.qty = h[e.id] /\ h[e.id] > 0
          /\ \A i \in 1 .. m : s.res[i].id < e.id
          /\ t1 => lst1[s.i1].id = e.id
          /\ t2 => lst2[s.i2] = e.id
          /\ \A j \in s.i1 .. n1 : IF j = s.i1 /\ t1 THEN TRUE ELSE e.id < lst1[j].id
          /\ \A j \in s.i2 .. n2 : IF j = s.i2 /\ t2 THEN TRUE ELSE e.id < lst2[j]
  BY LeastTaken
<1> HIDE DEF h, t1, t2, e, n1, n2, res, m
<1> SUFFICES Merging(t, k + 1, lst1, lst2, D, h)
  BY DEF h
<1> HIDE DEF t
<1>6. CASE ~ t1 /\ ~ t2
  <2>1. t.i1 = s.i1 /\ t.i2 = s.i2 /\ t.res = s.res
    BY <1>2, <1>6
  <2>2. s.i1 = n1 + 1 /\ s.i2 = n2 + 1
    <3>1. ~ (s.i1 <= n1) \/ s.i1 \in 1 .. n1
      BY <1>1, <1>3
    <3>2. ~ (s.i2 <= n2) \/ s.i2 \in 1 .. n2
      BY <1>1, <1>3
    <3>3. ~ (s.i1 <= n1) /\ ~ (s.i2 <= n2)
      BY <1>1, <1>4, <1>6, <3>1, <3>2
    <3> QED
      BY <1>1, <1>3, <3>3
  <2> QED
    BY <2>1, <2>2 DEF Merging, h, n1, n2
<1>7. CASE t1 \/ t2
  <2>1. /\ t.i1 = IF t1 THEN s.i1 + 1 ELSE s.i1
        /\ t.i2 = IF t2 THEN s.i2 + 1 ELSE s.i2
        /\ t.res = res
    BY <1>2, <1>7
  <2>a. (t1 => s.i1 <= n1) /\ (t2 => s.i2 <= n2)
    BY <1>4
  <2>b. t.i1 \in 1 .. n1 + 1
    BY <1>1, <1>3, <2>1, <2>a
  <2>c. t.i2 \in 1 .. n2 + 1
    BY <1>1, <1>3, <2>1, <2>a
  <2>2. t.i1 \in 1 .. n1 + 1 /\ t.i2 \in 1 .. n2 + 1
    BY <2>b, <2>c
  <2>3. (t.i1 = n1 + 1 /\ t.i2 = n2 + 1) \/ t.i1 + t.i2 >= (k + 1) + 2
    <3>1. CASE s.i1 = n1 + 1 /\ s.i2 = n2 + 1
      BY <1>1, <1>4, <1>7, <3>1
    <3>2. CASE s.i1 + s.i2 >= k + 2
      BY <1>1, <1>3, <1>7, <2>1, <3>2
    <3> QED
      BY <1>3, <3>1, <3>2
  <2>4. /\ res \in Seq(Counters) /\ Len(res) = m + 1
        /\ \A i \in 1 .. m : res[i] = s.res[i]
        /\ res[m + 1] = e
    BY <1>3, <1>5, <1>7, AppendProperties DEF res, m
  <2>5. \A i \in 1 .. m + 1 : i \in 1 .. m \/ i = m + 1
    BY <1>1
  <2>6. \A i \in 1 .. m : i \in 1 .. m + 1
    BY <1>1
  <2>7. m + 1 \in 1 .. m + 1
    BY <1>1
  <2>8. \A i, j \in 1 .. m + 1 : i < j => res[i].id < res[j].id
    <3>1. ASSUME NEW i \in 1 .. m + 1, NEW j \in 1 .. m + 1, i < j PROVE res[i].id < res[j].id
      <4>1. i \in 1 .. m
        BY <1>1, <3>1
      <4>2. CASE j \in 1 .. m
        BY <2>4, <3>1, <4>1, <4>2 DEF Merging, m
      <4>3. CASE j = m + 1
        BY <1>5, <1>7, <2>4, <4>1, <4>3
      <4> QED
        BY <2>5, <4>2, <4>3
    <3> QED
      BY <3>1
  <2>9. \A j \in t.i1 .. n1 : j \in s.i1 .. n1 /\ ~ (j = s.i1 /\ t1)
    BY <1>1, <1>3, <2>1
  <2>10. \A j \in t.i2 .. n2 : j \in s.i2 .. n2 /\ ~ (j = s.i2 /\ t2)
    BY <1>1, <1>3, <2>1
  <2>11. ASSUME NEW i \in 1 .. m + 1
         PROVE  /\ res[i].id \in D /\ res[i].qty = h[res[i].id] /\ h[res[i].id] > 0
                /\ \A j \in t.i1 .. n1 : res[i].id < lst1[j].id
                /\ \A j \in t.i2 .. n2 : res[i].id < lst2[j]
    <3>1. CASE i \in 1 .. m
      <4>1. /\ s.res[i].id \in D /\ s.res[i].qty = h[s.res[i].id] /\ h[s.res[i].id] > 0
            /\ \A j \in s.i1 .. n1 : s.res[i].id < lst1[j].id
            /\ \A j \in s.i2 .. n2 : s.res[i].id < lst2[j]
        BY <3>1 DEF Merging, h, m, n1, n2
      <4>2. res[i] = s.res[i]
        BY <2>4, <3>1
      <4> QED
        BY <2>9, <2>10, <4>1, <4>2
    <3>2. CASE i = m + 1
      <4>1. res[i] = e
        BY <2>4, <3>2
      <4>2. e.id \in D /\ e.qty = h[e.id] /\ h[e.id] > 0
        BY <1>5, <1>7
      <4>3. \A j \in t.i1 .. n1 : e.id < lst1[j].id
        BY <1>5, <1>7, <2>9
      <4>4. \A j \in t.i2 .. n2 : e.id < lst2[j]
        BY <1>5, <1>7, <2>10
      <4> QED
        BY <4>1, <4>2, <4>3, <4>4
    <3> QED
      BY <2>5, <3>1, <3>2
  <2>12. \A j \in 1 .. t.i1 - 1 : \E i \in 1 .. m + 1 : res[i].id = lst1[j].id
    <3>1. ASSUME NEW j \in 1 .. t.i1 - 1 PROVE \E i \in 1 .. m + 1 : res[i].id = lst1[j].id
      <4>1. j \in 1 .. s.i1 - 1 \/ (t1 /\ j = s.i1)
        BY <1>1, <1>3, <2>1
      <4>2. CASE j \in 1 .. s.i1 - 1
        <5>1. PICK i \in 1 .. m : s.res[i].id = lst1[j].id
          BY <4>2 DEF Merging, m
        <5> QED
          BY <2>4, <2>6, <5>1
      <4>3. CASE t1 /\ j = s.i1
        BY <1>5, <2>4, <2>7, <4>3
      <4> QED
        BY <4>1, <4>2, <4>3
    <3> QED
      BY <3>1
  <2>13. \A j \in 1 .. t.i2 - 1 : \E i \in 1 .. m + 1 : res[i].id = lst2[j]
    <3>1. ASSUME NEW j \in 1 .. t.i2 - 1 PROVE \E i \in 1 .. m + 1 : res[i].id = lst2[j]
      <4>1. j \in 1 .. s.i2 - 1 \/ (t2 /\ j = s.i2)
        BY <1>1, <1>3, <2>1
      <4>2. CASE j \in 1 .. s.i2 - 1
        <5>1. PICK i \in 1 .. m : s.res[i].id = lst2[j]
          BY <4>2 DEF Merging, m
        <5> QED
          BY <2>4, <2>6, <5>1
      <4>3. CASE t2 /\ j = s.i2
        BY <1>5, <2>4, <2>7, <4>3
      <4> QED
        BY <4>1, <4>2, <4>3
    <3> QED
      BY <3>1
  <2> QED
    BY <2>1, <2>2, <2>3, <2>4, <2>8, <2>11, <2>12, <2>13 DEF Merging, n1, n2
<1> QED
  BY <1>6, <1>7

\* The union counts each number once more that the posting list has.
LEMMA UnionIs ==
    ASSUME NEW D, D \subseteq Nat, NEW g \in [D -> Nat], NEW lst1, Counts(lst1, D, g),
           NEW lst2, IsList(lst2, ToSet(lst2)), ToSet(lst2) \subseteq D
    PROVE  Counts(PostListUnion(lst1, lst2), D, More(g, D, lst2))
<1> DEFINE h == More(g, D, lst2)
           n == Len(lst1) + Len(lst2)
           States == [i1 : Nat, i2 : Nat, res : Seq([id : Nat, qty : Nat])]
           Round == [s \in States |-> UnionRound(lst1, lst2, s)]
           base == [i1 |-> 1, i2 |-> 1, res |-> <<>>]
           A == [k \in 0 .. n |-> {s \in States : Merging(s, k, lst1, lst2, D, h)}]
           F == Looped(n, base, Round)
<1>1. Len(lst1) \in Nat /\ Len(lst2) \in Nat /\ n \in Nat
  BY SeqIs DEF Counts, IsList
<1>2. base.i1 = 1 /\ base.i2 = 1 /\ base.res = <<>> /\ <<>> \in Seq(Counters) /\ Len(<<>>) = 0
  OBVIOUS
<1>3. Merging(base, 0, lst1, lst2, D, h)
  <2> HIDE DEF base, h
  <2> QED
    BY <1>1, <1>2 DEF Merging
<1>4. ASSUME NEW k \in 1 .. n, NEW s \in A[k - 1] PROVE Round[s] \in A[k]
  <2> DEFINE t == UnionRound(lst1, lst2, s)
             j == k - 1
  <2>1. j \in 0 .. n /\ k \in 0 .. n /\ j \in Nat /\ j + 1 = k
    BY <1>1
  <2>2. s \in States /\ Merging(s, j, lst1, lst2, D, h)
    BY <1>4, <2>1
  <2>3. Merging(t, j + 1, lst1, lst2, D, h)
    <3> HIDE DEF States, A, Round, j
    <3> QED
      BY <2>1, <2>2, RoundMerges
  <2>4. t = [i1 |-> t.i1, i2 |-> t.i2, res |-> t.res]
    BY DEF UnionRound
  <2>5. Round[s] = t
    BY <2>2
  <2> HIDE DEF t, h
  <2>6. t.i1 \in Nat /\ t.i2 \in Nat /\ t.res \in Seq([id : Nat, qty : Nat])
    BY <1>1, <2>3, SMTT(30) DEF Merging, Counters
  <2>7. t \in States
    BY <2>4, <2>6
  <2> HIDE DEF States, Round
  <2> QED
    BY <2>1, <2>3, <2>5, <2>7
<1>5. base \in A[0]
  <2>1. base \in States
    BY <1>2 DEF Counters
  <2> HIDE DEF States, base, h
  <2> QED
    BY <1>1, <1>3, <2>1
<1>6. \A k \in 0 .. n : A[k] \subseteq States
  OBVIOUS
<1> HIDE DEF States, base, Round
<1>7. \A k \in 0 .. n : F[k] \in A[k]
  <2> HIDE DEF A, n, F
  <2> QED
    BY <1>1, <1>4, <1>5, <1>6, RoundsIs DEF F
<1>8. PostListUnion(lst1, lst2) = F[n].res
  BY Zenon DEF PostListUnion, Looped, F, Round, base, States, n
<1> HIDE DEF F, h
<1> DEFINE s == F[n]
<1>9. Merging(s, n, lst1, lst2, D, h)
  BY <1>1, <1>7
<1> HIDE DEF s
<1>10. s.i1 = Len(lst1) + 1 /\ s.i2 = Len(lst2) + 1
  BY <1>1, <1>9 DEF Merging
<1>11. /\ s.res \in Seq(Counters)
       /\ \A i, j \in 1 .. Len(s.res) : i < j => s.res[i].id < s.res[j].id
       /\ \A i \in 1 .. Len(s.res) :
              s.res[i].id \in D /\ s.res[i].qty = h[s.res[i].id] /\ h[s.res[i].id] > 0
  BY <1>9 DEF Merging
<1>12. ASSUME NEW d \in D, h[d] > 0 PROVE \E i \in 1 .. Len(s.res) : s.res[i].id = d
  <2>1. (\A j \in 1 .. Len(lst1) : \E i \in 1 .. Len(s.res) : s.res[i].id = lst1[j].id)
        /\ (\A j \in 1 .. Len(lst2) : \E i \in 1 .. Len(s.res) : s.res[i].id = lst2[j])
    <3>1. s.i1 - 1 = Len(lst1) /\ s.i2 - 1 = Len(lst2)
      BY <1>1, <1>10
    <3> QED
      BY <1>9, <3>1 DEF Merging
  <2>2. g[d] > 0 \/ d \in ToSet(lst2)
    <3>1. h[d] = g[d] + (IF d \in ToSet(lst2) THEN 1 ELSE 0) /\ g[d] \in Nat
      BY DEF h, More
    <3> QED
      BY <1>12, <3>1
  <2>3. CASE g[d] > 0
    <3>1. PICK j \in 1 .. Len(lst1) : lst1[j].id = d
      BY <2>3 DEF Counts
    <3> QED
      BY <2>1, <3>1
  <2>4. CASE d \in ToSet(lst2)
    <3>1. DOMAIN lst2 = 1 .. Len(lst2)
      BY SeqIs DEF IsList
    <3>2. PICK j \in 1 .. Len(lst2) : lst2[j] = d
      BY <2>4, <3>1 DEF ToSet
    <3> QED
      BY <2>1, <3>2
  <2> QED
    BY <2>2, <2>3, <2>4
<1>13. Counts(s.res, D, h)
  BY <1>11, <1>12 DEF Counts
<1> QED
  BY <1>8, <1>13 DEF s, h

-----------------------------------------------------------------------------
(* Queues.  lists[i] for i of P are posting lists of numbers of D.         *)

Lists(lists, P, D) ==
    /\ IsFiniteSet(P) /\ D \subseteq Nat
    /\ \A i \in P : IsList(lists[i], ToSet(lists[i])) /\ ToSet(lists[i]) \subseteq D

Held(lists, P, d) == {i \in P : d \in ToSet(lists[i])}

\* What is ahead in list i.
Ahead(lists, pos, i) ==
    IF i \in DOMAIN pos THEN {lists[i][k] : k \in pos[i] .. Len(lists[i])} ELSE {}

\* What was passed somewhere is ahead nowhere; of what was passed the numbers
\* that n lists hold were found.
Passing(lists, P, D, n, pos, found) ==
    /\ DOMAIN pos \subseteq P /\ \A i \in DOMAIN pos : pos[i] \in 1 .. Len(lists[i])
    /\ \A i, j \in P : \A d \in ToSet(lists[i]) \ Ahead(lists, pos, i) :
           \A e \in Ahead(lists, pos, j) : d < e
    /\ found \in Seq(D) /\ Once(found)
    /\ ToSet(found) = {d \in D : /\ Cardinality(Held(lists, P, d)) >= n
                                 /\ \A i \in P : d \notin Ahead(lists, pos, i)}

\* One more element behind the others.
LEMMA AppendOnce ==
    ASSUME NEW S, NEW s \in Seq(S), Once(s), NEW e \in S, e \notin ToSet(s)
    PROVE  /\ Append(s, e) \in Seq(S) /\ Once(Append(s, e))
           /\ ToSet(Append(s, e)) = ToSet(s) \cup {e}
           /\ Len(Append(s, e)) = Len(s) + 1
<1> DEFINE t == Append(s, e)
           n == Len(s)
<1>1. n \in Nat /\ DOMAIN s = 1 .. n
  BY SeqIs
<1>2. t \in Seq(S) /\ Len(t) = n + 1 /\ t[n + 1] = e /\ \A i \in 1 .. n : t[i] = s[i]
  BY AppendProperties
<1>3. DOMAIN t = 1 .. n + 1
  BY <1>2, SeqIs
<1> HIDE DEF t
<1>4. \A i \in 1 .. n : s[i] \in ToSet(s) /\ s[i] # e
  BY <1>1 DEF ToSet
<1> HIDE DEF n
<1>5. \A i \in 1 .. n + 1 : i \in 1 .. n \/ i = n + 1
  BY <1>1
<1>6. \A i \in 1 .. n : i \in 1 .. n + 1
  BY <1>1
<1>7. n + 1 \in 1 .. n + 1
  BY <1>1
<1>8. Once(t)
  <2>1. ASSUME NEW i \in 1 .. n + 1, NEW j \in 1 .. n + 1, t[i] = t[j] PROVE i = j
    <3>1. CASE i \in 1 .. n /\ j \in 1 .. n
      BY <1>1, <1>2, <2>1, <3>1 DEF Once
    <3>2. CASE i = n + 1 \/ j = n + 1
      BY <1>2, <1>4, <1>5, <2>1, <3>2
    <3> QED
      BY <1>5, <3>1, <3>2
  <2> QED
    BY <1>3, <2>1 DEF Once
<1>9. ToSet(t) = ToSet(s) \cup {e}
  <2>1. \A i \in 1 .. n + 1 : t[i] \in ToSet(s) \cup {e}
    BY <1>2, <1>4, <1>5
  <2>2. \A i \in 1 .. n : t[i] = s[i] /\ t[i] \in ToSet(t)
    BY <1>2, <1>3, <1>6 DEF ToSet
  <2>3. e \in ToSet(t)
    BY <1>2, <1>3, <1>7 DEF ToSet
  <2>4. ToSet(t) \subseteq ToSet(s) \cup {e}
    BY <1>3, <2>1 DEF ToSet
  <2>5. ToSet(s) \subseteq ToSet(t)
    BY <1>1, <2>2 DEF ToSet
  <2> QED
    BY <2>3, <2>4, <2>5
<1> QED
  BY <1>2, <1>8, <1>9 DEF t, n

\* The lists of S move on by one number.
MovedOn(lists, pos, S) ==
    [i \in {j \in DOMAIN pos : j \in S => pos[j] + 1 <= Len(lists[j])} |->
        IF i \in S THEN pos[i] + 1 ELSE pos[i]]

\* All lists with the least number move on.
LEMMA PassingStep ==
    ASSUME NEW P, NEW D, NEW lists, Lists(lists, P, D), NEW n \in Nat, NEW pos, NEW found,
           Passing(lists, P, D, n, pos, found),
           NEW least \in D, NEW S, S # {},
           S = {i \in DOMAIN pos : lists[i][pos[i]] = least},
           \A i \in DOMAIN pos : least <= lists[i][pos[i]],
           NEW pos2, pos2 = MovedOn(lists, pos, S),
           NEW found2, found2 = IF Cardinality(S) >= n THEN Append(found, least) ELSE found
    PROVE  Passing(lists, P, D, n, pos2, found2)
<1> USE DEF MovedOn
<1>1. ASSUME NEW i \in P
      PROVE  /\ Len(lists[i]) \in Nat /\ DOMAIN lists[i] = 1 .. Len(lists[i])
             /\ \A k \in 1 .. Len(lists[i]) : lists[i][k] \in Nat
             /\ \A k \in 1 .. Len(lists[i]) : lists[i][k] \in ToSet(lists[i])
             /\ \A k, m \in 1 .. Len(lists[i]) : k < m => lists[i][k] < lists[i][m]
  <2>1. lists[i] \in Seq(Nat) /\ Ascends(lists[i])
    BY DEF Lists, IsList
  <2>2. /\ Len(lists[i]) \in Nat /\ DOMAIN lists[i] = 1 .. Len(lists[i])
        /\ \A k \in 1 .. Len(lists[i]) : lists[i][k] \in Nat
    BY <2>1, SeqIs
  <2> QED
    BY <2>1, <2>2 DEF Ascends, ToSet
<1>2. /\ DOMAIN pos \subseteq P /\ \A i \in DOMAIN pos : pos[i] \in 1 .. Len(lists[i])
      /\ \A i, j \in P : \A d \in ToSet(lists[i]) \ Ahead(lists, pos, i) :
             \A e \in Ahead(lists, pos, j) : d < e
      /\ found \in Seq(D) /\ Once(found)
      /\ ToSet(found) = {d \in D : /\ Cardinality(Held(lists, P, d)) >= n
                                   /\ \A i \in P : d \notin Ahead(lists, pos, i)}
  BY DEF Passing
<1>3. least \in Nat
  BY DEF Lists
<1>4. ASSUME NEW i \in DOMAIN pos
      PROVE  /\ lists[i][pos[i]] \in Ahead(lists, pos, i)
             /\ \A e \in Ahead(lists, pos, i) :
                    e \in Nat /\ lists[i][pos[i]] <= e /\ least <= e /\ e \in ToSet(lists[i])
  <2>1. i \in P /\ pos[i] \in 1 .. Len(lists[i])
    BY <1>2
  <2>2. pos[i] \in pos[i] .. Len(lists[i])
    BY <1>1, <2>1
  <2>3. \A k \in pos[i] .. Len(lists[i]) :
            k \in 1 .. Len(lists[i]) /\ (k = pos[i] \/ pos[i] < k)
    BY <1>1, <2>1
  <2>4. \A k \in pos[i] .. Len(lists[i]) :
            /\ lists[i][k] \in Nat /\ lists[i][pos[i]] \in Nat
            /\ lists[i][k] \in ToSet(lists[i]) /\ lists[i][pos[i]] <= lists[i][k]
    BY <1>1, <2>1, <2>3
  <2>5. least <= lists[i][pos[i]]
    OBVIOUS
  <2>6. \A k \in pos[i] .. Len(lists[i]) : least <= lists[i][k]
    BY <1>3, <2>4, <2>5
  <2> QED
    BY <2>2, <2>4, <2>6 DEF Ahead
<1>5. \A i \in P : i \notin DOMAIN pos => Ahead(lists, pos, i) = {}
  BY DEF Ahead
<1>6. /\ \A i \in P : i \in DOMAIN pos2 <=> i \in DOMAIN pos /\ (i \in S => pos[i] + 1 <= Len(lists[i]))
      /\ DOMAIN pos2 \subseteq DOMAIN pos
      /\ \A i \in DOMAIN pos2 : pos2[i] = IF i \in S THEN pos[i] + 1 ELSE pos[i]
  BY <1>2
<1>7. ASSUME NEW i \in P PROVE Ahead(lists, pos2, i) = Ahead(lists, pos, i) \ {least}
  <2>1. CASE i \notin DOMAIN pos
    BY <1>5, <1>6, <2>1 DEF Ahead
  <2>2. CASE i \in DOMAIN pos /\ i \notin S
    <3>1. i \in DOMAIN pos2 /\ pos2[i] = pos[i]
      BY <1>6, <2>2
    <3>2. Ahead(lists, pos2, i) = Ahead(lists, pos, i)
      BY <2>2, <3>1 DEF Ahead
    <3>3. lists[i][pos[i]] # least
      BY <2>2
    <3>4. least \notin Ahead(lists, pos, i)
      <4>1. SUFFICES ASSUME least \in Ahead(lists, pos, i) PROVE FALSE
        OBVIOUS
      <4>2. lists[i][pos[i]] <= least /\ least <= lists[i][pos[i]] /\ lists[i][pos[i]] \in Nat
        BY <1>4, <2>2, <4>1
      <4> QED
        BY <1>3, <3>3, <4>2
    <3> QED
      BY <3>2, <3>4
  <2>3. CASE i \in S
    <3>1. i \in DOMAIN pos /\ lists[i][pos[i]] = least /\ pos[i] \in 1 .. Len(lists[i])
      BY <1>2, <2>3
    <3>2. \A k \in pos[i] + 1 .. Len(lists[i]) :
              k \in pos[i] .. Len(lists[i]) /\ k \in 1 .. Len(lists[i]) /\ pos[i] < k
      BY <1>1, <3>1
    <3>3. \A k \in pos[i] + 1 .. Len(lists[i]) : least < lists[i][k] /\ lists[i][k] \in Nat
      BY <1>1, <3>1, <3>2
    <3>4. \A k \in pos[i] .. Len(lists[i]) : k = pos[i] \/ k \in pos[i] + 1 .. Len(lists[i])
      BY <1>1, <3>1
    <3>5. Ahead(lists, pos, i) \ {least} = {lists[i][k] : k \in pos[i] + 1 .. Len(lists[i])}
      <4>1. Ahead(lists, pos, i) = {lists[i][k] : k \in pos[i] .. Len(lists[i])}
        BY <3>1 DEF Ahead
      <4>2. \A k \in pos[i] + 1 .. Len(lists[i]) : lists[i][k] # least
        BY <1>3, <3>3
      <4> QED
        BY <3>1, <3>2, <3>4, <4>1, <4>2
    <3>6. CASE pos[i] + 1 <= Len(lists[i])
      <4>1. i \in DOMAIN pos2 /\ pos2[i] = pos[i] + 1
        BY <1>6, <2>3, <3>1, <3>6
      <4> QED
        BY <3>5, <4>1 DEF Ahead
    <3>7. CASE ~ (pos[i] + 1 <= Len(lists[i]))
      <4>1. i \notin DOMAIN pos2
        BY <1>6, <2>3, <3>7
      <4>2. pos[i] + 1 .. Len(lists[i]) = {}
        BY <1>1, <3>1, <3>7
      <4> QED
        BY <3>5, <4>1, <4>2 DEF Ahead
    <3> QED
      BY <3>6, <3>7
  <2> QED
    BY <2>1, <2>2, <2>3
<1>8. S \subseteq DOMAIN pos /\ S \subseteq P /\ \A i \in S : least \in Ahead(lists, pos, i)
  BY <1>2, <1>4
<1>9. Held(lists, P, least) = S
  <2>1. ASSUME NEW i \in P, least \in ToSet(lists[i]) PROVE i \in S
    <3>1. PICK j \in S : TRUE
      OBVIOUS
    <3>2. least \in Ahead(lists, pos, j) /\ j \in P
      BY <1>8
    <3>3. least \in Ahead(lists, pos, i)
      <4>1. SUFFICES ASSUME least \notin Ahead(lists, pos, i) PROVE FALSE
        OBVIOUS
      <4>2. least < least
        BY <1>2, <2>1, <3>2, <4>1
      <4> QED
        BY <1>3, <4>2
    <3>4. i \in DOMAIN pos
      BY <1>5, <3>3
    <3>5. lists[i][pos[i]] <= least /\ least <= lists[i][pos[i]] /\ lists[i][pos[i]] \in Nat
      BY <1>4, <3>3, <3>4
    <3> QED
      BY <1>3, <3>4, <3>5
  <2>2. ASSUME NEW i \in S PROVE least \in ToSet(lists[i])
    BY <1>4, <1>8, <2>2
  <2> QED
    BY <1>8, <2>1, <2>2 DEF Held
<1>10. \A i \in DOMAIN pos2 : pos2[i] \in 1 .. Len(lists[i])
  <2>1. ASSUME NEW i \in DOMAIN pos2 PROVE pos2[i] \in 1 .. Len(lists[i])
    <3>1. i \in DOMAIN pos /\ i \in P /\ pos[i] \in 1 .. Len(lists[i]) /\ Len(lists[i]) \in Nat
      BY <1>1, <1>2, <1>6
    <3>2. CASE i \in S
      <4>1. pos2[i] = pos[i] + 1 /\ pos[i] + 1 <= Len(lists[i])
        BY <1>6, <3>1, <3>2
      <4> QED
        BY <3>1, <4>1
    <3>3. CASE i \notin S
      BY <1>6, <3>1, <3>3
    <3> QED
      BY <3>2, <3>3
  <2> QED
    BY <2>1
<1>11. ASSUME NEW i \in P, NEW j \in P, NEW d \in ToSet(lists[i]) \ Ahead(lists, pos2, i),
              NEW e \in Ahead(lists, pos2, j)
       PROVE  d < e
  <2>1. e \in Ahead(lists, pos, j) /\ e # least
    BY <1>7
  <2>2. CASE d \notin Ahead(lists, pos, i)
    BY <1>2, <2>1, <2>2
  <2>3. CASE d = least
    <3>1. j \in DOMAIN pos
      BY <1>5, <2>1
    <3>2. e \in Nat /\ least <= e
      BY <1>4, <2>1, <3>1
    <3> QED
      BY <1>3, <2>1, <2>3, <3>2
  <2> QED
    BY <1>7, <2>2, <2>3
<1>12. least \notin ToSet(found)
  <2>1. PICK j \in S : TRUE
    OBVIOUS
  <2> QED
    BY <1>2, <1>8, <2>1
<1>13. \A d \in D : (\A i \in P : d \notin Ahead(lists, pos2, i))
                    <=> d = least \/ \A i \in P : d \notin Ahead(lists, pos, i)
  BY <1>7
<1>14. /\ found2 \in Seq(D) /\ Once(found2)
       /\ ToSet(found2) = ToSet(found) \cup IF Cardinality(S) >= n THEN {least} ELSE {}
  BY <1>2, <1>12, AppendOnce
<1>15. ToSet(found2) = {d \in D : /\ Cardinality(Held(lists, P, d)) >= n
                                  /\ \A i \in P : d \notin Ahead(lists, pos2, i)}
  BY <1>2, <1>9, <1>13, <1>14
<1>16. DOMAIN pos2 \subseteq P
  BY <1>2, <1>6
<1> HIDE DEF Ahead, Held
<1> QED
  BY <1>10, <1>11, <1>14, <1>15, <1>16 DEF Passing

HeldBy(lists, P, D, n) == {d \in D : Cardinality(Held(lists, P, d)) >= n}

\* In the beginning nothing was passed.
LEMMA PassingStarts ==
    ASSUME NEW P, NEW D, NEW lists, Lists(lists, P, D), NEW n \in Nat \ {0}
    PROVE  Passing(lists, P, D, n, [i \in {j \in P : lists[j] # <<>>} |-> 1], <<>>)
<1> DEFINE pos == [i \in {j \in P : lists[j] # <<>>} |-> 1]
<1>1. ASSUME NEW i \in P
      PROVE  /\ lists[i] \in Seq(Nat) /\ Len(lists[i]) \in Nat
             /\ DOMAIN lists[i] = 1 .. Len(lists[i])
             /\ lists[i] # <<>> => Len(lists[i]) \in Nat \ {0}
  <2>1. lists[i] \in Seq(Nat)
    BY DEF Lists, IsList
  <2> QED
    BY <2>1, SeqIs, EmptySeq
<1>2. DOMAIN pos = {j \in P : lists[j] # <<>>} /\ \A i \in DOMAIN pos : pos[i] = 1
  OBVIOUS
<1> HIDE DEF pos
<1>3. ASSUME NEW i \in P PROVE Ahead(lists, pos, i) = ToSet(lists[i])
  <2>1. CASE lists[i] # <<>>
    BY <1>1, <1>2, <2>1 DEF Ahead, ToSet
  <2>2. CASE lists[i] = <<>>
    BY <1>1, <1>2, <2>2 DEF Ahead, ToSet
  <2> QED
    BY <2>1, <2>2
<1>4. /\ <<>> \in Seq(D) /\ Once(<<>>) /\ ToSet(<<>>) = {}
  <2>1. <<>> \in Seq(D) /\ DOMAIN <<>> = {}
    OBVIOUS
  <2> QED
    BY <2>1 DEF Once, ToSet
<1>5. ASSUME NEW d \in D, \A i \in P : d \notin Ahead(lists, pos, i)
      PROVE  ~ (Cardinality(Held(lists, P, d)) >= n)
  <2>1. Held(lists, P, d) = {}
    BY <1>3, <1>5 DEF Held
  <2> QED
    BY <2>1, FS_EmptySet
<1>6. \A i \in DOMAIN pos : pos[i] \in 1 .. Len(lists[i])
  BY <1>1, <1>2
<1>7. Passing(lists, P, D, n, pos, <<>>)
  BY <1>2, <1>3, <1>4, <1>5, <1>6 DEF Passing
<1> QED
  BY <1>7 DEF pos

\* With fewer than n lists left, no number that n lists hold is ahead: all were
\* found.
LEMMA PassingEnds ==
    ASSUME NEW P, NEW D, NEW lists, Lists(lists, P, D), NEW n \in Nat \ {0},
           NEW pos, NEW found, Passing(lists, P, D, n, pos, found),
           Cardinality(DOMAIN pos) < n
    PROVE  ToSet(found) = HeldBy(lists, P, D, n)
<1>1. ASSUME NEW d \in D, Cardinality(Held(lists, P, d)) >= n, NEW j \in P
      PROVE  d \notin Ahead(lists, pos, j)
  <2>1. PICK i \in Held(lists, P, d) : i \notin DOMAIN pos
    <3>1. SUFFICES ASSUME Held(lists, P, d) \subseteq DOMAIN pos PROVE FALSE
      OBVIOUS
    <3>2. DOMAIN pos \subseteq P /\ IsFiniteSet(P)
      BY DEF Passing, Lists
    <3>3. IsFiniteSet(DOMAIN pos) /\ Held(lists, P, d) \in SUBSET DOMAIN pos
      BY <3>1, <3>2, FS_Subset
    <3>4. /\ Cardinality(Held(lists, P, d)) <= Cardinality(DOMAIN pos)
          /\ Cardinality(DOMAIN pos) \in Nat /\ Cardinality(Held(lists, P, d)) \in Nat
      BY <3>3, FS_Subset, FS_CardinalityType
    <3> QED
      BY <1>1, <3>4
  <2>2. i \in P /\ d \in ToSet(lists[i]) /\ d \notin Ahead(lists, pos, i)
    BY <2>1 DEF Held, Ahead
  <2>3. SUFFICES ASSUME d \in Ahead(lists, pos, j) PROVE FALSE
    OBVIOUS
  <2>4. d < d
    BY <2>2, <2>3 DEF Passing
  <2>5. d \in Nat
    BY DEF Lists
  <2> QED
    BY <2>4, <2>5
<1> QED
  BY <1>1 DEF Passing, HeldBy

-----------------------------------------------------------------------------
(* Counters.                                                               *)

\* How many of the first k lists hold a number.
CountIn(lists, D, k) == [d \in D |-> Cardinality(Held(lists, 1 .. k, d))]

\* The lists that hold a number can be counted.
LEMMA HeldIsFinite ==
    ASSUME NEW lists, NEW k \in Nat, NEW d
    PROVE  IsFiniteSet(Held(lists, 1 .. k, d)) /\ Cardinality(Held(lists, 1 .. k, d)) \in Nat
<1>1. IsFiniteSet(1 .. k) /\ Held(lists, 1 .. k, d) \in SUBSET (1 .. k)
  BY IntervalSize DEF Held
<1> QED
  BY <1>1, FS_Subset, FS_CardinalityType

\* Counts are numbers, and none before the first list.
LEMMA CountInIs ==
    ASSUME NEW D, NEW m \in Nat, NEW lists, Lists(lists, 1 .. m, D)
    PROVE  /\ \A k \in 0 .. m : CountIn(lists, D, k) \in [D -> Nat]
           /\ CountIn(lists, D, 0) = [d \in D |-> 0]
<1>1. \A k \in 0 .. m : CountIn(lists, D, k) \in [D -> Nat]
  BY HeldIsFinite DEF CountIn
<1>2. CountIn(lists, D, 0) = [d \in D |-> 0]
  <2>1. \A d \in D : Held(lists, 1 .. 0, d) = {}
    BY DEF Held
  <2>2. \A d \in D : Cardinality(Held(lists, 1 .. 0, d)) = 0
    BY <2>1, FS_EmptySet
  <2> QED
    BY <2>2 DEF CountIn
<1> QED
  BY <1>1, <1>2

\* One more list.
LEMMA CountInMore ==
    ASSUME NEW D, NEW m \in Nat, NEW lists, Lists(lists, 1 .. m, D),
           NEW j \in 0 .. m, NEW k \in 1 .. m, k = j + 1
    PROVE  CountIn(lists, D, k) = More(CountIn(lists, D, j), D, lists[k])
<1>1. k \notin 1 .. j /\ 1 .. k = (1 .. j) \cup {k}
  OBVIOUS
<1>2. ASSUME NEW d \in D
      PROVE  Cardinality(Held(lists, 1 .. k, d)) =
                 Cardinality(Held(lists, 1 .. j, d)) + IF d \in ToSet(lists[k]) THEN 1 ELSE 0
  <2>1. CASE d \in ToSet(lists[k])
    <3>1. /\ Held(lists, 1 .. k, d) = Held(lists, 1 .. j, d) \cup {k}
          /\ k \notin Held(lists, 1 .. j, d)
      BY <1>1, <2>1 DEF Held
    <3>2. IsFiniteSet(Held(lists, 1 .. j, d))
      BY HeldIsFinite
    <3> QED
      BY <2>1, <3>1, <3>2, FS_AddElement
  <2>2. CASE d \notin ToSet(lists[k])
    <3>1. Held(lists, 1 .. k, d) = Held(lists, 1 .. j, d)
      BY <1>1, <2>2 DEF Held
    <3>2. Cardinality(Held(lists, 1 .. j, d)) \in Nat
      BY HeldIsFinite
    <3> QED
      BY <2>2, <3>1, <3>2
  <2> QED
    BY <2>1, <2>2
<1> QED
  BY <1>2 DEF CountIn, More

\* Counting the numbers of one list.
LEMMA CountedIs ==
    ASSUME NEW D, NEW g \in [D -> Nat], NEW list, IsList(list, ToSet(list)), ToSet(list) \subseteq D,
           NEW counter, DOMAIN counter \subseteq D,
           \A d \in D : g[d] > 0 => d \in DOMAIN counter,
           \A d \in DOMAIN counter : counter[d] = g[d]
    PROVE  LET c == Counted(counter, list)
           IN  /\ DOMAIN c = DOMAIN counter \cup ToSet(list)
               /\ \A d \in DOMAIN c : c[d] = More(g, D, list)[d]
<1>1. list \in Seq(Nat) /\ Ascends(list)
  BY DEF IsList
<1>2. ASSUME NEW d \in D
      PROVE  Cardinality({k \in DOMAIN list : list[k] = d}) = IF d \in ToSet(list) THEN 1 ELSE 0
  <2>1. CASE d \in ToSet(list)
    <3>1. PICK k \in DOMAIN list : list[k] = d
      BY <2>1 DEF ToSet
    <3>2. {i \in DOMAIN list : list[i] = d} = {k}
      BY <1>1, <3>1, AscendsOnce DEF Once
    <3> QED
      BY <2>1, <3>2, FS_Singleton
  <2>2. CASE d \notin ToSet(list)
    <3>1. {i \in DOMAIN list : list[i] = d} = {}
      BY <2>2 DEF ToSet
    <3> QED
      BY <2>2, <3>1, FS_EmptySet
  <2> QED
    BY <2>1, <2>2
<1> DEFINE c == Counted(counter, list)
<1>3. /\ DOMAIN c = DOMAIN counter \cup ToSet(list)
      /\ \A d \in DOMAIN c :
             c[d] = (IF d \in DOMAIN counter THEN counter[d] ELSE 0)
                    + Cardinality({k \in DOMAIN list : list[k] = d})
  BY DEF Counted
<1> HIDE DEF c
<1>4. ASSUME NEW d \in DOMAIN c PROVE c[d] = More(g, D, list)[d]
  <2>1. d \in D
    BY <1>3
  <2>2. (IF d \in DOMAIN counter THEN counter[d] ELSE 0) = g[d]
    <3>1. g[d] \in Nat
      BY <2>1
    <3> QED
      BY <2>1, <3>1
  <2>3. c[d] = g[d] + IF d \in ToSet(list) THEN 1 ELSE 0
    BY <1>2, <1>3, <2>1, <2>2
  <2> QED
    BY <2>1, <2>3 DEF More
<1> QED
  BY <1>3, <1>4 DEF c

-----------------------------------------------------------------------------
(* Chunks and threads.                                                     *)

\* The smaller one of two numbers.
LEMMA MinIs == \A a, b \in Int : Min({a, b}) = IF a <= b THEN a ELSE b
<1> TAKE a, b \in Int
<1> DEFINE Is(x) == \A y \in {a, b} : x <= y
<1>1. \A x \in {a, b} : Is(x) => x = IF a <= b THEN a ELSE b
  OBVIOUS
<1>2. \E x \in {a, b} : Is(x)
  OBVIOUS
<1>3. Min({a, b}) = CHOOSE x \in {a, b} : Is(x)
  BY DEF Min
<1> HIDE DEF Is
<1> QED
  BY <1>1, <1>2, <1>3

\* The larger one of two numbers.
LEMMA MaxIs == \A a, b \in Int : Max({a, b}) = IF a >= b THEN a ELSE b
<1> TAKE a, b \in Int
<1> DEFINE Is(x) == \A y \in {a, b} : x >= y
<1>1. \A x \in {a, b} : Is(x) => x = IF a >= b THEN a ELSE b
  OBVIOUS
<1>2. \E x \in {a, b} : Is(x)
  OBVIOUS
<1>3. Max({a, b}) = CHOOSE x \in {a, b} : Is(x)
  BY DEF Max
<1> HIDE DEF Is
<1> QED
  BY <1>1, <1>2, <1>3

\* There is a chunk and a thread; every chunk has a thread of its own that indexes
\* it, and no more than chunk_index_size_ objects.
LEMMA SizesAre ==
    /\ ChunkQty \in Nat \ {0} /\ IndexThreadQty \in Nat \ {0}
    /\ \A c \in Chunks : c \in Nat /\ c % IndexThreadQty \in Workers
    /\ \A c \in Chunks : ChunkSize(c) \in Int /\ ChunkSize(c) <= ChunkIndexSize
<1>1. DataQty \in Nat \ {0} /\ ChunkIndexSize \in Nat \ {0} /\ IndexThreads \in Nat
  BY SettingsAssumption
<1>2. ChunkQty \in Nat \ {0}
  <2>1. \A a, b \in Nat \ {0} : (a + b - 1) \div b \in Nat \ {0}
    OBVIOUS
  <2> QED
    BY <1>1, <2>1 DEF ChunkQty
<1>3. IndexThreadQty \in Nat \ {0}
  <2> DEFINE q == Min({IndexThreads, ChunkQty})
  <2>1. q \in Nat
    BY <1>1, <1>2, MinIs
  <2> HIDE DEF q
  <2>2. Max({1, q}) \in Nat \ {0}
    BY <2>1, MaxIs
  <2> QED
    BY <2>2 DEF IndexThreadQty, q
<1>4. \A c \in Chunks : c \in Nat /\ c % IndexThreadQty \in Workers
  <2>1. \A c \in Nat, q \in Nat \ {0} : (c % q) \in 0 .. q - 1
    OBVIOUS
  <2>2. \A c \in Chunks : c \in Nat
    BY <1>2 DEF Chunks
  <2> QED
    BY <1>3, <2>1, <2>2 DEF Workers
<1>5. ASSUME NEW c \in Chunks PROVE ChunkSize(c) \in Int /\ ChunkSize(c) <= ChunkIndexSize
  <2> DEFINE rest == DataQty - c * ChunkIndexSize
  <2>1. rest \in Int
    BY <1>1, <1>4
  <2> HIDE DEF rest
  <2>2. Min({rest, ChunkIndexSize}) \in Int /\ Min({rest, ChunkIndexSize}) <= ChunkIndexSize
    BY <1>1, <2>1, MinIs
  <2> QED
    BY <2>2 DEF ChunkSize, rest
<1> QED
  BY <1>2, <1>3, <1>4, <1>5

\* Objects of different chunks, and different objects of a chunk, are different.
LEMMA ObjectsApart ==
    ASSUME NEW c \in Chunks, NEW d \in Chunks, NEW i \in IdsOf(c), NEW j \in IdsOf(d)
    PROVE  /\ ObjectOf(c, i) \in Nat
           /\ ObjectOf(c, i) = ObjectOf(d, j) => c = d /\ i = j
<1> DEFINE S == ChunkIndexSize
<1>1. c \in Nat /\ d \in Nat /\ S \in Nat \ {0}
  BY SizesAre, SettingsAssumption
<1>2. i \in 0 .. S - 1 /\ j \in 0 .. S - 1
  BY <1>1, SizesAre DEF IdsOf
<1> HIDE DEF S
<1>3. \A a, b \in Nat : a < b => a * S + S <= b * S /\ a * S \in Nat /\ b * S \in Nat
  <2> SUFFICES ASSUME NEW a \in Nat, NEW b \in Nat, a < b
               PROVE  a * S + S <= b * S /\ a * S \in Nat /\ b * S \in Nat
    OBVIOUS
  <2>1. a * S \in Nat /\ b * S \in Nat
    BY <1>1
  <2>2. b * S = a * S + S + (b - a - 1) * S /\ (b - a - 1) * S \in Nat
    <3>1. b - a - 1 \in Nat
      OBVIOUS
    <3> DEFINE m == b - a - 1
    <3>2. m \in Nat /\ b = a + m + 1
      BY <3>1
    <3> HIDE DEF m
    <3>3. (a + m + 1) * S = a * S + S + m * S /\ m * S \in Nat
      BY <1>1, <3>2
    <3> QED
      BY <3>2, <3>3 DEF m
  <2> QED
    BY <1>1, <2>1, <2>2
<1>4. c * S \in Nat /\ d * S \in Nat
  BY <1>1
<1>5. ObjectOf(c, i) = c * S + i /\ ObjectOf(d, j) = d * S + j
  BY DEF ObjectOf, S
<1>6. ASSUME c * S + i = d * S + j PROVE c = d
  <2>1. ~ (c < d) /\ ~ (d < c)
    BY <1>1, <1>2, <1>3, <1>4, <1>6
  <2> QED
    BY <1>1, <2>1
<1>7. c * S + i = d * S + j => c = d /\ i = j
  BY <1>1, <1>2, <1>4, <1>6
<1> QED
  BY <1>2, <1>4, <1>5, <1>7

Near(c, id) == {perm[ObjectOf(c, id)][j] : j \in 1 .. NumPrefix}

\* The ids of a chunk that are indexed are those up to here.
Bound(c) ==
    LET t == thread[c % IndexThreadQty]
    IN  IF t.chunk > c THEN ChunkSize(c) ELSE IF t.chunk = c THEN t.id ELSE 0

Holds(c, p) == IsList(postings[c][p], {id \in 0 .. Bound(c) - 1 : p \in Near(c, id)})

Positions ==
    /\ thread \in [Workers -> [chunk : 0 .. ChunkQty, id : Nat]]
    /\ \A t \in Workers :
           thread[t].id # 0 => thread[t].chunk \in Chunks /\ Takes(t, thread[t].chunk)

IndexRight ==
    /\ Positions
    /\ postings \in [Chunks -> [Pivots -> Seq(Nat)]]
    /\ \A c \in Chunks, p \in Pivots : Holds(c, p)
    /\ phase # "creating" => \A t \in Workers : thread[t].chunk = ChunkQty

\* Empty lists hold what was indexed: nothing.
LEMMA IndexInit == Init => IndexRight
<1> SUFFICES ASSUME Init PROVE IndexRight
  OBVIOUS
<1>1. /\ postings = [c \in Chunks |-> [p \in Pivots |-> <<>>]]
      /\ thread = [t \in Workers |-> [chunk |-> 0, id |-> 0]]
      /\ phase = "creating"
  BY DEF Init
<1>2. ChunkQty \in Nat \ {0} /\ \A c \in Chunks : c \in Nat /\ c % IndexThreadQty \in Workers
  BY SizesAre
<1>3. Positions
  BY <1>1, <1>2 DEF Positions
<1>4. ASSUME NEW c \in Chunks, NEW p \in Pivots PROVE Holds(c, p)
  <2>1. Bound(c) = 0
    BY <1>1, <1>2 DEF Bound
  <2>2. {id \in 0 .. Bound(c) - 1 : p \in Near(c, id)} = {}
    BY <2>1
  <2>3. postings[c][p] = <<>>
    BY <1>1
  <2>4. <<>> \in Seq(Nat) /\ DOMAIN <<>> = {}
    OBVIOUS
  <2>5. IsList(<<>>, {})
    BY <2>4 DEF IsList, Ascends, ToSet
  <2> QED
    BY <2>2, <2>3, <2>5 DEF Holds
<1>5. postings \in [Chunks -> [Pivots -> Seq(Nat)]]
  <2>1. <<>> \in Seq(Nat)
    OBVIOUS
  <2> QED
    BY <1>1, <2>1
<1> QED
  BY <1>1, <1>3, <1>4, <1>5 DEF IndexRight

\* A number behind the others of a list.
LEMMA ListGrows ==
    ASSUME NEW S, NEW s, IsList(s, S), NEW e \in Nat, \A d \in S : d < e
    PROVE  IsList(Append(s, e), S \cup {e})
<1> DEFINE t == Append(s, e)
           n == Len(s)
<1>1. /\ s \in Seq(Nat) /\ n \in Nat /\ DOMAIN s = 1 .. n
      /\ \A i, j \in 1 .. n : i < j => s[i] < s[j]
      /\ \A i \in 1 .. n : s[i] < e
  <2>1. s \in Seq(Nat) /\ n \in Nat /\ DOMAIN s = 1 .. n
    BY SeqIs DEF IsList
  <2>2. \A i \in 1 .. n : s[i] \in S
    BY <2>1 DEF IsList, ToSet
  <2> QED
    BY <2>1, <2>2 DEF IsList, Ascends
<1>2. t \in Seq(Nat) /\ Len(t) = n + 1 /\ t[n + 1] = e /\ \A i \in 1 .. n : t[i] = s[i]
  BY <1>1, AppendProperties
<1>3. e \notin ToSet(s) /\ Once(s)
  <2>1. e \notin S
    <3>1. ~ (e < e)
      OBVIOUS
    <3> QED
      BY <3>1
  <2> QED
    BY <2>1, AscendsOnce DEF IsList
<1>4. ToSet(t) = S \cup {e}
  BY <1>1, <1>3, AppendOnce DEF IsList
<1>5. DOMAIN t = 1 .. n + 1
  BY <1>2, SeqIs
<1> HIDE DEF t, n
<1>6. ASSUME NEW i \in 1 .. n + 1, NEW j \in 1 .. n + 1, i < j PROVE t[i] < t[j]
  <2>1. i \in 1 .. n /\ (j \in 1 .. n \/ j = n + 1)
    BY <1>1, <1>6
  <2> QED
    BY <1>1, <1>2, <1>6, <2>1
<1>7. IsList(t, S \cup {e})
  BY <1>2, <1>4, <1>5, <1>6 DEF IsList, Ascends
<1> QED
  BY <1>7 DEF t

\* How far a chunk is indexed is a number.
LEMMA BoundOf ==
    ASSUME Positions, NEW c \in Chunks
    PROVE  Bound(c) \in Int /\ c % IndexThreadQty \in Workers
<1>1. c % IndexThreadQty \in Workers /\ ChunkSize(c) \in Int
  BY SizesAre
<1>2. thread[c % IndexThreadQty].id \in Nat
  BY <1>1 DEF Positions
<1> QED
  BY <1>1, <1>2 DEF Bound

\* Lists of which nothing changes.
LEMMA SameHolds ==
    ASSUME NEW c, NEW p, Holds(c, p), perm' = perm, Bound(c)' = Bound(c),
           postings'[c][p] = postings[c][p]
    PROVE  Holds(c, p)'
BY DEF Holds, Near

\* An object goes to the end of the lists of its nearest pivots, behind smaller ids
\* (IndexChunk).
LEMMA IndexObjectKeeps ==
    ASSUME IndexRight, NEW t \in Workers, IndexObject(t)
    PROVE  IndexRight'
<1>0. PICK c, id : c = thread[t].chunk /\ id = thread[t].id
  OBVIOUS
<1> DEFINE near == {perm[ObjectOf(c, id)][j] : j \in 1 .. NumPrefix}
           new == [p \in Pivots |-> IF p \in near THEN Append(postings[c][p], id) ELSE postings[c][p]]
<1>1. /\ c \in Chunks /\ Takes(t, c) /\ id \in IdsOf(c)
      /\ postings' = [postings EXCEPT ![c] = new]
      /\ thread' = [thread EXCEPT ![t].id = id + 1]
      /\ perm' = perm /\ phase' = phase
  BY <1>0, Zenon DEF IndexObject
<1>2. thread \in [Workers -> [chunk : 0 .. ChunkQty, id : Nat]]
  BY DEF IndexRight, Positions
<1>3. /\ DOMAIN thread' = Workers /\ thread'[t] = [thread[t] EXCEPT !.id = id + 1]
      /\ \A u \in Workers : u # t => thread'[u] = thread[u]
  BY <1>1, <1>2
<1>4. thread'[t].chunk = c /\ thread'[t].id = id + 1 /\ id \in Nat /\ c \in Nat
  <2>1. thread[t] \in [chunk : 0 .. ChunkQty, id : Nat]
    BY <1>2
  <2> QED
    BY <1>0, <1>1, <1>3, <2>1, SizesAre
<1>5. thread' \in [Workers -> [chunk : 0 .. ChunkQty, id : Nat]]
  <2>1. [thread[t] EXCEPT !.id = id + 1] \in [chunk : 0 .. ChunkQty, id : Nat]
    BY <1>2, <1>4
  <2> QED
    BY <1>1, <1>2, <2>1
<1>6. Positions'
  <2>1. \A u \in Workers : thread'[u].id # 0 => thread'[u].chunk \in Chunks /\ Takes(u, thread'[u].chunk)
    <3>1. ASSUME NEW u \in Workers, thread'[u].id # 0
          PROVE  thread'[u].chunk \in Chunks /\ Takes(u, thread'[u].chunk)
      <4>1. CASE u = t
        BY <1>1, <1>4, <4>1
      <4>2. CASE u # t
        BY <1>3, <3>1, <4>2 DEF IndexRight, Positions
      <4> QED
        BY <4>1, <4>2
    <3> QED
      BY <3>1
  <2> QED
    BY <1>5, <2>1 DEF Positions, Workers, Chunks, Takes, IndexThreadQty, ChunkQty
<1>7. /\ DOMAIN postings' = Chunks /\ postings'[c] = new
      /\ \A d \in Chunks : d # c => postings'[d] = postings[d]
  BY <1>1 DEF IndexRight
<1>8. c % IndexThreadQty = t /\ Bound(c) = id /\ Bound(c)' = id + 1
  <2>1. c % IndexThreadQty = t
    BY <1>1 DEF Takes
  <2>2. Bound(c) = id
    BY <1>0, <1>4, <2>1 DEF Bound
  <2>3. Bound(c)' = id + 1
    BY <1>0, <1>4, <2>1 DEF Bound
  <2> QED
    BY <2>1, <2>2, <2>3
<1>9. ASSUME NEW d \in Chunks, d # c PROVE Bound(d)' = Bound(d)
  <2> DEFINE u == d % IndexThreadQty
  <2>1. u \in Workers /\ d \in Nat
    BY SizesAre
  <2> HIDE DEF u
  <2>2. CASE u # t
    <3>1. thread'[u] = thread[u]
      BY <1>3, <2>1, <2>2
    <3> QED
      BY <3>1 DEF Bound, u
  <2>3. CASE u = t
    <3>1. thread'[u].chunk = c /\ thread[u].chunk = c
      BY <1>0, <1>4, <2>3
    <3> QED
      BY <1>9, <3>1 DEF Bound, u
  <2> QED
    BY <2>2, <2>3
<1>10. ASSUME NEW d \in Chunks, NEW p \in Pivots PROVE Holds(d, p)'
  <2>1. Holds(d, p)
    BY DEF IndexRight
  <2>2. CASE d # c
    <3>1. postings'[d][p] = postings[d][p]
      BY <1>7, <2>2
    <3> QED
      BY <1>1, <1>9, <2>1, <2>2, <3>1, SameHolds
  <2>3. CASE d = c
    <3> DEFINE S == {i \in 0 .. id - 1 : p \in Near(c, i)}
               S2 == {i \in 0 .. id : p \in Near(c, i)}
    <3>1. IsList(postings[c][p], S)
      BY <1>8, <2>1, <2>3 DEF Holds
    <3>2. near = Near(c, id)
      BY DEF Near
    <3>3. postings'[c][p] = IF p \in near THEN Append(postings[c][p], id) ELSE postings[c][p]
      BY <1>7
    <3> HIDE DEF near
    <3>4. \A i \in 0 .. id : i \in 0 .. id - 1 \/ i = id
      BY <1>4
    <3>5. \A i \in 0 .. id - 1 : i \in 0 .. id
      BY <1>4
    <3>6. id \in 0 .. id
      BY <1>4
    <3>7. IsList(postings'[c][p], S2)
      <4>1. CASE p \in near
        <5>1. S2 = S \cup {id}
          BY <3>2, <3>4, <3>5, <3>6, <4>1
        <5>2. \A i \in S : i < id
          BY <1>4
        <5>3. IsList(Append(postings[c][p], id), S \cup {id})
          BY <1>4, <3>1, <5>2, ListGrows
        <5> QED
          BY <3>3, <4>1, <5>1, <5>3
      <4>2. CASE p \notin near
        <5>1. S2 = S
          BY <3>2, <3>4, <3>5, <4>2
        <5> QED
          BY <3>1, <3>3, <4>2, <5>1
      <4> QED
        BY <4>1, <4>2
    <3>8. \A i : Near(c, i)' = Near(c, i)
      BY <1>1 DEF Near
    <3>9. {i \in 0 .. Bound(c)' - 1 : p \in Near(c, i)'} = S2
      BY <1>4, <1>8, <3>8
    <3> HIDE DEF S2
    <3> QED
      BY <2>3, <3>7, <3>9 DEF Holds
  <2> QED
    BY <2>2, <2>3
<1>11. phase' # "creating" => \A u \in Workers : thread'[u].chunk = ChunkQty
  <2>1. \A u \in Workers : thread'[u].chunk = thread[u].chunk
    BY <1>0, <1>3, <1>4
  <2> QED
    BY <1>1, <2>1 DEF IndexRight
<1>12. postings' \in [Chunks -> [Pivots -> Seq(Nat)]]
  <2>1. postings \in [Chunks -> [Pivots -> Seq(Nat)]] /\ near = near
    BY DEF IndexRight
  <2>2. new \in [Pivots -> Seq(Nat)]
    <3>1. \A p \in Pivots : new[p] = postings'[c][p] /\ Holds(c, p)'
      BY <1>1, <1>7, <1>10
    <3>2. \A p \in Pivots : new[p] \in Seq(Nat)
      BY <3>1 DEF Holds, IsList
    <3>3. new = [p \in Pivots |-> new[p]]
      OBVIOUS
    <3> HIDE DEF new
    <3> QED
      BY <3>2, <3>3
  <2> HIDE DEF new
  <2> QED
    BY <1>1, <2>1, <2>2
<1> QED
  BY <1>6, <1>10, <1>11, <1>12 DEF IndexRight, Chunks, Pivots, Workers, ChunkQty, IndexThreadQty

\* A thread that leaves a chunk.
LEMMA LeavingKeeps ==
    ASSUME IndexRight, NEW t \in Workers, NEW c, c = thread[t].chunk, c \in Chunks,
           Takes(t, c) => thread[t].id = ChunkSize(c),
           ~ Takes(t, c) => thread[t].id = 0,
           thread' = [thread EXCEPT ![t] = [chunk |-> c + 1, id |-> 0]],
           perm' = perm, postings' = postings, phase' = phase
    PROVE  IndexRight'
<1>1. thread \in [Workers -> [chunk : 0 .. ChunkQty, id : Nat]]
  BY DEF IndexRight, Positions
<1>2. c \in Nat /\ c + 1 \in 0 .. ChunkQty
  BY SizesAre DEF Chunks
<1>3. /\ DOMAIN thread' = Workers /\ thread'[t].chunk = c + 1 /\ thread'[t].id = 0
      /\ \A u \in Workers : u # t => thread'[u] = thread[u]
  BY <1>1
<1>4. thread' \in [Workers -> [chunk : 0 .. ChunkQty, id : Nat]]
  <2>1. [chunk |-> c + 1, id |-> 0] \in [chunk : 0 .. ChunkQty, id : Nat]
    BY <1>2
  <2> QED
    BY <1>1, <2>1
<1>5. Positions'
  <2>1. \A u \in Workers : thread'[u].id # 0 => thread'[u].chunk \in Chunks /\ Takes(u, thread'[u].chunk)
    BY <1>3 DEF IndexRight, Positions
  <2> QED
    BY <1>4, <2>1 DEF Positions
<1>6. ASSUME NEW d \in Chunks PROVE Bound(d)' = Bound(d)
  <2> DEFINE u == d % IndexThreadQty
  <2>1. u \in Workers /\ d \in Nat
    BY SizesAre
  <2>2. u = t <=> Takes(t, d)
    BY DEF Takes
  <2> HIDE DEF u
  <2>3. CASE u # t
    <3>1. thread'[u] = thread[u]
      BY <1>3, <2>1, <2>3
    <3> QED
      BY <3>1 DEF Bound, u
  <2>4. CASE u = t /\ d = c
    <3>1. thread'[u].chunk > d /\ thread[u].chunk = d /\ thread[u].id = ChunkSize(d)
      BY <1>2, <1>3, <2>2, <2>4
    <3>2. ~ (thread[u].chunk > d)
      BY <2>1, <3>1
    <3> QED
      BY <3>1, <3>2 DEF Bound, u
  <2>5. CASE u = t /\ d # c
    <3>1. thread'[u].chunk = c + 1 /\ thread'[u].id = 0 /\ thread[u].chunk = c
      BY <1>3, <2>5
    <3>2. Bound(d)' = IF c + 1 > d THEN ChunkSize(d) ELSE 0
      BY <3>1 DEF Bound, u
    <3>3. Bound(d) = IF c > d THEN ChunkSize(d) ELSE 0
      BY <2>5, <3>1 DEF Bound, u
    <3>4. c + 1 > d <=> c > d
      BY <1>2, <2>1, <2>5
    <3> QED
      BY <3>2, <3>3, <3>4
  <2> QED
    BY <2>3, <2>4, <2>5
<1>7. ASSUME NEW d \in Chunks, NEW p \in Pivots PROVE Holds(d, p)'
  BY <1>6, SameHolds DEF IndexRight
<1>8. phase' # "creating" => \A u \in Workers : thread'[u].chunk = ChunkQty
  <2>1. c # ChunkQty
    BY <1>2, SizesAre DEF Chunks
  <2> QED
    BY <2>1 DEF IndexRight
<1> QED
  BY <1>5, <1>7, <1>8 DEF IndexRight

\* Sorting the lists of a chunk changes nothing: they are in order.
LEMMA EndChunkKeeps ==
    ASSUME IndexRight, NEW t \in Workers, EndChunk(t)
    PROVE  IndexRight'
<1>0. PICK c : c = thread[t].chunk
  OBVIOUS
<1>1. /\ c \in Chunks /\ Takes(t, c) /\ thread[t].id = ChunkSize(c)
      /\ postings' = [postings EXCEPT ![c] = [p \in Pivots |-> Sorted(postings[c][p])]]
      /\ thread' = [thread EXCEPT ![t] = [chunk |-> c + 1, id |-> 0]]
      /\ perm' = perm /\ phase' = phase
  BY <1>0, Zenon DEF EndChunk
<1>2. ASSUME NEW p \in Pivots PROVE Sorted(postings[c][p]) = postings[c][p]
  <2>1. postings[c][p] \in Seq(Nat) /\ Ascends(postings[c][p])
    BY <1>1 DEF IndexRight, Holds, IsList
  <2> QED
    BY <2>1, SortedIs
<1>3. postings' = postings
  <2>1. postings \in [Chunks -> [Pivots -> Seq(Nat)]]
    BY DEF IndexRight
  <2>2. [p \in Pivots |-> Sorted(postings[c][p])] = postings[c]
    <3>1. postings[c] = [p \in Pivots |-> postings[c][p]]
      BY <1>1, <2>1
    <3> QED
      BY <1>2, <3>1
  <2> QED
    BY <1>1, <2>1, <2>2
<1> QED
  BY <1>0, <1>1, <1>3, LeavingKeeps

\* A chunk of another thread.
LEMMA SkipChunkKeeps ==
    ASSUME IndexRight, NEW t \in Workers, SkipChunk(t)
    PROVE  IndexRight'
<1>0. PICK c : c = thread[t].chunk
  OBVIOUS
<1>1. /\ c \in Chunks /\ ~ Takes(t, c)
      /\ thread' = [thread EXCEPT ![t].chunk = c + 1]
      /\ perm' = perm /\ postings' = postings /\ phase' = phase
  BY <1>0 DEF SkipChunk
<1>2. thread[t] \in [chunk : 0 .. ChunkQty, id : Nat]
  BY DEF IndexRight, Positions
<1>3. thread[t].id = 0
  BY <1>0, <1>1 DEF IndexRight, Positions
<1>4. thread' = [thread EXCEPT ![t] = [chunk |-> c + 1, id |-> 0]]
  <2>1. [thread[t] EXCEPT !.chunk = c + 1] = [chunk |-> c + 1, id |-> 0]
    BY <1>2, <1>3
  <2> QED
    BY <1>1, <2>1
<1> QED
  BY <1>0, <1>1, <1>3, <1>4, LeavingKeeps

\* Steps after which the index is as before.
LEMMA SameIndexKeeps ==
    ASSUME IndexRight, UNCHANGED index,
           phase' # "creating" => phase # "creating" \/ \A t \in Workers : thread[t].chunk = ChunkQty
    PROVE  IndexRight'
<1>1. perm' = perm /\ postings' = postings /\ thread' = thread
  BY DEF index
<1>2. Positions'
  BY <1>1 DEF IndexRight, Positions
<1>3. ASSUME NEW c \in Chunks, NEW p \in Pivots PROVE Holds(c, p)'
  <2>1. Bound(c)' = Bound(c)
    BY <1>1 DEF Bound
  <2> QED
    BY <1>1, <2>1, SameHolds DEF IndexRight
<1> QED
  BY <1>1, <1>2, <1>3 DEF IndexRight

\* In the end the list of a pivot holds the objects of the chunk that are near.
LEMMA ListsAreRight ==
    ASSUME IndexRight, phase # "creating", NEW c \in Chunks, NEW p \in Pivots
    PROVE  IsList(postings[c][p], {id \in IdsOf(c) : p \in Near(c, id)})
<1>1. c % IndexThreadQty \in Workers /\ c \in Nat /\ ChunkQty > c
  BY SizesAre DEF Chunks
<1>2. Bound(c) = ChunkSize(c)
  BY <1>1 DEF Bound, IndexRight
<1> QED
  BY <1>2 DEF IndexRight, Holds, IdsOf

\* Different things have different images.
LEMMA ImageSize ==
    ASSUME NEW S, IsFiniteSet(S), NEW f, DOMAIN f = S, f = [x \in S |-> f[x]],
           \A x, y \in S : f[x] = f[y] => x = y
    PROVE  LET T == {f[x] : x \in S} IN IsFiniteSet(T) /\ Cardinality(T) = Cardinality(S)
<1> DEFINE T == {f[x] : x \in S}
<1>1. f \in [S -> T]
  OBVIOUS
<1>2. \A y \in T : \E x \in S : f[x] = y
  OBVIOUS
<1> HIDE DEF T
<1>3. f \in Surjection(S, T)
  BY <1>1, <1>2 DEF Surjection
<1>4. f \in Injection(S, T)
  BY <1>1 DEF Injection, IsInjective
<1>5. IsFiniteSet(T) /\ Cardinality(T) = Cardinality(S)
  BY <1>3, <1>4, FS_Surjection
<1> QED
  BY <1>5 DEF T

\* A sequence without repetition has as many elements as places.
LEMMA OnceSize ==
    ASSUME NEW S, NEW s \in Seq(S), Once(s)
    PROVE  IsFiniteSet(ToSet(s)) /\ Cardinality(ToSet(s)) = Len(s)
<1>1. /\ Len(s) \in Nat /\ DOMAIN s = 1 .. Len(s) /\ s = [i \in 1 .. Len(s) |-> s[i]]
  BY SeqIs, LenProperties
<1>2. \A x, y \in 1 .. Len(s) : s[x] = s[y] => x = y
  BY <1>1 DEF Once
<1>3. IsFiniteSet(1 .. Len(s)) /\ Cardinality(1 .. Len(s)) = Len(s)
  BY <1>1, IntervalSize
<1>4. ToSet(s) = {s[x] : x \in 1 .. Len(s)}
  BY <1>1 DEF ToSet
<1> DEFINE n == Len(s)
<1> HIDE DEF n
<1>5. LET T == {s[x] : x \in 1 .. Len(s)}
      IN  IsFiniteSet(T) /\ Cardinality(T) = Cardinality(1 .. Len(s))
  BY <1>1, <1>2, <1>3, ImageSize
<1> QED
  BY <1>3, <1>4, <1>5

\* Sequences without common elements, one behind the other.
LEMMA ConcatOnce ==
    ASSUME NEW S, NEW s \in Seq(S), NEW t \in Seq(S), Once(s), Once(t),
           ToSet(s) \cap ToSet(t) = {}
    PROVE  /\ s \o t \in Seq(S) /\ Once(s \o t)
           /\ ToSet(s \o t) = ToSet(s) \cup ToSet(t)
<1> DEFINE u == s \o t
           m == Len(s)
           n == Len(t)
<1>1. /\ m \in Nat /\ DOMAIN s = 1 .. m /\ n \in Nat /\ DOMAIN t = 1 .. n
  BY SeqIs
<1>2. /\ u \in Seq(S) /\ Len(u) = m + n
      /\ \A i \in 1 .. m + n : u[i] = IF i <= m THEN s[i] ELSE t[i - m]
  BY ConcatProperties
<1>3. DOMAIN u = 1 .. m + n
  BY <1>2, SeqIs
<1>4. /\ \A i \in 1 .. m : s[i] \in ToSet(s)
      /\ \A i \in 1 .. n : t[i] \in ToSet(t)
  BY <1>1 DEF ToSet
<1> HIDE DEF u, m, n
<1>5. \A i \in 1 .. m + n : (i \in 1 .. m /\ i <= m) \/ (i - m \in 1 .. n /\ ~ (i <= m))
  BY <1>1
<1>6. \A i \in 1 .. m : i \in 1 .. m + n /\ i <= m
  BY <1>1
<1>7. \A i \in 1 .. n : i + m \in 1 .. m + n /\ ~ (i + m <= m) /\ (i + m) - m = i
  BY <1>1
<1>8. \A i \in 1 .. m + n : \/ i \in 1 .. m /\ u[i] = s[i] /\ u[i] \in ToSet(s)
                            \/ i - m \in 1 .. n /\ u[i] = t[i - m] /\ u[i] \in ToSet(t)
  BY <1>2, <1>4, <1>5
<1>9. ASSUME NEW i \in 1 .. m + n, NEW j \in 1 .. m + n, u[i] = u[j] PROVE i = j
  <2>1. CASE i \in 1 .. m /\ u[i] = s[i] /\ u[i] \in ToSet(s)
    <3>1. j \in 1 .. m /\ u[j] = s[j]
      BY <1>8, <1>9, <2>1
    <3> QED
      BY <1>1, <1>9, <2>1, <3>1 DEF Once
  <2>2. CASE i - m \in 1 .. n /\ u[i] = t[i - m] /\ u[i] \in ToSet(t)
    <3>1. j - m \in 1 .. n /\ u[j] = t[j - m]
      BY <1>8, <1>9, <2>2
    <3>2. i - m = j - m
      BY <1>1, <1>9, <2>2, <3>1 DEF Once
    <3> QED
      BY <1>1, <3>2
  <2> QED
    BY <1>8, <2>1, <2>2
<1>10. Once(u)
  BY <1>3, <1>9 DEF Once
<1>11. ToSet(u) = ToSet(s) \cup ToSet(t)
  <2>1. ToSet(u) \subseteq ToSet(s) \cup ToSet(t)
    BY <1>3, <1>8 DEF ToSet
  <2>2. \A i \in 1 .. m : s[i] = u[i] /\ u[i] \in ToSet(u)
    BY <1>2, <1>3, <1>6 DEF ToSet
  <2>3. \A i \in 1 .. n : t[i] = u[i + m] /\ u[i + m] \in ToSet(u)
    BY <1>2, <1>3, <1>7 DEF ToSet
  <2>4. ToSet(s) \subseteq ToSet(u)
    BY <1>1, <2>2 DEF ToSet
  <2>5. ToSet(t) \subseteq ToSet(u)
    BY <1>1, <2>3 DEF ToSet
  <2> QED
    BY <2>1, <2>4, <2>5
<1> QED
  BY <1>2, <1>10, <1>11 DEF u

-----------------------------------------------------------------------------
(* The objects checked.                                                    *)

\* What RightCandidates says of the objects seen in a chunk.
RightSet(c, seen) ==
    LET enough == {x \in InChunk(c) : Shared(x) >= params.minTimes}
    IN  IF params.useSort
        THEN /\ seen \subseteq enough
             /\ Cardinality(seen) = Min({DbScan, Cardinality(enough)})
             /\ \A x \in seen, y \in enough \ seen : Shared(x) >= Shared(y)
        ELSE seen = enough

\* The same for ids.
RightIds(c, ids) ==
    LET enough == {i \in IdsOf(c) : Shared(ObjectOf(c, i)) >= params.minTimes}
    IN  IF params.useSort
        THEN /\ ids \subseteq enough
             /\ Cardinality(ids) = Min({DbScan, Cardinality(enough)})
             /\ \A i \in ids, j \in enough \ ids :
                    Shared(ObjectOf(c, i)) >= Shared(ObjectOf(c, j))
        ELSE ids = enough

CheckedBefore(n) ==
    /\ checked \in Seq(Nat) /\ Once(checked)
    /\ \A x \in ToSet(checked) : \E c \in Chunks : c < n /\ x \in InChunk(c)
    /\ \A c \in Chunks : c < n => RightSet(c, ToSet(checked) \cap InChunk(c))

\* A chunk is finite.
LEMMA IdsAreFinite == ASSUME NEW c \in Chunks PROVE IsFiniteSet(IdsOf(c))
<1>1. ChunkSize(c) \in Int
  BY SizesAre
<1> QED
  BY <1>1, FS_Interval DEF IdsOf

\* Ids of a chunk stand for as many objects.
LEMMA ObjectsOfIds ==
    ASSUME NEW c \in Chunks, NEW I, I \subseteq IdsOf(c)
    PROVE  Cardinality({ObjectOf(c, i) : i \in I}) = Cardinality(I)
<1> DEFINE f == [i \in I |-> ObjectOf(c, i)]
<1>1. IsFiniteSet(I)
  BY IdsAreFinite, FS_Subset
<1>2. DOMAIN f = I /\ f = [x \in I |-> f[x]] /\ \A x \in I : f[x] = ObjectOf(c, x)
  OBVIOUS
<1>3. \A x, y \in I : f[x] = f[y] => x = y
  BY <1>2, ObjectsApart
<1>4. {f[x] : x \in I} = {ObjectOf(c, i) : i \in I}
  BY <1>2
<1> HIDE DEF f
<1>5. LET T == {f[x] : x \in I} IN IsFiniteSet(T) /\ Cardinality(T) = Cardinality(I)
  BY <1>1, <1>2, <1>3, ImageSize
<1> QED
  BY <1>4, <1>5

\* The right ids are the ids of the right objects.
LEMMA RightObjects ==
    ASSUME NEW c \in Chunks, NEW I, I \subseteq IdsOf(c), RightIds(c, I)
    PROVE  RightSet(c, {ObjectOf(c, i) : i \in I})
<1> DEFINE enough == {i \in IdsOf(c) : Shared(ObjectOf(c, i)) >= params.minTimes}
           objects(J) == {ObjectOf(c, i) : i \in J}
<1>1. {x \in InChunk(c) : Shared(x) >= params.minTimes} = objects(enough)
  BY DEF InChunk
<1>2. Cardinality(objects(I)) = Cardinality(I)
  BY ObjectsOfIds
<1>3. Cardinality(objects(enough)) = Cardinality(enough)
  BY ObjectsOfIds
<1>4. CASE ~ params.useSort
  <2>1. I = enough
    BY <1>4 DEF RightIds
  <2> HIDE DEF enough
  <2> QED
    BY <1>1, <1>4, <2>1 DEF RightSet
<1>5. CASE params.useSort
  <2> SUFFICES RightSet(c, objects(I))
    OBVIOUS
  <2>1. /\ I \subseteq enough
        /\ Cardinality(I) = Min({DbScan, Cardinality(enough)})
        /\ \A i \in I, j \in enough \ I : Shared(ObjectOf(c, i)) >= Shared(ObjectOf(c, j))
    BY <1>5 DEF RightIds
  <2> HIDE DEF enough
  <2>2. objects(I) \subseteq objects(enough)
    BY <2>1
  <2>3. Cardinality(objects(I)) = Min({DbScan, Cardinality(objects(enough))})
    BY <1>2, <1>3, <2>1
  <2>4. \A x \in objects(I), y \in objects(enough) \ objects(I) : Shared(x) >= Shared(y)
    <3>1. ASSUME NEW x \in objects(I), NEW y \in objects(enough), y \notin objects(I)
          PROVE  Shared(x) >= Shared(y)
      <4>1. PICK i \in I : x = ObjectOf(c, i)
        OBVIOUS
      <4>2. PICK j \in enough : y = ObjectOf(c, j)
        OBVIOUS
      <4>3. j \notin I
        BY <3>1, <4>2
      <4> HIDE DEF objects
      <4> QED
        BY <2>1, <4>1, <4>2, <4>3
    <3> QED
      BY <3>1
  <2> HIDE DEF objects
  <2> QED
    BY <1>1, <1>5, <2>2, <2>3, <2>4 DEF RightSet
<1> QED
  BY <1>4, <1>5

\* What is right does not depend on the search.
LEMMA SameRightSet ==
    ASSUME perm' = perm, params' = params
    PROVE  \A c, S : RightSet(c, S)' = RightSet(c, S)
<1>1. \A x : Shared(x)' = Shared(x)
  BY DEF Shared, SharedOf, Reaching, Prefix
<1>2. DbScan' = DbScan
  BY DEF DbScan
<1>3. \A c : {x \in InChunk(c) : Shared(x)' >= params'.minTimes}
             = {x \in InChunk(c) : Shared(x) >= params.minTimes}
  BY <1>1
<1>4. ASSUME NEW c, NEW S PROVE RightSet(c, S)' = RightSet(c, S)
  <2>1. {x \in InChunk(c) : Shared(x) >= params.minTimes}'
        = {x \in InChunk(c) : Shared(x) >= params.minTimes}
    BY <1>3
  <2>2. (\A x \in S, y \in {x \in InChunk(c) : Shared(x) >= params.minTimes} \ S :
             Shared(x) >= Shared(y))'
        = \A x \in S, y \in {x \in InChunk(c) : Shared(x) >= params.minTimes} \ S :
             Shared(x) >= Shared(y)
    BY <1>1, <2>1
  <2> QED
    BY <1>2, <2>1, <2>2 DEF RightSet
<1> QED
  BY <1>4

\* The candidates of one more chunk are checked.
LEMMA CheckingKeeps ==
    ASSUME NEW c \in Chunks, CheckedBefore(c), NEW ids \in Seq(IdsOf(c)), Once(ids),
           RightIds(c, ToSet(ids)), perm' = perm, params' = params,
           checked' = checked \o [i \in DOMAIN ids |-> ObjectOf(c, ids[i])]
    PROVE  CheckedBefore(c + 1)'
<1> DEFINE t == [i \in DOMAIN ids |-> ObjectOf(c, ids[i])]
           new == {ObjectOf(c, i) : i \in ToSet(ids)}
<1>0. c \in Nat /\ \A d \in Chunks : d \in Nat
  BY SizesAre
<1>1. /\ Len(ids) \in Nat /\ DOMAIN ids = 1 .. Len(ids)
      /\ \A i \in 1 .. Len(ids) : ids[i] \in IdsOf(c)
      /\ ToSet(ids) \subseteq IdsOf(c)
  BY SeqIs
<1>2. /\ DOMAIN t = 1 .. Len(ids) /\ t = [i \in 1 .. Len(ids) |-> t[i]]
      /\ \A i \in 1 .. Len(ids) : t[i] = ObjectOf(c, ids[i])
  BY <1>1
<1>3. ToSet(t) = new
  BY <1>1, <1>2 DEF ToSet
<1> HIDE DEF t
<1>4. \A i \in 1 .. Len(ids) : t[i] \in Nat
  BY <1>1, <1>2, ObjectsApart
<1>5. t \in Seq(Nat)
  BY <1>1, <1>2, <1>4, FunctionIsSeq
<1>6. Once(t)
  <2>1. \A i, j \in 1 .. Len(ids) : t[i] = t[j] => ids[i] = ids[j]
    BY <1>1, <1>2, ObjectsApart
  <2> QED
    BY <1>1, <1>2, <2>1 DEF Once
<1>7. new \subseteq InChunk(c)
  BY <1>1 DEF InChunk
<1>8. \A d \in Chunks : d # c => InChunk(d) \cap InChunk(c) = {}
  BY ObjectsApart DEF InChunk
<1>9. /\ checked \in Seq(Nat) /\ Once(checked)
      /\ \A x \in ToSet(checked) : \E d \in Chunks : d < c /\ x \in InChunk(d)
      /\ \A d \in Chunks : d < c => RightSet(d, ToSet(checked) \cap InChunk(d))
  BY DEF CheckedBefore
<1>10. ToSet(checked) \cap InChunk(c) = {}
  <2>1. ASSUME NEW x \in ToSet(checked), x \in InChunk(c) PROVE FALSE
    <3>1. PICK d \in Chunks : d < c /\ x \in InChunk(d)
      BY <1>9
    <3>2. d # c
      BY <1>0, <3>1
    <3> QED
      BY <1>8, <2>1, <3>1, <3>2
  <2> QED
    BY <2>1
<1>11. RightSet(c, new)
  BY <1>1, RightObjects
<1> HIDE DEF new
<1>12. /\ checked' \in Seq(Nat) /\ Once(checked') /\ ToSet(checked') = ToSet(checked) \cup new
  <2>1. ToSet(checked) \cap ToSet(t) = {}
    BY <1>3, <1>7, <1>10
  <2>2. checked' = checked \o t
    BY DEF t
  <2>3. /\ checked \o t \in Seq(Nat) /\ Once(checked \o t)
        /\ ToSet(checked \o t) = ToSet(checked) \cup ToSet(t)
    BY <1>5, <1>6, <1>9, <2>1, ConcatOnce
  <2> QED
    BY <1>3, <2>2, <2>3
<1>13. \A x \in ToSet(checked') : \E d \in Chunks : d < c + 1 /\ x \in InChunk(d)
  <2>1. \A d \in Chunks : d < c => d < c + 1
    BY <1>0
  <2>2. c < c + 1
    BY <1>0
  <2> QED
    BY <1>7, <1>9, <1>12, <2>1, <2>2
<1>14. ASSUME NEW d \in Chunks, d < c + 1 PROVE RightSet(d, ToSet(checked') \cap InChunk(d))
  <2>1. CASE d = c
    <3>1. ToSet(checked') \cap InChunk(c) = new
      BY <1>7, <1>10, <1>12
    <3> QED
      BY <1>11, <2>1, <3>1
  <2>2. CASE d # c
    <3>1. d < c
      BY <1>0, <1>14, <2>2
    <3>2. ToSet(checked') \cap InChunk(d) = ToSet(checked) \cap InChunk(d)
      BY <1>7, <1>8, <1>12, <2>2
    <3> QED
      BY <1>9, <3>1, <3>2
  <2> QED
    BY <2>1, <2>2
<1>15. \A d \in Chunks : d < c + 1 => RightSet(d, ToSet(checked) \cap InChunk(d))'
  <2>1. \A d, S : RightSet(d, S)' = RightSet(d, S)
    BY SameRightSet
  <2> QED
    BY <1>14, <2>1
<1>16. /\ \A x \in ToSet(checked') : \E d \in Chunks' : d < c + 1 /\ x \in InChunk(d)'
       /\ Chunks' = Chunks
  BY <1>13 DEF InChunk, Chunks, ChunkQty, IdsOf, ObjectOf, ChunkSize
<1> QED
  BY <1>12, <1>15, <1>16 DEF CheckedBefore

-----------------------------------------------------------------------------
(* Selecting from the candidates.                                          *)

\* What is less than the entry at p stands before it, what is more behind it.
IsCut(x, p) ==
    /\ \A i \in 1 .. p - 1 : Less(x[i], x[p])
    /\ \A i \in p + 1 .. Len(x) : Less(x[p], x[i])

\* The stack and the places before idx cut the candidates.
Ordered(x, idx, stk) ==
    /\ x \in Seq(Entries) /\ Once(x)
    /\ stk \in Seq(1 .. Len(x) + 1) /\ Len(stk) > 0 /\ stk[Len(stk)] = Len(x) + 1
    /\ \A j, k \in 1 .. Len(stk) : j < k => stk[j] < stk[k]
    /\ idx \in 1 .. stk[1]
    /\ \A k \in 1 .. Len(stk) : stk[k] <= Len(x) => IsCut(x, stk[k])
    /\ \A i \in 1 .. idx - 1 : IsCut(x, i)

\* Candidates are counted as rates counts them, none that counts n is missing.
Rated(x, D, rates, n) ==
    /\ \A e \in ToSet(x) : e[2] \in D /\ - e[1] = rates[e[2]]
    /\ \A d \in D : rates[d] >= n => \E e \in ToSet(x) : e[2] = d

Found(x, idx, found, D, n) ==
    /\ found \in Seq(D) /\ Len(found) = idx - 1
    /\ \A i \in 1 .. idx - 1 : found[i] = x[i][2] /\ - x[i][1] >= n

\* A rearrangement on one side of a cut leaves it a cut.
LEMMA CutStays ==
    ASSUME NEW x \in Seq(Entries), Once(x), NEW a \in Nat, NEW b \in Nat, NEW w,
           Rearranged(w, x, a, b), NEW p \in 1 .. Len(x), p \notin a .. b, IsCut(x, p)
    PROVE  IsCut(w, p)
<1> DEFINE n == Len(x)
<1>1. n \in Nat /\ Len(w) = n /\ w[p] = x[p]
  BY SeqIs DEF Rearranged
<1>2. ASSUME NEW i \in 1 .. n
      PROVE  \E j \in 1 .. n : w[i] = x[j] /\ (i < p => j < p) /\ (p < i => p < j)
  <2>1. CASE i \notin a .. b
    BY <2>1 DEF Rearranged
  <2>2. CASE i \in a .. b
    <3>1. PICK j \in 1 .. n : j \in a .. b /\ w[i] = x[j]
      BY <2>2, RearrangedWithin
    <3>2. (i < p => j < p) /\ (p < i => p < j)
      BY <1>1, <2>2, <3>1
    <3> QED
      BY <3>1, <3>2
  <2> QED
    BY <2>1, <2>2
<1> HIDE DEF n
<1>3. /\ \A j \in 1 .. n : j < p => Less(x[j], x[p])
      /\ \A j \in 1 .. n : p < j => Less(x[p], x[j])
  BY <1>1 DEF IsCut, n
<1>4. p \in 1 .. n
  BY DEF n
<1>5. ASSUME NEW i \in 1 .. p - 1 PROVE Less(w[i], w[p])
  <2>1. i \in 1 .. n /\ i < p
    BY <1>1, <1>4
  <2> QED
    BY <1>1, <1>2, <1>3, <2>1
<1>6. ASSUME NEW i \in p + 1 .. n PROVE Less(w[p], w[i])
  <2>1. i \in 1 .. n /\ p < i
    BY <1>1, <1>4
  <2> QED
    BY <1>1, <1>2, <1>3, <2>1
<1> QED
  BY <1>1, <1>5, <1>6 DEF IsCut

SameUpTo(x, y, n) == \A i \in 1 .. n : x[i] = y[i]

\* Narrow puts one more entry in its place.
LEMMA NarrowOrders ==
    ASSUME NEW x, NEW idx, NEW stk, Ordered(x, idx, stk), Head(stk) # idx
    PROVE  LET part == Partition(x, idx, Head(stk) - 1)
           IN  /\ Ordered(part.x, idx, <<part.at>> \o stk)
               /\ ToSet(part.x) = ToSet(x) /\ Len(part.x) = Len(x)
               /\ SameUpTo(part.x, x, idx - 1)
<1> DEFINE n == Len(x)
           h == Head(stk)
           b == h - 1
           part == Partition(x, idx, b)
           w == part.x
           at == part.at
           stk2 == <<at>> \o stk
           m == Len(stk)
<1>1. /\ n \in Nat /\ x \in Seq(Entries) /\ Once(x) /\ \A i \in 1 .. n : x[i] \in Entries
      /\ m \in Nat /\ stk \in Seq(1 .. n + 1) /\ m > 0 /\ stk[m] = n + 1
      /\ \A k \in 1 .. m : stk[k] \in 1 .. n + 1
      /\ h = stk[1]
  <2>1. x \in Seq(Entries) /\ stk \in Seq(1 .. n + 1)
    BY DEF Ordered
  <2>2. stk # <<>>
    BY <2>1 DEF Ordered
  <2>3. h = stk[1]
    BY <2>1, <2>2
  <2> QED
    BY <2>1, <2>3, SeqIs DEF Ordered
<1>2. h \in 1 .. n + 1 /\ idx \in 1 .. h /\ idx # h
  BY <1>1 DEF Ordered
<1> HIDE DEF n, h, m
<1>3. idx \in 1 .. n /\ b \in idx .. n /\ b + 1 = h
  <2>1. idx \in Int /\ h \in Int /\ 1 <= idx /\ idx < h /\ h <= n + 1
    BY <1>1, <1>2
  <2> QED
    BY <1>1, <2>1
<1> HIDE DEF b
<1>4. /\ Rearranged(w, x, idx, b) /\ at \in idx .. b
      /\ \A i \in idx .. at - 1 : Less(w[i], w[at])
      /\ \A i \in at + 1 .. b : Less(w[at], w[i])
  BY <1>1, <1>3, PartitionIs DEF n
<1> HIDE DEF part
<1>5. /\ w \in Seq(Entries) /\ Len(w) = n /\ Once(w) /\ ToSet(w) = ToSet(x)
      /\ \A i \in 1 .. n : i \notin idx .. b => w[i] = x[i]
      /\ \A i \in 1 .. n : w[i] \in Entries
  BY <1>4, SeqIs DEF Rearranged, n
<1>6. at \in 1 .. n /\ at < h
  BY <1>1, <1>3, <1>4, SMTT(30)
<1>7. ASSUME NEW i \in 1 .. n
      PROVE  \/ i \notin idx .. b /\ w[i] = x[i]
             \/ i \in idx .. b /\ \E j \in 1 .. n : j \in idx .. b /\ w[i] = x[j]
  <2>1. CASE i \in idx .. b
    <3> HIDE DEF w
    <3>1. i \in 1 .. Len(x) /\ i \in idx .. b
      BY <2>1 DEF n
    <3>2. \E j \in 1 .. Len(x) : j \in idx .. b /\ w[i] = x[j]
      BY <1>1, <1>4, <3>1, RearrangedWithin
    <3> QED
      BY <2>1, <3>2 DEF n
  <2> QED
    BY <1>5, <2>1
<1>8. PICK q \in 1 .. n : q \in idx .. b /\ w[at] = x[q]
  BY <1>4, <1>6, <1>7
<1>9. /\ \A i \in 1 .. idx - 1 : IsCut(x, i)
      /\ \A k \in 1 .. m : stk[k] <= n => IsCut(x, stk[k])
      /\ \A j, k \in 1 .. m : j < k => stk[j] < stk[k]
  BY DEF Ordered, n, m
<1>10. IsCut(w, at)
  <2>1. ASSUME NEW i \in 1 .. at - 1 PROVE Less(w[i], w[at])
    <3>1. i \in 1 .. idx - 1 \/ i \in idx .. at - 1
      BY <1>3, <1>4
    <3>2. CASE i \in 1 .. idx - 1
      <4>1. i \in 1 .. n /\ i \notin idx .. b /\ q \in i + 1 .. n
        BY <1>1, <1>3, <1>8, <3>2
      <4>2. Less(x[i], x[q])
        BY <1>9, <3>2, <4>1 DEF IsCut, n
      <4> QED
        BY <1>5, <1>8, <4>1, <4>2
    <3> QED
      BY <1>4, <3>1, <3>2
  <2>2. ASSUME NEW i \in at + 1 .. n PROVE Less(w[at], w[i])
    <3>1. i \in at + 1 .. b \/ i \in h .. n
      BY <1>1, <1>2, <1>3, <1>6
    <3>2. CASE i \in h .. n
      <4>1. i \in 1 .. n /\ i \notin idx .. b /\ h <= n /\ q \in 1 .. h - 1
        BY <1>1, <1>2, <1>3, <1>8, <3>2
      <4>2. 1 \in 1 .. m
        BY <1>1
      <4>3. IsCut(x, h)
        BY <1>1, <1>9, <4>1, <4>2
      <4>4. Less(x[q], x[h])
        BY <4>1, <4>3 DEF IsCut
      <4>5. CASE i = h
        BY <1>5, <1>8, <4>1, <4>4, <4>5
      <4>6. CASE i # h
        <5>1. i \in h + 1 .. n /\ h \in 1 .. n
          BY <1>1, <1>2, <3>2, <4>1, <4>6
        <5>2. Less(x[h], x[i])
          BY <4>3, <5>1 DEF IsCut, n
        <5>3. Less(x[q], x[i])
          BY <1>1, <4>1, <4>4, <5>1, <5>2, LessOrders
        <5> QED
          BY <1>5, <1>8, <4>1, <5>3
      <4> QED
        BY <4>5, <4>6
    <3> QED
      BY <1>4, <3>1, <3>2
  <2> QED
    BY <1>5, <2>1, <2>2 DEF IsCut
<1>11. ASSUME NEW p \in 1 .. n, p \notin idx .. b, IsCut(x, p) PROVE IsCut(w, p)
  <2>1. idx \in Nat /\ b \in Nat
    BY <1>1, <1>3
  <2> HIDE DEF w
  <2> QED
    BY <1>1, <1>4, <1>11, <2>1, CutStays DEF n
<1>12. \A i \in 1 .. idx - 1 : IsCut(w, i)
  <2>1. \A i \in 1 .. idx - 1 : i \in 1 .. n /\ i \notin idx .. b
    BY <1>1, <1>3
  <2> QED
    BY <1>9, <1>11, <2>1
<1>13. \A k \in 1 .. m : stk[k] >= h
  <2>1. ASSUME NEW k \in 1 .. m PROVE stk[k] >= h
    <3>1. 1 \in 1 .. m /\ (k = 1 \/ 1 < k)
      BY <1>1
    <3>2. k = 1 \/ stk[1] < stk[k]
      BY <1>9, <3>1
    <3> QED
      BY <1>1, <1>2, <3>1, <3>2
  <2> QED
    BY <2>1
<1>14. \A k \in 1 .. m : stk[k] <= n => IsCut(w, stk[k])
  <2>1. ASSUME NEW k \in 1 .. m, stk[k] <= n PROVE IsCut(w, stk[k])
    <3>1. stk[k] \in 1 .. n /\ stk[k] \notin idx .. b
      BY <1>1, <1>2, <1>3, <1>13, <2>1, SMTT(30)
    <3> QED
      BY <1>9, <1>11, <2>1, <3>1
  <2> QED
    BY <2>1
<1> HIDE DEF w, at
<1>15. /\ stk2 \in Seq(1 .. n + 1) /\ Len(stk2) = m + 1
       /\ \A k \in 1 .. m + 1 : stk2[k] = IF k <= 1 THEN at ELSE stk[k - 1]
  <2>1. /\ <<at>> \in Seq(1 .. n + 1) /\ Len(<<at>>) = 1 /\ <<at>>[1] = at
    BY <1>1, <1>6
  <2>2. /\ stk2 \in Seq(1 .. n + 1) /\ Len(stk2) = Len(<<at>>) + Len(stk)
        /\ \A k \in 1 .. Len(<<at>>) + Len(stk) :
               stk2[k] = IF k <= Len(<<at>>) THEN <<at>>[k] ELSE stk[k - Len(<<at>>)]
    BY <1>1, <2>1, ConcatProperties
  <2>3. Len(<<at>>) + Len(stk) = m + 1
    BY <1>1, <2>1 DEF m
  <2>4. \A k \in 1 .. m + 1 : k <= 1 => k = 1
    BY <1>1
  <2> HIDE DEF stk2
  <2> QED
    BY <2>1, <2>2, <2>3, <2>4
<1> HIDE DEF stk2
<1>16. \A k \in 1 .. m + 1 : k = 1 \/ (k - 1 \in 1 .. m /\ ~ (k <= 1))
  BY <1>1
<1>17. stk2[m + 1] = n + 1
  <2>1. m + 1 \in 1 .. m + 1 /\ ~ (m + 1 <= 1) /\ m + 1 - 1 = m
    BY <1>1
  <2> QED
    BY <1>1, <1>15, <2>1
<1>18. ASSUME NEW j \in 1 .. m + 1, NEW k \in 1 .. m + 1, j < k PROVE stk2[j] < stk2[k]
  <2>a. ~ (k <= 1) /\ k # 1
    BY <1>1, <1>18
  <2>1. ~ (k <= 1) /\ k - 1 \in 1 .. m /\ stk2[k] = stk[k - 1]
    BY <1>15, <1>16, <2>a
  <2>2. CASE j = 1
    <3>1. stk2[j] = at /\ stk[k - 1] >= h
      BY <1>13, <1>15, <2>1, <2>2
    <3>2. stk[k - 1] \in 1 .. n + 1
      BY <1>1, <2>1
    <3> QED
      BY <1>1, <1>2, <1>6, <2>1, <3>1, <3>2
  <2>3. CASE j # 1
    <3>1. j - 1 \in 1 .. m /\ ~ (j <= 1) /\ j - 1 < k - 1
      BY <1>1, <1>18, <2>3
    <3> QED
      BY <1>9, <1>15, <2>1, <3>1
  <2> QED
    BY <2>2, <2>3
<1>19. idx \in 1 .. stk2[1]
  <2>1. 1 \in 1 .. m + 1 /\ stk2[1] = at
    BY <1>1, <1>15
  <2> QED
    BY <1>3, <1>4, <2>1 DEF at
<1>20. \A k \in 1 .. m + 1 : stk2[k] <= n => IsCut(w, stk2[k])
  BY <1>10, <1>14, <1>15, <1>16 DEF w, at
<1>21. m + 1 > 0
  BY <1>1
<1>22. Ordered(w, idx, stk2)
  BY <1>5, <1>12, <1>15, <1>17, <1>18, <1>19, <1>20, <1>21 DEF Ordered, n
<1>23. \A i \in 1 .. idx - 1 : w[i] = x[i]
  <2>1. \A i \in 1 .. idx - 1 : i \in 1 .. n /\ i \notin idx .. b
    BY <1>1, <1>3
  <2> QED
    BY <1>5, <2>1
<1>24. SameUpTo(w, x, idx - 1)
  BY <1>23 DEF SameUpTo
<1> QED
  BY <1>5, <1>22, <1>24 DEF w, at, stk2, part, b, h, n

\* The candidates as they come to be selected.
LEMMA OrderStarts ==
    ASSUME NEW x \in Seq(Entries), Once(x)
    PROVE  Ordered(x, 1, <<Len(x) + 1>>)
<1> DEFINE stk == <<Len(x) + 1>>
<1>1. Len(x) \in Nat
  BY SeqIs
<1>2. stk \in Seq(1 .. Len(x) + 1) /\ Len(stk) = 1 /\ stk[1] = Len(x) + 1
  BY <1>1
<1> HIDE DEF stk
<1>3. \A k \in 1 .. Len(stk) : k = 1
  BY <1>2
<1>4. \A j, k \in 1 .. Len(stk) : j < k => stk[j] < stk[k]
  BY <1>3
<1>5. \A k \in 1 .. Len(stk) : stk[k] <= Len(x) => IsCut(x, stk[k])
  <2>1. \A k \in 1 .. Len(stk) : ~ (stk[k] <= Len(x))
    BY <1>1, <1>2, <1>3
  <2> QED
    BY <2>1
<1>6. /\ 1 \in 1 .. stk[1] /\ \A i \in 1 .. 1 - 1 : IsCut(x, i)
      /\ Len(stk) > 0 /\ stk[Len(stk)] = Len(x) + 1
  BY <1>1, <1>2
<1> QED
  BY <1>2, <1>4, <1>5, <1>6 DEF Ordered, stk

\* The entry asked for is in its place.
LEMMA TakeOrders ==
    ASSUME NEW x, NEW idx, NEW stk, Ordered(x, idx, stk), Head(stk) = idx, idx <= Len(x)
    PROVE  Ordered(x, idx + 1, Tail(stk)) /\ IsCut(x, idx) /\ idx \in 1 .. Len(x)
<1> DEFINE n == Len(x)
           t == Tail(stk)
           m == Len(stk)
<1>1. /\ n \in Nat /\ x \in Seq(Entries) /\ Once(x)
      /\ m \in Nat /\ stk \in Seq(1 .. n + 1) /\ m > 0 /\ stk[m] = n + 1 /\ stk # <<>>
      /\ \A k \in 1 .. m : stk[k] \in 1 .. n + 1
      /\ stk[1] = idx
  <2>1. x \in Seq(Entries) /\ stk \in Seq(1 .. n + 1)
    BY DEF Ordered
  <2>2. stk # <<>>
    BY <2>1 DEF Ordered
  <2>3. Head(stk) = stk[1]
    BY <2>1, <2>2
  <2> QED
    BY <2>1, <2>2, <2>3, SeqIs DEF Ordered
<1>2. /\ \A i \in 1 .. idx - 1 : IsCut(x, i)
      /\ \A k \in 1 .. m : stk[k] <= n => IsCut(x, stk[k])
      /\ \A j, k \in 1 .. m : j < k => stk[j] < stk[k]
  BY DEF Ordered
<1>3. t \in Seq(1 .. n + 1) /\ Len(t) = m - 1 /\ \A k \in 1 .. m - 1 : t[k] = stk[k + 1]
  BY <1>1, HeadTailProperties
<1> HIDE DEF n, m, t
<1>4. idx \in 1 .. n /\ 1 \in 1 .. m
  BY <1>1 DEF n
<1>5. IsCut(x, idx)
  <2>1. stk[1] <= n
    BY <1>1, <1>4
  <2> QED
    BY <1>1, <1>2, <1>4, <2>1
<1>6. m - 1 > 0
  <2>1. m # 1
    BY <1>1, <1>4
  <2> QED
    BY <1>1, <2>1
<1>7. \A k \in 1 .. m - 1 : k + 1 \in 1 .. m
  BY <1>1
<1>8. t[m - 1] = n + 1
  <2>1. m - 1 \in 1 .. m - 1 /\ m - 1 + 1 = m
    BY <1>1, <1>6
  <2> QED
    BY <1>1, <1>3, <2>1
<1>9. \A j, k \in 1 .. m - 1 : j < k => t[j] < t[k]
  <2>1. \A j, k \in 1 .. m - 1 : j < k => j + 1 < k + 1
    OBVIOUS
  <2> QED
    BY <1>2, <1>3, <1>7, <2>1
<1>10. idx + 1 \in 1 .. t[1]
  <2>1. 1 \in 1 .. m - 1 /\ 1 + 1 \in 1 .. m /\ 1 < 1 + 1
    BY <1>1, <1>6
  <2>2. t[1] = stk[1 + 1] /\ stk[1] < stk[1 + 1] /\ stk[1 + 1] \in 1 .. n + 1
    BY <1>1, <1>2, <1>3, <1>4, <2>1
  <2>3. t[1] \in Int /\ idx < t[1]
    BY <1>1, <2>2
  <2> QED
    BY <1>4, <2>3
<1>11. \A k \in 1 .. m - 1 : t[k] <= n => IsCut(x, t[k])
  BY <1>2, <1>3, <1>7
<1>12. \A i \in 1 .. (idx + 1) - 1 : IsCut(x, i)
  <2>1. \A i \in 1 .. (idx + 1) - 1 : i \in 1 .. idx - 1 \/ i = idx
    BY <1>4
  <2> QED
    BY <1>2, <1>5, <2>1
<1>13. Ordered(x, idx + 1, t)
  BY <1>1, <1>3, <1>6, <1>8, <1>9, <1>10, <1>11, <1>12 DEF Ordered, n
<1> QED
  BY <1>4, <1>5, <1>13 DEF t, n

\* What the search finds when it stops: at a candidate that does not count n,
\* or once scan of them are taken.
LEMMA SelectEnds ==
    ASSUME NEW D, IsFiniteSet(D), NEW rates, NEW n \in Nat, NEW q \in Nat,
           \A d \in D : rates[d] \in Int,
           NEW x, NEW idx, NEW stk, NEW found,
           Ordered(x, idx, stk), Rated(x, D, rates, n), Found(x, idx, found, D, n),
           \/ idx = Min({q, Len(x)}) + 1
           \/ idx <= Min({q, Len(x)}) /\ Head(stk) = idx /\ ~ (- x[idx][1] >= n)
    PROVE  LET enough == {d \in D : rates[d] >= n}
               ids == ToSet(found)
           IN  /\ Once(found) /\ ids \subseteq enough
               /\ Cardinality(ids) = Min({q, Cardinality(enough)})
               /\ \A i \in ids, j \in enough \ ids : rates[i] >= rates[j]
<1> DEFINE enough == {d \in D : rates[d] >= n}
           ids == ToSet(found)
           len == Len(x)
           scan == Min({q, len})
<1>1. /\ len \in Nat /\ x \in Seq(Entries) /\ DOMAIN x = 1 .. len
      /\ \A i \in 1 .. len : x[i] \in Entries /\ x[i] \in ToSet(x)
      /\ \A i, j \in 1 .. len : x[i] = x[j] => i = j
  <2>1. x \in Seq(Entries) /\ Once(x)
    BY DEF Ordered
  <2>2. len \in Nat /\ DOMAIN x = 1 .. len /\ \A i \in 1 .. len : x[i] \in Entries
    BY <2>1, SeqIs
  <2> QED
    BY <2>1, <2>2 DEF Once, ToSet
<1>2. ASSUME NEW i \in 1 .. len
      PROVE  /\ x[i] = <<x[i][1], x[i][2]>> /\ x[i][1] \in Int
             /\ x[i][2] \in D /\ - x[i][1] = rates[x[i][2]]
  BY <1>1 DEF Entries, Rated
<1>3. \A i, j \in 1 .. len : x[i][2] = x[j][2] => i = j
  <2>1. ASSUME NEW i \in 1 .. len, NEW j \in 1 .. len, x[i][2] = x[j][2] PROVE i = j
    <3>1. - x[i][1] = - x[j][1] /\ x[i][1] \in Int /\ x[j][1] \in Int
      BY <1>2, <2>1
    <3>2. x[i][1] = x[j][1]
      BY <3>1
    <3>3. x[i] = x[j]
      BY <1>2, <2>1, <3>2
    <3> QED
      BY <1>1, <3>3
  <2> QED
    BY <2>1
<1>4. scan = IF q <= len THEN q ELSE len
  BY <1>1, MinIs
<1> HIDE DEF scan, len
<1>5. \/ idx = scan + 1
      \/ idx <= scan /\ Head(stk) = idx /\ ~ (- x[idx][1] >= n)
  BY DEF scan, len
<1>6. idx \in Int /\ idx >= 1 /\ idx - 1 \in 0 .. len /\ \A i \in 1 .. idx - 1 : IsCut(x, i)
  <2>1. stk \in Seq(1 .. len + 1) /\ Len(stk) > 0 /\ idx \in 1 .. stk[1]
    BY DEF Ordered, len
  <2>2. Len(stk) \in Nat
    BY <2>1, SeqIs
  <2>3. 1 \in 1 .. Len(stk)
    BY <2>1, <2>2
  <2>4. stk[1] \in 1 .. len + 1
    BY <2>1, <2>3, SeqIs
  <2>5. idx \in Int /\ idx >= 1 /\ idx <= len + 1
    BY <1>1, <2>1, <2>4
  <2> QED
    BY <1>1, <2>5 DEF Ordered
<1>7. /\ found \in Seq(D) /\ Len(found) = idx - 1 /\ DOMAIN found = 1 .. idx - 1
      /\ \A i \in 1 .. idx - 1 : found[i] = x[i][2] /\ - x[i][1] >= n /\ i \in 1 .. len
  <2>1. /\ found \in Seq(D) /\ Len(found) = idx - 1
        /\ \A i \in 1 .. idx - 1 : found[i] = x[i][2] /\ - x[i][1] >= n
    BY DEF Found
  <2>2. DOMAIN found = 1 .. idx - 1
    BY <2>1, SeqIs
  <2>3. \A i \in 1 .. idx - 1 : i \in 1 .. len
    BY <1>1, <1>6
  <2> QED
    BY <2>1, <2>2, <2>3
<1>8. Once(found)
  BY <1>3, <1>7 DEF Once
<1>9. IsFiniteSet(ids) /\ Cardinality(ids) = idx - 1
  BY <1>7, <1>8, OnceSize
<1>10. \A d \in ids : \E i \in 1 .. idx - 1 : d = x[i][2] /\ i \in 1 .. len
  BY <1>7 DEF ToSet
<1>11. ids \subseteq enough
  <2>1. ASSUME NEW i \in 1 .. idx - 1 PROVE x[i][2] \in enough
    <3>1. i \in 1 .. len /\ - x[i][1] >= n
      BY <1>7
    <3>2. x[i][2] \in D /\ - x[i][1] = rates[x[i][2]]
      BY <1>2, <3>1
    <3> QED
      BY <3>1, <3>2
  <2> HIDE DEF enough
  <2> QED
    BY <1>10, <2>1
<1>12. ASSUME NEW j \in enough, j \notin ids
       PROVE  \E k \in idx .. len : x[k][2] = j
  <2>1. PICK e \in ToSet(x) : e[2] = j
    BY DEF Rated
  <2>2. PICK k \in 1 .. len : x[k] = e
    BY <1>1, <2>1 DEF ToSet
  <2>3. k \notin 1 .. idx - 1
    <3>1. SUFFICES ASSUME k \in 1 .. idx - 1 PROVE FALSE
      OBVIOUS
    <3>2. found[k] = j
      BY <1>7, <2>1, <2>2, <3>1
    <3> QED
      BY <1>7, <1>12, <3>1, <3>2 DEF ToSet
  <2>4. k \in idx .. len
    BY <1>1, <1>6, <2>2, <2>3
  <2> QED
    BY <2>1, <2>2, <2>4
<1>13. ASSUME NEW i \in ids, NEW j \in enough, j \notin ids
       PROVE  rates[i] >= rates[j]
  <2>1. PICK k \in idx .. len : x[k][2] = j
    BY <1>12, <1>13
  <2>2. PICK m \in 1 .. idx - 1 : i = x[m][2] /\ m \in 1 .. len
    BY <1>10
  <2>3. k \in 1 .. len /\ k \in m + 1 .. len
    BY <1>1, <1>6, <2>1, <2>2
  <2>4. Less(x[m], x[k])
    BY <1>6, <2>2, <2>3 DEF IsCut, len
  <2>5. x[m][1] <= x[k][1] /\ x[m][1] \in Int /\ x[k][1] \in Int
    BY <1>2, <2>2, <2>3, <2>4 DEF Less
  <2>6. - x[m][1] = rates[i] /\ - x[k][1] = rates[j]
    BY <1>2, <2>1, <2>2, <2>3
  <2>7. - x[m][1] >= - x[k][1]
    BY <2>5
  <2> QED
    BY <2>6, <2>7
<1>14. IsFiniteSet(enough) /\ Cardinality(enough) \in Nat /\ Cardinality(ids) <= Cardinality(enough)
  <2>1. enough \in SUBSET D /\ ids \in SUBSET enough
    BY <1>11
  <2> HIDE DEF enough, ids
  <2>2. IsFiniteSet(enough)
    BY <2>1, FS_Subset
  <2> QED
    BY <2>1, <2>2, FS_Subset, FS_CardinalityType
<1>15. Cardinality(enough) <= len
  <2> DEFINE f == [k \in 1 .. len |-> x[k][2]]
             T == {f[k] : k \in 1 .. len}
  <2>1. DOMAIN f = 1 .. len /\ f = [k \in 1 .. len |-> f[k]] /\ \A k \in 1 .. len : f[k] = x[k][2]
    OBVIOUS
  <2>2. \A k, m \in 1 .. len : f[k] = f[m] => k = m
    BY <1>3
  <2>3. \A d \in enough : \E k \in 1 .. len : d = x[k][2]
    <3>1. ASSUME NEW d \in enough PROVE \E k \in 1 .. len : d = x[k][2]
      <4>1. PICK e \in ToSet(x) : e[2] = d
        BY DEF Rated
      <4> QED
        BY <1>1, <4>1 DEF ToSet
    <3> QED
      BY <3>1
  <2> HIDE DEF f, enough
  <2>4. enough \in SUBSET T
    BY <2>1, <2>3
  <2>5. IsFiniteSet(1 .. len) /\ Cardinality(1 .. len) = len
    BY <1>1, IntervalSize
  <2>6. IsFiniteSet(T) /\ Cardinality(T) = Cardinality(1 .. len)
    <3> DEFINE S == 1 .. len
    <3>1. IsFiniteSet(S) /\ DOMAIN f = S /\ f = [k \in S |-> f[k]]
          /\ \A k, m \in S : f[k] = f[m] => k = m
      BY <2>1, <2>2, <2>5
    <3> HIDE DEF S
    <3>2. LET U == {f[k] : k \in S} IN IsFiniteSet(U) /\ Cardinality(U) = Cardinality(S)
      BY <3>1, ImageSize
    <3> QED
      BY <3>2 DEF S
  <2> HIDE DEF T
  <2>7. Cardinality(enough) <= Cardinality(T)
    BY <2>4, <2>6, FS_Subset
  <2> QED
    BY <2>5, <2>6, <2>7
<1>16. Cardinality(ids) = Min({q, Cardinality(enough)})
  <2>1. Min({q, Cardinality(enough)}) = IF q <= Cardinality(enough) THEN q ELSE Cardinality(enough)
    BY <1>14, MinIs
  <2>2. CASE idx = scan + 1
    <3>1. Cardinality(ids) = scan /\ scan \in Nat
      BY <1>1, <1>4, <1>9, <2>2
    <3> HIDE DEF ids, enough
    <3> QED
      BY <1>1, <1>4, <1>14, <1>15, <2>1, <3>1
  <2>3. CASE idx <= scan /\ Head(stk) = idx /\ ~ (- x[idx][1] >= n)
    <3>1. idx <= len
      BY <1>1, <1>4, <1>6, <2>3
    <3>2. IsCut(x, idx) /\ idx \in 1 .. len
      BY <2>3, <3>1, TakeOrders DEF len
    <3>3. enough \subseteq ids
      <4>1. SUFFICES ASSUME NEW j \in enough, j \notin ids PROVE FALSE
        OBVIOUS
      <4>2. PICK k \in idx .. len : x[k][2] = j
        BY <1>12, <4>1
      <4>3. k \in 1 .. len
        BY <1>1, <3>2, <4>2
      <4>4. x[idx][1] <= x[k][1]
        <5>1. CASE k = idx
          BY <1>2, <4>3, <5>1
        <5>2. CASE k # idx
          <6>1. k \in idx + 1 .. len
            BY <1>1, <3>2, <4>2, <5>2
          <6>2. Less(x[idx], x[k])
            BY <3>2, <6>1 DEF IsCut, len
          <6> QED
            BY <1>2, <3>2, <4>3, <6>2 DEF Less
        <5> QED
          BY <5>1, <5>2
      <4>5. - x[k][1] = rates[j] /\ rates[j] >= n
        BY <1>2, <4>2, <4>3
      <4>6. x[idx][1] \in Int /\ x[k][1] \in Int
        BY <1>2, <3>2, <4>3
      <4> QED
        BY <2>3, <4>4, <4>5, <4>6
    <3>4. ids = enough
      BY <1>11, <3>3
    <3>5. Cardinality(ids) = Cardinality(enough)
      BY <3>4
    <3>6. idx - 1 < q
      BY <1>1, <1>4, <1>6, <2>3
    <3> HIDE DEF ids, enough
    <3> QED
      BY <1>6, <1>9, <1>14, <2>1, <3>5, <3>6
  <2> QED
    BY <1>5, <2>2, <2>3
<1> QED
  BY <1>8, <1>11, <1>13, <1>16

-----------------------------------------------------------------------------
(* A search.                                                               *)

Fields == {"chunk", "pc", "list", "tmpRes", "prevRes", "found", "counter", "pos",
           "candidates", "idx", "stk"}
ListsIn(c) == [i \in Prefix |-> ListOf(c, i)]
Rates(c) == [i \in IdsOf(c) |-> Shared(ObjectOf(c, i))]

\* All but the last of k lists.
ButLast(k) == IF k > 0 THEN k - 1 ELSE 0

\* The first lists are counted; merge has all but the last of them in the other
\* buffer.
Counting(w) ==
    LET D == IdsOf(w.chunk)
        g == CountIn(ListsIn(w.chunk), D, w.list - 1)
        f == CountIn(ListsIn(w.chunk), D, ButLast(w.list - 1))
    IN  /\ w.list \in 1 .. params.prefix + 1 /\ w.idx = 1 /\ w.found = <<>>
        /\ IF params.alg = "merge"
           THEN /\ w.prevRes \in 0 .. 1 /\ DOMAIN w.tmpRes = 0 .. 1
                /\ Counts(w.tmpRes[w.prevRes], D, g)
                /\ Counts(w.tmpRes[1 - w.prevRes], D, f)
           ELSE /\ DOMAIN w.counter \subseteq D
                /\ \A d \in D : g[d] > 0 => d \in DOMAIN w.counter
                /\ \A d \in DOMAIN w.counter : w.counter[d] = g[d]

Selecting(w) ==
    /\ params.useSort
    /\ Ordered(w.candidates, w.idx, w.stk)
    /\ Rated(w.candidates, IdsOf(w.chunk), Rates(w.chunk), params.minTimes)
    /\ Found(w.candidates, w.idx, w.found, IdsOf(w.chunk), params.minTimes)
    /\ w.idx <= Min({DbScan, Len(w.candidates)}) + 1

Queueing(w) ==
    /\ ~ params.useSort /\ params.alg # "merge"
    /\ Passing(ListsIn(w.chunk), Prefix, IdsOf(w.chunk), params.minTimes, w.pos, w.found)

Going(w) ==
    /\ DOMAIN w = Fields /\ w.chunk \in Chunks /\ w.pc \in {"lists", "select", "queue"}
    /\ w.pc = "lists" => Counting(w)
    /\ w.pc = "select" => Selecting(w)
    /\ w.pc = "queue" => Queueing(w)

ParamsRight ==
    params \in [alg : Algorithms, useSort : BOOLEAN, minTimes : Nat \ {0},
                prefix : 0 .. NumPivot, dbScan : 0 .. DataQty]

SearchRight ==
    /\ ParamsRight
    /\ phase \in {"creating", "ready", "searching", "answered", "threw"}
    /\ phase # "searching" => work = Idle
    /\ phase = "searching" =>
           /\ params.alg \in {"wand", "pqueue"} => ~ params.useSort
           /\ Going(work) /\ CheckedBefore(work.chunk)
    /\ phase = "answered" => CheckedBefore(ChunkQty)

\* The pivots of the query that the search looks at.
LEMMA PrefixIs ==
    ASSUME ParamsRight
    PROVE  /\ params.prefix \in Nat /\ Prefix = 1 .. params.prefix /\ IsFiniteSet(Prefix)
           /\ \A i \in Prefix : QueryPivots[i] \in Pivots
           /\ params.minTimes \in Nat \ {0} /\ DbScan \in Nat
<1>1. params.prefix \in 0 .. NumPivot /\ params.minTimes \in Nat \ {0} /\ params.dbScan \in 0 .. DataQty
  BY DEF ParamsRight
<1>2. NumPivot \in Nat /\ DataQty \in Nat /\ QueryPivots \in [1 .. NumPivot -> 1 .. NumPivot]
  BY SettingsAssumption
<1>3. params.prefix \in Nat /\ Prefix = 1 .. params.prefix
  BY <1>1, <1>2 DEF Prefix
<1>4. IsFiniteSet(Prefix)
  BY <1>3, IntervalSize
<1>5. \A i \in Prefix : QueryPivots[i] \in Pivots
  <2>1. \A i \in Prefix : i \in 1 .. NumPivot
    BY <1>1, <1>2, <1>3
  <2> QED
    BY <1>2, <2>1 DEF Pivots
<1>6. DbScan \in Nat
  <2>1. \A a \in Nat, b \in Nat \ {0} : (a + b - 1) \div b \in Nat
    OBVIOUS
  <2>2. params.dbScan \in Nat /\ ChunkQty \in Nat \ {0}
    BY <1>1, <1>2, SizesAre
  <2> QED
    BY <2>1, <2>2 DEF DbScan
<1> QED
  BY <1>1, <1>3, <1>4, <1>5, <1>6

\* The lists that reach the result.
LEMMA ReachingIs ==
    ASSUME ParamsRight
    PROVE  /\ params.alg # "merge" => Reaching = Prefix
           /\ params.alg = "merge" => Reaching = 1 .. ButLast(params.prefix)
           /\ ButLast(params.prefix) \in 0 .. params.prefix
           /\ Reaching \subseteq Prefix
<1>1. PICK m : m = params.prefix
  OBVIOUS
<1>2. m \in Nat /\ Prefix = 1 .. m
  BY <1>1, PrefixIs
<1>3. ButLast(m) \in 0 .. m /\ 1 .. ButLast(m) = 1 .. m - 1
  BY <1>2 DEF ButLast
<1>4. 1 .. m - 1 \subseteq 1 .. m
  BY <1>2
<1> QED
  BY <1>1, <1>2, <1>3, <1>4 DEF Reaching

\* The lists of a chunk that the search goes through, and who shares pivots.
LEMMA ListsInAre ==
    ASSUME IndexRight, phase # "creating", ParamsRight, NEW c \in Chunks
    PROVE  /\ Lists(ListsIn(c), Prefix, IdsOf(c))
           /\ \A d \in IdsOf(c) :
                  Cardinality(Held(ListsIn(c), Reaching, d)) = Shared(ObjectOf(c, d))
           /\ \A i \in Prefix : ListsIn(c)[i] = ListOf(c, i)
<1>1. \A i \in Prefix : ListsIn(c)[i] = ListOf(c, i) /\ ListOf(c, i) = postings[c][QueryPivots[i]]
  BY DEF ListsIn, ListOf
<1>2. \A i \in Prefix : IsList(ListsIn(c)[i], {d \in IdsOf(c) : QueryPivots[i] \in Near(c, d)})
  BY <1>1, PrefixIs, ListsAreRight
<1>3. \A i \in Prefix : ToSet(ListsIn(c)[i]) = {d \in IdsOf(c) : QueryPivots[i] \in Near(c, d)}
  BY <1>2 DEF IsList
<1>4. Lists(ListsIn(c), Prefix, IdsOf(c))
  <2>1. IdsOf(c) \subseteq Nat
    BY SizesAre DEF IdsOf
  <2> QED
    BY <1>2, <1>3, <2>1, PrefixIs DEF Lists
<1>5. ASSUME NEW d \in IdsOf(c)
      PROVE  Cardinality(Held(ListsIn(c), Reaching, d)) = Shared(ObjectOf(c, d))
  <2>1. Held(ListsIn(c), Reaching, d) = {i \in Reaching : QueryPivots[i] \in Near(c, d)}
    BY <1>3, <1>5, ReachingIs DEF Held
  <2>2. {i \in Reaching : QueryPivots[i] \in Near(c, d)}
        = {i \in Reaching : \E j \in 1 .. NumPrefix : perm[ObjectOf(c, d)][j] = QueryPivots[i]}
    BY DEF Near
  <2> QED
    BY <2>1, <2>2 DEF Shared, SharedOf
<1> QED
  BY <1>1, <1>4, <1>5

\* A chunk that was just entered.
LEMMA EnteredIs ==
    ASSUME IndexRight, phase # "creating", ParamsRight, NEW c \in Chunks,
           params.alg \in {"wand", "pqueue"} => ~ params.useSort
    PROVE  Going(Entered(c)) /\ Entered(c).chunk = c
<1> DEFINE w == Entered(c)
           D == IdsOf(c)
<1>1. /\ DOMAIN w = Fields /\ w.chunk = c /\ w.list = 1 /\ w.found = <<>> /\ w.idx = 1
      /\ w.tmpRes = [b \in 0 .. 1 |-> <<>>] /\ w.prevRes = 0
      /\ w.pc = IF params.alg \in {"wand", "pqueue"} THEN "queue" ELSE "lists"
      /\ w.counter = IF params.alg = "scan" THEN [id \in D |-> 0] ELSE <<>>
      /\ w.pos = IF params.alg \in {"wand", "pqueue"}
                 THEN [i \in {j \in Prefix : ListOf(c, j) # <<>>} |-> 1] ELSE <<>>
  BY DEF Entered, Fields
<1> HIDE DEF w
<1>2. /\ Lists(ListsIn(c), Prefix, D)
      /\ \A i \in Prefix : ListsIn(c)[i] = ListOf(c, i)
  BY ListsInAre
<1>3. CASE params.alg \in {"wand", "pqueue"}
  <2>1. {j \in Prefix : ListOf(c, j) # <<>>} = {j \in Prefix : ListsIn(c)[j] # <<>>}
    BY <1>2
  <2>2. w.pos = [i \in {j \in Prefix : ListsIn(c)[j] # <<>>} |-> 1]
    BY <1>1, <1>3, <2>1
  <2>3. Passing(ListsIn(c), Prefix, D, params.minTimes, w.pos, <<>>)
    BY <1>2, <2>2, PrefixIs, PassingStarts
  <2>4. Queueing(w)
    BY <1>1, <1>3, <2>3 DEF Queueing
  <2> QED
    BY <1>1, <1>3, <2>4 DEF Going, w
<1>4. CASE params.alg \notin {"wand", "pqueue"}
  <2> DEFINE g == CountIn(ListsIn(c), D, 0)
  <2>1. g = [d \in D |-> 0]
    <3>1. params.prefix \in Nat /\ Lists(ListsIn(c), 1 .. params.prefix, D)
      BY <1>2, PrefixIs
    <3> QED
      BY <3>1, CountInIs
  <2> HIDE DEF g
  <2>2. Counts(<<>>, D, g)
    <3>1. <<>> \in Seq(Counters) /\ Len(<<>>) = 0
      OBVIOUS
    <3> QED
      BY <2>1, <3>1 DEF Counts
  <2>3. /\ DOMAIN w.counter \subseteq D
        /\ \A d \in D : g[d] > 0 => d \in DOMAIN w.counter
        /\ \A d \in DOMAIN w.counter : w.counter[d] = g[d]
    <3>1. \A d \in D : ~ (g[d] > 0)
      BY <2>1
    <3>2. CASE params.alg = "scan"
      BY <1>1, <2>1, <3>1, <3>2
    <3>3. CASE params.alg # "scan"
      <4>1. DOMAIN w.counter = {}
        BY <1>1, <3>3
      <4> QED
        BY <3>1, <4>1
    <3> QED
      BY <3>2, <3>3
  <2>4. w.list \in 1 .. params.prefix + 1 /\ w.list - 1 = 0 /\ ButLast(w.list - 1) = 0
    BY <1>1, PrefixIs DEF ButLast
  <2>5. Counting(w)
    <3>1. CASE params.alg = "merge"
      <4>1. /\ w.prevRes \in 0 .. 1 /\ 1 - w.prevRes \in 0 .. 1 /\ DOMAIN w.tmpRes = 0 .. 1
            /\ w.tmpRes[w.prevRes] = <<>> /\ w.tmpRes[1 - w.prevRes] = <<>>
        BY <1>1
      <4> QED
        BY <1>1, <2>2, <2>4, <3>1, <4>1 DEF Counting, g
    <3>2. CASE params.alg # "merge"
      BY <1>1, <2>3, <2>4, <3>2 DEF Counting, g
    <3> QED
      BY <3>1, <3>2
  <2> QED
    BY <1>1, <1>4, <2>5 DEF Going, w
<1> QED
  BY <1>1, <1>3, <1>4 DEF w

\* The state of a search does not depend on what was checked.
LEMMA SameGoing ==
    ASSUME UNCHANGED <<index, params>>
    PROVE  \A w : Going(w)' = Going(w)
<1>1. perm' = perm /\ postings' = postings /\ params' = params
  BY DEF index
<1>2. \A c : ListsIn(c)' = ListsIn(c)
  BY <1>1 DEF ListsIn, ListOf, Prefix
<1>3. \A c : Rates(c)' = Rates(c)
  BY <1>1 DEF Rates, Shared, SharedOf, Reaching, Prefix
<1>4. DbScan' = DbScan /\ Prefix' = Prefix
  BY <1>1 DEF DbScan, Prefix
<1>5. \A w : Counting(w)' = Counting(w)
  BY <1>1, <1>2 DEF Counting
<1>6. \A w : Selecting(w)' = Selecting(w)
  BY <1>1, <1>3, <1>4 DEF Selecting
<1>7. \A w : Queueing(w)' = Queueing(w)
  BY <1>1, <1>2, <1>4 DEF Queueing
<1> QED
  BY <1>5, <1>6, <1>7 DEF Going

\* What ends the search of a chunk.
LEMMA EndWithKeeps ==
    ASSUME IndexRight, SearchRight, phase = "searching", NEW c, c = work.chunk,
           NEW ids \in Seq(IdsOf(c)), Once(ids), RightIds(c, ToSet(ids)), EndWith(ids)
    PROVE  IndexRight' /\ SearchRight'
<1>1. /\ ParamsRight /\ Going(work) /\ CheckedBefore(c) /\ c \in Chunks
      /\ params.alg \in {"wand", "pqueue"} => ~ params.useSort
  BY DEF SearchRight, Going
<1>2. /\ UNCHANGED <<index, params>> /\ perm' = perm /\ params' = params
      /\ checked' = checked \o [i \in DOMAIN ids |-> ObjectOf(c, ids[i])]
      /\ \/ c + 1 = ChunkQty /\ phase' = "answered" /\ work' = Idle
         \/ c + 1 # ChunkQty /\ work' = Entered(c + 1) /\ phase' = phase
  BY DEF EndWith, index
<1>3. UNCHANGED index /\ phase' # "creating"
  BY <1>2
<1>4. IndexRight'
  BY <1>3, SameIndexKeeps
<1>5. CheckedBefore(c + 1)'
  BY <1>1, <1>2, CheckingKeeps
<1>6. ParamsRight'
  BY <1>1, <1>2 DEF ParamsRight
<1>7. c \in Nat /\ ChunkQty \in Nat /\ c < ChunkQty
  <2>1. c \in 0 .. ChunkQty - 1 /\ ChunkQty \in Nat
    BY <1>1, SizesAre DEF Chunks
  <2> QED
    BY <2>1
<1>8. CASE c + 1 = ChunkQty /\ phase' = "answered" /\ work' = Idle
  <2>1. CheckedBefore(ChunkQty)'
    BY <1>5, <1>8
  <2> QED
    BY <1>6, <1>4, <1>8, <2>1 DEF SearchRight
<1>9. CASE c + 1 # ChunkQty /\ work' = Entered(c + 1) /\ phase' = phase
  <2>1. c + 1 \in Chunks
    BY <1>7, <1>9 DEF Chunks
  <2>2. Going(Entered(c + 1)) /\ Entered(c + 1).chunk = c + 1
    BY <1>1, <2>1, EnteredIs
  <2> DEFINE w == Entered(c + 1)
  <2>3. PICK new : new = w
    OBVIOUS
  <2>4. Going(new) /\ new.chunk = c + 1 /\ work' = new
    BY <1>9, <2>2, <2>3
  <2> HIDE DEF w
  <2>5. Going(new)'
    BY <1>2, <2>4, SameGoing
  <2>6. Going(work)' /\ work'.chunk = c + 1
    <3>1. \A v : v = new => Going(v)'
      BY <2>5
    <3> QED
      BY <2>4, <2>5
  <2>7. CheckedBefore(work.chunk)'
    BY <1>5, <2>6
  <2> QED
    BY <1>1, <1>2, <1>4, <1>6, <1>9, <2>6, <2>7 DEF SearchRight
<1> QED
  BY <1>2, <1>8, <1>9

\* A step within a chunk.
LEMMA WorkingKeeps ==
    ASSUME IndexRight, SearchRight, phase = "searching",
           NEW new, Going(new), new.chunk = work.chunk, Working(new)
    PROVE  IndexRight' /\ SearchRight'
<1>1. PICK c : c = work.chunk
  OBVIOUS
<1>2. /\ UNCHANGED <<index, params>> /\ perm' = perm /\ params' = params
      /\ UNCHANGED index /\ phase' = phase /\ checked' = checked /\ work' = new
  BY DEF Working, index
<1>3. IndexRight'
  BY <1>2, SameIndexKeeps
<1>4. Going(new)'
  BY <1>2, SameGoing
<1>5. Going(work)'
  BY <1>2, <1>4
<1>6. CheckedBefore(c)'
  <2>1. CheckedBefore(c)
    BY <1>1 DEF SearchRight
  <2>2. \A d, S : RightSet(d, S)' = RightSet(d, S)
    BY <1>2, SameRightSet
  <2> QED
    BY <1>2, <2>1, <2>2 DEF CheckedBefore
<1>7. CheckedBefore(work.chunk)'
  BY <1>1, <1>2, <1>6
<1> QED
  BY <1>2, <1>3, <1>5, <1>7 DEF SearchRight, ParamsRight

\* Steps of which the search sees nothing.
LEMMA SameSearchKeeps ==
    ASSUME SearchRight, UNCHANGED <<params, work, checked, perm>>,
           phase' = phase, phase # "searching"
    PROVE  SearchRight'
<1>1. \A d, S : RightSet(d, S)' = RightSet(d, S)
  BY SameRightSet
<1>2. \A n : CheckedBefore(n)' = CheckedBefore(n)
  BY <1>1 DEF CheckedBefore
<1>3. CheckedBefore(ChunkQty)' = CheckedBefore(ChunkQty)
  BY <1>2
<1> QED
  BY <1>3 DEF SearchRight, ParamsRight

\* A search that is at work.
LEMMA AtWork ==
    ASSUME IndexRight, SearchRight, work.pc # "idle"
    PROVE  /\ phase = "searching" /\ phase # "creating" /\ ParamsRight /\ Going(work)
           /\ work.chunk \in Chunks /\ DOMAIN work = Fields
<1>1. phase = "searching"
  BY DEF SearchRight, Idle
<1> QED
  BY <1>1 DEF SearchRight, Going

\* One more posting list is counted: scan and map by their counters, merge by the
\* union.
LEMMA AddListKeeps ==
    ASSUME IndexRight, SearchRight, AddList
    PROVE  IndexRight' /\ SearchRight'
<1> DEFINE c == work.chunk
           D == IdsOf(c)
           lists == ListsIn(c)
           i == work.list
           g == CountIn(lists, D, i - 1)
           h == CountIn(lists, D, i)
<1>1. /\ work.pc = "lists" /\ i \in Prefix
      /\ phase = "searching" /\ phase # "creating" /\ ParamsRight
      /\ c \in Chunks /\ DOMAIN work = Fields /\ Counting(work)
      /\ work.idx = 1 /\ work.found = <<>>
  <2>1. work.pc = "lists" /\ i \in Prefix
    BY DEF AddList
  <2>2. work.pc # "idle"
    BY <2>1
  <2> QED
    BY <2>1, <2>2, AtWork DEF Going, Counting
<1>2. /\ params.prefix \in Nat /\ i \in 1 .. params.prefix
      /\ Lists(lists, 1 .. params.prefix, D) /\ D \subseteq Nat
      /\ lists[i] = List(i)
  <2>1. Prefix = 1 .. params.prefix /\ params.prefix \in Nat
    BY <1>1, PrefixIs
  <2>2. Lists(lists, Prefix, D) /\ lists[i] = ListOf(c, i)
    BY <1>1, ListsInAre
  <2> QED
    BY <1>1, <2>1, <2>2 DEF Lists, List
<1>3. IsList(lists[i], ToSet(lists[i])) /\ ToSet(lists[i]) \subseteq D
  BY <1>2 DEF Lists
<1>4. /\ g \in [D -> Nat] /\ h = More(g, D, lists[i])
  <2>1. PICK m, j, f, E : m = params.prefix /\ j = i - 1 /\ f = lists /\ E = D
    OBVIOUS
  <2>2. m \in Nat /\ j \in 0 .. m /\ i \in 1 .. m /\ i = j + 1 /\ Lists(f, 1 .. m, E)
    BY <1>2, <2>1
  <2>3. CountIn(f, E, j) \in [E -> Nat]
    BY <2>2, CountInIs
  <2>4. CountIn(f, E, i) = More(CountIn(f, E, j), E, f[i])
    BY <2>2, CountInMore
  <2> QED
    BY <2>1, <2>3, <2>4
<1> HIDE DEF D, lists, g, h
<1>5. Counting(work) =>
           IF params.alg = "merge"
           THEN /\ work.prevRes \in 0 .. 1 /\ DOMAIN work.tmpRes = 0 .. 1
                /\ Counts(work.tmpRes[work.prevRes], D, g)
           ELSE /\ DOMAIN work.counter \subseteq D
                /\ \A d \in D : g[d] > 0 => d \in DOMAIN work.counter
                /\ \A d \in DOMAIN work.counter : work.counter[d] = g[d]
  BY DEF Counting, D, lists, g
<1>6. CASE params.alg = "merge"
  <2>1. PICK b, o : b = work.prevRes /\ o = 1 - work.prevRes
    OBVIOUS
  <2>2. /\ b \in 0 .. 1 /\ o \in 0 .. 1 /\ b = 1 - o /\ b # o
        /\ DOMAIN work.tmpRes = 0 .. 1 /\ Counts(work.tmpRes[b], D, g)
    BY <1>1, <1>5, <1>6, <2>1
  <2>3. PICK union : union = PostListUnion(work.tmpRes[b], lists[i])
    OBVIOUS
  <2>4. Counts(union, D, h)
    BY <1>2, <1>3, <1>4, <2>2, <2>3, UnionIs
  <2>5. PICK new : new = [work EXCEPT
            !.tmpRes[1 - work.prevRes] = PostListUnion(work.tmpRes[work.prevRes], List(work.list)),
            !.prevRes = 1 - @, !.list = @ + 1]
    OBVIOUS
  <2>6. /\ DOMAIN new = Fields /\ new.chunk = c /\ new.pc = "lists"
        /\ new.tmpRes = [work.tmpRes EXCEPT ![o] = union]
        /\ new.prevRes = o /\ new.list = i + 1 /\ new.idx = 1 /\ new.found = <<>>
    BY <1>1, <1>2, <2>1, <2>3, <2>5 DEF Fields
  <2>7. /\ DOMAIN new.tmpRes = 0 .. 1
        /\ new.tmpRes[o] = union /\ new.tmpRes[b] = work.tmpRes[b]
    BY <2>2, <2>6
  <2>8. /\ new.list \in 1 .. params.prefix + 1 /\ new.list - 1 = i
        /\ ButLast(new.list - 1) = i - 1 /\ 1 - new.prevRes = b
    BY <1>2, <2>2, <2>6 DEF ButLast
  <2>9. Counting(new)
    BY <1>6, <2>2, <2>4, <2>6, <2>7, <2>8 DEF Counting, D, lists, g, h
  <2>10. Going(new)
    BY <1>1, <2>6, <2>9 DEF Going
  <2>11. Working(new)
    BY <1>6, <2>5 DEF AddList
  <2> QED
    BY <1>1, <2>6, <2>10, <2>11, WorkingKeeps
<1>7. CASE params.alg # "merge"
  <2>1. /\ DOMAIN work.counter \subseteq D
        /\ \A d \in D : g[d] > 0 => d \in DOMAIN work.counter
        /\ \A d \in DOMAIN work.counter : work.counter[d] = g[d]
    BY <1>1, <1>5, <1>7
  <2> DEFINE counter == Counted(work.counter, lists[i])
  <2>2. /\ DOMAIN counter = DOMAIN work.counter \cup ToSet(lists[i])
        /\ \A d \in DOMAIN counter : counter[d] = h[d]
    BY <1>3, <1>4, <2>1, CountedIs
  <2> HIDE DEF counter
  <2>3. DOMAIN counter \subseteq D
    BY <1>3, <2>1, <2>2
  <2>4. \A d \in D : h[d] > 0 => d \in DOMAIN counter
    <3>1. ASSUME NEW d \in D, h[d] > 0, d \notin ToSet(lists[i]) PROVE d \in DOMAIN work.counter
      <4>1. h[d] = g[d] + 0 /\ g[d] \in Nat
        BY <1>4, <3>1 DEF More
      <4> QED
        BY <2>1, <3>1, <4>1
    <3> QED
      BY <2>2, <3>1
  <2>5. PICK new : new = [work EXCEPT !.counter = Counted(@, List(work.list)), !.list = @ + 1]
    OBVIOUS
  <2>6. /\ DOMAIN new = Fields /\ new.chunk = c /\ new.pc = "lists"
        /\ new.counter = counter /\ new.list = i + 1
        /\ new.idx = 1 /\ new.found = <<>>
    BY <1>1, <1>2, <2>5 DEF Fields, counter
  <2>7. new.list \in 1 .. params.prefix + 1 /\ new.list - 1 = i
    BY <1>2, <2>6
  <2>8. Counting(new)
    BY <1>7, <2>2, <2>3, <2>4, <2>6, <2>7 DEF Counting, D, lists, h
  <2>9. Going(new)
    BY <1>1, <2>6, <2>8 DEF Going
  <2>10. Working(new)
    BY <1>7, <2>5 DEF AddList
  <2> QED
    BY <1>1, <2>6, <2>9, <2>10, WorkingKeeps
<1> QED
  BY <1>6, <1>7

\* All that were counted, as often as they share pivots with the query.
LEMMA PairsAre ==
    ASSUME IndexRight, SearchRight, work.pc = "lists", work.list \notin Prefix,
           NEW c, c = work.chunk
    PROVE  /\ IsFiniteSet(Pairs)
           /\ \A p \in Pairs : p \in Entries /\ p[2] \in IdsOf(c) /\ - p[1] = Rates(c)[p[2]]
           /\ \A p, q \in Pairs : p[2] = q[2] => p = q
           /\ \A d \in IdsOf(c) : Rates(c)[d] \in Nat
           /\ \A d \in IdsOf(c) : Rates(c)[d] > 0 => \E p \in Pairs : p[2] = d
<1> DEFINE D == IdsOf(c)
           lists == ListsIn(c)
           i == work.list
           r == Rates(c)
<1>1. /\ phase # "creating" /\ ParamsRight /\ c \in Chunks /\ Counting(work)
  <2>1. work.pc # "idle"
    OBVIOUS
  <2> QED
    BY <2>1, AtWork DEF Going
<1>2. PICK m : m = IF params.alg = "merge" THEN ButLast(params.prefix) ELSE params.prefix
  OBVIOUS
<1>3. m \in Nat /\ Reaching = 1 .. m /\ i - 1 = params.prefix
  <2>1. params.prefix \in Nat /\ Prefix = 1 .. params.prefix
    BY <1>1, PrefixIs
  <2>2. i \in 1 .. params.prefix + 1
    BY <1>1 DEF Counting
  <2> QED
    BY <1>1, <1>2, <2>1, <2>2, ReachingIs
<1>4. /\ D \subseteq Nat
      /\ \A d \in D : Cardinality(Held(lists, 1 .. m, d)) = r[d]
  <2>1. Lists(lists, Prefix, D)
    BY <1>1, ListsInAre
  <2>2. \A d \in D : Cardinality(Held(lists, Reaching, d)) = Shared(ObjectOf(c, d))
    BY <1>1, ListsInAre
  <2> QED
    BY <1>3, <2>1, <2>2 DEF Lists, Rates
<1> DEFINE g == CountIn(lists, D, m)
<1>5. \A d \in D : g[d] = r[d]
  BY <1>4 DEF CountIn
<1>6. \A d \in D : r[d] \in Nat
  BY <1>3, <1>4, HeldIsFinite
<1>7. IF params.alg = "merge" THEN Counts(work.tmpRes[1 - work.prevRes], D, g)
      ELSE /\ DOMAIN work.counter \subseteq D
           /\ \A d \in D : g[d] > 0 => d \in DOMAIN work.counter
           /\ \A d \in DOMAIN work.counter : work.counter[d] = g[d]
  BY <1>1, <1>2, <1>3 DEF Counting
<1> HIDE DEF g, r, lists, D, i
<1>8. /\ \A p \in Pairs : p \in Entries /\ p[2] \in D /\ - p[1] = r[p[2]]
      /\ \A d \in D : r[d] > 0 => \E p \in Pairs : p[2] = d
  <2>1. CASE params.alg = "merge"
    <3> DEFINE M == work.tmpRes[1 - work.prevRes]
    <3>1. /\ M \in Seq(Counters)
          /\ \A k \in 1 .. Len(M) : M[k].id \in D /\ M[k].qty = g[M[k].id]
          /\ \A d \in D : g[d] > 0 => \E k \in 1 .. Len(M) : M[k].id = d
      BY <1>7, <2>1 DEF Counts
    <3>2. DOMAIN M = 1 .. Len(M)
      BY <3>1, SeqIs
    <3> HIDE DEF M
    <3>3. Pairs = {<<- e.qty, e.id>> : e \in ToSet(M)}
      BY <2>1 DEF Pairs, M
    <3>4. ToSet(M) = {M[k] : k \in 1 .. Len(M)}
      BY <3>2 DEF ToSet
    <3>5. ASSUME NEW k \in 1 .. Len(M)
          PROVE  /\ M[k].id \in D /\ M[k].qty = r[M[k].id]
                 /\ <<- M[k].qty, M[k].id>> \in Pairs
                 /\ <<- M[k].qty, M[k].id>> \in Entries
                 /\ - (- M[k].qty) = r[M[k].id]
      <4>1. M[k].id \in D /\ M[k].qty = r[M[k].id]
        BY <1>5, <3>1
      <4>2. M[k].id \in Int /\ M[k].qty \in Int /\ - M[k].qty \in Int
        <5>1. M[k].id \in Nat /\ M[k].qty \in Nat
          BY <1>4, <1>6, <4>1
        <5>2. \A n \in Nat : n \in Int /\ - n \in Int
          OBVIOUS
        <5> QED
          BY <5>1, <5>2
      <4>3. <<- M[k].qty, M[k].id>> \in Entries
        BY <4>2 DEF Entries
      <4>4. - (- M[k].qty) = r[M[k].id]
        BY <4>1, <4>2
      <4>5. <<- M[k].qty, M[k].id>> \in Pairs
        BY <3>3, <3>4
      <4> QED
        BY <4>1, <4>3, <4>4, <4>5
    <3>6. \A p \in Pairs : \E k \in 1 .. Len(M) : p = <<- M[k].qty, M[k].id>>
      BY <3>3, <3>4
    <3>7. ASSUME NEW p \in Pairs PROVE p \in Entries /\ p[2] \in D /\ - p[1] = r[p[2]]
      <4>1. PICK k \in 1 .. Len(M) : p = <<- M[k].qty, M[k].id>>
        BY <3>6
      <4> QED
        BY <3>5, <4>1
    <3>8. ASSUME NEW d \in D, r[d] > 0 PROVE \E p \in Pairs : p[2] = d
      <4>1. PICK k \in 1 .. Len(M) : M[k].id = d
        BY <1>5, <3>1, <3>8
      <4>2. <<- M[k].qty, M[k].id>> \in Pairs
        BY <3>5
      <4> WITNESS <<- M[k].qty, M[k].id>> \in Pairs
      <4> QED
        BY <4>1
    <3> QED
      BY <3>7, <3>8
  <2>2. CASE params.alg # "merge"
    <3> DEFINE C == work.counter
    <3>1. /\ DOMAIN C \subseteq D
          /\ \A d \in D : g[d] > 0 => d \in DOMAIN C
          /\ \A d \in DOMAIN C : C[d] = g[d]
      BY <1>7, <2>2
    <3> HIDE DEF C
    <3>2. Pairs = {<<- C[d], d>> : d \in DOMAIN C}
      BY <2>2 DEF Pairs, C
    <3>3. ASSUME NEW d \in DOMAIN C
          PROVE  /\ d \in D /\ <<- C[d], d>> \in Pairs /\ <<- C[d], d>> \in Entries
                 /\ - (- C[d]) = r[d]
      <4>1. d \in D /\ C[d] = r[d] /\ <<- C[d], d>> \in Pairs
        BY <1>5, <3>1, <3>2
      <4>2. d \in Int /\ C[d] \in Int /\ - C[d] \in Int
        <5>1. d \in Nat /\ C[d] \in Nat
          BY <1>4, <1>6, <4>1
        <5>2. \A n \in Nat : n \in Int /\ - n \in Int
          OBVIOUS
        <5> QED
          BY <5>1, <5>2
      <4>3. <<- C[d], d>> \in Entries
        BY <4>2 DEF Entries
      <4> QED
        BY <4>1, <4>2, <4>3
    <3>4. \A p \in Pairs : \E d \in DOMAIN C : p = <<- C[d], d>>
      BY <3>2
    <3>5. ASSUME NEW p \in Pairs PROVE p \in Entries /\ p[2] \in D /\ - p[1] = r[p[2]]
      <4>1. PICK d \in DOMAIN C : p = <<- C[d], d>>
        BY <3>4
      <4> QED
        BY <3>3, <4>1
    <3>6. ASSUME NEW d \in D, r[d] > 0 PROVE \E p \in Pairs : p[2] = d
      <4>1. d \in DOMAIN C
        BY <1>5, <3>1, <3>6
      <4>2. <<- C[d], d>> \in Pairs
        BY <3>3, <4>1
      <4> WITNESS <<- C[d], d>> \in Pairs
      <4> QED
        OBVIOUS
    <3> QED
      BY <3>5, <3>6
  <2> QED
    BY <2>1, <2>2
<1>9. \A p \in Pairs : p = <<- r[p[2]], p[2]>>
  <2>1. ASSUME NEW p \in Pairs PROVE p = <<- r[p[2]], p[2]>>
    <3>1. p \in Entries /\ - p[1] = r[p[2]]
      BY <1>8
    <3>2. p = <<p[1], p[2]>> /\ p[1] \in Int
      BY <3>1 DEF Entries
    <3>3. p[1] = - r[p[2]]
      BY <3>1, <3>2
    <3> QED
      BY <3>2, <3>3
  <2> QED
    BY <2>1
<1>10. IsFiniteSet(Pairs)
  <2> DEFINE f == [d \in D |-> <<- r[d], d>>]
             T == {f[d] : d \in D}
  <2>1. DOMAIN f = D /\ f = [d \in D |-> f[d]] /\ \A d \in D : f[d] = <<- r[d], d>>
    OBVIOUS
  <2>2. \A d, e \in D : f[d] = f[e] => d = e
    BY <2>1
  <2>3. Pairs \in SUBSET T
    BY <1>8, <1>9, <2>1
  <2> HIDE DEF f
  <2>4. IsFiniteSet(D)
    BY <1>1, IdsAreFinite DEF D
  <2>5. IsFiniteSet(T)
    BY <2>1, <2>2, <2>4, ImageSize
  <2> HIDE DEF T
  <2> QED
    BY <2>3, <2>5, FS_Subset
<1>11. \A p, q \in Pairs : p[2] = q[2] => p = q
  BY <1>9
<1> QED
  BY <1>6, <1>8, <1>10, <1>11 DEF D, r

\* Candidates in the order of their ids.
LEMMA CandidatesAre ==
    ASSUME IndexRight, SearchRight, work.pc = "lists", work.list \notin Prefix,
           NEW S, S \subseteq Pairs
    PROVE  ById(S) \in Seq(Entries) /\ Once(ById(S)) /\ ToSet(ById(S)) = S
<1>1. PICK c : c = work.chunk
  OBVIOUS
<1>2. /\ IsFiniteSet(Pairs)
      /\ \A p \in Pairs : p \in Entries
      /\ \A p, q \in Pairs : p[2] = q[2] => p = q
  BY <1>1, PairsAre
<1>3. IsFiniteSet(S)
  BY <1>2, FS_Subset
<1>4. \A p \in S : p \in Entries /\ p[2] \in Int
  BY <1>2 DEF Entries
<1>5. /\ ById(S) \in Seq(S) /\ Once(ById(S)) /\ ToSet(ById(S)) = S
  <2>1. \A p, q \in S : p[2] = q[2] => p = q
    BY <1>2
  <2> QED
    BY <1>3, <1>4, <2>1, ByIdIs
<1>6. ById(S) \in Seq(Entries)
  <2>1. S \subseteq Entries
    BY <1>4
  <2> QED
    BY <1>5, <2>1
<1> QED
  BY <1>5, <1>6

\* Without sorting, all that were counted often enough are checked.
LEMMA EndListsKeeps ==
    ASSUME IndexRight, SearchRight, EndLists
    PROVE  IndexRight' /\ SearchRight'
<1>1. work.pc = "lists" /\ work.list \notin Prefix /\ ~ params.useSort /\ work.pc # "idle"
  BY DEF EndLists
<1>2. PICK c, n : c = work.chunk /\ n = params.minTimes
  OBVIOUS
<1>3. phase = "searching" /\ c \in Chunks /\ n \in Nat \ {0}
  BY <1>1, <1>2, AtWork, PrefixIs
<1> DEFINE D == IdsOf(c)
           r == Rates(c)
           S == {p \in Pairs : Enough(p)}
           x == ById(S)
           ids == [i \in DOMAIN x |-> x[i][2]]
           E == {d \in D : r[d] >= n}
<1>4. \A d \in D : r[d] = Shared(ObjectOf(c, d))
  BY DEF Rates
<1>5. /\ \A p \in Pairs : p \in Entries /\ p[2] \in D /\ - p[1] = r[p[2]]
      /\ \A p, q \in Pairs : p[2] = q[2] => p = q
      /\ \A d \in D : r[d] \in Nat
      /\ \A d \in D : r[d] > 0 => \E p \in Pairs : p[2] = d
  BY <1>1, <1>2, PairsAre
<1>6. S \subseteq Pairs /\ \A p \in Pairs : p \in S <=> r[p[2]] >= n
  BY <1>2, <1>5 DEF Enough
<1>7. x \in Seq(Entries) /\ Once(x) /\ ToSet(x) = S
  BY <1>1, <1>6, CandidatesAre
<1>8. EndWith(ids)
  BY DEF EndLists
<1> HIDE DEF D, r, S, x
<1>9. Len(x) \in Nat /\ DOMAIN x = 1 .. Len(x) /\ \A i \in 1 .. Len(x) : x[i] \in S
  <2>1. Len(x) \in Nat /\ DOMAIN x = 1 .. Len(x)
    BY <1>7, SeqIs
  <2> QED
    BY <1>7, <2>1 DEF ToSet
<1>10. DOMAIN ids = 1 .. Len(x) /\ ids = [i \in 1 .. Len(x) |-> ids[i]]
       /\ \A i \in 1 .. Len(x) : ids[i] = x[i][2]
  BY <1>9
<1> HIDE DEF ids
<1>11. \A i \in 1 .. Len(x) : ids[i] \in D /\ r[ids[i]] >= n
  BY <1>5, <1>6, <1>9, <1>10
<1>12. ids \in Seq(D)
  BY <1>9, <1>10, <1>11, FunctionIsSeq
<1>13. Once(ids)
  BY <1>5, <1>6, <1>7, <1>9, <1>10 DEF Once
<1>14. ToSet(ids) = E
  <2>1. \A d \in ToSet(ids) : d \in E
    BY <1>10, <1>11 DEF ToSet
  <2>2. ASSUME NEW d \in E PROVE d \in ToSet(ids)
    <3>1. d \in D /\ r[d] >= n
      OBVIOUS
    <3>2. r[d] > 0
      <4>1. r[d] \in Nat
        BY <1>5, <3>1
      <4> QED
        BY <1>3, <3>1, <4>1
    <3>3. PICK p \in Pairs : p[2] = d
      BY <1>5, <3>1, <3>2
    <3>4. p \in ToSet(x)
      BY <1>6, <1>7, <3>1, <3>3
    <3>5. PICK i \in 1 .. Len(x) : x[i] = p
      BY <1>9, <3>4 DEF ToSet
    <3> QED
      BY <1>10, <3>3, <3>5 DEF ToSet
  <2> QED
    BY <2>1, <2>2
<1>15. RightIds(c, ToSet(ids))
  <2>1. E = {d \in IdsOf(c) : Shared(ObjectOf(c, d)) >= params.minTimes}
    BY <1>2, <1>4 DEF D
  <2> QED
    BY <1>1, <1>14, <2>1 DEF RightIds
<1> QED
  BY <1>2, <1>3, <1>8, <1>12, <1>13, <1>15, EndWithKeeps DEF D
\* With sorting, they are handed to the quick select.
LEMMA StartSelectKeeps ==
    ASSUME IndexRight, SearchRight, StartSelect
    PROVE  IndexRight' /\ SearchRight'
<1>1. work.pc = "lists" /\ work.list \notin Prefix /\ params.useSort /\ work.pc # "idle"
  BY DEF StartSelect
<1>2. PICK c, n : c = work.chunk /\ n = params.minTimes
  OBVIOUS
<1>3. /\ phase = "searching" /\ c \in Chunks /\ n \in Nat \ {0} /\ DbScan \in Nat
      /\ DOMAIN work = Fields /\ work.idx = 1 /\ work.found = <<>>
  BY <1>1, <1>2, AtWork, PrefixIs DEF Going, Counting
<1> DEFINE D == IdsOf(c)
           r == Rates(c)
           S == {p \in Pairs : params.alg = "scan" \/ Enough(p)}
           x == ById(S)
<1>4. /\ \A p \in Pairs : p \in Entries /\ p[2] \in D /\ - p[1] = r[p[2]]
      /\ \A d \in D : r[d] \in Nat
      /\ \A d \in D : r[d] > 0 => \E p \in Pairs : p[2] = d
  BY <1>1, <1>2, PairsAre
<1>5. S \subseteq Pairs /\ \A p \in Pairs : r[p[2]] >= n => p \in S
  BY <1>2, <1>4 DEF Enough
<1>6. x \in Seq(Entries) /\ Once(x) /\ ToSet(x) = S
  BY <1>1, <1>5, CandidatesAre
<1>7. PICK new : new = [work EXCEPT !.pc = "select", !.candidates = x, !.stk = <<Len(x) + 1>>]
  OBVIOUS
<1>8. Working(new)
  BY <1>7 DEF StartSelect
<1> HIDE DEF D, r, S, x
<1>9. /\ DOMAIN new = Fields /\ new.chunk = c /\ new.pc = "select" /\ new.candidates = x
      /\ new.stk = <<Len(x) + 1>> /\ new.idx = 1 /\ new.found = <<>>
  BY <1>2, <1>3, <1>7 DEF Fields
<1>10. Ordered(x, 1, <<Len(x) + 1>>)
  BY <1>6, OrderStarts
<1>11. Rated(x, D, r, n)
  <2>1. \A e \in ToSet(x) : e[2] \in D /\ - e[1] = r[e[2]]
    BY <1>4, <1>5, <1>6
  <2>2. ASSUME NEW d \in D, r[d] >= n PROVE \E e \in ToSet(x) : e[2] = d
    <3>1. r[d] > 0
      <4>1. r[d] \in Nat
        BY <1>4
      <4> QED
        BY <1>3, <2>2, <4>1
    <3>2. PICK p \in Pairs : p[2] = d
      BY <1>4, <3>1
    <3> QED
      BY <1>5, <1>6, <2>2, <3>2
  <2> QED
    BY <2>1, <2>2 DEF Rated
<1>12. Found(x, 1, <<>>, D, n)
  <2>1. <<>> \in Seq(D) /\ Len(<<>>) = 1 - 1 /\ \A i \in 1 .. 1 - 1 : FALSE
    OBVIOUS
  <2> QED
    BY <2>1 DEF Found
<1>13. 1 <= Min({DbScan, Len(x)}) + 1
  <2>1. DbScan \in Int /\ Len(x) \in Int /\ DbScan >= 0 /\ Len(x) >= 0
    BY <1>3, <1>6, SeqIs
  <2>2. Min({DbScan, Len(x)}) = IF DbScan <= Len(x) THEN DbScan ELSE Len(x)
    BY <2>1, MinIs
  <2> QED
    BY <2>1, <2>2
<1>14. Going(new)
  <2>1. Selecting(new)
    BY <1>1, <1>2, <1>9, <1>10, <1>11, <1>12, <1>13 DEF Selecting, D, r
  <2> QED
    BY <1>3, <1>9, <2>1 DEF Going
<1> QED
  BY <1>2, <1>3, <1>8, <1>9, <1>14, WorkingKeeps

\* A search that selects.
LEMMA AtSelect ==
    ASSUME IndexRight, SearchRight, work.pc = "select", NEW c, c = work.chunk
    PROVE  /\ phase = "searching" /\ c \in Chunks /\ DOMAIN work = Fields /\ params.useSort
           /\ params.minTimes \in Nat \ {0} /\ DbScan \in Nat
           /\ Ordered(work.candidates, work.idx, work.stk)
           /\ Rated(work.candidates, IdsOf(c), Rates(c), params.minTimes)
           /\ Found(work.candidates, work.idx, work.found, IdsOf(c), params.minTimes)
           /\ work.idx <= ScanQty + 1
           /\ \A d \in IdsOf(c) : Rates(c)[d] = Shared(ObjectOf(c, d)) /\ Rates(c)[d] \in Nat
<1>1. /\ phase = "searching" /\ phase # "creating" /\ ParamsRight /\ c \in Chunks
      /\ DOMAIN work = Fields /\ Selecting(work)
  <2>1. work.pc # "idle"
    OBVIOUS
  <2> QED
    BY <2>1, AtWork DEF Going
<1>2. /\ params.useSort /\ params.minTimes \in Nat \ {0} /\ DbScan \in Nat
      /\ Ordered(work.candidates, work.idx, work.stk)
      /\ Rated(work.candidates, IdsOf(c), Rates(c), params.minTimes)
      /\ Found(work.candidates, work.idx, work.found, IdsOf(c), params.minTimes)
      /\ work.idx <= ScanQty + 1
  BY <1>1, PrefixIs DEF Selecting, ScanQty
<1>3. ASSUME NEW d \in IdsOf(c)
      PROVE  Rates(c)[d] = Shared(ObjectOf(c, d)) /\ Rates(c)[d] \in Nat
  <2>1. PICK m : m = IF params.alg = "merge" THEN ButLast(params.prefix) ELSE params.prefix
    OBVIOUS
  <2>2. m \in Nat /\ Reaching = 1 .. m
    BY <1>1, <2>1, PrefixIs, ReachingIs
  <2>3. Cardinality(Held(ListsIn(c), Reaching, d)) = Shared(ObjectOf(c, d))
    BY <1>1, <1>3, ListsInAre
  <2>4. Cardinality(Held(ListsIn(c), Reaching, d)) \in Nat
    BY <2>2, HeldIsFinite
  <2>5. Rates(c)[d] = Shared(ObjectOf(c, d))
    BY <1>3 DEF Rates
  <2> QED
    BY <2>3, <2>4, <2>5
<1> QED
  BY <1>1, <1>2, <1>3

\* GetNext puts a candidate in its place.
LEMMA NarrowKeeps ==
    ASSUME IndexRight, SearchRight, Narrow
    PROVE  IndexRight' /\ SearchRight'
<1>1. work.pc = "select" /\ work.idx <= ScanQty /\ Head(work.stk) # work.idx
  BY DEF Narrow
<1>2. PICK c, x, idx, stk, part :
          /\ c = work.chunk /\ x = work.candidates /\ idx = work.idx /\ stk = work.stk
          /\ part = Partition(x, idx, Head(stk) - 1)
  OBVIOUS
<1>3. /\ phase = "searching" /\ c \in Chunks /\ DOMAIN work = Fields /\ params.useSort
      /\ Ordered(x, idx, stk)
      /\ Rated(x, IdsOf(c), Rates(c), params.minTimes)
      /\ Found(x, idx, work.found, IdsOf(c), params.minTimes)
      /\ work.idx <= Min({DbScan, Len(x)}) + 1
  BY <1>1, <1>2, AtSelect DEF ScanQty
<1>4. /\ Ordered(part.x, idx, <<part.at>> \o stk)
      /\ ToSet(part.x) = ToSet(x) /\ Len(part.x) = Len(x)
      /\ \A i \in 1 .. idx - 1 : part.x[i] = x[i]
  <2>1. Head(stk) # idx /\ Ordered(x, idx, stk)
    BY <1>1, <1>2, <1>3
  <2>2. LET p == Partition(x, idx, Head(stk) - 1)
        IN  /\ Ordered(p.x, idx, <<p.at>> \o stk)
            /\ ToSet(p.x) = ToSet(x) /\ Len(p.x) = Len(x)
            /\ SameUpTo(p.x, x, idx - 1)
    BY <2>1, NarrowOrders
  <2> QED
    BY <1>2, <2>2 DEF SameUpTo
<1>5. PICK new : new = [work EXCEPT !.candidates = part.x, !.stk = <<part.at>> \o @]
  OBVIOUS
<1>6. Working(new)
  BY <1>2, <1>5 DEF Narrow
<1>7. /\ DOMAIN new = Fields /\ new.chunk = c /\ new.pc = "select" /\ new.candidates = part.x
      /\ new.stk = <<part.at>> \o stk /\ new.idx = idx /\ new.found = work.found
  BY <1>1, <1>2, <1>3, <1>5 DEF Fields
<1>8. Rated(part.x, IdsOf(c), Rates(c), params.minTimes)
  BY <1>3, <1>4 DEF Rated
<1>9. Found(part.x, idx, work.found, IdsOf(c), params.minTimes)
  BY <1>3, <1>4 DEF Found
<1>10. Selecting(new)
  BY <1>2, <1>3, <1>4, <1>7, <1>8, <1>9 DEF Selecting
<1>11. Going(new)
  BY <1>3, <1>7, <1>10 DEF Going
<1> QED
  BY <1>2, <1>3, <1>6, <1>7, <1>11, WorkingKeeps

\* A selection that is over.
LEMMA SelectedIsRight ==
    ASSUME IndexRight, SearchRight, work.pc = "select", EndWith(work.found),
           \/ work.idx = ScanQty + 1
           \/ /\ work.idx <= ScanQty /\ Head(work.stk) = work.idx
              /\ ~ Enough(work.candidates[work.idx])
    PROVE  IndexRight' /\ SearchRight'
<1>1. PICK c, x, idx, stk, found, n, q :
          /\ c = work.chunk /\ x = work.candidates /\ idx = work.idx /\ stk = work.stk
          /\ found = work.found /\ n = params.minTimes /\ q = DbScan
  OBVIOUS
<1> DEFINE D == IdsOf(c)
           r == Rates(c)
<1>2. /\ phase = "searching" /\ c \in Chunks /\ params.useSort
      /\ Ordered(x, idx, stk) /\ Rated(x, D, r, n) /\ Found(x, idx, found, D, n)
      /\ \A d \in D : r[d] = Shared(ObjectOf(c, d)) /\ r[d] \in Nat
      /\ n \in Nat /\ q \in Nat
  BY <1>1, AtSelect
<1>3. \/ idx = Min({q, Len(x)}) + 1
      \/ idx <= Min({q, Len(x)}) /\ Head(stk) = idx /\ ~ (- x[idx][1] >= n)
  BY <1>1 DEF ScanQty, Enough
<1>4. IsFiniteSet(D)
  BY <1>2, IdsAreFinite
<1>5. PICK rates : rates = r
  OBVIOUS
<1>6. \A d \in D : rates[d] \in Int
  BY <1>2, <1>5
<1>7. LET enough == {d \in D : rates[d] >= n}
          ids == ToSet(found)
      IN  /\ Once(found) /\ ids \subseteq enough
          /\ Cardinality(ids) = Min({q, Cardinality(enough)})
          /\ \A i \in ids, j \in enough \ ids : rates[i] >= rates[j]
  <2>1. PICK N : N = D
    OBVIOUS
  <2> HIDE DEF D, r
  <2>2. /\ IsFiniteSet(N) /\ n \in Nat /\ q \in Nat /\ \A d \in N : rates[d] \in Int
        /\ Ordered(x, idx, stk) /\ Rated(x, N, rates, n) /\ Found(x, idx, found, N, n)
    BY <1>2, <1>4, <1>5, <1>6, <2>1
  <2>3. LET enough == {d \in N : rates[d] >= n}
            ids == ToSet(found)
        IN  /\ Once(found) /\ ids \subseteq enough
            /\ Cardinality(ids) = Min({q, Cardinality(enough)})
            /\ \A i \in ids, j \in enough \ ids : rates[i] >= rates[j]
    BY <1>3, <2>2, SelectEnds
  <2> QED
    BY <2>1, <2>3
<1>8. found \in Seq(D)
  BY <1>2 DEF Found
<1>9. RightIds(c, ToSet(found))
  <2> DEFINE E == {d \in D : rates[d] >= n}
  <2>1. E = {i \in IdsOf(c) : Shared(ObjectOf(c, i)) >= params.minTimes}
    BY <1>1, <1>2, <1>5
  <2>2. \A i \in ToSet(found), j \in E \ ToSet(found) :
            Shared(ObjectOf(c, i)) >= Shared(ObjectOf(c, j))
    BY <1>2, <1>5, <1>7
  <2> QED
    BY <1>1, <1>2, <1>7, <2>1, <2>2 DEF RightIds
<1> QED
  BY <1>1, <1>2, <1>7, <1>8, <1>9, EndWithKeeps

\* The quick select has given all candidates that were asked for.
LEMMA EndSelectKeeps ==
    ASSUME IndexRight, SearchRight, EndSelect
    PROVE  IndexRight' /\ SearchRight'
<1>1. work.pc = "select" /\ work.idx > ScanQty /\ EndWith(work.found)
  BY DEF EndSelect
<1>2. PICK c, x : c = work.chunk /\ x = work.candidates
  OBVIOUS
<1>3. Ordered(x, work.idx, work.stk) /\ work.idx <= ScanQty + 1 /\ DbScan \in Nat
  BY <1>1, <1>2, AtSelect
<1>4. ScanQty \in Int
  <2>1. x \in Seq(Entries)
    BY <1>3 DEF Ordered
  <2>2. Len(x) \in Int /\ DbScan \in Int
    BY <1>3, <2>1, SeqIs
  <2> QED
    BY <1>2, <2>2, MinIs DEF ScanQty
<1>5. work.idx \in Int
  <2>1. work.stk \in Seq(1 .. Len(x) + 1) /\ Len(work.stk) > 0 /\ work.idx \in 1 .. work.stk[1]
    BY <1>3 DEF Ordered
  <2> QED
    BY <2>1
<1>6. work.idx = ScanQty + 1
  BY <1>1, <1>3, <1>4, <1>5
<1> QED
  BY <1>1, <1>6, SelectedIsRight

\* The next candidate is taken, or too few lists hold it and all that follow.
LEMMA TakeNextKeeps ==
    ASSUME IndexRight, SearchRight, TakeNext
    PROVE  IndexRight' /\ SearchRight'
<1>1. /\ work.pc = "select" /\ work.idx <= ScanQty /\ Head(work.stk) = work.idx
      /\ \/ /\ Enough(work.candidates[work.idx])
            /\ Working([work EXCEPT !.stk = Tail(@), !.idx = @ + 1,
                              !.found = Append(@, work.candidates[work.idx][2])])
         \/ ~ Enough(work.candidates[work.idx]) /\ EndWith(work.found)
  BY DEF TakeNext
<1>2. CASE ~ Enough(work.candidates[work.idx]) /\ EndWith(work.found)
  BY <1>1, <1>2, SelectedIsRight
<1>3. CASE /\ Enough(work.candidates[work.idx])
           /\ Working([work EXCEPT !.stk = Tail(@), !.idx = @ + 1,
                              !.found = Append(@, work.candidates[work.idx][2])])
  <2>1. PICK c, x, idx, stk, found, n, new :
          /\ c = work.chunk /\ x = work.candidates /\ idx = work.idx /\ stk = work.stk
          /\ found = work.found /\ n = params.minTimes
          /\ new = [work EXCEPT !.stk = Tail(@), !.idx = @ + 1,
                              !.found = Append(@, work.candidates[work.idx][2])]
    OBVIOUS
  <2> DEFINE D == IdsOf(c)
             r == Rates(c)
  <2>2. /\ phase = "searching" /\ c \in Chunks /\ DOMAIN work = Fields /\ params.useSort
        /\ Ordered(x, idx, stk) /\ Rated(x, D, r, n) /\ Found(x, idx, found, D, n)
        /\ DbScan \in Nat
    BY <1>1, <2>1, AtSelect
  <2>3. /\ DOMAIN new = Fields /\ new.chunk = c /\ new.pc = "select" /\ new.candidates = x
        /\ new.stk = Tail(stk) /\ new.idx = idx + 1 /\ new.found = Append(found, x[idx][2])
    BY <1>1, <2>1, <2>2 DEF Fields
  <2>4. x \in Seq(Entries) /\ Len(x) \in Int /\ DbScan \in Int
    <3>1. x \in Seq(Entries)
      BY <2>2 DEF Ordered
    <3> QED
      BY <2>2, <3>1, SeqIs
  <2>5. ScanQty \in Int /\ ScanQty <= Len(x) /\ ScanQty = Min({DbScan, Len(x)})
    <3>1. ScanQty = Min({DbScan, Len(x)})
      BY <2>1 DEF ScanQty
    <3>2. Min({DbScan, Len(x)}) = IF DbScan <= Len(x) THEN DbScan ELSE Len(x)
      BY <2>4, MinIs
    <3> QED
      BY <2>4, <3>1, <3>2
  <2>6. idx \in Int
    <3>1. stk \in Seq(1 .. Len(x) + 1) /\ Len(stk) > 0 /\ idx \in 1 .. stk[1]
      BY <2>2 DEF Ordered
    <3> QED
      BY <3>1
  <2>7. idx <= Len(x) /\ Head(stk) = idx
    BY <1>1, <2>1, <2>4, <2>5, <2>6
  <2>8. Ordered(x, idx + 1, Tail(stk)) /\ idx \in 1 .. Len(x)
    BY <2>2, <2>7, TakeOrders
  <2>9. x[idx][2] \in D
    <3>1. x[idx] \in ToSet(x)
      BY <2>4, <2>8, SeqIs DEF ToSet
    <3> QED
      BY <2>2, <3>1 DEF Rated
  <2>10. Found(x, idx + 1, Append(found, x[idx][2]), D, n)
    <3> DEFINE e == x[idx][2]
               more == Append(found, e)
    <3>1. /\ found \in Seq(D) /\ Len(found) = idx - 1
          /\ \A i \in 1 .. idx - 1 : found[i] = x[i][2] /\ - x[i][1] >= n
      BY <2>2 DEF Found
    <3>2. - x[idx][1] >= n
      BY <1>3, <2>1 DEF Enough
    <3> HIDE DEF D
    <3>3. /\ more \in Seq(D) /\ Len(more) = idx - 1 + 1 /\ more[idx - 1 + 1] = e
          /\ \A i \in 1 .. idx - 1 : more[i] = found[i]
      BY <2>9, <3>1, AppendProperties
    <3> HIDE DEF more
    <3>4. Len(more) = idx + 1 - 1 /\ more[idx] = e /\ idx - 1 + 1 = idx
      BY <2>6, <3>3
    <3>5. \A i \in 1 .. idx + 1 - 1 : i \in 1 .. idx - 1 \/ i = idx
      BY <2>6
    <3>6. \A i \in 1 .. idx + 1 - 1 : more[i] = x[i][2] /\ - x[i][1] >= n
      BY <3>1, <3>2, <3>3, <3>4, <3>5
    <3> QED
      BY <3>3, <3>4, <3>6 DEF Found, more
  <2>11. idx + 1 <= Min({DbScan, Len(x)}) + 1
    BY <1>1, <2>1, <2>5, <2>6
  <2>12. Selecting(new)
    BY <2>1, <2>2, <2>3, <2>8, <2>10, <2>11 DEF Selecting
  <2>13. Going(new)
    BY <2>2, <2>3, <2>12 DEF Going
  <2> QED
    BY <1>3, <2>1, <2>2, <2>3, <2>13, WorkingKeeps
<1> QED
  BY <1>1, <1>2, <1>3

\* Where a list goes on behind an id: one further, if it is at the id, and
\* where it is, if it is behind it.
LEMMA BehindIs ==
    ASSUME NEW i, NEW id \in Nat, List(i) \in Seq(Nat), Ascends(List(i)),
           work.pos[i] \in 1 .. Len(List(i)), id <= Current(i)
    PROVE  Behind(i, id) = IF Current(i) = id THEN work.pos[i] + 1 ELSE work.pos[i]
<1> DEFINE L == List(i)
           a == work.pos[i]
           n == Len(L)
           Ok(k) == /\ k <= n => L[k] > id
                    /\ \A m \in a .. k - 1 : L[m] <= id
<1>1. /\ n \in Nat /\ a \in 1 .. n /\ \A k \in 1 .. n : L[k] \in Nat
      /\ \A j, k \in 1 .. n : j < k => L[j] < L[k]
      /\ Current(i) = L[a] /\ id <= L[a]
  <2>1. n \in Nat /\ DOMAIN L = 1 .. n /\ \A k \in 1 .. n : L[k] \in Nat
    BY SeqIs
  <2> QED
    BY <2>1 DEF Ascends, Current
<1>2. Behind(i, id) = CHOOSE k \in a .. n + 1 : Ok(k)
  BY DEF Behind
<1> HIDE DEF L, a, n
<1>3. CASE L[a] = id
  <2>1. a + 1 \in a .. n + 1
    BY <1>1
  <2>2. Ok(a + 1)
    <3>1. a + 1 <= n => L[a + 1] > id
      <4>1. SUFFICES ASSUME a + 1 <= n PROVE L[a + 1] > id
        OBVIOUS
      <4>2. a + 1 \in 1 .. n /\ a < a + 1
        BY <1>1, <4>1
      <4>3. L[a] < L[a + 1] /\ L[a + 1] \in Nat
        BY <1>1, <4>2
      <4> QED
        BY <1>3, <4>3
    <3>2. \A m \in a .. a + 1 - 1 : m = a
      BY <1>1
    <3> QED
      BY <1>1, <1>3, <3>1, <3>2
  <2>3. ASSUME NEW k \in a .. n + 1, Ok(k) PROVE k = a + 1
    <3>1. k # a
      <4>1. SUFFICES ASSUME k = a PROVE FALSE
        OBVIOUS
      <4>2. L[a] > id
        BY <1>1, <2>3, <4>1
      <4> QED
        BY <1>1, <1>3, <4>2
    <3>2. ~ (k > a + 1)
      <4>1. SUFFICES ASSUME k > a + 1 PROVE FALSE
        OBVIOUS
      <4>2. a + 1 \in 1 .. n /\ a + 1 \in a .. k - 1 /\ a < a + 1
        BY <1>1, <4>1
      <4>3. L[a] < L[a + 1] /\ L[a + 1] \in Nat /\ L[a + 1] <= id
        BY <1>1, <2>3, <4>2
      <4> QED
        BY <1>1, <1>3, <4>3
    <3> QED
      BY <1>1, <3>1, <3>2
  <2> HIDE DEF Ok
  <2>4. (CHOOSE k \in a .. n + 1 : Ok(k)) = a + 1
    BY <2>1, <2>2, <2>3
  <2> QED
    BY <1>1, <1>2, <1>3, <2>4 DEF a
<1>4. CASE L[a] # id
  <2>1. L[a] > id /\ a \in a .. n + 1
    BY <1>1, <1>4
  <2>2. Ok(a)
    <3>1. \A m \in a .. a - 1 : FALSE
      BY <1>1
    <3> QED
      BY <2>1, <3>1
  <2>3. ASSUME NEW k \in a .. n + 1, Ok(k) PROVE k = a
    <3>1. SUFFICES ASSUME k # a PROVE FALSE
      OBVIOUS
    <3>2. a \in a .. k - 1
      BY <1>1, <3>1
    <3>3. L[a] <= id
      BY <2>3, <3>2
    <3> QED
      BY <1>1, <2>1, <3>3
  <2> HIDE DEF Ok
  <2>4. (CHOOSE k \in a .. n + 1 : Ok(k)) = a
    BY <2>1, <2>2, <2>3
  <2> QED
    BY <1>1, <1>2, <1>4, <2>4 DEF a
<1> QED
  BY <1>3, <1>4

\* The lists that hold the least id now.
Leading == {i \in Queued : Current(i) = LeastId}

\* A search with a queue.
LEMMA AtQueue ==
    ASSUME IndexRight, SearchRight, work.pc = "queue", NEW c, c = work.chunk
    PROVE  /\ phase = "searching" /\ phase # "creating" /\ c \in Chunks /\ DOMAIN work = Fields
           /\ ~ params.useSort /\ params.alg # "merge" /\ Reaching = Prefix
           /\ params.minTimes \in Nat \ {0} /\ IsFiniteSet(Prefix)
           /\ Passing(ListsIn(c), Prefix, IdsOf(c), params.minTimes, work.pos, work.found)
           /\ Lists(ListsIn(c), Prefix, IdsOf(c))
           /\ Queued \subseteq Prefix /\ IsFiniteSet(Queued)
           /\ \A i \in Queued :
                  /\ List(i) = ListsIn(c)[i] /\ List(i) \in Seq(Nat) /\ Ascends(List(i))
                  /\ work.pos[i] \in 1 .. Len(List(i)) /\ Current(i) \in IdsOf(c)
                  /\ Current(i) = ListsIn(c)[i][work.pos[i]] /\ Current(i) \in Nat
<1>1. /\ phase = "searching" /\ phase # "creating" /\ ParamsRight /\ c \in Chunks
      /\ DOMAIN work = Fields /\ Queueing(work)
  <2>1. work.pc # "idle"
    OBVIOUS
  <2> QED
    BY <2>1, AtWork DEF Going
<1>2. /\ ~ params.useSort /\ params.alg # "merge" /\ Reaching = Prefix
      /\ params.minTimes \in Nat \ {0} /\ IsFiniteSet(Prefix)
      /\ Passing(ListsIn(c), Prefix, IdsOf(c), params.minTimes, work.pos, work.found)
  BY <1>1, PrefixIs, ReachingIs DEF Queueing
<1>3. /\ Lists(ListsIn(c), Prefix, IdsOf(c))
      /\ \A i \in Prefix : ListsIn(c)[i] = ListOf(c, i)
  BY <1>1, ListsInAre
<1>4. Queued \subseteq Prefix /\ \A i \in Queued : work.pos[i] \in 1 .. Len(ListsIn(c)[i])
  BY <1>2 DEF Passing, Queued
<1>5. IsFiniteSet(Queued)
  BY <1>2, <1>4, FS_Subset
<1>6. ASSUME NEW i \in Queued
      PROVE  /\ List(i) = ListsIn(c)[i] /\ List(i) \in Seq(Nat) /\ Ascends(List(i))
             /\ work.pos[i] \in 1 .. Len(List(i)) /\ Current(i) \in IdsOf(c)
             /\ Current(i) = ListsIn(c)[i][work.pos[i]] /\ Current(i) \in Nat
  <2>1. i \in Prefix /\ List(i) = ListsIn(c)[i] /\ work.pos[i] \in 1 .. Len(List(i))
    BY <1>3, <1>4 DEF List
  <2>2. List(i) \in Seq(Nat) /\ Ascends(List(i)) /\ ToSet(List(i)) \subseteq IdsOf(c)
    BY <1>3, <2>1 DEF Lists, IsList
  <2>3. List(i)[work.pos[i]] \in Nat /\ List(i)[work.pos[i]] \in ToSet(List(i))
    BY <2>1, <2>2, SeqIs DEF ToSet
  <2> QED
    BY <2>1, <2>2, <2>3 DEF Current
<1> QED
  BY <1>1, <1>2, <1>3, <1>4, <1>5, <1>6

\* Some list is at the least id; these go one further, no list is before it.
LEMMA LeadingIs ==
    ASSUME IndexRight, SearchRight, work.pc = "queue", Queued # {}, NEW c, c = work.chunk
    PROVE  /\ LeastId \in IdsOf(c) /\ LeastId \in Nat
           /\ Leading # {} /\ Leading \subseteq Queued /\ IsFiniteSet(Leading)
           /\ \A i \in Queued :
                  /\ LeastId <= Current(i)
                  /\ Behind(i, LeastId) = IF i \in Leading THEN work.pos[i] + 1 ELSE work.pos[i]
<1> DEFINE T == {Current(i) : i \in Queued}
<1>1. /\ \A i \in Queued : Current(i) \in Nat /\ Current(i) \in IdsOf(c)
      /\ IsFiniteSet(Queued)
      /\ \A i \in Queued : List(i) \in Seq(Nat) /\ Ascends(List(i)) /\ work.pos[i] \in 1 .. Len(List(i))
  BY AtQueue
<1>2. T \subseteq Nat /\ T # {}
  BY <1>1
<1>3. \E x \in T : \A y \in T : x <= y
  <2> HIDE DEF T
  <2> QED
    BY <1>2, LeastExists
<1>4. LeastId \in T /\ \A y \in T : LeastId <= y
  <2>1. LeastId = CHOOSE x \in T : \A y \in T : x <= y
    BY DEF LeastId, Min
  <2> HIDE DEF T
  <2> QED
    BY <1>3, <2>1
<1>5. LeastId \in IdsOf(c) /\ LeastId \in Nat
  BY <1>1, <1>4
<1>6. Leading # {} /\ Leading \subseteq Queued
  BY <1>4 DEF Leading
<1>7. IsFiniteSet(Leading)
  BY <1>1, <1>6, FS_Subset
<1>8. ASSUME NEW i \in Queued
      PROVE  /\ LeastId <= Current(i)
             /\ Behind(i, LeastId) = IF i \in Leading THEN work.pos[i] + 1 ELSE work.pos[i]
  <2>1. LeastId <= Current(i)
    BY <1>4
  <2>2. i \in Leading <=> Current(i) = LeastId
    BY DEF Leading
  <2>3. Behind(i, LeastId) = IF Current(i) = LeastId THEN work.pos[i] + 1 ELSE work.pos[i]
    <3>1. List(i) \in Seq(Nat) /\ Ascends(List(i)) /\ work.pos[i] \in 1 .. Len(List(i))
      BY <1>1
    <3> QED
      BY <1>5, <2>1, <3>1, BehindIs
  <2> QED
    BY <2>1, <2>2, <2>3
<1> QED
  BY <1>5, <1>6, <1>7, <1>8

\* The positions once the lists with the least id moved on.
Further ==
    [i \in {j \in Queued : j \in Leading => work.pos[j] + 1 <= Len(List(j))} |->
        IF i \in Leading THEN work.pos[i] + 1 ELSE work.pos[i]]

\* The least id is dealt with.
LEMMA QueueStepKeeps ==
    ASSUME IndexRight, SearchRight, work.pc = "queue", Queued # {}, NEW new,
           new = [work EXCEPT !.pos = Further,
                     !.found = IF Cardinality(Leading) >= params.minTimes
                               THEN Append(@, LeastId) ELSE @],
           Working(new)
    PROVE  IndexRight' /\ SearchRight'
<1>1. PICK c, P, D, lists, n, pos, found, least, S, pos2, found2 :
          /\ c = work.chunk /\ P = Prefix /\ D = IdsOf(c) /\ lists = ListsIn(c)
          /\ n = params.minTimes /\ pos = work.pos /\ found = work.found
          /\ least = LeastId /\ S = Leading /\ pos2 = Further
          /\ found2 = IF Cardinality(S) >= n THEN Append(found, least) ELSE found
  OBVIOUS
<1>2. /\ phase = "searching" /\ c \in Chunks /\ DOMAIN work = Fields
      /\ ~ params.useSort /\ params.alg # "merge"
      /\ n \in Nat /\ Passing(lists, P, D, n, pos, found) /\ Lists(lists, P, D)
  BY <1>1, AtQueue
<1>3. /\ least \in D /\ S # {}
  BY <1>1, LeadingIs
<1>4. /\ \A i \in DOMAIN pos : List(i) = lists[i]
      /\ \A i \in DOMAIN pos : Current(i) = lists[i][pos[i]]
  BY <1>1, AtQueue DEF Queued
<1>5. S = {i \in DOMAIN pos : lists[i][pos[i]] = least}
  BY <1>1, <1>4 DEF Leading, Queued
<1>6. \A i \in DOMAIN pos : least <= lists[i][pos[i]]
  BY <1>1, <1>4, LeadingIs DEF Queued
<1>7. pos2 = MovedOn(lists, pos, S)
  <2>1. {j \in DOMAIN pos : j \in S => pos[j] + 1 <= Len(lists[j])}
        = {j \in Queued : j \in Leading => work.pos[j] + 1 <= Len(List(j))}
    BY <1>1, <1>4 DEF Queued
  <2> QED
    BY <1>1, <2>1 DEF Further, MovedOn
<1>8. Passing(lists, P, D, n, pos2, found2)
  <2>1. found2 = IF Cardinality(S) >= n THEN Append(found, least) ELSE found
    BY <1>1
  <2>2. Lists(lists, P, D) /\ n \in Nat /\ Passing(lists, P, D, n, pos, found)
    BY <1>2
  <2> QED
    BY <1>3, <1>5, <1>6, <1>7, <2>1, <2>2, PassingStep
<1>9. /\ DOMAIN new = Fields /\ new.chunk = c /\ new.pc = "queue"
      /\ new.pos = pos2 /\ new.found = found2
  BY <1>1, <1>2 DEF Fields
<1>10. Queueing(new)
  BY <1>1, <1>2, <1>8, <1>9 DEF Queueing
<1>11. Going(new)
  BY <1>2, <1>9, <1>10 DEF Going
<1> QED
  BY <1>1, <1>2, <1>9, <1>11, WorkingKeeps

\* pqueue counts the lists with the least id: all of them, each once.
LEMMA PriorityQueueStepKeeps ==
    ASSUME IndexRight, SearchRight, PriorityQueueStep
    PROVE  IndexRight' /\ SearchRight'
<1> DEFINE S == {i \in Queued : Current(i) = LeastId}
           to == [i \in S |-> Behind(i, LeastId)]
           U == UNION {{i} \X (work.pos[i] .. to[i] - 1) : i \in S}
           new == [work EXCEPT !.pos = Moved(S, to),
               !.found = IF Cardinality(U) >= params.minTimes THEN Append(@, LeastId) ELSE @]
<1>1. work.pc = "queue" /\ Queued # {} /\ Working(new)
  BY DEF PriorityQueueStep
<1>2. S = Leading
  BY DEF Leading
<1>3. /\ IsFiniteSet(Leading) /\ Leading \subseteq Queued
      /\ \A i \in Queued :
             Behind(i, LeastId) = IF i \in Leading THEN work.pos[i] + 1 ELSE work.pos[i]
  BY <1>1, LeadingIs
<1>4. \A i \in Leading : to[i] = work.pos[i] + 1 /\ work.pos[i] \in Nat
  <2>1. \A i \in Queued : work.pos[i] \in 1 .. Len(List(i)) /\ List(i) \in Seq(Nat)
    BY <1>1, AtQueue
  <2> QED
    BY <1>2, <1>3, <2>1
<1> HIDE DEF S, to
<1>5. Moved(S, to) = Further
  <2>1. {j \in Queued : j \in S => to[j] <= Len(List(j))}
        = {j \in Queued : j \in Leading => work.pos[j] + 1 <= Len(List(j))}
    BY <1>2, <1>4
  <2> QED
    BY <1>2, <1>4, <2>1 DEF Moved, Further
<1>6. Cardinality(U) = Cardinality(Leading)
  <2> DEFINE f == [i \in Leading |-> <<i, work.pos[i]>>]
             T == {f[i] : i \in Leading}
  <2>1. \A i \in Leading : {i} \X (work.pos[i] .. to[i] - 1) = {f[i]}
    <3>1. ASSUME NEW i \in Leading PROVE {i} \X (work.pos[i] .. to[i] - 1) = {f[i]}
      <4>1. work.pos[i] .. to[i] - 1 = {work.pos[i]}
        BY <1>4
      <4>2. {i} \X {work.pos[i]} = {<<i, work.pos[i]>>}
        OBVIOUS
      <4> QED
        BY <4>1, <4>2
    <3> QED
      BY <3>1
  <2>2. DOMAIN f = Leading /\ f = [i \in Leading |-> f[i]]
        /\ \A i, j \in Leading : f[i] = f[j] => i = j
    OBVIOUS
  <2> HIDE DEF f
  <2>3. U = T
    <3>1. {{i} \X (work.pos[i] .. to[i] - 1) : i \in S} = {{f[i]} : i \in Leading}
      BY <1>2, <2>1
    <3>2. UNION {{f[i]} : i \in Leading} = T
      OBVIOUS
    <3> QED
      BY <3>1, <3>2
  <2>4. Cardinality(T) = Cardinality(Leading)
    BY <1>3, <2>2, ImageSize
  <2> QED
    BY <2>3, <2>4
<1> HIDE DEF U
<1>7. new = [work EXCEPT !.pos = Further,
                     !.found = IF Cardinality(Leading) >= params.minTimes
                               THEN Append(@, LeastId) ELSE @]
  BY <1>5, <1>6
<1> HIDE DEF new
<1> QED
  BY <1>1, <1>7, QueueStepKeeps

\* The minTimes lists that wand takes agree exactly if so many hold the least id;
\* and if they do not agree, all that hold it are among them.
LEMMA WandStepKeeps ==
    ASSUME IndexRight, SearchRight, WandStep
    PROVE  IndexRight' /\ SearchRight'
<1>1. PICK n : n = params.minTimes
  OBVIOUS
<1>2. PICK E \in kSubset(n, Queued) :
        /\ \A i \in E, j \in Queued \ E : Current(i) <= Current(j)
        /\ LET match == \A i \in E : Current(i) = LeastId
               taken == IF match THEN {i \in Queued : Current(i) = LeastId} ELSE E
           IN  Working([work EXCEPT
                   !.pos = Moved(taken, [i \in taken |-> Behind(i, LeastId)]),
                   !.found = IF match THEN Append(@, LeastId) ELSE @])
  BY <1>1 DEF WandStep
<1> DEFINE match == \A i \in E : Current(i) = LeastId
           taken == IF match THEN {i \in Queued : Current(i) = LeastId} ELSE E
           to == [i \in taken |-> Behind(i, LeastId)]
           new == [work EXCEPT !.pos = Moved(taken, to),
                               !.found = IF match THEN Append(@, LeastId) ELSE @]
<1>3. work.pc = "queue" /\ Working(new)
  BY <1>2 DEF WandStep
<1>4. E \subseteq Queued /\ Cardinality(E) = n
  BY <1>2 DEF kSubset
<1>5. n \in Nat \ {0} /\ IsFiniteSet(Queued)
  BY <1>1, <1>3, AtQueue
<1>6. IsFiniteSet(E) /\ E # {} /\ Queued # {}
  <2>1. IsFiniteSet(E)
    BY <1>4, <1>5, FS_Subset
  <2>2. E # {}
    BY <1>4, <1>5, FS_EmptySet
  <2> QED
    BY <1>4, <2>1, <2>2
<1>7. /\ IsFiniteSet(Leading) /\ Leading # {} /\ Leading \subseteq Queued /\ LeastId \in Nat
      /\ \A i \in Queued :
             /\ LeastId <= Current(i)
             /\ Behind(i, LeastId) = IF i \in Leading THEN work.pos[i] + 1 ELSE work.pos[i]
  BY <1>3, <1>6, LeadingIs
<1>8. /\ \A i \in Queued : work.pos[i] \in 1 .. Len(List(i)) /\ List(i) \in Seq(Nat)
      /\ \A i \in Queued : Current(i) \in Nat
  BY <1>3, AtQueue
<1>9. Cardinality(Leading) \in Nat
  BY <1>7, FS_CardinalityType
<1>10. match <=> E \subseteq Leading
  BY <1>4 DEF Leading
\* Lists that are not taken do not hold the least id, if one that is does not.
<1>11. ~ match => Leading \subseteq E
  <2>1. SUFFICES ASSUME NEW i \in E, Current(i) # LeastId, NEW j \in Leading, j \notin E
                 PROVE  FALSE
    OBVIOUS
  <2>2. Current(i) <= Current(j) /\ Current(j) = LeastId /\ LeastId <= Current(i)
    BY <1>2, <1>4, <1>7, <2>1 DEF Leading
  <2>3. Current(i) \in Nat
    BY <1>4, <1>8
  <2> QED
    BY <1>7, <2>1, <2>2, <2>3
<1>12. match <=> Cardinality(Leading) >= n
  <2>1. CASE match
    <3>1. E \in SUBSET Leading
      BY <1>10, <2>1
    <3>2. Cardinality(E) <= Cardinality(Leading)
      BY <1>7, <3>1, FS_Subset
    <3> HIDE DEF match
    <3> QED
      BY <1>4, <1>5, <1>9, <2>1, <3>2
  <2>2. CASE ~ match
    <3>1. Leading \in SUBSET E /\ Leading # E
      BY <1>10, <1>11, <2>2
    <3>2. Cardinality(Leading) <= Cardinality(E) /\ Cardinality(Leading) # Cardinality(E)
      BY <1>6, <3>1, FS_Subset
    <3> HIDE DEF match
    <3> QED
      BY <1>4, <1>5, <1>9, <2>2, <3>2
  <2> QED
    BY <2>1, <2>2
<1>13. Leading \subseteq taken /\ taken \subseteq Queued
  BY <1>4, <1>11 DEF Leading
<1>14. \A i \in taken : to[i] = IF i \in Leading THEN work.pos[i] + 1 ELSE work.pos[i]
  BY <1>7, <1>13
<1> HIDE DEF taken, to, match
<1>15. Moved(taken, to) = Further
  <2> DEFINE A == {j \in Queued : j \in taken => to[j] <= Len(List(j))}
             B == {j \in Queued : j \in Leading => work.pos[j] + 1 <= Len(List(j))}
  <2>1. ASSUME NEW j \in Queued
        PROVE  /\ (j \in taken => to[j] <= Len(List(j)))
                    <=> (j \in Leading => work.pos[j] + 1 <= Len(List(j)))
               /\ (IF j \in taken THEN to[j] ELSE work.pos[j])
                    = IF j \in Leading THEN work.pos[j] + 1 ELSE work.pos[j]
    <3>1. work.pos[j] <= Len(List(j))
      <4>1. work.pos[j] \in 1 .. Len(List(j)) /\ List(j) \in Seq(Nat)
        BY <1>8
      <4> QED
        BY <4>1
    <3>2. CASE j \in Leading
      BY <1>13, <1>14, <3>2
    <3>3. CASE j \notin Leading
      BY <1>14, <3>1, <3>3
    <3> QED
      BY <3>2, <3>3
  <2>2. A = B
    BY <2>1
  <2>3. Moved(taken, to) = [i \in A |-> IF i \in taken THEN to[i] ELSE work.pos[i]]
    BY DEF Moved
  <2>4. Further = [i \in B |-> IF i \in Leading THEN work.pos[i] + 1 ELSE work.pos[i]]
    BY DEF Further
  <2>5. \A i \in A : i \in Queued
    OBVIOUS
  <2> HIDE DEF A, B
  <2> QED
    BY <2>1, <2>2, <2>3, <2>4, <2>5
<1>16. new = [work EXCEPT !.pos = Further,
                     !.found = IF Cardinality(Leading) >= params.minTimes
                               THEN Append(@, LeastId) ELSE @]
  BY <1>1, <1>12, <1>15
<1> HIDE DEF new
<1> QED
  BY <1>3, <1>6, <1>16, QueueStepKeeps

\* The queue has run out of lists.
LEMMA EndQueueKeeps ==
    ASSUME IndexRight, SearchRight, EndQueue
    PROVE  IndexRight' /\ SearchRight'
<1>1. work.pc = "queue" /\ EndWith(work.found)
      /\ Cardinality(Queued) < (IF params.alg = "wand" THEN params.minTimes ELSE 1)
  BY DEF EndQueue
<1>2. PICK c, P, D, lists, n, pos, found :
          /\ c = work.chunk /\ P = Prefix /\ D = IdsOf(c) /\ lists = ListsIn(c)
          /\ n = params.minTimes /\ pos = work.pos /\ found = work.found
  OBVIOUS
<1>3. /\ phase = "searching" /\ phase # "creating" /\ c \in Chunks /\ ~ params.useSort
      /\ n \in Nat \ {0} /\ Passing(lists, P, D, n, pos, found) /\ Lists(lists, P, D)
      /\ Reaching = P /\ ParamsRight
  BY <1>1, <1>2, AtQueue DEF SearchRight
<1>4. Cardinality(DOMAIN pos) < n
  <2>1. IsFiniteSet(Queued)
    BY <1>1, <1>2, AtQueue
  <2>2. Cardinality(Queued) \in Nat
    BY <2>1, FS_CardinalityType
  <2>3. Cardinality(Queued) < n
    BY <1>1, <1>2, <1>3, <2>2
  <2> QED
    BY <1>2, <2>3 DEF Queued
<1>5. ToSet(found) = HeldBy(lists, P, D, n)
  BY <1>3, <1>4, PassingEnds
<1>6. \A d \in D : Cardinality(Held(lists, P, d)) = Shared(ObjectOf(c, d))
  BY <1>2, <1>3, ListsInAre
<1>7. RightIds(c, ToSet(found))
  <2>1. HeldBy(lists, P, D, n) = {i \in IdsOf(c) : Shared(ObjectOf(c, i)) >= params.minTimes}
    BY <1>2, <1>6 DEF HeldBy
  <2> QED
    BY <1>3, <1>5, <2>1 DEF RightIds
<1>8. found \in Seq(D) /\ Once(found)
  BY <1>3 DEF Passing
<1> QED
  BY <1>1, <1>2, <1>3, <1>7, <1>8, EndWithKeeps

\* A search begins with nothing checked, or throws.
LEMMA SearchKeeps ==
    ASSUME IndexRight, SearchRight, Search
    PROVE  IndexRight' /\ SearchRight'
<1>1. /\ phase \in {"ready", "answered", "threw"} /\ checked' = <<>>
      /\ UNCHANGED <<index, params>> /\ UNCHANGED index /\ perm' = perm /\ params' = params
      /\ \/ phase' = "threw" /\ work' = Idle
         \/ /\ ~ (params.useSort /\ params.alg \in {"wand", "pqueue"})
            /\ phase' = "searching" /\ work' = Entered(0)
  BY DEF Search, index
<1>2. IndexRight'
  BY <1>1, SameIndexKeeps
<1>3. ParamsRight /\ ParamsRight'
  BY <1>1 DEF SearchRight, ParamsRight
<1>4. CASE phase' = "threw" /\ work' = Idle
  BY <1>2, <1>3, <1>4 DEF SearchRight
<1>5. CASE /\ ~ (params.useSort /\ params.alg \in {"wand", "pqueue"})
           /\ phase' = "searching" /\ work' = Entered(0)
  <2>1. 0 \in Chunks
    BY SizesAre DEF Chunks
  <2>2. Going(Entered(0)) /\ Entered(0).chunk = 0
    BY <1>1, <1>3, <1>5, <2>1, EnteredIs
  <2>3. PICK new : new = Entered(0)
    OBVIOUS
  <2>4. Going(new)'
    BY <1>1, <2>2, <2>3, SameGoing
  <2>5. Going(work)' /\ work'.chunk = 0
    BY <1>5, <2>2, <2>3, <2>4
  <2>6. CheckedBefore(0)'
    <3>1. <<>> \in Seq(Nat) /\ Once(<<>>) /\ ToSet(<<>>) = {}
      BY DEF Once, ToSet
    <3>2. \A c \in Chunks : ~ (c < 0)
      BY SizesAre
    <3> QED
      BY <1>1, <3>1, <3>2 DEF CheckedBefore
  <2>7. CheckedBefore(work.chunk)'
    BY <2>5, <2>6
  <2> QED
    BY <1>1, <1>2, <1>3, <1>5, <2>5, <2>7 DEF SearchRight
<1> QED
  BY <1>1, <1>4, <1>5

\* Parameters change between searches.
LEMMA SetQueryTimeParamsKeeps ==
    ASSUME IndexRight, SearchRight, SetQueryTimeParams
    PROVE  IndexRight' /\ SearchRight'
<1>1. /\ phase \in {"ready", "answered", "threw"} /\ phase' \in {"ready", "threw"}
      /\ UNCHANGED index /\ work' = work
      /\ \E s \in Settings : params' = s \/ params' \in StoredAtThrow(s)
  BY DEF SetQueryTimeParams
<1>2. IndexRight'
  BY <1>1, SameIndexKeeps
<1>3. ParamsRight'
  <2>1. PICK s \in Settings : params' = s \/ params' \in StoredAtThrow(s)
    BY <1>1
  <2> DEFINE R == [alg : Algorithms, useSort : BOOLEAN, minTimes : Nat \ {0},
                   prefix : 0 .. NumPivot, dbScan : 0 .. DataQty]
  <2>2. s \in R /\ params \in R /\ DataQty \in 0 .. DataQty
    BY SettingsAssumption DEF SearchRight, ParamsRight
  <2>3. /\ [params EXCEPT !.useSort = s.useSort] \in R
        /\ [s EXCEPT !.alg = params.alg, !.dbScan = params.dbScan] \in R
        /\ [s EXCEPT !.dbScan = params.dbScan] \in R
        /\ [s EXCEPT !.dbScan = DataQty] \in R
    BY <2>2
  <2> HIDE DEF R
  <2>4. params' \in R
    BY <2>1, <2>2, <2>3 DEF StoredAtThrow
  <2> QED
    BY <2>4 DEF ParamsRight, R
<1>4. work = Idle
  BY <1>1 DEF SearchRight
<1> QED
  BY <1>1, <1>2, <1>3, <1>4 DEF SearchRight

\* All threads are through with all chunks.
LEMMA JoinThreadsKeeps ==
    ASSUME IndexRight, SearchRight, JoinThreads
    PROVE  IndexRight' /\ SearchRight'
<1>1. /\ phase = "creating" /\ phase' = "ready" /\ \A t \in Workers : thread[t].chunk = ChunkQty
      /\ UNCHANGED index /\ UNCHANGED <<params, work>>
  BY DEF JoinThreads
<1>2. IndexRight'
  BY <1>1, SameIndexKeeps
<1>3. ParamsRight' /\ work = Idle
  BY <1>1 DEF SearchRight, ParamsRight
<1> QED
  BY <1>1, <1>2, <1>3 DEF SearchRight

\* Threads index before the search begins.
LEMMA IndexingKeeps ==
    ASSUME IndexRight, SearchRight, NEW t \in Workers, Indexing(t)
    PROVE  IndexRight' /\ SearchRight'
<1>1. /\ thread[t].chunk \in Chunks /\ UNCHANGED <<params, work, checked, perm>> /\ phase' = phase
  BY DEF Indexing, IndexObject, EndChunk, SkipChunk
<1>2. phase = "creating"
  <2>1. SUFFICES ASSUME phase # "creating" PROVE FALSE
    OBVIOUS
  <2>2. ChunkQty \in 0 .. ChunkQty - 1
    BY <1>1, <2>1 DEF IndexRight, Chunks
  <2> QED
    BY <2>2, SizesAre
<1>3. SearchRight'
  BY <1>1, <1>2, SameSearchKeeps
<1>4. IndexRight'
  BY IndexObjectKeeps, EndChunkKeeps, SkipChunkKeeps DEF Indexing
<1> QED
  BY <1>3, <1>4

\* A step that changes nothing.
LEMMA StutterKeeps ==
    ASSUME IndexRight, SearchRight, UNCHANGED vars
    PROVE  IndexRight' /\ SearchRight'
<1>1. /\ UNCHANGED <<index, params>> /\ UNCHANGED index /\ perm' = perm /\ params' = params
      /\ phase' = phase /\ work' = work /\ checked' = checked
  BY DEF vars, index
<1>2. IndexRight'
  BY <1>1, SameIndexKeeps
<1>3. \A d, S : RightSet(d, S)' = RightSet(d, S)
  BY <1>1, SameRightSet
<1>4. \A n : CheckedBefore(n)' = CheckedBefore(n)
  BY <1>1, <1>3 DEF CheckedBefore
<1>5. \A w : Going(w)' = Going(w)
  BY <1>1, SameGoing
<1>6. PICK w, n : w = work /\ n = w.chunk
  OBVIOUS
<1>7. Going(w)' = Going(work) /\ Going(work)' = Going(w)'
  BY <1>1, <1>5, <1>6
<1>8. CheckedBefore(work.chunk)' = CheckedBefore(n)' /\ CheckedBefore(work.chunk) = CheckedBefore(n)
  BY <1>1, <1>6
<1>9. CheckedBefore(ChunkQty)' = CheckedBefore(ChunkQty)
  BY <1>4
<1> QED
  BY <1>1, <1>2, <1>4, <1>7, <1>8, <1>9 DEF SearchRight, ParamsRight

\* Before the first search.
LEMMA SearchInit == Init => SearchRight
<1>1. SUFFICES ASSUME Init PROVE SearchRight
  OBVIOUS
<1>2. phase = "creating" /\ work = Idle /\ params = Default
  BY <1>1 DEF Init
<1>3. Default \in [alg : Algorithms, useSort : BOOLEAN, minTimes : Nat \ {0},
                   prefix : 0 .. NumPivot, dbScan : 0 .. DataQty]
  <2>1. NumPrefix \in 0 .. NumPivot /\ DataQty \in Nat
    BY SettingsAssumption
  <2>2. \A n \in Nat : n \div 20 \in 0 .. n
    OBVIOUS
  <2>3. DataQty \div 20 \in 0 .. DataQty
    BY <2>1, <2>2
  <2> QED
    BY <2>1, <2>3 DEF Default, Algorithms
<1> QED
  BY <1>2, <1>3 DEF SearchRight, ParamsRight

\* The inductive invariant: the posting lists are what the positions of the threads
\* say (IndexChunk), and the local variables of a search have counted, queued or
\* selected what the lists hold, the earlier chunks being checked (GenSearch).
THEOREM IndexAndSearchAreRight == Spec => [](IndexRight /\ SearchRight)
<1>1. Init => IndexRight /\ SearchRight
  BY IndexInit, SearchInit
<1>2. IndexRight /\ SearchRight /\ [Next]_vars => IndexRight' /\ SearchRight'
  <2>1. SUFFICES ASSUME IndexRight, SearchRight, [Next]_vars
                 PROVE  IndexRight' /\ SearchRight'
    OBVIOUS
  <2>2. CASE UNCHANGED vars
    BY <2>1, <2>2, StutterKeeps
  <2>3. ASSUME NEW t \in Workers, Indexing(t) PROVE IndexRight' /\ SearchRight'
    BY <2>1, <2>3, IndexingKeeps
  <2>4. CASE JoinThreads
    BY <2>1, <2>4, JoinThreadsKeeps
  <2>5. CASE SetQueryTimeParams
    BY <2>1, <2>5, SetQueryTimeParamsKeeps
  <2>6. CASE Search
    BY <2>1, <2>6, SearchKeeps
  <2>7. CASE AddList
    BY <2>1, <2>7, AddListKeeps
  <2>8. CASE EndLists
    BY <2>1, <2>8, EndListsKeeps
  <2>9. CASE StartSelect
    BY <2>1, <2>9, StartSelectKeeps
  <2>10. CASE Narrow
    BY <2>1, <2>10, NarrowKeeps
  <2>11. CASE TakeNext
    BY <2>1, <2>11, TakeNextKeeps
  <2>12. CASE EndSelect
    BY <2>1, <2>12, EndSelectKeeps
  <2>13. CASE PriorityQueueStep
    BY <2>1, <2>13, PriorityQueueStepKeeps
  <2>14. CASE WandStep
    BY <2>1, <2>14, WandStepKeeps
  <2>15. CASE EndQueue
    BY <2>1, <2>15, EndQueueKeeps
  <2> QED
    BY <2>1, <2>2, <2>3, <2>4, <2>5, <2>6, <2>7, <2>8, <2>9, <2>10, <2>11, <2>12, <2>13,
       <2>14, <2>15 DEF Next, Searching
<1> QED
  BY <1>1, <1>2, PTL DEF Spec

\* Whatever threads made the index: the objects compared with the query are
\* those that share enough pivots with it, in the sorting mode the best of them
\* (GenSearch); for merge, which reads the wrong buffer, enough pivots before the
\* last one.
THEOREM CandidatesAreRight == Spec => []RightCandidates
<1>1. SearchRight => RightCandidates
  <2>1. SUFFICES ASSUME SearchRight, phase = "answered" PROVE RightCandidates
    BY DEF RightCandidates
  <2>2. CheckedBefore(ChunkQty)
    BY <2>1 DEF SearchRight
  <2>3. IsInjective(checked)
    BY <2>2 DEF CheckedBefore, Once, IsInjective
  <2>4. \A c \in Chunks : RightSet(c, ToSet(checked) \cap InChunk(c))
    <3>1. \A c \in Chunks : c < ChunkQty
      BY SizesAre DEF Chunks
    <3> QED
      BY <2>2, <3>1 DEF CheckedBefore
  <2> QED
    BY <2>3, <2>4 DEF RightCandidates, RightSet
<1>2. QED
  BY <1>1, IndexAndSearchAreRight, PTL
=============================================================================
