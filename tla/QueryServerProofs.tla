-------------------------- MODULE QueryServerProofs --------------------------
(***************************************************************************)
(* The counter and the mutex of the query server keep changes of the       *)
(* parameters and searches apart, and searches that run at the same time   *)
(* have a visited list each, for any number of handlers and queries; what  *)
(* it searches with, an array sorted by key, stays sorted and complete.    *)
(***************************************************************************)
EXTENDS QueryServer, Extremes, SequenceTheorems

-----------------------------------------------------------------------------
(* The sorted array of SortArrBI.                                         *)

Items(D) == [key : Int, used : BOOLEAN, data : D]
Ascending(v) == \A i, j \in 1 .. Len(v) : i <= j => v[i].key <= v[j].key
DataOnce(v) == \A i, j \in 1 .. Len(v) : v[i].data = v[j].data => i = j

\* An array of items for the objects D.
Array(v, D) == v \in Seq(Items(D)) /\ Ascending(v) /\ DataOnce(v)

Contents(v) == {v[i] : i \in 1 .. Len(v)}

\* No object is in both.
Apart(v, items) == \A i \in 1 .. Len(v), j \in 1 .. Len(items) : v[i].data # items[j].data

\* The property of the specification, without an operator for the comparison.
LEMMA AscendingIsSorted ==
    ASSUME NEW D, NEW v \in Seq(Items(D))
    PROVE  SortedByKey(v) <=> Ascending(v)
<1>1. Len(v) \in Nat /\ \A i \in 1 .. Len(v) : v[i].key \in Int
  <2>1. Len(v) \in Nat /\ \A i \in 1 .. Len(v) : v[i] \in Items(D)
    BY LenProperties, ElementOfSeq
  <2> QED
    BY <2>1 DEF Items
<1>2. SortedByKey(v) <=> \A i, j \in 1 .. Len(v) : i < j => v[i].key <= v[j].key
  BY Zenon DEF SortedByKey, IsSorted
<1> QED
  BY <1>1, <1>2 DEF Ascending

\* An insertion moves the items from the position on.
LEMMA InsertAtIs ==
    ASSUME NEW X, NEW v \in Seq(X), NEW x \in X, NEW p \in 0 .. Len(v)
    PROVE  LET w == InsertAt(v, p + 1, x)
           IN  /\ w \in Seq(X) /\ Len(w) = Len(v) + 1
               /\ \A i \in 1 .. Len(w) :
                      w[i] = IF i <= p THEN v[i] ELSE IF i = p + 1 THEN x ELSE v[i - 1]
<1> DEFINE a == SubSeq(v, 1, p)
           b == SubSeq(v, p + 1, Len(v))
           ax == a \o <<x>>
<1>1. Len(v) \in Nat /\ p \in Nat /\ p <= Len(v)
  BY LenProperties
<1>2. a \in Seq(X) /\ Len(a) = p /\ \A i \in 1 .. p : a[i] = v[i]
  BY <1>1, SubSeqProperties
<1>3. b \in Seq(X) /\ Len(b) = Len(v) - p /\ \A i \in 1 .. Len(v) - p : b[i] = v[p + i]
  BY <1>1, SubSeqProperties
<1>4. <<x>> \in Seq(X) /\ Len(<<x>>) = 1 /\ <<x>>[1] = x
  OBVIOUS
<1>5. InsertAt(v, p + 1, x) = ax \o b
  <2>1. (p + 1) - 1 = p
    BY <1>1
  <2> QED
    BY <2>1 DEF InsertAt
<1> HIDE DEF a, b
<1>6. /\ ax \in Seq(X) /\ Len(ax) = p + 1
      /\ \A i \in 1 .. p + 1 : ax[i] = IF i <= p THEN a[i] ELSE <<x>>[i - p]
  BY <1>1, <1>2, <1>4, ConcatProperties
<1> HIDE DEF ax
<1>7. /\ ax \o b \in Seq(X) /\ Len(ax \o b) = p + 1 + (Len(v) - p)
      /\ \A i \in 1 .. p + 1 + (Len(v) - p) :
             (ax \o b)[i] = IF i <= p + 1 THEN ax[i] ELSE b[i - (p + 1)]
  <2>1. /\ ax \o b \in Seq(X) /\ Len(ax \o b) = Len(ax) + Len(b)
        /\ \A i \in 1 .. Len(ax) + Len(b) :
               (ax \o b)[i] = IF i <= Len(ax) THEN ax[i] ELSE b[i - Len(ax)]
    BY <1>3, <1>6, ConcatProperties
  <2> QED
    BY <1>3, <1>6, <2>1
<1> DEFINE w == ax \o b
<1>8. w \in Seq(X) /\ Len(w) = Len(v) + 1
  BY <1>1, <1>7
<1>9. ASSUME NEW i \in 1 .. Len(v) + 1
      PROVE  w[i] = IF i <= p THEN v[i] ELSE IF i = p + 1 THEN x ELSE v[i - 1]
  <2>1. i \in 1 .. p + 1 + (Len(v) - p)
    BY <1>1
  <2>2. CASE i <= p
    BY <1>1, <1>2, <1>6, <1>7, <2>1, <2>2
  <2>3. CASE i = p + 1
    BY <1>1, <1>4, <1>6, <1>7, <2>1, <2>3
  <2>4. CASE i > p + 1
    <3>1. i - (p + 1) \in 1 .. Len(v) - p /\ p + (i - (p + 1)) = i - 1
      BY <1>1, <2>4
    <3>2. w[i] = b[i - (p + 1)]
      BY <1>1, <1>7, <2>1, <2>4
    <3>3. b[i - (p + 1)] = v[i - 1]
      BY <1>3, <3>1
    <3>4. i > p /\ i # p + 1
      BY <1>1, <2>4
    <3> QED
      BY <1>1, <3>2, <3>3, <3>4
  <2>5. i <= p \/ i = p + 1 \/ i > p + 1
    BY <1>1
  <2> HIDE DEF w
  <2> QED
    BY <2>2, <2>3, <2>4, <2>5
<1> HIDE DEF w
<1>10. /\ w \in Seq(X) /\ Len(w) = Len(v) + 1
       /\ \A i \in 1 .. Len(w) :
              w[i] = IF i <= p THEN v[i] ELSE IF i = p + 1 THEN x ELSE v[i - 1]
  BY <1>8, <1>9
<1>11. InsertAt(v, p + 1, x) = w
  BY <1>5 DEF w
<1> QED
  BY <1>10, <1>11

\* A new item between those that are not farther and those that are not closer.
LEMMA InsertKeepsArray ==
    ASSUME NEW D, NEW v, Array(v, D), NEW x \in Items(D),
           \A i \in 1 .. Len(v) : v[i].data # x.data,
           NEW p \in 0 .. Len(v),
           \A i \in 1 .. p : v[i].key <= x.key,
           p = Len(v) \/ x.key <= v[p + 1].key
    PROVE  LET w == InsertAt(v, p + 1, x)
           IN  /\ Array(w, D) /\ Len(w) = Len(v) + 1 /\ Contents(w) = Contents(v) \cup {x}
               /\ \A i \in 1 .. p : w[i] = v[i]
<1> DEFINE w == InsertAt(v, p + 1, x)
<1>1. Len(v) \in Nat /\ v \in Seq(Items(D)) /\ \A i \in 1 .. Len(v) : v[i] \in Items(D)
  BY LenProperties, ElementOfSeq DEF Array
<1>2. /\ w \in Seq(Items(D)) /\ Len(w) = Len(v) + 1
      /\ \A i \in 1 .. Len(w) :
             w[i] = IF i <= p THEN v[i] ELSE IF i = p + 1 THEN x ELSE v[i - 1]
  BY <1>1, InsertAtIs
<1> HIDE DEF w
<1>3. x.key \in Int /\ \A i \in 1 .. Len(v) : v[i].key \in Int
  BY <1>1 DEF Items
<1>4. \A i \in 1 .. Len(v) : i > p => x.key <= v[i].key
  BY <1>1, <1>3 DEF Array, Ascending
<1>5. Ascending(w)
  <2>1. ASSUME NEW i \in 1 .. Len(w), NEW j \in 1 .. Len(w), i <= j
        PROVE  w[i].key <= w[j].key
    <3>1. /\ i <= p => i \in 1 .. Len(v)
          /\ j <= p => j \in 1 .. Len(v)
          /\ i > p + 1 => i - 1 \in 1 .. Len(v) /\ i - 1 > p
          /\ j > p + 1 => j - 1 \in 1 .. Len(v) /\ j - 1 > p
      BY <1>1, <1>2
    <3>2. CASE i <= p
      <4>1. w[i].key = v[i].key /\ v[i].key <= x.key /\ i \in 1 .. Len(v)
        BY <1>2, <3>1, <3>2
      <4>2. CASE j <= p
        BY <1>2, <2>1, <3>1, <4>1, <4>2 DEF Array, Ascending
      <4>3. CASE j = p + 1
        BY <1>2, <4>1, <4>3
      <4>4. CASE j > p + 1
        <5>1. w[j] = v[j - 1] /\ j - 1 \in 1 .. Len(v) /\ i <= j - 1
          BY <1>2, <3>1, <3>2, <4>4
        <5> QED
          BY <4>1, <5>1 DEF Array, Ascending
      <4> QED
        BY <1>1, <4>2, <4>3, <4>4
    <3>3. CASE i = p + 1
      <4>1. w[i] = x
        BY <1>2, <3>3
      <4>2. CASE j = p + 1
        BY <1>3, <3>3, <4>1, <4>2
      <4>3. CASE j > p + 1
        <5>1. w[j] = v[j - 1] /\ x.key <= v[j - 1].key
          BY <1>1, <1>2, <1>4, <3>1, <4>3
        <5> QED
          BY <4>1, <5>1
      <4> QED
        BY <1>1, <2>1, <3>3, <4>2, <4>3
    <3>4. CASE i > p + 1
      <4>1. j > p + 1 /\ i - 1 <= j - 1 /\ p \in Int /\ i \in Int /\ j \in Int
        BY <1>1, <2>1, <3>4
      <4>2. i - 1 \in 1 .. Len(v) /\ j - 1 \in 1 .. Len(v)
        BY <3>1, <3>4, <4>1
      <4>3. w[i] = v[i - 1] /\ w[j] = v[j - 1]
        <5>1. ~ (i <= p) /\ i # p + 1 /\ ~ (j <= p) /\ j # p + 1
          BY <3>4, <4>1
        <5> QED
          BY <1>2, <2>1, <5>1
      <4> QED
        BY <4>1, <4>2, <4>3 DEF Array, Ascending
    <3> QED
      BY <1>1, <3>2, <3>3, <3>4
  <2> QED
    BY <2>1 DEF Ascending
<1>6. DataOnce(w)
  <2>1. ASSUME NEW i \in 1 .. Len(w), NEW j \in 1 .. Len(w), w[i].data = w[j].data
        PROVE  i = j
    <3> DEFINE from(k) == IF k <= p THEN k ELSE k - 1
    <3>1. \A k \in 1 .. Len(w) : k # p + 1 => from(k) \in 1 .. Len(v) /\ w[k] = v[from(k)]
      BY <1>1, <1>2
    <3>2. w[p + 1] = x
      BY <1>1, <1>2
    <3>3. CASE i = p + 1
      BY <2>1, <3>1, <3>2, <3>3
    <3>4. CASE j = p + 1
      BY <2>1, <3>1, <3>2, <3>4
    <3>5. CASE i # p + 1 /\ j # p + 1
      <4>1. from(i) = from(j)
        <5> HIDE DEF from
        <5> QED
          BY <2>1, <3>1, <3>5 DEF Array, DataOnce
      <4> QED
        BY <1>1, <3>5, <4>1
    <3> QED
      BY <3>3, <3>4, <3>5
  <2> QED
    BY <2>1 DEF DataOnce
<1>7. Contents(w) = Contents(v) \cup {x}
  <2>1. \A i \in 1 .. Len(w) : w[i] \in Contents(v) \cup {x}
    <3>1. ASSUME NEW i \in 1 .. Len(w) PROVE w[i] \in Contents(v) \cup {x}
      <4>1. (i <= p => i \in 1 .. Len(v)) /\ (i > p + 1 => i - 1 \in 1 .. Len(v))
        BY <1>1, <1>2
      <4> QED
        BY <1>1, <1>2, <4>1 DEF Contents
    <3> QED
      BY <3>1
  <2>2. x \in Contents(w)
    <3>1. p + 1 \in 1 .. Len(w) /\ w[p + 1] = x
      BY <1>1, <1>2
    <3> QED
      BY <3>1 DEF Contents
  <2>3. ASSUME NEW i \in 1 .. Len(v) PROVE v[i] \in Contents(w)
    <3>1. CASE i <= p
      <4>1. i \in 1 .. Len(w) /\ w[i] = v[i]
        BY <1>1, <1>2, <3>1
      <4> QED
        BY <4>1 DEF Contents
    <3>2. CASE i > p
      <4>1. i + 1 \in 1 .. Len(w) /\ (i + 1) - 1 = i /\ w[i + 1] = v[(i + 1) - 1]
        BY <1>1, <1>2, <3>2
      <4> QED
        BY <4>1 DEF Contents
    <3> QED
      BY <1>1, <3>1, <3>2
  <2> QED
    BY <2>1, <2>2, <2>3 DEF Contents
<1>8. \A i \in 1 .. p : w[i] = v[i]
  <2>1. \A i \in 1 .. p : i \in 1 .. Len(w) /\ i <= p
    BY <1>1, <1>2
  <2> QED
    BY <1>2, <2>1
<1> QED
  BY <1>2, <1>5, <1>6, <1>7, <1>8 DEF Array, w

-----------------------------------------------------------------------------
(* Searching and merging.                                                  *)

\* std::lower_bound returns the first position that is not closer.
LEMMA LowerBoundIs ==
    ASSUME NEW v, NEW from \in Nat, NEW to \in Nat, from <= to, NEW key \in Int,
           \A i \in from .. to - 1 : v[i + 1].key \in Int
    PROVE  LET i == LowerBound(v, from, to, key)
           IN  /\ i \in from .. to
               /\ i = to \/ key <= v[i + 1].key
               /\ \A j \in from .. i - 1 : v[j + 1].key < key
<1> DEFINE Stops == {i \in from .. to : i = to \/ v[i + 1].key >= key}
           Is(i) == /\ i = to \/ v[i + 1].key >= key
                    /\ \A j \in from .. i - 1 : v[j + 1].key < key
<1>1. to \in Stops /\ Stops \subseteq Nat
  OBVIOUS
<1>2. PICK i \in Stops : \A j \in Stops : i <= j
  <2> HIDE DEF Stops
  <2> QED
    BY <1>1, LeastExists
<1>3. \A j \in from .. i - 1 : v[j + 1].key < key
  <2>1. ASSUME NEW j \in from .. i - 1 PROVE v[j + 1].key < key
    <3>1. j \in from .. to - 1 /\ ~ (i <= j)
      BY <1>2
    <3>2. j \notin Stops
      BY <1>2, <3>1
    <3> QED
      BY <3>1, <3>2
  <2> QED
    BY <2>1
<1>4. i \in from .. to /\ Is(i)
  BY <1>2, <1>3
<1>5. LowerBound(v, from, to, key) = CHOOSE x \in from .. to : Is(x)
  BY Zenon DEF LowerBound
<1> DEFINE p == CHOOSE x \in from .. to : Is(x)
<1>6. p \in from .. to /\ Is(p)
  <2> HIDE DEF Is
  <2> QED
    BY <1>4
<1> HIDE DEF p
<1>7. p = to \/ key <= v[p + 1].key
  BY <1>6
<1> QED
  BY <1>5, <1>6, <1>7 DEF p

\* A new item goes behind the items of the array that are as close.
LEMMA MergedItemIs ==
    ASSUME NEW D, NEW v, Array(v, D), NEW x \in Items(D),
           \A i \in 1 .. Len(v) : v[i].data # x.data
    PROVE  LET w == MergedItem(v, x)
           IN  Array(w, D) /\ Len(w) = Len(v) + 1 /\ Contents(w) = Contents(v) \cup {x}
<1> DEFINE p == LowerBound(v, 0, Len(v), x.key + 1)
<1>1. Len(v) \in Nat /\ \A i \in 1 .. Len(v) : v[i] \in Items(D)
  BY LenProperties, ElementOfSeq DEF Array
<1>2. x.key \in Int /\ \A i \in 1 .. Len(v) : v[i].key \in Int
  BY <1>1 DEF Items
<1>3. \A i \in 0 .. Len(v) - 1 : v[i + 1].key \in Int
  BY <1>1, <1>2
<1>4. /\ p \in 0 .. Len(v)
      /\ p = Len(v) \/ x.key + 1 <= v[p + 1].key
      /\ \A j \in 0 .. p - 1 : v[j + 1].key < x.key + 1
  <2> DEFINE key == x.key + 1
  <2>1. 0 \in Nat /\ 0 <= Len(v) /\ key \in Int
    BY <1>1, <1>2
  <2> HIDE DEF key
  <2>2. LET i == LowerBound(v, 0, Len(v), key)
        IN  /\ i \in 0 .. Len(v)
            /\ i = Len(v) \/ key <= v[i + 1].key
            /\ \A j \in 0 .. i - 1 : v[j + 1].key < key
    BY <1>1, <1>3, <2>1, LowerBoundIs
  <2> QED
    BY <2>2 DEF key
<1> HIDE DEF p
<1>5. \A i \in 1 .. p : v[i].key <= x.key
  <2>1. ASSUME NEW i \in 1 .. p PROVE v[i].key <= x.key
    <3>1. i - 1 \in 0 .. p - 1 /\ (i - 1) + 1 = i /\ i \in 1 .. Len(v)
      BY <1>1, <1>4
    <3>2. v[i].key < x.key + 1
      BY <1>4, <3>1
    <3> QED
      BY <1>2, <3>1, <3>2
  <2> QED
    BY <2>1
<1>6. p = Len(v) \/ x.key <= v[p + 1].key
  <2>1. CASE p # Len(v)
    <3>1. p + 1 \in 1 .. Len(v)
      BY <1>1, <1>4, <2>1
    <3> QED
      BY <1>2, <1>4, <2>1, <3>1
  <2> QED
    BY <2>1
<1>7. MergedItem(v, x) = InsertAt(v, p + 1, x)
  BY DEF MergedItem, p
<1>8. LET w == InsertAt(v, p + 1, x)
      IN  Array(w, D) /\ Len(w) = Len(v) + 1 /\ Contents(w) = Contents(v) \cup {x}
  <2>1. p \in 0 .. Len(v)
    BY <1>4
  <2> QED
    BY <1>5, <1>6, <2>1, InsertKeepsArray
<1> QED
  BY <1>7, <1>8

\* std::inplace_merge keeps all items of both, in order.
LEMMA MergedIs ==
    ASSUME NEW D, NEW v, Array(v, D), NEW items \in Seq(Items(D)), DataOnce(items), Apart(v, items)
    PROVE  LET w == Merged(v, items)
           IN  /\ Array(w, D) /\ Len(w) = Len(v) + Len(items)
               /\ Contents(w) = Contents(v) \cup Contents(items)
<1> DEFINE n == Len(items)
           First(i) == {items[k] : k \in 1 .. i}
           Is(w, i) == /\ Array(w, D) /\ Len(w) = Len(v) + i
                       /\ Contents(w) = Contents(v) \cup First(i)
           A == [i \in 0 .. n |-> {w \in Seq(Items(D)) : Is(w, i)}]
           S == Seq(Items(D))
           step == [a \in S \X (1 .. n) |-> MergedItem(a[1], items[a[2]])]
           F == CHOOSE f : f = [i \in 0 .. Len(items) |->
                                   IF i = 0 THEN v ELSE MergedItem(f[i - 1], items[i])]
<1>1. n \in Nat /\ Len(v) \in Nat /\ \A i \in 1 .. n : items[i] \in Items(D)
  BY LenProperties, ElementOfSeq DEF Array
<1>2. ASSUME NEW i \in 1 .. n, NEW w, Is(w, i - 1)
      PROVE  Is(MergedItem(w, items[i]), i)
  <2> DEFINE x == items[i]
  <2>1. \A k \in 1 .. Len(w) : w[k].data # x.data
    <3>1. ASSUME NEW k \in 1 .. Len(w) PROVE w[k].data # x.data
      <4>1. w[k] \in Contents(v) \cup First(i - 1)
        BY <1>2 DEF Contents
      <4>2. CASE w[k] \in Contents(v)
        <5>1. PICK j \in 1 .. Len(v) : w[k] = v[j]
          BY <4>2 DEF Contents
        <5> QED
          BY <5>1 DEF Apart
      <4>3. CASE w[k] \in First(i - 1)
        <5>1. PICK j \in 1 .. i - 1 : w[k] = items[j]
          BY <4>3
        <5>2. j \in 1 .. n /\ j # i
          BY <1>1, <5>1
        <5> QED
          BY <5>1, <5>2 DEF DataOnce
      <4> QED
        BY <4>1, <4>2, <4>3
    <3> QED
      BY <3>1
  <2>2. x \in Items(D)
    BY <1>1
  <2> DEFINE u == MergedItem(w, x)
  <2>3. Array(u, D) /\ Len(u) = Len(w) + 1 /\ Contents(u) = Contents(w) \cup {x}
    <3> HIDE DEF x
    <3> QED
      BY <1>2, <2>1, <2>2, MergedItemIs
  <2>4. First(i) = First(i - 1) \cup {x}
    <3>1. \A k \in 1 .. i : k \in 1 .. i - 1 \/ k = i
      OBVIOUS
    <3>2. \A k \in 1 .. i - 1 : k \in 1 .. i
      OBVIOUS
    <3> QED
      BY <3>1, <3>2
  <2>5. Len(u) = Len(v) + i
    BY <1>1, <1>2, <2>3
  <2> HIDE DEF u
  <2>6. Contents(u) = Contents(v) \cup First(i)
    BY <1>2, <2>3, <2>4
  <2> QED
    BY <2>3, <2>5, <2>6 DEF u
<1>3. v \in A[0]
  <2>1. First(0) = {}
    OBVIOUS
  <2>2. Is(v, 0)
    BY <1>1, <2>1
  <2> HIDE DEF Is
  <2> QED
    BY <1>1, <2>2 DEF Array
<1>4. \A i \in 1 .. n : \A w : Is(w, i) => w \in Seq(Items(D))
  BY DEF Array
<1> HIDE DEF Is, F
<1>5. Leads(n, A, step)
  <2>1. ASSUME NEW i \in 1 .. n, NEW w \in A[i - 1] PROVE step[<<w, i>>] \in A[i]
    <3>1. i - 1 \in 0 .. n /\ i \in 0 .. n
      BY <1>1
    <3>2. w \in S /\ Is(w, i - 1)
      BY <3>1
    <3>3. step[<<w, i>>] = MergedItem(w, items[i])
      BY <3>2
    <3> QED
      BY <1>2, <1>4, <3>1, <3>2, <3>3
  <2> QED
    BY <2>1 DEF Leads
<1>6. PICK f : Runs(f, n, v, step) /\ \A i \in 0 .. n : f[i] \in A[i]
  <2> HIDE DEF A, step, n
  <2> QED
    BY <1>1, <1>3, <1>5, LoopExists
<1>7. f = [i \in 0 .. n |-> IF i = 0 THEN v ELSE step[<<f[i - 1], i>>]]
  BY <1>6 DEF Runs
<1>8. f = [i \in 0 .. Len(items) |-> IF i = 0 THEN v ELSE MergedItem(f[i - 1], items[i])]
  <2>1. ASSUME NEW i \in 0 .. n
        PROVE  f[i] = IF i = 0 THEN v ELSE MergedItem(f[i - 1], items[i])
    <3>1. CASE i = 0
      BY <1>7, <3>1
    <3>2. CASE i # 0
      <4>1. i \in 1 .. n /\ i - 1 \in 0 .. n
        BY <1>1, <3>2
      <4>2. f[i - 1] \in S
        BY <1>6, <4>1
      <4>3. f[i] = step[<<f[i - 1], i>>]
        BY <1>7, <3>2
      <4> QED
        BY <3>2, <4>1, <4>2, <4>3
    <3> QED
      BY <3>1, <3>2
  <2>2. f = [i \in 0 .. n |-> f[i]]
    <3> HIDE DEF step
    <3> QED
      BY <1>7
  <2> QED
    BY <2>1, <2>2
<1>9. F = [i \in 0 .. Len(items) |-> IF i = 0 THEN v ELSE MergedItem(F[i - 1], items[i])]
  BY <1>8, Zenon DEF F
<1>10. \A i \in 0 .. n : F[i] \in A[i]
  <2>1. F[0] \in A[0]
    BY <1>1, <1>3, <1>9
  <2>2. \A i \in 1 .. n : F[i - 1] \in A[i - 1] => F[i] \in A[i]
    <3>1. ASSUME NEW i \in 1 .. n, F[i - 1] \in A[i - 1] PROVE F[i] \in A[i]
      <4>1. i - 1 \in 0 .. n /\ i \in 0 .. n /\ i # 0
        BY <1>1
      <4>2. Is(F[i - 1], i - 1)
        BY <3>1, <4>1
      <4>3. F[i] = MergedItem(F[i - 1], items[i])
        BY <1>9, <4>1
      <4> QED
        BY <1>2, <1>4, <4>1, <4>2, <4>3
    <3> QED
      BY <3>1
  <2> HIDE DEF A
  <2> QED
    BY <1>1, <2>1, <2>2, LoopKeeps
<1>11. Merged(v, items) = F[n]
  BY Zenon DEF Merged, F
<1>12. Is(F[n], n)
  BY <1>1, <1>10
<1>13. First(n) = Contents(items)
  BY DEF Contents
<1> QED
  BY <1>11, <1>12, <1>13 DEF Is

\* std::sort of new items returns the same items in order.
LEMMA SortedIs ==
    ASSUME NEW D, NEW items \in Seq(Items(D)), DataOnce(items)
    PROVE  LET w == Sorted(items)
           IN  Array(w, D) /\ Len(w) = Len(items) /\ Contents(w) = Contents(items)
<1>1. << >> \in Seq(Items(D)) /\ Len(<< >>) = 0
  OBVIOUS
<1>2. Array(<< >>, D) /\ Apart(<< >>, items) /\ Contents(<< >>) = {}
  BY <1>1 DEF Array, Ascending, DataOnce, Apart, Contents
<1>3. Len(items) \in Nat
  BY LenProperties
<1> DEFINE w == Merged(<< >>, items)
<1>4. /\ Array(w, D) /\ Len(w) = Len(<< >>) + Len(items)
      /\ Contents(w) = Contents(<< >>) \cup Contents(items)
  BY <1>2, MergedIs
<1> HIDE DEF w
<1>5. Array(w, D) /\ Len(w) = Len(items) /\ Contents(w) = Contents(items)
  BY <1>1, <1>2, <1>3, <1>4
<1> QED
  BY <1>5 DEF Sorted, w

\* All items before a position were used, the item at the position was not.
UpTo(v, i) == \A j \in 1 .. i : v[j].used
IsFirstUnused(v, i) == i \in 0 .. Len(v) /\ (i = Len(v) \/ ~ v[i + 1].used) /\ UpTo(v, i)

\* There is one such position.
LEMMA FirstUnusedIs ==
    ASSUME NEW v, Len(v) \in Nat
    PROVE  /\ IsFirstUnused(v, FirstUnused(v))
           /\ \A i : IsFirstUnused(v, i) => i = FirstUnused(v)
<1> DEFINE Stops == {i \in 0 .. Len(v) : i = Len(v) \/ ~ v[i + 1].used}
<1>1. Len(v) \in Stops /\ Stops \subseteq Nat
  OBVIOUS
<1>2. PICK i \in Stops : \A j \in Stops : i <= j
  <2> HIDE DEF Stops
  <2> QED
    BY <1>1, LeastExists
<1>3. ASSUME NEW j \in 1 .. i PROVE v[j].used
  <2>1. j - 1 \in 0 .. Len(v) /\ ~ (i <= j - 1) /\ (j - 1) + 1 = j /\ j - 1 # Len(v)
    BY <1>2
  <2>2. j - 1 \notin Stops
    BY <1>2, <2>1
  <2> QED
    BY <2>1, <2>2
<1>4. IsFirstUnused(v, i)
  BY <1>2, <1>3 DEF IsFirstUnused, UpTo
<1>5. ASSUME NEW a, NEW b, IsFirstUnused(v, a), IsFirstUnused(v, b)
      PROVE  ~ (a < b)
  <2>1. SUFFICES ASSUME a < b PROVE FALSE
    OBVIOUS
  <2>2. a + 1 \in 1 .. b /\ a # Len(v)
    BY <1>5, <2>1 DEF IsFirstUnused
  <2> QED
    BY <1>5, <2>2 DEF IsFirstUnused, UpTo
<1>6. FirstUnused(v) = CHOOSE x \in 0 .. Len(v) : (x = Len(v) \/ ~ v[x + 1].used) /\ UpTo(v, x)
  BY Zenon DEF FirstUnused, UpTo
<1>7. IsFirstUnused(v, FirstUnused(v))
  BY <1>4, <1>6 DEF IsFirstUnused
<1>8. ASSUME NEW x, IsFirstUnused(v, x) PROVE x = FirstUnused(v)
  <2>1. x \in 0 .. Len(v) /\ FirstUnused(v) \in 0 .. Len(v)
    BY <1>7, <1>8 DEF IsFirstUnused
  <2>2. ~ (x < FirstUnused(v)) /\ ~ (FirstUnused(v) < x)
    BY <1>5, <1>7, <1>8
  <2> QED
    BY <2>1, <2>2
<1> QED
  BY <1>7, <1>8

-----------------------------------------------------------------------------
(* Inserting one item.                                                     *)

\* The position found for a key lies between what is not farther and what is
\* not closer: the steps to the front never pass the front.
LEMMA PositionOfIs ==
    ASSUME NEW v, NEW n \in Nat, Len(v) = n + 1, \A i \in 1 .. n + 1 : v[i].key \in Int,
           Ascending(v), NEW key \in Int, key < v[n + 1].key
    PROVE  LET p == PositionOf(v, key)
           IN  /\ p \in 0 .. n /\ key <= v[p + 1].key
               /\ \A j \in 1 .. p : v[j].key <= key
<1> DEFINE Stopped(w) == w.curr = 0 \/ v[w.curr + 1].key <= key
           W == [curr : 0 .. n, prev : 0 .. n, d : Nat]
           base == [curr |-> n, prev |-> n, d |-> 1]
           Is(w, i) == /\ w.curr <= w.prev /\ key < v[w.prev + 1].key
                       /\ w.curr > 0 => 1 <= w.d /\ w.d <= w.curr
                       /\ Stopped(w) \/ w.curr <= n - i
                       /\ w.curr < w.prev \/ w.curr = n
           A == [i \in 0 .. n |-> {w \in W : Is(w, i)}]
           step == [a \in W \X (1 .. n) |-> Back(v, key, a[1])]
           F == CHOOSE f : f = [i \in 0 .. Len(v) - 1 |->
                                   IF i = 0 THEN [curr |-> Len(v) - 1, prev |-> Len(v) - 1, d |-> 1]
                                   ELSE Back(v, key, f[i - 1])]
<1>0. Len(v) - 1 = n
  OBVIOUS
<1>1. base \in W /\ Is(base, 0)
  OBVIOUS
<1>2. ASSUME NEW i \in 1 .. n, NEW w \in W, Is(w, i - 1)
      PROVE  Back(v, key, w) \in W /\ Is(Back(v, key, w), i)
  <2> DEFINE c == w.curr - w.d
             u == [curr |-> c, prev |-> w.curr, d |-> IF 2 * w.d > c THEN c ELSE 2 * w.d]
  <2>0. w.curr \in 0 .. n /\ w.prev \in 0 .. n /\ w.d \in Nat /\ v[w.curr + 1].key \in Int
    <3>1. w.curr \in 0 .. n /\ w.prev \in 0 .. n /\ w.d \in Nat
      OBVIOUS
    <3>2. w.curr + 1 \in 1 .. n + 1
      BY <3>1
    <3> QED
      BY <3>1, <3>2
  <2>1. CASE w.curr > 0 /\ v[w.curr + 1].key > key
    <3>1. Back(v, key, w) = u
      BY <2>1 DEF Back
    <3>2. ~ Stopped(w)
      BY <2>0, <2>1
    <3>3. w.curr <= n - (i - 1) /\ 1 <= w.d /\ w.d <= w.curr
      BY <1>2, <2>1, <3>2
    <3> HIDE DEF Stopped
    <3>4. c \in 0 .. n /\ c < w.curr /\ c <= n - i
      BY <2>0, <3>3
    <3>5. u \in W /\ (c > 0 => 1 <= u.d /\ u.d <= c)
      <4> DEFINE d == IF 2 * w.d > c THEN c ELSE 2 * w.d
      <4>1. d \in Nat /\ (c > 0 => 1 <= d /\ d <= c)
        <5>1. \A x \in Nat : 1 <= x => 2 * x \in Nat /\ 1 <= 2 * x
          OBVIOUS
        <5>2. w.d \in Nat /\ 1 <= w.d /\ c \in Nat
          BY <2>0, <3>3, <3>4
        <5> HIDE DEF c
        <5> QED
          BY <5>1, <5>2
      <4>2. u = [curr |-> c, prev |-> w.curr, d |-> d]
        OBVIOUS
      <4>3. u.d = d
        BY <4>2
      <4>4. u \in W
        <5> HIDE DEF c, d, u
        <5> QED
          BY <2>0, <3>4, <4>1, <4>2
      <4> HIDE DEF c, d, u
      <4> QED
        BY <4>1, <4>3, <4>4
    <3>6. u.curr = c /\ u.prev = w.curr
      OBVIOUS
    <3>7. Is(u, i)
      <4> HIDE DEF u
      <4> QED
        BY <2>0, <2>1, <3>4, <3>5, <3>6
    <3> QED
      BY <3>1, <3>5, <3>7
  <2>2. CASE ~ (w.curr > 0 /\ v[w.curr + 1].key > key)
    <3>1. Back(v, key, w) = w
      BY <2>2 DEF Back
    <3>2. Stopped(w)
      BY <2>0, <2>2
    <3> QED
      BY <1>2, <3>1, <3>2
  <2> QED
    BY <2>1, <2>2
<1> HIDE DEF Is, F
<1>3. base \in A[0]
  BY <1>1
<1>5. Leads(n, A, step)
  <2>1. ASSUME NEW i \in 1 .. n, NEW w \in A[i - 1] PROVE step[<<w, i>>] \in A[i]
    <3>1. i - 1 \in 0 .. n /\ i \in 0 .. n
      OBVIOUS
    <3>2. w \in W /\ Is(w, i - 1)
      BY <3>1
    <3>3. step[<<w, i>>] = Back(v, key, w)
      <4> HIDE DEF W
      <4> QED
        BY <3>2
    <3>4. Back(v, key, w) \in W /\ Is(Back(v, key, w), i)
      BY <1>2, <3>2
    <3> HIDE DEF W, step
    <3> QED
      BY <3>1, <3>3, <3>4
  <2> QED
    BY <2>1 DEF Leads
<1>6. PICK f : Runs(f, n, base, step) /\ \A i \in 0 .. n : f[i] \in A[i]
  <2> HIDE DEF A, step, base
  <2> QED
    BY <1>3, <1>5, LoopExists
<1>7. f = [i \in 0 .. n |-> IF i = 0 THEN base ELSE step[<<f[i - 1], i>>]]
  BY <1>6 DEF Runs
<1>8. f = [i \in 0 .. n |-> IF i = 0 THEN base ELSE Back(v, key, f[i - 1])]
  <2>1. ASSUME NEW i \in 0 .. n
        PROVE  f[i] = IF i = 0 THEN base ELSE Back(v, key, f[i - 1])
    <3>1. CASE i = 0
      <4> HIDE DEF step
      <4> QED
        BY <1>7, <3>1
    <3>2. CASE i # 0
      <4>1. i \in 1 .. n /\ i - 1 \in 0 .. n
        BY <3>2
      <4>2. f[i - 1] \in W
        BY <1>6, <4>1
      <4>3. f[i] = step[<<f[i - 1], i>>]
        <5> HIDE DEF step
        <5> QED
          BY <1>7, <3>2
      <4>4. step[<<f[i - 1], i>>] = Back(v, key, f[i - 1])
        <5> HIDE DEF W
        <5> QED
          BY <4>1, <4>2
      <4> QED
        BY <3>2, <4>3, <4>4
    <3> QED
      BY <3>1, <3>2
  <2>2. f = [i \in 0 .. n |-> f[i]]
    <3> HIDE DEF step
    <3> QED
      BY <1>7
  <2> HIDE DEF base
  <2> QED
    BY <2>1, <2>2
<1>9. F = [i \in 0 .. n |-> IF i = 0 THEN base ELSE Back(v, key, F[i - 1])]
  BY <1>0, <1>8, Zenon DEF F
<1>10. \A i \in 0 .. n : F[i] \in A[i]
  <2>1. F[0] \in A[0]
    <3> HIDE DEF base, A
    <3> QED
      BY <1>3, <1>9
  <2>2. \A i \in 1 .. n : F[i - 1] \in A[i - 1] => F[i] \in A[i]
    <3>1. ASSUME NEW i \in 1 .. n, F[i - 1] \in A[i - 1] PROVE F[i] \in A[i]
      <4>1. i - 1 \in 0 .. n /\ i \in 0 .. n /\ i # 0
        OBVIOUS
      <4>2. F[i - 1] \in W /\ Is(F[i - 1], i - 1)
        BY <3>1, <4>1
      <4>3. F[i] = Back(v, key, F[i - 1])
        BY <1>9, <4>1
      <4>4. F[i] \in W /\ Is(F[i], i)
        <5> HIDE DEF W
        <5> QED
          BY <1>2, <4>2, <4>3
      <4> HIDE DEF W
      <4> QED
        BY <4>1, <4>4
    <3> QED
      BY <3>1
  <2> HIDE DEF A
  <2> QED
    BY <2>1, <2>2, LoopKeeps
<1> DEFINE w == F[Len(v) - 1]
<1>11. PositionOf(v, key) = IF w.curr < w.prev THEN LowerBound(v, w.curr, w.prev, key) ELSE w.curr
  BY Zenon DEF PositionOf, F
<1>12. w \in W /\ Is(w, n)
  BY <1>0, <1>10
<1> HIDE DEF w
<1>13. /\ w.curr \in 0 .. n /\ w.prev \in 0 .. n /\ w.curr <= w.prev
       /\ key < v[w.prev + 1].key
       /\ w.curr = 0 \/ v[w.curr + 1].key <= key
       /\ w.curr < w.prev \/ w.curr = n
  BY <1>12 DEF Is
<1>14. CASE w.curr < w.prev
  <2> DEFINE p == LowerBound(v, w.curr, w.prev, key)
  <2>1. \A i \in w.curr .. w.prev - 1 : v[i + 1].key \in Int
    BY <1>13
  <2>2. w.curr \in Nat /\ w.prev \in Nat
    BY <1>13
  <2>3. /\ p \in w.curr .. w.prev
        /\ p = w.prev \/ key <= v[p + 1].key
        /\ \A j \in w.curr .. p - 1 : v[j + 1].key < key
    BY <1>13, <2>1, <2>2, LowerBoundIs
  <2> HIDE DEF p
  <2>4. p \in 0 .. n /\ key <= v[p + 1].key
    BY <1>13, <2>3
  <2>5. ASSUME NEW j \in 1 .. p PROVE v[j].key <= key
    <3>1. j \in 1 .. Len(v) /\ v[j].key \in Int
      BY <2>4
    <3>2. CASE j - 1 >= w.curr
      <4>1. j - 1 \in w.curr .. p - 1 /\ (j - 1) + 1 = j
        BY <1>13, <2>4, <3>2
      <4> QED
        BY <2>3, <3>1, <4>1
    <3>3. CASE j - 1 < w.curr
      <4>1. w.curr + 1 \in 1 .. Len(v) /\ j <= w.curr + 1 /\ w.curr # 0
        BY <1>13, <3>3
      <4>2. v[j].key <= v[w.curr + 1].key
        BY <3>1, <4>1 DEF Ascending
      <4> QED
        BY <1>13, <3>1, <4>1, <4>2
    <3> QED
      BY <1>13, <3>2, <3>3
  <2>6. PositionOf(v, key) = p
    BY <1>11, <1>14 DEF p
  <2> QED
    BY <2>4, <2>5, <2>6
<1>15. CASE ~ (w.curr < w.prev)
  <2>1. w.curr = n /\ w.prev = n
    BY <1>13, <1>15
  <2>2. n = 0
    BY <1>13, <2>1
  <2>3. PositionOf(v, key) = 0
    BY <1>11, <1>15, <2>1, <2>2
  <2>4. key <= v[0 + 1].key
    BY <2>2
  <2> QED
    BY <2>2, <2>3, <2>4
<1> QED
  BY <1>14, <1>15

\* What an array of a capacity becomes when it takes the items of a set: what is
\* left out is not closer than anything that is kept, and then the array is full;
\* a full array does not reach farther than before.
Takes(v, cap, new, w, D) ==
    /\ Array(w, D) /\ Len(v) <= Len(w) /\ Len(w) <= cap
    /\ Contents(w) \subseteq Contents(v) \cup new
    /\ \A y \in (Contents(v) \cup new) \ Contents(w) :
           Len(w) = cap /\ \A i \in 1 .. Len(w) : w[i].key <= y.key
    /\ Len(v) = cap => \A i \in 1 .. Len(w) : w[i].key <= v[Len(v)].key

\* The first items of a sorted array are a sorted array.
LEMMA FrontIs ==
    ASSUME NEW D, NEW v, Array(v, D), NEW n \in 0 .. Len(v)
    PROVE  LET w == SubSeq(v, 1, n)
           IN  Array(w, D) /\ Len(w) = n /\ \A i \in 1 .. n : w[i] = v[i]
<1> DEFINE w == SubSeq(v, 1, n)
<1>1. v \in Seq(Items(D)) /\ Len(v) \in Nat
  BY LenProperties DEF Array
<1>2. w \in Seq(Items(D)) /\ Len(w) = n /\ \A i \in 1 .. n : w[i] = v[i]
  BY <1>1, SubSeqProperties
<1> HIDE DEF w
<1>3. \A i \in 1 .. n : i \in 1 .. Len(v)
  BY <1>1
<1>4. Ascending(w) /\ DataOnce(w)
  BY <1>2, <1>3 DEF Array, Ascending, DataOnce
<1> QED
  BY <1>2, <1>4 DEF Array, w

Without(v, data) == \A i \in 1 .. Len(v) : v[i].data # data
SameUpTo(v, w, at) == at \in 0 .. Len(v) /\ \A i \in 1 .. at : w[i] = v[i]

\* push_or_replace_non_empty_exp keeps the closest items, and those before the
\* position it returns stay where they are.
THEOREM PushOrReplaceIs ==
    ASSUME NEW D, NEW v, Array(v, D), NEW cap \in Nat, 1 <= Len(v), Len(v) <= cap,
           NEW key \in Int, NEW data \in D, Without(v, data),
           NEW b, b = PushOrReplace(v, cap, key, data)
    PROVE  Takes(v, cap, {Item(key, data)}, b.v, D) /\ SameUpTo(v, b.v, b.at)
<1> DEFINE x == Item(key, data)
           at == IF v[Len(v)].key <= key THEN Len(v) ELSE PositionOf(v, key)
           longer == InsertAt(v, at + 1, x)
           w == IF at = cap THEN v ELSE SubSeq(longer, 1, IF Len(longer) > cap THEN cap ELSE Len(longer))
<1>1. Len(v) \in Nat /\ v \in Seq(Items(D)) /\ \A i \in 1 .. Len(v) : v[i] \in Items(D)
  BY LenProperties, ElementOfSeq DEF Array
<1>2. \A i \in 1 .. Len(v) : v[i].key \in Int
  BY <1>1 DEF Items
<1>3. x \in Items(D) /\ x.key = key /\ x.data = data
  BY DEF Item, Items
<1>4. PushOrReplace(v, cap, key, data) = [v |-> w, at |-> at]
  BY Zenon DEF PushOrReplace
<1> HIDE DEF x
<1>5. /\ at \in 0 .. Len(v) /\ (at = Len(v) \/ key <= v[at + 1].key)
      /\ \A j \in 1 .. at : v[j].key <= key
  <2>1. CASE v[Len(v)].key <= key
    <3>1. at = Len(v)
      BY <2>1
    <3>2. ASSUME NEW j \in 1 .. Len(v) PROVE v[j].key <= key
      <4>1. v[j].key <= v[Len(v)].key
        BY <1>1 DEF Array, Ascending
      <4>2. v[j].key \in Int /\ v[Len(v)].key \in Int
        BY <1>1, <1>2
      <4> QED
        BY <2>1, <4>1, <4>2
    <3> HIDE DEF at
    <3> QED
      BY <1>1, <3>1, <3>2
  <2>2. CASE ~ (v[Len(v)].key <= key)
    <3> DEFINE n == Len(v) - 1
    <3>1. n \in Nat /\ Len(v) = n + 1
      BY <1>1
    <3>2. v[Len(v)].key \in Int
      BY <1>1, <1>2
    <3>3. key < v[n + 1].key
      BY <2>2, <3>1, <3>2
    <3>4. Ascending(v) /\ \A i \in 1 .. n + 1 : v[i].key \in Int
      BY <1>2, <3>1 DEF Array
    <3> HIDE DEF n
    <3>5. LET p == PositionOf(v, key)
          IN  /\ p \in 0 .. n /\ key <= v[p + 1].key
              /\ \A j \in 1 .. p : v[j].key <= key
      BY <3>1, <3>3, <3>4, PositionOfIs
    <3>6. at = PositionOf(v, key)
      BY <2>2
    <3> HIDE DEF at
    <3> QED
      BY <3>1, <3>5, <3>6
  <2> QED
    BY <2>1, <2>2
<1> HIDE DEF at
<1>6. CASE at = cap
  <2>1. w = v /\ at = Len(v) /\ Len(v) = cap
    BY <1>1, <1>5, <1>6
  <2>2. Takes(v, cap, {x}, v, D)
    <3>1. \A i \in 1 .. Len(v) : v[i].key <= v[Len(v)].key
      BY <1>1 DEF Array, Ascending
    <3> QED
      BY <1>1, <1>3, <1>5, <2>1, <3>1 DEF Takes, Contents
  <2> HIDE DEF w
  <2> QED
    BY <1>4, <1>5, <2>1, <2>2 DEF x, SameUpTo
<1>7. CASE at # cap
  <2>1. /\ Array(longer, D) /\ Len(longer) = Len(v) + 1
        /\ Contents(longer) = Contents(v) \cup {x}
        /\ \A i \in 1 .. at : longer[i] = v[i]
    <3>1. x \in Items(D) /\ \A i \in 1 .. Len(v) : v[i].data # x.data
      BY <1>3 DEF Without
    <3>2. \A i \in 1 .. at : v[i].key <= x.key
      BY <1>3, <1>5
    <3>3. at = Len(v) \/ x.key <= v[at + 1].key
      BY <1>3, <1>5
    <3> QED
      BY <1>5, <3>1, <3>2, <3>3, InsertKeepsArray
  <2> DEFINE n == IF Len(longer) > cap THEN cap ELSE Len(longer)
  <2>2. w = SubSeq(longer, 1, n)
    BY <1>7
  <2> HIDE DEF longer, w
  <2>3. n \in 0 .. Len(longer) /\ at <= n /\ Len(v) <= n /\ n <= cap
    BY <1>1, <1>5, <1>7, <2>1
  <2>4. n < Len(longer) => n = cap /\ Len(longer) = n + 1
    BY <1>1, <2>1
  <2> HIDE DEF n
  <2>5. Array(w, D) /\ Len(w) = n /\ \A i \in 1 .. n : w[i] = longer[i]
    BY <2>1, <2>2, <2>3, FrontIs
  <2>6. Len(longer) \in Nat /\ \A i \in 1 .. n : i \in 1 .. Len(longer)
    BY <1>1, <2>1, <2>3
  <2>7. Contents(w) \subseteq Contents(longer)
    BY <2>5, <2>6 DEF Contents
  <2>8. ASSUME NEW y \in Contents(longer), y \notin Contents(w)
        PROVE  Len(w) = cap /\ \A i \in 1 .. Len(w) : w[i].key <= y.key
    <3>1. PICK j \in 1 .. Len(longer) : y = longer[j]
      BY DEF Contents
    <3>2. j \notin 1 .. n
      BY <2>5, <2>8, <3>1 DEF Contents
    <3>3. n < j
      BY <2>3, <2>6, <3>2
    <3>4. n < Len(longer)
      BY <2>3, <2>6, <3>3
    <3>5. \A i \in 1 .. n : i <= j
      BY <2>3, <2>6, <3>3
    <3>6. \A i \in 1 .. n : longer[i].key <= longer[j].key
      BY <2>1, <2>6, <3>5 DEF Array, Ascending
    <3> QED
      BY <2>4, <2>5, <3>1, <3>4, <3>6
  <2>9. Takes(v, cap, {x}, w, D)
    <3>1. Contents(w) \subseteq Contents(v) \cup {x}
      BY <2>1, <2>7
    <3>2. Len(v) <= Len(w) /\ Len(w) <= cap
      BY <2>3, <2>5
    <3>3. ASSUME Len(v) = cap, NEW i \in 1 .. Len(w) PROVE w[i].key <= v[Len(v)].key
      <4>1. at \in 0 .. Len(v) - 1 /\ key <= v[at + 1].key
        BY <1>1, <1>5, <1>7, <3>3
      <4>2. \A j \in 1 .. Len(v) : v[j].key <= v[Len(v)].key
        BY <1>1 DEF Array, Ascending
      <4>3. x.key <= v[Len(v)].key
        <5>1. at + 1 \in 1 .. Len(v) /\ Len(v) \in 1 .. Len(v)
          BY <1>1, <4>1
        <5> QED
          BY <1>2, <1>3, <4>1, <4>2, <5>1
      <4>4. w[i] \in Contents(w)
        BY DEF Contents
      <4> QED
        BY <3>1, <4>2, <4>3, <4>4 DEF Contents
    <3> QED
      BY <2>1, <2>5, <2>8, <3>1, <3>2, <3>3 DEF Takes
  <2>10. \A i \in 1 .. at : w[i] = v[i]
    <3>1. \A i \in 1 .. at : i \in 1 .. n
      BY <1>5, <2>3
    <3> QED
      BY <2>1, <2>5, <3>1
  <2> QED
    BY <1>4, <1>5, <2>9, <2>10 DEF x, SameUpTo
<1> QED
  BY <1>6, <1>7

\* merge_with_sorted_items keeps the closest items of both, and returns the
\* position of the first one that was not used.
THEOREM MergeWithSortedIs ==
    ASSUME NEW D, NEW v, Array(v, D), NEW cap \in Nat, 1 <= Len(v), Len(v) <= cap,
           NEW items, Array(items, D), Apart(v, items)
    PROVE  LET b == MergeWithSorted(v, cap, items)
           IN  Takes(v, cap, Contents(items), b.v, D) /\ IsFirstUnused(b.v, b.at)
<1> DEFINE qty == IF Len(items) > cap THEN cap ELSE Len(items)
           left == cap - Len(v)
           replaces(r) == /\ qty > left + r
                          /\ Len(v) > r
                          /\ items[left + r + 1].key < v[Len(v) - r].key
           removed == CHOOSE r \in 0 .. Len(v) :
                          ~ replaces(r) /\ \A p \in 0 .. r - 1 : replaces(p)
           taken == IF left >= qty THEN qty ELSE left + removed
           kept == SubSeq(v, 1, Len(v) - removed)
           added == SubSeq(items, 1, taken)
           w == Merged(kept, added)
<1>1. MergeWithSorted(v, cap, items) = [v |-> w, at |-> FirstUnused(w)]
  BY Zenon DEF MergeWithSorted
<1>2. /\ Len(v) \in Nat /\ \A i \in 1 .. Len(v) : v[i] \in Items(D)
      /\ Len(items) \in Nat /\ \A i \in 1 .. Len(items) : items[i] \in Items(D)
  BY LenProperties, ElementOfSeq DEF Array
<1>3. /\ \A i \in 1 .. Len(v) : v[i].key \in Int
      /\ \A i \in 1 .. Len(items) : items[i].key \in Int
  BY <1>2 DEF Items
<1>4. left \in Nat /\ left + Len(v) = cap /\ qty \in 0 .. Len(items) /\ qty <= cap
  BY <1>2
<1>5. removed \in 0 .. Len(v) /\ ~ replaces(removed) /\ \A p \in 0 .. removed - 1 : replaces(p)
  <2> DEFINE Stops == {r \in 0 .. Len(v) : ~ replaces(r)}
             Is(r) == ~ replaces(r) /\ \A p \in 0 .. r - 1 : replaces(p)
  <2>1. Len(v) \in Stops /\ Stops \subseteq Nat
    BY <1>2
  <2>2. PICK r \in Stops : \A p \in Stops : r <= p
    <3> HIDE DEF Stops
    <3> QED
      BY <2>1, LeastExists
  <2> HIDE DEF replaces
  <2>3. \A p \in 0 .. r - 1 : p \in 0 .. Len(v) /\ ~ (r <= p)
    BY <1>2, <2>2
  <2>4. r \in 0 .. Len(v) /\ Is(r)
    BY <2>2, <2>3
  <2> HIDE DEF Is
  <2>5. \E x \in 0 .. Len(v) : Is(x)
    BY <2>4
  <2>6. removed \in 0 .. Len(v) /\ Is(removed)
    <3>1. removed = CHOOSE x \in 0 .. Len(v) : Is(x)
      BY DEF Is
    <3> HIDE DEF removed
    <3> QED
      BY <2>5, <3>1
  <2> HIDE DEF removed
  <2> QED
    BY <2>6 DEF Is
<1> HIDE DEF removed
<1> DEFINE rest == Len(v) - removed
<1>6. /\ rest \in 0 .. Len(v) /\ taken \in 0 .. Len(items)
      /\ taken > left => v[rest + 1].key > items[taken].key
      /\ removed > 0 => taken = left + removed /\ taken > left
      /\ rest + taken <= cap /\ Len(v) <= rest + taken
      /\ taken < Len(items) => rest + taken = cap
  <2>1. CASE left >= qty
    <3>1. removed = 0
      <4>1. SUFFICES ASSUME removed > 0 PROVE FALSE
        BY <1>5
      <4>2. replaces(0)
        BY <1>5, <4>1, SMTT(30)
      <4> QED
        BY <1>4, <2>1, <4>2, SMTT(30)
    <3> HIDE DEF replaces
    <3> QED
      BY <1>2, <1>4, <2>1, <3>1
  <2>2. CASE left < qty
    <3>1. taken = left + removed
      BY <1>4, <2>2
    <3>2. CASE removed = 0
      <4> HIDE DEF replaces
      <4> QED
        BY <1>2, <1>4, <2>2, <3>1, <3>2
    <3>3. CASE removed > 0
      <4> DEFINE p == removed - 1
      <4>1. p \in 0 .. removed - 1
        BY <1>5, <3>3
      <4>2. replaces(p)
        BY <1>5, <4>1
      <4>3. qty > left + p /\ items[left + p + 1].key < v[Len(v) - p].key
        BY <4>2
      <4>4. left + p + 1 = taken /\ Len(v) - p = rest + 1
        BY <1>2, <1>4, <1>5, <3>1
      <4>5. taken \in 1 .. Len(items) /\ rest + 1 \in 1 .. Len(v)
        BY <1>2, <1>4, <1>5, <3>1, <3>3, <4>3, SMTT(30)
      <4>6. v[rest + 1].key > items[taken].key
        BY <1>3, <4>3, <4>4, <4>5
      <4> HIDE DEF replaces
      <4> QED
        BY <1>2, <1>4, <1>5, <3>1, <3>3, <4>5, <4>6
    <3> QED
      BY <1>5, <3>2, <3>3
  <2> QED
    BY <1>4, <2>1, <2>2
<1>7. taken < Len(items) /\ rest > 0 => v[rest].key <= items[taken + 1].key
  <2>1. SUFFICES ASSUME taken < Len(items), rest > 0 PROVE v[rest].key <= items[taken + 1].key
    OBVIOUS
  <2>2. qty > left \/ Len(items) = qty \/ qty = cap
    BY <1>2
  <2>3. left < qty
    BY <1>2, <1>4, <1>5, <1>6, <2>1
  <2>4. taken = left + removed
    BY <1>4, <2>3
  <2>5. qty > left + removed
    BY <1>2, <1>4, <1>5, <2>1, <2>4
  <2>6. Len(v) > removed
    BY <1>2, <1>5, <2>1
  <2>7. ~ (items[left + removed + 1].key < v[Len(v) - removed].key)
    BY <1>5, <2>5, <2>6
  <2>8. left + removed + 1 \in 1 .. Len(items) /\ Len(v) - removed \in 1 .. Len(v)
    BY <1>2, <1>4, <1>5, <2>1, <2>4, <2>6
  <2> QED
    BY <1>3, <2>4, <2>7, <2>8
<1>8. Array(kept, D) /\ Len(kept) = rest /\ \A i \in 1 .. rest : kept[i] = v[i]
  <2> HIDE DEF replaces, taken
  <2> QED
    BY <1>6, FrontIs
<1>9. Array(added, D) /\ Len(added) = taken /\ \A i \in 1 .. taken : added[i] = items[i]
  <2> HIDE DEF replaces, taken, rest
  <2> QED
    BY <1>6, FrontIs
<1> HIDE DEF replaces, taken, kept, added, qty, left
<1>10. \A i \in 1 .. rest : i \in 1 .. Len(v)
  BY <1>2, <1>6
<1>11. \A i \in 1 .. taken : i \in 1 .. Len(items)
  BY <1>2, <1>6
<1>12. Apart(kept, added)
  BY <1>8, <1>9, <1>10, <1>11 DEF Apart
<1>13. /\ Array(w, D) /\ Len(w) = Len(kept) + Len(added)
       /\ Contents(w) = Contents(kept) \cup Contents(added)
  <2>1. added \in Seq(Items(D)) /\ DataOnce(added)
    BY <1>9 DEF Array
  <2> QED
    BY <1>8, <1>12, <2>1, MergedIs
<1> HIDE DEF w
<1>14. Contents(kept) \subseteq Contents(v) /\ Contents(added) \subseteq Contents(items)
  BY <1>8, <1>9, <1>10, <1>11 DEF Contents
<1>15. Len(w) = rest + taken
  BY <1>8, <1>9, <1>13
<1>16. Len(w) \in Nat /\ \A i \in 1 .. Len(w) : w[i] \in Contents(kept) \cup Contents(added)
  <2>1. \A i \in 1 .. Len(w) : w[i] \in Contents(w)
    BY DEF Contents
  <2> QED
    BY <1>2, <1>6, <1>13, <1>15, <2>1
<1> DEFINE Beyond(y) == Len(w) = cap /\ \A i \in 1 .. Len(w) : w[i].key <= y.key
<1>17. ASSUME NEW j \in 1 .. Len(v), v[j] \notin Contents(w)
       PROVE  Beyond(v[j])
  <2>1. j \notin 1 .. rest
    BY <1>8, <1>13, <1>17 DEF Contents
  <2>2. rest < j
    BY <1>2, <1>6, <2>1
  <2>3. removed > 0
    BY <1>2, <1>6, <1>5, <2>2
  <2>4. Len(w) = cap
    <3>1. taken = left + removed
      BY <1>6, <2>3
    <3>2. left \in Nat /\ removed \in Nat /\ Len(v) \in Nat /\ left + Len(v) = cap
      BY <1>2, <1>4, <1>5
    <3> QED
      BY <1>15, <3>1, <3>2
  <2>5. rest + 1 \in 1 .. Len(v) /\ v[rest + 1].key <= v[j].key
    <3>1. rest + 1 \in 1 .. Len(v) /\ rest + 1 <= j
      BY <1>2, <1>6, <2>2
    <3> QED
      BY <3>1 DEF Array, Ascending
  <2>6. ASSUME NEW i \in 1 .. Len(w) PROVE w[i].key <= v[j].key
    <3>1. CASE w[i] \in Contents(kept)
      <4>1. PICK k \in 1 .. rest : w[i] = v[k]
        BY <1>8, <3>1 DEF Contents
      <4>2. k \in 1 .. Len(v) /\ k <= j
        BY <1>2, <1>6, <1>10, <2>2, <4>1
      <4> QED
        BY <4>1, <4>2 DEF Array, Ascending
    <3>2. CASE w[i] \in Contents(added)
      <4>1. PICK k \in 1 .. taken : w[i] = items[k]
        BY <1>9, <3>2 DEF Contents
      <4>2. k \in 1 .. Len(items) /\ taken \in 1 .. Len(items) /\ k <= taken
        BY <1>2, <1>6, <1>11, <4>1
      <4>3. items[k].key <= items[taken].key
        BY <4>2 DEF Array, Ascending
      <4>4. items[taken].key < v[rest + 1].key
        BY <1>3, <1>6, <2>3, <2>5, <4>2
      <4>5. items[k].key \in Int /\ items[taken].key \in Int /\ v[rest + 1].key \in Int /\ v[j].key \in Int
        BY <1>3, <2>5, <4>2
      <4> HIDE DEF rest
      <4> QED
        BY <2>5, <4>1, <4>3, <4>4, <4>5, SMTT(30)
    <3> QED
      BY <1>16, <3>1, <3>2
  <2> QED
    BY <2>4, <2>6
<1>18. ASSUME NEW j \in 1 .. Len(items), items[j] \notin Contents(w)
       PROVE  Beyond(items[j])
  <2>1. j \notin 1 .. taken
    BY <1>9, <1>13, <1>18 DEF Contents
  <2>2. taken < j /\ taken < Len(items)
    BY <1>2, <1>6, <2>1
  <2>3. Len(w) = cap
    BY <1>6, <1>15, <2>2
  <2>4. taken + 1 \in 1 .. Len(items) /\ items[taken + 1].key <= items[j].key
    <3>1. taken + 1 \in 1 .. Len(items) /\ taken + 1 <= j
      BY <1>2, <1>6, <2>2
    <3> QED
      BY <3>1 DEF Array, Ascending
  <2>5. ASSUME NEW i \in 1 .. Len(w) PROVE w[i].key <= items[j].key
    <3>1. CASE w[i] \in Contents(added)
      <4>1. PICK k \in 1 .. taken : w[i] = items[k]
        BY <1>9, <3>1 DEF Contents
      <4>2. k \in 1 .. Len(items) /\ k <= j
        BY <1>2, <1>6, <1>11, <2>2, <4>1
      <4> QED
        BY <4>1, <4>2 DEF Array, Ascending
    <3>2. CASE w[i] \in Contents(kept)
      <4>1. PICK k \in 1 .. rest : w[i] = v[k]
        BY <1>8, <3>2 DEF Contents
      <4>2. k \in 1 .. Len(v) /\ rest \in 1 .. Len(v) /\ k <= rest /\ rest > 0
        BY <1>2, <1>6, <1>10, <4>1
      <4>3. v[k].key <= v[rest].key
        <5> HIDE DEF rest
        <5> QED
          BY <4>2 DEF Array, Ascending
      <4>4. v[rest].key <= items[taken + 1].key
        BY <1>7, <2>2, <4>2
      <4>5. v[k].key \in Int /\ v[rest].key \in Int /\ items[taken + 1].key \in Int /\ items[j].key \in Int
        BY <1>3, <2>4, <4>2
      <4> HIDE DEF rest
      <4> QED
        BY <2>4, <4>1, <4>3, <4>4, <4>5, SMTT(30)
    <3> QED
      BY <1>16, <3>1, <3>2
  <2> QED
    BY <2>3, <2>5
<1>19. \A y \in Contents(v) \cup Contents(items) : y \notin Contents(w) => Beyond(y)
  <2> HIDE DEF Beyond
  <2> QED
    BY <1>17, <1>18 DEF Contents
<1>20. Takes(v, cap, Contents(items), w, D)
  <2>1. Len(v) <= Len(w) /\ Len(w) <= cap
    BY <1>6, <1>15
  <2>2. Contents(w) \subseteq Contents(v) \cup Contents(items)
    BY <1>13, <1>14
  <2>3. ASSUME Len(v) = cap, NEW i \in 1 .. Len(w) PROVE w[i].key <= v[Len(v)].key
    <3>1. \A j \in 1 .. Len(v) : v[j].key <= v[Len(v)].key
      BY <1>2 DEF Array, Ascending
    <3>2. CASE w[i] \in Contents(kept)
      BY <1>14, <3>1, <3>2 DEF Contents
    <3>3. CASE w[i] \in Contents(added)
      <4>1. PICK k \in 1 .. taken : w[i] = items[k]
        BY <1>9, <3>3 DEF Contents
      <4>2. k \in 1 .. Len(items) /\ taken \in 1 .. Len(items) /\ k <= taken /\ taken > left
        BY <1>2, <1>4, <1>6, <1>11, <2>3, <4>1
      <4>3. rest + 1 \in 1 .. Len(v) /\ Len(v) \in 1 .. Len(v)
        BY <1>2, <1>6, <2>3, <4>2
      <4>4. items[k].key <= items[taken].key
        BY <4>2 DEF Array, Ascending
      <4>5. v[rest + 1].key > items[taken].key /\ v[rest + 1].key <= v[Len(v)].key
        BY <1>6, <3>1, <4>2, <4>3
      <4>6. /\ items[k].key \in Int /\ items[taken].key \in Int
            /\ v[rest + 1].key \in Int /\ v[Len(v)].key \in Int
        BY <1>3, <4>2, <4>3
      <4> HIDE DEF rest
      <4> QED
        BY <4>1, <4>4, <4>5, <4>6
    <3> QED
      BY <1>16, <3>2, <3>3
  <2> QED
    BY <1>13, <1>19, <2>1, <2>2, <2>3 DEF Takes
<1>21. IsFirstUnused(w, FirstUnused(w))
  BY <1>16, FirstUnusedIs
<1> QED
  BY <1>1, <1>20, <1>21

-----------------------------------------------------------------------------

\* The counter is the number of handlers that serve.
Counts == counter = Cardinality(Serving)

\* The mutex is held only while parameters are set, and nobody serves then.
Held ==
    /\ mtx = Nobody <=> setter \notin {"setting", "half"}
    /\ mtx # Nobody => Serving = {}

\* Searches belong to handlers that serve.
Owned ==
    /\ DOMAIN search = Searches
    /\ \A h \in Handlers, i \in Slots :
           search[<<h, i>>].pc # "unused" => handler[h] = "serving"

ServerInv == handler \in [Handlers -> {"idle", "serving"}] /\ Counts /\ Held /\ Owned

\* The steps of a search: they change one search that was begun by a handler.
LEMMA SearchFrame ==
    ASSUME NEW s \in Searches, Search(s)
    PROVE  /\ UNCHANGED <<lock, handler>>
           /\ search[s].pc # "unused"
           /\ DOMAIN search = Searches =>
                  /\ DOMAIN search' = Searches
                  /\ \A t \in Searches \ {s} : search'[t] = search[t]
<1>1. CASE Throw(s)
  BY <1>1 DEF Throw
<1>2. CASE Start(s)
  <2>1. search[s].pc # "unused" /\ UNCHANGED <<lock, handler>>
    BY <1>2 DEF Start
  <2>2. PICK x : search' = [search EXCEPT ![s] = x]
    BY <1>2 DEF Start
  <2> QED
    BY <2>1, <2>2
<1>3. CASE Descend(s)
  <2>1. search[s].pc # "unused" /\ UNCHANGED <<lock, handler>>
    BY <1>3 DEF Descend
  <2>2. PICK x : search' = [search EXCEPT ![s] = x]
    BY <1>3 DEF Descend
  <2> QED
    BY <2>1, <2>2
<1> DEFINE Moves == \E x : search' = [search EXCEPT ![s] = x]
<1>4. ASSUME NEW to, NEW new, GoOn(s, to, new)
      PROVE  Moves
  BY <1>4 DEF GoOn
<1>5. ASSUME NEW result, Finish(s, result)
      PROVE  Moves /\ UNCHANGED <<lock, handler>>
  BY <1>5 DEF Finish
<1>6. CASE Enter(s)
  <2>1. search[s].pc # "unused" /\ UNCHANGED <<lock, handler>>
    BY <1>6 DEF Enter
  <2>2. Moves
    BY <1>4, <1>6, Zenon DEF Enter
  <2> QED
    BY <2>1, <2>2
<1>7. CASE ExpandOld(s)
  <2>1. search[s].pc # "unused" /\ UNCHANGED <<lock, handler>>
    BY <1>7 DEF ExpandOld
  <2>2. Moves
    BY <1>4, <1>7, Zenon DEF ExpandOld
  <2> QED
    BY <2>1, <2>2
<1>8. CASE ExpandV1Merge(s)
  <2>1. search[s].pc # "unused" /\ UNCHANGED <<lock, handler>>
    BY <1>8 DEF ExpandV1Merge
  <2>2. Moves
    BY <1>4, <1>8, Zenon DEF ExpandV1Merge
  <2> QED
    BY <2>1, <2>2
<1>9. CASE FinishOld(s)
  <2>1. search[s].pc # "unused"
    BY <1>9 DEF FinishOld
  <2>2. Moves /\ UNCHANGED <<lock, handler>>
    BY <1>5, <1>9, Zenon DEF FinishOld
  <2> QED
    BY <2>1, <2>2
<1>10. CASE FinishV1Merge(s)
  <2>1. search[s].pc # "unused"
    BY <1>10 DEF FinishV1Merge
  <2>2. Moves /\ UNCHANGED <<lock, handler>>
    BY <1>5, <1>10, Zenon DEF FinishV1Merge
  <2> QED
    BY <2>1, <2>2
<1> QED
  BY <1>1, <1>2, <1>3, <1>6, <1>7, <1>8, <1>9, <1>10 DEF Search

\* At first nobody serves and the mutex is free.
LEMMA ServerInit == Init => ServerInv
<1> SUFFICES ASSUME Init PROVE ServerInv
  OBVIOUS
<1>1. handler = [h \in Handlers |-> "idle"] /\ search = [s \in Searches |-> Unused]
  BY DEF Init
<1>2. Serving = {}
  BY <1>1 DEF Serving
<1>3. Counts
  BY <1>2, FS_EmptySet DEF Counts, Init
<1>4. Held
  BY <1>2 DEF Held, Init
<1>5. Owned
  BY <1>1 DEF Owned, Searches, Unused
<1> QED
  BY <1>1, <1>3, <1>4, <1>5 DEF ServerInv

\* A handler that begins raises the counter, and the mutex is free.
LEMMA ArriveKeeps ==
    ASSUME ServerInv, NEW h \in Handlers, Arrive(h)
    PROVE  ServerInv'
<1>1. handler' = [handler EXCEPT ![h] = "serving"] /\ handler[h] = "idle"
  BY DEF Arrive
<1>2. Serving' = Serving \cup {h} /\ h \notin Serving /\ IsFiniteSet(Serving)
  <2>1. Serving' = Serving \cup {h} /\ h \notin Serving
    BY <1>1 DEF Serving, ServerInv
  <2>2. IsFiniteSet(Serving)
    BY HandlersAssumption, FS_Subset DEF Serving
  <2> QED
    BY <2>1, <2>2
<1>3. Counts'
  <2>1. Cardinality(Serving \cup {h}) = Cardinality(Serving) + 1
    BY <1>2, FS_AddElement
  <2> QED
    BY <1>2, <2>1 DEF Counts, ServerInv, Arrive
<1>4. Held'
  BY DEF Held, ServerInv, Arrive
<1>5. Owned'
  <2>1. PICK r \in Requests :
            search' = [s \in Searches |-> IF s[1] = h /\ s[2] \in DOMAIN r.queries
                                          THEN Waiting(r.queries[s[2]], r.k) ELSE search[s]]
    BY DEF Arrive
  <2>2. ASSUME NEW g \in Handlers, NEW i \in Slots, search'[<<g, i>>].pc # "unused"
        PROVE  handler'[g] = "serving"
    <3>1. CASE g = h
      BY <1>1, <3>1 DEF ServerInv
    <3>2. CASE g # h
      <4>1. search'[<<g, i>>] = search[<<g, i>>]
        BY <2>1, <3>2 DEF Searches
      <4> QED
        BY <1>1, <2>2, <3>2, <4>1 DEF ServerInv, Owned
    <3> QED
      BY <3>1, <3>2
  <2> QED
    BY <2>1, <2>2 DEF Owned
<1> QED
  BY <1>1, <1>3, <1>4, <1>5 DEF ServerInv

\* A handler that ends lowers the counter and takes its searches with it.
LEMMA LeaveKeeps ==
    ASSUME ServerInv, NEW h \in Handlers, Leave(h)
    PROVE  ServerInv'
<1>1. handler' = [handler EXCEPT ![h] = "idle"] /\ handler[h] = "serving"
  BY DEF Leave
<1>2. Serving' = Serving \ {h} /\ h \in Serving /\ IsFiniteSet(Serving)
  <2>1. Serving' = Serving \ {h} /\ h \in Serving
    BY <1>1 DEF Serving, ServerInv
  <2>2. IsFiniteSet(Serving)
    BY HandlersAssumption, FS_Subset DEF Serving
  <2> QED
    BY <2>1, <2>2
<1>3. Counts'
  <2>1. Cardinality(Serving \ {h}) = Cardinality(Serving) - 1
    BY <1>2, FS_RemoveElement
  <2> QED
    BY <1>2, <2>1 DEF Counts, ServerInv, Leave
<1>4. Held'
  BY DEF Held, ServerInv, Leave
<1>5. Owned'
  <2>1. search' = [s \in Searches |-> IF s[1] = h THEN Unused ELSE search[s]]
    BY DEF Leave
  <2>2. ASSUME NEW g \in Handlers, NEW i \in Slots, search'[<<g, i>>].pc # "unused"
        PROVE  handler'[g] = "serving"
    BY <1>1, <2>1, <2>2 DEF ServerInv, Owned, Searches, Unused
  <2> QED
    BY <2>1, <2>2 DEF Owned
<1> QED
  BY <1>1, <1>3, <1>4, <1>5 DEF ServerInv

\* A search runs only for a handler that serves already.
LEMMA SearchKeeps ==
    ASSUME ServerInv, NEW s \in Searches, Search(s)
    PROVE  ServerInv'
<1>1. UNCHANGED <<lock, handler>> /\ search[s].pc # "unused"
  BY SearchFrame
<1>2. DOMAIN search' = Searches /\ \A t \in Searches \ {s} : search'[t] = search[t]
  BY SearchFrame DEF ServerInv, Owned
<1>3. Owned'
  <2>1. ASSUME NEW g \in Handlers, NEW i \in Slots, search'[<<g, i>>].pc # "unused"
        PROVE  handler'[g] = "serving"
    <3>1. <<g, i>> \in Searches
      BY DEF Searches
    <3>2. search[<<g, i>>].pc # "unused"
      <4>1. CASE <<g, i>> = s
        BY <1>1, <4>1
      <4>2. CASE <<g, i>> # s
        BY <1>2, <2>1, <3>1, <4>2
      <4> QED
        BY <4>1, <4>2
    <3> QED
      BY <1>1, <3>2 DEF ServerInv, Owned
  <2> QED
    BY <1>2, <2>1 DEF Owned
<1> QED
  BY <1>1, <1>3 DEF ServerInv, Counts, Held, Serving, lock

\* The setter takes the mutex when the counter is zero: nobody serves then.
LEMMA FindZeroKeeps ==
    ASSUME ServerInv, FindZero
    PROVE  ServerInv'
<1>1. Serving = {}
  <2>1. IsFiniteSet(Serving)
    BY HandlersAssumption, FS_Subset DEF Serving
  <2>2. Cardinality(Serving) = 0
    BY DEF ServerInv, Counts, FindZero
  <2> QED
    BY <2>1, <2>2, FS_EmptySet
<1>2. Nobody # "setter"
  BY HandlersAssumption
<1> QED
  BY <1>1, <1>2 DEF FindZero, ServerInv, Counts, Held, Owned, Serving

\* Every step keeps the invariant.
LEMMA ServerStep == ServerInv /\ [Next]_vars => ServerInv'
<1> SUFFICES ASSUME ServerInv, [Next]_vars PROVE ServerInv'
  OBVIOUS
<1>1. CASE UNCHANGED vars
  BY <1>1 DEF vars, lock, ServerInv, Counts, Held, Owned, Serving
<1>2. ASSUME NEW h \in Handlers, Arrive(h) PROVE ServerInv'
  BY <1>2, ArriveKeeps
<1>3. ASSUME NEW h \in Handlers, Leave(h) PROVE ServerInv'
  BY <1>3, LeaveKeeps
<1>4. ASSUME NEW h \in Handlers, NEW s \in Jobs(h), Search(s) PROVE ServerInv'
  BY <1>4, SearchKeeps DEF Jobs
<1>5. CASE Ask
  BY <1>5 DEF Ask, ServerInv, Counts, Held, Owned, Serving
<1>6. CASE Retry
  BY <1>1, <1>6 DEF Retry
<1>7. CASE FindZero
  BY <1>7, FindZeroKeeps
<1>8. CASE SetEf
  BY <1>8 DEF SetEf, ServerInv, Counts, Held, Owned, Serving
<1>9. CASE SetAlgo
  BY <1>9 DEF SetAlgo, ServerInv, Counts, Held, Owned, Serving
<1>10. CASE Rest
  BY <1>1, <1>10 DEF Rest
<1> QED
  BY <1>1, <1>2, <1>3, <1>4, <1>5, <1>6, <1>7, <1>8, <1>9, <1>10 DEF Next, Setter

\* The counter is the number of the handlers that serve, the mutex is held
\* only by a handler that sets parameters: LockedCounterManager, lines 71-87.
THEOREM ServerInvariant == Spec => []ServerInv
<1>1. Init => ServerInv
  BY ServerInit
<1>2. ServerInv /\ [Next]_vars => ServerInv'
  BY ServerStep
<1> QED
  BY <1>1, <1>2, PTL DEF Spec

LEMMA ServerExcludes == ServerInv => Exclusion
<1> SUFFICES ASSUME ServerInv, setter \in {"setting", "half"}
             PROVE  Serving = {} /\ \A s \in Searches : search[s].pc \notin Begun
  BY DEF Exclusion
<1>1. Serving = {}
  BY DEF ServerInv, Held
<1>2. ASSUME NEW s \in Searches PROVE search[s].pc \notin Begun
  <2>1. PICK h \in Handlers, i \in Slots : s = <<h, i>>
    BY DEF Searches
  <2>2. handler[h] # "serving"
    BY <1>1 DEF Serving
  <2>3. search[s].pc = "unused"
    BY <2>1, <2>2 DEF ServerInv, Owned
  <2> QED
    BY <2>3 DEF Begun
<1> QED
  BY <1>1, <1>2

\* Parameters change only while no query runs, for any number of handlers:
\* the comment of lines 71-87, and 166-197.
THEOREM ParametersApart == Spec => []Exclusion
BY ServerExcludes, ServerInvariant, PTL

-----------------------------------------------------------------------------
(* The heaps of a search and the lists it reads.                           *)

LEMMA FarthestIs ==
    ASSUME NEW d, NEW R, IsFiniteSet(R), R # {}, \A x \in R : d[x] \in Int
    PROVE  Farthest(d, R) \in R /\ \A y \in R : d[y] <= d[Farthest(d, R)]
<1>1. \E x \in R : \A y \in R : d[y] <= d[x]
  BY GreatestValue
<1> QED
  BY <1>1 DEF Farthest

\* The three outcomes of CheckAndAddToResult.
LEMMA CheckAndAddIs ==
    ASSUME NEW d, NEW k \in Nat \ {0}, NEW R, IsFiniteSet(R), Cardinality(R) <= k,
           \A y \in R : d[y] \in Int, NEW x, d[x] \in Int, x \notin R,
           NEW Q, Q = CheckAndAdd(d, k, R, x)
    PROVE  /\ IsFiniteSet(Q)
           /\ \/ Cardinality(R) < k /\ Q = R \cup {x} /\ Cardinality(Q) = Cardinality(R) + 1
              \/ /\ Cardinality(R) = k /\ Cardinality(Q) = k
                 /\ \E f \in R : /\ \A y \in R : d[y] <= d[f]
                                 /\ d[x] < d[f] /\ Q = (R \ {f}) \cup {x}
              \/ Cardinality(R) = k /\ Q = R /\ \A y \in R : d[y] <= d[x]
<1>1. Cardinality(R) \in Nat
  BY FS_CardinalityType
<1>2. CASE Cardinality(R) < k
  <2>1. Q = R \cup {x}
    BY <1>2 DEF CheckAndAdd
  <2>2. Cardinality(R \cup {x}) = Cardinality(R) + 1 /\ IsFiniteSet(R \cup {x})
    BY FS_AddElement
  <2> QED
    BY <1>2, <2>1, <2>2
<1>3. CASE Cardinality(R) = k
  <2>1. R # {}
    BY <1>3, FS_EmptySet
  <2>2. PICK f \in R : f = Farthest(d, R) /\ \A y \in R : d[y] <= d[f]
    BY <2>1, FarthestIs
  <2>3. CASE d[x] < d[f]
    <3>1. Q = (R \ {f}) \cup {x}
      BY <1>3, <2>2, <2>3 DEF CheckAndAdd
    <3>2. IsFiniteSet(R \ {f}) /\ Cardinality(R \ {f}) = k - 1 /\ x \notin R \ {f}
      BY <1>3, FS_RemoveElement
    <3>3. Cardinality((R \ {f}) \cup {x}) = k /\ IsFiniteSet((R \ {f}) \cup {x})
      <4> DEFINE T == R \ {f}
      <4>1. IsFiniteSet(T) /\ Cardinality(T) = k - 1 /\ x \notin T
        BY <3>2
      <4> HIDE DEF T
      <4>2. Cardinality(T \cup {x}) = Cardinality(T) + 1 /\ IsFiniteSet(T \cup {x})
        BY <4>1, FS_AddElement
      <4>3. Cardinality(T \cup {x}) = k
        BY <4>1, <4>2
      <4> QED
        BY <4>2, <4>3 DEF T
    <3> QED
      BY <1>3, <2>2, <2>3, <3>1, <3>3
  <2>4. CASE ~ (d[x] < d[f])
    <3>1. Q = R
      BY <1>3, <2>2, <2>4 DEF CheckAndAdd
    <3>2. ASSUME NEW y \in R PROVE d[y] <= d[x]
      <4>1. d[x] \in Int /\ d[y] \in Int /\ d[f] \in Int /\ d[y] <= d[f]
        BY <2>2
      <4> QED
        BY <2>4, <4>1
    <3> QED
      BY <1>3, <3>1, <3>2
  <2> QED
    BY <2>3, <2>4
<1> QED
  BY <1>1, <1>2, <1>3

Once(list) == \A i, j \in 1 .. Len(list) : list[i] = list[j] => i = j

\* The nodes of a list that are in a set, once each.
LEMMA ThoseIs ==
    ASSUME NEW list \in Seq(Node), IsInjective(list), NEW S
    PROVE  LET t == Those(list, S)
           IN  t \in Seq(Node) /\ ToSet(t) = ToSet(list) \cap S /\ Once(t)
<1> DEFINE n == Len(list)
           In(t) == {t[k] : k \in 1 .. Len(t)}
           Is(t, i) == In(t) = {list[k] : k \in 1 .. i} \cap S /\ Once(t)
           A == [i \in 0 .. n |-> {t \in Seq(Node) : Is(t, i)}]
           Next1(t, i) == IF list[i] \in S THEN Append(t, list[i]) ELSE t
           step == [a \in Seq(Node) \X (1 .. n) |-> Next1(a[1], a[2])]
           F == CHOOSE f : f = [i \in 0 .. Len(list) |->
                    IF i = 0 THEN <<>>
                    ELSE IF list[i] \in S THEN Append(f[i - 1], list[i]) ELSE f[i - 1]]
<1>1. n \in Nat /\ (\A i \in 1 .. n : list[i] \in Node) /\ DOMAIN list = 1 .. n
  BY LenProperties, ElementOfSeq
<1>2. Once(list)
  BY <1>1 DEF Once, IsInjective
<1>3. ASSUME NEW i \in 1 .. n, NEW t \in Seq(Node), Is(t, i - 1)
      PROVE  Next1(t, i) \in Seq(Node) /\ Is(Next1(t, i), i)
  <2> DEFINE First(k) == {list[j] : j \in 1 .. k}
  <2>1. First(i) = First(i - 1) \cup {list[i]}
    <3>1. \A k \in 1 .. i : k \in 1 .. i - 1 \/ k = i
      OBVIOUS
    <3>2. \A k \in 1 .. i - 1 : k \in 1 .. i
      OBVIOUS
    <3> QED
      BY <3>1, <3>2
  <2>2. In(t) = First(i - 1) \cap S /\ Once(t)
    BY <1>3
  <2>3. list[i] \notin First(i - 1)
    <3>1. \A k \in 1 .. i - 1 : k \in 1 .. n /\ k # i
      BY <1>1
    <3> QED
      BY <1>2, <3>1 DEF Once
  <2>4. CASE list[i] \in S
    <3> DEFINE u == Append(t, list[i])
    <3>1. Next1(t, i) = u /\ list[i] \in Node
      BY <1>1, <2>4
    <3>2. /\ u \in Seq(Node) /\ Len(u) = Len(t) + 1 /\ u[Len(t) + 1] = list[i]
          /\ \A k \in 1 .. Len(t) : u[k] = t[k]
      BY <3>1, AppendProperties
    <3>3. Len(t) \in Nat
      BY LenProperties
    <3> HIDE DEF u
    <3>4. In(u) = In(t) \cup {list[i]}
      <4>1. \A k \in 1 .. Len(u) : k \in 1 .. Len(t) \/ k = Len(t) + 1
        BY <3>2, <3>3
      <4>2. (\A k \in 1 .. Len(t) : k \in 1 .. Len(u)) /\ Len(t) + 1 \in 1 .. Len(u)
        BY <3>2, <3>3
      <4> QED
        BY <3>2, <4>1, <4>2
    <3>5. Once(u)
      <4>1. ASSUME NEW k \in 1 .. Len(t) PROVE t[k] # list[i]
        BY <2>2, <2>3
      <4>2. \A k \in 1 .. Len(u) : k \in 1 .. Len(t) \/ k = Len(t) + 1
        BY <3>2, <3>3
      <4> HIDE DEF In
      <4> QED
        BY <2>2, <3>2, <4>1, <4>2 DEF Once
    <3>6. In(u) = First(i) \cap S
      <4> HIDE DEF In, First
      <4> QED
        BY <2>1, <2>2, <2>4, <3>4
    <3> QED
      BY <3>1, <3>2, <3>5, <3>6
  <2>5. CASE list[i] \notin S
    <3>1. Next1(t, i) = t
      BY <2>5
    <3>2. In(t) = First(i) \cap S
      <4> HIDE DEF In, First
      <4> QED
        BY <2>1, <2>2, <2>5
    <3> QED
      BY <2>2, <3>1, <3>2
  <2> QED
    BY <2>4, <2>5
<1>4. << >> \in A[0]
  <2>1. << >> \in Seq(Node) /\ Len(<< >>) = 0 /\ Once(<< >>)
    BY DEF Once
  <2>2. Is(<< >>, 0)
    BY <2>1
  <2> QED
    BY <1>1, <2>1, <2>2
<1> HIDE DEF Is, F, Next1
<1>5. Leads(n, A, step)
  <2>1. ASSUME NEW i \in 1 .. n, NEW t \in A[i - 1] PROVE step[<<t, i>>] \in A[i]
    <3>1. i - 1 \in 0 .. n /\ i \in 0 .. n
      BY <1>1
    <3>2. t \in Seq(Node) /\ Is(t, i - 1)
      BY <3>1
    <3>3. step[<<t, i>>] = Next1(t, i)
      BY <3>2
    <3> QED
      BY <1>3, <3>1, <3>2, <3>3
  <2> QED
    BY <2>1 DEF Leads
<1>6. PICK f : Runs(f, n, << >>, step) /\ \A i \in 0 .. n : f[i] \in A[i]
  <2> HIDE DEF A, step, n
  <2> QED
    BY <1>1, <1>4, <1>5, LoopExists
<1>7. f = [i \in 0 .. n |-> IF i = 0 THEN << >> ELSE step[<<f[i - 1], i>>]]
  BY <1>6 DEF Runs
<1>8. f = [i \in 0 .. n |-> IF i = 0 THEN << >> ELSE Next1(f[i - 1], i)]
  <2>1. ASSUME NEW i \in 0 .. n
        PROVE  f[i] = IF i = 0 THEN << >> ELSE Next1(f[i - 1], i)
    <3>1. CASE i = 0
      BY <1>7, <3>1
    <3>2. CASE i # 0
      <4>1. i \in 1 .. n /\ i - 1 \in 0 .. n
        BY <1>1, <3>2
      <4>2. f[i - 1] \in Seq(Node)
        BY <1>6, <4>1
      <4>3. f[i] = step[<<f[i - 1], i>>]
        BY <1>7, <3>2
      <4> QED
        BY <3>2, <4>1, <4>2, <4>3
    <3> QED
      BY <3>1, <3>2
  <2>2. f = [i \in 0 .. n |-> f[i]]
    <3> HIDE DEF step
    <3> QED
      BY <1>7
  <2> QED
    BY <2>1, <2>2
<1>9. F = [i \in 0 .. n |-> IF i = 0 THEN << >> ELSE Next1(F[i - 1], i)]
  BY <1>8, Zenon DEF F, Next1
<1>10. \A i \in 0 .. n : F[i] \in A[i]
  <2>1. F[0] \in A[0]
    BY <1>1, <1>4, <1>9
  <2>2. \A i \in 1 .. n : F[i - 1] \in A[i - 1] => F[i] \in A[i]
    <3>1. ASSUME NEW i \in 1 .. n, F[i - 1] \in A[i - 1] PROVE F[i] \in A[i]
      <4>1. i - 1 \in 0 .. n /\ i \in 0 .. n /\ i # 0
        BY <1>1
      <4>2. F[i - 1] \in Seq(Node) /\ Is(F[i - 1], i - 1)
        BY <3>1, <4>1
      <4>3. F[i] = Next1(F[i - 1], i)
        BY <1>9, <4>1
      <4> QED
        BY <1>3, <4>1, <4>2, <4>3
    <3> QED
      BY <3>1
  <2> HIDE DEF A
  <2> QED
    BY <1>1, <2>1, <2>2, LoopKeeps
<1>11. Those(list, S) = F[n]
  BY Zenon DEF Those, F
<1>12. F[n] \in Seq(Node) /\ Is(F[n], n)
  BY <1>1, <1>10
<1> HIDE DEF F
<1>13. F[n] \in Seq(Node) /\ In(F[n]) = {list[k] : k \in 1 .. n} \cap S /\ Once(F[n])
  BY <1>12 DEF Is
<1>14. ToSet(list) = {list[k] : k \in 1 .. n} /\ ToSet(F[n]) = In(F[n])
  BY <1>1, <1>13, LenProperties DEF ToSet
<1> QED
  BY <1>11, <1>13, <1>14

-----------------------------------------------------------------------------
(* The old search.                                                         *)

AsNear(d, S, n) == {x \in S : d[x] <= d[n]}
Least(a, b) == IF a < b THEN a ELSE b

\* closest holds the ef closest nodes seen, or all of them; what is neither
\* expanded nor a candidate was too far to be one.
FrontHolds(d, candidates, closest, seen, exp) ==
    /\ seen \in SUBSET Node /\ exp \subseteq seen
    /\ candidates \subseteq seen \ exp
    /\ closest \subseteq seen /\ closest # {}
    /\ Cardinality(closest) <= ef
    /\ Cardinality(closest) < ef => closest = seen
    /\ \A c \in closest, n \in seen \ closest : d[c] <= d[n]
    /\ \A n \in seen \ (exp \cup candidates) : n \notin closest /\ Cardinality(closest) = ef

\* The result misses no node that is closer than the smaller of k and ef of it,
\* and one of the closest ones only if it is full.
Best(d, k, result, closest, seen) ==
    /\ result \subseteq seen /\ Cardinality(result) <= k
    /\ \A n \in seen \ result : Cardinality(AsNear(d, result, n)) >= Least(k, ef)
    /\ \A n \in closest \ result : Cardinality(result) = k /\ \A x \in result : d[x] <= d[n]

LEMMA NodeSets ==
    ASSUME NEW S \in SUBSET Node
    PROVE  IsFiniteSet(S) /\ Cardinality(S) \in Nat
BY IndicesAssumption, FS_Subset, FS_CardinalityType

\* A node is offered to the result, whatever becomes of it among the closest.
LEMMA OfferKeepsBest ==
    ASSUME NEW d \in [Node -> Int], NEW k \in Nat \ {0}, ef \in Nat \ {0},
           NEW result, NEW closest, NEW seen \in SUBSET Node, closest \subseteq seen,
           Best(d, k, result, closest, seen), NEW m \in Node \ seen,
           NEW near, near \subseteq closest \cup {m}
    PROVE  Best(d, k, CheckAndAdd(d, k, result, m), near, seen \cup {m})
<1> DEFINE Q == CheckAndAdd(d, k, result, m)
           w == Least(k, ef)
<1>1. result \in SUBSET Node /\ m \notin result /\ Cardinality(result) <= k
  BY DEF Best
<1>2. w \in Nat /\ w <= k
  BY DEF Least
<1>3. \A T \in SUBSET Node : IsFiniteSet(T) /\ Cardinality(T) \in Nat
  BY NodeSets
<1>4. /\ IsFiniteSet(Q)
      /\ \/ Cardinality(result) < k /\ Q = result \cup {m} /\ Cardinality(Q) = Cardinality(result) + 1
         \/ /\ Cardinality(result) = k /\ Cardinality(Q) = k
            /\ \E f \in result : /\ \A y \in result : d[y] <= d[f]
                                 /\ d[m] < d[f] /\ Q = (result \ {f}) \cup {m}
         \/ Cardinality(result) = k /\ Q = result /\ \A y \in result : d[y] <= d[m]
  BY <1>1, <1>3, CheckAndAddIs
<1> HIDE DEF Q, w
<1>5. \A n \in seen \ result : Cardinality(AsNear(d, result, n)) >= w
  BY DEF Best, w
<1>6. \A n \in closest \ result : Cardinality(result) = k /\ \A x \in result : d[x] <= d[n]
  BY DEF Best
<1> DEFINE Near == \A n \in (seen \cup {m}) \ Q : Cardinality(AsNear(d, Q, n)) >= w
           Full == \A n \in near \ Q : Cardinality(Q) = k /\ \A x \in Q : d[x] <= d[n]
           Inside == Q \subseteq seen \cup {m} /\ Cardinality(Q) <= k
<1>7. ASSUME NEW S \in SUBSET Node, NEW T \in SUBSET S
      PROVE  Cardinality(T) <= Cardinality(S)
  BY <1>3, FS_Subset
<1>8. CASE Cardinality(result) < k /\ Q = result \cup {m} /\ Cardinality(Q) = Cardinality(result) + 1
  <2>1. Full
    BY <1>3, <1>1, <1>6, <1>8
  <2>2. Near
    <3>1. ASSUME NEW n \in (seen \cup {m}) \ Q PROVE Cardinality(AsNear(d, Q, n)) >= w
      <4>1. n \in seen \ result /\ AsNear(d, result, n) \in SUBSET AsNear(d, Q, n)
        BY <1>8 DEF AsNear
      <4>2. AsNear(d, Q, n) \in SUBSET Node /\ AsNear(d, result, n) \in SUBSET Node
        BY <1>1, <1>8 DEF AsNear
      <4>3. Cardinality(AsNear(d, result, n)) <= Cardinality(AsNear(d, Q, n))
        BY <1>7, <4>1, <4>2
      <4> QED
        BY <1>2, <1>3, <1>5, <4>1, <4>2, <4>3
    <3> QED
      BY <3>1
  <2>3. Inside
    BY <1>1, <1>3, <1>8 DEF Best
  <2> QED
    BY <2>1, <2>2, <2>3 DEF Best, w, Q
<1>9. CASE Cardinality(result) = k /\ Q = result /\ \A y \in result : d[y] <= d[m]
  <2>1. Full
    BY <1>6, <1>9
  <2>2. Near
    <3>1. ASSUME NEW n \in (seen \cup {m}) \ Q PROVE Cardinality(AsNear(d, Q, n)) >= w
      <4>1. CASE n = m
        <5>1. AsNear(d, Q, n) = Q
          BY <1>9, <4>1 DEF AsNear
        <5> QED
          BY <1>2, <1>9, <5>1
      <4>2. CASE n # m
        BY <1>5, <1>9, <4>2
      <4> QED
        BY <4>1, <4>2
    <3> QED
      BY <3>1
  <2>3. Inside
    BY <1>1, <1>9 DEF Best
  <2> QED
    BY <2>1, <2>2, <2>3 DEF Best, w, Q
<1>10. ASSUME Cardinality(result) = k, Cardinality(Q) = k, NEW f \in result,
              \A y \in result : d[y] <= d[f], d[m] < d[f], Q = (result \ {f}) \cup {m}
       PROVE  Best(d, k, Q, near, seen \cup {m})
  <2>1. \A x \in Q : d[x] <= d[f]
    BY <1>1, <1>10
  <2>2. Full
    <3>1. ASSUME NEW n \in near \ Q, NEW x \in Q PROVE d[x] <= d[n]
      <4>1. CASE n = f
        BY <2>1, <4>1
      <4>2. CASE n # f
        <5>1. n \in closest \ result
          BY <1>10, <4>2
        <5>2. d[f] <= d[n] /\ d[f] \in Int /\ d[n] \in Int /\ d[x] \in Int
          BY <1>1, <1>6, <1>10, <5>1
        <5> QED
          BY <2>1, <5>2
      <4> QED
        BY <4>1, <4>2
    <3> QED
      BY <1>10, <3>1
  <2>3. Near
    <3>1. ASSUME NEW n \in (seen \cup {m}) \ Q PROVE Cardinality(AsNear(d, Q, n)) >= w
      <4>1. CASE n = f
        <5>1. AsNear(d, Q, n) = Q
          BY <2>1, <4>1 DEF AsNear
        <5> QED
          BY <1>2, <1>10, <5>1
      <4>2. CASE n # f
        <5>1. n \in seen \ result
          BY <1>10, <4>2
        <5> DEFINE T == AsNear(d, result, n)
                   U == AsNear(d, Q, n)
        <5>2. T \in SUBSET Node /\ U \in SUBSET Node /\ Cardinality(T) >= w
          BY <1>1, <1>5, <1>10, <5>1 DEF AsNear
        <5>3. CASE f \in T
          <6>1. d[f] <= d[n] /\ d[m] <= d[n]
            <7>1. d[f] <= d[n]
              BY <5>3 DEF AsNear
            <7>2. d[f] \in Int /\ d[n] \in Int /\ d[m] \in Int
              BY <1>1
            <7> QED
              BY <1>10, <7>1, <7>2
          <6>2. U = (T \ {f}) \cup {m} /\ m \notin T
            <7>1. m \notin T
              BY <1>1 DEF AsNear
            <7>2. m \in U
              BY <1>10, <6>1 DEF AsNear
            <7>3. \A x : x # m => (x \in U <=> x \in T /\ x # f)
              BY <1>10 DEF AsNear
            <7>4. f # m
              BY <1>1
            <7> HIDE DEF T, U
            <7> QED
              BY <7>1, <7>2, <7>3, <7>4
          <6> HIDE DEF T, U
          <6>3. IsFiniteSet(T) /\ IsFiniteSet(T \ {f}) /\ Cardinality(T \ {f}) = Cardinality(T) - 1
            BY <1>3, <5>2, <5>3, FS_RemoveElement
          <6>4. Cardinality(U) = Cardinality(T \ {f}) + 1
            BY <6>2, <6>3, FS_AddElement
          <6>5. Cardinality(T) \in Nat
            BY <1>3, <5>2
          <6>6. Cardinality(U) >= w
            BY <1>2, <5>2, <6>3, <6>4, <6>5
          <6> QED
            BY <6>6 DEF U
        <5>4. CASE f \notin T
          <6>1. T \in SUBSET U
            BY <1>10, <5>4 DEF AsNear
          <6> HIDE DEF T, U
          <6>2. Cardinality(T) <= Cardinality(U) /\ Cardinality(T) \in Nat /\ Cardinality(U) \in Nat
            BY <1>3, <1>7, <5>2, <6>1
          <6>3. Cardinality(U) >= w
            BY <1>2, <5>2, <6>2
          <6> QED
            BY <6>3 DEF U
        <5> QED
          BY <5>3, <5>4
      <4> QED
        BY <4>1, <4>2
    <3> QED
      BY <3>1
  <2>4. Inside
    BY <1>1, <1>10 DEF Best
  <2> QED
    BY <2>2, <2>3, <2>4 DEF Best, w, Q
<1> QED
  BY <1>4, <1>8, <1>9, <1>10 DEF Q

\* A node that is not accepted misses nothing in the result.
LEMMA RejectKeepsBest ==
    ASSUME NEW d \in [Node -> Int], NEW k \in Nat \ {0}, ef \in Nat \ {0},
           NEW result, NEW closest, NEW seen \in SUBSET Node, closest \subseteq seen,
           Best(d, k, result, closest, seen), NEW m \in Node \ seen,
           Cardinality(closest) = ef, \A c \in closest : d[c] <= d[m]
    PROVE  Best(d, k, result, closest, seen \cup {m})
<1> DEFINE w == Least(k, ef)
<1>1. result \in SUBSET Node /\ m \notin result /\ Cardinality(result) <= k
  BY DEF Best
<1>2. w \in Nat /\ w <= k /\ w <= ef
  BY DEF Least
<1>3. Cardinality(AsNear(d, result, m)) >= w
  <2>1. CASE closest \subseteq result
    <3>1. closest \subseteq AsNear(d, result, m)
      BY <2>1 DEF AsNear
    <3>2. AsNear(d, result, m) \in SUBSET Node
      BY <1>1 DEF AsNear
    <3>3. IsFiniteSet(AsNear(d, result, m)) /\ Cardinality(AsNear(d, result, m)) \in Nat
      BY <3>2, NodeSets
    <3>4. ef <= Cardinality(AsNear(d, result, m))
      BY <3>1, <3>3, FS_Subset
    <3> HIDE DEF w
    <3> QED
      BY <1>2, <3>3, <3>4
  <2>2. CASE ~ (closest \subseteq result)
    <3>1. PICK c \in closest \ result : TRUE
      BY <2>2
    <3>2. Cardinality(result) = k /\ \A x \in result : d[x] <= d[c]
      BY <3>1 DEF Best
    <3>3. ASSUME NEW x \in result PROVE d[x] <= d[m]
      <4>1. d[x] \in Int /\ d[c] \in Int /\ d[m] \in Int /\ d[x] <= d[c] /\ d[c] <= d[m]
        BY <1>1, <3>1, <3>2
      <4> QED
        BY <4>1
    <3>4. AsNear(d, result, m) = result
      BY <3>3 DEF AsNear
    <3> HIDE DEF w
    <3> QED
      BY <1>2, <3>2, <3>4
  <2> QED
    BY <2>1, <2>2
<1> QED
  BY <1>3 DEF Best

\* A node that is accepted drives out the farthest one, if there are too many.
LEMMA AcceptKeepsFront ==
    ASSUME NEW d \in [Node -> Int], ef \in Nat \ {0},
           NEW candidates, NEW closest, NEW seen, NEW exp,
           FrontHolds(d, candidates, closest, seen, exp), NEW m \in Node \ seen,
           Cardinality(closest) < ef \/ d[m] < d[Farthest(d, closest)],
           NEW all, all = closest \cup {m},
           NEW kept, kept = IF Cardinality(all) > ef THEN all \ {Farthest(d, all)} ELSE all
    PROVE  FrontHolds(d, candidates \cup {m}, kept, seen \cup {m}, exp)
<1>1. closest \in SUBSET Node /\ seen \in SUBSET Node /\ all \in SUBSET Node /\ m \notin closest
  BY DEF FrontHolds
<1>2. /\ IsFiniteSet(closest) /\ IsFiniteSet(all) /\ Cardinality(closest) \in Nat
      /\ Cardinality(all) = Cardinality(closest) + 1
  BY <1>1, NodeSets, FS_AddElement
<1>3. exp \subseteq seen \cup {m} /\ candidates \cup {m} \subseteq (seen \cup {m}) \ exp
  BY DEF FrontHolds
<1>4. CASE Cardinality(all) > ef
  <2>1. Cardinality(closest) = ef
    BY <1>2, <1>4 DEF FrontHolds
  <2>2. PICK f \in all : f = Farthest(d, all) /\ \A y \in all : d[y] <= d[f]
    BY <1>1, <1>2, FarthestIs
  <2>3. kept = all \ {f}
    BY <1>4, <2>2
  <2>4. PICK g \in closest : g = Farthest(d, closest) /\ \A y \in closest : d[y] <= d[g]
    BY <1>1, <1>2, FarthestIs DEF FrontHolds
  <2>5. d[m] < d[g]
    BY <2>1, <2>4
  <2>6. Cardinality(kept) = ef
    <3>1. Cardinality(all \ {f}) = Cardinality(all) - 1
      BY <1>2, FS_RemoveElement
    <3>2. Cardinality(all) - 1 = ef
      BY <1>2, <2>1
    <3> QED
      BY <2>3, <3>1, <3>2
  <2>7. kept # {}
    BY <2>6, FS_EmptySet
  <2>8. ASSUME NEW c \in kept, NEW n \in (seen \cup {m}) \ kept PROVE d[c] <= d[n]
    <3>1. c \in all /\ c \in Node /\ n \in Node
      BY <1>1, <2>3
    <3>2. CASE n = f
      BY <2>2, <3>1, <3>2
    <3>3. CASE n # f
      <4>1. n \in seen \ closest
        BY <2>3, <3>3
      <4>2. CASE c \in closest
        BY <4>1, <4>2 DEF FrontHolds
      <4>3. CASE c = m
        <5>1. d[g] <= d[n]
          BY <4>1 DEF FrontHolds
        <5>2. d[g] \in Int /\ d[n] \in Int /\ d[m] \in Int
          BY <1>1, <3>1
        <5> QED
          BY <2>5, <4>3, <5>1, <5>2
      <4> QED
        BY <3>1, <4>2, <4>3
    <3> QED
      BY <3>2, <3>3
  <2>9. ASSUME NEW n \in (seen \cup {m}) \ (exp \cup (candidates \cup {m}))
        PROVE  n \notin kept
    <3>1. n \in seen \ (exp \cup candidates) /\ n # m
      OBVIOUS
    <3> QED
      BY <2>3, <3>1 DEF FrontHolds
  <2>10. kept \subseteq seen \cup {m} /\ seen \cup {m} \in SUBSET Node
    BY <1>1, <2>3 DEF FrontHolds
  <2>11. Cardinality(kept) <= ef /\ ~ (Cardinality(kept) < ef)
    BY <2>6
  <2> QED
    BY <1>3, <2>6, <2>7, <2>8, <2>9, <2>10, <2>11, Zenon DEF FrontHolds
<1>5. CASE ~ (Cardinality(all) > ef)
  <2>1. Cardinality(closest) < ef /\ Cardinality(all) <= ef
    BY <1>2, <1>5
  <2>2. closest = seen /\ kept = seen \cup {m}
    BY <1>5, <2>1 DEF FrontHolds
  <2>3. \A n \in seen \ (exp \cup candidates) : FALSE
    BY <1>2, <2>1 DEF FrontHolds
  <2>4. Cardinality(kept) <= ef
    BY <1>5, <2>1
  <2> QED
    BY <1>1, <1>3, <2>2, <2>3, <2>4 DEF FrontHolds
<1> QED
  BY <1>4, <1>5

\* A node that is not accepted is as far as the closest ones, and they are ef.
LEMMA RejectKeepsFront ==
    ASSUME NEW d \in [Node -> Int], ef \in Nat \ {0},
           NEW candidates, NEW closest, NEW seen, NEW exp,
           FrontHolds(d, candidates, closest, seen, exp), NEW m \in Node \ seen,
           ~ (Cardinality(closest) < ef \/ d[m] < d[Farthest(d, closest)])
    PROVE  /\ FrontHolds(d, candidates, closest, seen \cup {m}, exp)
           /\ Cardinality(closest) = ef /\ \A c \in closest : d[c] <= d[m]
<1>1. closest \in SUBSET Node /\ seen \in SUBSET Node /\ closest # {}
  BY DEF FrontHolds
<1>2. IsFiniteSet(closest) /\ Cardinality(closest) \in Nat
  BY <1>1, NodeSets
<1>3. Cardinality(closest) = ef
  BY <1>2 DEF FrontHolds
<1>4. PICK g \in closest : g = Farthest(d, closest) /\ \A y \in closest : d[y] <= d[g]
  BY <1>1, <1>2, FarthestIs
<1>5. ASSUME NEW c \in closest PROVE d[c] <= d[m]
  <2>1. d[c] \in Int /\ d[g] \in Int /\ d[m] \in Int /\ d[c] <= d[g]
    BY <1>1, <1>4
  <2> QED
    BY <1>4, <2>1
<1>6. m \notin closest
  BY DEF FrontHolds
<1>7. FrontHolds(d, candidates, closest, seen \cup {m}, exp)
  <2>1. \A c \in closest, n \in (seen \cup {m}) \ closest : d[c] <= d[n]
    BY <1>5 DEF FrontHolds
  <2>2. \A n \in (seen \cup {m}) \ (exp \cup candidates) : n \notin closest
    BY <1>6 DEF FrontHolds
  <2>3. /\ exp \subseteq seen \cup {m} /\ candidates \subseteq (seen \cup {m}) \ exp
        /\ closest \subseteq seen \cup {m} /\ seen \cup {m} \in SUBSET Node
    BY <1>1 DEF FrontHolds
  <2> QED
    BY <1>1, <1>3, <2>1, <2>2, <2>3 DEF FrontHolds
<1> QED
  BY <1>3, <1>5, <1>7

OldRecord == [pc : {"old"}, q : Queries, k : Ks, list : Nat, bits : SUBSET Node,
              candidates : SUBSET Node, closest : SUBSET Node, result : SUBSET Node]

\* A search with heaps that has seen the nodes of seen and expanded those of exp.
OldOK(r, seen, exp) ==
    /\ r \in OldRecord
    /\ FrontHolds(Dist[r.q], r.candidates, r.closest, seen, exp)
    /\ Best(Dist[r.q], r.k, r.result, r.closest, seen)

\* The same search, a while later.
SameSearch(r, u) ==
    /\ {"pc", "q", "k", "list", "bits"} \subseteq DOMAIN u
    /\ u.pc = r.pc /\ u.q = r.q /\ u.k = r.k /\ u.list = r.list /\ u.bits = r.bits

LEMMA VisitKeeps ==
    ASSUME ef \in Nat \ {0}, NEW r, NEW seen, NEW exp, OldOK(r, seen, exp), NEW m \in Node \ seen
    PROVE  OldOK(Visit(r, m), seen \cup {m}, exp) /\ SameSearch(r, Visit(r, m))
<1> DEFINE d == Dist[r.q]
           closest == r.closest \cup {m}
           kept == IF Cardinality(closest) > ef THEN closest \ {Farthest(d, closest)} ELSE closest
           offered == CheckAndAdd(d, r.k, r.result, m)
           accepted == Cardinality(r.closest) < ef \/ d[m] < d[Farthest(d, r.closest)]
           S == seen \cup {m}
<1>1. r \in OldRecord /\ seen \in SUBSET Node /\ r.closest \subseteq seen
  BY DEF OldOK, FrontHolds
<1>2. /\ r.q \in Queries /\ r.k \in Ks /\ r.pc = "old" /\ r.candidates \in SUBSET Node
      /\ r.closest \in SUBSET Node /\ r.result \in SUBSET Node
  BY <1>1 DEF OldRecord
<1>3. d \in [Node -> Int] /\ r.k \in Nat \ {0}
  BY <1>2, IndicesAssumption, PositiveAssumption
<1>4. FrontHolds(d, r.candidates, r.closest, seen, exp) /\ Best(d, r.k, r.result, r.closest, seen)
  BY DEF OldOK
<1> HIDE DEF d
<1>5. kept \subseteq r.closest \cup {m}
  OBVIOUS
<1>6. Best(d, r.k, offered, kept, S)
  BY <1>1, <1>3, <1>4, <1>5, OfferKeepsBest
<1>7. Best(d, r.k, offered, r.closest, S)
  BY <1>1, <1>3, <1>4, OfferKeepsBest
<1>8. offered \in SUBSET Node /\ S \in SUBSET Node
  BY <1>1, <1>7 DEF Best
<1>9. CASE accepted
  <2> DEFINE u == [r EXCEPT !.candidates = r.candidates \cup {m}, !.closest = kept, !.result = offered]
  <2>1. Visit(r, m) = u
    BY <1>9, Zenon DEF Visit, d
  <2>2. FrontHolds(d, r.candidates \cup {m}, kept, S, exp)
    BY <1>3, <1>4, <1>9, AcceptKeepsFront
  <2>3. kept \in SUBSET Node
    BY <1>2
  <2> HIDE DEF kept, offered
  <2>4. /\ u \in OldRecord /\ SameSearch(r, u)
        /\ u.candidates = r.candidates \cup {m} /\ u.closest = kept /\ u.result = offered
    BY <1>1, <1>2, <1>8, <2>3 DEF OldRecord, SameSearch
  <2> HIDE DEF u
  <2>5. OldOK(u, S, exp)
    BY <1>6, <2>2, <2>4 DEF OldOK, SameSearch, d
  <2> QED
    BY <2>1, <2>4, <2>5
<1>10. CASE ~ accepted
  <2>1. /\ FrontHolds(d, r.candidates, r.closest, S, exp)
        /\ Cardinality(r.closest) = ef /\ \A c \in r.closest : d[c] <= d[m]
    BY <1>3, <1>4, <1>10, RejectKeepsFront
  <2>2. CASE Pooled
    <3>1. Visit(r, m) = r
      BY <1>10, <2>2, Zenon DEF Visit, d
    <3>2. Best(d, r.k, r.result, r.closest, S)
      BY <1>1, <1>3, <1>4, <2>1, RejectKeepsBest
    <3>3. SameSearch(r, r)
      BY <1>1 DEF OldRecord, SameSearch
    <3> QED
      BY <1>1, <2>1, <3>1, <3>2, <3>3 DEF OldOK, d
  <2>3. CASE ~ Pooled
    <3> DEFINE u == [r EXCEPT !.result = offered]
    <3>1. Visit(r, m) = u
      BY <1>10, <2>3, Zenon DEF Visit, d
    <3> HIDE DEF offered
    <3>2. /\ u \in OldRecord /\ SameSearch(r, u)
          /\ u.candidates = r.candidates /\ u.closest = r.closest /\ u.result = offered
      BY <1>1, <1>2, <1>8 DEF OldRecord, SameSearch
    <3> HIDE DEF u
    <3>3. OldOK(u, S, exp)
      BY <1>7, <2>1, <3>2 DEF OldOK, SameSearch, d
    <3> QED
      BY <3>1, <3>2, <3>3
  <2> QED
    BY <2>2, <2>3
<1> QED
  BY <1>9, <1>10

FirstOf(list, i) == {list[k] : k \in 1 .. i}

LEMMA FirstOfIs ==
    ASSUME NEW X, NEW list \in Seq(X)
    PROVE  /\ FirstOf(list, 0) = {} /\ FirstOf(list, Len(list)) = ToSet(list)
           /\ \A i \in 1 .. Len(list) :
                  /\ list[i] \in X /\ FirstOf(list, i) = FirstOf(list, i - 1) \cup {list[i]}
                  /\ Once(list) => list[i] \notin FirstOf(list, i - 1)
<1>1. Len(list) \in Nat /\ (\A i \in 1 .. Len(list) : list[i] \in X) /\ DOMAIN list = 1 .. Len(list)
  BY LenProperties, ElementOfSeq
<1>2. FirstOf(list, 0) = {} /\ FirstOf(list, Len(list)) = ToSet(list)
  BY <1>1 DEF FirstOf, ToSet
<1>3. ASSUME NEW i \in 1 .. Len(list)
      PROVE  FirstOf(list, i) = FirstOf(list, i - 1) \cup {list[i]}
  <2>1. \A k \in 1 .. i : k \in 1 .. i - 1 \/ k = i
    OBVIOUS
  <2>2. (\A k \in 1 .. i - 1 : k \in 1 .. i) /\ i \in 1 .. i
    OBVIOUS
  <2> QED
    BY <2>1, <2>2 DEF FirstOf
<1>4. ASSUME NEW i \in 1 .. Len(list), Once(list)
      PROVE  list[i] \notin FirstOf(list, i - 1)
  <2>1. \A k \in 1 .. i - 1 : k \in 1 .. Len(list) /\ k # i
    BY <1>1
  <2> QED
    BY <1>4, <2>1 DEF FirstOf, Once
<1> QED
  BY <1>1, <1>2, <1>3, <1>4

\* All friends of the node that were not seen before.
LEMMA VisitedKeeps ==
    ASSUME ef \in Nat \ {0}, NEW r, NEW seen, NEW exp, OldOK(r, seen, exp),
           NEW new \in Seq(Node), Once(new), ToSet(new) \cap seen = {}
    PROVE  OldOK(Visited(r, new), seen \cup ToSet(new), exp) /\ SameSearch(r, Visited(r, new))
<1> DEFINE n == Len(new)
           S(i) == seen \cup FirstOf(new, i)
           Is(u, i) == OldOK(u, S(i), exp) /\ SameSearch(r, u)
           A == [i \in 0 .. n |-> {u \in OldRecord : Is(u, i)}]
           step == [a \in OldRecord \X (1 .. n) |-> Visit(a[1], new[a[2]])]
           F == CHOOSE f : f = [i \in 0 .. Len(new) |->
                    IF i = 0 THEN r ELSE Visit(f[i - 1], new[i])]
<1>1. n \in Nat /\ \A i \in 1 .. n : new[i] \in Node
  BY LenProperties, ElementOfSeq
<1>2. /\ FirstOf(new, 0) = {} /\ FirstOf(new, n) = ToSet(new)
      /\ \A i \in 1 .. n : /\ FirstOf(new, i) = FirstOf(new, i - 1) \cup {new[i]}
                           /\ new[i] \notin FirstOf(new, i - 1)
  BY FirstOfIs
<1>3. ASSUME NEW i \in 1 .. n, NEW u, Is(u, i - 1)
      PROVE  Is(Visit(u, new[i]), i)
  <2>1. new[i] \in ToSet(new)
    <3>1. DOMAIN new = 1 .. n
      BY LenProperties
    <3> QED
      BY <3>1 DEF ToSet
  <2>2. new[i] \in Node \ S(i - 1) /\ S(i) = S(i - 1) \cup {new[i]}
    BY <1>1, <1>2, <2>1
  <2> DEFINE x == Visit(u, new[i])
             T == S(i - 1)
  <2>3. OldOK(u, T, exp) /\ new[i] \in Node \ T
    BY <1>3, <2>2
  <2> HIDE DEF T
  <2>4. OldOK(x, T \cup {new[i]}, exp) /\ SameSearch(u, x)
    BY <2>3, VisitKeeps
  <2> HIDE DEF x
  <2>5. SameSearch(r, x)
    BY <1>3, <2>4 DEF SameSearch
  <2> QED
    BY <2>2, <2>4, <2>5 DEF x, T
<1>4. \A i \in 1 .. n : \A u : Is(u, i) => u \in OldRecord
  BY DEF OldOK
<1>5. r \in A[0]
  <2>1. SameSearch(r, r) /\ r \in OldRecord
    BY DEF OldOK, OldRecord, SameSearch
  <2>2. S(0) = seen
    BY <1>2
  <2>3. Is(r, 0)
    <3> HIDE DEF S
    <3> QED
      BY <2>1, <2>2
  <2> HIDE DEF Is
  <2> QED
    BY <1>1, <2>1, <2>3
<1> HIDE DEF Is, F
<1>6. Leads(n, A, step)
  <2>1. ASSUME NEW i \in 1 .. n, NEW u \in A[i - 1] PROVE step[<<u, i>>] \in A[i]
    <3>1. i - 1 \in 0 .. n /\ i \in 0 .. n
      BY <1>1
    <3>2. u \in OldRecord /\ Is(u, i - 1)
      BY <3>1
    <3>3. step[<<u, i>>] = Visit(u, new[i])
      BY <3>2
    <3> QED
      BY <1>3, <1>4, <3>1, <3>2, <3>3
  <2> QED
    BY <2>1 DEF Leads
<1>7. PICK f : Runs(f, n, r, step) /\ \A i \in 0 .. n : f[i] \in A[i]
  <2> HIDE DEF A, step, n
  <2> QED
    BY <1>1, <1>5, <1>6, LoopExists
<1>8. f = [i \in 0 .. n |-> IF i = 0 THEN r ELSE step[<<f[i - 1], i>>]]
  BY <1>7 DEF Runs
<1>9. f = [i \in 0 .. n |-> IF i = 0 THEN r ELSE Visit(f[i - 1], new[i])]
  <2>1. ASSUME NEW i \in 0 .. n
        PROVE  f[i] = IF i = 0 THEN r ELSE Visit(f[i - 1], new[i])
    <3>1. CASE i = 0
      BY <1>8, <3>1
    <3>2. CASE i # 0
      <4>1. i \in 1 .. n /\ i - 1 \in 0 .. n
        BY <1>1, <3>2
      <4>2. f[i - 1] \in OldRecord
        BY <1>7, <4>1
      <4>3. f[i] = step[<<f[i - 1], i>>]
        BY <1>8, <3>2
      <4> QED
        BY <3>2, <4>1, <4>2, <4>3
    <3> QED
      BY <3>1, <3>2
  <2>2. f = [i \in 0 .. n |-> f[i]]
    <3> HIDE DEF step
    <3> QED
      BY <1>8
  <2> QED
    BY <2>1, <2>2
<1>10. F = [i \in 0 .. n |-> IF i = 0 THEN r ELSE Visit(F[i - 1], new[i])]
  BY <1>9, Zenon DEF F
<1>11. \A i \in 0 .. n : F[i] \in A[i]
  <2>1. F[0] \in A[0]
    BY <1>1, <1>5, <1>10
  <2>2. \A i \in 1 .. n : F[i - 1] \in A[i - 1] => F[i] \in A[i]
    <3>1. ASSUME NEW i \in 1 .. n, F[i - 1] \in A[i - 1] PROVE F[i] \in A[i]
      <4>1. i - 1 \in 0 .. n /\ i \in 0 .. n /\ i # 0
        BY <1>1
      <4>2. Is(F[i - 1], i - 1)
        BY <3>1, <4>1
      <4>3. F[i] = Visit(F[i - 1], new[i])
        BY <1>10, <4>1
      <4> QED
        BY <1>3, <1>4, <4>1, <4>2, <4>3
    <3> QED
      BY <3>1
  <2> HIDE DEF A
  <2> QED
    BY <1>1, <2>1, <2>2, LoopKeeps
<1>12. Visited(r, new) = F[n]
  BY Zenon DEF Visited, F
<1>13. Is(F[n], n)
  BY <1>1, <1>11
<1> QED
  BY <1>2, <1>12, <1>13 DEF Is

-----------------------------------------------------------------------------
(* The search with an array.                                               *)

\* The items tell the distance of nodes that were seen and whether they were expanded.
Shows(v, d, seen, exp) ==
    \A i \in 1 .. Len(v) : /\ v[i].data \in seen /\ v[i].key = d[v[i].data]
                           /\ v[i].used <=> v[i].data \in exp

\* A node seen that is not in the array is not closer than its items, which are
\* ef at least; nor than those of B, as long as they may be put into it.
Misses(v, d, cap, seen, B) ==
    \A n \in seen : \/ \E i \in 1 .. Len(v) : v[i].data = n
                    \/ /\ Len(v) >= ef /\ \A i \in 1 .. Len(v) : v[i].key <= d[n]
                       /\ Len(v) = cap \/ \A x \in B : x.key <= d[n]

Holds(v, d, cap, seen, exp, B) ==
    /\ Array(v, Node) /\ 1 <= Len(v) /\ Len(v) <= cap
    /\ Shows(v, d, seen, exp) /\ Misses(v, d, cap, seen, B)

\* Items for nodes that were not expanded.
Fresh(B, d, exp) ==
    \A x \in B : x \in Items(Node) /\ x.key = d[x.data] /\ ~ x.used /\ x.data \notin exp

DataOf(B) == {x.data : x \in B}

\* What the array takes of the items of B may drive out others.
LEMMA TakesKeeps ==
    ASSUME NEW d \in [Node -> Int], NEW cap \in Nat, ef \in Nat \ {0}, ef <= cap,
           NEW seen \in SUBSET Node, NEW exp, NEW B, Fresh(B, d, exp), NEW X \in SUBSET B,
           NEW v, Holds(v, d, cap, seen, exp, B), NEW w, Takes(v, cap, X, w, Node)
    PROVE  Holds(w, d, cap, seen \cup DataOf(X), exp, B)
<1> DEFINE S == seen \cup DataOf(X)
<1>1. /\ Array(w, Node) /\ Len(v) <= Len(w) /\ Len(w) <= cap /\ Len(w) \in Nat /\ Len(v) \in Nat
      /\ 1 <= Len(v) /\ Len(v) <= cap
  BY LenProperties DEF Takes, Holds, Array
<1>2. \A i \in 1 .. Len(w) : w[i] \in Contents(v) \cup X
  BY DEF Takes, Contents
<1>3. \A i \in 1 .. Len(v) : v[i].key \in Int /\ v[i].data \in Node /\ v[i].key = d[v[i].data]
  <2>1. \A i \in 1 .. Len(v) : v[i] \in Items(Node)
    BY <1>1, ElementOfSeq DEF Holds, Array
  <2> QED
    BY <2>1 DEF Items, Holds, Shows
<1>4. \A x \in X : x.key \in Int /\ x.data \in Node /\ x.key = d[x.data]
  BY DEF Fresh, Items
<1>5. Shows(w, d, S, exp)
  <2>1. ASSUME NEW i \in 1 .. Len(w)
        PROVE  /\ w[i].data \in S /\ w[i].key = d[w[i].data]
               /\ w[i].used <=> w[i].data \in exp
    <3>1. CASE w[i] \in X
      BY <3>1 DEF Fresh, DataOf
    <3>2. CASE w[i] \in Contents(v)
      <4>1. PICK j \in 1 .. Len(v) : w[i] = v[j]
        BY <3>2 DEF Contents
      <4> QED
        BY <4>1 DEF Holds, Shows
    <3> QED
      BY <1>2, <3>1, <3>2
  <2> QED
    BY <2>1 DEF Shows
<1>6. ASSUME NEW y \in Contents(v) \cup X, y.data \in Node, y.key = d[y.data],
             \A i \in 1 .. Len(w) : w[i].data # y.data
      PROVE  Len(w) = cap /\ \A i \in 1 .. Len(w) : w[i].key <= d[y.data]
  <2>1. y \notin Contents(w)
    BY <1>6 DEF Contents
  <2> QED
    BY <1>6, <2>1 DEF Takes
<1>7. ASSUME NEW n \in S, \A i \in 1 .. Len(w) : w[i].data # n
      PROVE  /\ Len(w) >= ef /\ \A i \in 1 .. Len(w) : w[i].key <= d[n]
             /\ Len(w) = cap \/ \A x \in B : x.key <= d[n]
  <2>1. CASE n \in DataOf(X)
    <3>1. PICK y \in X : n = y.data
      BY <2>1 DEF DataOf
    <3>2. Len(w) = cap /\ \A i \in 1 .. Len(w) : w[i].key <= d[n]
      BY <1>4, <1>6, <1>7, <3>1
    <3> QED
      BY <3>2
  <2>2. CASE n \in seen /\ \E j \in 1 .. Len(v) : v[j].data = n
    <3>1. PICK j \in 1 .. Len(v) : v[j].data = n
      BY <2>2
    <3>2. v[j] \in Contents(v)
      BY DEF Contents
    <3>3. Len(w) = cap /\ \A i \in 1 .. Len(w) : w[i].key <= d[n]
      BY <1>3, <1>6, <1>7, <3>1, <3>2
    <3> QED
      BY <3>3
  <2>3. CASE n \in seen /\ \A j \in 1 .. Len(v) : v[j].data # n
    <3>1. /\ Len(v) >= ef /\ \A i \in 1 .. Len(v) : v[i].key <= d[n]
          /\ Len(v) = cap \/ \A x \in B : x.key <= d[n]
      BY <2>3 DEF Holds, Misses
    <3>2. d[n] \in Int
      BY <2>3
    <3>3. CASE Len(v) = cap
      <4>1. Len(w) = cap
        BY <1>1, <3>3
      <4>2. ASSUME NEW i \in 1 .. Len(w) PROVE w[i].key <= d[n]
        <5>1. w[i].key <= v[Len(v)].key /\ Len(v) \in 1 .. Len(v)
          BY <1>1, <3>3 DEF Takes
        <5>2. v[Len(v)].key <= d[n] /\ v[Len(v)].key \in Int
          BY <1>3, <3>1, <5>1
        <5>3. w[i].key \in Int
          BY <1>2, <1>3, <1>4 DEF Contents
        <5> QED
          BY <3>2, <5>1, <5>2, <5>3
      <4> QED
        BY <4>1, <4>2
    <3>4. CASE Len(v) # cap
      <4>1. \A x \in B : x.key <= d[n]
        BY <3>1, <3>4
      <4>2. ASSUME NEW i \in 1 .. Len(w) PROVE w[i].key <= d[n]
        <5>1. CASE w[i] \in X
          BY <4>1, <5>1
        <5>2. CASE w[i] \in Contents(v)
          BY <3>1, <5>2 DEF Contents
        <5> QED
          BY <1>2, <5>1, <5>2
      <4> QED
        BY <1>1, <3>1, <4>1, <4>2
    <3> QED
      BY <3>3, <3>4
  <2> QED
    BY <2>1, <2>2, <2>3
<1>8. Misses(w, d, cap, S, B)
  BY <1>7 DEF Misses
<1> QED
  BY <1>1, <1>5, <1>8 DEF Holds

\* An array and a position: all items up to it were used.
Pair == [v : Seq(Items(Node)), at : Nat]
Passed(b) == b \in Pair /\ b.at <= Len(b.v) /\ UpTo(b.v, b.at)

\* Before and after a round of the loop.
Putting(d, cap, seen, exp, B, c) ==
    /\ d \in [Node -> Int] /\ cap \in Nat /\ ef \in Nat \ {0} /\ ef <= cap
    /\ seen \in SUBSET Node /\ Fresh(B, d, exp)
    /\ Passed(c) /\ Holds(c.v, d, cap, seen, exp, B)

\* One item.
LEMMA PushKeeps ==
    ASSUME NEW d, NEW cap, NEW seen, NEW exp, NEW B, NEW c, Putting(d, cap, seen, exp, B, c),
           NEW x \in B, x.data \notin seen,
           NEW u, u = Earlier(PushOrReplace(c.v, cap, x.key, x.data), c.at)
    PROVE  Putting(d, cap, seen \cup DataOf({x}), exp, B, u)
<1> USE DEF Putting
<1>1. /\ x \in Items(Node) /\ x.key \in Int /\ x.data \in Node /\ Item(x.key, x.data) = x
  <2>1. x \in Items(Node) /\ ~ x.used
    BY DEF Fresh
  <2> QED
    BY <2>1 DEF Item, Items
<1>2. PICK v : v = c.v
  OBVIOUS
<1>3. PICK p : p = PushOrReplace(v, cap, x.key, x.data)
  OBVIOUS
<1>4. /\ Array(v, Node) /\ 1 <= Len(v) /\ Len(v) <= cap /\ Len(v) \in Nat
      /\ \A k \in 1 .. Len(v) : v[k].data # x.data
  <2>1. \A k \in 1 .. Len(v) : v[k].data \in seen
    BY <1>2 DEF Holds, Shows
  <2> QED
    BY <1>2, <2>1, LenProperties DEF Holds, Array
<1>5. /\ Takes(v, cap, {x}, p.v, Node)
      /\ p.at \in 0 .. Len(v) /\ \A k \in 1 .. p.at : p.v[k] = v[k]
  <2>1. Takes(v, cap, {Item(x.key, x.data)}, p.v, Node) /\ SameUpTo(v, p.v, p.at)
    <3>1. PICK key \in Int, data \in Node : key = x.key /\ data = x.data
      BY <1>1
    <3>2. Without(v, data)
      BY <1>4, <3>1 DEF Without
    <3>3. Array(v, Node) /\ cap \in Nat /\ 1 <= Len(v) /\ Len(v) <= cap
      BY <1>4
    <3>4. p = PushOrReplace(v, cap, key, data)
      BY <1>3, <3>1
    <3>5. Takes(v, cap, {Item(key, data)}, p.v, Node) /\ SameUpTo(v, p.v, p.at)
      BY <3>2, <3>3, <3>4, PushOrReplaceIs
    <3> QED
      BY <3>1, <3>5
  <2> QED
    BY <1>1, <2>1 DEF SameUpTo
<1>6. Holds(p.v, d, cap, seen \cup DataOf({x}), exp, B)
  <2>1. {x} \in SUBSET B
    OBVIOUS
  <2> QED
    BY <1>2, <1>5, <2>1, TakesKeeps
<1>7. /\ u.v = p.v /\ u = [v |-> p.v, at |-> u.at] /\ c.at \in Nat
      /\ u.at \in Nat /\ u.at <= p.at /\ u.at <= c.at
  <2>1. c.at \in Nat /\ p.at \in Nat
    BY <1>4, <1>5 DEF Passed, Pair
  <2> QED
    BY <1>2, <1>3, <2>1 DEF Earlier
<1>8. p.v \in Seq(Items(Node)) /\ Len(v) <= Len(p.v) /\ Len(p.v) \in Nat
  BY <1>5, LenProperties DEF Takes, Array
<1>9. u \in Pair /\ u.at <= Len(u.v)
  <2>1. u.at <= Len(p.v)
    BY <1>4, <1>5, <1>7, <1>8
  <2> QED
    BY <1>7, <1>8, <2>1 DEF Pair
<1>10. UpTo(u.v, u.at)
  <2>1. ASSUME NEW k \in 1 .. u.at PROVE p.v[k].used
    <3>1. k \in 1 .. p.at /\ k \in 1 .. c.at
      BY <1>4, <1>5, <1>7
    <3>2. v[k].used
      BY <1>2, <3>1 DEF Passed, UpTo
    <3> QED
      BY <1>5, <3>1, <3>2
  <2> QED
    BY <1>7, <2>1 DEF UpTo
<1>11. seen \cup DataOf({x}) \in SUBSET Node
  BY <1>1 DEF DataOf
<1>12. Passed(u) /\ Holds(u.v, d, cap, seen \cup DataOf({x}), exp, B)
  BY <1>6, <1>7, <1>9, <1>10 DEF Passed
<1> QED
  BY <1>11, <1>12

\* One item after the other.
LEMMA PutKeeps ==
    ASSUME NEW d, NEW r, NEW seen, NEW exp, NEW items \in Seq(Items(Node)), DataOnce(items),
           Putting(d, r.cap, seen, exp, Contents(items), [v |-> r.sorted, at |-> r.curr]),
           DataOf(Contents(items)) \cap seen = {}
    PROVE  Putting(d, r.cap, seen \cup DataOf(Contents(items)), exp, Contents(items), Put(r, items))
<1> DEFINE n == Len(items)
           cap == r.cap
           B == Contents(items)
           S(i) == seen \cup DataOf(FirstOf(items, i))
           Is(c, i) == Putting(d, cap, S(i), exp, B, c)
           A == [i \in 0 .. n |-> {c \in Pair : Is(c, i)}]
           Push(c, i) == Earlier(PushOrReplace(c.v, cap, items[i].key, items[i].data), c.at)
           step == [a \in Pair \X (1 .. n) |-> Push(a[1], a[2])]
           base == [v |-> r.sorted, at |-> r.curr]
           F == CHOOSE f : f = [i \in 0 .. Len(items) |->
                    IF i = 0 THEN [v |-> r.sorted, at |-> r.curr]
                    ELSE Earlier(PushOrReplace(f[i - 1].v, r.cap, items[i].key, items[i].data),
                                 f[i - 1].at)]
<1>1. n \in Nat /\ \A i \in 1 .. n : items[i] \in Items(Node)
  BY LenProperties, ElementOfSeq
<1>2. /\ FirstOf(items, 0) = {} /\ FirstOf(items, n) = B
      /\ \A i \in 1 .. n : FirstOf(items, i) = FirstOf(items, i - 1) \cup {items[i]}
  BY FirstOfIs DEF FirstOf, Contents
<1>3. ASSUME NEW i \in 1 .. n, NEW c, Is(c, i - 1)
      PROVE  Is(Push(c, i), i)
  <2> DEFINE x == items[i]
             T == S(i - 1)
             u == Push(c, i)
  <2>1. x \in B /\ x \in Items(Node)
    BY <1>1 DEF Contents
  <2>2. S(i) = T \cup DataOf({x})
    BY <1>2 DEF DataOf
  <2>3. x.data \notin T
    <3>1. ASSUME NEW y \in FirstOf(items, i - 1) PROVE y.data # x.data
      <4>1. PICK k \in 1 .. i - 1 : y = items[k]
        BY DEF FirstOf
      <4>2. k \in 1 .. n /\ k # i
        BY <1>1
      <4> QED
        BY <4>1, <4>2 DEF DataOnce
    <3>2. x.data \notin seen
      BY <2>1 DEF DataOf
    <3> QED
      BY <3>1, <3>2 DEF DataOf
  <2>4. Putting(d, cap, T, exp, B, c)
    BY <1>3
  <2>5. u = Earlier(PushOrReplace(c.v, cap, x.key, x.data), c.at)
    OBVIOUS
  <2> HIDE DEF T, x, u, cap, B
  <2>6. Putting(d, cap, T \cup DataOf({x}), exp, B, u)
    BY <2>1, <2>3, <2>4, <2>5, PushKeeps
  <2> HIDE DEF S, Push
  <2> QED
    BY <2>2, <2>6 DEF u
<1>4. \A i \in 1 .. n : \A c : Is(c, i) => c \in Pair
  BY DEF Putting, Passed
<1>5. base \in A[0]
  <2>1. S(0) = seen
    BY <1>2 DEF DataOf
  <2>2. Putting(d, cap, seen, exp, B, base)
    OBVIOUS
  <2> HIDE DEF S, base
  <2>3. Is(base, 0) /\ base \in Pair
    BY <2>1, <2>2 DEF Putting, Passed
  <2> HIDE DEF Is
  <2> QED
    BY <1>1, <2>3
<1> HIDE DEF Is, F, base, Push
<1>6. Leads(n, A, step)
  <2>1. ASSUME NEW i \in 1 .. n, NEW c \in A[i - 1] PROVE step[<<c, i>>] \in A[i]
    <3>1. i - 1 \in 0 .. n /\ i \in 0 .. n
      BY <1>1
    <3>2. c \in Pair /\ Is(c, i - 1)
      BY <3>1
    <3>3. step[<<c, i>>] = Push(c, i)
      BY <3>2
    <3> QED
      BY <1>3, <1>4, <3>1, <3>2, <3>3
  <2> QED
    BY <2>1 DEF Leads
<1>7. PICK f : Runs(f, n, base, step) /\ \A i \in 0 .. n : f[i] \in A[i]
  <2> HIDE DEF A, step, n
  <2> QED
    BY <1>1, <1>5, <1>6, LoopExists
<1>8. f = [i \in 0 .. n |-> IF i = 0 THEN base ELSE step[<<f[i - 1], i>>]]
  BY <1>7 DEF Runs
<1>9. f = [i \in 0 .. n |-> IF i = 0 THEN base ELSE Push(f[i - 1], i)]
  <2>1. ASSUME NEW i \in 0 .. n
        PROVE  f[i] = IF i = 0 THEN base ELSE Push(f[i - 1], i)
    <3>1. CASE i = 0
      BY <1>8, <3>1
    <3>2. CASE i # 0
      <4>1. i \in 1 .. n /\ i - 1 \in 0 .. n
        BY <1>1, <3>2
      <4>2. f[i - 1] \in Pair
        BY <1>7, <4>1
      <4>3. f[i] = step[<<f[i - 1], i>>]
        BY <1>8, <3>2
      <4> QED
        BY <3>2, <4>1, <4>2, <4>3
    <3> QED
      BY <3>1, <3>2
  <2>2. f = [i \in 0 .. n |-> f[i]]
    <3> HIDE DEF step
    <3> QED
      BY <1>8
  <2> QED
    BY <2>1, <2>2
<1>10. F = [i \in 0 .. n |-> IF i = 0 THEN base ELSE Push(F[i - 1], i)]
  BY <1>9, Zenon DEF F, base, Push
<1>11. \A i \in 0 .. n : F[i] \in A[i]
  <2>1. F[0] \in A[0]
    BY <1>1, <1>5, <1>10
  <2>2. \A i \in 1 .. n : F[i - 1] \in A[i - 1] => F[i] \in A[i]
    <3>1. ASSUME NEW i \in 1 .. n, F[i - 1] \in A[i - 1] PROVE F[i] \in A[i]
      <4>1. i - 1 \in 0 .. n /\ i \in 0 .. n /\ i # 0
        BY <1>1
      <4>2. Is(F[i - 1], i - 1)
        BY <3>1, <4>1
      <4>3. F[i] = Push(F[i - 1], i)
        BY <1>10, <4>1
      <4> QED
        BY <1>3, <1>4, <4>1, <4>2, <4>3
    <3> QED
      BY <3>1
  <2> HIDE DEF A
  <2> QED
    BY <1>1, <2>1, <2>2, LoopKeeps
<1>12. Put(r, items) = F[n]
  BY Zenon DEF Put, F
<1>13. Is(F[n], n)
  BY <1>1, <1>11
<1> QED
  BY <1>2, <1>12, <1>13 DEF Is

ArrayRecord == [pc : {"v1merge"}, q : Queries, k : Ks, list : Nat, bits : SUBSET Node,
                sorted : Seq(Items(Node)), curr : Nat, cap : Nat]

\* A search with an array, between two rounds of its loops.
InArray(r, seen, exp, B) ==
    r \in ArrayRecord /\ Putting(Dist[r.q], r.cap, seen, exp, B, [v |-> r.sorted, at |-> r.curr])

\* It has another array and position.
Moved(r, u) == SameSearch(r, u) /\ u.cap = r.cap

With(r, b) == [r EXCEPT !.sorted = b.v, !.curr = b.at]

LEMMA MovedIs ==
    ASSUME NEW r \in ArrayRecord, NEW S, NEW exp, NEW B,
           NEW b, Putting(Dist[r.q], r.cap, S, exp, B, b)
    PROVE  InArray(With(r, b), S, exp, B) /\ Moved(r, With(r, b))
           /\ With(r, b).sorted = b.v /\ With(r, b).curr = b.at
<1> DEFINE u == With(r, b)
<1>1. b \in [v : Seq(Items(Node)), at : Nat]
  BY DEF Putting, Passed, Pair
<1>2. b.v \in Seq(Items(Node)) /\ b.at \in Nat /\ b = [v |-> b.v, at |-> b.at]
  BY <1>1
<1>3. u \in ArrayRecord /\ Moved(r, u) /\ u.sorted = b.v /\ u.curr = b.at
  BY <1>2 DEF ArrayRecord, Moved, SameSearch, With
<1> HIDE DEF u
<1>4. [v |-> u.sorted, at |-> u.curr] = b
  BY <1>2, <1>3
<1>5. InArray(u, S, exp, B)
  BY <1>3, <1>4 DEF InArray, Moved, SameSearch
<1> QED
  BY <1>3, <1>5 DEF u

\* The new items get into the array, and the search goes back to them.
LEMMA InsertKeeps ==
    ASSUME NEW r, NEW seen, NEW exp, NEW items, InArray(r, seen, exp, Contents(items)),
           Array(items, Node), DataOf(Contents(items)) \cap seen = {}
    PROVE  /\ InArray(Insert(r, items), seen \cup DataOf(Contents(items)), exp, Contents(items))
           /\ Moved(r, Insert(r, items))
<1> DEFINE B == Contents(items)
           S == seen \cup DataOf(B)
           d == Dist[r.q]
           m == MergeWithSorted(r.sorted, r.cap, items)
           both == IF Len(items) > MergeFrom THEN Earlier(m, r.curr) ELSE Put(r, items)
           start == [v |-> r.sorted, at |-> r.curr]
<1>1. Insert(r, items) = [r EXCEPT !.sorted = both.v, !.curr = both.at]
  BY Zenon DEF Insert
<1>2. r \in ArrayRecord /\ Putting(d, r.cap, seen, exp, B, start)
  BY DEF InArray
<1>3. items \in Seq(Items(Node)) /\ DataOnce(items) /\ Ascending(items)
  BY DEF Array
<1> HIDE DEF d
<1>4. Putting(d, r.cap, S, exp, B, Put(r, items))
  BY <1>2, <1>3, PutKeeps
<1>5. Putting(d, r.cap, S, exp, B, Earlier(m, r.curr))
  <2>1. /\ d \in [Node -> Int] /\ r.cap \in Nat /\ ef \in Nat \ {0} /\ ef <= r.cap
        /\ seen \in SUBSET Node /\ Fresh(B, d, exp)
        /\ Holds(r.sorted, d, r.cap, seen, exp, B)
        /\ r.curr \in Nat
    BY <1>2 DEF Putting, Passed, Pair
  <2>2. Array(r.sorted, Node) /\ 1 <= Len(r.sorted) /\ Len(r.sorted) <= r.cap
    BY <2>1 DEF Holds
  <2>3. Apart(r.sorted, items)
    <3>1. \A i \in 1 .. Len(r.sorted) : r.sorted[i].data \in seen
      BY <2>1 DEF Holds, Shows
    <3>2. \A j \in 1 .. Len(items) : items[j].data \in DataOf(B)
      BY DEF DataOf, Contents
    <3> QED
      BY <3>1, <3>2 DEF Apart
  <2>4. Takes(r.sorted, r.cap, B, m.v, Node) /\ IsFirstUnused(m.v, m.at)
    BY <2>1, <2>2, <2>3, MergeWithSortedIs
  <2>5. Holds(m.v, d, r.cap, S, exp, B)
    <3>1. B \in SUBSET B
      OBVIOUS
    <3> QED
      BY <2>1, <2>4, <3>1, TakesKeeps
  <2> HIDE DEF m
  <2>6. Passed(Earlier(m, r.curr)) /\ Earlier(m, r.curr).v = m.v
    <3> DEFINE u == Earlier(m, r.curr)
    <3>1. m.v \in Seq(Items(Node)) /\ Len(m.v) \in Nat /\ m.at \in 0 .. Len(m.v) /\ UpTo(m.v, m.at)
      BY <2>4, LenProperties DEF Takes, Array, IsFirstUnused
    <3>2. u = [v |-> m.v, at |-> u.at] /\ u.at \in Nat /\ u.at <= m.at /\ u.v = m.v
      BY <2>1, <3>1 DEF Earlier
    <3> HIDE DEF u
    <3>3. UpTo(u.v, u.at) /\ u.at <= Len(u.v)
      BY <3>1, <3>2 DEF UpTo
    <3>4. u \in Pair
      BY <3>1, <3>2 DEF Pair
    <3> QED
      BY <3>2, <3>3, <3>4 DEF Passed, u
  <2>7. S \in SUBSET Node
    BY <2>1 DEF Fresh, DataOf, Items
  <2> HIDE DEF S, B
  <2> QED
    BY <2>1, <2>5, <2>6, <2>7 DEF Putting
<1> HIDE DEF S, B, m
<1>6. Putting(d, r.cap, S, exp, B, both)
  BY <1>4, <1>5
<1> HIDE DEF both
<1> DEFINE u == Insert(r, items)
<1>7. InArray(u, S, exp, B) /\ Moved(r, u)
  <2>1. u = With(r, both)
    BY <1>1 DEF With
  <2> HIDE DEF u
  <2> QED
    BY <1>2, <1>6, <2>1, MovedIs DEF d
<1> QED
  BY <1>7 DEF S, B

\* From there the search goes to the first item that was not used.
LEMMA SkipUsedIs ==
    ASSUME NEW r, NEW seen, NEW exp, NEW B, InArray(r, seen, exp, B)
    PROVE  LET u == SkipUsed(r)
           IN  InArray(u, seen, exp, B) /\ Moved(r, u) /\ IsFirstUnused(u.sorted, u.curr)
<1> DEFINE v == r.sorted
           Is(i) == /\ i = Len(v) \/ ~ v[i + 1].used
                    /\ \A j \in r.curr .. i - 1 : v[j + 1].used
           Stops == {i \in r.curr .. Len(v) : i = Len(v) \/ ~ v[i + 1].used}
           p == CHOOSE i \in r.curr .. Len(v) : Is(i)
           b == [v |-> v, at |-> p]
<1>1. SkipUsed(r) = [r EXCEPT !.curr = p]
  BY Zenon DEF SkipUsed
<1>2. /\ r \in ArrayRecord /\ v \in Seq(Items(Node)) /\ Len(v) \in Nat
      /\ r.curr \in Nat /\ r.curr <= Len(v) /\ UpTo(v, r.curr)
  BY LenProperties DEF InArray, Putting, Passed, Pair
<1>3. Len(v) \in Stops /\ Stops \subseteq Nat
  BY <1>2
<1>4. PICK i \in Stops : \A j \in Stops : i <= j
  <2> HIDE DEF Stops
  <2> QED
    BY <1>3, LeastExists
<1>5. ASSUME NEW j \in r.curr .. i - 1 PROVE v[j + 1].used
  <2>1. j \in r.curr .. Len(v) /\ ~ (i <= j) /\ j # Len(v)
    BY <1>2, <1>4
  <2>2. j \notin Stops
    BY <1>4, <2>1
  <2> QED
    BY <2>1, <2>2
<1>6. i \in r.curr .. Len(v) /\ Is(i)
  BY <1>4, <1>5
<1> HIDE DEF Is, Stops
<1>7. p \in r.curr .. Len(v) /\ Is(p)
  BY <1>6
<1> HIDE DEF p
<1>8. IsFirstUnused(v, p)
  <2>1. ASSUME NEW j \in 1 .. p PROVE v[j].used
    <3>1. CASE j <= r.curr
      BY <1>2, <2>1, <3>1 DEF UpTo
    <3>2. CASE j > r.curr
      <4>1. j - 1 \in r.curr .. p - 1 /\ (j - 1) + 1 = j
        BY <1>2, <1>7, <3>2
      <4> QED
        BY <1>7, <4>1 DEF Is
    <3> QED
      BY <1>2, <1>7, <3>1, <3>2
  <2> QED
    BY <1>2, <1>7, <2>1 DEF Is, IsFirstUnused, UpTo
<1>9. Putting(Dist[r.q], r.cap, seen, exp, B, b)
  <2>1. Putting(Dist[r.q], r.cap, seen, exp, B, [v |-> r.sorted, at |-> r.curr])
    BY DEF InArray
  <2>2. Passed(b)
    BY <1>2, <1>7, <1>8 DEF Passed, Pair, IsFirstUnused
  <2> QED
    BY <2>1, <2>2 DEF Putting
<1>10. SkipUsed(r) = [r EXCEPT !.sorted = b.v, !.curr = b.at]
  BY <1>1, <1>2 DEF ArrayRecord
<1> DEFINE u == SkipUsed(r)
<1> HIDE DEF b, v
<1>11. InArray(u, seen, exp, B) /\ Moved(r, u) /\ u.sorted = b.v /\ u.curr = b.at
  <2>1. u = With(r, b) /\ r \in ArrayRecord
    BY <1>2, <1>10 DEF With
  <2> HIDE DEF u
  <2> QED
    BY <1>9, <2>1, MovedIs
<1> QED
  BY <1>8, <1>11 DEF u, b

\* A search with an array, between two steps: at the first item that was not used.
ArrayOK(r, seen, exp) ==
    /\ InArray(r, seen, exp, {}) /\ exp \subseteq seen
    /\ r.cap = IF ef > r.k THEN ef ELSE r.k
    /\ IsFirstUnused(r.sorted, r.curr)

\* The objects of the first K items.
FirstData(v, K) == {v[i].data : i \in 1 .. K}

LEMMA FirstDataIs ==
    ASSUME NEW v, Len(v) \in Nat, DataOnce(v), NEW K \in 0 .. Len(v)
    PROVE  IsFiniteSet(FirstData(v, K)) /\ Cardinality(FirstData(v, K)) = K
<1> DEFINE S == FirstData(v, K)
           I == 1 .. K
           f == [i \in I |-> v[i].data]
<1>1. K \in Nat /\ K <= Len(v)
  OBVIOUS
<1>2. IsFiniteSet(I) /\ Cardinality(I) = K
  <2>1. IsFiniteSet(1 .. K) /\ Cardinality(1 .. K) = IF 1 > K THEN 0 ELSE K - 1 + 1
    BY <1>1, FS_Interval
  <2> QED
    BY <1>1, <2>1
<1>3. f \in Surjection(I, S)
  BY Zenon DEF Surjection, FirstData
<1>4. \A i, j \in I : f[i] = f[j] => i = j
  <2>1. \A i \in I : i \in 1 .. Len(v)
    BY <1>1
  <2> QED
    BY <2>1 DEF DataOnce
<1>5. f \in Injection(I, S)
  <2>1. f \in [I -> S]
    BY Zenon DEF FirstData
  <2> HIDE DEF f, I, S
  <2> QED
    BY <1>4, <2>1, Zenon DEF Injection, IsInjective
<1> HIDE DEF f, I
<1>6. IsFiniteSet(S) /\ Cardinality(S) = Cardinality(I)
  BY <1>2, <1>3, <1>5, FS_Surjection
<1> QED
  BY <1>2, <1>6

\* The item at a position is marked as used.
Mark(v, i) == [v EXCEPT ![i].used = TRUE]

LEMMA MarkIs ==
    ASSUME NEW v \in Seq(Items(Node)), NEW p \in 1 .. Len(v)
    PROVE  /\ Mark(v, p) \in Seq(Items(Node)) /\ Len(Mark(v, p)) = Len(v)
           /\ \A i \in 1 .. Len(v) : /\ Mark(v, p)[i].key = v[i].key
                                     /\ Mark(v, p)[i].data = v[i].data
                                     /\ Mark(v, p)[i].used = IF i = p THEN TRUE ELSE v[i].used
<1> DEFINE x == [v[p] EXCEPT !.used = TRUE]
<1>1. \A i \in 1 .. Len(v) : v[i] \in Items(Node)
  BY ElementOfSeq
<1>2. x \in Items(Node) /\ x.key = v[p].key /\ x.data = v[p].data /\ x.used = TRUE
  BY <1>1 DEF Items
<1>3. Mark(v, p) = [v EXCEPT ![p] = x]
  BY DEF Mark
<1> HIDE DEF x
<1>4. /\ Mark(v, p) \in Seq(Items(Node)) /\ Len(Mark(v, p)) = Len(v)
      /\ \A i \in 1 .. Len(v) : Mark(v, p)[i] = IF i = p THEN x ELSE v[i]
  BY <1>2, <1>3, ExceptSeq
<1> QED
  BY <1>2, <1>4

\* The node expanded next, and the search that expands it.
Current(r) == r.sorted[r.curr + 1].data
Use(r) == [r EXCEPT !.sorted[r.curr + 1].used = TRUE, !.curr = @ + 1]

LEMMA UseKeeps ==
    ASSUME NEW r, NEW seen, NEW exp, ArrayOK(r, seen, exp), MoreToUse(r)
    PROVE  /\ InArray(Use(r), seen, exp \cup {Current(r)}, {}) /\ Moved(r, Use(r))
           /\ Current(r) \in seen \ exp /\ Current(r) \in Node
<1> DEFINE n == Current(r)
           u == Use(r)
           v == r.sorted
           p == r.curr + 1
           d == Dist[r.q]
           w == Mark(v, p)
           b == [v |-> w, at |-> p]
           E == exp \cup {n}
<1>1. /\ r \in ArrayRecord /\ r.sorted \in Seq(Items(Node)) /\ Len(v) \in Nat
      /\ r.curr \in Nat /\ p \in 1 .. Len(v) /\ ~ v[p].used /\ UpTo(v, r.curr)
  BY LenProperties DEF ArrayOK, InArray, Putting, Passed, Pair, MoreToUse, IsFirstUnused
<1>2. /\ d \in [Node -> Int] /\ r.cap \in Nat /\ ef \in Nat \ {0} /\ ef <= r.cap
      /\ seen \in SUBSET Node /\ Holds(v, d, r.cap, seen, exp, {})
  BY DEF ArrayOK, InArray, Putting
<1>3. u = With(r, b)
  BY <1>1 DEF With, Mark, Use, ArrayRecord
<1> HIDE DEF d, w
<1>4. /\ w \in Seq(Items(Node)) /\ Len(w) = Len(v)
      /\ \A i \in 1 .. Len(v) : /\ w[i].key = v[i].key /\ w[i].data = v[i].data
                                /\ w[i].used = IF i = p THEN TRUE ELSE v[i].used
  <2>1. v \in Seq(Items(Node)) /\ p \in 1 .. Len(v)
    BY <1>1
  <2> HIDE DEF v, p
  <2> QED
    BY <2>1, MarkIs DEF w
<1>5. n = v[p].data /\ n \in seen \ exp /\ n \in Node
  BY <1>1, <1>2 DEF Holds, Shows, Current
<1> HIDE DEF n, u
<1>6. Array(v, Node) /\ Ascending(v) /\ DataOnce(v)
  BY <1>2 DEF Holds, Array
<1> HIDE DEF v
<1>7. Array(w, Node)
  <2>1. Ascending(w)
    BY <1>4, <1>6 DEF Ascending
  <2>2. DataOnce(w)
    BY <1>4, <1>6 DEF DataOnce
  <2> QED
    BY <1>4, <2>1, <2>2 DEF Array
<1>8. Shows(w, d, seen, E)
  <2>1. Shows(v, d, seen, exp)
    BY <1>2 DEF Holds
  <2>2. ASSUME NEW i \in 1 .. Len(w)
        PROVE  w[i].data \in seen /\ w[i].key = d[w[i].data] /\ (w[i].used <=> w[i].data \in E)
    <3>1. /\ v[i].data \in seen /\ v[i].key = d[v[i].data] /\ (v[i].used <=> v[i].data \in exp)
          /\ i \in 1 .. Len(v)
      BY <1>4, <2>1 DEF Shows
    <3>2. v[i].data = n => i = p
      BY <1>1, <1>5, <1>6, <3>1 DEF DataOnce
    <3> QED
      BY <1>4, <1>5, <3>1, <3>2
  <2> QED
    BY <2>2 DEF Shows
<1>9. Misses(w, d, r.cap, seen, {})
  BY <1>2, <1>4 DEF Holds, Misses
<1>10. Holds(w, d, r.cap, seen, E, {})
  BY <1>2, <1>4, <1>7, <1>8, <1>9 DEF Holds
<1>11. Passed(b)
  <2>1. ASSUME NEW i \in 1 .. p PROVE w[i].used
    <3>1. i \in 1 .. Len(v) /\ (i = p \/ i \in 1 .. r.curr)
      BY <1>1
    <3> QED
      BY <1>1, <1>4, <3>1 DEF UpTo
  <2> HIDE DEF w
  <2>2. UpTo(w, p)
    BY <2>1 DEF UpTo
  <2> QED
    BY <1>1, <1>4, <2>2 DEF Passed, Pair
<1>12. Putting(d, r.cap, seen, E, {}, b)
  BY <1>2, <1>10, <1>11 DEF Putting, Fresh
<1> HIDE DEF b
<1>13. InArray(u, seen, E, {}) /\ Moved(r, u)
  <2>1. InArray(With(r, b), seen, E, {}) /\ Moved(r, With(r, b))
    BY <1>1, <1>12, MovedIs DEF d
  <2> QED
    BY <1>3, <2>1
<1> QED
  BY <1>5, <1>13 DEF n, u

LEMMA OnceIsInjective ==
    ASSUME NEW list \in Seq(Node)
    PROVE  Once(list) <=> IsInjective(list)
<1>1. DOMAIN list = 1 .. Len(list)
  BY LenProperties
<1> QED
  BY <1>1 DEF Once, IsInjective

\* What was put into the array need not be told from other items any more.
LEMMA ForgetItems ==
    ASSUME NEW r, NEW seen, NEW exp, NEW B, InArray(r, seen, exp, B)
    PROVE  InArray(r, seen, exp, {})
<1> DEFINE d == Dist[r.q]
           c == [v |-> r.sorted, at |-> r.curr]
<1>1. r \in ArrayRecord /\ Putting(d, r.cap, seen, exp, B, c)
  BY DEF InArray
<1>2. c.v = r.sorted
  OBVIOUS
<1> HIDE DEF c, d
<1>3. Misses(c.v, d, r.cap, seen, {})
  BY <1>1 DEF Putting, Holds, Misses
<1>4. Fresh({}, d, exp)
  BY DEF Fresh
<1>5. Putting(d, r.cap, seen, exp, {}, c)
  BY <1>1, <1>3, <1>4 DEF Putting, Holds
<1> QED
  BY <1>1, <1>5 DEF InArray, c, d

\* Items for some nodes in the order they were found.
ItemsOf(d, t) == [i \in DOMAIN t |-> Item(d[t[i]], t[i])]

LEMMA ItemsOfIs ==
    ASSUME NEW d \in [Node -> Int], NEW t \in Seq(Node), Once(t)
    PROVE  /\ ItemsOf(d, t) \in Seq(Items(Node)) /\ DataOnce(ItemsOf(d, t))
           /\ Len(ItemsOf(d, t)) = Len(t)
           /\ Contents(ItemsOf(d, t)) = {Item(d[m], m) : m \in ToSet(t)}
           /\ DataOf(Contents(ItemsOf(d, t))) = ToSet(t)
<1> DEFINE s == ItemsOf(d, t)
<1>1. DOMAIN t = 1 .. Len(t) /\ Len(t) \in Nat /\ \A i \in 1 .. Len(t) : t[i] \in Node
  BY LenProperties, ElementOfSeq
<1>2. \A m \in Node : Item(d[m], m) \in Items(Node) /\ Item(d[m], m).data = m
  BY DEF Item, Items
<1>3. s = [i \in 1 .. Len(t) |-> Item(d[t[i]], t[i])]
  BY <1>1 DEF ItemsOf
<1> HIDE DEF s
<1>4. s \in Seq(Items(Node)) /\ Len(s) = Len(t)
  BY <1>1, <1>2, <1>3
<1>5. \A i \in 1 .. Len(t) : s[i] = Item(d[t[i]], t[i]) /\ s[i].data = t[i]
  BY <1>1, <1>2, <1>3
<1>6. DataOnce(s)
  BY <1>4, <1>5 DEF DataOnce, Once
<1>7. ToSet(t) = {t[i] : i \in 1 .. Len(t)}
  BY <1>1 DEF ToSet
<1>8. Contents(s) = {Item(d[m], m) : m \in ToSet(t)}
  <2>1. \A i \in 1 .. Len(t) : s[i] = Item(d[t[i]], t[i])
    BY <1>5
  <2>2. Contents(s) = {s[i] : i \in 1 .. Len(t)}
    BY <1>4 DEF Contents
  <2> QED
    BY <1>7, <2>1, <2>2
<1>9. ToSet(t) \subseteq Node
  BY <1>1, <1>7
<1>10. DataOf(Contents(s)) = ToSet(t)
  BY <1>2, <1>8, <1>9 DEF DataOf
<1> QED
  BY <1>4, <1>6, <1>8, <1>10 DEF s

\* What is not promising is as far as the items of the array, and those are ef.
LEMMA UnpromisingIsMissed ==
    ASSUME NEW r, NEW seen, NEW exp, InArray(r, seen, exp, {}), exp \subseteq seen,
           NEW new \in Seq(Node), Once(new), ToSet(new) \cap seen = {},
           NEW t, t = Promising(r, new)
    PROVE  /\ t \in Seq(Node) /\ Once(t) /\ ToSet(t) \subseteq ToSet(new)
           /\ InArray(r, seen \cup (ToSet(new) \ ToSet(t)), exp, Contents(ItemsOf(Dist[r.q], t)))
<1> DEFINE d == Dist[r.q]
           v == r.sorted
           topKey == v[Len(v)].key
           Near == {m \in Node : Len(v) < ef \/ d[m] < topKey}
           far == ToSet(new) \ ToSet(t)
           B == Contents(ItemsOf(d, t))
           c == [v |-> v, at |-> r.curr]
<1>1. r \in ArrayRecord /\ Putting(d, r.cap, seen, exp, {}, c)
  BY DEF InArray
<1>2. /\ d \in [Node -> Int] /\ r.cap \in Nat /\ ef \in Nat \ {0} /\ ef <= r.cap
      /\ seen \in SUBSET Node /\ Passed(c) /\ Holds(v, d, r.cap, seen, exp, {})
  BY <1>1 DEF Putting
<1>3. t = Those(new, Near)
  BY Zenon DEF Promising
<1> HIDE DEF Near
<1>4. t \in Seq(Node) /\ ToSet(t) = ToSet(new) \cap Near /\ Once(t)
  BY <1>3, ThoseIs, OnceIsInjective
<1> HIDE DEF d
<1>5. DataOf(B) = ToSet(t) /\ B = {Item(d[m], m) : m \in ToSet(t)}
  BY <1>2, <1>4, ItemsOfIs
<1> HIDE DEF B
<1>6. ToSet(new) \subseteq Node
  <2>1. \A i \in 1 .. Len(new) : new[i] \in Node
    BY ElementOfSeq
  <2> QED
    BY <2>1, LenProperties DEF ToSet
<1>7. Len(v) \in Nat /\ v \in Seq(Items(Node)) /\ Ascending(v) /\ 1 <= Len(v)
  BY <1>2, LenProperties DEF Holds, Array
<1>8. \A i \in 1 .. Len(v) : v[i].key \in Int /\ v[i].key <= topKey
  <2>1. \A i \in 1 .. Len(v) : v[i] \in Items(Node)
    BY <1>7, ElementOfSeq
  <2> QED
    BY <1>7, <2>1 DEF Items, Ascending
<1>9. topKey \in Int
  BY <1>7, <1>8
<1>10. ASSUME NEW m \in ToSet(t) PROVE Len(v) < ef \/ d[m] < topKey
  BY <1>4 DEF Near
<1> HIDE DEF topKey
<1>11. ASSUME NEW n \in seen \cup far, \A i \in 1 .. Len(v) : v[i].data # n
       PROVE  /\ Len(v) >= ef /\ \A i \in 1 .. Len(v) : v[i].key <= d[n]
              /\ \A x \in B : x.key <= d[n]
  <2>1. n \in Node /\ d[n] \in Int
    BY <1>2, <1>6
  <2>2. Len(v) >= ef /\ \A i \in 1 .. Len(v) : v[i].key <= d[n]
    <3>1. CASE n \in seen
      BY <1>2, <1>11, <3>1 DEF Holds, Misses
    <3>2. CASE n \in far
      <4>1. ~ (Len(v) < ef \/ d[n] < topKey)
        BY <1>4, <2>1, <3>2 DEF Near, topKey
      <4> QED
        BY <1>2, <1>7, <1>8, <1>9, <2>1, <4>1
    <3> QED
      BY <3>1, <3>2
  <2>3. topKey <= d[n]
    BY <1>7, <2>2 DEF topKey
  <2>4. ASSUME NEW x \in B PROVE x.key <= d[n]
    <3>1. PICK m \in ToSet(t) : x = Item(d[m], m)
      BY <1>5
    <3>2. x.key = d[m] /\ d[m] \in Int /\ d[m] < topKey
      BY <1>2, <1>4, <1>6, <1>7, <1>10, <2>2, <3>1 DEF Item
    <3> QED
      BY <1>9, <2>1, <2>3, <3>2
  <2> QED
    BY <2>2, <2>4
<1>12. Misses(v, d, r.cap, seen \cup far, B)
  BY <1>11 DEF Misses
<1>13. Shows(v, d, seen \cup far, exp)
  BY <1>2 DEF Holds, Shows
<1>14. Holds(v, d, r.cap, seen \cup far, exp, B)
  BY <1>2, <1>12, <1>13 DEF Holds
<1>15. Fresh(B, d, exp)
  <2>1. ASSUME NEW x \in B
        PROVE  x \in Items(Node) /\ x.key = d[x.data] /\ ~ x.used /\ x.data \notin exp
    <3>1. PICK m \in ToSet(t) : x = Item(d[m], m)
      BY <1>5
    <3>2. m \in Node /\ m \notin exp
      BY <1>4, <1>6
    <3> QED
      BY <1>2, <3>1, <3>2 DEF Item, Items
  <2> QED
    BY <2>1 DEF Fresh
<1>16. seen \cup far \in SUBSET Node
  BY <1>2, <1>6
<1>17. c.v = v
  OBVIOUS
<1> HIDE DEF far, v, c
<1>18. Putting(d, r.cap, seen \cup far, exp, B, c)
  BY <1>2, <1>14, <1>15, <1>16, <1>17 DEF Putting
<1>19. InArray(r, seen \cup far, exp, B)
  BY <1>1, <1>18 DEF InArray, d, c, v
<1> QED
  BY <1>4, <1>19 DEF far, B, d

\* The friends that were not seen are put into the array, as far as they belong there.
LEMMA JoinedKeeps ==
    ASSUME NEW r, NEW seen, NEW exp, InArray(r, seen, exp, {}), exp \subseteq seen,
           NEW new \in Seq(Node), Once(new), ToSet(new) \cap seen = {},
           NEW u, u = Joined(r, new)
    PROVE  InArray(u, seen \cup ToSet(new), exp, {}) /\ Moved(r, u)
<1> DEFINE d == Dist[r.q]
           t == Promising(r, new)
           items == ItemsOf(d, t)
           S == seen \cup (ToSet(new) \ ToSet(t))
<1>1. u = IF items = <<>> THEN r ELSE Insert(r, Sorted(items))
  BY Zenon DEF Joined, ItemsOf
<1>2. r \in ArrayRecord /\ d \in [Node -> Int]
  BY DEF InArray, Putting
<1>3. PICK p : p = t
  OBVIOUS
<1>4. p \in Seq(Node) /\ Once(p) /\ ToSet(p) \subseteq ToSet(new)
      /\ InArray(r, seen \cup (ToSet(new) \ ToSet(p)), exp, Contents(ItemsOf(d, p)))
  BY <1>3, UnpromisingIsMissed
<1> HIDE DEF t, d
<1>5. /\ items \in Seq(Items(Node)) /\ DataOnce(items) /\ Len(items) = Len(p)
      /\ DataOf(Contents(items)) = ToSet(p)
  BY <1>2, <1>3, <1>4, ItemsOfIs
<1>6. InArray(r, S, exp, Contents(items))
  BY <1>3, <1>4
<1>7. S \cup ToSet(p) = seen \cup ToSet(new) /\ ToSet(p) \cap S = {}
  BY <1>3, <1>4
<1> HIDE DEF items, S
<1>8. CASE items = <<>>
  <2>1. ToSet(p) = {}
    <3>1. Contents(items) = {}
      <4>1. Len(items) = 0
        BY <1>8
      <4> QED
        BY <4>1 DEF Contents
    <3> QED
      BY <1>5, <3>1 DEF DataOf
  <2>2. InArray(r, S, exp, {})
    BY <1>6, ForgetItems
  <2>3. Moved(r, r)
    BY <1>2 DEF Moved, SameSearch, ArrayRecord
  <2> QED
    BY <1>1, <1>7, <1>8, <2>1, <2>2, <2>3
<1>9. CASE items # <<>>
  <2> DEFINE w == Sorted(items)
  <2>1. Array(w, Node) /\ Contents(w) = Contents(items)
    BY <1>5, SortedIs
  <2> HIDE DEF w
  <2>2. InArray(r, S, exp, Contents(w)) /\ DataOf(Contents(w)) \cap S = {}
    BY <1>5, <1>6, <1>7, <2>1
  <2>3. /\ InArray(Insert(r, w), S \cup DataOf(Contents(w)), exp, Contents(w))
        /\ Moved(r, Insert(r, w))
    BY <2>1, <2>2, InsertKeeps
  <2>4. u = Insert(r, w) /\ DataOf(Contents(w)) = ToSet(p)
    BY <1>1, <1>5, <1>9, <2>1 DEF w
  <2>5. InArray(u, seen \cup ToSet(new), exp, Contents(w))
    BY <1>7, <2>3, <2>4
  <2> QED
    BY <2>3, <2>4, <2>5, ForgetItems
<1> QED
  BY <1>8, <1>9

\* One round of the search with an array.
LEMMA ArrayStepKeeps ==
    ASSUME NEW r, NEW seen, NEW exp, ArrayOK(r, seen, exp), MoreToUse(r),
           NEW new \in Seq(Node), Once(new), ToSet(new) \cap seen = {},
           NEW u, u = SkipUsed(Joined(Use(r), new))
    PROVE  ArrayOK(u, seen \cup ToSet(new), exp \cup {Current(r)}) /\ SameSearch(r, u)
<1> DEFINE n == Current(r)
           used == Use(r)
           E == exp \cup {n}
           S == seen \cup ToSet(new)
           j == Joined(used, new)
<1>1. InArray(used, seen, E, {}) /\ Moved(r, used) /\ n \in seen \ exp /\ n \in Node
  BY UseKeeps
<1> HIDE DEF n, used
<1>2. exp \subseteq seen /\ r.cap = IF ef > r.k THEN ef ELSE r.k
  BY DEF ArrayOK
<1>3. E \subseteq seen
  BY <1>1, <1>2
<1> HIDE DEF E
<1>4. InArray(j, S, E, {}) /\ Moved(used, j)
  BY <1>1, <1>3, JoinedKeeps
<1> HIDE DEF j, S
<1>5. InArray(u, S, E, {}) /\ Moved(j, u) /\ IsFirstUnused(u.sorted, u.curr)
  BY <1>4, SkipUsedIs DEF j, used
<1>6. SameSearch(r, u) /\ u.cap = r.cap
  BY <1>1, <1>4, <1>5 DEF Moved, SameSearch
<1>7. ArrayOK(u, S, E)
  <2>1. E \subseteq S
    BY <1>3 DEF S
  <2>2. u.k = r.k
    BY <1>6 DEF SameSearch
  <2> QED
    BY <1>2, <1>5, <1>6, <2>1, <2>2 DEF ArrayOK
<1> QED
  BY <1>1, <1>6, <1>7 DEF E, S, n

\* What the array says of the nodes that were seen.
ArrayFacts(r, v, d, seen, exp) ==
    /\ Len(v) \in Nat /\ 1 <= Len(v) /\ r.curr \in 0 .. Len(v) /\ DataOnce(v)
    /\ r.k \in Nat \ {0} /\ ef \in Nat \ {0} /\ d \in [Node -> Int] /\ seen \in SUBSET Node
    /\ \A i \in 1 .. Len(v) : /\ v[i].data \in seen /\ v[i].key = d[v[i].data]
                              /\ v[i].used <=> v[i].data \in exp
    /\ \A i \in 1 .. r.curr : v[i].used
    /\ \A i, j \in 1 .. Len(v) : i <= j => d[v[i].data] <= d[v[j].data]
    /\ \A n \in seen : \/ \E i \in 1 .. Len(v) : v[i].data = n
                       \/ Len(v) >= ef /\ \A i \in 1 .. Len(v) : d[v[i].data] <= d[n]

LEMMA ArrayShows ==
    ASSUME NEW r, NEW seen, NEW exp, ArrayOK(r, seen, exp)
    PROVE  ArrayFacts(r, r.sorted, Dist[r.q], seen, exp)
<1> DEFINE d == Dist[r.q]
           v == r.sorted
<1>1. /\ r \in ArrayRecord /\ IsFirstUnused(v, r.curr) /\ Holds(v, d, r.cap, seen, exp, {})
      /\ ef \in Nat \ {0} /\ d \in [Node -> Int] /\ seen \in SUBSET Node
  BY DEF ArrayOK, InArray, Putting
<1>2. Array(v, Node) /\ 1 <= Len(v) /\ Shows(v, d, seen, exp) /\ Misses(v, d, r.cap, seen, {})
  BY <1>1 DEF Holds
<1>3. Len(v) \in Nat /\ DataOnce(v) /\ Ascending(v)
  BY <1>2, LenProperties DEF Array
<1>4. r.k \in Nat \ {0}
  BY <1>1, PositiveAssumption DEF ArrayRecord
<1>5. r.curr \in 0 .. Len(v) /\ \A i \in 1 .. r.curr : v[i].used
  BY <1>1 DEF IsFirstUnused, UpTo
<1>6. \A i \in 1 .. Len(v) : /\ v[i].data \in seen /\ v[i].key = d[v[i].data]
                             /\ v[i].used <=> v[i].data \in exp
  BY <1>2 DEF Shows
<1>7. \A i, j \in 1 .. Len(v) : i <= j => d[v[i].data] <= d[v[j].data]
  BY <1>3, <1>6 DEF Ascending
<1>8. \A n \in seen : \/ \E i \in 1 .. Len(v) : v[i].data = n
                      \/ Len(v) >= ef /\ \A i \in 1 .. Len(v) : d[v[i].data] <= d[n]
  BY <1>2, <1>6 DEF Misses
<1> QED
  BY <1>1, <1>2, <1>3, <1>4, <1>5, <1>6, <1>7, <1>8 DEF ArrayFacts

\* The item at the position is the closest one that was not expanded, and fewer
\* than ef nodes are closer.
LEMMA ArrayTakesNearest ==
    ASSUME NEW r, NEW seen, NEW exp, ArrayOK(r, seen, exp), MoreToUse(r), NEW d, d = Dist[r.q],
           NEW n, n = Current(r)
    PROVE  /\ \A m \in seen \ exp : ~ (d[m] < d[n])
           /\ Cardinality({m \in seen : d[m] < d[n]}) < ef
<1> DEFINE v == r.sorted
           p == r.curr + 1
           closer == {m \in seen : d[m] < d[n]}
           T == FirstData(v, r.curr)
<1>1. /\ Len(v) \in Nat /\ r.curr \in 0 .. Len(v) /\ DataOnce(v)
      /\ ef \in Nat \ {0} /\ d \in [Node -> Int] /\ seen \in SUBSET Node
      /\ \A i \in 1 .. Len(v) : v[i].data \in seen /\ (v[i].used <=> v[i].data \in exp)
      /\ \A i \in 1 .. r.curr : v[i].used
      /\ \A i, j \in 1 .. Len(v) : i <= j => d[v[i].data] <= d[v[j].data]
      /\ \A m \in seen : \/ \E i \in 1 .. Len(v) : v[i].data = m
                         \/ \A i \in 1 .. Len(v) : d[v[i].data] <= d[m]
  <2>1. ArrayFacts(r, v, d, seen, exp)
    BY ArrayShows
  <2> HIDE DEF v
  <2> QED
    BY <2>1 DEF ArrayFacts
<1>2. p \in 1 .. Len(v) /\ r.curr < ef /\ n = v[p].data /\ n \in seen
  BY <1>1 DEF MoreToUse, Current
<1> HIDE DEF v
<1>3. ASSUME NEW m \in closer PROVE \E i \in 1 .. r.curr : v[i].data = m
  <2>1. m \in seen /\ d[m] < d[n] /\ d[m] \in Int /\ d[n] \in Int
    BY <1>1, <1>2
  <2>2. PICK i \in 1 .. Len(v) : v[i].data = m
    BY <1>1, <1>2, <2>1
  <2>3. ~ (p <= i)
    BY <1>1, <1>2, <2>1, <2>2, SMTT(30)
  <2>4. i \in 1 .. r.curr
    BY <1>1, <2>3
  <2> QED
    BY <2>2, <2>4
<1>4. \A m \in seen \ exp : ~ (d[m] < d[n])
  <2>1. ASSUME NEW m \in seen \ exp, d[m] < d[n] PROVE FALSE
    <3>1. PICK i \in 1 .. r.curr : v[i].data = m
      BY <1>3, <2>1
    <3>2. i \in 1 .. Len(v) /\ v[i].used
      BY <1>1
    <3> QED
      BY <1>1, <2>1, <3>1, <3>2
  <2> QED
    BY <2>1
<1>5. IsFiniteSet(T) /\ Cardinality(T) = r.curr
  BY <1>1, FirstDataIs
<1>6. closer \subseteq T
  BY <1>3 DEF FirstData
<1>7. Cardinality(closer) <= Cardinality(T) /\ Cardinality(closer) \in Nat
  BY <1>5, <1>6, FS_Subset, FS_CardinalityType
<1> HIDE DEF T, closer
<1>8. Cardinality(closer) < ef
  BY <1>1, <1>2, <1>5, <1>7
<1> QED
  BY <1>4, <1>8 DEF closer

\* When there is nothing more to use, ef nodes are as close as any that was not expanded.
LEMMA ArrayEnds ==
    ASSUME NEW r, NEW seen, NEW exp, ArrayOK(r, seen, exp), ~ MoreToUse(r), NEW d, d = Dist[r.q],
           NEW n \in seen \ exp
    PROVE  Cardinality({m \in seen \ {n} : d[m] <= d[n]}) >= ef
<1> DEFINE v == r.sorted
           near == {m \in seen \ {n} : d[m] <= d[n]}
           T == FirstData(v, ef)
<1>1. /\ Len(v) \in Nat /\ r.curr \in 0 .. Len(v) /\ DataOnce(v)
      /\ ef \in Nat \ {0} /\ d \in [Node -> Int] /\ seen \in SUBSET Node
      /\ \A i \in 1 .. Len(v) : v[i].data \in seen /\ (v[i].used <=> v[i].data \in exp)
      /\ \A i \in 1 .. r.curr : v[i].used
      /\ \A i, j \in 1 .. Len(v) : i <= j => d[v[i].data] <= d[v[j].data]
      /\ \A m \in seen : \/ \E i \in 1 .. Len(v) : v[i].data = m
                         \/ Len(v) >= ef /\ \A i \in 1 .. Len(v) : d[v[i].data] <= d[m]
  <2>1. ArrayFacts(r, v, d, seen, exp)
    BY ArrayShows
  <2> HIDE DEF v
  <2> QED
    BY <2>1 DEF ArrayFacts
<1>2. ~ (r.curr < Len(v)) \/ ~ (r.curr < ef)
  BY DEF MoreToUse
<1> HIDE DEF v
<1>3. /\ ef <= Len(v)
      /\ \A i \in 1 .. ef : v[i].data # n /\ d[v[i].data] <= d[n]
  <2>1. CASE \E i \in 1 .. Len(v) : v[i].data = n
    <3>1. PICK i \in 1 .. Len(v) : v[i].data = n
      BY <2>1
    <3>2. ~ v[i].used
      BY <1>1, <3>1
    <3>3. ~ (i <= r.curr)
      BY <1>1, <3>2
    <3>4. ef <= r.curr /\ r.curr < i
      BY <1>1, <1>2, <3>3
    <3>5. ASSUME NEW j \in 1 .. ef PROVE v[j].data # n /\ d[v[j].data] <= d[n]
      <4>1. j \in 1 .. Len(v) /\ j <= i /\ j # i
        BY <1>1, <3>4
      <4> QED
        BY <1>1, <3>1, <4>1 DEF DataOnce
    <3> QED
      BY <1>1, <3>4, <3>5
  <2>2. CASE ~ \E i \in 1 .. Len(v) : v[i].data = n
    <3>1. Len(v) >= ef /\ \A i \in 1 .. Len(v) : d[v[i].data] <= d[n]
      BY <1>1, <2>2
    <3>2. \A i \in 1 .. ef : i \in 1 .. Len(v)
      BY <1>1, <3>1
    <3> QED
      BY <1>1, <2>2, <3>1, <3>2
  <2> QED
    BY <2>1, <2>2
<1>4. IsFiniteSet(T) /\ Cardinality(T) = ef
  <2>1. ef \in 0 .. Len(v)
    BY <1>1, <1>3
  <2> QED
    BY <1>1, <2>1, FirstDataIs
<1>5. T \subseteq near
  <2>1. \A i \in 1 .. ef : v[i].data \in near
    <3>1. \A i \in 1 .. ef : i \in 1 .. Len(v)
      BY <1>1, <1>3
    <3> QED
      BY <1>1, <1>3, <3>1
  <2> QED
    BY <2>1 DEF FirstData
<1>6. near \in SUBSET Node
  BY <1>1
<1> HIDE DEF T, near
<1>7. IsFiniteSet(near) /\ Cardinality(near) \in Nat
  BY <1>6, NodeSets
<1>8. Cardinality(T) <= Cardinality(near)
  BY <1>5, <1>7, FS_Subset
<1> QED
  BY <1>1, <1>4, <1>7, <1>8 DEF near

\* The result of a search with an array are the objects of its first items.
LEMMA OfferedIs ==
    ASSUME NEW r, NEW seen, NEW exp, ArrayOK(r, seen, exp),
           NEW K, K = IF r.k < Len(r.sorted) THEN r.k ELSE Len(r.sorted)
    PROVE  Offered(r) = FirstData(r.sorted, K)
<1> DEFINE v == r.sorted
           d == Dist[r.q]
           A == [i \in 0 .. K |-> {FirstData(v, i)}]
           G == [i \in 0 .. K |-> FirstData(v, i)]
           Add(R, i) == CheckAndAdd(d, r.k, R, v[i].data)
           F == CHOOSE f : f = [i \in 0 .. K |->
                    IF i = 0 THEN {} ELSE CheckAndAdd(Dist[r.q], r.k, f[i - 1], r.sorted[i].data)]
<1>1. Len(v) \in Nat /\ DataOnce(v) /\ r.k \in Nat \ {0}
  <2>1. ArrayFacts(r, v, d, seen, exp)
    BY ArrayShows
  <2> HIDE DEF v
  <2> QED
    BY <2>1 DEF ArrayFacts
<1>2. K \in Nat /\ K <= r.k /\ K <= Len(v)
  BY <1>1
<1>3. Offered(r) = F[K]
  BY Zenon DEF Offered, F
<1> HIDE DEF v, d
<1>4. ASSUME NEW i \in 1 .. K
      PROVE  Add(FirstData(v, i - 1), i) = FirstData(v, i)
  <2>1. i - 1 \in 0 .. Len(v) /\ i - 1 < r.k
    BY <1>1, <1>2
  <2>2. Cardinality(FirstData(v, i - 1)) = i - 1
    BY <1>1, <2>1, FirstDataIs
  <2>3. Add(FirstData(v, i - 1), i) = FirstData(v, i - 1) \cup {v[i].data}
    BY <2>1, <2>2 DEF CheckAndAdd
  <2>4. \A k \in 1 .. i : k \in 1 .. i - 1 \/ k = i
    BY <1>2
  <2>5. (\A k \in 1 .. i - 1 : k \in 1 .. i) /\ i \in 1 .. i
    BY <1>2
  <2>6. FirstData(v, i - 1) \cup {v[i].data} = FirstData(v, i)
    BY <2>4, <2>5 DEF FirstData
  <2> QED
    BY <2>3, <2>6
<1>5. FirstData(v, 0) = {}
  BY DEF FirstData
<1> HIDE DEF Add, F
<1>6. G = [i \in 0 .. K |-> IF i = 0 THEN {} ELSE Add(G[i - 1], i)]
  <2>1. ASSUME NEW i \in 0 .. K
        PROVE  G[i] = IF i = 0 THEN {} ELSE Add(G[i - 1], i)
    <3>1. CASE i = 0
      BY <1>5, <3>1
    <3>2. CASE i # 0
      <4>1. i \in 1 .. K /\ i - 1 \in 0 .. K
        BY <1>2, <3>2
      <4> QED
        BY <1>4, <3>2, <4>1
    <3> QED
      BY <3>1, <3>2
  <2> QED
    BY <2>1
<1>7. F = [i \in 0 .. K |-> IF i = 0 THEN {} ELSE Add(F[i - 1], i)]
  BY <1>6, Zenon DEF F, Add, v, d
<1>8. \A i \in 0 .. K : F[i] \in A[i]
  <2>1. F[0] \in A[0]
    <3>1. 0 \in 0 .. K
      BY <1>2
    <3>2. F[0] = {}
      BY <1>7, <3>1
    <3>3. A[0] = {FirstData(v, 0)}
      BY <3>1
    <3> QED
      BY <1>5, <3>2, <3>3
  <2>2. \A i \in 1 .. K : F[i - 1] \in A[i - 1] => F[i] \in A[i]
    <3>1. ASSUME NEW i \in 1 .. K, F[i - 1] \in A[i - 1] PROVE F[i] \in A[i]
      <4>1. i - 1 \in 0 .. K /\ i \in 0 .. K /\ i # 0
        BY <1>2
      <4>2. F[i] = Add(F[i - 1], i) /\ F[i - 1] = FirstData(v, i - 1)
        BY <1>7, <3>1, <4>1
      <4> QED
        BY <1>4, <4>1, <4>2
    <3> QED
      BY <3>1
  <2> HIDE DEF A
  <2> QED
    BY <1>2, <2>1, <2>2, LoopKeeps
<1>9. F[K] = FirstData(v, K)
  <2>1. K \in 0 .. K
    BY <1>2
  <2>2. F[K] \in A[K] /\ A[K] = {FirstData(v, K)}
    BY <1>8, <2>1
  <2> QED
    BY <2>2
<1> QED
  BY <1>3, <1>9 DEF v

\* What a search may answer with.
Answers(d, k, seen, A) ==
    /\ A \subseteq seen /\ Cardinality(A) <= k
    /\ \A n \in seen \ A : Cardinality(AsNear(d, A, n)) >= Least(k, ef)

LEMMA OfferedAnswers ==
    ASSUME NEW r, NEW seen, NEW exp, ArrayOK(r, seen, exp)
    PROVE  Answers(Dist[r.q], r.k, seen, Offered(r))
<1> DEFINE v == r.sorted
           d == Dist[r.q]
<1>1. PICK K : K = IF r.k < Len(v) THEN r.k ELSE Len(v)
  OBVIOUS
<1>2. Offered(r) = FirstData(v, K)
  BY <1>1, OfferedIs
<1>3. /\ Len(v) \in Nat /\ DataOnce(v) /\ r.k \in Nat \ {0} /\ ef \in Nat \ {0}
      /\ d \in [Node -> Int] /\ seen \in SUBSET Node
      /\ \A i \in 1 .. Len(v) : v[i].data \in seen
      /\ \A i, j \in 1 .. Len(v) : i <= j => d[v[i].data] <= d[v[j].data]
      /\ \A n \in seen : \/ \E i \in 1 .. Len(v) : v[i].data = n
                         \/ Len(v) >= ef /\ \A i \in 1 .. Len(v) : d[v[i].data] <= d[n]
  <2>1. ArrayFacts(r, v, d, seen, exp)
    BY ArrayShows
  <2> HIDE DEF v
  <2> QED
    BY <2>1 DEF ArrayFacts
<1> HIDE DEF v, d
<1>4. K \in Nat /\ K <= r.k /\ K <= Len(v) /\ (K = r.k \/ K = Len(v))
  BY <1>1, <1>3
<1>5. Cardinality(FirstData(v, K)) = K
  BY <1>3, <1>4, FirstDataIs
<1>6. \A i \in 1 .. K : i \in 1 .. Len(v)
  BY <1>3, <1>4
<1>7. FirstData(v, K) \subseteq seen
  BY <1>3, <1>6 DEF FirstData
<1>8. ASSUME NEW n \in seen \ FirstData(v, K)
      PROVE  Cardinality(AsNear(d, FirstData(v, K), n)) >= Least(r.k, ef)
  <2>1. K >= Least(r.k, ef) /\ \A i \in 1 .. K : d[v[i].data] <= d[n]
    <3>1. CASE \E i \in 1 .. Len(v) : v[i].data = n
      <4>1. PICK i \in 1 .. Len(v) : v[i].data = n
        BY <3>1
      <4>2. ~ (i <= K)
        <5>1. i \in 1 .. K => n \in FirstData(v, K)
          BY <4>1 DEF FirstData
        <5> QED
          BY <1>4, <5>1
      <4>3. K = r.k /\ K >= Least(r.k, ef)
        BY <1>3, <1>4, <4>2 DEF Least
      <4>4. \A j \in 1 .. K : j <= i
        BY <1>3, <1>4, <4>2
      <4> QED
        BY <1>3, <1>6, <4>1, <4>3, <4>4
    <3>2. CASE ~ \E i \in 1 .. Len(v) : v[i].data = n
      <4>1. Len(v) >= ef /\ \A i \in 1 .. Len(v) : d[v[i].data] <= d[n]
        BY <1>3, <3>2
      <4>2. K >= Least(r.k, ef)
        BY <1>3, <1>4, <4>1 DEF Least
      <4> QED
        BY <1>6, <4>1, <4>2
    <3> QED
      BY <3>1, <3>2
  <2>2. AsNear(d, FirstData(v, K), n) = FirstData(v, K)
    BY <2>1 DEF AsNear, FirstData
  <2> QED
    BY <1>5, <2>1, <2>2
<1> QED
  BY <1>2, <1>4, <1>5, <1>7, <1>8 DEF Answers, d

\* The farthest of the closest nodes, and where the search stands to it.
LEMMA FrontShows ==
    ASSUME NEW r, NEW seen, NEW exp, OldOK(r, seen, exp), ef \in Nat \ {0}
    PROVE  /\ r \in OldRecord /\ Dist[r.q] \in [Node -> Int] /\ seen \in SUBSET Node
           /\ Farthest(Dist[r.q], r.closest) \in r.closest
           /\ \A c \in r.closest : Dist[r.q][c] <= Dist[r.q][Farthest(Dist[r.q], r.closest)]
           /\ Cardinality(r.closest) \in Nat /\ IsFiniteSet(r.closest)
<1>1. r \in OldRecord /\ FrontHolds(Dist[r.q], r.candidates, r.closest, seen, exp)
  BY DEF OldOK
<1>2. Dist[r.q] \in [Node -> Int] /\ r.closest \in SUBSET Node
  BY <1>1, IndicesAssumption DEF OldRecord
<1>3. r.closest # {} /\ seen \in SUBSET Node
  BY <1>1 DEF FrontHolds
<1>4. IsFiniteSet(r.closest) /\ Cardinality(r.closest) \in Nat
  BY <1>2, NodeSets
<1>5. \A x \in r.closest : Dist[r.q][x] \in Int
  BY <1>2
<1>6. /\ Farthest(Dist[r.q], r.closest) \in r.closest
      /\ \A c \in r.closest : Dist[r.q][c] <= Dist[r.q][Farthest(Dist[r.q], r.closest)]
  BY <1>3, <1>4, <1>5, FarthestIs
<1> QED
  BY <1>1, <1>2, <1>3, <1>4, <1>6

\* The old search expands the closest node that was not expanded, and fewer than
\* ef nodes are closer.
LEMMA OldTakesNearest ==
    ASSUME NEW r, NEW seen, NEW exp, OldOK(r, seen, exp), ef \in Nat \ {0}, ~ AtMinimum(r),
           NEW d, d = Dist[r.q], NEW n \in NearestOf(d, r.candidates)
    PROVE  /\ n \in r.candidates /\ n \in seen \ exp
           /\ \A m \in seen \ exp : ~ (d[m] < d[n])
           /\ Cardinality({m \in seen : d[m] < d[n]}) < ef
<1> DEFINE closer == {m \in seen : d[m] < d[n]}
           f == Farthest(d, r.closest)
           T == r.closest \ {f}
<1>1. /\ d \in [Node -> Int] /\ seen \in SUBSET Node /\ f \in r.closest
      /\ (\A c \in r.closest : d[c] <= d[f])
      /\ Cardinality(r.closest) \in Nat /\ IsFiniteSet(r.closest)
  BY FrontShows
<1>2. FrontHolds(d, r.candidates, r.closest, seen, exp)
  BY DEF OldOK
<1>3. \E x \in r.candidates : ~ (d[x] > d[f])
  BY DEF AtMinimum
<1> HIDE DEF f
<1>4. n \in r.candidates /\ \A m \in r.candidates : d[n] <= d[m]
  BY DEF NearestOf
<1>5. r.candidates \subseteq seen \ exp /\ r.closest \subseteq seen
  BY <1>2 DEF FrontHolds
<1>6. d[n] <= d[f] /\ d[f] \in Int /\ d[n] \in Int
  <2>1. PICK x \in r.candidates : ~ (d[x] > d[f])
    BY <1>3
  <2>2. d[x] \in Int /\ d[f] \in Int /\ d[n] \in Int /\ d[n] <= d[x]
    BY <1>1, <1>4, <1>5
  <2> QED
    BY <2>1, <2>2
<1>7. ASSUME NEW m \in seen, d[m] < d[n] PROVE m \in T
  <2>1. d[m] \in Int /\ d[m] < d[f]
    BY <1>1, <1>6, <1>7
  <2>2. m # f
    BY <1>6, <2>1
  <2>3. m \in r.closest
    <3>1. m \notin r.closest => d[f] <= d[m]
      BY <1>1, <1>2 DEF FrontHolds
    <3> QED
      BY <1>6, <2>1, <3>1
  <2> QED
    BY <2>2, <2>3
<1>8. ASSUME NEW m \in seen \ exp, d[m] < d[n] PROVE FALSE
  <2>1. m \in r.closest
    BY <1>7, <1>8
  <2>2. m \in r.candidates
    BY <1>2, <2>1 DEF FrontHolds
  <2>3. d[n] <= d[m] /\ d[m] \in Int
    BY <1>1, <1>4, <2>2
  <2> QED
    BY <1>6, <1>8, <2>3
<1>9. IsFiniteSet(T) /\ Cardinality(T) = Cardinality(r.closest) - 1
  BY <1>1, FS_RemoveElement
<1>10. closer \subseteq T
  BY <1>7
<1>11. Cardinality(closer) <= Cardinality(T) /\ Cardinality(closer) \in Nat
  BY <1>9, <1>10, FS_Subset, FS_CardinalityType
<1>12. Cardinality(r.closest) <= ef
  BY <1>2 DEF FrontHolds
<1> HIDE DEF T, closer
<1>13. Cardinality(closer) < ef
  BY <1>1, <1>9, <1>11, <1>12
<1> QED
  BY <1>4, <1>5, <1>8, <1>13 DEF closer

\* At the local minimum, ef nodes are as close as any that was not expanded.
LEMMA OldEnds ==
    ASSUME NEW r, NEW seen, NEW exp, OldOK(r, seen, exp), ef \in Nat \ {0}, AtMinimum(r),
           NEW d, d = Dist[r.q], NEW n \in seen \ exp
    PROVE  Cardinality({m \in seen \ {n} : d[m] <= d[n]}) >= ef
<1> DEFINE near == {m \in seen \ {n} : d[m] <= d[n]}
           f == Farthest(d, r.closest)
<1>1. /\ d \in [Node -> Int] /\ seen \in SUBSET Node /\ f \in r.closest
      /\ (\A c \in r.closest : d[c] <= d[f])
      /\ Cardinality(r.closest) \in Nat /\ IsFiniteSet(r.closest)
  BY FrontShows
<1>2. FrontHolds(d, r.candidates, r.closest, seen, exp)
  BY DEF OldOK
<1>3. \A x \in r.candidates : d[x] > d[f]
  BY DEF AtMinimum
<1> HIDE DEF f
<1>4. n \notin r.closest
  <2>1. CASE n \in r.candidates
    <3>1. d[n] > d[f] /\ d[n] \in Int /\ d[f] \in Int
      BY <1>1, <1>2, <1>3, <2>1 DEF FrontHolds
    <3> QED
      BY <1>1, <3>1
  <2>2. CASE n \notin r.candidates
    BY <1>2, <2>2 DEF FrontHolds
  <2> QED
    BY <2>1, <2>2
<1>5. Cardinality(r.closest) = ef
  <2>1. Cardinality(r.closest) <= ef /\ ~ (Cardinality(r.closest) < ef)
    BY <1>2, <1>4 DEF FrontHolds
  <2> QED
    BY <1>1, <2>1
<1>6. r.closest \subseteq near
  BY <1>2, <1>4 DEF FrontHolds
<1>7. near \in SUBSET Node
  BY <1>1
<1> HIDE DEF near
<1>8. IsFiniteSet(near) /\ Cardinality(near) \in Nat
  BY <1>7, NodeSets
<1>9. Cardinality(r.closest) <= Cardinality(near)
  BY <1>6, <1>8, FS_Subset
<1> QED
  BY <1>5, <1>9 DEF near

Pop(r, n) == [r EXCEPT !.candidates = @ \ {n}]

\* One round of the old search.
LEMMA OldStepKeeps ==
    ASSUME NEW r, NEW seen, NEW exp, OldOK(r, seen, exp), ef \in Nat \ {0},
           NEW n \in r.candidates,
           NEW new \in Seq(Node), Once(new), ToSet(new) \cap seen = {},
           NEW u, u = Visited(Pop(r, n), new)
    PROVE  OldOK(u, seen \cup ToSet(new), exp \cup {n}) /\ SameSearch(r, u)
<1> DEFINE p == Pop(r, n)
           C == r.candidates \ {n}
           E == exp \cup {n}
           d == Dist[r.q]
<1>1. /\ r \in OldRecord /\ FrontHolds(d, r.candidates, r.closest, seen, exp)
      /\ Best(d, r.k, r.result, r.closest, seen)
  BY DEF OldOK
<1>2. /\ p \in OldRecord /\ SameSearch(r, p)
      /\ p.candidates = C /\ p.closest = r.closest /\ p.result = r.result
  BY <1>1 DEF Pop, OldRecord, SameSearch
<1> HIDE DEF p, d
<1>3. FrontHolds(d, C, r.closest, seen, E)
  <2>1. C \subseteq seen \ E /\ E \subseteq seen
    BY <1>1 DEF FrontHolds
  <2>2. E \cup C = exp \cup r.candidates
    OBVIOUS
  <2> HIDE DEF E, C
  <2> QED
    BY <1>1, <2>1, <2>2 DEF FrontHolds
<1> HIDE DEF E, C
<1>4. OldOK(p, seen, E)
  <2>1. p.q = r.q /\ p.k = r.k
    BY <1>2 DEF SameSearch
  <2> QED
    BY <1>1, <1>2, <1>3, <2>1 DEF OldOK, d
<1>5. OldOK(u, seen \cup ToSet(new), E) /\ SameSearch(p, u)
  BY <1>4, VisitedKeeps DEF p
<1> QED
  BY <1>2, <1>5 DEF SameSearch, E

LEMMA OldAnswers ==
    ASSUME NEW r, NEW seen, NEW exp, OldOK(r, seen, exp)
    PROVE  Answers(Dist[r.q], r.k, seen, r.result)
BY DEF OldOK, Best, Answers

\* The walk on level 0 begins with one node.
StartOld(r) ==
    [pc |-> "old", q |-> r.q, k |-> r.k, list |-> r.list, bits |-> {},
     candidates |-> {r.node}, closest |-> {r.node},
     result |-> CheckAndAdd(Dist[r.q], r.k, {}, r.node)]

StartArray(r) ==
    [pc |-> "v1merge", q |-> r.q, k |-> r.k, list |-> r.list, bits |-> {},
     sorted |-> <<Item(Dist[r.q][r.node], r.node)>>, curr |-> 0,
     cap |-> IF ef > r.k THEN ef ELSE r.k]

Ready(r) == r.q \in Queries /\ r.k \in Ks /\ r.list \in Nat /\ r.node \in Node

LEMMA StartOldIs ==
    ASSUME NEW r, Ready(r), ef \in Nat \ {0}
    PROVE  OldOK(StartOld(r), {r.node}, {})
<1> DEFINE u == StartOld(r)
           n == r.node
           d == Dist[r.q]
           A == CheckAndAdd(d, r.k, {}, n)
<1>1. r.k \in Nat \ {0} /\ n \in Node /\ d \in [Node -> Int]
  BY PositiveAssumption, IndicesAssumption DEF Ready
<1>2. A = {n}
  <2>1. Cardinality({}) = 0
    BY FS_EmptySet
  <2> QED
    BY <1>1, <2>1 DEF CheckAndAdd
<1> HIDE DEF A
<1>3. /\ u \in OldRecord /\ u.q = r.q /\ u.k = r.k
      /\ u.candidates = {n} /\ u.closest = {n} /\ u.result = {n}
  BY <1>1, <1>2 DEF StartOld, OldRecord, Ready, A
<1> HIDE DEF u, n, d
<1>4. Cardinality({n}) = 1
  BY FS_Singleton
<1>5. FrontHolds(d, {n}, {n}, {n}, {})
  BY <1>1, <1>4 DEF FrontHolds
<1>6. Best(d, r.k, {n}, {n}, {n})
  BY <1>1, <1>4 DEF Best
<1> QED
  BY <1>3, <1>5, <1>6 DEF OldOK, u, n, d

LEMMA StartArrayIs ==
    ASSUME NEW r, Ready(r), ef \in Nat \ {0}
    PROVE  ArrayOK(StartArray(r), {r.node}, {})
<1> DEFINE u == StartArray(r)
           n == r.node
           d == Dist[r.q]
           x == Item(d[n], n)
           v == <<x>>
           cap == IF ef > r.k THEN ef ELSE r.k
           c == [v |-> v, at |-> 0]
<1>1. r.k \in Nat \ {0} /\ n \in Node /\ d \in [Node -> Int]
  BY PositiveAssumption, IndicesAssumption DEF Ready
<1>2. x \in Items(Node) /\ x.key = d[n] /\ x.data = n /\ ~ x.used
  BY <1>1 DEF Item, Items
<1> HIDE DEF x
<1>3. v \in Seq(Items(Node)) /\ Len(v) = 1 /\ v[1] = x
  BY <1>2
<1> HIDE DEF v
<1>4. cap \in Nat /\ 1 <= cap /\ ef <= cap
  BY <1>1
<1>5. /\ u \in ArrayRecord /\ u.q = r.q /\ u.k = r.k
      /\ u.sorted = v /\ u.curr = 0 /\ u.cap = cap
  <2>1. u = [pc |-> "v1merge", q |-> r.q, k |-> r.k, list |-> r.list, bits |-> {},
             sorted |-> v, curr |-> 0, cap |-> cap]
    BY Zenon DEF StartArray, v, x, d, n
  <2> HIDE DEF u, cap
  <2> QED
    BY <1>3, <1>4, <2>1 DEF ArrayRecord, Ready
<1> HIDE DEF u, n, d, cap
<1>6. Array(v, Node)
  BY <1>2, <1>3 DEF Array, Ascending, DataOnce, Items
<1>7. Shows(v, d, {n}, {})
  BY <1>2, <1>3 DEF Shows
<1>8. Misses(v, d, cap, {n}, {})
  BY <1>2, <1>3 DEF Misses
<1>9. Holds(v, d, cap, {n}, {}, {})
  BY <1>3, <1>4, <1>6, <1>7, <1>8 DEF Holds
<1>10. c.v = v /\ Passed(c)
  BY <1>3 DEF Passed, Pair, UpTo
<1>11. Putting(d, cap, {n}, {}, {}, c)
  <2> HIDE DEF c
  <2> QED
    BY <1>1, <1>4, <1>9, <1>10 DEF Putting, Fresh
<1>12. InArray(u, {n}, {}, {})
  BY <1>5, <1>11 DEF InArray, d
<1>13. IsFirstUnused(v, 0)
  BY <1>2, <1>3 DEF IsFirstUnused, UpTo
<1>14. ArrayOK(u, {n}, {})
  BY <1>5, <1>12, <1>13 DEF ArrayOK, cap
<1> QED
  BY <1>14 DEF u, n

-----------------------------------------------------------------------------
(* The visited lists.                                                      *)

Holding == {s \in Searches : search[s].pc \in Begun}

\* A search that was begun knows its list.
Shape(r) ==
    /\ {"pc", "list"} \subseteq DOMAIN r
    /\ r.pc \in Begun

ListType == [curV : 0 .. VlMod - 1, mass : [Node -> 0 .. VlMod - 1]]

\* The lists that are held and those in the pool are all lists, each once.
Divided ==
    /\ lists \in Seq(ListType) /\ pool \in Seq(Nat)
    /\ \A i \in 1 .. Len(pool) : pool[i] \in 1 .. Len(lists)
    /\ \A i, j \in 1 .. Len(pool) : pool[i] = pool[j] => i = j
    /\ \A s \in Holding : search[s].list \in 1 .. Len(lists)
    /\ \A s \in Holding, i \in 1 .. Len(pool) : pool[i] # search[s].list
    /\ \A s, t \in Holding : search[s].list = search[t].list => s = t
    /\ Len(lists) = Cardinality(Holding) + Len(pool)

ListsInv ==
    /\ IsFiniteSet(Holding)
    /\ \A s \in Holding : Shape(search[s])
    /\ Pooled => Divided

\* A step in which the searches under way stay so and keep their lists.
LEMMA HoldingStays ==
    ASSUME ListsInv, index' = index, pool' = pool, Holding' = Holding,
           \A s \in Holding : Shape(search'[s]) /\ search'[s].list = search[s].list,
           Pooled => lists' \in Seq(ListType) /\ Len(lists') = Len(lists)
    PROVE  ListsInv'
<1>1. Pooled' = Pooled
  BY DEF Pooled
<1>2. ASSUME Pooled PROVE Divided'
  <2>1. Divided /\ lists' \in Seq(ListType) /\ Len(lists') = Len(lists)
    BY <1>2 DEF ListsInv
  <2>2. \A s \in Holding : search'[s].list = search[s].list
    OBVIOUS
  <2> HIDE DEF ListsInv
  <2>3. /\ \A s \in Holding : search'[s].list \in 1 .. Len(lists)
        /\ \A s \in Holding, i \in 1 .. Len(pool) : pool[i] # search'[s].list
        /\ \A s, t \in Holding : search'[s].list = search'[t].list => s = t
    BY <2>1, <2>2 DEF Divided
  <2> QED
    BY <2>1, <2>3 DEF Divided
<1> QED
  BY <1>1, <1>2 DEF ListsInv

\* A search goes on with its list.
LEMMA WalkKeepsList ==
    ASSUME ListsInv, DOMAIN search = Searches, NEW s \in Holding,
           index' = index, pool' = pool,
           NEW to, search' = [search EXCEPT ![s] = to], Shape(to), to.list = search[s].list,
           Pooled => lists' \in Seq(ListType) /\ Len(lists') = Len(lists)
    PROVE  ListsInv'
<1>1. s \in Searches /\ search[s].pc \in Begun
  BY DEF Holding
<1>2. search'[s] = to /\ \A t \in Searches \ {s} : search'[t] = search[t]
  BY <1>1
<1>3. Holding' = Holding
  BY <1>1, <1>2 DEF Holding, Shape
<1>4. \A t \in Holding : Shape(search'[t]) /\ search'[t].list = search[t].list
  <2>1. ASSUME NEW t \in Holding
        PROVE  Shape(search'[t]) /\ search'[t].list = search[t].list
    <3>1. CASE t = s
      BY <1>2, <3>1
    <3>2. CASE t # s
      BY <1>2, <3>2 DEF ListsInv, Holding
    <3> QED
      BY <3>1, <3>2
  <2> QED
    BY <2>1
<1> QED
  BY <1>3, <1>4, HoldingStays

\* Marking nodes changes one list, which keeps its type.
LEMMA GoOnKeepsLists ==
    ASSUME ListsInv, DOMAIN search = Searches, NEW s \in Holding,
           index' = index, pool' = pool,
           NEW to, NEW new, GoOn(s, to, new),
           {"pc", "list"} \subseteq DOMAIN to, to.pc \in {"old", "v1merge"},
           to.list = search[s].list
    PROVE  ListsInv'
<1>1. CASE Pooled
  <2> DEFINE id == to.list
             mass == [n \in Node |-> IF n \in new THEN lists[id].curV ELSE lists[id].mass[n]]
  <2>1. /\ search' = [search EXCEPT ![s] = to]
        /\ lists' = [lists EXCEPT ![id].mass = mass]
    BY <1>1 DEF GoOn
  <2>2. id \in 1 .. Len(lists) /\ lists \in Seq(ListType)
    BY <1>1 DEF ListsInv, Divided
  <2>3. lists[id] \in ListType
    BY <2>2, ElementOfSeq
  <2>4. mass \in [Node -> 0 .. VlMod - 1]
    BY <2>3 DEF ListType
  <2> HIDE DEF mass, id
  <2> DEFINE list == [lists[id] EXCEPT !.mass = mass]
  <2>5. list \in ListType
    BY <2>3, <2>4 DEF ListType
  <2>6. lists' = [lists EXCEPT ![id] = list]
    BY <2>1
  <2> HIDE DEF list
  <2>7. lists' \in Seq(ListType) /\ Len(lists') = Len(lists)
    BY <2>2, <2>5, <2>6, ExceptSeq
  <2>8. Shape(to)
    BY DEF Shape, Begun
  <2> QED
    BY <2>1, <2>7, <2>8, WalkKeepsList
<1>2. CASE ~ Pooled
  <2> DEFINE bits == to.bits \cup new
             r == [to EXCEPT !.bits = bits]
  <2>1. search' = [search EXCEPT ![s] = r]
    BY <1>2 DEF GoOn
  <2> HIDE DEF bits
  <2>2. Shape(r) /\ r.list = search[s].list
    BY DEF Shape, Begun
  <2> HIDE DEF r
  <2> QED
    BY <1>2, <2>1, <2>2, WalkKeepsList
<1> QED
  BY <1>1, <1>2

LEMMA ResetTyped ==
    ASSUME NEW list \in ListType
    PROVE  Reset(list) \in ListType
<1> DEFINE v == (list.curV + 1) % VlMod
<1>1. VlMod \in Nat \ {0, 1}
  BY PositiveAssumption
<1>2. v \in 0 .. VlMod - 1
  <2>1. list.curV \in 0 .. VlMod - 1
    BY DEF ListType
  <2> QED
    BY <1>1, <2>1
<1> HIDE DEF v
<1>3. Reset(list) = IF v = 0 THEN [curV |-> 1, mass |-> [n \in Node |-> 0]]
                    ELSE [list EXCEPT !.curV = v]
  BY DEF Reset, v
<1> QED
  BY <1>1, <1>2, <1>3 DEF ListType

LEMMA NewListTyped ==
    ASSUME NEW garbage \in 0 .. VlMod - 1
    PROVE  NewList(garbage) \in ListType
<1>1. VlMod \in Nat \ {0, 1}
  BY PositiveAssumption
<1> QED
  BY <1>1 DEF NewList, ListType

\* What getFreeVisitedList takes is in the pool or new: nobody holds it.
LEMMA TakeListTakes ==
    ASSUME Divided, IsFiniteSet(Holding), NEW s \in Searches \ Holding,
           NEW id, TakeList(id),
           Holding' = Holding \cup {s}, search'[s].list = id,
           \A t \in Holding : search'[t].list = search[t].list
    PROVE  Divided'
<1>1. Len(lists) \in Nat /\ Len(pool) \in Nat
  BY LenProperties DEF Divided
<1>2. Cardinality(Holding') = Cardinality(Holding) + 1 /\ Cardinality(Holding) \in Nat
  BY FS_AddElement, FS_CardinalityType
<1>3. CASE pool # <<>>
  <2> DEFINE list == Reset(lists[id])
  <2>1. id = Head(pool) /\ pool' = Tail(pool) /\ lists' = [lists EXCEPT ![id] = list]
    BY <1>3 DEF TakeList
  <2>2. /\ pool' \in Seq(Nat) /\ Len(pool') = Len(pool) - 1
        /\ \A i \in 1 .. Len(pool') : pool'[i] = pool[i + 1]
    BY <1>3, <2>1, HeadTailProperties DEF Divided
  <2>3. id = pool[1] /\ 1 \in 1 .. Len(pool) /\ id \in 1 .. Len(lists)
    BY <1>1, <1>3, <2>1, <2>2, LenProperties DEF Divided
  <2>4. list \in ListType
    <3>1. lists[id] \in ListType
      BY <2>3, ElementOfSeq DEF Divided
    <3> QED
      BY <3>1, ResetTyped
  <2> HIDE DEF list
  <2>5. lists' \in Seq(ListType) /\ Len(lists') = Len(lists)
    BY <2>1, <2>3, <2>4, ExceptSeq DEF Divided
  <2>6. /\ \A i \in 1 .. Len(pool') : pool'[i] \in 1 .. Len(lists') /\ pool'[i] # id
        /\ \A i, j \in 1 .. Len(pool') : pool'[i] = pool'[j] => i = j
    <3>1. ASSUME NEW i \in 1 .. Len(pool')
          PROVE  i + 1 \in 1 .. Len(pool) /\ i + 1 # 1
      BY <1>1, <2>2
    <3>2. \A i \in 1 .. Len(pool') : pool'[i] \in 1 .. Len(lists')
      BY <2>2, <2>5, <3>1 DEF Divided
    <3>3. \A i, j \in 1 .. Len(pool) : pool[i] = pool[j] => i = j
      BY DEF Divided
    <3>4. \A i \in 1 .. Len(pool') : pool'[i] # id
      BY <2>2, <2>3, <3>1, <3>3
    <3>5. ASSUME NEW i \in 1 .. Len(pool'), NEW j \in 1 .. Len(pool'), pool'[i] = pool'[j]
          PROVE  i = j
      <4>0. pool[i + 1] = pool[j + 1]
        BY <2>2, <3>5
      <4>1. i + 1 = j + 1
        BY <3>1, <3>3, <4>0
      <4> QED
        BY <1>1, <2>2, <4>1
    <3> QED
      BY <3>2, <3>4, <3>5
  <2>7. ASSUME NEW t \in Holding
        PROVE  /\ search[t].list \in 1 .. Len(lists) /\ search[t].list # id
               /\ \A i \in 1 .. Len(pool') : pool'[i] # search[t].list
    <3>1. ASSUME NEW i \in 1 .. Len(pool')
          PROVE  i + 1 \in 1 .. Len(pool)
      BY <1>1, <2>2
    <3> QED
      BY <2>2, <2>3, <3>1 DEF Divided
  <2>8. \A t \in Holding' : search'[t].list \in 1 .. Len(lists')
    BY <2>3, <2>5, <2>7
  <2>9. \A t \in Holding', i \in 1 .. Len(pool') : pool'[i] # search'[t].list
    BY <2>6, <2>7
  <2>10. \A t, u \in Holding' : search'[t].list = search'[u].list => t = u
    BY <2>7 DEF Divided
  <2>11. Len(lists') = Cardinality(Holding') + Len(pool')
    BY <1>1, <1>2, <2>2, <2>5 DEF Divided
  <2> QED
    BY <2>2, <2>5, <2>6, <2>8, <2>9, <2>10, <2>11 DEF Divided
<1>4. CASE pool = <<>>
  <2>1. PICK garbage \in 0 .. VlMod - 1 : lists' = Append(lists, Reset(NewList(garbage)))
    BY <1>4 DEF TakeList
  <2> DEFINE list == Reset(NewList(garbage))
  <2>2. list \in ListType
    BY NewListTyped, ResetTyped
  <2> HIDE DEF list
  <2>3. lists' = Append(lists, list) /\ id = Len(lists) + 1 /\ pool' = pool
    BY <1>4, <2>1 DEF TakeList, list
  <2>4. lists' \in Seq(ListType) /\ Len(lists') = Len(lists) + 1
    BY <2>2, <2>3, AppendProperties DEF Divided
  <2>5. Len(pool) = 0
    BY <1>4, EmptySeq
  <2>6. \A t \in Holding : search[t].list \in 1 .. Len(lists) /\ search[t].list # id
    BY <1>1, <2>3 DEF Divided
  <2>7. \A t \in Holding' : search'[t].list \in 1 .. Len(lists')
    BY <1>1, <2>3, <2>4, <2>6
  <2>8. \A t, u \in Holding' : search'[t].list = search'[u].list => t = u
    BY <2>6 DEF Divided
  <2>9. Len(lists') = Cardinality(Holding') + Len(pool')
    BY <1>1, <1>2, <2>3, <2>4, <2>5 DEF Divided
  <2> QED
    BY <2>3, <2>4, <2>5, <2>7, <2>8, <2>9 DEF Divided
<1> QED
  BY <1>3, <1>4

\* A list that is released goes to the front of the pool.
LEMMA ReleaseListReleases ==
    ASSUME Divided, IsFiniteSet(Holding), NEW s \in Holding, lists' = lists,
           pool' = <<search[s].list>> \o pool, Holding' = Holding \ {s},
           \A t \in Holding' : search'[t].list = search[t].list
    PROVE  Divided'
<1> DEFINE id == search[s].list
<1>1. Len(lists) \in Nat /\ Len(pool) \in Nat /\ id \in 1 .. Len(lists)
  BY LenProperties DEF Divided
<1>2. Cardinality(Holding') = Cardinality(Holding) - 1 /\ Cardinality(Holding) \in Nat
  BY FS_RemoveElement, FS_CardinalityType
<1>3. /\ pool' \in Seq(Nat) /\ Len(pool') = Len(pool) + 1
      /\ \A i \in 1 .. Len(pool') : pool'[i] = IF i = 1 THEN id ELSE pool[i - 1]
  <2>1. <<id>> \in Seq(Nat) /\ Len(<<id>>) = 1 /\ <<id>>[1] = id
    BY <1>1
  <2>2. pool \in Seq(Nat) /\ pool' = <<id>> \o pool
    BY DEF Divided
  <2> HIDE DEF id
  <2>3. /\ <<id>> \o pool \in Seq(Nat) /\ Len(<<id>> \o pool) = Len(<<id>>) + Len(pool)
        /\ \A i \in 1 .. Len(<<id>>) + Len(pool) :
              (<<id>> \o pool)[i] = IF i <= Len(<<id>>) THEN <<id>>[i] ELSE pool[i - Len(<<id>>)]
    BY <2>1, <2>2, ConcatProperties
  <2> QED
    BY <1>1, <2>1, <2>2, <2>3
<1>4. \A i \in 1 .. Len(pool) : pool[i] # id /\ pool[i] \in 1 .. Len(lists)
  BY DEF Divided
<1>5. \A i \in 1 .. Len(pool') : i # 1 => i - 1 \in 1 .. Len(pool)
  BY <1>1, <1>3
<1> HIDE DEF id
<1>6. \A i \in 1 .. Len(pool') : pool'[i] \in 1 .. Len(lists')
  BY <1>1, <1>3, <1>4, <1>5
<1>7. \A i, j \in 1 .. Len(pool') : pool'[i] = pool'[j] => i = j
  <2>1. ASSUME NEW i \in 1 .. Len(pool'), NEW j \in 1 .. Len(pool'), pool'[i] = pool'[j]
        PROVE  i = j
    <3>1. CASE i = 1 \/ j = 1
      BY <1>3, <1>4, <1>5, <2>1, <3>1
    <3>2. CASE i # 1 /\ j # 1
      <4>1. pool[i - 1] = pool[j - 1]
        BY <1>3, <2>1, <3>2
      <4>2. i - 1 = j - 1
        BY <1>5, <3>2, <4>1 DEF Divided
      <4> QED
        BY <1>1, <1>3, <4>2
    <3> QED
      BY <3>1, <3>2
  <2> QED
    BY <2>1
<1>8. \A t \in Holding' : search'[t].list \in 1 .. Len(lists') /\ search'[t].list # id
  BY DEF Divided, id
<1>9. ASSUME NEW t \in Holding', NEW i \in 1 .. Len(pool')
      PROVE  pool'[i] # search'[t].list
  <2>1. CASE i = 1
    BY <1>3, <1>8, <2>1
  <2>2. CASE i # 1
    <3>1. t \in Holding /\ search'[t].list = search[t].list
      OBVIOUS
    <3>2. pool[i - 1] # search[t].list
      BY <1>5, <2>2, <3>1 DEF Divided
    <3> QED
      BY <1>3, <2>2, <3>1, <3>2
  <2> QED
    BY <2>1, <2>2
<1>10. \A t, u \in Holding' : search'[t].list = search'[u].list => t = u
  BY DEF Divided
<1>11. Len(lists') = Cardinality(Holding') + Len(pool')
  BY <1>1, <1>2, <1>3 DEF Divided
<1>12. lists' \in Seq(ListType)
  BY DEF Divided
<1> QED
  BY <1>3, <1>6, <1>7, <1>8, <1>9, <1>10, <1>11, <1>12 DEF Divided

\* The steps of a search that mark no node.
LEMMA ListsSearch ==
    ASSUME ListsInv, DOMAIN search = Searches, NEW s \in Searches,
           Throw(s) \/ Start(s) \/ Descend(s) \/ FinishOld(s) \/ FinishV1Merge(s)
    PROVE  ListsInv'
<1> USE DEF Begun
<1>1. CASE Throw(s)
  <2>1. /\ search' = [search EXCEPT ![s] = [pc |-> "threw"]] /\ search[s].pc = "waiting"
        /\ UNCHANGED <<index, lists, pool>>
    BY <1>1 DEF Throw
  <2>2. search'[s].pc = "threw" /\ \A t \in Searches \ {s} : search'[t] = search[t]
    BY <2>1
  <2>3. s \notin Holding /\ Holding' = Holding
    BY <2>1, <2>2 DEF Holding
  <2>4. \A t \in Holding : Shape(search'[t]) /\ search'[t].list = search[t].list
    <3>1. \A t \in Holding : search'[t] = search[t]
      BY <2>2, <2>3 DEF Holding
    <3> QED
      BY <3>1 DEF ListsInv
  <2> QED
    BY <2>1, <2>3, <2>4, HoldingStays DEF ListsInv, Divided
<1>2. CASE Start(s)
  <2>1. PICK id \in 0 .. Len(lists) + 1 :
            /\ IF Pooled THEN TakeList(id) ELSE id = 0 /\ UNCHANGED <<lists, pool>>
            /\ search' = [search EXCEPT ![s] =
                  [pc |-> "descend", q |-> @.q, k |-> @.k, algo |-> Algorithm,
                   list |-> id, bits |-> {}, node |-> index.entry,
                   level |-> index.maxlevel]]
    BY <1>2 DEF Start
  <2>2. search[s].pc = "waiting" /\ index' = index
    BY <1>2 DEF Start
  <2>3. search'[s].pc = "descend" /\ search'[s].list = id /\ Shape(search'[s])
    BY <2>1 DEF Shape
  <2>4. \A t \in Searches \ {s} : search'[t] = search[t]
    BY <2>1
  <2>5. s \notin Holding /\ Holding' = Holding \cup {s}
    BY <2>2, <2>3, <2>4 DEF Holding
  <2>6. \A t \in Holding : search'[t] = search[t]
    BY <2>4, <2>5 DEF Holding
  <2>7. IsFiniteSet(Holding')
    BY <2>5, FS_AddElement DEF ListsInv
  <2>8. \A t \in Holding' : Shape(search'[t])
    BY <2>3, <2>5, <2>6 DEF ListsInv
  <2>9. ASSUME Pooled PROVE Divided'
    <3>1. TakeList(id) /\ Divided /\ IsFiniteSet(Holding)
      BY <2>1, <2>9 DEF ListsInv
    <3>2. \A t \in Holding : search'[t].list = search[t].list
      BY <2>6
    <3> QED
      BY <2>3, <2>5, <3>1, <3>2, TakeListTakes
  <2> QED
    BY <2>2, <2>7, <2>8, <2>9 DEF ListsInv, Pooled
<1>3. CASE Descend(s)
  <2>1. search[s].pc = "descend" /\ s \in Holding /\ UNCHANGED <<index, lists, pool>>
    BY <1>3 DEF Descend, Holding
  <2> DEFINE Down == [search[s] EXCEPT !.level = search[s].level - 1]
             Over(n) == [search[s] EXCEPT !.node = n]
  <2>2. \E closer, n : search' = [search EXCEPT ![s] = IF closer = <<>> THEN Down ELSE Over(n)]
    BY <1>3, Zenon DEF Descend
  <2>3. Shape(search[s])
    BY <2>1 DEF ListsInv
  <2>4. /\ Shape(Down) /\ Down.list = search[s].list
        /\ \A n : Shape(Over(n)) /\ Over(n).list = search[s].list
    BY <2>3 DEF Shape
  <2>5. \E to : search' = [search EXCEPT ![s] = to] /\ Shape(to) /\ to.list = search[s].list
    <3> HIDE DEF Down, Over
    <3> QED
      BY <2>2, <2>4
  <2> QED
    BY <2>1, <2>5, WalkKeepsList DEF ListsInv, Divided
<1>4. ASSUME NEW result, Finish(s, result), search[s].pc \in {"old", "v1merge"}
      PROVE  ListsInv'
  <2>1. /\ search' = [search EXCEPT ![s] = [pc |-> "done", result |-> result]]
        /\ ReleaseList(search[s].list) /\ UNCHANGED <<index, lists>>
    BY <1>4 DEF Finish
  <2>2. search'[s].pc = "done" /\ \A t \in Searches \ {s} : search'[t] = search[t]
    BY <2>1
  <2>3. s \in Holding /\ Holding' = Holding \ {s}
    BY <1>4, <2>2 DEF Holding
  <2>4. \A t \in Holding' : search'[t] = search[t]
    BY <2>2, <2>3 DEF Holding
  <2>5. IsFiniteSet(Holding') /\ \A t \in Holding' : Shape(search'[t])
    BY <2>3, <2>4, FS_RemoveElement DEF ListsInv
  <2>6. ASSUME Pooled PROVE Divided'
    <3>1. pool' = <<search[s].list>> \o pool /\ Divided /\ IsFiniteSet(Holding) /\ lists' = lists
      BY <2>1, <2>6 DEF ReleaseList, ListsInv
    <3>2. \A t \in Holding' : search'[t].list = search[t].list
      BY <2>4
    <3> QED
      BY <2>3, <3>1, <3>2, ReleaseListReleases
  <2> QED
    BY <2>1, <2>5, <2>6 DEF ListsInv, Pooled
<1>5. CASE FinishOld(s)
  BY <1>4, <1>5 DEF FinishOld
<1>6. CASE FinishV1Merge(s)
  <2>1. \E result : Finish(s, result)
    BY <1>6, Zenon DEF FinishV1Merge
  <2>2. search[s].pc = "v1merge"
    BY <1>6 DEF FinishV1Merge
  <2> QED
    BY <1>4, <2>1, <2>2
<1> QED
  BY <1>1, <1>2, <1>3, <1>5, <1>6

\* At first there is one list and it is in the pool.
LEMMA ListsInit == Init => ListsInv
<1> SUFFICES ASSUME Init PROVE ListsInv
  OBVIOUS
<1>1. Holding = {}
  BY DEF Init, Holding, Unused, Begun
<1>2. IsFiniteSet(Holding) /\ Cardinality(Holding) = 0
  BY <1>1, FS_EmptySet
<1>3. ASSUME Pooled PROVE Divided
  <2>1. PICK garbage \in 0 .. VlMod - 1 : lists = <<NewList(garbage)>>
    BY <1>3 DEF Init
  <2>2. pool = <<1>>
    BY <1>3 DEF Init
  <2>3. NewList(garbage) \in ListType
    BY NewListTyped
  <2> HIDE <1>3
  <2>4. lists \in Seq(ListType) /\ Len(lists) = 1
    BY <2>1, <2>3
  <2>5. pool \in Seq(Nat) /\ Len(pool) = 1 /\ pool[1] = 1
    BY <2>2
  <2> QED
    BY <1>1, <1>2, <2>4, <2>5 DEF Divided
<1> QED
  BY <1>1, <1>2, <1>3 DEF ListsInv

\* The searches of a handler that begins or ends hold no lists.
LEMMA ListsRequest ==
    ASSUME ServerInv, ListsInv, NEW h \in Handlers, Arrive(h) \/ Leave(h)
    PROVE  ListsInv'
<1>1. UNCHANGED <<index, lists, pool>>
  BY DEF Arrive, Leave
<1>2. \A s \in Searches : s[1] # h => search'[s] = search[s]
  BY DEF Arrive, Leave
<1>3. \A s \in Searches : s[1] = h => search[s].pc \notin Begun
  <2>1. CASE Arrive(h)
    <3>1. handler[h] # "serving"
      BY <2>1 DEF Arrive
    <3>2. \A i \in Slots : search[<<h, i>>].pc = "unused"
      BY <3>1 DEF ServerInv, Owned
    <3> QED
      BY <3>2 DEF Searches, Begun
  <2>2. CASE Leave(h)
    BY <2>2 DEF Leave, Jobs
  <2> QED
    BY <2>1, <2>2
<1>4. \A s \in Searches : s[1] = h => search'[s].pc \notin Begun
  <2>1. CASE Arrive(h)
    <3>1. PICK r \in Requests :
              search' = [s \in Searches |-> IF s[1] = h /\ s[2] \in DOMAIN r.queries
                                            THEN Waiting(r.queries[s[2]], r.k) ELSE search[s]]
      BY <2>1 DEF Arrive
    <3>2. ASSUME NEW s \in Searches, s[1] = h PROVE search'[s].pc \notin Begun
      <4>1. CASE s[2] \in DOMAIN r.queries
        BY <3>1, <3>2, <4>1 DEF Waiting, Begun
      <4>2. CASE s[2] \notin DOMAIN r.queries
        BY <1>3, <3>1, <3>2, <4>2
      <4> QED
        BY <4>1, <4>2
    <3> QED
      BY <3>2
  <2>2. CASE Leave(h)
    BY <2>2 DEF Leave, Unused, Begun
  <2> QED
    BY <2>1, <2>2
<1>5. Holding' = Holding /\ \A s \in Holding : search'[s] = search[s]
  BY <1>2, <1>3, <1>4 DEF Holding
<1>6. \A s \in Holding : Shape(search'[s]) /\ search'[s].list = search[s].list
  BY <1>5 DEF ListsInv
<1> QED
  BY <1>1, <1>5, <1>6, HoldingStays DEF ListsInv, Divided

LEMMA ListsStutter ==
    ASSUME ListsInv, UNCHANGED <<index, search, lists, pool>>
    PROVE  ListsInv'
BY DEF ListsInv, Divided, Holding, Pooled


-----------------------------------------------------------------------------
(* The searches of the server.                                             *)

Marks(s) == IF Pooled THEN Marked(search[s].list) ELSE search[s].bits

WaitingRecord == [pc : {"waiting"}, q : Queries \cup {Malformed}, k : Ks]
DoneRecord == [pc : {"done"}, result : SUBSET Node]
DescendRecord == [pc : {"descend"}, q : Queries, k : Ks, algo : {"old", "v1merge"}, list : Nat,
                  bits : {{}}, node : Node, level : 0 .. index.maxlevel]

Resting(r) == r \in {Unused, [pc |-> "threw"]} \cup WaitingRecord \cup DoneRecord

\* The walk on level 0 begins at a local minimum of level 1.
AtBottom(r) ==
    r.level = 0 /\ index.maxlevel > 0 =>
        \A m \in ToSet(index.friends[1][r.node]) : ~ (Dist[r.q][m] < Dist[r.q][r.node])

DescendOK(r, seen, exp) == r \in DescendRecord /\ seen = {} /\ exp = {} /\ AtBottom(r)

WalkOK(r, seen, exp) == OldOK(r, seen, exp) \/ ArrayOK(r, seen, exp)

SearchOK(r, seen, exp) ==
    \/ Resting(r) /\ exp = {}
    \/ DescendOK(r, seen, exp)
    \/ WalkOK(r, seen, exp)

SearchesOK == \A s \in Searches : SearchOK(search[s], Marks(s), expanded[s])

\* No mark is ahead of the counter of its list.
Bounded == \A i \in 1 .. Len(lists), n \in Node : lists[i].mass[n] <= lists[i].curV

Settled ==
    /\ index \in Indices /\ ef \in Efs /\ algoType \in Supported
    /\ mtx \in {Nobody, "setter"} /\ setter \in {"idle", "retrying", "setting", "half"}
    /\ setter \in {"setting", "half"} => wanted \in Settings
    /\ ~ Pooled => lists = <<>> /\ pool = <<>>

WalkInv == Settled /\ Bounded /\ expanded \in [Searches -> SUBSET Node] /\ SearchesOK

\* What is known of a search holds as long as the index and ef stay the same.
LEMMA StaysOK ==
    ASSUME index' = index, ef' = ef, NEW r, NEW seen, NEW exp, SearchOK(r, seen, exp)
    PROVE  SearchOK(r, seen, exp)'
<1>1. DescendOK(r, seen, exp) => DescendOK(r, seen, exp)'
  BY DEF DescendOK, DescendRecord, AtBottom
<1>2. OldOK(r, seen, exp) => OldOK(r, seen, exp)'
  BY DEF OldOK, FrontHolds, Best, Least, AsNear
<1>3. ArrayOK(r, seen, exp) => ArrayOK(r, seen, exp)'
  BY DEF ArrayOK, InArray, Putting, Holds, Misses
<1>4. Resting(r) => Resting(r)'
  BY DEF Resting
<1> QED
  BY <1>1, <1>2, <1>3, <1>4 DEF SearchOK, WalkOK

\* The shape of a search tells whether it was begun.
LEMMA PhaseOf ==
    ASSUME NEW r, NEW seen, NEW exp, SearchOK(r, seen, exp)
    PROVE  /\ r.pc \in {"unused", "waiting", "threw", "done"} \cup Begun
           /\ r.pc \notin Begun => Resting(r) /\ exp = {}
           /\ r.pc = "descend" => DescendOK(r, seen, exp)
           /\ r.pc = "old" => OldOK(r, seen, exp)
           /\ r.pc = "v1merge" => ArrayOK(r, seen, exp)
           /\ r.pc = "waiting" => r \in WaitingRecord
           /\ r.pc = "done" => r \in DoneRecord
<1>1. CASE Resting(r) /\ exp = {}
  BY <1>1 DEF Resting, WaitingRecord, DoneRecord, Unused, Begun
<1>2. CASE DescendOK(r, seen, exp)
  BY <1>2 DEF DescendOK, DescendRecord, Begun
<1>3. CASE OldOK(r, seen, exp)
  <2>1. r.pc = "old"
    BY <1>3 DEF OldOK, OldRecord
  <2> QED
    BY <1>3, <2>1 DEF Begun
<1>4. CASE ArrayOK(r, seen, exp)
  <2>1. r.pc = "v1merge"
    BY <1>4 DEF ArrayOK, InArray, ArrayRecord
  <2> QED
    BY <1>4, <2>1 DEF Begun
<1> QED
  BY <1>1, <1>2, <1>3, <1>4 DEF SearchOK, WalkOK

\* A step that changes one search.
LEMMA OthersStay ==
    ASSUME SearchesOK, index' = index, ef' = ef, NEW s \in Searches,
           \A t \in Searches \ {s} : search'[t] = search[t] /\ expanded'[t] = expanded[t],
           \A t \in Holding \ {s} : Marks(t)' = Marks(t),
           SearchOK(search[s], Marks(s), expanded[s])'
    PROVE  SearchesOK'
<1>1. ASSUME NEW t \in Searches \ {s}
      PROVE  SearchOK(search[t], Marks(t), expanded[t])'
  <2>1. PICK r, seen, exp : r = search[t] /\ seen = Marks(t) /\ exp = expanded[t]
    OBVIOUS
  <2>2. SearchOK(r, seen, exp)
    BY <1>1, <2>1 DEF SearchesOK
  <2>3. SearchOK(r, seen, exp)'
    BY <2>2, StaysOK
  <2>4. search'[t] = r /\ expanded'[t] = exp
    BY <1>1, <2>1
  <2>5. CASE t \in Holding
    <3>1. Marks(t)' = seen
      BY <1>1, <2>1, <2>5
    <3> QED
      BY <2>3, <2>4, <3>1
  <2>6. CASE t \notin Holding
    <3>1. Resting(r) /\ exp = {}
      BY <1>1, <2>1, <2>2, <2>6, PhaseOf DEF Holding
    <3>2. Resting(search'[t]) /\ expanded'[t] = {}
      BY <2>4, <3>1
    <3> QED
      BY <3>2 DEF SearchOK, Resting
  <2> QED
    BY <2>5, <2>6
<1> QED
  BY <1>1 DEF SearchesOK

\* The bits of a search are its own: nothing else depends on them.
LEMMA BitsKeepWalk ==
    ASSUME NEW r, NEW seen, NEW exp, WalkOK(r, seen, exp), NEW new \in SUBSET Node,
           NEW u, u = [r EXCEPT !.bits = r.bits \cup new]
    PROVE  /\ WalkOK(u, seen, exp) /\ u.pc = r.pc /\ u.q = r.q /\ u.k = r.k
           /\ u.list = r.list /\ u.bits = r.bits \cup new
<1>1. CASE OldOK(r, seen, exp)
  <2>1. r \in OldRecord
    BY <1>1 DEF OldOK
  <2>2. /\ u \in OldRecord /\ u.pc = r.pc /\ u.q = r.q /\ u.k = r.k /\ u.list = r.list
        /\ u.bits = r.bits \cup new
        /\ u.candidates = r.candidates /\ u.closest = r.closest /\ u.result = r.result
    BY <2>1 DEF OldRecord
  <2>3. OldOK(u, seen, exp)
    BY <1>1, <2>2 DEF OldOK
  <2> QED
    BY <2>2, <2>3 DEF WalkOK
<1>2. CASE ArrayOK(r, seen, exp)
  <2>1. r \in ArrayRecord
    BY <1>2 DEF ArrayOK, InArray
  <2>2. /\ u \in ArrayRecord /\ u.pc = r.pc /\ u.q = r.q /\ u.k = r.k /\ u.list = r.list
        /\ u.bits = r.bits \cup new
        /\ u.sorted = r.sorted /\ u.curr = r.curr /\ u.cap = r.cap
    BY <2>1 DEF ArrayRecord
  <2>3. ArrayOK(u, seen, exp)
    BY <1>2, <2>2 DEF ArrayOK, InArray
  <2> QED
    BY <2>2, <2>3 DEF WalkOK
<1> QED
  BY <1>1, <1>2 DEF WalkOK

\* The search s goes on as "to", having marked the nodes of new, with the nodes
\* of E expanded.
Goes(s, to, new, E) ==
    /\ GoOn(s, to, new) /\ new \in SUBSET Node
    /\ to.q = search[s].q /\ to.k = search[s].k
    /\ to.list = search[s].list /\ to.bits = search[s].bits
    /\ WalkOK(to, Marks(s) \cup new, E)

\* What a step leaves behind for one search.
Becomes(s, x, M) ==
    /\ search' = [search EXCEPT ![s] = x] /\ x.q = search[s].q /\ x.k = search[s].k
    /\ Marks(s)' = M
    /\ \A t \in Holding \ {s} : Marks(t)' = Marks(t)

LEMMA GoesOn ==
    ASSUME ListsInv, WalkInv, DOMAIN search = Searches, NEW s \in Holding,
           index' = index, NEW to, NEW new, NEW E, Goes(s, to, new, E)
    PROVE  /\ \E x : Becomes(s, x, Marks(s) \cup new) /\ WalkOK(x, Marks(s) \cup new, E)
           /\ Bounded' /\ (~ Pooled => lists' = <<>>)
<1>1. s \in Searches /\ Pooled' = Pooled
  BY DEF Holding, Pooled
<1>2. CASE Pooled
  <2> DEFINE id == to.list
             mass == [n \in Node |-> IF n \in new THEN lists[id].curV ELSE lists[id].mass[n]]
  <2>1. search' = [search EXCEPT ![s] = to] /\ lists' = [lists EXCEPT ![id].mass = mass]
    BY <1>2 DEF GoOn, Goes
  <2>2. Divided /\ id = search[s].list /\ id \in 1 .. Len(lists) /\ lists \in Seq(ListType)
    BY <1>2 DEF ListsInv, Divided, Goes
  <2>3. lists[id] \in ListType
    BY <2>2, ElementOfSeq
  <2>4. Len(lists) \in Nat /\ DOMAIN lists = 1 .. Len(lists)
    BY <2>2, LenProperties
  <2> HIDE DEF mass
  <2>5. lists'[id].mass = mass /\ lists'[id].curV = lists[id].curV
    <3>1. lists'[id] = [lists[id] EXCEPT !.mass = mass]
      BY <2>1, <2>2, <2>4
    <3> QED
      BY <2>3, <3>1 DEF ListType
  <2>6. \A i \in 1 .. Len(lists) : i # id => lists'[i] = lists[i]
    BY <2>1, <2>4
  <2>7. search'[s] = to /\ \A t \in Holding \ {s} : search'[t] = search[t]
    BY <1>1, <2>1 DEF Holding
  <2>8. \A t \in Holding \ {s} : Marks(t)' = Marks(t)
    <3>1. ASSUME NEW t \in Holding \ {s} PROVE Marks(t)' = Marks(t)
      <4>1. search[t].list \in 1 .. Len(lists) /\ search[t].list # id
        BY <2>2 DEF Divided
      <4>2. lists'[search[t].list] = lists[search[t].list]
        BY <2>6, <4>1
      <4> QED
        BY <1>1, <1>2, <2>7, <4>2 DEF Marks, Marked
    <3> QED
      BY <3>1
  <2>9. Marks(s) = {n \in Node : lists[id].mass[n] = lists[id].curV}
    BY <1>2, <2>2 DEF Marks, Marked
  <2>10. Marks(s)' = {n \in Node : mass[n] = lists[id].curV}
    BY <1>1, <1>2, <2>5, <2>7 DEF Marks, Marked
  <2>11. Marks(s)' = Marks(s) \cup new
    <3>1. new \subseteq Node
      BY DEF Goes
    <3> QED
      BY <2>9, <2>10, <3>1 DEF mass
  <2>12. Bounded'
    <3>1. Len(lists') = Len(lists)
      <4>1. lists' = [lists EXCEPT ![id] = [lists[id] EXCEPT !.mass = mass]]
        BY <2>1
      <4> QED
        BY <2>2, <4>1, ExceptSeq
    <3>2. ASSUME NEW i \in 1 .. Len(lists), NEW n \in Node
          PROVE  lists'[i].mass[n] <= lists'[i].curV
      <4>1. lists[i].mass[n] <= lists[i].curV
        BY DEF WalkInv, Bounded
      <4>2. CASE i = id
        <5>1. lists[id].curV \in Int
          BY <2>3 DEF ListType
        <5> QED
          BY <2>5, <4>1, <4>2, <5>1 DEF mass
      <4>3. CASE i # id
        BY <2>6, <4>1, <4>3
      <4> QED
        BY <4>2, <4>3
    <3> QED
      BY <3>1, <3>2 DEF Bounded
  <2>13. Becomes(s, to, Marks(s) \cup new) /\ WalkOK(to, Marks(s) \cup new, E)
    BY <2>1, <2>8, <2>11 DEF Becomes, Goes
  <2> QED
    BY <1>2, <2>12, <2>13
<1>3. CASE ~ Pooled
  <2> DEFINE u == [to EXCEPT !.bits = to.bits \cup new]
             M == Marks(s) \cup new
  <2>1. search' = [search EXCEPT ![s] = u] /\ lists' = lists
    BY <1>3 DEF GoOn, Goes
  <2>2. new \in SUBSET Node /\ WalkOK(to, M, E)
    BY DEF Goes
  <2> HIDE DEF M
  <2>3. WalkOK(u, M, E) /\ u.q = to.q /\ u.k = to.k /\ u.bits = to.bits \cup new
    BY <2>2, BitsKeepWalk
  <2> HIDE DEF u
  <2>4. search'[s] = u /\ \A t \in Holding \ {s} : search'[t] = search[t]
    BY <1>1, <2>1 DEF Holding
  <2>5. Marks(s)' = M
    BY <1>1, <1>3, <2>3, <2>4 DEF Marks, Goes, M
  <2>6. \A t \in Holding \ {s} : Marks(t)' = Marks(t)
    BY <1>1, <1>3, <2>4 DEF Marks
  <2>7. Becomes(s, u, M)
    BY <2>1, <2>3, <2>5, <2>6 DEF Becomes, Goes
  <2>8. Bounded' /\ lists' = <<>>
    BY <1>3, <2>1 DEF WalkInv, Settled, Bounded
  <2> QED
    BY <2>3, <2>7, <2>8 DEF M
<1> QED
  BY <1>2, <1>3

LEMMA SettledIs ==
    ASSUME Settled
    PROVE  /\ ef \in Nat \ {0} /\ index.entry \in Node /\ index.maxlevel \in Nat
           /\ Algorithm \in {"old", "v1merge"}
           /\ \A l \in 0 .. index.maxlevel, n \in Node :
                  index.friends[l][n] \in Seq(Node) /\ IsInjective(index.friends[l][n])
<1>1. ef \in Nat \ {0}
  BY PositiveAssumption DEF Settled
<1>2. /\ index.entry \in Node /\ index.maxlevel \in Nat
      /\ index.friends \in [0 .. index.maxlevel -> [Node -> Seq(Node)]]
      /\ \A l \in 0 .. index.maxlevel, n \in Node : IsInjective(index.friends[l][n])
  BY IndicesAssumption DEF Settled
<1>3. ASSUME NEW l \in 0 .. index.maxlevel, NEW n \in Node
      PROVE  index.friends[l][n] \in Seq(Node)
  BY <1>2
<1>4. Algorithm \in {"old", "v1merge"}
  BY DEF Algorithm, Settled, Supported
<1> QED
  BY <1>1, <1>2, <1>3, <1>4

LEMMA NewFriendsAre ==
    ASSUME Settled, NEW s \in Searches, Walking(s), NEW n \in Node
    PROVE  /\ NewFriends(s, n) \in Seq(Node) /\ Once(NewFriends(s, n))
           /\ ToSet(NewFriends(s, n)) = ToSet(index.friends[0][n]) \ Marks(s)
           /\ ToSet(NewFriends(s, n)) \in SUBSET Node
<1> DEFINE list == index.friends[0][n]
           t == NewFriends(s, n)
           S == Node \ Seen(s)
<1>1. list \in Seq(Node) /\ IsInjective(list)
  <2>1. 0 \in 0 .. index.maxlevel
    BY SettledIs
  <2> QED
    BY <2>1, SettledIs
<1>2. t = Those(list, S)
  BY Zenon DEF NewFriends
<1>3. Seen(s) = Marks(s)
  BY DEF Seen, Marks, Walking
<1> HIDE DEF list, t, S
<1>4. t \in Seq(Node) /\ ToSet(t) = ToSet(list) \cap S /\ Once(t)
  BY <1>1, <1>2, ThoseIs
<1>5. ToSet(list) \subseteq Node
  <2>1. \A i \in 1 .. Len(list) : list[i] \in Node
    BY <1>1, ElementOfSeq
  <2> QED
    BY <1>1, <2>1, LenProperties DEF ToSet
<1> QED
  BY <1>3, <1>4, <1>5 DEF list, t, S

\* A walk begins at the node where the descent ended.
LEMMA EnterDoes ==
    ASSUME WalkInv, NEW s \in Searches, Enter(s)
    PROVE  /\ DescendOK(search[s], Marks(s), expanded[s]) /\ search[s].level = 0
           /\ \E to : Goes(s, to, {search[s].node}, {})
<1> DEFINE r == search[s]
           d == Dist[r.q]
<1>1. DescendOK(r, Marks(s), expanded[s])
  <2>1. r.pc = "descend" /\ SearchOK(r, Marks(s), expanded[s])
    BY DEF Enter, WalkInv, SearchesOK
  <2> QED
    BY <2>1, PhaseOf
<1>2. ef \in Nat \ {0}
  BY SettledIs DEF WalkInv
<1>3. r \in DescendRecord /\ Marks(s) = {} /\ Ready(r) /\ r.bits = {} /\ {r.node} \in SUBSET Node
  BY <1>1 DEF DescendOK, DescendRecord, Ready
<1>4. CASE r.algo = "old"
  <2>1. GoOn(s, StartOld(r), {r.node})
    BY <1>4, Zenon DEF Enter, StartOld
  <2>2. OldOK(StartOld(r), {r.node}, {})
    BY <1>2, <1>3, StartOldIs
  <2>3. /\ StartOld(r).q = r.q /\ StartOld(r).k = r.k
        /\ StartOld(r).list = r.list /\ StartOld(r).bits = {}
    BY DEF StartOld
  <2>4. Goes(s, StartOld(r), {r.node}, {})
    BY <1>3, <2>1, <2>2, <2>3 DEF Goes, WalkOK
  <2> QED
    BY <1>1, <2>4 DEF Enter
<1>5. CASE r.algo # "old"
  <2>1. GoOn(s, StartArray(r), {r.node})
    BY <1>5, Zenon DEF Enter, StartArray
  <2>2. ArrayOK(StartArray(r), {r.node}, {})
    BY <1>2, <1>3, StartArrayIs
  <2>3. /\ StartArray(r).q = r.q /\ StartArray(r).k = r.k
        /\ StartArray(r).list = r.list /\ StartArray(r).bits = {}
    BY DEF StartArray
  <2>4. Goes(s, StartArray(r), {r.node}, {})
    BY <1>3, <2>1, <2>2, <2>3 DEF Goes, WalkOK
  <2> QED
    BY <1>1, <2>4 DEF Enter
<1> QED
  BY <1>4, <1>5

\* The node n is expanded: the closest of those that were not, with fewer than
\* ef closer ones.
Expanding(s, n) ==
    /\ n \in Marks(s) \ expanded[s] /\ n \in Node
    /\ \A m \in Marks(s) \ expanded[s] : ~ (Dist[search[s].q][m] < Dist[search[s].q][n])
    /\ Cardinality({m \in Marks(s) : Dist[search[s].q][m] < Dist[search[s].q][n]}) < ef
    /\ expanded' = [expanded EXCEPT ![s] = expanded[s] \cup {n}]
    /\ \E to, new : /\ new = ToSet(index.friends[0][n]) \ Marks(s)
                    /\ Goes(s, to, new, expanded[s] \cup {n})

LEMMA ExpandOldDoes ==
    ASSUME WalkInv, NEW s \in Searches, ExpandOld(s)
    PROVE  \E n : Expanding(s, n)
<1> DEFINE r == search[s]
           d == Dist[r.q]
           M == Marks(s)
           E == expanded[s]
<1>1. OldOK(r, M, E) /\ r.pc = "old" /\ ~ AtMinimum(r)
  <2>1. r.pc = "old" /\ SearchOK(r, Marks(s), expanded[s])
    BY DEF ExpandOld, WalkInv, SearchesOK
  <2> QED
    BY <2>1, PhaseOf DEF ExpandOld
<1>2. ef \in Nat \ {0} /\ Walking(s) /\ Settled
  BY <1>1, SettledIs DEF WalkInv, Walking
<1>3. PICK n \in NearestOf(d, r.candidates) :
          /\ GoOn(s, Visited(Pop(r, n), NewFriends(s, n)), ToSet(NewFriends(s, n)))
          /\ expanded' = [expanded EXCEPT ![s] = @ \cup {n}]
  BY Zenon DEF ExpandOld, Pop
<1> HIDE DEF r, d, M, E
<1>4. /\ n \in r.candidates /\ n \in M \ E
      /\ \A m \in M \ E : ~ (d[m] < d[n])
      /\ Cardinality({m \in M : d[m] < d[n]}) < ef
  <2>1. n \in NearestOf(d, r.candidates) /\ d = Dist[r.q]
    BY <1>3 DEF d
  <2> QED
    BY <1>1, <1>2, <2>1, OldTakesNearest
<1>5. n \in Node
  BY <1>1, <1>4 DEF OldOK, FrontHolds
<1> DEFINE new == NewFriends(s, n)
           to == Visited(Pop(r, n), new)
<1>6. /\ new \in Seq(Node) /\ Once(new) /\ ToSet(new) = ToSet(index.friends[0][n]) \ M
      /\ ToSet(new) \in SUBSET Node
  BY <1>2, <1>5, NewFriendsAre DEF M
<1>7. GoOn(s, to, ToSet(new))
  BY <1>3
<1> HIDE DEF new
<1>8. OldOK(to, M \cup ToSet(new), E \cup {n}) /\ SameSearch(r, to)
  <2>1. ToSet(new) \cap M = {}
    BY <1>6
  <2> QED
    BY <1>1, <1>2, <1>4, <1>6, <2>1, OldStepKeeps
<1> HIDE DEF to
<1>9. Goes(s, to, ToSet(new), E \cup {n})
  BY <1>6, <1>7, <1>8 DEF Goes, WalkOK, SameSearch, r, M
<1>10. expanded' = [expanded EXCEPT ![s] = E \cup {n}]
  BY <1>3 DEF E
<1>11. \E t, nodes : /\ nodes = ToSet(index.friends[0][n]) \ M
                     /\ Goes(s, t, nodes, E \cup {n})
  BY <1>6, <1>9
<1>12. Expanding(s, n)
  BY <1>4, <1>5, <1>10, <1>11 DEF Expanding, r, d, M, E
<1> QED
  BY <1>12

LEMMA ExpandV1MergeDoes ==
    ASSUME WalkInv, NEW s \in Searches, ExpandV1Merge(s)
    PROVE  \E n : Expanding(s, n)
<1> DEFINE r == search[s]
           d == Dist[r.q]
           M == Marks(s)
           E == expanded[s]
           n == Current(r)
           new == NewFriends(s, n)
           to == SkipUsed(Joined(Use(r), new))
<1>1. ArrayOK(r, M, E) /\ r.pc = "v1merge" /\ MoreToUse(r)
  <2>1. r.pc = "v1merge" /\ SearchOK(r, Marks(s), expanded[s])
    BY DEF ExpandV1Merge, WalkInv, SearchesOK
  <2> QED
    BY <2>1, PhaseOf DEF ExpandV1Merge
<1>2. Walking(s) /\ Settled
  BY <1>1 DEF WalkInv, Walking
<1>3. GoOn(s, to, ToSet(new)) /\ expanded' = [expanded EXCEPT ![s] = @ \cup {n}]
  BY Zenon DEF ExpandV1Merge, Use, Current
<1> HIDE DEF r, d, M, E
<1>4. n \in M \ E /\ n \in Node
  BY <1>1, UseKeeps
<1>5. /\ \A m \in M \ E : ~ (d[m] < d[n])
      /\ Cardinality({m \in M : d[m] < d[n]}) < ef
  BY <1>1, ArrayTakesNearest DEF d
<1> HIDE DEF n
<1>6. /\ new \in Seq(Node) /\ Once(new) /\ ToSet(new) = ToSet(index.friends[0][n]) \ M
      /\ ToSet(new) \in SUBSET Node
  BY <1>2, <1>4, NewFriendsAre DEF M
<1> HIDE DEF new
<1>7. ArrayOK(to, M \cup ToSet(new), E \cup {n}) /\ SameSearch(r, to)
  <2>1. ToSet(new) \cap M = {}
    BY <1>6
  <2> QED
    BY <1>1, <1>6, <2>1, ArrayStepKeeps DEF n
<1> HIDE DEF to
<1>8. Goes(s, to, ToSet(new), E \cup {n})
  BY <1>3, <1>6, <1>7 DEF Goes, WalkOK, SameSearch, r, M
<1>9. expanded' = [expanded EXCEPT ![s] = E \cup {n}]
  BY <1>3 DEF E
<1>10. \E t, nodes : /\ nodes = ToSet(index.friends[0][n]) \ M
                     /\ Goes(s, t, nodes, E \cup {n})
  BY <1>6, <1>8
<1>11. Expanding(s, n)
  BY <1>4, <1>5, <1>9, <1>10 DEF Expanding, r, d, M, E
<1> QED
  BY <1>11

\* A search ends with an answer when ef nodes are as close as any it did not expand.
Ending(s, result) ==
    /\ Finish(s, result)
    /\ Marks(s) \in SUBSET Node /\ Marks(s) # {}
    /\ Answers(Dist[search[s].q], search[s].k, Marks(s), result)
    /\ \A n \in Marks(s) \ expanded[s] :
           Cardinality({m \in Marks(s) \ {n} : Dist[search[s].q][m] <= Dist[search[s].q][n]}) >= ef

LEMMA FinishDoes ==
    ASSUME WalkInv, NEW s \in Searches, FinishOld(s) \/ FinishV1Merge(s)
    PROVE  \E result : Ending(s, result)
<1> DEFINE r == search[s]
           M == Marks(s)
           E == expanded[s]
<1>1. SearchOK(r, M, E)
  BY DEF WalkInv, SearchesOK
<1>2. ef \in Nat \ {0}
  BY SettledIs DEF WalkInv
<1>3. CASE FinishOld(s)
  <2>1. r.pc = "old" /\ AtMinimum(r) /\ Finish(s, r.result)
    BY <1>3 DEF FinishOld
  <2> HIDE DEF r, M, E
  <2>2. OldOK(r, M, E)
    BY <1>1, <2>1, PhaseOf
  <2>3. M \in SUBSET Node /\ M # {}
    BY <2>2 DEF OldOK, FrontHolds
  <2>4. Answers(Dist[r.q], r.k, M, r.result)
    BY <2>2, OldAnswers
  <2>5. \A n \in M \ E : Cardinality({m \in M \ {n} : Dist[r.q][m] <= Dist[r.q][n]}) >= ef
    BY <1>2, <2>1, <2>2, OldEnds
  <2> QED
    BY <2>1, <2>3, <2>4, <2>5 DEF Ending, r, M, E
<1>4. CASE FinishV1Merge(s)
  <2>1. r.pc = "v1merge" /\ ~ MoreToUse(r) /\ Finish(s, Offered(r))
    BY <1>4 DEF FinishV1Merge
  <2> HIDE DEF r, M, E
  <2>2. ArrayOK(r, M, E)
    BY <1>1, <2>1, PhaseOf
  <2>3. M \in SUBSET Node /\ M # {}
    <3>1. PICK v : v = r.sorted
      OBVIOUS
    <3>2. ArrayFacts(r, v, Dist[r.q], M, E)
      BY <2>2, <3>1, ArrayShows
    <3>3. M \in SUBSET Node /\ Len(v) \in Nat /\ 1 <= Len(v) /\ \A i \in 1 .. Len(v) : v[i].data \in M
      BY <3>2 DEF ArrayFacts
    <3> QED
      BY <3>3
  <2>4. Answers(Dist[r.q], r.k, M, Offered(r))
    BY <2>2, OfferedAnswers
  <2>5. \A n \in M \ E : Cardinality({m \in M \ {n} : Dist[r.q][m] <= Dist[r.q][n]}) >= ef
    BY <2>1, <2>2, ArrayEnds
  <2> QED
    BY <2>1, <2>3, <2>4, <2>5 DEF Ending, r, M, E
<1> QED
  BY <1>3, <1>4

\* The closest of the closer friends.
LEMMA ClosestOfList ==
    ASSUME NEW d \in [Node -> Int], NEW closer \in Seq(Node), closer # <<>>,
           NEW i, i = SelectInSeq(closer, LAMBDA m : \A x \in ToSet(closer) : d[m] <= d[x])
    PROVE  closer[i] \in ToSet(closer) /\ closer[i] \in Node
<1> DEFINE S == ToSet(closer)
           I == {j \in 1 .. Len(closer) : \A x \in ToSet(closer) : d[closer[j]] <= d[x]}
<1>1. Len(closer) \in Nat /\ DOMAIN closer = 1 .. Len(closer) /\ Len(closer) # 0
  BY LenProperties, EmptySeq
<1>2. \A j \in 1 .. Len(closer) : closer[j] \in Node /\ closer[j] \in S
  BY <1>1, ElementOfSeq DEF ToSet
<1>3. S \in SUBSET Node /\ S # {}
  <2>1. S \in SUBSET Node
    BY <1>1, <1>2 DEF ToSet
  <2>2. closer[1] \in S
    BY <1>1, <1>2
  <2> QED
    BY <2>1, <2>2
<1>4. PICK x \in S : \A y \in S : d[x] <= d[y]
  <2>1. IsFiniteSet(S) /\ \A x \in S : d[x] \in Int
    BY <1>3, NodeSets
  <2> HIDE DEF S
  <2> QED
    BY <1>3, <2>1, LeastOfFinite
<1>5. PICK j \in 1 .. Len(closer) : closer[j] = x
  BY <1>1 DEF ToSet
<1>6. j \in I /\ I \subseteq Nat
  BY <1>4, <1>5
<1>7. i = IF I # {} THEN Min(I) ELSE 0
  BY Zenon DEF SelectInSeq
<1> HIDE DEF I
<1>8. i \in I
  <2>1. \E y \in I : \A z \in I : y <= z
    BY <1>6, LeastExists
  <2> QED
    BY <1>6, <1>7, <2>1 DEF Min
<1>9. i \in 1 .. Len(closer)
  BY <1>8 DEF I
<1> QED
  BY <1>2, <1>9

\* A pass over the friends on an upper level.
LEMMA DescendDoes ==
    ASSUME WalkInv, NEW s \in Searches, Descend(s)
    PROVE  /\ DescendOK(search[s], Marks(s), expanded[s])
           /\ \E to : /\ search' = [search EXCEPT ![s] = to] /\ DescendOK(to, {}, {})
                      /\ to.list = search[s].list /\ to.q = search[s].q /\ to.k = search[s].k
<1> DEFINE r == search[s]
           d == Dist[r.q]
           list == index.friends[r.level][r.node]
           Near == {m \in Node : d[m] < d[r.node]}
           closer == Those(list, Near)
           first == SelectInSeq(closer, LAMBDA m : \A x \in ToSet(closer) : d[m] <= d[x])
           to == IF closer = <<>> THEN [r EXCEPT !.level = r.level - 1]
                 ELSE [r EXCEPT !.node = closer[first]]
<1>1. DescendOK(r, Marks(s), expanded[s]) /\ r.level > 0
  <2>1. r.pc = "descend" /\ SearchOK(r, Marks(s), expanded[s])
    BY DEF Descend, WalkInv, SearchesOK
  <2> QED
    BY <2>1, PhaseOf DEF Descend
<1>2. search' = [search EXCEPT ![s] = to]
  BY Zenon DEF Descend
<1>3. r \in DescendRecord /\ index.maxlevel \in Nat
  BY <1>1, SettledIs DEF DescendOK, WalkInv
<1>4. r.level \in 1 .. index.maxlevel /\ r.node \in Node /\ d \in [Node -> Int]
  BY <1>1, <1>3, IndicesAssumption DEF DescendRecord
<1>5. list \in Seq(Node) /\ IsInjective(list)
  <2>1. r.level \in 0 .. index.maxlevel
    BY <1>3, <1>4
  <2> QED
    BY <1>4, <2>1, SettledIs DEF WalkInv
<1> HIDE DEF r, d
<1>6. closer \in Seq(Node) /\ ToSet(closer) = ToSet(list) \cap Near
  <2> HIDE DEF list, Near
  <2> QED
    BY <1>5, ThoseIs
<1> HIDE DEF closer
<1>7. CASE closer = <<>>
  <2> DEFINE u == [r EXCEPT !.level = r.level - 1]
  <2>1. to = u
    BY <1>7
  <2>2. /\ u \in DescendRecord /\ u.level = r.level - 1 /\ u.node = r.node
        /\ u.q = r.q /\ u.k = r.k /\ u.list = r.list
    <3>1. r.level - 1 \in 0 .. index.maxlevel
      BY <1>3, <1>4
    <3> QED
      BY <1>3, <3>1 DEF DescendRecord
  <2> HIDE DEF u
  <2>3. AtBottom(u)
    <3>1. ASSUME r.level - 1 = 0, NEW m \in ToSet(index.friends[1][r.node])
          PROVE  ~ (d[m] < d[r.node])
      <4>1. r.level = 1
        BY <1>4, <3>1
      <4>2. m \in ToSet(list)
        BY <3>1, <4>1
      <4>3. ToSet(closer) = {}
        BY <1>7 DEF ToSet
      <4>4. m \notin Near
        BY <1>6, <4>2, <4>3
      <4>5. m \in Node
        <5>1. \A i \in 1 .. Len(list) : list[i] \in Node
          BY <1>5, ElementOfSeq
        <5> QED
          BY <1>5, <4>2, <5>1, LenProperties DEF ToSet
      <4> QED
        BY <4>4, <4>5
    <3> QED
      BY <2>2, <3>1 DEF AtBottom, d
  <2>4. DescendOK(u, {}, {})
    BY <2>2, <2>3 DEF DescendOK
  <2> QED
    BY <1>1, <1>2, <2>1, <2>2, <2>4 DEF r
<1>8. CASE closer # <<>>
  <2> DEFINE n == closer[first]
             u == [r EXCEPT !.node = n]
  <2>1. to = u
    BY <1>8
  <2>2. n \in Node
    BY <1>4, <1>6, <1>8, ClosestOfList
  <2> HIDE DEF n, first
  <2>3. /\ u \in DescendRecord /\ u.level = r.level
        /\ u.q = r.q /\ u.k = r.k /\ u.list = r.list
    BY <1>3, <2>2 DEF DescendRecord
  <2> HIDE DEF u
  <2>4. AtBottom(u)
    BY <1>4, <2>3 DEF AtBottom
  <2>5. DescendOK(u, {}, {})
    BY <2>3, <2>4 DEF DescendOK
  <2> QED
    BY <1>1, <1>2, <2>1, <2>3, <2>5 DEF r
<1> QED
  BY <1>7, <1>8

\* What a step of a search leaves alone.
Calm == UNCHANGED <<index, params, lock, handler>>

LEMMA SettledStays ==
    ASSUME Settled, Calm, ~ Pooled => lists' = <<>> /\ pool' = <<>>
    PROVE  Settled' /\ Pooled' = Pooled /\ index' = index /\ ef' = ef
BY DEF Settled, Calm, params, lock, Supported, Pooled

\* A walk that goes on.
LEMMA GoesKeeps ==
    ASSUME ListsInv, WalkInv, DOMAIN search = Searches, NEW s \in Holding,
           Calm, pool' = pool, NEW to, NEW new, NEW E \in SUBSET Node, Goes(s, to, new, E),
           expanded' = [expanded EXCEPT ![s] = E]
    PROVE  ListsInv' /\ WalkInv'
<1>1. s \in Searches /\ search[s].pc \in Begun
  BY DEF Holding
<1>2. index' = index
  BY DEF Calm
<1>3. Bounded' /\ (~ Pooled => lists' = <<>>)
  BY <1>2, GoesOn
<1>4. PICK x : Becomes(s, x, Marks(s) \cup new) /\ WalkOK(x, Marks(s) \cup new, E)
  BY <1>2, GoesOn
<1>5. Settled' /\ ef' = ef
  BY <1>3, SettledStays DEF WalkInv, Settled
<1>6. /\ expanded' \in [Searches -> SUBSET Node] /\ expanded'[s] = E
      /\ \A t \in Searches \ {s} : expanded'[t] = expanded[t]
  BY <1>1 DEF WalkInv
<1>7. /\ search'[s] = x /\ \A t \in Searches \ {s} : search'[t] = search[t]
      /\ Marks(s)' = Marks(s) \cup new /\ \A t \in Holding \ {s} : Marks(t)' = Marks(t)
  BY <1>1, <1>4 DEF Becomes
<1>8. SearchOK(search[s], Marks(s), expanded[s])'
  <2>1. PICK M : M = Marks(s) \cup new
    OBVIOUS
  <2>2. SearchOK(x, M, E)
    BY <1>4, <2>1 DEF SearchOK
  <2>3. SearchOK(x, M, E)'
    BY <1>2, <1>5, <2>2, StaysOK
  <2> QED
    BY <1>6, <1>7, <2>1, <2>3
<1>9. SearchesOK'
  <2>1. SearchesOK
    BY DEF WalkInv
  <2> QED
    BY <1>1, <1>2, <1>5, <1>6, <1>7, <1>8, <2>1, OthersStay
<1>10. WalkInv'
  BY <1>3, <1>5, <1>6, <1>9 DEF WalkInv
<1>11. ListsInv'
  <2>1. {"pc", "list"} \subseteq DOMAIN to /\ to.pc \in {"old", "v1merge"}
    <3>1. to \in OldRecord \/ to \in ArrayRecord
      BY DEF Goes, WalkOK, OldOK, ArrayOK, InArray
    <3> QED
      BY <3>1 DEF OldRecord, ArrayRecord
  <2>2. GoOn(s, to, new) /\ to.list = search[s].list
    BY DEF Goes
  <2> QED
    BY <1>2, <2>1, <2>2, GoOnKeepsLists
<1> QED
  BY <1>10, <1>11

LEMMA EnterKeeps ==
    ASSUME ListsInv, WalkInv, DOMAIN search = Searches, NEW s \in Searches, Enter(s)
    PROVE  ListsInv' /\ WalkInv'
<1>1. DescendOK(search[s], Marks(s), expanded[s])
  BY EnterDoes
<1>2. PICK to : Goes(s, to, {search[s].node}, {})
  BY EnterDoes
<1>3. s \in Holding
  BY DEF Enter, Holding, Begun
<1>4. Calm /\ pool' = pool
  BY DEF Enter, Calm, params, lock
<1>5. expanded' = [expanded EXCEPT ![s] = {}]
  <2>1. expanded' = expanded /\ expanded[s] = {} /\ expanded \in [Searches -> SUBSET Node]
    BY <1>1 DEF Enter, DescendOK, WalkInv
  <2> QED
    BY <2>1
<1>6. PICK new, E : new = {search[s].node} /\ E = {}
  OBVIOUS
<1>7. E \in SUBSET Node /\ Goes(s, to, new, E) /\ expanded' = [expanded EXCEPT ![s] = E]
  BY <1>2, <1>5, <1>6
<1> QED
  BY <1>3, <1>4, <1>7, GoesKeeps

LEMMA ExpandKeeps ==
    ASSUME ListsInv, WalkInv, DOMAIN search = Searches, NEW s \in Searches,
           ExpandOld(s) \/ ExpandV1Merge(s)
    PROVE  ListsInv' /\ WalkInv'
<1>1. PICK n : Expanding(s, n)
  BY ExpandOldDoes, ExpandV1MergeDoes
<1>2. PICK to, new : Goes(s, to, new, expanded[s] \cup {n})
  BY <1>1 DEF Expanding
<1>3. s \in Holding /\ Calm /\ pool' = pool
  BY DEF ExpandOld, ExpandV1Merge, Holding, Begun, Calm, params, lock
<1>4. expanded' = [expanded EXCEPT ![s] = expanded[s] \cup {n}]
  BY <1>1 DEF Expanding
<1>5. expanded[s] \cup {n} \in SUBSET Node
  BY <1>1 DEF Expanding, WalkInv
<1> QED
  BY <1>2, <1>3, <1>4, <1>5, GoesKeeps

\* The steps of a search that marks nothing.
LEMMA ChangeKeepsWalk ==
    ASSUME WalkInv, DOMAIN search = Searches, NEW s \in Searches, Calm, lists' = lists,
           ~ Pooled => pool' = pool,
           NEW x, search' = [search EXCEPT ![s] = x], NEW M, NEW E \in SUBSET Node, SearchOK(x, M, E),
           x.pc \in Begun => (Marks(s)' = M),
           expanded' = [expanded EXCEPT ![s] = E]
    PROVE  WalkInv'
<1>1. Settled' /\ Pooled' = Pooled /\ index' = index /\ ef' = ef
  BY SettledStays DEF WalkInv, Settled
<1>2. /\ expanded' \in [Searches -> SUBSET Node] /\ expanded'[s] = E
      /\ \A t \in Searches \ {s} : expanded'[t] = expanded[t]
  BY DEF WalkInv
<1>3. search'[s] = x /\ \A t \in Searches \ {s} : search'[t] = search[t]
  OBVIOUS
<1>4. \A t \in Holding \ {s} : Marks(t)' = Marks(t)
  BY <1>1, <1>3 DEF Marks, Marked, Holding
<1>5. SearchOK(search[s], Marks(s), expanded[s])'
  <2>1. SearchOK(x, M, E)'
    BY <1>1, StaysOK
  <2>2. CASE x.pc \in Begun
    BY <1>2, <1>3, <2>1, <2>2
  <2>3. CASE x.pc \notin Begun
    <3>1. Resting(x) /\ E = {}
      BY <2>3, PhaseOf
    <3> QED
      BY <1>2, <1>3, <3>1 DEF SearchOK, Resting
  <2> QED
    BY <2>2, <2>3
<1>6. SearchesOK'
  <2>1. SearchesOK
    BY DEF WalkInv
  <2> QED
    BY <1>1, <1>2, <1>3, <1>4, <1>5, <2>1, OthersStay
<1>7. Bounded'
  BY DEF WalkInv, Bounded
<1> QED
  BY <1>1, <1>2, <1>6, <1>7 DEF WalkInv

LEMMA ThrowKeepsWalk ==
    ASSUME WalkInv, DOMAIN search = Searches, NEW s \in Searches, Throw(s)
    PROVE  WalkInv'
<1> DEFINE x == [pc |-> "threw"]
<1>1. search[s].pc = "waiting" /\ SearchOK(search[s], Marks(s), expanded[s])
  BY DEF Throw, WalkInv, SearchesOK
<1>2. expanded[s] = {}
  BY <1>1, PhaseOf DEF Begun
<1>3. SearchOK(x, {}, {}) /\ x.pc \notin Begun
  BY DEF SearchOK, Resting, Begun
<1>4. search' = [search EXCEPT ![s] = x] /\ Calm /\ lists' = lists /\ pool' = pool
  BY DEF Throw, Calm, params, lock
<1>5. expanded' = [expanded EXCEPT ![s] = {}]
  <2>1. expanded' = expanded /\ expanded \in [Searches -> SUBSET Node]
    BY DEF Throw, WalkInv
  <2> QED
    BY <1>2, <2>1
<1> HIDE DEF x
<1> QED
  BY <1>3, <1>4, <1>5, ChangeKeepsWalk

LEMMA DescendKeepsWalk ==
    ASSUME WalkInv, DOMAIN search = Searches, NEW s \in Searches, Descend(s)
    PROVE  WalkInv'
<1>1. DescendOK(search[s], Marks(s), expanded[s])
  BY DescendDoes
<1>2. PICK x : /\ search' = [search EXCEPT ![s] = x] /\ DescendOK(x, {}, {})
               /\ x.list = search[s].list
  BY DescendDoes
<1>3. Calm /\ lists' = lists /\ pool' = pool
  BY DEF Descend, Calm, params, lock
<1>4. expanded' = [expanded EXCEPT ![s] = {}]
  <2>1. expanded' = expanded /\ expanded \in [Searches -> SUBSET Node] /\ expanded[s] = {}
    BY <1>1 DEF Descend, WalkInv, DescendOK
  <2> QED
    BY <2>1
<1>5. Marks(s)' = {}
  <2>1. search'[s] = x /\ Pooled' = Pooled /\ Marks(s) = {}
    BY <1>1, <1>2, <1>3 DEF Calm, Pooled, DescendOK
  <2>2. x.bits = {}
    BY <1>2 DEF DescendOK, DescendRecord
  <2> QED
    BY <1>2, <1>3, <2>1, <2>2 DEF Marks, Marked
<1>6. SearchOK(x, {}, {})
  BY <1>2 DEF SearchOK
<1> QED
  BY <1>2, <1>3, <1>4, <1>5, <1>6, ChangeKeepsWalk

LEMMA FinishKeepsWalk ==
    ASSUME WalkInv, DOMAIN search = Searches, NEW s \in Searches, FinishOld(s) \/ FinishV1Merge(s)
    PROVE  WalkInv'
<1>1. PICK result : Ending(s, result)
  BY FinishDoes
<1> DEFINE x == [pc |-> "done", result |-> result]
<1>2. Finish(s, result) /\ result \in SUBSET Node
  BY <1>1 DEF Ending, Answers
<1>3. SearchOK(x, {}, {}) /\ x.pc \notin Begun
  BY <1>2 DEF SearchOK, Resting, DoneRecord, Begun
<1>4. /\ search' = [search EXCEPT ![s] = x] /\ expanded' = [expanded EXCEPT ![s] = {}]
      /\ Calm /\ lists' = lists /\ (~ Pooled => pool' = pool)
  BY <1>2 DEF Finish, ReleaseList, Calm, params, lock
<1> HIDE DEF x
<1> QED
  BY <1>3, <1>4, ChangeKeepsWalk

\* A list that is reset has no marks.
LEMMA ResetClears ==
    ASSUME NEW list \in ListType, \A n \in Node : list.mass[n] <= list.curV
    PROVE  \A n \in Node : Reset(list).mass[n] < Reset(list).curV
<1> DEFINE v == (list.curV + 1) % VlMod
<1>1. VlMod \in Nat \ {0, 1} /\ list.curV \in 0 .. VlMod - 1 /\ list.mass \in [Node -> 0 .. VlMod - 1]
  BY PositiveAssumption DEF ListType
<1>2. v = 0 \/ v = list.curV + 1
  BY <1>1
<1> HIDE DEF v
<1>3. Reset(list) = IF v = 0 THEN [curV |-> 1, mass |-> [n \in Node |-> 0]]
                    ELSE [list EXCEPT !.curV = v]
  BY DEF Reset, v
<1>4. CASE v = 0
  BY <1>3, <1>4
<1>5. CASE v # 0
  <2>1. Reset(list).curV = list.curV + 1 /\ Reset(list).mass = list.mass
    BY <1>2, <1>3, <1>5 DEF ListType
  <2>2. ASSUME NEW n \in Node PROVE list.mass[n] < list.curV + 1
    <3>1. list.mass[n] \in Int /\ list.curV \in Int /\ list.mass[n] <= list.curV
      BY <1>1
    <3> QED
      BY <3>1
  <2> QED
    BY <2>1, <2>2
<1> QED
  BY <1>4, <1>5

\* A list that is taken from the pool or made has no marks, and the lists that
\* are held stay as they are.
LEMMA TakeListClears ==
    ASSUME Divided, Bounded, NEW id, TakeList(id)
    PROVE  /\ id \in Nat /\ \A n \in Node : ~ (lists'[id].mass[n] = lists'[id].curV)
           /\ Bounded'
           /\ \A t \in Holding : lists'[search[t].list] = lists[search[t].list]
<1>1. Len(lists) \in Nat /\ Len(pool) \in Nat /\ lists \in Seq(ListType) /\ DOMAIN lists = 1 .. Len(lists)
  BY LenProperties DEF Divided
<1>2. ASSUME NEW list \in ListType, \A n \in Node : list.mass[n] <= list.curV,
             NEW new, new = Reset(list)
      PROVE  \A n \in Node : new.mass[n] <= new.curV /\ ~ (new.mass[n] = new.curV)
  <2>1. \A n \in Node : new.mass[n] < new.curV
    BY <1>2, ResetClears
  <2>2. new \in ListType
    BY <1>2, ResetTyped
  <2>3. ASSUME NEW n \in Node
        PROVE  new.mass[n] <= new.curV /\ ~ (new.mass[n] = new.curV)
    <3>1. new.mass[n] \in Int /\ new.curV \in Int
      BY <2>2 DEF ListType
    <3>2. new.mass[n] < new.curV
      BY <2>1
    <3> QED
      BY <3>1, <3>2
  <2> QED
    BY <2>3
<1>3. CASE pool # <<>>
  <2> DEFINE list == Reset(lists[id])
  <2>1. id = Head(pool) /\ lists' = [lists EXCEPT ![id] = list]
    BY <1>3 DEF TakeList
  <2>2. id = pool[1] /\ 1 \in 1 .. Len(pool) /\ id \in 1 .. Len(lists)
    <3>1. pool \in Seq(Nat) /\ Head(pool) = pool[1] /\ Len(pool) # 0
      BY <1>1, <1>3, HeadTailProperties, EmptySeq DEF Divided
    <3>2. 1 \in 1 .. Len(pool)
      BY <1>1, <3>1
    <3> QED
      BY <2>1, <3>1, <3>2 DEF Divided
  <2>3. lists[id] \in ListType /\ \A n \in Node : lists[id].mass[n] <= lists[id].curV
    BY <1>1, <2>2, ElementOfSeq DEF Bounded
  <2>4. \A n \in Node : list.mass[n] <= list.curV /\ ~ (list.mass[n] = list.curV)
    BY <1>2, <2>3
  <2>5. list \in ListType
    BY <2>3, ResetTyped
  <2> HIDE DEF list
  <2>6. Len(lists') = Len(lists)
    BY <1>1, <2>1, <2>2, <2>5, ExceptSeq
  <2>7. lists'[id] = list /\ \A i \in 1 .. Len(lists) : i # id => lists'[i] = lists[i]
    BY <1>1, <2>1, <2>2
  <2>8. \A t \in Holding : lists'[search[t].list] = lists[search[t].list]
    BY <2>2, <2>7 DEF Divided
  <2>9. Bounded'
    <3>1. ASSUME NEW i \in 1 .. Len(lists), NEW n \in Node
          PROVE  lists'[i].mass[n] <= lists'[i].curV
      <4>1. CASE i = id
        BY <2>4, <2>7, <4>1
      <4>2. CASE i # id
        BY <2>7, <4>2 DEF Bounded
      <4> QED
        BY <4>1, <4>2
    <3> QED
      BY <2>6, <3>1 DEF Bounded
  <2> QED
    BY <1>1, <2>2, <2>4, <2>7, <2>8, <2>9
<1>4. CASE pool = <<>>
  <2>1. PICK garbage \in 0 .. VlMod - 1 : lists' = Append(lists, Reset(NewList(garbage)))
    BY <1>4 DEF TakeList
  <2> DEFINE list == Reset(NewList(garbage))
  <2>2. NewList(garbage) \in ListType /\ \A n \in Node : NewList(garbage).mass[n] <= NewList(garbage).curV
    <3>1. garbage <= VlMod - 1
      BY PositiveAssumption
    <3> QED
      BY <3>1, NewListTyped DEF NewList
  <2>3. \A n \in Node : list.mass[n] <= list.curV /\ ~ (list.mass[n] = list.curV)
    BY <1>2, <2>2
  <2>4. list \in ListType
    BY <2>2, ResetTyped
  <2> HIDE DEF list
  <2>5. lists' = Append(lists, list) /\ id = Len(lists) + 1
    BY <1>4, <2>1 DEF TakeList, list
  <2>6. /\ Len(lists') = Len(lists) + 1 /\ lists'[Len(lists) + 1] = list
        /\ \A i \in 1 .. Len(lists) : lists'[i] = lists[i]
    BY <1>1, <2>4, <2>5, AppendProperties
  <2>7. \A t \in Holding : lists'[search[t].list] = lists[search[t].list]
    BY <2>6 DEF Divided
  <2>8. Bounded'
    <3>1. ASSUME NEW i \in 1 .. Len(lists) + 1, NEW n \in Node
          PROVE  lists'[i].mass[n] <= lists'[i].curV
      <4>1. CASE i = Len(lists) + 1
        BY <2>3, <2>6, <4>1
      <4>2. CASE i # Len(lists) + 1
        <5>1. i \in 1 .. Len(lists)
          BY <1>1, <4>2
        <5> QED
          BY <2>6, <5>1 DEF Bounded
      <4> QED
        BY <4>1, <4>2
    <3> QED
      BY <2>6, <3>1 DEF Bounded
  <2>9. lists'[id] = list /\ id \in Nat
    BY <1>1, <2>5, <2>6
  <2>10. \A n \in Node : ~ (lists'[id].mass[n] = lists'[id].curV)
    BY <2>3, <2>9
  <2> QED
    BY <2>7, <2>8, <2>9, <2>10
<1> QED
  BY <1>3, <1>4

\* A search begins with nothing marked.
LEMMA StartDoes ==
    ASSUME ListsInv, WalkInv, NEW s \in Searches, Start(s)
    PROVE  /\ search[s] \in WaitingRecord /\ search[s].q # Malformed /\ expanded[s] = {}
           /\ \E x : /\ search' = [search EXCEPT ![s] = x] /\ DescendOK(x, {}, {})
                     /\ x.q = search[s].q /\ x.k = search[s].k
                     /\ Pooled => TakeList(x.list)
                     /\ ~ Pooled => lists' = lists /\ pool' = pool
<1> DEFINE r == search[s]
           X(id) == [pc |-> "descend", q |-> r.q, k |-> r.k, algo |-> Algorithm,
                     list |-> id, bits |-> {}, node |-> index.entry, level |-> index.maxlevel]
<1>1. r.pc = "waiting" /\ r.q # Malformed
  BY DEF Start
<1>2. r \in WaitingRecord /\ expanded[s] = {}
  <2>1. SearchOK(r, Marks(s), expanded[s])
    BY DEF WalkInv, SearchesOK
  <2> QED
    BY <1>1, <2>1, PhaseOf DEF Begun
<1>3. PICK id \in 0 .. Len(lists) + 1 :
            /\ IF Pooled THEN TakeList(id) ELSE id = 0 /\ UNCHANGED <<lists, pool>>
            /\ search' = [search EXCEPT ![s] = X(id)]
  BY Zenon DEF Start
<1>4. /\ index.entry \in Node /\ index.maxlevel \in Nat /\ Algorithm \in {"old", "v1merge"}
  BY SettledIs DEF WalkInv
<1>5. id \in Nat
  <2>1. CASE Pooled
    BY <1>3, <2>1, TakeListClears DEF ListsInv, WalkInv
  <2>2. CASE ~ Pooled
    BY <1>3, <2>2
  <2> QED
    BY <2>1, <2>2
<1>6. /\ r.q \in Queries /\ r.k \in Ks
  BY <1>1, <1>2 DEF WaitingRecord
<1> HIDE DEF r
<1>7. X(id) \in DescendRecord /\ X(id).level = index.maxlevel /\ X(id).q = r.q /\ X(id).k = r.k
      /\ X(id).list = id
  BY <1>4, <1>5, <1>6 DEF DescendRecord
<1> HIDE DEF X
<1>8. AtBottom(X(id))
  BY <1>4, <1>7 DEF AtBottom
<1>9. DescendOK(X(id), {}, {})
  BY <1>7, <1>8 DEF DescendOK
<1> QED
  BY <1>1, <1>2, <1>3, <1>7, <1>9 DEF r

\* It has marked nothing, and the marks of the others stay.
LEMMA StartMarks ==
    ASSUME ListsInv, WalkInv, DOMAIN search = Searches, NEW s \in Searches, Start(s)
    PROVE  /\ Bounded' /\ Marks(s)' = {}
           /\ \A t \in Holding : Marks(t)' = Marks(t)
<1>1. s \notin Holding /\ Calm
  BY DEF Start, Holding, Begun, Calm, params, lock
<1>2. PICK x : /\ search' = [search EXCEPT ![s] = x] /\ DescendOK(x, {}, {})
               /\ Pooled => TakeList(x.list)
               /\ ~ Pooled => lists' = lists /\ pool' = pool
  BY StartDoes
<1>3. Pooled' = Pooled
  BY <1>1 DEF Calm, Pooled
<1>4. search'[s] = x /\ \A t \in Searches \ {s} : search'[t] = search[t]
  BY <1>2
<1>5. CASE Pooled
  <2>1. /\ \A n \in Node : ~ (lists'[x.list].mass[n] = lists'[x.list].curV)
        /\ Bounded'
        /\ \A t \in Holding : lists'[search[t].list] = lists[search[t].list]
    BY <1>2, <1>5, TakeListClears DEF ListsInv, WalkInv
  <2>2. Marks(s)' = {}
    BY <1>3, <1>4, <1>5, <2>1 DEF Marks, Marked
  <2>3. \A t \in Holding : search'[t] = search[t]
    BY <1>1, <1>4 DEF Holding
  <2>4. \A t \in Holding : Marks(t)' = Marks(t)
    BY <1>3, <1>5, <2>1, <2>3 DEF Marks, Marked
  <2> QED
    BY <2>1, <2>2, <2>4
<1>6. CASE ~ Pooled
  <2>1. x.bits = {}
    BY <1>2 DEF DescendOK, DescendRecord
  <2>2. \A t \in Holding : search'[t] = search[t]
    BY <1>1, <1>4 DEF Holding
  <2>3. lists' = lists
    BY <1>2, <1>6
  <2> QED
    BY <1>3, <1>4, <1>6, <2>1, <2>2, <2>3 DEF Marks, WalkInv, Bounded
<1> QED
  BY <1>5, <1>6

LEMMA StartKeepsWalk ==
    ASSUME ListsInv, WalkInv, DOMAIN search = Searches, NEW s \in Searches, Start(s)
    PROVE  WalkInv'
<1>1. s \notin Holding /\ Calm /\ expanded' = expanded
  BY DEF Start, Holding, Begun, Calm, params, lock
<1>2. expanded[s] = {}
  BY StartDoes
<1>3. PICK x : /\ search' = [search EXCEPT ![s] = x] /\ DescendOK(x, {}, {})
               /\ Pooled => TakeList(x.list)
               /\ ~ Pooled => lists' = lists /\ pool' = pool
  BY StartDoes
<1>4. Settled' /\ Pooled' = Pooled /\ index' = index /\ ef' = ef
  BY <1>1, <1>3, SettledStays DEF WalkInv, Settled
<1>5. search'[s] = x /\ \A t \in Searches \ {s} : search'[t] = search[t]
  BY <1>3
<1>6. /\ Bounded' /\ Marks(s)' = {}
      /\ \A t \in Holding : Marks(t)' = Marks(t)
  BY StartMarks
<1>7. SearchOK(search[s], Marks(s), expanded[s])'
  <2>1. PICK M : M = {}
    OBVIOUS
  <2>2. SearchOK(x, M, M)
    BY <1>3, <2>1 DEF SearchOK
  <2>3. SearchOK(x, M, M)'
    BY <1>4, <2>2, StaysOK
  <2> QED
    BY <1>1, <1>2, <1>5, <1>6, <2>1, <2>3
<1>8. SearchesOK'
  <2>1. SearchesOK
    BY DEF WalkInv
  <2> QED
    BY <1>1, <1>4, <1>5, <1>6, <1>7, <2>1, OthersStay
<1> QED
  BY <1>1, <1>4, <1>6, <1>8 DEF WalkInv

\* A step of a search keeps what is known of the lists and of the searches.
LEMMA SearchKeepsWalk ==
    ASSUME ServerInv, ListsInv, WalkInv, NEW s \in Searches, Search(s)
    PROVE  ListsInv' /\ WalkInv'
<1>1. DOMAIN search = Searches
  BY DEF ServerInv, Owned
<1>2. CASE Enter(s)
  BY <1>1, <1>2, EnterKeeps
<1>3. CASE ExpandOld(s) \/ ExpandV1Merge(s)
  BY <1>1, <1>3, ExpandKeeps
<1>4. CASE Throw(s)
  BY <1>1, <1>4, ListsSearch, ThrowKeepsWalk
<1>5. CASE Start(s)
  BY <1>1, <1>5, ListsSearch, StartKeepsWalk
<1>6. CASE Descend(s)
  BY <1>1, <1>6, ListsSearch, DescendKeepsWalk
<1>7. CASE FinishOld(s) \/ FinishV1Merge(s)
  BY <1>1, <1>7, ListsSearch, FinishKeepsWalk
<1> QED
  BY <1>2, <1>3, <1>4, <1>5, <1>6, <1>7 DEF Search

\* A step that leaves the searches alone, or changes only those that rest.
LEMMA RestKeepsWalk ==
    ASSUME WalkInv, Settled', UNCHANGED <<index, lists, expanded>>,
           \A s \in Searches : \/ search'[s] = search[s] /\ (ef' = ef \/ search[s].pc \notin Begun)
                               \/ search[s].pc \notin Begun /\ Resting(search'[s])
    PROVE  WalkInv'
<1>1. Pooled' = Pooled
  BY DEF Pooled
<1>2. ASSUME NEW s \in Searches PROVE SearchOK(search[s], Marks(s), expanded[s])'
  <2>1. PICK r, seen, exp : r = search[s] /\ seen = Marks(s) /\ exp = expanded[s]
    OBVIOUS
  <2>2. SearchOK(r, seen, exp)
    BY <2>1 DEF WalkInv, SearchesOK
  <2>3. expanded'[s] = exp
    BY <2>1
  <2>4. CASE search'[s] = search[s] /\ ef' = ef
    <3>1. SearchOK(r, seen, exp)'
      BY <2>2, <2>4, StaysOK
    <3>2. Marks(s)' = seen
      BY <1>1, <2>1, <2>4 DEF Marks, Marked
    <3> QED
      BY <2>1, <2>3, <2>4, <3>1, <3>2
  <2>5. CASE search'[s] = search[s] /\ search[s].pc \notin Begun
    <3>1. Resting(search'[s]) /\ expanded'[s] = {}
      BY <2>1, <2>2, <2>3, <2>5, PhaseOf
    <3> QED
      BY <3>1 DEF SearchOK, Resting
  <2>6. CASE search[s].pc \notin Begun /\ Resting(search'[s])
    <3>1. expanded'[s] = {}
      BY <2>1, <2>2, <2>3, <2>6, PhaseOf
    <3> QED
      BY <2>6, <3>1 DEF SearchOK, Resting
  <2> QED
    BY <2>4, <2>5, <2>6
<1>3. Bounded' /\ expanded' \in [Searches -> SUBSET Node]
  BY DEF WalkInv, Bounded
<1> QED
  BY <1>2, <1>3 DEF WalkInv, SearchesOK

LEMMA RequestKeepsWalk ==
    ASSUME ServerInv, WalkInv, NEW h \in Handlers, Arrive(h) \/ Leave(h)
    PROVE  WalkInv'
<1>1. UNCHANGED <<index, lists, expanded>> /\ ef' = ef
  BY DEF Arrive, Leave, params
<1>2. Settled'
  BY DEF WalkInv, Settled, Arrive, Leave, params, Supported, Pooled
<1>3. CASE Arrive(h)
  <2>1. PICK r \in Requests :
            search' = [s \in Searches |-> IF s[1] = h /\ s[2] \in DOMAIN r.queries
                                          THEN Waiting(r.queries[s[2]], r.k) ELSE search[s]]
    BY <1>3 DEF Arrive
  <2>2. handler[h] # "serving"
    BY <1>3 DEF Arrive
  <2>3. ASSUME NEW s \in Searches
        PROVE  \/ search'[s] = search[s]
               \/ search[s].pc \notin Begun /\ Resting(search'[s])
    <3>1. CASE s[1] = h /\ s[2] \in DOMAIN r.queries
      <4>1. search[s].pc = "unused"
        BY <2>2, <3>1 DEF ServerInv, Owned, Searches
      <4>2. r.queries[s[2]] \in Queries \cup {Malformed} /\ r.k \in Ks
        <5>1. r.queries \in Seq(Queries \cup {Malformed}) /\ r.k \in Ks
          BY RequestsAssumption
        <5> QED
          BY <3>1, <5>1, LenProperties, ElementOfSeq
      <4>3. search'[s] = Waiting(r.queries[s[2]], r.k)
        BY <2>1, <3>1
      <4> QED
        BY <4>1, <4>2, <4>3 DEF Waiting, Resting, WaitingRecord, Begun
    <3>2. CASE ~ (s[1] = h /\ s[2] \in DOMAIN r.queries)
      BY <2>1, <3>2
    <3> QED
      BY <3>1, <3>2
  <2> QED
    BY <1>1, <1>2, <2>3, RestKeepsWalk
<1>4. CASE Leave(h)
  <2>1. ASSUME NEW s \in Searches
        PROVE  \/ search'[s] = search[s]
               \/ search[s].pc \notin Begun /\ Resting(search'[s])
    BY <1>4 DEF Leave, Jobs, Resting
  <2> QED
    BY <1>1, <1>2, <2>1, RestKeepsWalk
<1> QED
  BY <1>3, <1>4

LEMMA SetterKeepsWalk ==
    ASSUME ServerInv, WalkInv, Ask \/ Setter
    PROVE  WalkInv'
<1>1. UNCHANGED <<index, lists, expanded, search>>
  BY DEF Ask, Setter, FindZero, SetEf, SetAlgo
<1>2. CASE SetEf
  <2>1. wanted.ef \in Efs
    BY <1>2, SettingsAssumption DEF SetEf, WalkInv, Settled
  <2>2. Settled'
    BY <1>2, <2>1 DEF SetEf, WalkInv, Settled, Supported, Pooled
  <2>3. \A s \in Searches : search[s].pc \notin Begun
    BY <1>2, ServerExcludes DEF Exclusion, SetEf
  <2> QED
    BY <1>1, <2>2, <2>3, RestKeepsWalk
<1>3. CASE Ask \/ FindZero \/ SetAlgo
  <2>1. ef' = ef
    BY <1>3 DEF Ask, FindZero, SetAlgo, params
  <2>2. ASSUME Ask PROVE Settled'
    BY <2>2 DEF Ask, params, WalkInv, Settled, Supported, Pooled
  <2>3. ASSUME FindZero PROVE Settled'
    BY <2>3 DEF FindZero, params, WalkInv, Settled, Supported, Pooled
  <2>4. ASSUME SetAlgo PROVE Settled'
    BY <2>4 DEF SetAlgo, WalkInv, Settled, Supported, Pooled
  <2>5. Settled'
    BY <1>3, <2>2, <2>3, <2>4 DEF WalkInv
  <2> QED
    BY <1>1, <2>1, <2>5, RestKeepsWalk
<1> QED
  BY <1>2, <1>3 DEF Setter

LEMMA WalkInit == Init => WalkInv
<1> SUFFICES ASSUME Init PROVE WalkInv
  OBVIOUS
<1>1. search = [s \in Searches |-> Unused] /\ expanded = [s \in Searches |-> {}]
  BY DEF Init
<1>2. SearchesOK /\ expanded \in [Searches -> SUBSET Node]
  BY <1>1 DEF SearchesOK, SearchOK, Resting
<1>3. Settled
  <2>1. PICK p \in Settings : p.algo \in Supported /\ ef = p.ef /\ algoType = p.algo
    BY DEF Init
  <2>2. ef \in Efs /\ algoType \in Supported
    BY <2>1, SettingsAssumption
  <2> QED
    BY <2>2 DEF Init, Settled
<1>4. Bounded
  <2>1. CASE Pooled
    <3>1. PICK garbage \in 0 .. VlMod - 1 : lists = <<NewList(garbage)>>
      BY <2>1 DEF Init
    <3>2. garbage <= VlMod - 1
      BY PositiveAssumption
    <3>3. Len(lists) = 1 /\ lists[1] = NewList(garbage)
      BY <3>1
    <3> QED
      BY <3>2, <3>3 DEF Bounded, NewList
  <2>2. CASE ~ Pooled
    <3>1. Len(lists) = 0
      BY <2>2 DEF Init
    <3> QED
      BY <3>1 DEF Bounded
  <2> QED
    BY <2>1, <2>2
<1> QED
  BY <1>2, <1>3, <1>4 DEF WalkInv

\* Every step keeps what is known of the lists and of the searches.
LEMMA WalkStep == ServerInv /\ ListsInv /\ WalkInv /\ [Next]_vars => ListsInv' /\ WalkInv'
<1> SUFFICES ASSUME ServerInv, ListsInv, WalkInv, [Next]_vars PROVE ListsInv' /\ WalkInv'
  OBVIOUS
<1>1. CASE UNCHANGED vars
  <2>1. Settled'
    BY <1>1 DEF vars, params, lock, WalkInv, Settled, Supported, Pooled
  <2> QED
    BY <1>1, <2>1, ListsStutter, RestKeepsWalk DEF vars, params
<1>2. ASSUME NEW h \in Handlers, Arrive(h) \/ Leave(h) PROVE ListsInv' /\ WalkInv'
  BY <1>2, ListsRequest, RequestKeepsWalk
<1>3. ASSUME NEW h \in Handlers, NEW s \in Jobs(h), Search(s) PROVE ListsInv' /\ WalkInv'
  BY <1>3, SearchKeepsWalk DEF Jobs
<1>4. CASE Ask \/ Setter
  <2>1. UNCHANGED <<index, search, lists, pool>>
    BY <1>4 DEF Ask, Setter, FindZero, SetEf, SetAlgo
  <2> QED
    BY <1>4, <2>1, ListsStutter, SetterKeepsWalk
<1>5. CASE Retry \/ Rest
  BY <1>1, <1>5 DEF Retry, Rest
<1> QED
  BY <1>1, <1>2, <1>3, <1>4, <1>5 DEF Next

\* What the searches of the server rely on: the lists are apart and the walks
\* keep their order, whatever the other handlers do.
THEOREM WalksHold == Spec => [](ServerInv /\ ListsInv /\ WalkInv)
<1>1. Init => ServerInv /\ ListsInv /\ WalkInv
  BY ServerInit, ListsInit, WalkInit
<1>2. ServerInv /\ ListsInv /\ WalkInv /\ [Next]_vars => (ServerInv /\ ListsInv /\ WalkInv)'
  BY ServerStep, WalkStep
<1> QED
  BY <1>1, <1>2, PTL DEF Spec

\* No two searches, of however many handlers, share a visited list, none is
\* lost and none is in the pool while it is used: getFreeVisitedList and
\* releaseVisitedList of hnsw.h 598-639, which every search of hnsw.cc 1076-1300
\* and of hnsw_distfunc_opt.cc calls once each.
THEOREM ListsAreApart == Spec => []ListsApart
<1>1. ListsInv => ListsApart
  <2> SUFFICES ASSUME Divided PROVE ListsApart
    BY DEF ListsInv, ListsApart
  <2>1. DOMAIN pool = 1 .. Len(pool)
    BY LenProperties DEF Divided
  <2>2. \A s \in Holding : search[s].list \notin ToSet(pool)
    BY <2>1 DEF Divided, ToSet
  <2> QED
    BY <2>2 DEF Divided, ListsApart, Holding
<1> QED
  BY <1>1, WalksHold, PTL

\* The types of the variables.
LEMMA TypesOf == ServerInv /\ ListsInv /\ WalkInv => TypeOK
<1> SUFFICES ASSUME ServerInv, ListsInv, WalkInv PROVE TypeOK
  OBVIOUS
<1>1. ef \in Efs /\ algoType \in Supported /\ mtx \in {Nobody, "setter"}
      /\ setter \in {"idle", "retrying", "setting", "half"}
      /\ handler \in [Handlers -> {"idle", "serving"}] /\ expanded \in [Searches -> SUBSET Node]
  BY DEF WalkInv, Settled, ServerInv
<1>2. counter \in Nat
  <2>1. IsFiniteSet(Serving)
    BY HandlersAssumption, FS_Subset DEF Serving
  <2> QED
    BY <2>1, FS_CardinalityType DEF ServerInv, Counts
<1>3. \A s \in Searches : search[s].pc \in {"unused", "waiting", "threw", "done"} \cup Begun
  <2>1. ASSUME NEW s \in Searches
        PROVE  search[s].pc \in {"unused", "waiting", "threw", "done"} \cup Begun
    <3>1. SearchOK(search[s], Marks(s), expanded[s])
      BY DEF WalkInv, SearchesOK
    <3> QED
      BY <3>1, PhaseOf
  <2> QED
    BY <2>1
<1>4. lists \in Seq(ListType) /\ pool \in Seq(DOMAIN lists)
  <2>1. CASE Pooled
    <3>1. Divided
      BY <2>1 DEF ListsInv
    <3>2. /\ lists \in Seq(ListType) /\ pool \in Seq(Nat) /\ DOMAIN lists = 1 .. Len(lists)
          /\ \A i \in 1 .. Len(pool) : pool[i] \in 1 .. Len(lists)
      BY <3>1, LenProperties DEF Divided
    <3>3. pool \in Seq(1 .. Len(lists))
      <4>1. Len(pool) \in Nat /\ DOMAIN pool = 1 .. Len(pool) /\ pool \in [1 .. Len(pool) -> Nat]
        BY <3>2, LenProperties
      <4>2. pool \in [1 .. Len(pool) -> 1 .. Len(lists)]
        BY <3>2, <4>1
      <4> QED
        BY <4>1, <4>2, SeqDef
    <3> QED
      BY <3>2, <3>3
  <2>2. CASE ~ Pooled
    <3>1. lists = <<>> /\ pool = <<>>
      BY <2>2 DEF WalkInv, Settled
    <3> QED
      BY <3>1
  <2> QED
    BY <2>1, <2>2
<1>5. \A i \in DOMAIN lists : /\ lists[i].curV \in 0 .. VlMod - 1
                              /\ lists[i].mass \in [Node -> 0 .. VlMod - 1]
  <2>1. \A i \in DOMAIN lists : lists[i] \in ListType
    BY <1>4, ElementOfSeq, LenProperties
  <2> QED
    BY <2>1 DEF ListType
<1> QED
  BY <1>1, <1>2, <1>3, <1>4, <1>5 DEF TypeOK

\* The array of a search is sorted, and the search is at the first item of it
\* that was not used.
LEMMA ArraysAreOK == WalkInv => FirstIsUnused
<1> SUFFICES ASSUME WalkInv, NEW s \in Searches, search[s].pc = "v1merge",
                    NEW r, r = search[s]
             PROVE  /\ SortedByKey(r.sorted)
                    /\ Len(r.sorted) <= r.cap
                    /\ r.curr = FirstUnused(r.sorted)
  BY Zenon DEF FirstIsUnused
<1>1. ArrayOK(r, Marks(s), expanded[s])
  <2>1. SearchOK(search[s], Marks(s), expanded[s])
    BY DEF WalkInv, SearchesOK
  <2> QED
    BY <2>1, PhaseOf
<1>2. PICK v : v = r.sorted
  OBVIOUS
<1>3. Array(v, Node) /\ Len(v) <= r.cap /\ IsFirstUnused(v, r.curr)
  BY <1>1, <1>2 DEF ArrayOK, InArray, Putting, Holds
<1>4. v \in Seq(Items(Node)) /\ Ascending(v)
  BY <1>3 DEF Array
<1>5. SortedByKey(v)
  BY <1>4, AscendingIsSorted
<1>6. r.curr = FirstUnused(v)
  BY <1>3, <1>4, FirstUnusedIs, LenProperties
<1> QED
  BY <1>2, <1>3, <1>5, <1>6

\* Every variable of the server keeps its type, whatever the indices, the
\* requests and the settings: the declarations of server.cc, of the visited lists
\* (hnsw.h 568-639) and of the arrays of the two searches.
THEOREM TypesOK == Spec => []TypeOK
BY TypesOf, WalksHold, PTL

\* CHECK(!e.used) of hnsw.cc 1231, hnsw_distfunc_opt.cc 213 and
\* small_world_rand.cc 655 never fails: the
\* position of a search with an array is the first item that was not used, whatever
\* was inserted before it, and the array is sorted and not larger than its limit.
THEOREM FirstIsUnusedHolds == Spec => []FirstIsUnused
BY ArraysAreOK, WalksHold, PTL

-----------------------------------------------------------------------------
(* The server implements the service.                                      *)

Searching(q, k, seen, exp) ==
    [phase |-> "searching", q |-> q, k |-> k, seen |-> seen, expanded |-> exp]

\* The service counts as the server does.
LEMMA ServiceCounts == \A S : Service!Cardinality(S) = Cardinality(S)
BY Zenon DEF Service!Cardinality, Cardinality

Further(K, c, e) == [K EXCEPT !.seen = c, !.expanded = e]

LEMMA FurtherIs ==
    ASSUME NEW q, NEW k, NEW a, NEW b, NEW c, NEW e, NEW K, K = Searching(q, k, a, b)
    PROVE  Further(K, c, e) = Searching(q, k, c, e)
<1>1. K = Searching(q, k, a, b)
  OBVIOUS
<1>2. PICK L : L = [K EXCEPT !.seen = c, !.expanded = e]
  OBVIOUS
<1>3. /\ DOMAIN K = {"phase", "q", "k", "seen", "expanded"}
      /\ K.phase = "searching" /\ K.q = q /\ K.k = k
  BY <1>1 DEF Searching
<1>4. /\ DOMAIN L = {"phase", "q", "k", "seen", "expanded"}
      /\ L.phase = "searching" /\ L.q = q /\ L.k = k /\ L.seen = c /\ L.expanded = e
      /\ L = [x \in DOMAIN L |-> L[x]]
  BY <1>2, <1>3
<1>5. L = Searching(q, k, c, e)
  BY <1>4 DEF Searching
<1> QED
  BY <1>2, <1>5 DEF Further

\* What a client knows of a search.
KnownOK ==
    \A s \in Searches :
        /\ search[s].pc \notin Begun /\ search[s].pc # "done" => Known[s] = Service!Idle
        /\ search[s].pc = "done" => Known[s] = [phase |-> "answered", answer |-> search[s].result]
        /\ search[s].pc \in Begun =>
              Known[s] = Searching(search[s].q, search[s].k, Marks(s), expanded[s])

LEMMA KnownIs == WalkInv => KnownOK
<1> SUFFICES ASSUME WalkInv, NEW s \in Searches
    PROVE  /\ search[s].pc \notin Begun /\ search[s].pc # "done" => Known[s] = Service!Idle
           /\ search[s].pc = "done" => Known[s] = [phase |-> "answered", answer |-> search[s].result]
           /\ search[s].pc \in Begun =>
                 Known[s] = Searching(search[s].q, search[s].k, Marks(s), expanded[s])
  BY DEF KnownOK
<1> DEFINE K == CASE Phase(s) = "idle" -> [phase |-> "idle"]
                  [] Phase(s) = "answered" -> [phase |-> "answered", answer |-> search[s].result]
                  [] OTHER -> [phase |-> "searching", q |-> search[s].q, k |-> search[s].k,
                               seen |-> Seen(s), expanded |-> expanded[s]]
<1>1. Known[s] = K
  BY DEF Known
<1>2. ASSUME search[s].pc \in Begun PROVE Phase(s) = "searching" /\ Seen(s) = Marks(s)
  <2>1. Phase(s) = "searching"
    BY <1>2 DEF Phase
  <2>2. CASE search[s].pc = "descend"
    <3>1. SearchOK(search[s], Marks(s), expanded[s])
      BY DEF WalkInv, SearchesOK
    <3>2. Marks(s) = {}
      BY <2>2, <3>1, PhaseOf DEF DescendOK
    <3> QED
      BY <2>1, <2>2, <3>2 DEF Seen, Walking
  <2>3. CASE search[s].pc # "descend"
    BY <1>2, <2>1, <2>3 DEF Seen, Walking, Marks, Begun
  <2> QED
    BY <2>2, <2>3
<1>3. search[s].pc \in Begun => K = Searching(search[s].q, search[s].k, Marks(s), expanded[s])
  BY <1>2 DEF Searching
<1>4. search[s].pc = "done" => K = [phase |-> "answered", answer |-> search[s].result]
  BY DEF Phase, Begun
<1>5. search[s].pc \notin Begun /\ search[s].pc # "done" => K = Service!Idle
  BY DEF Phase, Service!Idle
<1> QED
  BY <1>1, <1>3, <1>4, <1>5

\* Only the search s changes.
Alone(s) ==
    /\ index' = index /\ ef' = ef
    /\ \A t \in Searches \ {s} :
           /\ search'[t] = search[t] /\ expanded'[t] = expanded[t]
           /\ t \in Holding => Marks(t)' = Marks(t)

LEMMA AloneKeeps ==
    ASSUME WalkInv, WalkInv', NEW s \in Searches, Alone(s), NEW K, Known'[s] = K
    PROVE  /\ Known' = [Known EXCEPT ![s] = K]
           /\ Friends' = Friends /\ Upper' = Upper /\ ef' = ef
<1>0. KnownOK /\ KnownOK'
  BY KnownIs, PTL
<1>1. ASSUME NEW t \in Searches \ {s} PROVE Known'[t] = Known[t]
  <2>1. search'[t] = search[t] /\ expanded'[t] = expanded[t] /\ (t \in Holding => Marks(t)' = Marks(t))
    BY DEF Alone
  <2>2. CASE t \in Holding
    <3>1. search[t].pc \in Begun
      BY <2>2 DEF Holding
    <3>2. Known[t] = Searching(search[t].q, search[t].k, Marks(t), expanded[t])
      BY <1>0, <3>1 DEF KnownOK
    <3>3. Known'[t] = Searching(search'[t].q, search'[t].k, Marks(t)', expanded'[t])
      BY <1>0, <2>1, <3>1 DEF KnownOK
    <3> QED
      BY <2>1, <2>2, <3>2, <3>3
  <2>3. CASE t \notin Holding
    <3>1. search[t].pc \notin Begun
      BY <2>3 DEF Holding
    <3>2. search'[t] = search[t]
      BY <2>1
    <3>3. CASE search[t].pc = "done"
      <4>1. Known[t] = [phase |-> "answered", answer |-> search[t].result]
        BY <1>0, <3>3 DEF KnownOK
      <4>2. Known'[t] = [phase |-> "answered", answer |-> search'[t].result]
        BY <1>0, <3>2, <3>3 DEF KnownOK
      <4> QED
        BY <3>2, <4>1, <4>2
    <3>4. CASE search[t].pc # "done"
      <4>1. Known[t] = Service!Idle
        BY <1>0, <3>1, <3>4 DEF KnownOK
      <4>2. Known'[t] = Service!Idle
        BY <1>0, <3>1, <3>2, <3>4 DEF KnownOK, Service!Idle
      <4> QED
        BY <4>1, <4>2
    <3> QED
      BY <3>3, <3>4
  <2> QED
    BY <2>2, <2>3
<1>2. Friends' = Friends /\ Upper' = Upper /\ ef' = ef
  BY DEF Alone, Friends, Upper
<1>3. Known = [t \in Searches |-> Known[t]] /\ Known' = [t \in Searches |-> Known'[t]]
  BY DEF Known
<1>4. Known' = [Known EXCEPT ![s] = K]
  BY <1>1, <1>3
<1> QED
  BY <1>2, <1>4

\* A step of a search changes that search alone.
LEMMA SearchIsAlone ==
    ASSUME ServerInv, ListsInv, WalkInv, NEW s \in Searches, Search(s)
    PROVE  Alone(s)
<1>1. DOMAIN search = Searches /\ expanded \in [Searches -> SUBSET Node]
  BY DEF ServerInv, Owned, WalkInv
<1>2. \A t \in Searches \ {s} : search'[t] = search[t]
  BY <1>1, SearchFrame
<1>3. \A t \in Holding \ {s} : search'[t] = search[t]
  BY <1>2 DEF Holding
<1> DEFINE OneSet == \E E : expanded' = [expanded EXCEPT ![s] = E]
           Others == \A t \in Holding \ {s} : Marks(t)' = Marks(t)
<1>4. ASSUME Calm, OneSet, Others
      PROVE  Alone(s)
  <2>1. index' = index /\ ef' = ef
    BY <1>4 DEF Calm, params
  <2>2. \A t \in Searches \ {s} : expanded'[t] = expanded[t]
    BY <1>1, <1>4
  <2> QED
    BY <1>2, <1>4, <2>1, <2>2 DEF Alone
<1>5. ASSUME expanded' = expanded
      PROVE  OneSet
  <2>1. expanded' = [expanded EXCEPT ![s] = expanded[s]]
    BY <1>1, <1>5
  <2> QED
    BY <2>1
<1>6. ASSUME lists' = lists, Calm
      PROVE  Others
  BY <1>3, <1>6 DEF Marks, Marked, Pooled, Calm
<1>7. CASE Throw(s) \/ Descend(s)
  <2>1. Calm /\ lists' = lists /\ expanded' = expanded
    BY <1>7 DEF Throw, Descend, Calm, params, lock
  <2> QED
    BY <1>4, <1>5, <1>6, <2>1
<1>8. CASE Start(s)
  <2>1. Calm /\ expanded' = expanded
    BY <1>8 DEF Start, Calm, params, lock
  <2>2. Others
    BY <1>1, <1>8, StartMarks
  <2> QED
    BY <1>4, <1>5, <2>1, <2>2
<1>9. ASSUME NEW to, NEW new, NEW E, Goes(s, to, new, E), s \in Holding, index' = index
      PROVE  Others
  <2>1. \E x : Becomes(s, x, Marks(s) \cup new)
    BY <1>1, <1>9, GoesOn
  <2> QED
    BY <2>1 DEF Becomes
<1>10. CASE Enter(s)
  <2>1. Calm /\ expanded' = expanded /\ s \in Holding /\ index' = index
    BY <1>10 DEF Enter, Calm, params, lock, Holding, Begun
  <2>2. PICK to, new, E : Goes(s, to, new, E)
    BY <1>10, EnterDoes
  <2>3. Others
    BY <1>9, <2>1, <2>2
  <2> QED
    BY <1>4, <1>5, <2>1, <2>3
<1>11. CASE ExpandOld(s) \/ ExpandV1Merge(s)
  <2>1. Calm /\ s \in Holding /\ index' = index
    BY <1>11 DEF ExpandOld, ExpandV1Merge, Calm, params, lock, Holding, Begun
  <2>2. PICK n : Expanding(s, n)
    BY <1>11, ExpandOldDoes, ExpandV1MergeDoes
  <2>3. OneSet /\ \E to, new, E : Goes(s, to, new, E)
    BY <2>2 DEF Expanding
  <2>4. Others
    BY <1>9, <2>1, <2>3
  <2> QED
    BY <1>4, <2>1, <2>3, <2>4
<1>12. CASE FinishOld(s) \/ FinishV1Merge(s)
  <2>1. PICK result : Finish(s, result)
    BY <1>12, FinishDoes DEF Ending
  <2>2. Calm /\ lists' = lists /\ OneSet
    BY <2>1 DEF Finish, Calm, params, lock
  <2> QED
    BY <1>4, <1>6, <2>2
<1> QED
  BY <1>7, <1>8, <1>10, <1>11, <1>12 DEF Search

\* What is known of a search after a step of it.
LEMMA KnownAfter ==
    ASSUME WalkInv, WalkInv', NEW s \in Searches, NEW x, search'[s] = x
    PROVE  /\ x.pc \notin Begun /\ x.pc # "done" => Known'[s] = Service!Idle
           /\ x.pc = "done" => Known'[s] = [phase |-> "answered", answer |-> x.result]
           /\ x.pc \in Begun => Known'[s] = Searching(x.q, x.k, Marks(s)', expanded'[s])
<1>1. KnownOK'
  BY KnownIs, PTL
<1> QED
  BY <1>1 DEF KnownOK, Service!Idle

LEMMA ThrowStutters ==
    ASSUME ServerInv, ListsInv, WalkInv, WalkInv', NEW s \in Searches, Throw(s)
    PROVE  UNCHANGED Service!vars
<1>1. search[s].pc = "waiting" /\ search' = [search EXCEPT ![s] = [pc |-> "threw"]]
  BY DEF Throw
<1>2. search'[s].pc = "threw"
  BY <1>1 DEF ServerInv, Owned
<1>3. Known[s] = Service!Idle
  BY <1>1, KnownIs DEF KnownOK, Begun
<1>4. Known'[s] = Service!Idle
  BY <1>2, KnownAfter DEF Begun
<1>5. Alone(s)
  BY SearchIsAlone DEF Search
<1>6. Known' = [Known EXCEPT ![s] = Known[s]] /\ Friends' = Friends /\ Upper' = Upper /\ ef' = ef
  BY <1>3, <1>4, <1>5, AloneKeeps
<1>7. Known' = Known
  BY <1>6 DEF Known
<1> QED
  BY <1>6, <1>7 DEF Service!vars

LEMMA StartBegins ==
    ASSUME ServerInv, ListsInv, WalkInv, WalkInv', NEW s \in Searches, Start(s)
    PROVE  Service!Begin(s)
<1>1. PICK x : /\ search' = [search EXCEPT ![s] = x] /\ DescendOK(x, {}, {})
               /\ x.q = search[s].q /\ x.k = search[s].k
  BY StartDoes
<1>2. x.pc = "descend" /\ x.q \in Queries /\ x.k \in Ks
  BY <1>1 DEF DescendOK, DescendRecord
<1>3. search'[s] = x /\ DOMAIN search = Searches
  BY <1>1 DEF ServerInv, Owned
<1>4. Marks(s)' = {} /\ expanded'[s] = {}
  BY <1>3, StartMarks, StartDoes DEF Start
<1>5. Known'[s] = Searching(x.q, x.k, {}, {})
  BY <1>2, <1>3, <1>4, KnownAfter DEF Begun
<1>6. Known[s] = Service!Idle
  <2>1. search[s].pc = "waiting"
    BY DEF Start
  <2> QED
    BY <2>1, KnownIs DEF KnownOK, Begun
<1>7. Alone(s)
  BY SearchIsAlone DEF Search
<1>8. Known' = [Known EXCEPT ![s] = Searching(x.q, x.k, {}, {})]
      /\ Friends' = Friends /\ Upper' = Upper /\ ef' = ef
  BY <1>5, <1>7, AloneKeeps
<1> QED
  BY <1>2, <1>6, <1>8 DEF Service!Begin, Searching

LEMMA DescendStutters ==
    ASSUME ServerInv, ListsInv, WalkInv, WalkInv', NEW s \in Searches, Descend(s)
    PROVE  UNCHANGED Service!vars
<1>1. DescendOK(search[s], Marks(s), expanded[s])
  BY DescendDoes
<1>2. PICK x : /\ search' = [search EXCEPT ![s] = x] /\ DescendOK(x, {}, {})
               /\ x.list = search[s].list /\ x.q = search[s].q /\ x.k = search[s].k
  BY DescendDoes
<1>3. x.pc = "descend" /\ search'[s] = x /\ search[s].pc = "descend"
  BY <1>1, <1>2 DEF DescendOK, DescendRecord, ServerInv, Owned
<1>4. Marks(s) = {} /\ expanded[s] = {} /\ expanded' = expanded
  BY <1>1 DEF DescendOK, Descend
<1>5. Marks(s)' = {}
  <2>1. Pooled' = Pooled /\ lists' = lists
    BY DEF Descend, Pooled
  <2>2. x.bits = {}
    BY <1>2 DEF DescendOK, DescendRecord
  <2> QED
    BY <1>2, <1>3, <1>4, <2>1, <2>2 DEF Marks, Marked
<1>6. Known'[s] = Searching(x.q, x.k, {}, {})
  BY <1>3, <1>4, <1>5, KnownAfter DEF Begun
<1>7. Known[s] = Searching(x.q, x.k, {}, {})
  BY <1>2, <1>3, <1>4, KnownIs DEF KnownOK, Begun
<1>8. Alone(s)
  BY SearchIsAlone DEF Search
<1>9. Known' = [Known EXCEPT ![s] = Known[s]] /\ Friends' = Friends /\ Upper' = Upper /\ ef' = ef
  BY <1>6, <1>7, <1>8, AloneKeeps
<1>10. Known' = Known
  BY <1>9 DEF Known
<1> QED
  BY <1>9, <1>10 DEF Service!vars

LEMMA EnterEnters ==
    ASSUME ServerInv, ListsInv, WalkInv, WalkInv', NEW s \in Searches, Enter(s)
    PROVE  Service!Enter(s)
<1> DEFINE r == search[s]
           n == r.node
<1>1. DescendOK(r, Marks(s), expanded[s]) /\ r.level = 0
  BY EnterDoes
<1>2. PICK to, new, E : Goes(s, to, new, E) /\ new = {n} /\ E = {}
  BY EnterDoes
<1>3. r.pc = "descend" /\ n \in Node /\ Marks(s) = {} /\ expanded[s] = {} /\ r.q \in Queries
  BY <1>1 DEF DescendOK, DescendRecord
<1>4. s \in Holding /\ index' = index /\ DOMAIN search = Searches /\ expanded' = expanded
  BY <1>3 DEF Holding, Begun, Enter, ServerInv, Owned
<1>5. PICK x : Becomes(s, x, Marks(s) \cup new) /\ WalkOK(x, Marks(s) \cup new, E)
  BY <1>2, <1>4, GoesOn
<1>6. x.pc \in Begun /\ x.q = r.q /\ x.k = r.k /\ search'[s] = x /\ Marks(s)' = {n}
  <2>1. x.pc \in {"old", "v1merge"}
    BY <1>5 DEF WalkOK, OldOK, ArrayOK, InArray, OldRecord, ArrayRecord
  <2> QED
    BY <1>2, <1>3, <1>4, <1>5, <2>1 DEF Becomes, Begun
<1>7. Known[s] = Searching(r.q, r.k, {}, {})
  BY <1>3, KnownIs DEF KnownOK, Begun
<1>8. Known'[s] = Searching(r.q, r.k, {n}, {})
  <2>1. Known'[s] = Searching(x.q, x.k, Marks(s)', expanded'[s])
    BY <1>6, KnownAfter
  <2> QED
    BY <1>3, <1>4, <1>6, <2>1
<1>9. Known' = [Known EXCEPT ![s] = Searching(r.q, r.k, {n}, {})]
      /\ Friends' = Friends /\ Upper' = Upper /\ ef' = ef
  <2>1. Alone(s)
    BY SearchIsAlone DEF Search
  <2> QED
    BY <1>8, <2>1, AloneKeeps
<1>10. Service!Closer(r.q, Upper[n], n) = {}
  <2>1. CASE index.maxlevel = 0
    <3>1. Upper[n] = {}
      BY <1>3, <2>1 DEF Upper
    <3> QED
      BY <3>1 DEF Service!Closer
  <2>2. CASE index.maxlevel # 0
    <3>1. Upper[n] = ToSet(index.friends[1][n])
      BY <1>3, <2>2 DEF Upper
    <3>2. index.maxlevel > 0
      BY <2>2, SettledIs DEF WalkInv
    <3>3. \A m \in Upper[n] : ~ (Dist[r.q][m] < Dist[r.q][n])
      BY <1>1, <3>1, <3>2 DEF DescendOK, AtBottom
    <3> QED
      BY <3>3 DEF Service!Closer
  <2> QED
    BY <2>1, <2>2
<1> HIDE DEF n, r
<1>11. Known[s].phase = "searching" /\ Known[s].seen = {} /\ Known[s].q = r.q
  BY <1>7 DEF Searching
<1>12. Known' = [Known EXCEPT ![s].seen = {n}]
  <2>1. [Known[s] EXCEPT !.seen = {n}] = Searching(r.q, r.k, {n}, {})
    BY <1>7 DEF Searching
  <2> QED
    BY <1>9, <2>1
<1> QED
  BY <1>3, <1>9, <1>10, <1>11, <1>12 DEF Service!Enter

LEMMA ExpandExpands ==
    ASSUME ServerInv, ListsInv, WalkInv, WalkInv', NEW s \in Searches,
           ExpandOld(s) \/ ExpandV1Merge(s)
    PROVE  Service!Expand(s)
<1> DEFINE r == search[s]
           d == Dist[r.q]
           M == Marks(s)
           E == expanded[s]
<1>1. PICK n : Expanding(s, n)
  BY ExpandOldDoes, ExpandV1MergeDoes
<1>2. /\ n \in M \ E /\ n \in Node
      /\ \A m \in M \ E : ~ (d[m] < d[n])
      /\ Cardinality({m \in M : d[m] < d[n]}) < ef
      /\ expanded' = [expanded EXCEPT ![s] = E \cup {n}]
  BY <1>1 DEF Expanding
<1>3. PICK to, new : new = ToSet(index.friends[0][n]) \ M /\ Goes(s, to, new, E \cup {n})
  BY <1>1 DEF Expanding
<1>4. s \in Holding /\ index' = index /\ DOMAIN search = Searches /\ r.pc \in Begun
  BY DEF Holding, Begun, ExpandOld, ExpandV1Merge, ServerInv, Owned
<1>5. PICK x : Becomes(s, x, Marks(s) \cup new) /\ WalkOK(x, Marks(s) \cup new, E \cup {n})
  BY <1>3, <1>4, GoesOn
<1>6. /\ x.pc \in Begun /\ x.q = r.q /\ x.k = r.k /\ search'[s] = x
      /\ Marks(s)' = M \cup ToSet(index.friends[0][n])
  <2>1. x.pc \in {"old", "v1merge"}
    BY <1>5 DEF WalkOK, OldOK, ArrayOK, InArray, OldRecord, ArrayRecord
  <2>2. M \cup new = M \cup ToSet(index.friends[0][n])
    BY <1>3
  <2> QED
    BY <1>4, <1>5, <2>1, <2>2 DEF Becomes, Begun
<1>7. Known[s] = Searching(r.q, r.k, M, E)
  BY <1>4, KnownIs DEF KnownOK
<1>8. Friends[n] = ToSet(index.friends[0][n])
  BY <1>2 DEF Friends
<1>9. expanded'[s] = E \cup {n}
  BY <1>2 DEF WalkInv
<1> DEFINE After == Searching(r.q, r.k, M \cup Friends[n], E \cup {n})
<1>10. Known'[s] = After
  <2>1. Known'[s] = Searching(x.q, x.k, Marks(s)', expanded'[s])
    BY <1>6, KnownAfter
  <2> QED
    BY <1>6, <1>8, <1>9, <2>1
<1>11. Known' = [Known EXCEPT ![s] = After] /\ Friends' = Friends /\ Upper' = Upper /\ ef' = ef
  <2>1. Alone(s)
    BY SearchIsAlone DEF Search
  <2> QED
    BY <1>10, <2>1, AloneKeeps
<1> HIDE DEF r, M, E
<1>12. /\ Known[s].phase = "searching" /\ Known[s].q = r.q
       /\ Known[s].seen = M /\ Known[s].expanded = E
  BY <1>7 DEF Searching
<1>13. Known' = [Known EXCEPT ![s].seen = @ \cup Friends[n], ![s].expanded = @ \cup {n}]
  <2>1. [Known[s] EXCEPT !.seen = @ \cup Friends[n], !.expanded = @ \cup {n}] = After
    <3>1. Further(Known[s], M \cup Friends[n], E \cup {n}) = After
      BY <1>7, FurtherIs
    <3>2. [Known[s] EXCEPT !.seen = M \cup Friends[n], !.expanded = E \cup {n}] = After
      BY <3>1, Zenon DEF Further
    <3> QED
      BY <1>12, <3>2
  <2> HIDE DEF After
  <2>2. [Known EXCEPT ![s].seen = @ \cup Friends[n], ![s].expanded = @ \cup {n}]
        = [Known EXCEPT ![s] = [Known[s] EXCEPT !.seen = @ \cup Friends[n], !.expanded = @ \cup {n}]]
    BY DEF Known
  <2> QED
    BY <1>11, <2>1, <2>2
<1>14. Service!Closer(r.q, M \ E, n) = {}
  BY <1>2 DEF Service!Closer
<1>15. Service!MayBeAmong(r.q, ef, M, n)
  <2>1. Service!Closer(r.q, M, n) = {m \in M : d[m] < d[n]}
    BY Zenon DEF Service!Closer
  <2> HIDE DEF d
  <2> QED
    BY <1>2, <2>1, ServiceCounts DEF Service!MayBeAmong
<1> QED
  BY <1>2, <1>11, <1>12, <1>13, <1>14, <1>15 DEF Service!Expand

LEMMA FinishAnswers ==
    ASSUME ServerInv, ListsInv, WalkInv, WalkInv', NEW s \in Searches,
           FinishOld(s) \/ FinishV1Merge(s)
    PROVE  Service!Answer(s)
<1> DEFINE r == search[s]
           d == Dist[r.q]
           M == Marks(s)
           E == expanded[s]
<1>1. PICK A : Ending(s, A)
  BY FinishDoes
<1>2. /\ Finish(s, A) /\ M \in SUBSET Node /\ M # {} /\ Answers(d, r.k, M, A)
      /\ \A n \in M \ E : Cardinality({m \in M \ {n} : d[m] <= d[n]}) >= ef
  BY <1>1 DEF Ending
<1>3. r.pc \in Begun
  BY DEF Begun, FinishOld, FinishV1Merge
<1>4. Known[s] = Searching(r.q, r.k, M, E)
  BY <1>3, KnownIs DEF KnownOK
<1> DEFINE Done == [phase |-> "answered", answer |-> A]
<1>5. Known'[s] = Done
  <2>1. PICK x : x = [pc |-> "done", result |-> A]
    OBVIOUS
  <2>2. search'[s] = x /\ x.pc = "done" /\ x.result = A
    BY <1>2, <2>1 DEF Finish, ServerInv, Owned
  <2> QED
    BY <2>2, KnownAfter
<1>6. Known' = [Known EXCEPT ![s] = Done] /\ Friends' = Friends /\ Upper' = Upper /\ ef' = ef
  <2>1. Alone(s)
    BY SearchIsAlone DEF Search
  <2> HIDE DEF Done
  <2> QED
    BY <1>5, <2>1, AloneKeeps
<1>7. ef \in Nat \ {0}
  BY SettledIs DEF WalkInv
<1> HIDE DEF r, M, E
<1>8. /\ Known[s].phase = "searching" /\ Known[s].q = r.q /\ Known[s].k = r.k
      /\ Known[s].seen = M /\ Known[s].expanded = E
  BY <1>4 DEF Searching
<1>9. A \in SUBSET M /\ Service!IsAnswer(r.q, r.k, M, A)
  <2>1. ASSUME NEW n PROVE Service!AsClose(r.q, A, n) = AsNear(d, A, n)
    BY Zenon DEF Service!AsClose, AsNear
  <2>2. /\ A \subseteq M /\ Cardinality(A) <= r.k
        /\ \A n \in M \ A : Cardinality(AsNear(d, A, n)) >= Least(r.k, ef)
    BY <1>2 DEF Answers
  <2> HIDE DEF d
  <2> QED
    BY <2>1, <2>2, ServiceCounts DEF Service!IsAnswer, Least
<1>10. \A n \in M \ E : ~ Service!MustBeAmong(r.q, ef, M, n)
  <2>1. ASSUME NEW n \in M \ E PROVE ~ Service!MustBeAmong(r.q, ef, M, n)
    <3>1. Cardinality({m \in M \ {n} : d[m] <= d[n]}) >= ef
      BY <1>2
    <3>2. IsFiniteSet(M)
      BY <1>2, NodeSets
    <3>3. Cardinality({m \in M \ {n} : d[m] <= d[n]}) \in Nat
      BY <3>2, FS_Subset, FS_CardinalityType
    <3> QED
      <4>1. Service!AsClose(r.q, M \ {n}, n) = {m \in M \ {n} : d[m] <= d[n]}
        BY Zenon DEF Service!AsClose
      <4> HIDE DEF d
      <4> QED
        BY <1>7, <3>1, <3>3, <4>1, ServiceCounts DEF Service!MustBeAmong
  <2> QED
    BY <2>1
<1> QED
  BY <1>2, <1>6, <1>8, <1>9, <1>10 DEF Service!Answer

\* A search that does not change is known as before.
LEMMA SameIsKnown ==
    ASSUME UNCHANGED <<index, lists, expanded>>, NEW s \in Searches, search'[s] = search[s]
    PROVE  Known'[s] = Known[s]
<1>1. Pooled' = Pooled
  BY DEF Pooled
<1>2. Phase(s)' = Phase(s) /\ Seen(s)' = Seen(s)
  BY <1>1 DEF Phase, Seen, Walking, Marked
<1> QED
  BY <1>2, Zenon DEF Known

LEMMA RequestsAreKnown ==
    ASSUME ServerInv, WalkInv, WalkInv', NEW h \in Handlers, Arrive(h) \/ Leave(h)
    PROVE  [Service!Next]_Service!vars
<1>1. UNCHANGED <<index, lists, expanded>> /\ ef' = ef
  BY DEF Arrive, Leave, params
<1>2. KnownOK /\ KnownOK'
  BY KnownIs, PTL
<1>3. Friends' = Friends /\ Upper' = Upper
  BY <1>1 DEF Friends, Upper
<1>4. Known = [t \in Searches |-> Known[t]] /\ Known' = [t \in Searches |-> Known'[t]]
  BY DEF Known
<1>5. CASE Arrive(h)
  <2>1. PICK r \in Requests :
            search' = [s \in Searches |-> IF s[1] = h /\ s[2] \in DOMAIN r.queries
                                          THEN Waiting(r.queries[s[2]], r.k) ELSE search[s]]
    BY <1>5 DEF Arrive
  <2>2. handler[h] # "serving"
    BY <1>5 DEF Arrive
  <2>3. ASSUME NEW s \in Searches PROVE Known'[s] = Known[s]
    <3>1. CASE s[1] = h /\ s[2] \in DOMAIN r.queries
      <4>1. search[s].pc = "unused"
        BY <2>2, <3>1 DEF ServerInv, Owned, Searches
      <4>2. search'[s].pc = "waiting"
        BY <2>1, <3>1 DEF Waiting
      <4>3. Known[s] = Service!Idle
        BY <1>2, <4>1 DEF KnownOK, Begun
      <4>4. Known'[s] = Service!Idle
        BY <1>2, <4>2 DEF KnownOK, Begun, Service!Idle
      <4> QED
        BY <4>3, <4>4
    <3>2. CASE ~ (s[1] = h /\ s[2] \in DOMAIN r.queries)
      <4>1. search'[s] = search[s]
        BY <2>1, <3>2
      <4> QED
        BY <1>1, <4>1, SameIsKnown
    <3> QED
      BY <3>1, <3>2
  <2>4. Known' = Known
    BY <1>4, <2>3
  <2> QED
    BY <1>1, <1>3, <2>4 DEF Service!vars
<1>6. CASE Leave(h)
  <2> DEFINE S == {s \in Jobs(h) : search[s].pc = "done"}
  <2>1. /\ search' = [s \in Searches |-> IF s[1] = h THEN Unused ELSE search[s]]
        /\ \A s \in Jobs(h) : search[s].pc \notin Begun
    BY <1>6 DEF Leave
  <2>2. S \in SUBSET Searches
    BY DEF Jobs
  <2>3. \A s \in S : Known[s].phase = "answered"
    <3>1. ASSUME NEW s \in S PROVE Known[s].phase = "answered"
      <4>1. Known[s] = [phase |-> "answered", answer |-> search[s].result]
        BY <1>2, <2>2 DEF KnownOK
      <4> QED
        BY <4>1
    <3> QED
      BY <3>1
  <2>4. ASSUME NEW s \in Searches
        PROVE  Known'[s] = IF s \in S THEN Service!Idle ELSE Known[s]
    <3>1. CASE s \in Jobs(h)
      <4>1. search'[s].pc = "unused"
        BY <2>1, <3>1 DEF Jobs, Unused
      <4>2. Known'[s] = Service!Idle
        BY <1>2, <4>1 DEF KnownOK, Begun, Service!Idle
      <4>3. search[s].pc \notin Begun
        BY <2>1, <3>1
      <4>4. s \notin S => Known[s] = Service!Idle
        BY <1>2, <3>1, <4>3 DEF KnownOK
      <4> QED
        BY <4>2, <4>4
    <3>2. CASE s \notin Jobs(h)
      <4>1. search'[s] = search[s] /\ s \notin S
        BY <2>1, <3>2 DEF Jobs
      <4>2. Known'[s] = Known[s]
        BY <1>1, <4>1, SameIsKnown
      <4> QED
        BY <4>1, <4>2
    <3> QED
      BY <3>1, <3>2
  <2> HIDE DEF S
  <2>5. Known' = [s \in Searches |-> IF s \in S THEN Service!Idle ELSE Known[s]]
    BY <1>4, <2>4
  <2>6. Service!Collect(S)
    BY <1>1, <1>3, <2>3, <2>5 DEF Service!Collect
  <2> QED
    BY <2>2, <2>6 DEF Service!Next
<1> QED
  BY <1>5, <1>6

LEMMA SetEfSets ==
    ASSUME ServerInv, WalkInv, SetEf
    PROVE  Service!SetEf
<1>1. UNCHANGED <<index, lists, expanded>> /\ search' = search
  BY DEF SetEf
<1>2. ef' \in Efs
  BY SettingsAssumption DEF SetEf, WalkInv, Settled
<1>3. \A s \in Searches : Known[s].phase # "searching"
  <2>1. \A s \in Searches : search[s].pc \notin Begun
    BY ServerExcludes DEF Exclusion, SetEf
  <2>2. ASSUME NEW s \in Searches PROVE Known[s].phase # "searching"
    <3>1. \/ Known[s] = Service!Idle
          \/ Known[s] = [phase |-> "answered", answer |-> search[s].result]
      BY <2>1, KnownIs DEF KnownOK
    <3> QED
      BY <3>1 DEF Service!Idle
  <2> QED
    BY <2>2
<1>4. Known' = Known
  <2>1. \A s \in Searches : Known'[s] = Known[s]
    BY <1>1, SameIsKnown
  <2>2. Known = [t \in Searches |-> Known[t]] /\ Known' = [t \in Searches |-> Known'[t]]
    BY DEF Known
  <2> QED
    BY <2>1, <2>2
<1>5. Friends' = Friends /\ Upper' = Upper
  BY <1>1 DEF Friends, Upper
<1> QED
  BY <1>2, <1>3, <1>4, <1>5 DEF Service!SetEf

LEMMA OthersStutter ==
    ASSUME UNCHANGED <<index, lists, expanded, search, ef>>
    PROVE  UNCHANGED Service!vars
<1>1. \A s \in Searches : Known'[s] = Known[s]
  BY SameIsKnown
<1>2. Known = [t \in Searches |-> Known[t]] /\ Known' = [t \in Searches |-> Known'[t]]
  BY DEF Known
<1>3. Known' = Known
  BY <1>1, <1>2
<1> QED
  BY <1>3 DEF Service!vars, Friends, Upper

\* At first the service has no searches.
LEMMA ServiceInit == Init => Service!Init
<1> SUFFICES ASSUME Init PROVE Service!Init
  OBVIOUS
<1>1. WalkInv
  BY WalkInit
<1>2. Known = [s \in Searches |-> Service!Idle]
  <2>1. \A s \in Searches : search[s].pc = "unused"
    BY DEF Init, Unused
  <2>2. \A s \in Searches : Known[s] = Service!Idle
    BY <1>1, <2>1, KnownIs DEF KnownOK, Begun
  <2>3. Known = [t \in Searches |-> Known[t]]
    BY DEF Known
  <2> QED
    BY <2>2, <2>3
<1>3. \A l \in 0 .. index.maxlevel, n \in Node : ToSet(index.friends[l][n]) \in SUBSET Node
  <2>1. ASSUME NEW l \in 0 .. index.maxlevel, NEW n \in Node
        PROVE  ToSet(index.friends[l][n]) \in SUBSET Node
    <3>1. PICK list : list = index.friends[l][n]
      OBVIOUS
    <3>2. list \in Seq(Node)
      BY <1>1, <3>1, SettledIs DEF WalkInv
    <3>3. \A i \in DOMAIN list : list[i] \in Node
      BY <3>2, LenProperties, ElementOfSeq
    <3> QED
      BY <3>1, <3>3 DEF ToSet
  <2> QED
    BY <2>1
<1>4. index.maxlevel \in Nat /\ ef \in Efs
  BY <1>1, SettledIs DEF WalkInv, Settled
<1>5. Friends \in [Node -> SUBSET Node]
  <2>1. 0 \in 0 .. index.maxlevel
    BY <1>4
  <2> QED
    BY <1>3, <2>1 DEF Friends
<1>6. Upper \in [Node -> SUBSET Node]
  <2>1. index.maxlevel # 0 => 1 \in 0 .. index.maxlevel
    BY <1>4
  <2> QED
    BY <1>3, <2>1 DEF Upper
<1> QED
  BY <1>2, <1>4, <1>5, <1>6 DEF Service!Init

\* Every step of the server is a step of the service or none.
LEMMA ServiceStep ==
    ServerInv /\ ListsInv /\ WalkInv /\ WalkInv' /\ [Next]_vars => [Service!Next]_Service!vars
<1> SUFFICES ASSUME ServerInv, ListsInv, WalkInv, WalkInv', [Next]_vars
             PROVE  [Service!Next]_Service!vars
  OBVIOUS
<1>1. CASE UNCHANGED vars
  BY <1>1, OthersStutter DEF vars, params
<1>2. ASSUME NEW h \in Handlers, Arrive(h) \/ Leave(h) PROVE [Service!Next]_Service!vars
  BY <1>2, RequestsAreKnown
<1>3. ASSUME NEW h \in Handlers, NEW s \in Jobs(h), Search(s) PROVE [Service!Next]_Service!vars
  <2>1. s \in Searches
    BY DEF Jobs
  <2>2. CASE Throw(s) \/ Descend(s)
    BY <2>1, <2>2, ThrowStutters, DescendStutters
  <2>3. CASE Start(s)
    BY <2>1, <2>3, StartBegins DEF Service!Next
  <2>4. CASE Enter(s)
    BY <2>1, <2>4, EnterEnters DEF Service!Next
  <2>5. CASE ExpandOld(s) \/ ExpandV1Merge(s)
    BY <2>1, <2>5, ExpandExpands DEF Service!Next
  <2>6. CASE FinishOld(s) \/ FinishV1Merge(s)
    BY <2>1, <2>6, FinishAnswers DEF Service!Next
  <2> QED
    BY <1>3, <2>2, <2>3, <2>4, <2>5, <2>6 DEF Search
<1>4. CASE SetEf
  BY <1>4, SetEfSets DEF Service!Next
<1>5. CASE Ask \/ FindZero \/ SetAlgo
  BY <1>5, OthersStutter DEF Ask, FindZero, SetAlgo, params
<1>6. CASE Retry \/ Rest
  BY <1>1, <1>6 DEF Retry, Rest
<1> QED
  BY <1>1, <1>2, <1>3, <1>4, <1>5, <1>6 DEF Next, Setter

\* Whatever the number of handlers, the graph, the algorithm and the requests, a
\* search of the server is a best-first walk of the width that was set when it
\* began, from a local minimum of level 1, and its answer is as good as k and ef
\* allow: Hnsw::baseSearchAlgorithmOld and V1Merge, SearchOld and SearchV1Merge of
\* the small-world graph, under the mutex and the counter of server.cc.
THEOREM ServerImplementsService == Spec => ImplementsService
<1>1. Init => Service!Init
  BY ServiceInit
<1>2. ServerInv /\ ListsInv /\ WalkInv /\ WalkInv' /\ [Next]_vars => [Service!Next]_Service!vars
  BY ServiceStep
<1> QED
  BY <1>1, <1>2, WalksHold, PTL DEF Spec, ImplementsService, Service!Spec
=============================================================================
