------------------------------ MODULE Extremes ------------------------------
(***************************************************************************)
(* Least and greatest elements, where the code stops at the first          *)
(* difference, takes the closest of some nodes or the farthest one; and    *)
(* loops, which the specifications write as functions of the number of     *)
(* rounds made.                                                            *)
(***************************************************************************)
EXTENDS Integers, FiniteSets, FiniteSetTheorems, WellFoundedInduction, TLAPS

\* A set of numbers has a least element.
LEMMA LeastExists ==
    ASSUME NEW T, T \subseteq Nat, T # {}
    PROVE  \E x \in T : \A y \in T : x <= y
<1> DEFINE R == OpToRel(<, Nat)
<1>1. IsWellFoundedOn(R, Nat)
  BY NatLessThanWellFounded
<1> HIDE DEF R
<1>2. PICK x \in T : \A y \in T : ~ (<<y, x>> \in R)
  BY <1>1, WFMin
<1>3. ASSUME NEW y \in T PROVE x <= y
  <2>1. x \in Nat /\ y \in Nat /\ <<y, x>> \notin R
    BY <1>2
  <2>2. ~ (y < x)
    BY <2>1 DEF R, OpToRel
  <2> QED
    BY <2>1, <2>2
<1> QED
  BY <1>3

\* Some element of a non-empty set has the least value, be the set finite or not.
LEMMA LeastValue ==
    ASSUME NEW S, S # {}, NEW f, \A x \in S : f[x] \in Nat
    PROVE  \E x \in S : \A y \in S : f[x] <= f[y]
<1> DEFINE V == {f[x] : x \in S}
<1>1. V \subseteq Nat /\ V # {}
  OBVIOUS
<1> HIDE DEF V
<1>2. PICK v \in V : \A w \in V : v <= w
  BY <1>1, LeastExists
<1>3. PICK x \in S : f[x] = v
  BY DEF V
<1>4. \A y \in S : f[y] \in V
  BY DEF V
<1> QED
  BY <1>2, <1>3, <1>4

\* Some element of a finite non-empty set has the greatest value: a smallest
\* set without one would have one as soon as an element is taken away.
LEMMA GreatestValue ==
    ASSUME NEW S, IsFiniteSet(S), S # {}, NEW f, \A x \in S : f[x] \in Int
    PROVE  \E x \in S : \A y \in S : f[y] <= f[x]
<1> DEFINE Has(T) == \E x \in T : \A y \in T : f[y] <= f[x]
           Bad == {T \in SUBSET S : T # {} /\ ~ Has(T)}
<1>1. SUFFICES ASSUME Bad # {} PROVE FALSE
  BY <1>1
<1>2. \A T \in Bad : IsFiniteSet(T) /\ Cardinality(T) \in Nat
  BY FS_Subset, FS_CardinalityType
<1> DEFINE size == [T \in Bad |-> Cardinality(T)]
<1>3. PICK T \in Bad : \A U \in Bad : Cardinality(T) <= Cardinality(U)
  <2>1. \A T \in Bad : size[T] \in Nat
    BY <1>2
  <2>2. \E T \in Bad : \A U \in Bad : size[T] <= size[U]
    <3> HIDE DEF Bad, size
    <3> QED
      BY <1>1, <2>1, LeastValue
  <2> QED
    BY <2>2
<1>4. PICK x \in T : TRUE
  OBVIOUS
<1>5. CASE T = {x}
  <2>1. f[x] <= f[x]
    BY <1>4
  <2> QED
    BY <1>5, <2>1
<1>6. CASE T # {x}
  <2> DEFINE U == T \ {x}
  <2>1. U \in SUBSET S /\ U # {}
    BY <1>4, <1>6
  <2>2. IsFiniteSet(T) /\ Cardinality(T) \in Nat
    BY <1>2
  <2>3. Cardinality(U) = Cardinality(T) - 1
    BY <1>4, <2>2, FS_RemoveElement
  <2>4. U \notin Bad
    <3> HIDE DEF Bad, U
    <3> QED
      BY <1>3, <2>2, <2>3
  <2>5. Has(U)
    BY <2>1, <2>4
  <2>6. PICK z \in U : \A y \in U : f[y] <= f[z]
    BY <2>5
  <2>7. f[x] \in Int /\ f[z] \in Int /\ \A y \in U : f[y] \in Int
    BY <1>4
  <2>8. CASE f[x] <= f[z]
    BY <2>6, <2>8
  <2>9. CASE f[z] <= f[x]
    <3>1. \A y \in U : f[y] <= f[x]
      BY <2>6, <2>7, <2>9
    <3>2. \A y \in T : f[y] <= f[x]
      BY <2>7, <3>1
    <3> QED
      BY <1>4, <3>2
  <2> QED
    BY <2>7, <2>8, <2>9
<1> QED
  BY <1>5, <1>6

-----------------------------------------------------------------------------
(* Loops.                                                                  *)

\* Some element of a finite non-empty set has the least value.
LEMMA LeastOfFinite ==
    ASSUME NEW S, IsFiniteSet(S), S # {}, NEW f, \A x \in S : f[x] \in Int
    PROVE  \E x \in S : \A y \in S : f[x] <= f[y]
<1> DEFINE g == [x \in S |-> 0 - f[x]]
<1>1. \A x \in S : g[x] \in Int /\ g[x] = 0 - f[x]
  OBVIOUS
<1> HIDE DEF g
<1>2. PICK x \in S : \A y \in S : g[y] <= g[x]
  BY <1>1, GreatestValue
<1>3. ASSUME NEW y \in S PROVE f[x] <= f[y]
  <2>1. 0 - f[y] <= 0 - f[x] /\ f[x] \in Int /\ f[y] \in Int
    BY <1>1, <1>2
  <2> QED
    BY <2>1
<1> QED
  BY <1>3

\* What holds before the first round and is kept by each one holds after all.
LEMMA RoundsKeep ==
    ASSUME NEW n \in Nat, NEW S, 0 \in S, \A i \in 1 .. n : i - 1 \in S => i \in S
    PROVE  \A i \in 0 .. n : i \in S
<1> DEFINE Bad == {i \in 0 .. n : i \notin S}
<1>1. SUFFICES ASSUME Bad # {} PROVE FALSE
  BY <1>1
<1>2. PICK i \in Bad : \A j \in Bad : i <= j
  <2>1. Bad \subseteq Nat
    OBVIOUS
  <2> HIDE DEF Bad
  <2> QED
    BY <1>1, <2>1, LeastExists
<1>3. i \in 1 .. n
  BY <1>2
<1>4. i - 1 \in 0 .. n /\ ~ (i <= i - 1)
  BY <1>3
<1>5. i - 1 \in S
  BY <1>2, <1>4
<1> QED
  BY <1>2, <1>3, <1>5

\* The states of a loop: A[i] holds those that are possible after i rounds.
LEMMA LoopKeeps ==
    ASSUME NEW n \in Nat, NEW A, NEW f, f[0] \in A[0],
           \A i \in 1 .. n : f[i - 1] \in A[i - 1] => f[i] \in A[i]
    PROVE  \A i \in 0 .. n : f[i] \in A[i]
<1> DEFINE S == {i \in 0 .. n : f[i] \in A[i]}
<1>1. 0 \in S
  OBVIOUS
<1>2. \A i \in 1 .. n : i - 1 \in S => i \in S
  OBVIOUS
<1>3. \A i \in 0 .. n : i \in S
  <2> HIDE DEF S
  <2> QED
    BY <1>1, <1>2, RoundsKeep
<1> QED
  BY <1>3

\* Every round leads from A[i - 1] to A[i].
Leads(n, A, step) == \A i \in 1 .. n : \A a \in A[i - 1] : step[<<a, i>>] \in A[i]

\* f gives the state after every number of rounds.
Runs(f, n, base, step) ==
    f = [i \in 0 .. n |-> IF i = 0 THEN base ELSE step[<<f[i - 1], i>>]]

\* Such a loop has states: the recursive definition of a function of the number
\* of rounds is sound.
LEMMA LoopExists ==
    ASSUME NEW n \in Nat, NEW A, NEW base \in A[0], NEW step, Leads(n, A, step)
    PROVE  \E f : Runs(f, n, base, step) /\ \A i \in 0 .. n : f[i] \in A[i]
<1> USE DEF Leads
<1> DEFINE Is(f, k) ==
               /\ f = [i \in 0 .. k |-> IF i = 0 THEN base ELSE step[<<f[i - 1], i>>]]
               /\ f[k] \in A[k]
           S == {k \in 0 .. n : \E f : Is(f, k)}
<1>1. 0 \in S
  <2> DEFINE f == [i \in 0 .. 0 |-> base]
  <2>1. f = [i \in 0 .. 0 |-> IF i = 0 THEN base ELSE step[<<f[i - 1], i>>]]
    OBVIOUS
  <2>2. f[0] \in A[0]
    OBVIOUS
  <2>3. Is(f, 0)
    BY <2>1, <2>2
  <2> HIDE DEF Is, f
  <2> QED
    BY <2>3
<1>2. ASSUME NEW k \in 1 .. n, k - 1 \in S PROVE k \in S
  <2>1. PICK f : Is(f, k - 1)
    BY <1>2
  <2> DEFINE g == [i \in 0 .. k |-> IF i <= k - 1 THEN f[i] ELSE step[<<f[k - 1], k>>]]
  <2>2. \A i \in 0 .. k - 1 : f[i] = IF i = 0 THEN base ELSE step[<<f[i - 1], i>>]
    BY <2>1
  <2>3. \A i \in 0 .. k - 1 : g[i] = f[i]
    OBVIOUS
  <2>4. g[k] = step[<<f[k - 1], k>>]
    OBVIOUS
  <2>5. ASSUME NEW i \in 0 .. k
        PROVE  g[i] = IF i = 0 THEN base ELSE step[<<g[i - 1], i>>]
    <3>1. CASE i = k
      <4>1. g[k - 1] = f[k - 1] /\ k # 0
        BY <2>3
      <4> QED
        BY <2>4, <3>1, <4>1
    <3>2. CASE i # k
      <4>1. i \in 0 .. k - 1 /\ (i # 0 => i - 1 \in 0 .. k - 1)
        BY <3>2
      <4>2. g[i] = f[i] /\ (i # 0 => g[i - 1] = f[i - 1])
        BY <2>3, <4>1
      <4> QED
        BY <2>2, <4>1, <4>2
    <3> QED
      BY <3>1, <3>2
  <2>6. g = [i \in 0 .. k |-> IF i = 0 THEN base ELSE step[<<g[i - 1], i>>]]
    <3>1. g = [i \in 0 .. k |-> g[i]]
      OBVIOUS
    <3> HIDE DEF g
    <3> QED
      BY <2>5, <3>1
  <2>7. g[k] \in A[k]
    BY <2>1, <2>4
  <2>8. Is(g, k)
    BY <2>6, <2>7
  <2> HIDE DEF Is, g
  <2> QED
    BY <2>8
<1>3. \A k \in 0 .. n : k \in S
  <2> HIDE DEF S
  <2> QED
    BY <1>1, <1>2, RoundsKeep
<1>4. PICK f : Is(f, n)
  BY <1>3
<1>5. \A i \in 0 .. n : f[i] \in A[i]
  <2>1. f[0] \in A[0]
    BY <1>4
  <2>2. \A i \in 1 .. n : f[i] = step[<<f[i - 1], i>>]
    BY <1>4
  <2> HIDE DEF Is
  <2> QED
    BY <2>1, <2>2, LoopKeeps
<1>6. Runs(f, n, base, step)
  BY <1>4 DEF Runs
<1> QED
  BY <1>5, <1>6
=============================================================================
