----------------------------- MODULE PostingLists -----------------------------
(* The list algorithms of the inverted indices: postListUnion of            *)
(* include/method/pivot_neighb_common.h and IncrementalQuickSelect of       *)
(* include/incremental_quick_select.h.                                      *)
EXTENDS Integers, FiniteSets, SequencesExt

\* std::sort of numbers: the i-th is not less than i - 1 of them, nor more.
Sorted(list) ==
    LET UpTo(v) == Cardinality({k \in DOMAIN list : list[k] <= v})
        Below(v) == Cardinality({k \in DOMAIN list : list[k] < v})
    IN  [i \in DOMAIN list |-> CHOOSE v \in ToSet(list) : Below(v) < i /\ i <= UpTo(v)]

\* postListUnion: lst1 counts the ids of earlier lists, lst2 is a posting list;
\* both by increasing id.  One round takes the least id that is left: from lst1
\* at i1, from lst2 at i2, or from both.
Takes1(lst1, lst2, s) ==
    s.i1 <= Len(lst1) /\ (s.i2 <= Len(lst2) => lst1[s.i1].id <= lst2[s.i2])
Takes2(lst1, lst2, s) ==
    s.i2 <= Len(lst2) /\ (s.i1 <= Len(lst1) => lst2[s.i2] <= lst1[s.i1].id)

Counted1(lst1, lst2, s) ==
    IF Takes2(lst1, lst2, s)
    THEN [id |-> lst2[s.i2], qty |-> 1 + IF Takes1(lst1, lst2, s) THEN lst1[s.i1].qty ELSE 0]
    ELSE lst1[s.i1]

UnionRound(lst1, lst2, s) ==
    LET t1 == Takes1(lst1, lst2, s)
        t2 == Takes2(lst1, lst2, s)
    IN  [i1 |-> IF t1 THEN s.i1 + 1 ELSE s.i1,
         i2 |-> IF t2 THEN s.i2 + 1 ELSE s.i2,
         res |-> IF t1 \/ t2 THEN Append(s.res, Counted1(lst1, lst2, s)) ELSE s.res]

PostListUnion(lst1, lst2) ==
    LET Round == [s \in [i1 : Nat, i2 : Nat, res : Seq([id : Nat, qty : Nat])] |->
                    UnionRound(lst1, lst2, s)]
        round[n \in 0 .. Len(lst1) + Len(lst2)] ==
            IF n = 0 THEN [i1 |-> 1, i2 |-> 1, res |-> <<>>] ELSE Round[round[n - 1]]
    IN  round[Len(lst1) + Len(lst2)].res

-----------------------------------------------------------------------------
\* Candidates are pairs (-count, id), compared as pairs.
Less(p, q) == p[1] < q[1] \/ (p[1] = q[1] /\ p[2] < q[2])

\* Candidates by id: the order of the arrays that the code goes through, though
\* not of its hash map, whose order decides nothing.
ById(S) ==
    [i \in 1 .. Cardinality(S) |->
        CHOOSE p \in S : Cardinality({q \in S : q[2] < p[2]}) = i - 1]

\* From left up, and from right down: the first that is on the wrong side.
Up(x, left, pivot) == CHOOSE i \in left .. Len(x) :
    ~ Less(x[i], pivot) /\ \A j \in left .. i - 1 : Less(x[j], pivot)
Down(x, right, pivot) == CHOOSE i \in 1 .. right :
    ~ Less(pivot, x[i]) /\ \A j \in i + 1 .. right : Less(pivot, x[j])

PartitionRound(s, pivot) ==
    LET l == Up(s.x, s.left, pivot)
        r == Down(s.x, s.right, pivot)
    IN  [x     |-> IF l < r THEN [s.x EXCEPT ![l] = s.x[r], ![r] = s.x[l]] ELSE s.x,
         left  |-> IF l < r /\ s.x[l] = s.x[r] THEN l + 1 ELSE l,
         right |-> r]

\* The place of x[left], once what is less stands before it and what is more
\* behind it, and x as it is then.  Numbered from 0 in the code, from 1 here.
\* A round after the loop ended changes nothing.
Partition(x0, left0, right0) ==
    LET Round == [s \in [x : Seq(Int \X Int), left : Nat, right : Nat] |->
                    PartitionRound(s, x0[left0])]
        round[n \in 0 .. Len(x0)] ==
            IF n = 0 THEN [x |-> x0, left |-> left0, right |-> right0] ELSE Round[round[n - 1]]
    IN  [x |-> round[Len(x0)].x, at |-> round[Len(x0)].right]
=============================================================================
