------------------------------ MODULE SortArrBI ------------------------------
(***************************************************************************)
(* SortArrBI of include/sort_arr_bi.h: an array of at most cap items, kept *)
(* sorted by key, that remembers which items were used.  Here it is the    *)
(* sequence of the items in use; positions count from 0 as in the code.    *)
(***************************************************************************)
EXTENDS Integers, SequencesExt

Item(key, data) == [key |-> key, used |-> FALSE, data |-> data]

\* std::lower_bound in [from, to): the first position whose key is not less.
LowerBound(v, from, to, key) ==
    CHOOSE i \in from .. to :
        /\ i = to \/ v[i + 1].key >= key
        /\ \A j \in from .. i - 1 : v[j + 1].key < key

\* Steps of 1, 2, 4, ... towards the front that never pass it, at most one for
\* every item; then a binary search between the last two positions.
Back(v, key, w) ==
    LET c == w.curr - w.d
    IN  IF w.curr > 0 /\ v[w.curr + 1].key > key
        THEN [curr |-> c, prev |-> w.curr, d |-> IF 2 * w.d > c THEN c ELSE 2 * w.d]
        ELSE w

PositionOf(v, key) ==
    LET last == Len(v) - 1
        walk[i \in 0 .. last] == IF i = 0 THEN [curr |-> last, prev |-> last, d |-> 1]
                                 ELSE Back(v, key, walk[i - 1])
        w == walk[last]
    IN  IF w.curr < w.prev THEN LowerBound(v, w.curr, w.prev, key) ELSE w.curr

\* push_or_replace_non_empty_exp: a full array drops its last item.
PushOrReplace(v, cap, key, data) ==
    LET at == IF v[Len(v)].key <= key THEN Len(v) ELSE PositionOf(v, key)
    IN  [v  |-> IF at = cap THEN v
                ELSE LET longer == InsertAt(v, at + 1, Item(key, data))
                     IN  SubSeq(longer, 1, IF Len(longer) > cap THEN cap ELSE Len(longer)),
         at |-> at]

\* std::inplace_merge: stable, the items of the array before equal new ones.
MergedItem(w, x) == InsertAt(w, LowerBound(w, 0, Len(w), x.key + 1) + 1, x)
Merged(v, items) ==
    LET merged[i \in 0 .. Len(items)] ==
            IF i = 0 THEN v ELSE MergedItem(merged[i - 1], items[i])
    IN  merged[Len(items)]

FirstUnused(v) == CHOOSE i \in 0 .. Len(v) :
    /\ i = Len(v) \/ ~ v[i + 1].used
    /\ \A j \in 1 .. i : v[j].used

\* merge_with_sorted_items: the items that do not fit replace farther ones.
MergeWithSorted(v, cap, items) ==
    LET qty == IF Len(items) > cap THEN cap ELSE Len(items)
        left == cap - Len(v)
        replaces(r) == /\ qty > left + r
                       /\ Len(v) > r
                       /\ items[left + r + 1].key < v[Len(v) - r].key
        removed == CHOOSE r \in 0 .. Len(v) :
                       ~ replaces(r) /\ \A p \in 0 .. r - 1 : replaces(p)
        taken == IF left >= qty THEN qty ELSE left + removed
        w == Merged(SubSeq(v, 1, Len(v) - removed), SubSeq(items, 1, taken))
    IN  [v |-> w, at |-> FirstUnused(w)]

SortedByKey(v) == IsSorted(v, LAMBDA x, y : x.key <= y.key)

\* std::sort of the new items; equal ones stay in the order they were found.
Sorted(items) == Merged(<<>>, items)
=============================================================================
