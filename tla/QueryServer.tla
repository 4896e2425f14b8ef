----------------------------- MODULE QueryServer -----------------------------
(***************************************************************************)
(* The query server (query_server/cpp_client_server) with a graph index.   *)
(* Handler threads raise counter_ under a mutex, search the index without  *)
(* it, and lower counter_; a handler that sets query-time parameters       *)
(* retries until it holds the mutex and counter_ is zero.  The batch       *)
(* request searches with several threads, as ParallelFor (JobSet) does.    *)
(*                                                                         *)
(* The index is a small-world graph or a hierarchical one.  Both have two  *)
(* searches, "old" with heaps and "v1merge" with a sorted array; they read *)
(* the parameters over and over.  The hierarchical graph marks what it has *)
(* seen with small counters in lists that searches take from a pool.       *)
(***************************************************************************)
EXTENDS SortArrBI, KNNQueue

CONSTANTS
    Handlers,       \* threads of the server that serve queries
    Slots,          \* numbers of the queries of a batch
    Node, Queries,
    Malformed,      \* a query text that cannot be parsed
    Dist,           \* Dist[q][n]
    Indices,        \* indices to search: [method, entry, maxlevel, friends], where
                    \* friends[level][n] is a sequence
    Requests,       \* what clients may ask for: [k, queries]
    Settings,       \* parameters they may set: [ef, algo]
    Ks, Efs,        \* numbers of neighbors and values of ef that occur there
    EfOldFrom,      \* the hybrid search is the old one from this ef (1000)
    MergeFrom,      \* more new items than this are merged (100)
    VlMod,          \* number of values of a mark (256)
    MaxQueries, MaxChanges,     \* bounds: queries served, changes of parameters
    Nobody

ASSUME PositiveAssumption ==
    /\ Ks \subseteq Nat \ {0} /\ Efs \subseteq Nat \ {0}
    /\ VlMod \in Nat \ {0, 1}
\* A list of friends has no node twice: addFriendlevel and addFriend see to that.
ASSUME IndicesAssumption ==
    /\ IsFiniteSet(Node)
    /\ Dist \in [Queries -> [Node -> Int]]
    /\ \A x \in Indices :
           /\ x.entry \in Node /\ x.maxlevel \in Nat
           /\ x.friends \in [0 .. x.maxlevel -> [Node -> Seq(Node)]]
           /\ \A l \in 0 .. x.maxlevel, n \in Node : IsInjective(x.friends[l][n])
ASSUME RequestsAssumption ==
    \A r \in Requests : r.k \in Ks /\ r.queries \in Seq(Queries \cup {Malformed})
                                 /\ DOMAIN r.queries \subseteq Slots
ASSUME SettingsAssumption == \A p \in Settings : p.ef \in Efs
ASSUME HandlersAssumption == IsFiniteSet(Handlers) /\ Nobody # "setter"

Searches == Handlers \X Slots

VARIABLES
    index,              \* the index, which does not change
    ef, algoType,       \* query-time parameters of the index
    counter, mtx,       \* counter_ and the thread that holds mtx_
    setter, wanted,     \* the thread that sets parameters, and to what
    handler,            \* program counter of every handler
    search,             \* state of every search of every handler
    expanded,           \* history: nodes whose friends a search looked at
    lists, pool,        \* visited lists, and those that are free
    asked, changes      \* number of queries and of changes so far

params == <<ef, algoType>>
lock == <<counter, mtx, setter, wanted, changes>>
vars == <<index, params, lock, handler, search, expanded, lists, pool, asked>>

-----------------------------------------------------------------------------
(* The marks of hnsw.h 568-639.                                            *)

\* A list is made with arbitrary marks and the largest counter.
NewList(garbage) == [curV |-> VlMod - 1, mass |-> [n \in Node |-> garbage]]

\* Mutant: the marks are not cleared when the counter wraps.
ResetNoClear(list) ==
    LET v == (list.curV + 1) % VlMod
    IN  IF v = 0 THEN [list EXCEPT !.curV = 1] ELSE [list EXCEPT !.curV = v]

Reset(list) ==
    LET v == (list.curV + 1) % VlMod
    IN  IF v = 0 THEN [curV |-> 1, mass |-> [n \in Node |-> 0]]
        ELSE [list EXCEPT !.curV = v]

\* getFreeVisitedList: the front of the pool or a new list, reset.
TakeList(id) ==
    IF pool # <<>>
    THEN /\ id = Head(pool)
         /\ pool' = Tail(pool)
         /\ lists' = [lists EXCEPT ![id] = Reset(@)]
    ELSE /\ id = Len(lists) + 1
         /\ \E garbage \in 0 .. VlMod - 1 : lists' = Append(lists, Reset(NewList(garbage)))
         /\ UNCHANGED pool

Marked(id) == {n \in Node : lists[id].mass[n] = lists[id].curV}

-----------------------------------------------------------------------------
\* Only the hierarchical index has visited lists and the hybrid search.
Pooled == index.method = "hnsw"
Supported == {"old", "v1merge"} \cup IF Pooled THEN {"hybrid"} ELSE {}

Nothing == [ef |-> 0, algo |-> "none"]
Unused == [pc |-> "unused"]
Waiting(q, k) == [pc |-> "waiting", q |-> q, k |-> k]

Walking(s) == search[s].pc \in {"old", "v1merge"}

\* releaseVisitedList: back to the front of the pool.
ReleaseList(id) == pool' = IF Pooled THEN <<id>> \o pool ELSE pool

\* The nodes a search has seen; a small-world search has a bitset of its own.
Seen(s) == IF ~ Walking(s) THEN {}
           ELSE IF Pooled THEN Marked(search[s].list) ELSE search[s].bits

\* The nodes of a list that are in S, in the order of the list.
Those(list, S) ==
    LET those[i \in 0 .. Len(list)] ==
            IF i = 0 THEN <<>>
            ELSE IF list[i] \in S THEN Append(those[i - 1], list[i]) ELSE those[i - 1]
    IN  those[Len(list)]

\* The friends of n that the search has not seen.
NewFriends(s, n) == Those(index.friends[0][n], Node \ Seen(s))

\* A search goes on as the record "to", having marked the nodes of new.
GoOn(s, to, new) ==
    IF Pooled
    THEN /\ search' = [search EXCEPT ![s] = to]
         /\ lists' = [lists EXCEPT ![to.list].mass =
                          [n \in Node |-> IF n \in new THEN lists[to.list].curV ELSE @[n]]]
    ELSE /\ search' = [search EXCEPT ![s] = [to EXCEPT !.bits = @ \cup new]]
         /\ UNCHANGED lists

Init ==
    /\ index \in Indices
    /\ \E p \in Settings : p.algo \in Supported /\ ef = p.ef /\ algoType = p.algo
    /\ counter = 0
    /\ mtx = Nobody
    /\ setter = "idle"
    /\ wanted = Nothing
    /\ handler = [h \in Handlers |-> "idle"]
    /\ search = [s \in Searches |-> Unused]
    /\ expanded = [s \in Searches |-> {}]
    /\ IF Pooled
       THEN pool = <<1>> /\ \E garbage \in 0 .. VlMod - 1 : lists = <<NewList(garbage)>>
       ELSE pool = <<>> /\ lists = <<>>
    /\ asked = 0
    /\ changes = 0

-----------------------------------------------------------------------------
(* A handler that serves queries.                                          *)

\* Mutant: the counter is raised without looking at the mutex.
ArriveUnlocked(h) ==
    /\ handler[h] = "idle"
    /\ counter' = counter + 1
    /\ handler' = [handler EXCEPT ![h] = "serving"]
    /\ \E r \in Requests :
           /\ asked' = asked + Len(r.queries)
           /\ asked' <= MaxQueries
           /\ search' = [s \in Searches |-> IF s[1] = h /\ s[2] \in DOMAIN r.queries
                                            THEN Waiting(r.queries[s[2]], r.k) ELSE search[s]]
    /\ UNCHANGED <<index, params, mtx, setter, wanted, changes, expanded, lists, pool>>

\* The constructor of LockedCounterManager: knnQuery has one query,
\* knnQueryBatch several.  A range query is refused by both graphs: it ends
\* like a query that cannot be parsed.
Arrive(h) ==
    /\ handler[h] = "idle"
    /\ mtx = Nobody
    /\ counter' = counter + 1
    /\ handler' = [handler EXCEPT ![h] = "serving"]
    /\ \E r \in Requests :
           /\ asked' = asked + Len(r.queries)
           /\ asked' <= MaxQueries
           /\ search' = [s \in Searches |-> IF s[1] = h /\ s[2] \in DOMAIN r.queries
                                            THEN Waiting(r.queries[s[2]], r.k) ELSE search[s]]
    /\ UNCHANGED <<index, params, mtx, setter, wanted, changes, expanded, lists, pool>>

\* The job function throws before it searches.
Throw(s) ==
    /\ search[s].pc = "waiting"
    /\ search[s].q = Malformed
    /\ search' = [search EXCEPT ![s] = [pc |-> "threw"]]
    /\ UNCHANGED <<index, params, lock, handler, expanded, lists, pool, asked>>

\* The algorithm is chosen by the parameters (hnsw.cc 724, small_world_rand.cc 608).
Algorithm == IF algoType = "hybrid" THEN IF ef >= EfOldFrom THEN "old" ELSE "v1merge"
             ELSE algoType

\* The search starts at the entry point, on the highest level.
Start(s) ==
    /\ search[s].pc = "waiting"
    /\ search[s].q # Malformed
    /\ \E id \in 0 .. Len(lists) + 1 :
           /\ IF Pooled THEN TakeList(id) ELSE id = 0 /\ UNCHANGED <<lists, pool>>
           /\ search' = [search EXCEPT ![s] =
                  [pc |-> "descend", q |-> @.q, k |-> @.k, algo |-> Algorithm,
                   list |-> id, bits |-> {}, node |-> index.entry,
                   level |-> index.maxlevel]]
    /\ UNCHANGED <<index, params, lock, handler, expanded, asked>>

\* Mutant: a friend that is as close is followed as well.
DescendOnTies(s) ==
    /\ search[s].pc = "descend"
    /\ search[s].level > 0
    /\ LET r == search[s]
           d == Dist[r.q]
           closer == Those(index.friends[r.level][r.node], {m \in Node : d[m] <= d[r.node]})
           first == SelectInSeq(closer, LAMBDA m : \A x \in ToSet(closer) : d[m] <= d[x])
       IN  search' = [search EXCEPT ![s] =
               IF closer = <<>> THEN [r EXCEPT !.level = r.level - 1]
                                ELSE [r EXCEPT !.node = closer[first]]]
    /\ UNCHANGED <<index, params, lock, handler, expanded, lists, pool, asked>>

\* One pass over the friends on an upper level: go to the closest one as long
\* as that is closer (hnsw.cc 1093, hnsw_distfunc_opt.cc 67).
Descend(s) ==
    /\ search[s].pc = "descend"
    /\ search[s].level > 0
    /\ LET r == search[s]
           d == Dist[r.q]
           closer == Those(index.friends[r.level][r.node], {m \in Node : d[m] < d[r.node]})
           first == SelectInSeq(closer, LAMBDA m : \A x \in ToSet(closer) : d[m] <= d[x])
       IN  search' = [search EXCEPT ![s] =
               IF closer = <<>> THEN [r EXCEPT !.level = r.level - 1]
                                ELSE [r EXCEPT !.node = closer[first]]]
    /\ UNCHANGED <<index, params, lock, handler, expanded, lists, pool, asked>>

\* The walk on level 0 begins.
Enter(s) ==
    /\ search[s].pc = "descend"
    /\ search[s].level = 0
    /\ LET r == search[s]
           d == Dist[r.q]
       IN  IF r.algo = "old"
           THEN GoOn(s, [pc |-> "old", q |-> r.q, k |-> r.k, list |-> r.list, bits |-> {},
                         candidates |-> {r.node}, closest |-> {r.node},
                         result |-> CheckAndAdd(d, r.k, {}, r.node)], {r.node})
           ELSE GoOn(s, [pc |-> "v1merge", q |-> r.q, k |-> r.k, list |-> r.list, bits |-> {},
                         sorted |-> <<Item(d[r.node], r.node)>>, curr |-> 0,
                         cap |-> IF ef > r.k THEN ef ELSE r.k], {r.node})
    /\ UNCHANGED <<index, params, lock, handler, expanded, pool, asked>>

\* One friend m of the node expanded by the old search: the small-world graph
\* offers it to the query in any case, the hierarchical one if it is a candidate.
Visit(r, m) ==
    LET d == Dist[r.q]
        accepted == \/ Cardinality(r.closest) < ef
                    \/ d[m] < d[Farthest(d, r.closest)]
        closest == r.closest \cup {m}
        offered == CheckAndAdd(d, r.k, r.result, m)
    IN  IF accepted
        THEN [r EXCEPT !.candidates = @ \cup {m},
                       !.closest = IF Cardinality(closest) > ef
                                   THEN closest \ {Farthest(d, closest)} ELSE closest,
                       !.result = offered]
        ELSE IF Pooled THEN r ELSE [r EXCEPT !.result = offered]

Visited(r, new) ==
    LET visited[i \in 0 .. Len(new)] ==
            IF i = 0 THEN r ELSE Visit(visited[i - 1], new[i])
    IN  visited[Len(new)]

\* The closest candidates of the old search, and whether it is at a local minimum.
NearestOf(d, S) == {n \in S : \A m \in S : d[n] <= d[m]}
AtMinimum(r) ==
    LET d == Dist[r.q]
    IN  \A n \in r.candidates : d[n] > d[Farthest(d, r.closest)]

ExpandOld(s) ==
    /\ search[s].pc = "old"
    /\ ~ AtMinimum(search[s])
    /\ \E n \in NearestOf(Dist[search[s].q], search[s].candidates) :
           LET new == NewFriends(s, n)
               popped == [search[s] EXCEPT !.candidates = @ \ {n}]
           IN  /\ GoOn(s, Visited(popped, new), ToSet(new))
               /\ expanded' = [expanded EXCEPT ![s] = @ \cup {n}]
    /\ UNCHANGED <<index, params, lock, handler, pool, asked>>

\* Mutant: the list is not returned to the pool.
FinishKeepingList(s, result) ==
    /\ search' = [search EXCEPT ![s] = [pc |-> "done", result |-> result]]
    /\ expanded' = [expanded EXCEPT ![s] = {}]
    /\ UNCHANGED <<index, params, lock, handler, lists, pool, asked>>

\* The search is over: its list goes back to the front of the pool.
Finish(s, result) ==
    /\ search' = [search EXCEPT ![s] = [pc |-> "done", result |-> result]]
    /\ expanded' = [expanded EXCEPT ![s] = {}]
    /\ ReleaseList(search[s].list)
    /\ UNCHANGED <<index, params, lock, handler, lists, asked>>

FinishOld(s) ==
    /\ search[s].pc = "old"
    /\ AtMinimum(search[s])
    /\ Finish(s, search[s].result)

\* Mutant: the search does not go back to the items put before its position.
InsertStayingThere(r, items) ==
    LET put(v, x) == PushOrReplace(v, r.cap, x.key, x.data).v
    IN  [r EXCEPT !.sorted = IF Len(items) > MergeFrom
                             THEN MergeWithSorted(r.sorted, r.cap, items).v
                             ELSE FoldLeft(put, r.sorted, items)]

\* New items are put into the array, together if they are many; the search
\* goes back to the first position a new item took ...
Earlier(b, curr) == [v |-> b.v, at |-> IF b.at < curr THEN b.at ELSE curr]

Put(r, items) ==
    LET put[i \in 0 .. Len(items)] ==
            IF i = 0 THEN [v |-> r.sorted, at |-> r.curr]
            ELSE Earlier(PushOrReplace(put[i - 1].v, r.cap, items[i].key, items[i].data),
                         put[i - 1].at)
    IN  put[Len(items)]

Insert(r, items) ==
    LET both == IF Len(items) > MergeFrom
                THEN Earlier(MergeWithSorted(r.sorted, r.cap, items), r.curr)
                ELSE Put(r, items)
    IN  [r EXCEPT !.sorted = both.v, !.curr = both.at]

\* ... and from there to the next item that was not used.
SkipUsed(r) ==
    [r EXCEPT !.curr = CHOOSE i \in r.curr .. Len(r.sorted) :
        /\ i = Len(r.sorted) \/ ~ r.sorted[i + 1].used
        /\ \A j \in r.curr .. i - 1 : r.sorted[j + 1].used]

MoreToUse(r) == r.curr < Len(r.sorted) /\ r.curr < ef

\* What is far from the query is not kept: topKey is read before the loop.
Promising(r, new) ==
    LET d == Dist[r.q]
        topKey == r.sorted[Len(r.sorted)].key
    IN  Those(new, {m \in Node : Len(r.sorted) < ef \/ d[m] < topKey})

Joined(r, new) ==
    LET promising == Promising(r, new)
        items == [i \in DOMAIN promising |-> Item(Dist[r.q][promising[i]], promising[i])]
    IN  IF items = <<>> THEN r ELSE Insert(r, Sorted(items))

ExpandV1Merge(s) ==
    /\ search[s].pc = "v1merge"
    /\ MoreToUse(search[s])
    /\ LET n == search[s].sorted[search[s].curr + 1].data
           new == NewFriends(s, n)
           used == [search[s] EXCEPT !.sorted[search[s].curr + 1].used = TRUE, !.curr = @ + 1]
       IN  /\ GoOn(s, SkipUsed(Joined(used, new)), ToSet(new))
           /\ expanded' = [expanded EXCEPT ![s] = @ \cup {n}]
    /\ UNCHANGED <<index, params, lock, handler, pool, asked>>

\* The first K items are offered to the query.
Offered(r) ==
    LET K == IF r.k < Len(r.sorted) THEN r.k ELSE Len(r.sorted)
        offered[i \in 0 .. K] ==
            IF i = 0 THEN {}
            ELSE CheckAndAdd(Dist[r.q], r.k, offered[i - 1], r.sorted[i].data)
    IN  offered[K]

FinishV1Merge(s) ==
    /\ search[s].pc = "v1merge"
    /\ ~ MoreToUse(search[s])
    /\ Finish(s, Offered(search[s]))

Begun == {"descend", "old", "v1merge"}
Jobs(h) == {s \in Searches : s[1] = h}

\* Mutant: the counter is lowered by the exception and by the destructor.
LeaveTwice(h) ==
    /\ handler[h] = "serving"
    /\ mtx = Nobody
    /\ \A s \in Jobs(h) : search[s].pc \notin Begun
    /\ \/ \A s \in Jobs(h) : search[s].pc # "waiting"
       \/ \E s \in Jobs(h) : search[s].pc = "threw"
    /\ counter' = counter - (IF \E s \in Jobs(h) : search[s].pc = "threw" THEN 2 ELSE 1)
    /\ handler' = [handler EXCEPT ![h] = "idle"]
    /\ search' = [s \in Searches |-> IF s[1] = h THEN Unused ELSE search[s]]
    /\ UNCHANGED <<index, params, mtx, setter, wanted, changes, expanded, lists, pool, asked>>

\* Mutant: the counter is not lowered when an exception leaves the handler.
LeaveCounted(h) ==
    /\ handler[h] = "serving"
    /\ mtx = Nobody
    /\ \A s \in Jobs(h) : search[s].pc \notin Begun
    /\ \/ \A s \in Jobs(h) : search[s].pc # "waiting"
       \/ \E s \in Jobs(h) : search[s].pc = "threw"
    /\ counter' = counter - (IF \E s \in Jobs(h) : search[s].pc = "threw" THEN 0 ELSE 1)
    /\ handler' = [handler EXCEPT ![h] = "idle"]
    /\ search' = [s \in Searches |-> IF s[1] = h THEN Unused ELSE search[s]]
    /\ UNCHANGED <<index, params, mtx, setter, wanted, changes, expanded, lists, pool, asked>>

\* All jobs have ended, or one threw and those that had begun have ended: the
\* answer or the exception is returned, the destructor lowers the counter.
Leave(h) ==
    /\ handler[h] = "serving"
    /\ mtx = Nobody
    /\ \A s \in Jobs(h) : search[s].pc \notin Begun
    /\ \/ \A s \in Jobs(h) : search[s].pc # "waiting"
       \/ \E s \in Jobs(h) : search[s].pc = "threw"
    /\ counter' = counter - 1
    /\ handler' = [handler EXCEPT ![h] = "idle"]
    /\ search' = [s \in Searches |-> IF s[1] = h THEN Unused ELSE search[s]]
    /\ UNCHANGED <<index, params, mtx, setter, wanted, changes, expanded, lists, pool, asked>>

-----------------------------------------------------------------------------
(* The handler that sets the query-time parameters (166-197).              *)

Ask ==
    /\ setter = "idle"
    /\ changes < MaxChanges
    /\ setter' = "retrying"
    /\ changes' = changes + 1
    /\ UNCHANGED <<index, params, counter, mtx, wanted, handler, search, expanded, lists, pool, asked>>

\* The attempt that finds zero keeps the mutex and parses the request.
FindZero ==
    /\ setter = "retrying"
    /\ mtx = Nobody
    /\ counter = 0
    /\ mtx' = "setter"
    /\ setter' = "setting"
    /\ wanted' \in Settings
    /\ UNCHANGED <<index, params, counter, changes, handler, search, expanded, lists, pool, asked>>

\* An attempt that finds a query running: the mutex is taken and released.
Retry ==
    /\ setter = "retrying"
    /\ mtx = Nobody
    /\ counter # 0
    /\ UNCHANGED vars

SetEf ==
    /\ setter = "setting"
    /\ ef' = wanted.ef
    /\ setter' = "half"
    /\ UNCHANGED <<index, algoType, counter, mtx, wanted, changes, handler, search, expanded, lists, pool, asked>>

\* An algorithm the index does not have throws: ef has its new value already.
SetAlgo ==
    /\ setter = "half"
    /\ algoType' = IF wanted.algo \in Supported THEN wanted.algo ELSE algoType
    /\ mtx' = Nobody
    /\ setter' = "idle"
    /\ wanted' = Nothing
    /\ UNCHANGED <<index, ef, counter, changes, handler, search, expanded, lists, pool, asked>>

-----------------------------------------------------------------------------
Search(s) ==
    \/ Throw(s) \/ Start(s) \/ Descend(s) \/ Enter(s)
    \/ ExpandOld(s) \/ FinishOld(s) \/ ExpandV1Merge(s) \/ FinishV1Merge(s)

Setter == FindZero \/ SetEf \/ SetAlgo

\* Nobody asks for anything any more.
Rest ==
    /\ \A h \in Handlers : handler[h] = "idle"
    /\ setter = "idle"
    /\ asked = MaxQueries /\ changes = MaxChanges
    /\ UNCHANGED vars

Next ==
    \/ \E h \in Handlers : Arrive(h) \/ Leave(h) \/ \E s \in Jobs(h) : Search(s)
    \/ Ask \/ Retry \/ Setter \/ Rest

Spec == Init /\ [][Next]_vars

\* Threads that can run do; clients need not ask for anything.  A search can go
\* on until it is done, and nobody else changes its state: fairness of Search(s)
\* with its ENABLED written out, which TLC is slow to evaluate.
Progress(s) == []<>(search[s].pc \notin Begun \cup {"waiting"}) \/ []<><<TRUE>>_(search[s])

FairSpec ==
    /\ Spec
    /\ WF_vars(Setter)
    /\ \A h \in Handlers : WF_vars(Leave(h)) /\ \A s \in Jobs(h) : Progress(s)

-----------------------------------------------------------------------------
(* Properties.                                                             *)

Serving == {h \in Handlers : handler[h] = "serving"}

TypeOK ==
    /\ ef \in Efs /\ algoType \in Supported
    /\ counter \in Nat /\ mtx \in {Nobody, "setter"}
    /\ setter \in {"idle", "retrying", "setting", "half"}
    /\ handler \in [Handlers -> {"idle", "serving"}]
    /\ \A s \in Searches : search[s].pc \in {"unused", "waiting", "threw", "done"} \cup Begun
    /\ \A i \in DOMAIN lists : /\ lists[i].curV \in 0 .. VlMod - 1
                               /\ lists[i].mass \in [Node -> 0 .. VlMod - 1]
    /\ pool \in Seq(DOMAIN lists)
    /\ expanded \in [Searches -> SUBSET Node]

\* Parameters change only while no query runs ("This will increase the counter
\* and prevent modification of query time parameters"): lines 71-87, 170-184.
Exclusion ==
    setter \in {"setting", "half"} =>
        Serving = {} /\ \A s \in Searches : search[s].pc \notin Begun

\* A visited list belongs to one search or to the pool, and none is lost:
\* getFreeVisitedList and releaseVisitedList of concurrent searches.
ListsApart ==
    Pooled =>
        LET held == {s \in Searches : search[s].pc \in Begun}
        IN  /\ \A s, t \in held : search[s].list = search[t].list => s = t
            /\ \A s \in held : search[s].list \notin ToSet(pool)
            /\ Len(lists) = Cardinality(held) + Len(pool)

\* The array of a v1merge search is sorted, and curr is at the first item that
\* was not used, so CHECK(!e.used) never fails, whatever was inserted before it.
FirstIsUnused ==
    \A s \in Searches : search[s].pc = "v1merge" =>
        LET r == search[s]
        IN  /\ SortedByKey(r.sorted)
            /\ Len(r.sorted) <= r.cap
            /\ r.curr = FirstUnused(r.sorted)

\* Every request is answered or refused.
RequestsEnd == \A h \in Handlers : handler[h] = "serving" ~> handler[h] = "idle"

\* Once requests stop coming, a change of parameters gets its turn.
ChangesEnd == setter = "retrying" ~> setter = "idle"

\* The searches of the server are best-first walks whose width does not change,
\* with either algorithm, either graph and marks of VlMod values.
Phase(s) == IF search[s].pc \in Begun THEN "searching"
            ELSE IF search[s].pc = "done" THEN "answered" ELSE "idle"

Friends == [n \in Node |-> ToSet(index.friends[0][n])]
Upper == [n \in Node |-> IF index.maxlevel = 0 THEN {} ELSE ToSet(index.friends[1][n])]
Known == [s \in Searches |->
    CASE Phase(s) = "idle" -> [phase |-> "idle"]
      [] Phase(s) = "answered" -> [phase |-> "answered", answer |-> search[s].result]
      [] OTHER -> [phase |-> "searching", q |-> search[s].q, k |-> search[s].k,
                   seen |-> Seen(s), expanded |-> expanded[s]]]

Service == INSTANCE SearchService WITH friends <- Friends, upper <- Upper, search <- Known
ImplementsService == Service!Spec
=============================================================================
