----------------------------- MODULE PivotNeighb -----------------------------
(***************************************************************************)
(* The inverted index over neighboring pivots (NAPP) of                    *)
(* src/method/pivot_neighb_invindx.cc: threads index chunks of the data,   *)
(* searches look for the objects that share at least minTimes of their     *)
(* nearest pivots with the query, by any of five algorithms, and compare   *)
(* these candidates with the query.                                        *)
(*                                                                         *)
(* The pivots of an object, nearest first, are given; distances to pivots  *)
(* are the business of the spaces.  Ids in posting lists are relative to   *)
(* their chunk.  One action is one iteration of the outer loop over a      *)
(* posting list, a queue or a sorted array.                                *)
(***************************************************************************)
EXTENDS PostingLists, FiniteSetsExt

CONSTANTS
    DataQty,            \* number of objects; object n is data_[n]
    ChunkIndexSize,     \* chunk_index_size_
    NumPivot, NumPrefix,
    IndexThreads,       \* the parameter indexThreadQty
    PivotOrders,       \* what GetPermutationPPIndexEfficiently returns for objects
    QueryPivots,   \* ... and for the query
    Settings            \* query-time parameters, see SettingsAssumption

Algorithms == {"scan", "map", "merge", "pqueue", "wand"}

\* dbScan: the number of candidates to check in all chunks, from dbScanFrac or
\* knnAmp.  With minTimes = 0 the algorithms promise nothing (wand would read
\* in front of an array).
ASSUME SettingsAssumption ==
    /\ DataQty \in Nat \ {0} /\ ChunkIndexSize \in Nat \ {0} /\ IndexThreads \in Nat
    /\ NumPivot \in Nat /\ NumPrefix \in 0 .. NumPivot
    /\ PivotOrders \cup {QueryPivots} \subseteq
           {p \in [1 .. NumPivot -> 1 .. NumPivot] : IsInjective(p)}
    /\ Settings \subseteq [alg : Algorithms, useSort : BOOLEAN,
                           minTimes : Nat \ {0}, prefix : 0 .. NumPivot, dbScan : 0 .. DataQty]

VARIABLES
    perm,       \* [objects -> PivotOrders]
    postings,   \* posting_lists_[chunk][pivot]
    thread,     \* [Workers -> [chunk, id]]: where an indexing thread is
    phase,      \* "creating", "ready", "searching" or "threw"
    params,     \* the query-time parameters
    work,       \* the local variables of GenSearch
    checked     \* the objects given to CheckAndAddToResult

index == <<perm, postings, thread>>
vars == <<index, phase, params, work, checked>>

-----------------------------------------------------------------------------
ChunkQty == (DataQty + ChunkIndexSize - 1) \div ChunkIndexSize
ChunkSize(c) == Min({DataQty - c * ChunkIndexSize, ChunkIndexSize})
Chunks == 0 .. ChunkQty - 1
IdsOf(c) == 0 .. ChunkSize(c) - 1
ObjectOf(c, id) == c * ChunkIndexSize + id
Pivots == 1 .. NumPivot

\* No more threads than chunks; one or none is the caller itself.
IndexThreadQty == Max({1, Min({IndexThreads, ChunkQty})})
Workers == 0 .. IndexThreadQty - 1

\* The chunks that thread t indexes.
Takes(t, c) == c % IndexThreadQty = t

\* IndexChunk for one object, which goes to the lists of its nearest pivots.
IndexObject(t) ==
    LET c == thread[t].chunk
        id == thread[t].id
        near == {perm[ObjectOf(c, id)][j] : j \in 1 .. NumPrefix}
    IN  /\ c \in Chunks /\ Takes(t, c) /\ id \in IdsOf(c)
        /\ postings' = [postings EXCEPT ![c] =
               [p \in Pivots |-> IF p \in near THEN Append(@[p], id) ELSE @[p]]]
        /\ thread' = [thread EXCEPT ![t].id = id + 1]
        /\ UNCHANGED <<perm, phase, params, work, checked>>

\* The lists are sorted at the end of the chunk.
EndChunk(t) ==
    LET c == thread[t].chunk
    IN  /\ c \in Chunks /\ Takes(t, c) /\ thread[t].id = ChunkSize(c)
        /\ postings' = [postings EXCEPT ![c] =
               [p \in Pivots |-> Sorted(@[p])]]
        /\ thread' = [thread EXCEPT ![t] = [chunk |-> c + 1, id |-> 0]]
        /\ UNCHANGED <<perm, phase, params, work, checked>>

\* A chunk of another thread.
SkipChunk(t) ==
    /\ thread[t].chunk \in Chunks /\ ~ Takes(t, thread[t].chunk)
    /\ thread' = [thread EXCEPT ![t].chunk = @ + 1]
    /\ UNCHANGED <<perm, postings, phase, params, work, checked>>

\* CreateIndex joins the threads.
JoinThreads ==
    /\ phase = "creating"
    /\ \A t \in Workers : thread[t].chunk = ChunkQty
    /\ phase' = "ready"
    /\ UNCHANGED <<index, params, work, checked>>

-----------------------------------------------------------------------------
\* What SetQueryTimeParams of s has stored when it throws: useSort, if minTimes
\* is given by both its names; not the algorithm, if there is none of that name;
\* not dbScan, if it is given in two ways; everything, if a parameter is unknown.
\* A fraction over 1 is stored and comes to all objects.  (A negative one, and
\* more pivots than there are, are stored, too: these calls are left out, since
\* a search would then read what is not there.)
StoredAtThrow(s) ==
    {[params EXCEPT !.useSort = s.useSort],
     [s EXCEPT !.alg = params.alg, !.dbScan = params.dbScan],
     [s EXCEPT !.dbScan = params.dbScan],
     [s EXCEPT !.dbScan = DataQty],
     s}

\* SetQueryTimeParams.  A combination that cannot be sorted is refused, but
\* only after it was stored.
SetQueryTimeParams ==
    /\ phase \in {"ready", "answered", "threw"}
    /\ \E s \in Settings :
        \/ /\ params' = s
           /\ phase' = IF s.useSort /\ s.alg \in {"wand", "pqueue"} THEN "threw" ELSE "ready"
        \/ params' \in StoredAtThrow(s) /\ phase' = "threw"
    /\ checked' = <<>>
    /\ UNCHANGED <<index, work>>

\* computeDbScan: how many candidates to check in one chunk.
DbScan == (params.dbScan + ChunkQty - 1) \div ChunkQty

ListOf(c, i) == postings[c][QueryPivots[i]]
List(i) == ListOf(work.chunk, i)
Prefix == 1 .. params.prefix

\* The local variables at the start of a chunk: counters of all its objects
\* for scan, a queue with the first id of every list that is not empty.
Entered(c) ==
    [chunk |-> c, pc |-> IF params.alg \in {"wand", "pqueue"} THEN "queue" ELSE "lists",
     list |-> 1, tmpRes |-> [b \in 0 .. 1 |-> <<>>], prevRes |-> 0, found |-> <<>>,
     counter |-> IF params.alg = "scan" THEN [id \in IdsOf(c) |-> 0] ELSE <<>>,
     pos |-> IF params.alg \in {"wand", "pqueue"}
             THEN [i \in {j \in Prefix : ListOf(c, j) # <<>>} |-> 1] ELSE <<>>,
     candidates |-> <<>>, idx |-> 1, stk |-> <<>>]

Idle == [pc |-> "idle"]

\* Search.  In the sorting mode a chunk cannot be scanned for no candidates,
\* and not by the algorithms with a queue.
Search ==
    /\ phase \in {"ready", "answered", "threw"}
    /\ checked' = <<>>
    /\ IF params.useSort /\ (DbScan = 0 \/ params.alg \in {"wand", "pqueue"})
       THEN phase' = "threw" /\ work' = Idle
       ELSE phase' = "searching" /\ work' = Entered(0)
    /\ UNCHANGED <<index, params>>

\* The chunk is done: the ids found are compared with the query.
EndWith(ids) ==
    /\ checked' = checked \o [i \in DOMAIN ids |-> ObjectOf(work.chunk, ids[i])]
    /\ IF work.chunk + 1 = ChunkQty
       THEN phase' = "answered" /\ work' = Idle
       ELSE work' = Entered(work.chunk + 1) /\ UNCHANGED phase
    /\ UNCHANGED <<index, params>>

Working(new) ==
    work' = new /\ UNCHANGED <<index, phase, params, checked>>

\* counter[p]++ for every p of a list; map makes counters as it meets ids.
Counted(counter, list) ==
    [id \in DOMAIN counter \cup ToSet(list) |->
        (IF id \in DOMAIN counter THEN counter[id] ELSE 0)
        + Cardinality({k \in DOMAIN list : list[k] = id})]

\* scan, map and merge go through the lists one after the other.  merge puts the
\* union of one buffer and a list into the other buffer, and changes them.
AddList ==
    /\ work.pc = "lists" /\ work.list \in Prefix
    /\ Working(
        IF params.alg = "merge"
        THEN [work EXCEPT
                !.tmpRes[1 - work.prevRes] =
                    PostListUnion(work.tmpRes[work.prevRes], List(work.list)),
                !.prevRes = 1 - @, !.list = @ + 1]
        ELSE [work EXCEPT !.counter = Counted(@, List(work.list)), !.list = @ + 1])

\* What was counted: pairs of -count and id.  The buffer that merge reads is the
\* one it did not write last.
Pairs ==
    IF params.alg = "merge"
    THEN {<<- m.qty, m.id>> : m \in ToSet(work.tmpRes[1 - work.prevRes])}
    ELSE {<<- work.counter[id], id>> : id \in DOMAIN work.counter}

Enough(pair) == - pair[1] >= params.minTimes

\* Without sorting all that were counted often enough are checked.
EndLists ==
    /\ work.pc = "lists" /\ work.list \notin Prefix /\ ~ params.useSort
    /\ LET enough == ById({p \in Pairs : Enough(p)})
       IN  EndWith([i \in DOMAIN enough |-> enough[i][2]])

\* With sorting they are handed to the quick select; scan hands over all.
StartSelect ==
    /\ work.pc = "lists" /\ work.list \notin Prefix /\ params.useSort
    /\ LET candidates == ById({p \in Pairs : params.alg = "scan" \/ Enough(p)})
       IN  Working([work EXCEPT !.pc = "select", !.candidates = candidates,
                                !.stk = <<Len(candidates) + 1>>])

-----------------------------------------------------------------------------
(* The sorting mode: IncrementalQuickSelect.                               *)

ScanQty == Min({DbScan, Len(work.candidates)})

\* Mutant: the place of the pivot is not remembered.
NarrowForgetting ==
    /\ work.pc = "select" /\ work.idx <= ScanQty /\ Head(work.stk) # work.idx
    /\ LET part == Partition(work.candidates, work.idx, Head(work.stk) - 1)
       IN  Working([work EXCEPT !.candidates = part.x])

\* GetNext puts one more candidate in its place ...
Narrow ==
    /\ work.pc = "select" /\ work.idx <= ScanQty /\ Head(work.stk) # work.idx
    /\ LET part == Partition(work.candidates, work.idx, Head(work.stk) - 1)
       IN  Working([work EXCEPT !.candidates = part.x, !.stk = <<part.at>> \o @])

\* ... until that is the place asked for.  Next follows if it is good enough.
TakeNext ==
    /\ work.pc = "select" /\ work.idx <= ScanQty /\ Head(work.stk) = work.idx
    /\ LET z == work.candidates[work.idx]
       IN  IF Enough(z)
           THEN Working([work EXCEPT !.stk = Tail(@), !.idx = @ + 1,
                                     !.found = Append(@, z[2])])
           ELSE EndWith(work.found)

EndSelect ==
    /\ work.pc = "select" /\ work.idx > ScanQty
    /\ EndWith(work.found)

-----------------------------------------------------------------------------
(* The algorithms with a queue: the lists by their current id.             *)

Queued == DOMAIN work.pos
Current(i) == List(i)[work.pos[i]]
LeastId == Min({Current(i) : i \in Queued})

\* The lists of S move on to positions to[i], those at their end leave.
Moved(S, to) ==
    [i \in {j \in Queued : j \in S => to[j] <= Len(List(j))} |->
        IF i \in S THEN to[i] ELSE work.pos[i]]

\* The first position behind the ids up to id.
Behind(i, id) ==
    CHOOSE k \in work.pos[i] .. Len(List(i)) + 1 :
        /\ k <= Len(List(i)) => List(i)[k] > id
        /\ \A m \in work.pos[i] .. k - 1 : List(i)[m] <= id

\* pqueue: all lists with the least id move on, by one position for every time
\* they hold it.
PriorityQueueStep ==
    /\ work.pc = "queue" /\ params.alg = "pqueue" /\ Queued # {}
    /\ LET S == {i \in Queued : Current(i) = LeastId}
           to == [i \in S |-> Behind(i, LeastId)]
           accum == Cardinality(UNION {{i} \X (work.pos[i] .. to[i] - 1) : i \in S})
       IN  Working([work EXCEPT !.pos = Moved(S, to),
               !.found = IF accum >= params.minTimes THEN Append(@, LeastId) ELSE @])

\* Mutant: lists that hold the id that was found stay where they are.
WandStepLeavingRest ==
    /\ work.pc = "queue" /\ params.alg = "wand" /\ Cardinality(Queued) >= params.minTimes
    /\ \E E \in kSubset(params.minTimes, Queued) :
        /\ \A i \in E, j \in Queued \ E : Current(i) <= Current(j)
        /\ LET match == \A i \in E : Current(i) = LeastId
           IN  Working([work EXCEPT
                   !.pos = Moved(E, [i \in E |-> Behind(i, LeastId)]),
                   !.found = IF match THEN Append(@, LeastId) ELSE @])

\* wand: the first minTimes lists are taken from the queue.  If they agree on
\* an id it is found, and the other lists with it are taken, too.  The lists
\* taken go back behind the least id.
WandStep ==
    /\ work.pc = "queue" /\ params.alg = "wand" /\ Cardinality(Queued) >= params.minTimes
    /\ \E E \in kSubset(params.minTimes, Queued) :
        /\ \A i \in E, j \in Queued \ E : Current(i) <= Current(j)
        /\ LET match == \A i \in E : Current(i) = LeastId
               taken == IF match THEN {i \in Queued : Current(i) = LeastId} ELSE E
           IN  Working([work EXCEPT
                   !.pos = Moved(taken, [i \in taken |-> Behind(i, LeastId)]),
                   !.found = IF match THEN Append(@, LeastId) ELSE @])

EndQueue ==
    /\ work.pc = "queue"
    /\ Cardinality(Queued) < (IF params.alg = "wand" THEN params.minTimes ELSE 1)
    /\ EndWith(work.found)

-----------------------------------------------------------------------------
\* ResetQueryTimeParams; the default of dbScanFrac is 0.05.
Default == [alg |-> "scan", useSort |-> FALSE, minTimes |-> 2, prefix |-> NumPrefix,
            dbScan |-> DataQty \div 20]

Init ==
    /\ perm \in [0 .. DataQty - 1 -> PivotOrders]
    /\ postings = [c \in Chunks |-> [p \in Pivots |-> <<>>]]
    /\ thread = [t \in Workers |-> [chunk |-> 0, id |-> 0]]
    /\ phase = "creating"
    /\ params = Default
    /\ work = Idle
    /\ checked = <<>>

Indexing(t) == IndexObject(t) \/ EndChunk(t) \/ SkipChunk(t)

Searching ==
    \/ AddList \/ EndLists
    \/ StartSelect \/ Narrow \/ TakeNext \/ EndSelect
    \/ PriorityQueueStep \/ WandStep \/ EndQueue

Next ==
    \/ \E t \in Workers : Indexing(t)
    \/ JoinThreads \/ SetQueryTimeParams \/ Search \/ Searching

Spec == Init /\ [][Next]_vars

\* The threads of CreateIndex are scheduled, a search goes on; the caller need
\* not call.
FairSpec ==
    /\ Spec
    /\ \A t \in Workers : WF_vars(Indexing(t))
    /\ WF_vars(JoinThreads) /\ WF_vars(Searching)

-----------------------------------------------------------------------------
(* Properties.                                                             *)

\* The pivots of the query in S that are among the first of x.
SharedOf(S, x) ==
    Cardinality({i \in S : \E j \in 1 .. NumPrefix : perm[x][j] = QueryPivots[i]})

\* The lists whose ids reach the result: merge loses the last one.
Reaching == IF params.alg = "merge" THEN 1 .. params.prefix - 1 ELSE Prefix
Shared(x) == SharedOf(Reaching, x)

InChunk(c) == {ObjectOf(c, id) : id \in IdsOf(c)}

\* Whatever threads indexed the chunks and whatever algorithm goes through the
\* lists, an object is checked once, or not at all: without sorting, if it
\* shares at least minTimes pivots with the query; with sorting, those of a
\* chunk that share most of them (GenSearch, and CreateIndex before it).  For
\* merge the last of the pivots does not count.
RightCandidates ==
    phase = "answered" =>
        /\ IsInjective(checked)
        /\ \A c \in Chunks :
            LET enough == {x \in InChunk(c) : Shared(x) >= params.minTimes}
                seen == ToSet(checked) \cap InChunk(c)
            IN  IF params.useSort
                THEN /\ seen \subseteq enough
                     /\ Cardinality(seen) = Min({DbScan, Cardinality(enough)})
                     /\ \A x \in seen, y \in enough \ seen : Shared(x) >= Shared(y)
                ELSE seen = enough

\* "# pivot overlap (minTimes)" (SetQueryTimeParams): the objects that share at
\* least minTimes of the numPrefixSearch pivots are candidates, for merge, one of
\* "several other simple algorithms for posting processing" (the header), as for
\* the others.  It does not hold of GenSearch: see Reaching.
OverlapMakesCandidate ==
    phase = "answered" /\ ~ params.useSort =>
        \A x \in DOMAIN perm : SharedOf(Prefix, x) >= params.minTimes => x \in ToSet(checked)

\* CreateIndex returns, and every search ends: the queue and the quick select
\* always get on.
Ends == phase \in {"creating", "searching"} ~> phase \in {"ready", "answered"}
=============================================================================
