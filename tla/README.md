# TLA+ models and proofs for NMSLIB

NMSLIB is a C++ library, with Python bindings and a query server, for similarity search in generic,
possibly non-metric spaces. A user picks a *space* (objects and a distance) and a *method* (an
index), builds the index from a set of objects, and asks it for the k nearest neighbors of a query
or for everything within a radius. This directory holds TLA+ models of the parts whose correctness
depends on the order of steps, of threads or of calls, the TLC configurations that check them, and
proofs, checked by TLAPS, that hold for every value of the constants.

Paths below are relative to `src/similarity_search/` unless they start with another directory.

* [1. The system](#1-the-system)
* [2. Plan](#2-plan)
* [3. Modules](#3-modules)
* [4. Runs](#4-runs)
* [5. Fairness](#5-fairness)
* [6. Proofs](#6-proofs)
* [7. What the models found](#7-what-the-models-found)
* [8. What is not modelled](#8-what-is-not-modelled)

## 1. The system

### 1.1 Components

| Component | Code | State | Operations |
| --- | --- | --- | --- |
| ParallelFor | `include/thread_pool.h` | an atomic counter, the last exception | run a function on every id of a range with worker threads |
| small_world_rand | `src/method/small_world_rand.cc`, `include/method/small_world_rand.h` | `ElList_` (id to node), the friends of every node, `NextNodeId_`, `pEntryPoint_`, `changedAfterCreateIndex_` | CreateIndex, AddBatch, DeleteBatch, Search, SaveIndex, LoadIndex |
| hnsw | `src/method/hnsw.cc`, `include/method/hnsw.h` | `ElList_`, friends per level, `enterpoint_`, `maxlevel_`, the optimized memory sections, a pool of visited lists | CreateIndex, Search (three algorithms), SaveIndex, LoadIndex (three formats) |
| Queries and queues | `src/knnquery.cc`, `src/rangequery.cc`, `include/knnqueue.h`, `include/sort_arr_bi.h` | a bounded heap, a sorted array, result lists | push, check and add, reset, merge |
| seqsearch | `src/method/seqsearch.cc` | a copy of the data cut into parts | scan with one or several threads |
| vptree | `src/method/vptree.cc`, `src/searchoracle.cc` | a tree of pivots, medians and buckets | build, traverse and prune, save, load |
| napp | `src/method/pivot_neighb_invindx.cc`, `include/method/pivot_neighb_common.h`, `include/incremental_quick_select.h` | posting lists per chunk and pivot, query-time parameters | index chunks with threads, five ways through the posting lists, a quick select, save, load |
| simple_inverted_index | `src/method/simple_inverted_index.cc` | posting lists of sparse vectors | build, search |
| Query server | `src/query_server/cpp_client_server/QueryService_server.cpp` | a counter of running queries and its mutex, the index | knn and range query, set query-time parameters |
| Python bindings | `src/python_bindings/nmslib.cc` | data, space and index of an `IndexWrapper` | add points, create, load, save, query, all but the first without the interpreter lock |
| Experiments | `include/experiments.h`, `include/gold_standard.h`, `include/tune.h`, `apps/` | results and statistics | compare methods with exact answers |
| Spaces and distances | `src/space/`, `src/distcomp_*.cc` | none | distances, objects from and to text |
| Infrastructure | `include/params.h`, `include/object.h`, `include/utils.h`, `src/logging.cc`, factories | registries, log | parse, create, log; `CHECK` throws |

### 1.2 How they interact

* `Hnsw::CreateIndex`, the gold standard, the experiments and the Python batch query hand a closure
  to ParallelFor and rely on it to call it once for every id and to tell them when a call failed.
* `SmallWorldRand::AddBatch` and `DeleteBatch` start threads of their own: insertion deals the
  positions of a batch to the threads by stride, deletion gives them one shared queue of nodes to
  patch.
* The graphs share nodes between threads. Each node has a mutex (`accessGuard_`) that protects its
  own list of friends; nothing is ever locked across two nodes. The small-world index adds a mutex
  for the list of nodes, the hierarchical one a mutex for changes of its top level.
* A Search reads an index without locks. The library's callers do not search while a batch is
  running; the query server excludes a change of parameters from running queries with a counter.
  Concurrent searches of the hierarchical graph share a pool of lists of visited marks.
* `IndexWrapper` of the Python bindings owns the objects, the index refers to them (or, optimized,
  copies them); both are saved and loaded as a pair of files.
* Every method calls back into the query object, whose radius shrinks while the search proceeds.

### 1.3 What is hard

| Where | Hazard | What must be true |
| --- | --- | --- |
| ParallelFor | workers throw at the same time; the counter is moved to the end while others hold ids; it may wrap | each id once; a normal return means everything was done; no exception is lost |
| small world, insertion | a search runs through nodes other threads are half-way through linking; a node can be found before it is indexed | links are reciprocal, everything stays reachable, nobody meets itself, ids stay unique |
| small world, deletion | threads patch neighborhoods that overlap; a list is filtered without its lock; a CHECK throws half-way | nobody keeps a pointer to freed memory, the removed are forgotten by all |
| small world, batches | ids are compacted; one thread and several, an empty and a non-empty index take different paths | every object of a batch is indexed |
| hnsw, construction | `maxlevel_` and `enterpoint_` change while others read them; lists are shrunk concurrently | nobody asks a node for a level it does not have, lists fit their memory, the entry point is on top |
| hnsw, post-processing | two builds are merged; `post` changes the longest list after the fact; sections have a fixed size | copies stay inside their sections |
| searches | one-byte marks wrap, lists are shared through a pool, sorted arrays are merged in place | a list has one user, old marks are not believed, each node is expanded once, the walk is best-first |
| vptree | the radius shrinks between two recursive calls, medians are truncated, leaves run out | no answer is pruned |
| napp | chunks are dealt to threads; queues and counters skip ahead | each candidate once, no other |
| server | a writer waits for readers; queries throw half-way | parameters change between queries only, writers get their turn |
| bindings | the index is replaced before data and file are read; files are cut; formats differ | nodes refer to live objects, what was saved comes back |

`PROJECT.json` lists each hazard at its line, with the properties that cover it or the reason why none
does.

## 2. Plan

| Step | Module | Content | State |
| --- | --- | --- | --- |
| 1 | `JobSet`, `ThreadPool` | an abstract job set; ParallelFor implements it | checked; types, safety and refinement proved |
| 2 | `SmallWorldRand` | AddBatch and DeleteBatch, all threads | checked; inductive invariants, all safety properties proved |
| 3 | `HnswBuild`, `HnswPost` | concurrent construction with levels; the second build and the merge | checked; selection, levels, list sizes, entry point, no isolated node and no link to itself proved |
| 4 | `SearchService`, `QueryServer`, `SortArrBI`, `KNNQueue` | an abstract best-first search; the searches of both graphs, run by the server's handlers, implement it | checked; exclusion, visited lists, types, the sorted array and the refinement proved |
| 5 | `IndexWrapper` | create, save and load, both graphs and all formats | checked; nodes match data, defined queries and loads proved |
| 6 | `VPTree` | construction, files, traversal with a shrinking radius | checked; types, split, files, exact and full answers proved |
| 7 | `PivotNeighb`, `PostingLists` | chunks to threads; all algorithms against one definition of a candidate | checked; posting lists and the candidates of every algorithm (of merge: those the code computes) proved |
| 8 | `InvertedIndex` | simple_inverted_index: document-at-a-time sums with the queue of step 7 | not written, section 8 |
| 9 | `SeqSearch` | parts of the data scanned by threads into queries of their own | not written, section 8 |

Composition: `HnswBuild` gets its ids from a worker loop that is the one of `ThreadPool` when nothing
throws, and `HnswPost` runs it twice; the batch queries of `QueryServer` wait for all their jobs as
`JobSet` says; `KNNQueue` is the result of `QueryServer` and `VPTree`, `SortArrBI` the frontier of the
array search. Modules that are proved about contain no RECURSIVE operator: recursion is written as
recursive functions or folds.

## 3. Modules

| Module | Kind | Models |
| --- | --- | --- |
| `JobSet` | abstract specification | what callers of ParallelFor rely on |
| `ThreadPool` | detailed specification | `include/thread_pool.h`, lines 56 to 115 |
| `ThreadPoolProofs` | proofs | six theorems about `ThreadPool` |
| `SmallWorldRand` | specification | AddBatch and DeleteBatch of the small-world graph |
| `SmallWorldProofs` | proofs | inductive invariant and theorems about `SmallWorldRand` |
| `HnswBuild` | specification | a build of the hierarchical graph: the worker loop and `add` |
| `HnswPost` | specification | all of CreateIndex: one build, or two that are merged |
| `HnswProofs` | proofs | the selection of neighbors, list sizes, no isolated node, the entry point, levels and no link to itself, for `HnswPost` |
| `SearchService` | abstract specification | best-first searches of a fixed width, parameters that change between them |
| `QueryServer` | detailed specification | handlers, counter and mutex of the server; both searches of both graphs; visited lists |
| `SortArrBI`, `KNNQueue` | operators | the sorted array and the bounded queue |
| `QueryServerProofs` | proofs | the counter, the mutex and the parameters; visited lists, types and walks; what inserting into and merging with the sorted array do; the refinement of `SearchService` |
| `IndexWrapper` | specification | the wrapper of the Python bindings, with the formats of both graphs |
| `IndexWrapperProofs` | proofs | nodes and data of the wrapper, its queries and its loads |
| `VPTree` | specification | the vantage-point tree |
| `VPTreeProofs` | proofs | the tree, its files, and the answers of its searches |
| `PivotNeighb` | specification | the inverted index over neighboring pivots |
| `PostingLists` | operators | sorting, the union of posting lists, the partition of the quick select |
| `PivotNeighbProofs` | proofs | posting lists, unions and counters, queues, the quick select: the candidates of every algorithm |
| `Extremes` | lemmas | least and greatest elements, for all modules of proofs |
| `MCThreadPool`, `MCSmallWorldRand`, `MCHnswBuild`, `MCQueryServer`, `MCIndexWrapper`, `MCVPTree`, `MCPivotNeighb` | instances | constants for TLC |

Operators and actions whose comment begins with "Mutant" are not part of a specification. Each is a
plausible mistake in one definition and shows that a property would notice it.

### 3.1 ThreadPool

| Code | Model |
| --- | --- |
| argument `numThreads`, 0 meaning the hardware's number (63) | `numThreads`, `ThreadQtys` |
| the loop of the single-threaded call (67) | `SequentialCall`, `SequentialReturn`, `SequentialThrow`, `SequentialUnwind`, `SequentialEnd` |
| creation of threads (80) | `Spawn`, `AllSpawned`: the first worker runs before the last one exists |
| `current.fetch_add(1)` and the comparison with `end` (83) | `Fetch`, one atomic step |
| `fn(id, threadId)` (90) | `FnReturns`, `FnThrows`; the function is external |
| the catch block under `lastExceptMutex` (91) | `RecordException`, then `StoreEnd` for `current = end` |
| joins and the rethrow (106) | `Join`, `Return` |

`current` is a size_t and is kept modulo `SizeMod`. `calls`, `ended` and `threw` record what the
function was asked and did. `JobSet` is implemented under the mapping: an id has begun when it was
called, the outcome is pending until the caller is told.

### 3.2 SmallWorldRand

Every insertion makes a new node for its object; `Id[n]` is the id of that object, and several objects
may have one id. `elList` holds at most one node for an id: `insert` does nothing, without a word, when the
id is there (598), and the node stays linked. `friends[n]` is a set because `addFriend` keeps the list
sorted and free of duplicates. What happens under one node's `accessGuard_` is one step.

| Code | Model |
| --- | --- |
| AddBatch up to the threads (small_world_rand.cc 140) | `AddBatch`: compaction of ids, first node of an empty index, positions dealt to threads |
| `searchForIndexing` (443) | `StartAdd` from the entry point, `Expand` reads the friends of the closest unread node, `StopSearch` at the local minimum or at `efConstruction` |
| `link` and `addFriend` (small_world_rand.h 73, 153) | `LinkThere`, `LinkBack`: two steps, farthest neighbor first |
| `addCriticalSection` (589) | `Publish` |
| the stride loop (94) | `FirstPos`, `Stride`, `EndOfBatch` |
| end of AddBatch (197) | `FinishAdd`: `NextNodeId_`, the checks on ids |
| DeleteBatch (215) | `DeleteBatch`, or `DeleteBatchFails` when an object is not indexed or the strategy is unknown: what was erased before the exception stays erased |
| the patching threads (267) | `Take`, `Filter`, `PatchThere`, `PatchBack`, `Patched`, `EndOfQueue` |
| the loop over `friends_` without the lock (small_world_rand.h 113) | `Take` starts it with the list as it is, `Filter` ends it; when the list changed meanwhile the result may have lost anything, and the CHECK of line 125 may fail |
| end of DeleteBatch (327) | `FinishDelete`: a new entry point, nodes freed |
| `CHECK` and `CHECK_MSG` | `Fail`: the call throws, phase "failed" |

Distances are any constant, `Dist`: no metric, not symmetric, a node need not be the one closest to
itself, and of nodes at the same distance the model takes any (the code's choice depends on the order
of a heap).

`intact` is a history variable. It becomes false at the three events after which the structure of the
graph is not what the code takes it to be: a node is linked but not in `ElList_` because its id was
there already (`Publish`), DeleteBatch threw after it had erased objects (`DeleteBatchFails`, or an
unknown strategy in `DeleteBatch`), or a list was changed while it was filtered (`Filter`). The
invariants of the graph are stated of an index that is intact; the events themselves are reachable in
the runs, and section 7 says what they lead to.

### 3.3 HnswBuild

| Code | Model |
| --- | --- |
| the first node (hnsw.cc 226) | `Init`, with any level |
| the worker loop (238) and the drawn level (538) | `Fetch`, `Leave` |
| the look at `maxlevel_` without the guard that decides whether to lock it (540) | `NeedGuard` |
| `MaxLevelGuard_` (541, 607) | `Guard`, `Publish` |
| reads of `maxlevel_` and `enterpoint_` (545) | `ReadMaxLevel`, `ReadEnterpoint` |
| greedy descent (547) | `Start`, `Descend`: one list under its lock per step |
| `kSearchElementsWithAttemptsLevel` (613) | `SearchFrom`, `Expand`, `StopSearch` |
| heuristics 1 and 2, plain nearest (hnsw.h 83, 130; hnsw.cc 582) | `Heuristic1`, `Diverse`, `Nearest`, chosen by `Selected` |
| `addFriendlevel` with shrinking (hnsw.h 259) | `WithFriend` |
| `link` (hnsw.h 517) | `LinkThere`, `LinkBack` |
| the loop over levels (578) | `NextLevel` |
| the new top (603) | `CompareTop`, `StoreEnterpoint`, `StoreMaxLevel` |

`maxlevel_` and `enterpoint_` are plain members used by many threads without a common lock. The model
has every access as a step of its own, in program order. A compiler or a weakly ordered processor is
free to change the places of the two stores; a thread that saw the new `maxlevel_` with the old
`enterpoint_` would index `allFriends_` of a node out of range (558), which has no outcome to go on with,
so this is not modelled (section 8).

`HnswPost` runs this twice when `post` is 1 or 2 (hnsw.cc 251): `SecondBuild` keeps the lists of
level 0 and starts again in the reverse order, `TakeNode` to `Swap` are the loop that merges (281),
where `maxF` and `maxM0_` are read and written one access at a time.

### 3.4 QueryServer and SearchService

| Code | Model |
| --- | --- |
| a query arrives (QueryService_server.cpp 202), is parsed and searched, returns or throws (`LockedCounterManager`) | `Arrive`, `Throw`, `Leave` |
| `setQueryTimeParams`: retry until the mutex is free and the counter is zero (166) | `Ask`, `FindZero`, `Retry` |
| `Hnsw::SetQueryTimeParams`: `ef_`, then `algoType`, which may throw (hnsw.cc 483) | `SetEf`, `SetAlgo` |
| the choice of the algorithm (hnsw.cc 718, small_world_rand.cc 632) | `Algorithm`, `Start` |
| the descent through the levels | `Descend`, `Enter` |
| the search with two heaps | `ExpandOld`, `FinishOld` |
| the search with a sorted array: insert one by one or merge, then the next unused item | the actions around `Insert`, `SkipUsed` |
| `VisitedListPool` (hnsw.h 568) | `TakeList`, `Reset`, `ReleaseList` |

`ef_` and `algoType` are read again in every step, as in the code. `SearchService` is what a client
may rely on: a search enters at one node, always expands a node that is among the `ef` best of those
it has seen, ends when there is none, answers with the k best, and nobody changes `ef` meanwhile.
Where distances are equal the code's heaps and arrays differ; the abstract specification allows
either choice.

### 3.5 IndexWrapper

`AddDataPoint`, `CreateIndex`, `LoadIndex` and `SaveIndex` are the methods of the same names in
`nmslib.cc`; `Built`, `Content` and `Loaded` are the methods of the two graphs that they call. A file
is a sequence of points with a format and whether it is whole: a write may fail and leave the old
file or any beginning of the new one. An object has the number of its allocation, so that an object
read again is another one. Equal points stand for objects with equal ids. `listed` are the nodes in
`ElList_`: in small_world_rand one for an id (`Lists`), so `Content`, which writes these, may have links to
nodes it does not have (`loose`), and the second pass of LoadIndex then throws (`SmallWorldLoaded`). A
small-world file that is cut may hold any nodes, since it is written in the order of a hash map (`Cut`).
`saveIndex` is called of an index whose last creation or load did not throw.

### 3.6 VPTree

The recursive constructor is `MakeBucket`, `MakeSplit` and `MakeSingle` over a stack of subtrees to
build, with any object as the pivot. The calls of `GenericSearch` under way are activations on a stack:
`Enter` goes up to the loop over a bucket or the call of the nearer child, `Scan` is one turn of that
loop, `Second` is the call of the other child, by the radius there is then. `Reload` is SaveIndex and
LoadIndex; the recursive functions `SaveNodeData` and `LoadNodeData` write and read a file as a sequence
of nodes. `Classify` is the pruning oracle, `Radius` the radius of either kind of query. An object is
its address, because the split compares addresses where distances are equal. Nodes keep their median
as a float; `VPTreeAssumption` has the distances within the integers a float holds exactly.

### 3.7 PivotNeighb

The nearest pivots of every object are given, in all ways. `IndexObject`, `EndChunk` and `SkipChunk` are
`IndexChunk` by several threads, `SetQueryTimeParams` and `Search` the calls. `StoredAtThrow` has what
SetQueryTimeParams has stored at each place where it throws. `AddList` counts one
posting list (scan, map, merge); `tmpRes` and `prevRes` are the two buffers of merge, and `Pairs` reads the
one the code reads. `PriorityQueueStep` and `WandStep` are iterations of the loops over a
queue, `Narrow` and `TakeNext` the incremental quick select of the sorting mode.

## 4. Runs

| Run | Question | Result |
| --- | --- | --- |
| `parallel_for` | the plain loop or two or three workers: is every interleaving of fetches, throws and joins a run of the job set, and does the call end? | holds |
| `small_world` | three threads, up to four batches into an empty and a non-empty index, equal ids, an inner product for a distance, deletions that succeed or throw half-way: is everything indexed reachable, does anybody keep a removed node? | holds while the index is intact |
| `small_world_filter` | two threads patch after one object was deleted: is the list that is filtered without its lock left alone? | violated |
| `small_world_second_batch` | is every object of a second batch indexed with two threads? | violated |
| `hnsw_build` | two threads, three levels, with and without a second build: levels, list sizes, entry point, self links, isolated nodes, termination | holds |
| `hnsw_post` | do lists fit the optimized index with `post = 1`? | violated |
| `query_server` | two handlers and a change of parameters: do the searches implement the service, are visited lists private, does everybody finish? | holds |
| `index_wrapper` | any sequence of calls, one write that fails: do nodes refer to live objects, are queries defined, does what was built and saved come back? | holds |
| `resave` | does an index that was loaded and saved again come back? | violated |
| `vptree` | any tree over five objects, saved and loaded: are answers those of a scan? | holds |
| `pivot_neighb` | two threads index two chunks: does every algorithm find exactly the candidates (merge: of all pivots but the last), and end? | holds |
| `napp_merge` | does merge find every object that shares enough pivots, as the others do? | violated |

### 4.1 Properties

* ParallelFor. `AtMostOnce` and `NormalMeansAll` are the contract; `ExceptionIsReported` says that a
  caller gets an exception exactly when a job threw; `QuietAfterReturn` that nobody uses the stack
  frame of ParallelFor after it was left; `ImplementsJobSet` is refinement; `Terminates` liveness.
* Small world. `Reciprocal`: a link has both directions, or a thread is between the two; deletion
  depends on it to find who must forget a node. `NoSelfLink`: an insertion makes no node its own
  friend, although the node is reachable before it is indexed. `StaysConnected`: at every step of an
  insertion what it indexes is reachable from the entry point, and what was reachable still is.
  `IdsAreValid`: ids are unique and below `NextNodeId_` between calls. `NoBug`: no CHECK fails while the
  index is intact; `ChecksHold` says that none fails at all. `AddsToEmpty`: the first batch of an empty
  index is indexed completely; `AddsAll` says so of every batch. `NoDangling`, `OnlyIndexed`: after a
  deletion nobody refers to what was removed. `CallsReturn`: calls end.
* HNSW. `LevelsInRange`: types, and `getAllFriends(level)` is only asked of nodes that have the level.
  `ListsFit`: lists never outgrow the space the optimized index has for them, however insertions
  interleave. `EntersOnTop`: at the end the entry point has level `maxlevel_`, no node is above it
  and none was lost. `KnowsAnother`: concurrent shrinking leaves no node without friends.
  `NoLinkToItself`: nobody finds the node it is inserting, although others may have linked to it on
  a level it has not searched yet. `IsBuilt`: construction ends. `SectionsHold`: at the end no list is
  longer than `maxM0_`.
* Server. `Exclusion`: while parameters are being set nothing searches. `ListsApart`: no two searches
  use one visited list, and no list is lost. `FirstIsUnused`: the index of the first unused item of
  the sorted array is right after every insertion and merge, also when the array is full.
  `ImplementsService` is refinement. `RequestsEnd` and `ChangesEnd` are liveness.
* Bindings. `NodesMatchData`: node i of an index refers to object i of the data, which was not freed.
  `QueryDefined`: a query follows no null pointer unless a load threw before or nothing is indexed.
  `BuiltIndexReturns`: what was created and saved is loaded again, whatever lies between, in
  small_world_rand if no two objects have one id; `SavedIndexReturns` says so of every saved index.
* VPTree. `WellSplit`: every object is in one node, on the right side of every median above it, also
  after a reload. `Exact`: answers are those of a scan. `FullAnswer`: as many as asked for, even with
  a stretched rule.
* NAPP. `RightCandidates`: every algorithm checks exactly the objects that share enough pivots, once
  each, and the sorting mode the best of them; for merge the last pivot searched does not count, because
  of the buffer it reads. `OverlapMakesCandidate` says that it should count. `Ends`: indexing and searches end.

### 4.2 Bounds

* ParallelFor: `ThreadArgs` 0, 1 and 2 with `HardwareThreads` 3 give three workers, the plain loop and
  two workers: a worker that throws, one that is between its fetch and its call, and one that has
  left. Two throwing ids of four race for the exception. A counter of 9 values (`SizeMod`) has room
  for the last fetches.
* Small world: six nodes, of which the batches insert four and then three, with two links each, make
  neighborhoods overlap while not everything is linked to everything; three threads are enough for a
  search that runs between the two halves of a link made by another thread toward a third node.
  `MaxBatches` (4) bounds the number of calls, so that insert, delete, compact, insert again is reached.
  Distances are negative inner products of vectors in the plane, moved to be positive: one node is closer to
  all others than they are to themselves, so patching links different nodes and races with the filter. `f` is
  another object with the id of `b`; a batch may have ids that are indexed, and a deletion ids
  that are not, after ids that are. `small_world_filter` and `small_world_second_batch` have two threads and
  four nodes with unique ids: one batch and one deletion, and two batches.
* HNSW: `Drawn` bounds the levels (0 to 2): three different levels are needed for a node to overtake
  another one that is overtaking the first. With `MaxM = 1` and `MaxM0 = 2` every list is shrunk.
  Four nodes and two threads make two insertions overlap while a third node is being shrunk. With a
  second build all nodes are on one level (`DrawnWith`): only level 0 is merged.
* Server: two handlers and a batch of two queries make three concurrent searches, more than the pool
  has lists. Five nodes, marks modulo 3 (`VlMod`, so that the second search wraps), merging from two
  items on (`MergeFrom`) and the hybrid choice from `ef` 4 (`EfOldFrom`) bring every branch of the
  searches within three queries. Two pairs of distances are equal. `MaxQueries` and `MaxChanges`
  bound what is asked; a client that never stops asking is discussed under fairness.
* Bindings: two points, one file, at most five objects made (`MaxMade`): add, save, add again, load
  fewer points than there are, and load data twice. One write may fail (`MaxFaults`).
* VPTree: five objects anywhere at three places of a line, 0, 1 and 3, buckets of up to `BucketSizes`, any
  pivot: objects at the same place, truncated medians, lopsided splits (which need five objects) and
  a border of a range query that goes through an object all occur. `LeafBounds` has one leaf, and more
  than there are.
* NAPP: two chunks for two threads, of three and of two objects; three pivots, two of them near; every
  algorithm with `minTimes` 1 to 3, more than there are lists in the last case.

Distinct states: `parallel_for` 5 thousand, `small_world` 490, `hnsw_build` 681, `query_server` 160,
`index_wrapper` 56, `pivot_neighb` 231, `vptree` 785 thousand. Each run takes
less than three minutes with two workers.

## 5. Fairness

Each thread of the pool and of the small-world index is weakly fair: the operating system runs a
thread that can run. A thread that waits for a mutex cannot run while another one holds it; since the
holder is fair too, weak fairness is all that is needed. The job function is assumed to return or
throw. For the hierarchical graph the assumption is weaker still: some thread runs as long as one
can. Fairness is stated of whole threads, never of single actions. A caller is not obliged to call.

In the server every search of a handler goes on (`Progress`: it stops being begun, or it takes steps
for ever), and a handler whose searches are done leaves. The thread that sets parameters is weakly
fair, and that is not enough by itself: it retries, and a steady stream of overlapping queries keeps
the counter above zero for ever. `ChangesEnd` holds because the model's clients stop asking
(`MaxQueries`); it shows that nothing in the server itself keeps the counter up, such as a query that
throws.

The threads that index chunks are weakly fair, and a search of `PivotNeighb`, which runs in one
thread, goes on.

## 6. Proofs

The theorems hold for every value of the constants that the named assumptions of the modules admit.

### 6.1 ThreadPoolProofs

The properties follow from `IInv`, the conjunction of

* `CounterInv`: the counter is at most the end plus the number of workers that have left, because only
  a worker that is about to leave moves it past the end;
* `CallerInv`: where the caller is determines which workers exist and which have left;
* `CallsInv`: calls are made once, on ids behind the counter;
* `HoldersInv`: a call that has neither returned nor thrown belongs to exactly one thread;
* `ExceptionInv`: while nothing has thrown, nothing behind the counter is skipped, and a throw is
  recorded before the counter is moved.

None of the properties is inductive alone: "once" needs the counter, "all" needs who holds what.
`TypeCorrect` needs no assumption. `CalledAtMostOnce`, `NormalReturnMeansAll`, `ExceptionsAreReported`,
`NobodyRunsAfterReturn` and `Refinement` assume `NoWrap` (the counter has room for one fetch past the
end per worker, true of every range that fits in memory) and `SomeThread` (the hardware reports
at least one thread; otherwise the call returns with nothing done).

### 6.2 SmallWorldProofs

The theorems hold for any finite set of nodes, any ids, equal ones included, any distance, any number of
threads and any batches; deletions may fail. `Invariance` proves that the types always hold, and the inductive
invariant `IInv` while the index is `intact` (section 3.2), also when a patched node is linked to another
one that is queued or being patched. `IInv` says

* who is in memory: indexed nodes, nodes being inserted, nodes being removed (`Membership`), and all
  pointers lead there (`InMemory`);
* that a node being inserted is known to nobody until its first link (`Unknown`), and its own search
  knows other nodes only (`Searching`);
* that positions of the batch belong to one thread each (`Positioned`) and give the ids
  (`Identified`);
* that every link is reciprocal or half made (`Mutual`): hence the friends of a removed node are all
  those who know it, and whoever still knows one is queued or about to be filtered (`Forgetting`);
* that a node is queued once and patched by one thread (`Queued`), and that other threads may only add to
  the list it filters (`Replacing`): this is why a list that is as it was when the loop began was not
  touched.

From it follow `LinksAreReciprocal`, `NothingDangles`, `LinksJoinIndexedNodes`, `IdsStayValid` and
`NoCheckFails`.

`NobodyKnowsItself` and `EverythingIsReached` are about every insertion, also after deletions: patching
makes links of a node to itself (section 7) and may cut the graph, since it replaces the
friends of a node by one of them, so they say that an insertion adds no self link and leaves
no node unreached that was reached or is new. `Growing` is the second part of their invariant: what a
thread has seen of the graph is reachable from the entry point; so is a node from
its first link on; and a node that is not linked yet is nobody's friend, hence never met by its own
search. Links only grow meanwhile, and so does what is reachable (`ReachedStays`). TLC checked the invariant
on the instance of `small_world` before it was proved.

`FirstBatchIsAdded`, for `AddsToEmpty`, does not ask for an intact index: an invariant of its own says that every
thread has indexed what lies behind it (`GoneBy`), that every position belongs to a thread (`OwnsSome`), and
that the index holds the first object or something that is not of the batch (`Filling`).

### 6.3 QueryServerProofs

`ServerInv` relates what the threads are doing to the shared variables: the counter is the number of
handlers that serve (`Counts`), the mutex is held by the thread that sets parameters and only with the
counter at zero (`Held`), and only the searches of a handler that serves are in use (`Owned`).
`ServerInvariant` proves it for any number of handlers, any index and any requests, `ParametersApart`
derives `Exclusion`. The cardinality argument (a handler enters or leaves a finite set) uses the
finiteness of `Handlers` only.

`ListsAreApart` derives `ListsApart` from `ListsInv`: the lists that searches hold and those in the
pool are all the lists there are, each once (`Divided`), and every search under way knows its list
(`Shape`). That the number of lists is the number of searches plus the length of the pool is what makes
a list that is made for an empty pool a new one.

`WalkInv` is about the walks themselves (`WalksHold`). The marks of a list are never ahead of its counter, so
that a list that was reset shows nothing as visited (`Bounded`); what is settled stays so (`Settled`); and every
search is in order (`SearchesOK`): with two heaps (`OldOK`), the candidates are the nodes visited and not
expanded but for those that are too far, and the result holds the closest of the visited; with a sorted
array (`ArrayOK`), the array is sorted, holds the `ef` closest of the visited, and its position is the
first unused item; in the descent (`DescendOK`) it stands on a level it may read. `TypesOK` and
`FirstIsUnusedHolds` follow.

The first part of `QueryServerProofs` has what the array search needs of `include/sort_arr_bi.h`. `PushOrReplaceIs` and
`MergeWithSortedIs` say, for any array, capacity and items, that the result is sorted within its capacity
and keeps the closest items, and where the first unused one is. The loops of the code are recursive
functions there; that such a function exists is proved from a measure of the loop before its equation
is used.

`ServerImplementsService` is the refinement. `Start` maps to `Begin` of the service, the entry at level 0 to
`Enter`, every expansion (by heap, by insertion, by merge) to `Expand`, the end of a search to `Answer`,
the handler's leaving to `Collect`, `SetEf` to `SetEf`; every other step, of the descent, of a visited
list, of the counter or of the mutex, leaves the service as it is. `Exclusion` is why `ef` does not
change during a walk. The theorems assume what the module does of its constants.

### 6.4 IndexWrapperProofs

`WrapperInvariant` proves `WrapperInv` for any number of points, files, calls and failed writes, for
every kind of wrapper: data, files and index are typed, and node i of an index is object i of the
data (`Follows`). The clause of `Follows` about the copy of an optimized index is what makes
`SaveIndex`, which copies as many points as there are nodes, write a file that a later load can be
proved about. `NodesStayWithData` derives `NodesMatchData`. The small-world graph makes the nodes
before the first object that differs; `LeastExists` of `Extremes` provides that object from the
well-foundedness of the natural numbers.

`LoadInvariant` adds two parts. `Complete`: an index made without an exception has its parameters, an
entry point if it has nodes, its pool, and a copy for every node when it was optimized, whatever format
it was read from; `QueriesAreDefined` derives `QueryDefined`. `Restorable`: a pair of files written by
saving a created index is whole and holds its points, all of them if no two have one id (`Lists`);
`SavedIndexComesBack` derives `BuiltIndexReturns`. No assumption on the constants is used.

### 6.5 HnswProofs

The theorems are about `CreateSpec` of `HnswPost`, all of CreateIndex with `post` 0, 1 or 2.
`SelectionIsSound` is about operators: either heuristic, and plain nearest, select at most as many
neighbors as asked for, from the candidates, and at least one if there is one. What heuristic 2 keeps
is defined by a CHOOSE; that there is such a set (`DiverseExists`) is proved on a least counterexample,
without its farthest candidate.

The invariants are in layers. `Base` (theorem `Foundation`): the types; `order` is a permutation of the
nodes (`Permuted`); every node that was fetched is linked or held by one thread (`Held`); what a thread
keeps between its steps fits where it is (`Running`). On it stand

* `Fitting`, for `ListsStayShort`: every list is made by a shrinking, a selection or the merge. It
  assumes `1 \notin Posts`: with `post = 1` the room of a list is set after the fact, and
  `hnsw_post` shows what goes wrong;
* `Known`, for `NobodyIsAlone`: from its first link on a node has a friend, because shrinking a list
  never empties it;
* `Topped`, for `EntryPointIsOnTop`: who inserts above `maxlevel_` holds the guard; between the two
  stores the entry point is above `maxlevel_`, otherwise level with it;
* `Ranged`, for `NoSearchLeavesItsLevel`: a link on a level joins nodes that have it, and every node a
  thread keeps has the level the thread is on;
* `Selfless`, for `NoSearchFindsItself`: no insertion meets its own node. It cannot be said of one thread
  at a time: a node that is linked on a level can be found from above by another insertion and
  linked on a lower level before its own search gets there. The invariant gives every level a
  partition into components that links never leave (`Connects`), finer on lower levels (`Nested`), in
  which a node nobody has met is alone (`Lone`). A worker whose node may have been met is parted from
  where its search goes on by a set of nodes that no other worker is about to join to the rest
  (`Parted`); when a search stops, the component of its node and that of its entry become one.

All of them are about accesses in program order (section 3.3). `EntryPointIsOnTop` assumes `Threads # {}`: without workers
(`hardware_concurrency()` may be 0) nobody inserts anything, and the call returns. TLC checked the invariants
other than `Selfless`, which quantifies over partitions, on the instance of `hnsw_build` before it was proved.

### 6.6 VPTreeProofs

The theorems hold for any finite set of objects in any space with a symmetric distance that satisfies
the triangle inequality, for any buckets, choice of pivots, bounds of leaves and queries.
`VPTreeAssumption` also says that objects are told apart by addresses, that a k-nearest-neighbor query
asks for something, that the default bound of leaves exceeds the number of objects, and that the
stretched distances do not exceed the largest distance there is: until k objects are held the radius
is that distance, and nothing may be pruned.

`BuildInv` is the invariant of the index. It speaks of a tree that is half built: what is pending
counts as if it hung in its place. Every node and every pending subtree hangs below a split
(`Hanging`); objects are held, pending or pivots, once (`Once`); none is missing (`Complete`); and what
stands or will stand below a split is on its side of the median (`Split`). The three ways through the
constructor, and CreateIndex, are instances of one step, `Grown`, that replaces the first pending
subtree by a node and at most two subtrees. That a truncated median still separates the two sides is
`Parts`, from the fact that the sorted array has an object in each of its places (`SortedIsThere`).

`Reload` keeps the invariant because it changes nothing: `FilesAreFaithful`. A recursive function has the
value its equation gives only if there is such a function; for the saving one this follows from the
depth of the tree, for the loading one from the length of the file (`SaveEnds`, `LoadEnds`). That
reading back what was written for a branch gives the branch and ends behind it is `LoadsBranch`, by
contradiction from a deepest branch that does not come back.

`SearchInv` is the invariant of the recursion. Each activation has a region, the objects it has yet to
look at: what is left of a bucket, what hangs below its node, or below the other child. Regions are
disjoint and hold nothing of the result (`Apart`). Every object is in some region, or the result is
right about it and will stay so (`Progress`); `PrunedIsSettled` is where the triangle inequality enters: an
object on the side that is left out is farther than the radius of that moment, and the radius only
shrinks. The steps of the recursion are instances of `Moves`, where one activation makes way for others
that share its region. With an empty stack every object is settled: `TreeIsExact`, `AnswerIsFull`,
`TypeCorrect`. With four objects TLC checks both
invariants, their quantifiers over all paths bounded.

### 6.7 PivotNeighbProofs

`CandidatesAreRight` derives `RightCandidates` for any objects, pivots, chunks and numbers of indexing threads,
and all five ways through the posting lists. It assumes `SettingsAssumption`: the
pivots of an object are a permutation, and `minTimes` is positive. `IndexAndSearchAreRight` proves the
invariant, in two halves.

`IndexRight`: the posting list of a chunk and a pivot has, in ascending order, the ids near that pivot
among those its thread has indexed so far (`Holds`, `Bound`). Chunk c belongs to thread c modulo the
number of threads, so no other thread touches its lists; when the calls are joined every chunk is done,
also if there were more threads than chunks.

`SearchRight`: the chunks before the current one were checked right (`CheckedBefore`), and the current
one is on its way (`Going`).

* `Counting`, for scan, map and merge: after k lists an id has been counted as often as it is in the first
  k lists. For merge it rests on `UnionIs`: the union of two ascending lists ascends and adds their counts.
  The two buffers hold the unions of the first k lists and of the first k - 1; the one that is read at the
  end lacks the last list, so the theorem counts all pivots but the last (`Reaching`) for merge.
* `Queueing`, for pqueue and wand: an id that one list has passed is behind in every list, and what has
  been found is what is behind everywhere and in at least `minTimes` lists (`Passing`). This justifies
  what WAND skips: with the heads in ascending order, an id below the `minTimes`-th head is ahead in
  fewer than `minTimes` lists.
* `Selecting`, for the incremental quick select: each place on the stack, and each place already taken,
  cuts the candidates, with the better ones in front (`Ordered`); the candidates have all ids with enough
  shared pivots and their true counts (`Rated`). `PartitionIs` says what a partition does, where equal
  entries move the left end by one.

When `dbScan` cuts the candidates short, the ones checked have the largest counts
(`RightSet`). The loops of the union and the partition are recursive functions of the number of rounds,
with as many rounds as the loop can have at most; a round after the end changes nothing. `RoundsIs`
gives an invariant of the rounds from a least counterexample. TLC checked both
halves on the instance of `pivot_neighb`.

### 6.8 What is only model-checked

Liveness: `Terminates`, `CallsReturn`, `IsBuilt`, `RequestsEnd`, `ChangesEnd`, `Ends`. TLAPS does not
reason about ENABLED and fairness here. All other properties of the runs that hold are stated by theorems.

What recursive definitions compute for every input would need induction theorems that take an
operator as a parameter, which the installed provers cannot instantiate; where such a fact is needed it
is proved by hand from a least counterexample. Modules with RECURSIVE operators are out of the SMT
backend's reach; no module here has one.

## 7. What the models found

Violated by a run:

* `AddsAll` in `small_world_second_batch`. The worker loop always skips the first object because
  AddBatch "added it already", which is true of an empty index only. With two or more threads every
  later batch loses its first object.
* `SectionsHold` in `hnsw_post`. The loop that merges two builds leaves out the first object, and with
  `post = 1` sets `maxM0_` to the longest list it made. When the first object is in the middle of
  the others, all lists but its own are short; its own is then copied past the section that
  `maxM0_` gives it. One thread is enough.
* `SavedIndexReturns` in `resave`. SaveOptimizedIndex counts the nodes of `ElList_`, which is empty in
  an index that was loaded as an optimized one: saving it again writes an empty index.
* `OverlapMakesCandidate` in `napp_merge`. The loop of merge unites one buffer and a list into the other
  buffer and changes the buffers; after the last list it reads the buffer it wrote before, the union of all
  lists but the last (pivot_neighb_invindx.cc 592 and 769). Objects that need the last pivot are left out;
  with one list nothing is found.
* `ChecksHold` in `small_world_filter`. A patching thread goes through the friends of its node without
  the lock, while another one links its own node to that node. What the loop then leaves in the list is
  undefined, and its CHECK may fail. It takes a removed node that has a friend closer to the patched
  node than that is to itself: the negative inner product, which the library offers, or equal points.

Met while modelling, and stated as the limits of a model or an assumption:

* A patched node may link to itself: the loop that looks for the closest friend of a removed node does
  not leave out the node that is patched (small_world_rand.h 131). `NoSelfLink` is therefore checked
  of insertions only.
* When DeleteBatch throws, the objects before the one it throws at are erased from the list of nodes
  but still linked. When all are erased the entry point is not replaced (small_world_rand.cc 593
  sets it when it is null only), and a new batch is not reachable from the old one; after a later
  compaction an insertion meets a node without a valid id and the CHECK on ids (529) fails. `intact`
  is false from then on.
* The same happens to an object whose id is indexed already: its node is linked and is not in `ElList_`. The
  bindings give such ids themselves: without ids a batch gets row numbers that start at 0 again
  (nmslib.cc 342, 632). `SaveIndex` writes links to nodes it does not write (small_world_rand.cc 814 to 831), and
  LoadIndex throws "got NULL pointer" (894 to 896): such an index is lost. `BuiltIndexReturns` excepts it.
* A counter with no room past the end wraps: with `end` the largest size_t ParallelFor calls the
  function with id 0 again. `NoWrap` excludes it.
* `setQueryTimeParams` of the bindings before `createIndex` dereferences a null pointer, and so does a
  query of an index created without data that got data later (`QueryDefined` excepts it). The
  server refuses its own cached data, whose external ids are gone (QueryService_server.cpp 133).
* `VPTree::LoadIndex` leaves the bound of leaves uninitialised; the model takes any value.
* `PivotNeighb` with `minTimes = 0` reads in front of an array in WAND, and its SetQueryTimeParams refuses
  sorting with a queue only after it has stored both.

## 8. What is not modelled

* Distances, objects and spaces: arithmetic on floats; models take the distances as a constant.
* Stores to `maxlevel_` and `enterpoint_` that change places (hnsw.cc 604): what a thread does that sees one
  of them only is undefined from its first access to a list on. Two comments in SaveIndex say that the check
  `maxlevel_ >= currlevel` "strangely fails"; in program order it does not (`EntersOnTop`).
* `delaunay_type = 3` of hnsw: it reads the lists of other nodes without their locks, and a read of
  a vector that is being changed has no outcome that could be enumerated. Exceptions inside `add`:
  the guard would never be released.
* Addresses inside the optimized index: only the room of its lists is modelled.
* Two Python threads: creating an index while another thread queries the old one is undefined.
* Tuning of the pruning oracle, pruning exponents, choice of pivots: statistics.
* seqsearch and simple_inverted_index (steps 8 and 9 of the plan): they use patterns that other models
  have, threads that share nothing but a range of ids (`ThreadPool`) and a queue over posting lists
  (`PivotNeighb`).
* Persistence of napp: numbers, written and read in the same order.
* Failure to create a thread and lack of memory: they end the process.
* Parameters, factories, data files, logging, experiments, conversion scripts and generated code:
  sequential input and output, or statistics, without an invariant of their own.
