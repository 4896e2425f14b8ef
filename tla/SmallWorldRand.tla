--------------------------- MODULE SmallWorldRand ---------------------------
(***************************************************************************)
(* The incremental small-world graph of src/method/small_world_rand.cc and *)
(* include/method/small_world_rand.h: AddBatch inserts the objects of a    *)
(* batch with several threads, DeleteBatch removes objects and patches the *)
(* neighborhoods of what it removed, again with several threads.  Batches  *)
(* follow each other; nobody searches while a batch runs.                  *)
(*                                                                         *)
(* Every insertion makes a new node, with its object; several objects may  *)
(* have one id.  A list of friends is a set: it is sorted and free of      *)
(* duplicates while every insertion goes through addFriend with            *)
(* bCheckForDup.  A step that locks accessGuard_ of one node is atomic.    *)
(***************************************************************************)
EXTENDS Integers, FiniteSets, Sequences

CONSTANTS
    Node,               \* the nodes that may be made, each for one object
    Null,               \* nullptr
    Id,                 \* Id[n]: the id of the object of node n
    Dist,               \* Dist[x][q]: IndexTimeDistance(x, q), of their objects
    NN,                 \* number of neighbors a new node is linked to
    EfConstruction,     \* depth of the search made by an insertion
    IndexThreadQty,     \* number of indexing threads
    AddBatches,         \* batches AddBatch may be called with, as nodes
    DeleteBatches,      \* batches DeleteBatch may be called with, as object ids
    Strategies,         \* patching strategies DeleteBatch may be called with
    MaxBatches          \* bound: number of calls of AddBatch and DeleteBatch

ASSUME NodeAssumption == IsFiniteSet(Node) /\ Null \notin Node
ASSUME DistAssumption == Dist \in [Node -> [Node -> Nat]]
ASSUME ParameterAssumption ==
    /\ NN \in Nat \ {0} /\ EfConstruction \in Nat \ {0} /\ IndexThreadQty \in Nat
    /\ MaxBatches \in Nat
ASSUME BatchAssumption ==
    /\ AddBatches \subseteq Seq(Node) \ {<<>>}
    /\ \A b \in AddBatches : \A i, j \in DOMAIN b : b[i] = b[j] => i = j
    /\ DeleteBatches \subseteq Seq({Id[n] : n \in Node}) \ {<<>>}
    /\ Strategies \subseteq {"kNone", "kNeighborsOnly", "unsupported"}

\* With at most one indexing thread the caller does the work itself.
SingleThreaded == IndexThreadQty <= 1

\* Mutant: one thread is not started.
OneThreadLess == IF SingleThreaded THEN {0} ELSE 1 .. IndexThreadQty - 1
Threads == IF SingleThreaded THEN {0} ELSE 0 .. IndexThreadQty - 1

VARIABLES
    elList,         \* ElList_: the indexed nodes, at most one for an object id
    friends,        \* friends[n]: the list friends_ of node n
    nodeId,         \* nodeId[n]: id_ of node n
    nextNodeId,     \* NextNodeId_
    entry,          \* pEntryPoint_
    alive,          \* nodes that were created and not deleted from memory
    phase,          \* what the index is doing: "idle", "adding", "deleting" or "failed"
    batches,        \* number of calls so far
    batch,          \* batchData of the running AddBatch
    removed,        \* vToDelNodes of the running DeleteBatch
    strategy,       \* patchStrat of the running DeleteBatch
    queue,          \* toPatchQueue
    intact,         \* history: see Intact
    pc,             \* what each thread is doing
    pos,            \* the loop variable id of each indexing thread
    node,           \* the node each thread inserts or patches
    seen,           \* nodes its search has visited, or the list it filters
    expanded,       \* nodes whose friends its search has read
    left,           \* nodes it still has to link, or removed friends to replace
    peer            \* the other node of the link it is making

graph == <<elList, friends, nodeId, nextNodeId, entry, alive>>
call == <<phase, batches, batch, removed, strategy, queue, intact>>
local == <<node, seen, expanded, left, peer>>
vars == <<graph, call, pc, pos, local>>

Phases == {"idle", "adding", "deleting", "failed"}
Labels == {"done", "next", "search", "link", "linkback",
           "take", "filter", "patch", "patchback"}

TypeOK ==
    /\ elList \in SUBSET Node
    /\ friends \in [Node -> SUBSET Node]
    /\ nodeId \in [Node -> Nat]
    /\ nextNodeId \in Nat
    /\ entry \in Node \cup {Null}
    /\ alive \in SUBSET Node
    /\ phase \in Phases
    /\ batches \in 0 .. MaxBatches
    /\ batch \in AddBatches \cup {<<>>}
    /\ removed \in SUBSET Node
    /\ strategy \in Strategies \cup {"kNone"}
    /\ queue \in SUBSET Node
    /\ intact \in BOOLEAN
    /\ pc \in [Threads -> Labels]
    /\ pos \in [Threads -> Nat]
    /\ node \in [Threads -> Node \cup {Null}]
    /\ seen \in [Threads -> SUBSET Node]
    /\ expanded \in [Threads -> SUBSET Node]
    /\ left \in [Threads -> SUBSET Node]
    /\ peer \in [Threads -> Node \cup {Null}]

Init ==
    /\ elList = {}
    /\ friends = [n \in Node |-> {}]
    /\ nodeId = [n \in Node |-> 0]
    /\ nextNodeId = 0
    /\ entry = Null
    /\ alive = {}
    /\ phase = "idle"
    /\ batches = 0
    /\ batch = <<>>
    /\ removed = {}
    /\ strategy = "kNone"
    /\ queue = {}
    /\ intact = TRUE
    /\ pc = [t \in Threads |-> "done"]
    /\ pos = [t \in Threads |-> 0]
    /\ node = [t \in Threads |-> Null]
    /\ seen = [t \in Threads |-> {}]
    /\ expanded = [t \in Threads |-> {}]
    /\ left = [t \in Threads |-> {}]
    /\ peer = [t \in Threads |-> Null]

\* A CHECK does not hold: the exception leaves the thread.
Fail ==
    /\ phase' = "failed"
    /\ UNCHANGED <<graph, batches, batch, removed, strategy, queue, intact, pc, pos, local>>

\* Intact remembers whether everything went well so far, which callers cannot
\* all know: intact becomes false when a node is left linked that is not in
\* ElList_ (its object id was there, or DeleteBatch threw), and when a list of
\* friends was changed by another thread while it was filtered.
Intact(good) == intact' = (intact /\ good)

-----------------------------------------------------------------------------
(* Distances and ids.  Which of two nodes at one distance a queue prefers  *)
(* depends on the order they came in: any.                                 *)

Closer(S, x, q) == {y \in S : Dist[y][q] < Dist[x][q]}
Closest(S, q) == {x \in S : Closer(S, x, q) = {}}
Farthest(S, q) == {x \in S : \A y \in S : Dist[y][q] <= Dist[x][q]}

\* resultSet: NN nodes visited, closer than the others.
Nearest(S, q) ==
    {R \in SUBSET S : /\ Cardinality(R) = IF Cardinality(S) < NN THEN Cardinality(S) ELSE NN
                      /\ \A x \in R, y \in S \ R : Dist[x][q] <= Dist[y][q]}

\* closestDistQueue: x is farther than EfConstruction nodes visited ...
Beyond(S, x, q) == Cardinality(Closer(S, x, q)) >= EfConstruction

\* ... or no closer, and came after them.
NotWithin(S, x, q) ==
    Cardinality({y \in S \ {x} : Dist[y][q] <= Dist[x][q]}) >= EfConstruction

IdsOf(S) == {nodeId[n] : n \in S}
\* Mutant: the largest id for the number of ids.
LastNodeId == nextNodeId + Len(batch) - 1
FutureNextNodeId == nextNodeId + Len(batch)

\* visitedBitset is indexed by node id: of several nodes with one id only one
\* is visited.  (Ids are unique unless something went wrong.)
NewlyVisited(S, visited) ==
    LET fresh == {n \in S : nodeId[n] \notin IdsOf(visited)}
    IN  {V \in SUBSET fresh : /\ IdsOf(V) = IdsOf(fresh)
                              /\ \A x, y \in V : nodeId[x] = nodeId[y] => x = y}

\* CompactIdsIfNeeded, in the order of the hash map.
Numberings(S) == {f \in [S -> 0 .. Cardinality(S) - 1] :
                    \A x, y \in S : f[x] = f[y] => x = y}
CompactIdsIfNeeded(S, next) ==
    IF 3 * Cardinality(S) < 2 * next
    THEN /\ nextNodeId' = Cardinality(S)
         /\ \E f \in Numberings(S) :
                nodeId' = [n \in Node |-> IF n \in S THEN f[n] ELSE nodeId[n]]
    ELSE /\ nextNodeId' = next
         /\ UNCHANGED nodeId

-----------------------------------------------------------------------------
(* AddBatch.                                                               *)

ObjectIds(S) == {Id[n] : n \in S}
IsListed(id) == id \in ObjectIds(elList)

\* addCriticalSection: publish n in ElList_, under ElListGuard_; the insertion
\* does nothing when the id is there already.
Published(n) ==
    /\ elList' = IF IsListed(Id[n]) THEN elList ELSE elList \cup {n}
    /\ entry' = IF entry = Null THEN n ELSE entry

\* Mutant: positions count from t - 1.
FirstPosBefore(t) == t - 1

\* The first position of a thread: the caller skips the first object when it
\* was added to the empty index, the threads share ids 1, 2, ... always.
FirstPos(t) ==
    IF SingleThreaded THEN (IF elList = {} THEN 1 ELSE 0)
    ELSE IF t = 0 THEN IndexThreadQty ELSE t

Stride == IF SingleThreaded THEN 1 ELSE IndexThreadQty

\* Nodes are made anew.
AddBatch(b) ==
    /\ phase = "idle"
    /\ batches < MaxBatches
    /\ \A i \in DOMAIN b : b[i] \notin alive
    /\ IF elList = {}
       THEN /\ Published(b[1])
            /\ alive' = alive \cup {b[1]}
            /\ friends' = [friends EXCEPT ![b[1]] = {}]
            /\ nodeId' = [nodeId EXCEPT ![b[1]] = nextNodeId]
       ELSE UNCHANGED <<elList, entry, alive, friends, nodeId>>
    /\ phase' = "adding"
    /\ batches' = batches + 1
    /\ batch' = b
    /\ pc' = [t \in Threads |-> "next"]
    /\ pos' = [t \in Threads |-> FirstPos(t)]
    /\ UNCHANGED <<nextNodeId, removed, strategy, queue, intact, local>>

\* Mutant: the new node is linked from the entry point before the search.
StartAddLinked(t) ==
    /\ phase = "adding"
    /\ pc[t] = "next"
    /\ pos[t] < Len(batch)
    /\ LET n == batch[pos[t] + 1] IN
        /\ alive' = alive \cup {n}
        /\ friends' = [friends EXCEPT ![n] = {entry}, ![entry] = @ \cup {n}]
        /\ nodeId' = [nodeId EXCEPT ![n] = nextNodeId + pos[t]]
        /\ node' = [node EXCEPT ![t] = n]
        /\ seen' = [seen EXCEPT ![t] = {entry}]
        /\ expanded' = [expanded EXCEPT ![t] = {}]
        /\ pc' = [pc EXCEPT ![t] = "search"]
        /\ UNCHANGED <<elList, nextNodeId, entry, call, pos, left, peer>>

\* IndexThreadSW makes the next node; add and searchForIndexing start from
\* the entry point.
StartAdd(t) ==
    /\ phase = "adding"
    /\ pc[t] = "next"
    /\ pos[t] < Len(batch)
    /\ IF elList = {} \/ entry = Null \/ nodeId[entry] >= FutureNextNodeId
       THEN Fail
       ELSE LET n == batch[pos[t] + 1] IN
            /\ alive' = alive \cup {n}
            /\ friends' = [friends EXCEPT ![n] = {}]
            /\ nodeId' = [nodeId EXCEPT ![n] = nextNodeId + pos[t]]
            /\ node' = [node EXCEPT ![t] = n]
            /\ seen' = [seen EXCEPT ![t] = {entry}]
            /\ expanded' = [expanded EXCEPT ![t] = {}]
            /\ pc' = [pc EXCEPT ![t] = "search"]
            /\ UNCHANGED <<elList, nextNodeId, entry, call, pos, left, peer>>

\* candidateSet: visited nodes whose friends the search has not read.
Candidates(t) == seen[t] \ expanded[t]

\* Read the friends of the closest candidate, under its lock.
Expand(t) ==
    /\ phase = "adding"
    /\ pc[t] = "search"
    /\ \E c \in Closest(Candidates(t), node[t]) :
        /\ ~ Beyond(seen[t], c, node[t])
        /\ IF \E f \in friends[c] : nodeId[f] >= FutureNextNodeId
           THEN Fail
           ELSE /\ \E V \in NewlyVisited(friends[c], seen[t]) :
                        seen' = [seen EXCEPT ![t] = @ \cup V]
                /\ expanded' = [expanded EXCEPT ![t] = @ \cup {c}]
                /\ UNCHANGED <<graph, call, pc, pos, node, left, peer>>

\* The closest candidate is too far, or there is none: keep the NN closest.
StopSearch(t) ==
    /\ phase = "adding"
    /\ pc[t] = "search"
    /\ \A c \in Closest(Candidates(t), node[t]) : NotWithin(seen[t], c, node[t])
    /\ \E R \in Nearest(seen[t], node[t]) : left' = [left EXCEPT ![t] = R]
    /\ pc' = [pc EXCEPT ![t] = "link"]
    /\ UNCHANGED <<graph, call, pos, node, seen, expanded, peer>>

\* Mutant: link only tells the new node.
LinkThereNot(t) ==
    /\ phase = "adding"
    /\ pc[t] = "link"
    /\ \E x \in Farthest(left[t], node[t]) : peer' = [peer EXCEPT ![t] = x]
    /\ pc' = [pc EXCEPT ![t] = "linkback"]
    /\ UNCHANGED <<graph, call, pos, node, seen, expanded, left>>

\* MSWNode::link(resultSet.top(), newElement), farthest first: one node is
\* locked at a time.
LinkThere(t) ==
    /\ phase = "adding"
    /\ pc[t] = "link"
    /\ \E x \in Farthest(left[t], node[t]) :
        /\ friends' = [friends EXCEPT ![x] = @ \cup {node[t]}]
        /\ peer' = [peer EXCEPT ![t] = x]
    /\ pc' = [pc EXCEPT ![t] = "linkback"]
    /\ UNCHANGED <<elList, nodeId, nextNodeId, entry, alive, call, pos, node, seen, expanded, left>>

\* Mutant: link only tells the old node.
LinkBackNot(t) ==
    /\ phase = "adding"
    /\ pc[t] = "linkback"
    /\ left' = [left EXCEPT ![t] = @ \ {peer[t]}]
    /\ pc' = [pc EXCEPT ![t] = "link"]
    /\ UNCHANGED <<graph, call, pos, node, seen, expanded, peer>>

LinkBack(t) ==
    /\ phase = "adding"
    /\ pc[t] = "linkback"
    /\ friends' = [friends EXCEPT ![node[t]] = @ \cup {peer[t]}]
    /\ left' = [left EXCEPT ![t] = @ \ {peer[t]}]
    /\ pc' = [pc EXCEPT ![t] = "link"]
    /\ UNCHANGED <<elList, nodeId, nextNodeId, entry, alive, call, pos, node, seen, expanded, peer>>

Publish(t) ==
    /\ phase = "adding"
    /\ pc[t] = "link"
    /\ left[t] = {}
    /\ Published(node[t])
    /\ Intact(~ IsListed(Id[node[t]]))
    /\ pos' = [pos EXCEPT ![t] = @ + Stride]
    /\ pc' = [pc EXCEPT ![t] = "next"]
    /\ UNCHANGED <<friends, nodeId, nextNodeId, alive, phase, batches, batch, removed,
                   strategy, queue, local>>

\* Mutant: a thread that has no position left waits for another one.
WaitForMore(t) ==
    /\ phase = "adding"
    /\ pc[t] = "next"
    /\ pos[t] >= Len(batch)
    /\ UNCHANGED vars

EndOfBatch(t) ==
    /\ phase = "adding"
    /\ pc[t] = "next"
    /\ pos[t] >= Len(batch)
    /\ pc' = [pc EXCEPT ![t] = "done"]
    /\ UNCHANGED <<graph, call, pos, local>>

AllDone == \A t \in Threads : pc[t] = "done"

\* The call returns and its local variables are gone.
Return ==
    /\ phase' = "idle"
    /\ batch' = <<>>
    /\ removed' = {}
    /\ strategy' = "kNone"
    /\ queue' = {}
    /\ pos' = [t \in Threads |-> 0]
    /\ node' = [t \in Threads |-> Null]
    /\ seen' = [t \in Threads |-> {}]
    /\ expanded' = [t \in Threads |-> {}]
    /\ left' = [t \in Threads |-> {}]
    /\ peer' = [t \in Threads |-> Null]
    /\ UNCHANGED <<batches, intact>>

\* Mutant: NextNodeId_ is not updated.
FinishAddStale ==
    /\ phase = "adding"
    /\ AllDone
    /\ CompactIdsIfNeeded(elList, nextNodeId)
    /\ Return
    /\ UNCHANGED <<elList, friends, entry, alive, pc>>

\* After the joins: UpdateNextNodeId and CompactIdsIfNeeded.
FinishAdd ==
    /\ phase = "adding"
    /\ AllDone
    /\ CompactIdsIfNeeded(elList, FutureNextNodeId)
    /\ Return
    /\ UNCHANGED <<elList, friends, entry, alive, pc>>

-----------------------------------------------------------------------------
(* DeleteBatch.                                                            *)

\* Positions of b whose id is not found in ElList_ any more.
Missing(b) == {i \in DOMAIN b : ~ IsListed(b[i]) \/ \E j \in 1 .. i - 1 : b[j] = b[i]}
Members(b) == {b[i] : i \in DOMAIN b}
Found(S) == {n \in elList : Id[n] \in S}

\* delNodesBitset is indexed by node id, too.
IsDeleted(n, S) == nodeId[n] \in IdsOf(S)

\* The first stage throws at the first object that is not indexed, having
\* erased the objects before it from ElList_.
DeleteBatchFails(b) ==
    /\ phase = "idle"
    /\ batches < MaxBatches
    /\ nextNodeId # 0
    /\ \E i \in Missing(b) :
        /\ \A j \in Missing(b) : i <= j
        /\ LET erased == Found({b[j] : j \in 1 .. i - 1})
           IN  elList' = elList \ erased /\ Intact(erased = {})
    /\ batches' = batches + 1
    /\ UNCHANGED <<friends, nodeId, nextNodeId, entry, alive,
                   phase, batch, removed, strategy, queue, pc, pos, local>>

\* The CHECKs on ids of the first stage; the second one throws when it does not
\* know the strategy.
DeleteBatch(b, s) ==
    /\ phase = "idle"
    /\ batches < MaxBatches
    /\ nextNodeId # 0
    /\ Missing(b) = {}
    /\ LET D == Found(Members(b))
           F == UNION {friends[d] : d \in D}
       IN  IF \E n \in D \cup F : nodeId[n] >= nextNodeId
           THEN Fail
           ELSE /\ elList' = elList \ D
                /\ batches' = batches + 1
                /\ Intact(s # "unsupported")
                /\ IF s = "unsupported"
                   THEN UNCHANGED <<phase, removed, strategy, queue, pc>>
                   ELSE /\ phase' = "deleting"
                        /\ removed' = D
                        /\ strategy' = s
                        /\ queue' = {n \in F : ~ IsDeleted(n, D)}
                        /\ pc' = [t \in Threads |-> "take"]
                /\ UNCHANGED <<friends, nodeId, nextNodeId, entry, alive, batch, pos, local>>

\* GetNextQueueObj, then the loop over friends_ starts, without the lock.
Take(t) ==
    /\ phase = "deleting"
    /\ pc[t] = "take"
    /\ \E n \in queue :
        /\ queue' = queue \ {n}
        /\ node' = [node EXCEPT ![t] = n]
        /\ seen' = [seen EXCEPT ![t] = friends[n]]
    /\ pc' = [pc EXCEPT ![t] = "filter"]
    /\ UNCHANGED <<graph, phase, batches, batch, removed, strategy, intact, pos,
                   expanded, left, peer>>

\* Mutant: the friends that stay are dropped and the deleted ones kept.
FilterInverted(t) ==
    /\ phase = "deleting"
    /\ pc[t] = "filter"
    /\ LET n == node[t]
           gone == {f \in seen[t] : IsDeleted(f, removed)}
       IN  /\ friends' = [friends EXCEPT ![n] = gone]
           /\ left' = [left EXCEPT ![t] = {}]
    /\ pc' = [pc EXCEPT ![t] = "patch"]
    /\ UNCHANGED <<elList, nodeId, nextNodeId, entry, alive, call, pos, node, seen, expanded, peer>>

\* The loop ends: friends that are deleted have been dropped, or delNodes.at
\* throws.  Insertions of another thread meanwhile race with the loop: the list
\* may lose anything or keep it, and the CHECK on the number of friends may not
\* hold.
Filter(t) ==
    /\ phase = "deleting"
    /\ pc[t] = "filter"
    /\ LET n == node[t]
           gone == {f \in seen[t] : IsDeleted(f, removed)}
           raced == friends[n] # seen[t]
       IN  \/ /\ \A f \in seen[t] : nodeId[f] < nextNodeId
              /\ \E kept \in IF raced THEN SUBSET (friends[n] \cup seen[t]) ELSE {seen[t] \ gone} :
                    friends' = [friends EXCEPT ![n] = kept]
              /\ left' = [left EXCEPT ![t] = IF strategy = "kNone" THEN {} ELSE gone]
              /\ pc' = [pc EXCEPT ![t] = "patch"]
              /\ Intact(~ raced)
              /\ UNCHANGED <<elList, nodeId, nextNodeId, entry, alive, phase, batches, batch,
                             removed, strategy, queue, pos, node, seen, expanded, peer>>
           \/ /\ raced \/ \E f \in seen[t] : nodeId[f] >= nextNodeId
              /\ phase' = "failed"
              /\ Intact(~ raced)
              /\ UNCHANGED <<graph, batches, batch, removed, strategy, queue, pc, pos, local>>

\* The replacement of a removed friend: the one of its friends that is closest
\* to the node being patched.
Replacements(t, d) ==
    Closest({x \in friends[d] : ~ IsDeleted(x, removed)}, node[t])

\* link(this, friendReplacement), unless friendReplacement stays null.
PatchThere(t) ==
    /\ phase = "deleting"
    /\ pc[t] = "patch"
    /\ \E d \in left[t] :
        /\ left' = [left EXCEPT ![t] = @ \ {d}]
        /\ IF Replacements(t, d) = {}
           THEN UNCHANGED <<friends, peer, pc>>
           ELSE \E x \in Replacements(t, d) :
                /\ friends' = [friends EXCEPT ![node[t]] = @ \cup {x}]
                /\ peer' = [peer EXCEPT ![t] = x]
                /\ pc' = [pc EXCEPT ![t] = "patchback"]
    /\ UNCHANGED <<elList, nodeId, nextNodeId, entry, alive, call, pos, node, seen, expanded>>

PatchBack(t) ==
    /\ phase = "deleting"
    /\ pc[t] = "patchback"
    /\ friends' = [friends EXCEPT ![peer[t]] = @ \cup {node[t]}]
    /\ pc' = [pc EXCEPT ![t] = "patch"]
    /\ UNCHANGED <<elList, nodeId, nextNodeId, entry, alive, call, pos, local>>

Patched(t) ==
    /\ phase = "deleting"
    /\ pc[t] = "patch"
    /\ left[t] = {}
    /\ pc' = [pc EXCEPT ![t] = "take"]
    /\ UNCHANGED <<graph, call, pos, local>>

\* Mutant: a thread leaves while nodes are queued.
LeaveQueue(t) ==
    /\ phase = "deleting"
    /\ pc[t] = "take"
    /\ pc' = [pc EXCEPT ![t] = "done"]
    /\ UNCHANGED <<graph, call, pos, local>>

\* Mutant: a thread that finds the queue empty looks again.
Spin(t) ==
    /\ phase = "deleting"
    /\ pc[t] = "take"
    /\ queue = {}
    /\ UNCHANGED vars

EndOfQueue(t) ==
    /\ phase = "deleting"
    /\ pc[t] = "take"
    /\ queue = {}
    /\ pc' = [pc EXCEPT ![t] = "done"]
    /\ UNCHANGED <<graph, call, pos, local>>

\* After the joins: the nodes are deleted, the entry point is reset.
FinishDelete ==
    /\ phase = "deleting"
    /\ AllDone
    /\ alive' = alive \ removed
    /\ friends' = [n \in Node |-> IF n \in removed THEN {} ELSE friends[n]]
    /\ IF elList = {} THEN entry' = Null ELSE entry' \in elList
    /\ CompactIdsIfNeeded(elList, nextNodeId)
    /\ Return
    /\ UNCHANGED <<elList, pc>>

-----------------------------------------------------------------------------
Worker(t) ==
    \/ StartAdd(t) \/ Expand(t) \/ StopSearch(t)
    \/ LinkThere(t) \/ LinkBack(t) \/ Publish(t) \/ EndOfBatch(t)
    \/ Take(t) \/ Filter(t) \/ PatchThere(t) \/ PatchBack(t)
    \/ Patched(t) \/ EndOfQueue(t)

Call ==
    \/ \E b \in AddBatches : AddBatch(b)
    \/ \E b \in DeleteBatches : DeleteBatchFails(b) \/ \E s \in Strategies : DeleteBatch(b, s)

Finish == FinishAdd \/ FinishDelete

\* Between two calls, and after a failed CHECK, nothing need happen.
Rest == phase \in {"idle", "failed"} /\ UNCHANGED vars

Next == Call \/ Finish \/ (\E t \in Threads : Worker(t)) \/ Rest

Spec == Init /\ [][Next]_vars

\* Indexing threads are scheduled by the operating system; calls may not come.
FairSpec == Spec /\ WF_vars(Finish) /\ \A t \in Threads : WF_vars(Worker(t))

-----------------------------------------------------------------------------
(* Properties.                                                             *)

\* Thread t has made one half of the link between x and y.
HalfLinked(t, x, y) ==
    \/ pc[t] = "linkback" /\ peer[t] = x /\ node[t] = y
    \/ pc[t] = "patchback" /\ node[t] = x /\ peer[t] = y

\* Links are reciprocal, up to links being made and to nodes being deleted:
\* DeleteBatch finds who must forget a node by looking at its own friends.
Reciprocal ==
    intact => \A x \in alive \ removed : \A y \in friends[x] \ removed :
        x \in friends[y] \/ \E t \in Threads : HalfLinked(t, x, y)

\* An insertion makes no node its own friend: a search never meets the node it
\* is made for.  (Patching may.)
NoSelfLink ==
    [][intact' /\ phase' = "adding" =>
            \A x \in Node : x \in friends'[x] => x \in friends[x]]_vars

\* No list of friends, no entry and no index points to a deleted node.
NoDangling ==
    intact =>
        /\ elList \subseteq alive
        /\ entry \in alive \cup {Null}
        /\ \A x \in alive : friends[x] \subseteq alive

\* What can be reached from S along the links.
Closed(S) == \A x \in S : friends[x] \subseteq S
Reaches(x, y) == \A S \in SUBSET Node : x \in S /\ Closed(S) => y \in S
Reached(y) == entry # Null /\ Reaches(entry, y)
Unreached == {y \in elList : ~ Reached(y)}

\* Insertions lose nothing: every node they index can be reached from the entry
\* point, and what could be reached still can, at every moment.  (Deletions may
\* cut off indexed nodes.)
StaysConnected == [][intact' /\ phase' = "adding" => Unreached' \subseteq Unreached]_vars

\* CheckIDs: node ids are unique and below NextNodeId_ between two calls.
IdsAreValid ==
    intact /\ phase = "idle" =>
        /\ \A x \in elList : nodeId[x] < nextNodeId
        /\ \A x, y \in elList : nodeId[x] = nodeId[y] => x = y

\* The CHECKs on node ids, entry point and friend lists hold: "Bug: ...".
NoBug == intact => phase # "failed"

\* The CHECKs hold whatever the threads do.
ChecksHold == phase # "failed"

\* AddBatch indexes every object of the batch, by its id, and loses none.
AddsAll ==
    [][phase = "adding" /\ phase' = "idle" =>
            ObjectIds(Members(batch)) \subseteq ObjectIds(elList') /\ elList \subseteq elList']_vars

\* So it does, with any number of threads, when the index was empty.
AddsToEmpty ==
    [][phase = "adding" /\ phase' = "idle" /\ elList \subseteq Members(batch) =>
            elList' \subseteq Members(batch) /\ ObjectIds(elList') = ObjectIds(Members(batch))]_vars

\* Calls return.
CallsReturn == (phase \in {"adding", "deleting"}) ~> (phase \in {"idle", "failed"})

\* Between two calls, links join indexed nodes only: the removed nodes have
\* been forgotten by everybody, whichever threads patched whom.
OnlyIndexed ==
    intact /\ phase = "idle" => \A x \in elList : friends[x] \subseteq elList
=============================================================================
