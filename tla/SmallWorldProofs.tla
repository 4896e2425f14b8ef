-------------------------- MODULE SmallWorldProofs --------------------------
(* Proofs about SmallWorldRand, for every set of nodes, number of threads   *)
(* and sequence of batches.                                                 *)
EXTENDS SmallWorldRand, Extremes, FiniteSetTheorems, TLAPS

\* Thread t is inside add, or inside the patching of a node.
Inserting(t) == phase = "adding" /\ pc[t] \in {"search", "link", "linkback"}
Patching(t) == phase = "deleting" /\ pc[t] \in {"filter", "patch", "patchback"}

\* The positions of a batch that belong to thread t.
Owns(t, p) == \E k \in 0 .. p : p = t + k * Stride

\* What each phase leaves empty and where its threads may be.
Phased ==
    /\ phase # "failed"
    /\ phase # "deleting" => removed = {} /\ queue = {}
    /\ phase = "idle" => \A t \in Threads : pc[t] = "done"
    /\ phase = "adding" =>
        /\ batch \in AddBatches
        /\ \A t \in Threads : pc[t] = "next" \/ Inserting(t) \/ pc[t] = "done"
    /\ phase = "deleting" =>
        \A t \in Threads : pc[t] = "take" \/ Patching(t) \/ pc[t] = "done"

\* Nodes are indexed, being inserted or being removed.
Membership ==
    /\ elList \cup removed \subseteq alive
    /\ elList \cap removed = {}
    /\ \A x \in alive \ (elList \cup removed) :
            \E t \in Threads : Inserting(t) /\ node[t] = x
    /\ phase = "adding" => elList # {}

\* Links join nodes in memory; so does the entry point.
InMemory ==
    /\ entry \in alive \cup {Null}
    /\ phase # "deleting" => IF elList = {} THEN entry = Null ELSE entry \in elList
    /\ \A x \in alive : friends[x] \subseteq alive

\* Ids are unique, and a node of the running batch has the id of its position.
Identified ==
    /\ \A x, y \in alive : nodeId[x] = nodeId[y] => x = y
    /\ \A x \in alive :
        \/ nodeId[x] < nextNodeId
        \/ /\ phase = "adding"
           /\ \E i \in DOMAIN batch : x = batch[i] /\ nodeId[x] = nextNodeId + i - 1

\* A thread inserts the object of its position, and what it has not reached
\* yet does not exist.
Positioned ==
    phase = "adding" => \A t \in Threads :
        /\ Inserting(t) =>
            /\ pos[t] < Len(batch)
            /\ Owns(t, pos[t])
            /\ node[t] = batch[pos[t] + 1]
            /\ node[t] \in alive \ elList
        /\ ~ Inserting(t) /\ pos[t] < Len(batch) => Owns(t, pos[t])
        /\ \A p \in 0 .. Len(batch) - 1 :
            /\ Owns(t, p)
            /\ p > pos[t] \/ (p = pos[t] /\ ~ Inserting(t))
            => batch[p + 1] \notin alive

\* A search knows nodes in memory, never the node it is made for.
Searching ==
    \A t \in Threads : Inserting(t) =>
        /\ seen[t] \subseteq alive \ {node[t]}
        /\ pc[t] # "search" => left[t] \subseteq alive \ {node[t]}
        /\ pc[t] = "linkback" =>
            peer[t] \in alive \ {node[t]} /\ node[t] \in friends[peer[t]]

\* Nobody knows the node a search is made for.
Unknown ==
    \A t \in Threads : phase = "adding" /\ pc[t] = "search" =>
        /\ \A x \in alive : node[t] \notin friends[x]
        /\ \A u \in Threads : Inserting(u) =>
            /\ node[t] \notin seen[u]
            /\ pc[u] # "search" => node[t] \notin left[u]
            /\ pc[u] = "linkback" => node[t] # peer[u]

\* Reciprocal, for the links to nodes being removed as well.
Mutual ==
    \A x \in alive \ removed : \A y \in friends[x] :
        x \in friends[y] \/ \E t \in Threads : HalfLinked(t, x, y)

\* The nodes queued and those being patched are different nodes that remain.
Queued ==
    phase = "deleting" =>
        /\ queue \subseteq alive \ removed
        /\ \A t \in Threads : pc[t] = "done" => queue = {}
        /\ \A t \in Threads : Patching(t) =>
            /\ node[t] \in alive \ removed
            /\ node[t] \notin queue
            /\ \A u \in Threads : Patching(u) /\ node[u] = node[t] => u = t

\* Who still knows a removed node is queued, or about to be filtered.
Forgetting ==
    phase = "deleting" => \A x \in alive \ removed : \A y \in friends[x] \cap removed :
        x \in queue \/ \E t \in Threads : pc[t] = "filter" /\ node[t] = x

\* A thread filters a list that others may only add to, then replaces friends
\* that were removed by nodes that remain.
Replacing ==
    phase = "deleting" => \A t \in Threads :
        /\ pc[t] = "filter" => seen[t] \subseteq friends[node[t]]
        /\ pc[t] \in {"patch", "patchback"} => left[t] \subseteq removed
        /\ pc[t] = "patchback" =>
            /\ peer[t] \in alive \ removed
            /\ peer[t] \in friends[node[t]]

IInv ==
    /\ Phased
    /\ Membership
    /\ InMemory
    /\ Identified
    /\ Positioned
    /\ Searching
    /\ Unknown
    /\ Mutual
    /\ Queued
    /\ Forgetting
    /\ Replacing
-----------------------------------------------------------------------------
(* Threads and the positions they own.                                      *)

LEMMA Striding ==
    /\ Stride \in Nat \ {0}
    /\ Threads = 0 .. Stride - 1
BY ParameterAssumption DEF Stride, Threads, SingleThreaded

\* No position belongs to two threads.
LEMMA OwnsOne ==
    ASSUME NEW t \in Threads, NEW u \in Threads, NEW p \in Nat,
           Owns(t, p), Owns(u, p)
    PROVE  t = u
<1>1. PICK k \in 0 .. p : p = t + k * Stride
  BY DEF Owns
<1>2. PICK l \in 0 .. p : p = u + l * Stride
  BY DEF Owns
<1>3. k \in Nat /\ l \in Nat /\ Stride \in Nat /\ t \in 0 .. Stride - 1 /\ u \in 0 .. Stride - 1
  BY Striding
<1>4. ASSUME NEW m \in Nat, NEW n \in Nat, NEW v \in 0 .. Stride - 1, NEW w \in 0 .. Stride - 1,
             v + m * Stride = w + n * Stride, m > n
      PROVE  FALSE
  <2>1. m - n - 1 \in Nat /\ m * Stride = n * Stride + Stride + (m - n - 1) * Stride
    BY <1>3, <1>4
  <2>2. (m - n - 1) * Stride >= 0
    BY <1>3, <2>1
  <2>3. v < Stride /\ w < Stride /\ v \in Nat /\ w \in Nat
    BY <1>3
  <2>4. n * Stride \in Nat /\ m * Stride \in Nat /\ (m - n - 1) * Stride \in Nat
    BY <1>3, <2>1
  <2> QED BY <1>3, <1>4, <2>1, <2>2, <2>3, <2>4
<1>5. k = l
  BY <1>1, <1>2, <1>3, <1>4
<1> QED BY <1>1, <1>2, <1>3, <1>5

LEMMA OwnsNext ==
    ASSUME NEW t \in Threads, NEW p \in Nat, Owns(t, p)
    PROVE  p + Stride \in Nat /\ Owns(t, p + Stride)
<1>1. PICK k \in 0 .. p : p = t + k * Stride
  BY DEF Owns
<1>2. t \in Nat /\ k \in Nat /\ Stride \in Nat \ {0}
  BY Striding
<1>3. p + Stride = t + (k + 1) * Stride /\ k + 1 \in 0 .. p + Stride
  BY <1>1, <1>2
<1> QED BY <1>2, <1>3 DEF Owns

LEMMA OwnsFirst ==
    ASSUME NEW t \in Threads
    PROVE  FirstPos(t) \in Nat /\ Owns(t, FirstPos(t))
<1>1. CASE SingleThreaded
  <2>1. t = 0 /\ Stride = 1 /\ FirstPos(t) \in 0 .. 1
    BY <1>1 DEF Threads, Stride, FirstPos
  <2> QED BY <2>1 DEF Owns
<1>2. CASE ~ SingleThreaded
  <2>1. /\ IndexThreadQty \in Nat \ {0} /\ Stride = IndexThreadQty
        /\ t \in Nat
        /\ FirstPos(t) = IF t = 0 THEN IndexThreadQty ELSE t
    BY <1>2, ParameterAssumption, Striding DEF Threads, Stride, FirstPos, SingleThreaded
  <2>2. CASE t = 0
    <3>1. FirstPos(t) = t + 1 * Stride /\ 1 \in 0 .. FirstPos(t)
      BY <2>1, <2>2
    <3> QED BY <2>1, <2>2, <3>1 DEF Owns
  <2>3. CASE t # 0
    <3>1. FirstPos(t) = t + 0 * Stride /\ 0 \in 0 .. FirstPos(t)
      BY <2>1, <2>3
    <3> QED BY <2>1, <2>3, <3>1 DEF Owns
  <2> QED BY <2>2, <2>3
<1> QED BY <1>1, <1>2

\* The batches of insertions: sequences of nodes without repetition.
LEMMA Batches ==
    ASSUME NEW b \in AddBatches
    PROVE  /\ b \in Seq(Node)
           /\ Len(b) \in Nat \ {0}
           /\ DOMAIN b = 1 .. Len(b)
           /\ \A i \in DOMAIN b : b[i] \in Node
           /\ \A i, j \in DOMAIN b : b[i] = b[j] => i = j
BY BatchAssumption

-----------------------------------------------------------------------------
(* Compaction of ids.                                                       *)

LEMMA Compaction ==
    ASSUME NEW S \in SUBSET Node, NEW next \in Nat,
           nodeId \in [Node -> Nat], CompactIdsIfNeeded(S, next)
    PROVE  /\ nextNodeId' \in Nat
           /\ nodeId' \in [Node -> Nat]
           /\ (\A x, y \in S : nodeId[x] = nodeId[y] => x = y)
              => \A x, y \in S : nodeId'[x] = nodeId'[y] => x = y
           /\ (\A x \in S : nodeId[x] < next) => \A x \in S : nodeId'[x] < nextNodeId'
<1>1. Cardinality(S) \in Nat
  BY NodeAssumption, FS_Subset, FS_CardinalityType
<1>2. CASE 3 * Cardinality(S) < 2 * next
  <2>1. nextNodeId' = Cardinality(S)
    BY <1>2 DEF CompactIdsIfNeeded
  <2>2. PICK f \in Numberings(S) :
            nodeId' = [n \in Node |-> IF n \in S THEN f[n] ELSE nodeId[n]]
    BY <1>2 DEF CompactIdsIfNeeded
  <2>3. /\ \A x \in S : f[x] \in 0 .. Cardinality(S) - 1
        /\ \A x, y \in S : f[x] = f[y] => x = y
    BY DEF Numberings
  <2>4. \A x \in S : nodeId'[x] = f[x] /\ f[x] \in Nat /\ f[x] < Cardinality(S)
    BY <1>1, <2>2, <2>3
  <2>5. nodeId' \in [Node -> Nat]
    BY <2>2, <2>4
  <2> QED BY <1>1, <2>1, <2>3, <2>4, <2>5
<1>3. CASE ~ (3 * Cardinality(S) < 2 * next)
  BY <1>3 DEF CompactIdsIfNeeded
<1> QED BY <1>2, <1>3

-----------------------------------------------------------------------------
(* Types.                                                                   *)

\* A thread that works on a node has one, and so has one that links it.
Busy ==
    \A t \in Threads :
        /\ pc[t] \notin {"done", "next", "take"} => node[t] \in Node
        /\ pc[t] \in {"linkback", "patchback"} => peer[t] \in Node

LEMMA BusyStep ==
    ASSUME TypeOK, Busy, [Next]_vars
    PROVE  Busy'
<1> USE DEF Busy, graph, call, local
<1>1. CASE Call
  BY <1>1 DEF Call, AddBatch, DeleteBatchFails, DeleteBatch, Fail, TypeOK
<1>2. CASE Finish
  BY <1>2 DEF Finish, FinishAdd, FinishDelete, AllDone, Return
<1>3. ASSUME NEW t \in Threads, StartAdd(t) PROVE Busy'
  <2>1. CASE Fail
    BY <2>1 DEF Fail
  <2>2. CASE ~ Fail
    <3>1. batch[pos[t] + 1] \in Node
      BY <1>3, Batches DEF StartAdd, TypeOK
    <3> QED BY <1>3, <2>2, <3>1 DEF StartAdd, TypeOK
  <2> QED BY <2>1, <2>2
<1>4. ASSUME NEW t \in Threads, Expand(t) PROVE Busy'
  BY <1>4 DEF Expand, Fail
<1>5. ASSUME NEW t \in Threads, StopSearch(t) PROVE Busy'
  BY <1>5 DEF StopSearch, TypeOK
<1>6. ASSUME NEW t \in Threads, LinkThere(t) PROVE Busy'
  BY <1>6 DEF LinkThere, Farthest, TypeOK
<1>7. ASSUME NEW t \in Threads, LinkBack(t) PROVE Busy'
  BY <1>7 DEF LinkBack, TypeOK
<1>8. ASSUME NEW t \in Threads, Publish(t) \/ EndOfBatch(t) PROVE Busy'
  BY <1>8 DEF Publish, EndOfBatch, TypeOK
<1>9. ASSUME NEW t \in Threads, Take(t) PROVE Busy'
  BY <1>9 DEF Take, TypeOK
<1>10. ASSUME NEW t \in Threads, Filter(t) PROVE Busy'
  BY <1>10 DEF Filter, Fail, TypeOK
<1>11. ASSUME NEW t \in Threads, PatchThere(t) PROVE Busy'
  <2>1. node[t] \in Node
    BY <1>11 DEF PatchThere
  <2>2. CASE pc' = pc /\ peer' = peer
    BY <1>11, <2>2 DEF PatchThere
  <2>3. ASSUME NEW x \in Node, peer' = [peer EXCEPT ![t] = x],
               pc' = [pc EXCEPT ![t] = "patchback"]
        PROVE  Busy'
    BY <1>11, <2>1, <2>3 DEF PatchThere, TypeOK
  <2>4. \A d \in left[t] : Replacements(t, d) \subseteq Node
    BY DEF Replacements, Closest, TypeOK
  <2> QED BY <1>11, <2>2, <2>3, <2>4 DEF PatchThere
<1>12. ASSUME NEW t \in Threads, PatchBack(t) PROVE Busy'
  BY <1>12 DEF PatchBack, TypeOK
<1>13. ASSUME NEW t \in Threads, Patched(t) \/ EndOfQueue(t) PROVE Busy'
  BY <1>13 DEF Patched, EndOfQueue, TypeOK
<1>14. CASE UNCHANGED vars
  BY <1>14 DEF vars
<1> QED
  BY <1>1, <1>2, <1>3, <1>4, <1>5, <1>6, <1>7, <1>8, <1>9, <1>10, <1>11, <1>12,
     <1>13, <1>14
  DEF Next, Worker, Rest

LEMMA TypeStep ==
    ASSUME TypeOK, Busy, [Next]_vars
    PROVE  TypeOK'
<1> USE ParameterAssumption DEF TypeOK, Phases, Labels, graph, call, local
<1>1. ASSUME NEW b \in AddBatches, AddBatch(b) PROVE TypeOK'
  <2>1. b[1] \in Node /\ \A t \in Threads : FirstPos(t) \in Nat
    BY Batches, OwnsFirst
  <2>2. CASE elList = {}
    <3>1. /\ elList' = elList \cup {b[1]} /\ alive' = alive \cup {b[1]}
          /\ entry' = entry \/ entry' = b[1]
          /\ friends' = [friends EXCEPT ![b[1]] = {}]
          /\ nodeId' = [nodeId EXCEPT ![b[1]] = nextNodeId]
      BY <1>1, <2>2 DEF AddBatch, Published, IsListed, ObjectIds
    <3> QED BY <1>1, <2>1, <3>1 DEF AddBatch
  <2>3. CASE elList # {}
    BY <1>1, <2>1, <2>3 DEF AddBatch
  <2> QED BY <2>2, <2>3
<1>2. ASSUME NEW b \in DeleteBatches, DeleteBatchFails(b) PROVE TypeOK'
  BY <1>2 DEF DeleteBatchFails, Intact
<1>3. ASSUME NEW b \in DeleteBatches, NEW s \in Strategies, DeleteBatch(b, s) PROVE TypeOK'
  <2>1. Found(Members(b)) \subseteq Node
    BY DEF Found
  <2>2. CASE Fail
    BY <2>2 DEF Fail
  <2>3. CASE ~ Fail
    <3> DEFINE D == Found(Members(b))
               F == UNION {friends[d] : d \in D}
    <3>1. /\ elList' = elList \ D
          /\ batches' = batches + 1 /\ batches < MaxBatches
          /\ Intact(s # "unsupported")
          /\ \/ UNCHANGED <<phase, removed, strategy, queue, pc>>
             \/ /\ phase' = "deleting"
                /\ removed' = D
                /\ strategy' = s
                /\ queue' = {n \in F : ~ IsDeleted(n, D)}
                /\ pc' = [t \in Threads |-> "take"]
          /\ UNCHANGED <<friends, nodeId, nextNodeId, entry, alive, batch, pos, local>>
      BY <1>3, <2>3 DEF DeleteBatch
    <3>2. D \subseteq Node /\ F \subseteq Node
      BY <2>1
    <3> HIDE DEF D, F
    <3>3. intact' \in BOOLEAN /\ {n \in F : ~ IsDeleted(n, D)} \subseteq Node
      BY <3>1, <3>2 DEF Intact
    <3> QED BY <3>1, <3>2, <3>3
  <2> QED BY <2>2, <2>3
<1>4. CASE FinishAdd
  <2>1. FutureNextNodeId \in Nat /\ Len(batch) \in Nat
    BY Batches DEF FutureNextNodeId
  <2>2. nextNodeId' \in Nat /\ nodeId' \in [Node -> Nat]
    BY <1>4, <2>1, Compaction DEF FinishAdd
  <2> QED BY <1>4, <2>2 DEF FinishAdd, Return
<1>5. CASE FinishDelete
  <2>1. nextNodeId' \in Nat /\ nodeId' \in [Node -> Nat]
    BY <1>5, Compaction DEF FinishDelete
  <2>2. entry' \in Node \cup {Null}
    BY <1>5 DEF FinishDelete
  <2> QED BY <1>5, <2>1, <2>2 DEF FinishDelete, Return
<1>6. ASSUME NEW t \in Threads, StartAdd(t) PROVE TypeOK'
  <2>1. CASE Fail
    BY <2>1 DEF Fail
  <2>2. CASE ~ Fail
    <3>1. batch[pos[t] + 1] \in Node
      BY <1>6, Batches DEF StartAdd
    <3>2. entry \in Node
      BY <1>6, <2>2 DEF StartAdd
    <3>3. nextNodeId + pos[t] \in Nat
      OBVIOUS
    <3>4. /\ friends' = [friends EXCEPT ![batch[pos[t] + 1]] = {}]
          /\ nodeId' = [nodeId EXCEPT ![batch[pos[t] + 1]] = nextNodeId + pos[t]]
          /\ alive' = alive \cup {batch[pos[t] + 1]}
          /\ node' = [node EXCEPT ![t] = batch[pos[t] + 1]]
      BY <1>6, <2>2 DEF StartAdd
    <3>5. /\ friends' \in [Node -> SUBSET Node] /\ nodeId' \in [Node -> Nat]
          /\ alive' \in SUBSET Node /\ node' \in [Threads -> Node \cup {Null}]
      BY <3>1, <3>3, <3>4
    <3>6. /\ seen' = [seen EXCEPT ![t] = {entry}]
          /\ expanded' = [expanded EXCEPT ![t] = {}]
          /\ pc' = [pc EXCEPT ![t] = "search"]
          /\ UNCHANGED <<elList, nextNodeId, entry, call, pos, left, peer>>
      BY <1>6, <2>2 DEF StartAdd
    <3> QED BY <3>2, <3>5, <3>6
  <2> QED BY <2>1, <2>2
<1>7. ASSUME NEW t \in Threads, Expand(t) PROVE TypeOK'
  <2>1. PICK c \in Closest(Candidates(t), node[t]) :
            IF \E f \in friends[c] : nodeId[f] >= FutureNextNodeId
            THEN Fail
            ELSE /\ \E V \in NewlyVisited(friends[c], seen[t]) :
                        seen' = [seen EXCEPT ![t] = @ \cup V]
                 /\ expanded' = [expanded EXCEPT ![t] = @ \cup {c}]
                 /\ UNCHANGED <<graph, call, pc, pos, node, left, peer>>
    BY <1>7 DEF Expand
  <2>2. c \in Node
    BY DEF Closest, Candidates
  <2>3. CASE Fail
    BY <2>3 DEF Fail
  <2>4. CASE ~ Fail
    <3>1. PICK V \in NewlyVisited(friends[c], seen[t]) :
              seen' = [seen EXCEPT ![t] = @ \cup V]
      BY <2>1, <2>4
    <3>2. V \subseteq friends[c]
      BY DEF NewlyVisited
    <3>3. seen' \in [Threads -> SUBSET Node]
      BY <2>2, <3>1, <3>2
    <3>4. expanded' \in [Threads -> SUBSET Node]
      <4>1. expanded' = [expanded EXCEPT ![t] = @ \cup {c}]
        BY <2>1, <2>4
      <4> QED BY <2>2, <4>1
    <3> QED BY <2>1, <2>4, <3>3, <3>4
  <2> QED BY <2>3, <2>4
<1>8. ASSUME NEW t \in Threads, StopSearch(t) PROVE TypeOK'
  BY <1>8 DEF StopSearch, Nearest
<1>9. ASSUME NEW t \in Threads, LinkThere(t) \/ LinkBack(t) PROVE TypeOK'
  <2>1. CASE LinkThere(t)
    <3>1. PICK x \in Farthest(left[t], node[t]) :
              /\ friends' = [friends EXCEPT ![x] = @ \cup {node[t]}]
              /\ peer' = [peer EXCEPT ![t] = x]
      BY <2>1 DEF LinkThere
    <3>2. x \in Node /\ node[t] \in Node
      BY <2>1 DEF LinkThere, Farthest, Busy
    <3>3. friends' \in [Node -> SUBSET Node] /\ peer' \in [Threads -> Node \cup {Null}]
      BY <3>1, <3>2
    <3> QED BY <2>1, <3>3 DEF LinkThere
  <2>2. CASE LinkBack(t)
    <3>1. /\ friends' = [friends EXCEPT ![node[t]] = @ \cup {peer[t]}]
          /\ left' = [left EXCEPT ![t] = @ \ {peer[t]}]
          /\ pc' = [pc EXCEPT ![t] = "link"]
          /\ UNCHANGED <<elList, nodeId, nextNodeId, entry, alive, call, pos, node, seen,
                         expanded, peer>>
      BY <2>2 DEF LinkBack
    <3>2. node[t] \in Node /\ peer[t] \in Node
      BY <2>2 DEF LinkBack, Busy
    <3>3. friends' \in [Node -> SUBSET Node] /\ left' \in [Threads -> SUBSET Node]
      BY <3>1, <3>2
    <3> QED BY <3>1, <3>3
  <2> QED BY <1>9, <2>1, <2>2
<1>10. ASSUME NEW t \in Threads, Publish(t) PROVE TypeOK'
  <2>1. node[t] \in Node
    BY <1>10 DEF Publish, Busy
  <2>2. pos[t] + Stride \in Nat
    BY Striding
  <2> QED BY <1>10, <2>1, <2>2 DEF Publish, Published, Intact
<1>11. ASSUME NEW t \in Threads, Take(t) PROVE TypeOK'
  BY <1>11 DEF Take
<1>12. ASSUME NEW t \in Threads, Filter(t) PROVE TypeOK'
  <2>1. CASE phase' = "failed" /\ UNCHANGED <<graph, left, pc>>
    BY <1>12, <2>1 DEF Filter, Intact
  <2>2. CASE ~ (phase' = "failed" /\ UNCHANGED <<graph, left, pc>>)
    <3>1. PICK kept \in SUBSET (friends[node[t]] \cup seen[t]) :
              friends' = [friends EXCEPT ![node[t]] = kept]
      BY <1>12, <2>2 DEF Filter
    <3>2. node[t] \in Node
      BY <1>12 DEF Filter, Busy
    <3>3. friends' \in [Node -> SUBSET Node]
      BY <3>1, <3>2
    <3>4. /\ pc' = [pc EXCEPT ![t] = "patch"]
          /\ intact' \in BOOLEAN
          /\ UNCHANGED <<elList, nodeId, nextNodeId, entry, alive, phase, batches, batch,
                         removed, strategy, queue, pos, node, seen, expanded, peer>>
      BY <1>12, <2>2 DEF Filter, Intact
    <3>5. left' \in [Threads -> SUBSET Node]
      <4>1. left' = [left EXCEPT ![t] =
                IF strategy = "kNone" THEN {} ELSE {f \in seen[t] : IsDeleted(f, removed)}]
        BY <1>12, <2>2 DEF Filter
      <4> QED BY <4>1
    <3> QED BY <3>3, <3>4, <3>5
  <2> QED BY <2>1, <2>2
<1>13. ASSUME NEW t \in Threads, PatchThere(t) PROVE TypeOK'
  <2>1. node[t] \in Node
    BY <1>13 DEF PatchThere, Busy
  <2>2. \A d \in Node : Replacements(t, d) \subseteq Node
    BY DEF Replacements, Closest
  <2>3. PICK d \in left[t] :
            /\ left' = [left EXCEPT ![t] = @ \ {d}]
            /\ IF Replacements(t, d) = {}
               THEN UNCHANGED <<friends, peer, pc>>
               ELSE \E x \in Replacements(t, d) :
                    /\ friends' = [friends EXCEPT ![node[t]] = @ \cup {x}]
                    /\ peer' = [peer EXCEPT ![t] = x]
                    /\ pc' = [pc EXCEPT ![t] = "patchback"]
    BY <1>13 DEF PatchThere
  <2>4. /\ friends' \in [Node -> SUBSET Node]
        /\ peer' \in [Threads -> Node \cup {Null}]
        /\ pc' \in [Threads -> Labels]
        /\ left' \in [Threads -> SUBSET Node]
    <3>1. CASE UNCHANGED <<friends, peer, pc>>
      BY <2>3, <3>1
    <3>2. ASSUME NEW x \in Node,
                 friends' = [friends EXCEPT ![node[t]] = @ \cup {x}],
                 peer' = [peer EXCEPT ![t] = x],
                 pc' = [pc EXCEPT ![t] = "patchback"]
          PROVE  /\ friends' \in [Node -> SUBSET Node]
                 /\ peer' \in [Threads -> Node \cup {Null}]
                 /\ pc' \in [Threads -> Labels]
      BY <2>1, <3>2
    <3>3. d \in Node /\ left' \in [Threads -> SUBSET Node]
      BY <2>3
    <3> QED BY <2>2, <2>3, <3>1, <3>2, <3>3
  <2> QED BY <1>13, <2>4 DEF PatchThere
<1>14. ASSUME NEW t \in Threads,
              EndOfBatch(t) \/ PatchBack(t) \/ Patched(t) \/ EndOfQueue(t)
       PROVE  TypeOK'
  <2>1. CASE EndOfBatch(t)
    BY <2>1 DEF EndOfBatch
  <2>2. CASE PatchBack(t)
    <3>1. pc[t] = "patchback" /\ peer[t] \in Node /\ node[t] \in Node
      BY <2>2 DEF PatchBack, Busy
    <3>2. friends' \in [Node -> SUBSET Node]
      BY <2>2, <3>1 DEF PatchBack
    <3>3. pc' \in [Threads -> Labels]
      BY <2>2 DEF PatchBack
    <3> QED BY <2>2, <3>2, <3>3 DEF PatchBack
  <2>3. CASE Patched(t)
    BY <2>3 DEF Patched
  <2>4. CASE EndOfQueue(t)
    BY <2>4 DEF EndOfQueue
  <2> QED BY <1>14, <2>1, <2>2, <2>3, <2>4
<1>15. CASE UNCHANGED vars
  BY <1>15 DEF vars
<1> QED
  BY <1>1, <1>2, <1>3, <1>4, <1>5, <1>6, <1>7, <1>8, <1>9, <1>10, <1>11, <1>12,
     <1>13, <1>14, <1>15
  DEF Next, Call, Finish, Worker, Rest

\* Every variable keeps its type, whatever batches come and even when a CHECK
\* fails.
THEOREM TypeCorrect == Spec => []TypeOK
<1>1. Init => TypeOK /\ Busy
  BY ParameterAssumption DEF Init, TypeOK, Busy, Phases, Labels
<1>2. TypeOK /\ Busy /\ [Next]_vars => TypeOK' /\ Busy'
  BY TypeStep, BusyStep
<1> QED BY <1>1, <1>2, PTL DEF Spec

-----------------------------------------------------------------------------
(* Each action keeps the invariant, as long as the index stays intact: no   *)
(* node is left out of ElList_ and no list is changed while it is filtered. *)

\* Between two calls the nodes in memory are the indexed ones, and all links
\* are reciprocal.
LEMMA AtRest ==
    ASSUME TypeOK, IInv, phase = "idle"
    PROVE  /\ alive = elList /\ removed = {} /\ queue = {}
           /\ \A t \in Threads : pc[t] = "done"
           /\ \A x \in alive : nodeId[x] < nextNodeId
           /\ \A x \in alive : \A y \in friends[x] : x \in friends[y]
<1>1. /\ removed = {} /\ queue = {}
      /\ \A t \in Threads : pc[t] = "done" /\ ~ Inserting(t)
  BY DEF IInv, Phased, Inserting
<1>2. alive = elList
  BY <1>1 DEF IInv, Membership
<1>3. \A x \in alive : nodeId[x] < nextNodeId
  BY DEF IInv, Identified
<1>4. \A x \in alive : \A y \in friends[x] : x \in friends[y]
  BY <1>1 DEF IInv, Mutual, HalfLinked
<1> QED BY <1>1, <1>2, <1>3, <1>4

LEMMA AddBatchStep ==
    ASSUME TypeOK, IInv, NEW b \in AddBatches, AddBatch(b)
    PROVE  IInv'
<1>1. /\ alive = elList /\ removed = {} /\ queue = {}
      /\ \A x \in alive : nodeId[x] < nextNodeId
      /\ \A x \in alive : \A y \in friends[x] : x \in friends[y]
  BY AtRest DEF AddBatch
<1>2. /\ phase' = "adding" /\ batch' = b
      /\ removed' = {} /\ queue' = {} /\ nextNodeId' = nextNodeId
      /\ \A t \in Threads : pc'[t] = "next" /\ pos'[t] = FirstPos(t)
  BY <1>1 DEF AddBatch
<1>3. /\ b \in Seq(Node) /\ Len(b) \in Nat \ {0} /\ DOMAIN b = 1 .. Len(b)
      /\ b[1] \in Node /\ \A i \in DOMAIN b : b[i] \notin alive
      /\ \A i, j \in DOMAIN b : b[i] = b[j] => i = j
  BY Batches DEF AddBatch
<1>4. \A t \in Threads : ~ Inserting(t)' /\ ~ Patching(t)'
  BY <1>2 DEF Inserting, Patching
<1>5. \/ /\ elList = {} /\ elList' = {b[1]} /\ alive' = {b[1]} /\ entry' = b[1]
         /\ friends'[b[1]] = {} /\ nodeId'[b[1]] = nextNodeId
      \/ /\ elList # {} /\ UNCHANGED <<elList, alive, entry, friends, nodeId>>
  <2>1. CASE elList = {}
    <3>1. entry = Null
      BY <2>1 DEF IInv, InMemory, AddBatch
    <3> QED BY <1>1, <1>3, <2>1, <3>1 DEF AddBatch, Published, IsListed, ObjectIds, TypeOK
  <2>2. CASE elList # {}
    BY <2>2 DEF AddBatch
  <2> QED BY <2>1, <2>2
<1>6. Phased'
  BY <1>2, <1>4 DEF Phased
<1>7. Membership'
  BY <1>1, <1>2, <1>5 DEF Membership
<1>8. InMemory'
  BY <1>1, <1>2, <1>5, NodeAssumption DEF IInv, InMemory, AddBatch
<1>9. Identified'
  <2>1. CASE alive' = {b[1]} /\ nodeId'[b[1]] = nextNodeId
    <3>1. nextNodeId \in Nat /\ nodeId'[b[1]] = nextNodeId' + 1 - 1 /\ 1 \in DOMAIN b
      BY <1>2, <1>3, <2>1 DEF TypeOK
    <3> QED BY <1>2, <2>1, <3>1 DEF Identified
  <2>2. CASE UNCHANGED <<alive, nodeId>>
    BY <1>1, <1>2, <2>2 DEF IInv, Identified
  <2> QED BY <1>5, <2>1, <2>2
<1>10. Positioned'
  <2>1. ASSUME NEW t \in Threads, NEW p \in 0 .. Len(b) - 1, Owns(t, p), p >= FirstPos(t)
        PROVE  b[p + 1] \notin alive'
    <3>1. p + 1 \in DOMAIN b
      BY <1>3
    <3>2. CASE elList = {}
      <4>1. p # 0
        BY <2>1, <3>2, ParameterAssumption DEF FirstPos, Threads, SingleThreaded
      <4>2. b[p + 1] # b[1]
        BY <1>3, <3>1, <4>1
      <4> QED BY <1>5, <3>2, <4>2
    <3>3. CASE elList # {}
      BY <1>3, <1>5, <3>1, <3>3
    <3> QED BY <3>2, <3>3
  <2>2. \A t \in Threads : FirstPos(t) \in Nat /\ Owns(t, FirstPos(t))
    BY OwnsFirst
  <2>3. \A t \in Threads, p \in 0 .. Len(b) - 1 : Owns(t, p)' = Owns(t, p)
    BY DEF Owns, Stride
  <2> QED BY <1>2, <1>4, <2>1, <2>2, <2>3 DEF Positioned
<1>11. Searching' /\ Unknown'
  BY <1>2, <1>4 DEF Searching, Unknown
<1>12. Mutual'
  BY <1>1, <1>2, <1>5 DEF Mutual
<1>13. Queued' /\ Forgetting' /\ Replacing'
  BY <1>2 DEF Queued, Forgetting, Replacing
<1> QED BY <1>6, <1>7, <1>8, <1>9, <1>10, <1>11, <1>12, <1>13 DEF IInv

\* While a batch is added, every node has an id below the expected bound.
LEMMA KnownIds ==
    ASSUME TypeOK, IInv, phase = "adding", NEW x \in alive
    PROVE  nodeId[x] < FutureNextNodeId
<1>1. /\ Len(batch) \in Nat \ {0} /\ DOMAIN batch = 1 .. Len(batch)
      /\ nextNodeId \in Nat /\ nodeId[x] \in Nat
  BY Batches DEF IInv, Phased, TypeOK
<1>2. CASE nodeId[x] < nextNodeId
  BY <1>1, <1>2 DEF FutureNextNodeId
<1>3. ASSUME NEW i \in DOMAIN batch, nodeId[x] = nextNodeId + i - 1
      PROVE  nodeId[x] < FutureNextNodeId
  BY <1>1, <1>3 DEF FutureNextNodeId
<1> QED BY <1>2, <1>3 DEF IInv, Identified

\* Positions are owned by the same threads in the next state.
LEMMA OwnsStays == \A t, p : Owns(t, p)' <=> Owns(t, p')
BY DEF Owns, Stride

\* A thread that starts, makes a node nobody knows.
LEMMA StartAddStep ==
    ASSUME TypeOK, IInv, NEW t \in Threads, StartAdd(t)
    PROVE  IInv'
<1> DEFINE n == batch[pos[t] + 1]
<1>1. /\ phase = "adding" /\ removed = {} /\ queue = {} /\ pc[t] = "next"
      /\ batch \in AddBatches
      /\ pos[t] \in Nat /\ pos[t] < Len(batch) /\ nextNodeId \in Nat
      /\ ~ Inserting(t)
  BY DEF IInv, Phased, StartAdd, Inserting, TypeOK
<1>2. /\ Len(batch) \in Nat \ {0} /\ DOMAIN batch = 1 .. Len(batch)
      /\ \A i \in DOMAIN batch : batch[i] \in Node
      /\ \A i, j \in DOMAIN batch : batch[i] = batch[j] => i = j
  BY <1>1, Batches
<1>3. Owns(t, pos[t]) /\ pos[t] \in 0 .. Len(batch) - 1 /\ n \notin alive /\ n \in Node
  BY <1>1, <1>2 DEF IInv, Positioned
<1>4. entry \in elList /\ entry \in alive
  BY <1>1 DEF IInv, Membership, InMemory
<1>5. nodeId[entry] < FutureNextNodeId
  BY <1>1, <1>4, KnownIds
<1>6. /\ alive' = alive \cup {n}
      /\ friends' = [friends EXCEPT ![n] = {}]
      /\ nodeId' = [nodeId EXCEPT ![n] = nextNodeId + pos[t]]
      /\ node' = [node EXCEPT ![t] = n]
      /\ seen' = [seen EXCEPT ![t] = {entry}]
      /\ pc' = [pc EXCEPT ![t] = "search"]
      /\ UNCHANGED <<elList, nextNodeId, entry, phase, batch, removed, queue, pos, left, peer>>
  <2>1. nodeId[entry] \in Nat /\ FutureNextNodeId \in Nat
    BY <1>1, <1>2, <1>4 DEF FutureNextNodeId, TypeOK
  <2>2. ~ (elList = {} \/ entry = Null \/ nodeId[entry] >= FutureNextNodeId)
    BY <1>4, <1>5, <2>1, NodeAssumption DEF TypeOK
  <2> QED BY <2>2 DEF StartAdd, call
<1> HIDE DEF n
<1>7. /\ Inserting(t)' /\ ~ Patching(t)' /\ node'[t] = n /\ pc'[t] = "search"
      /\ seen'[t] = {entry}
      /\ \A u \in Threads \ {t} :
            /\ Inserting(u)' = Inserting(u) /\ pc'[u] = pc[u] /\ node'[u] = node[u]
            /\ seen'[u] = seen[u]
  BY <1>1, <1>6 DEF Inserting, Patching, TypeOK
<1>8. friends'[n] = {} /\ \A x \in alive : friends'[x] = friends[x]
  BY <1>3, <1>6 DEF TypeOK
<1>9. Phased'
  BY <1>1, <1>6, <1>7 DEF IInv, Phased, Inserting
<1>10. Membership'
  BY <1>1, <1>3, <1>6, <1>7 DEF IInv, Membership
<1>11. InMemory'
  BY <1>1, <1>3, <1>6, <1>8 DEF IInv, InMemory
<1>12. Identified'
  <2>1. /\ nodeId'[n] = nextNodeId + pos[t]
        /\ \A x \in alive : nodeId'[x] = nodeId[x] /\ nodeId[x] \in Nat
    BY <1>3, <1>6 DEF TypeOK
  <2>2. n = batch[pos[t] + 1] /\ pos[t] + 1 \in DOMAIN batch
    BY <1>1, <1>2 DEF n
  <2>3. ASSUME NEW x \in alive PROVE nodeId[x] # nextNodeId + pos[t]
    <3>1. CASE nodeId[x] < nextNodeId
      BY <1>1, <2>1, <3>1
    <3>2. ASSUME NEW i \in DOMAIN batch, x = batch[i], nodeId[x] = nextNodeId + i - 1,
                 nodeId[x] = nextNodeId + pos[t]
          PROVE  FALSE
      <4>1. i = pos[t] + 1
        BY <1>1, <1>2, <3>2
      <4> QED BY <1>3, <2>2, <3>2, <4>1
    <3> QED BY <3>1, <3>2 DEF IInv, Identified
  <2>4. nodeId'[n] = nextNodeId' + (pos[t] + 1) - 1
    BY <1>1, <1>6, <2>1
  <2>5. \A x, y \in alive' : nodeId'[x] = nodeId'[y] => x = y
    BY <1>6, <2>1, <2>3 DEF IInv, Identified
  <2>6. \A x \in alive' :
            \/ nodeId'[x] < nextNodeId'
            \/ \E i \in DOMAIN batch : x = batch[i] /\ nodeId'[x] = nextNodeId' + i - 1
    BY <1>6, <2>1, <2>2, <2>4 DEF IInv, Identified
  <2> QED BY <1>1, <1>6, <2>5, <2>6 DEF Identified
<1>13. Positioned'
  <2>1. \A u \in Threads, p \in 0 .. Len(batch) - 1 : Owns(u, p)' = Owns(u, p)
    BY DEF Owns, Stride
  <2>2. n = batch[pos[t] + 1]
    BY DEF n
  <2>3. ASSUME NEW u \in Threads, NEW p \in 0 .. Len(batch) - 1, Owns(u, p),
               p > pos[u] \/ (p = pos[u] /\ ~ Inserting(u)'), batch[p + 1] \in alive'
        PROVE  FALSE
    <3>1. batch[p + 1] \notin alive
      BY <1>1, <1>7, <2>3 DEF IInv, Positioned
    <3>2. batch[p + 1] = batch[pos[t] + 1]
      BY <1>6, <2>2, <2>3, <3>1
    <3>3. p + 1 \in DOMAIN batch /\ pos[t] + 1 \in DOMAIN batch
      BY <1>1, <1>2
    <3>4. p = pos[t]
      BY <1>1, <1>2, <3>2, <3>3
    <3>5. u = t
      BY <1>3, <2>3, <3>4, OwnsOne
    <3> QED BY <1>1, <1>7, <2>3, <3>4, <3>5
  <2>4. ASSUME NEW u \in Threads \ {t}
        PROVE  /\ Inserting(u) =>
                    /\ pos[u] < Len(batch)
                    /\ Owns(u, pos[u])
                    /\ node[u] = batch[pos[u] + 1]
                    /\ node[u] \in alive \ elList
               /\ ~ Inserting(u) /\ pos[u] < Len(batch) => Owns(u, pos[u])
    BY <1>1 DEF IInv, Positioned
  <2>5. \A u \in Threads : pos[u] \in Nat
    BY DEF TypeOK
  <2>6. \A u \in Threads : Owns(u, pos[u])' = Owns(u, pos[u])
    BY <1>6 DEF Owns, Stride
  <2>7. n \in alive' \ elList'
    BY <1>3, <1>6 DEF IInv, Membership
  <2> QED
    BY <1>1, <1>3, <1>6, <1>7, <2>1, <2>2, <2>3, <2>4, <2>5, <2>6, <2>7 DEF Positioned
<1>14. Searching'
  BY <1>1, <1>3, <1>4, <1>6, <1>7, <1>8 DEF IInv, Searching
<1>15. Unknown'
  <2>1. ASSUME NEW u \in Threads \ {t}, pc[u] = "search"
        PROVE  node[u] # n /\ node[u] # entry
    BY <1>1, <1>3, <1>4, <2>1 DEF IInv, Positioned, Inserting
  <2>2. ASSUME NEW u \in Threads \ {t}, Inserting(u)
        PROVE  /\ n \notin seen[u]
               /\ pc[u] # "search" => n \notin left[u]
               /\ pc[u] = "linkback" => n # peer[u]
    BY <1>3, <2>2 DEF IInv, Searching
  <2>3. \A x \in alive' : n \notin friends'[x]
    BY <1>3, <1>6, <1>8 DEF IInv, InMemory
  <2> QED BY <1>1, <1>3, <1>4, <1>6, <1>7, <1>8, <2>1, <2>2, <2>3 DEF IInv, Unknown
<1>16. Mutual'
  BY <1>1, <1>3, <1>6, <1>7, <1>8 DEF IInv, InMemory, Mutual, HalfLinked
<1>17. Queued' /\ Forgetting' /\ Replacing'
  BY <1>1, <1>6 DEF Queued, Forgetting, Replacing
<1> QED
  BY <1>9, <1>10, <1>11, <1>12, <1>13, <1>14, <1>15, <1>16, <1>17 DEF IInv

\* A search meets nodes in memory only.
LEMMA ExpandStep ==
    ASSUME TypeOK, IInv, NEW t \in Threads, Expand(t)
    PROVE  IInv'
<1>1. phase = "adding" /\ pc[t] = "search" /\ Inserting(t)
  BY DEF Expand, Inserting
<1>2. PICK c \in Closest(Candidates(t), node[t]) :
          IF \E f \in friends[c] : nodeId[f] >= FutureNextNodeId
          THEN Fail
          ELSE /\ \E V \in NewlyVisited(friends[c], seen[t]) :
                      seen' = [seen EXCEPT ![t] = @ \cup V]
               /\ expanded' = [expanded EXCEPT ![t] = @ \cup {c}]
               /\ UNCHANGED <<graph, call, pc, pos, node, left, peer>>
  BY DEF Expand
<1>3. c \in alive /\ friends[c] \subseteq alive
  BY <1>1 DEF Closest, Candidates, IInv, Searching, InMemory
<1>4. \A f \in friends[c] : ~ (nodeId[f] >= FutureNextNodeId)
  <2>1. FutureNextNodeId \in Nat
    BY <1>1, Batches DEF FutureNextNodeId, IInv, Phased, TypeOK
  <2> QED BY <1>1, <1>3, <2>1, KnownIds DEF TypeOK
<1>5. PICK V \in NewlyVisited(friends[c], seen[t]) : seen' = [seen EXCEPT ![t] = @ \cup V]
  BY <1>2, <1>4
<1>6. V \subseteq friends[c]
  BY DEF NewlyVisited
<1>7. UNCHANGED <<elList, friends, nodeId, nextNodeId, entry, alive, phase, batch,
                  removed, queue, pc, pos, node, left, peer>>
  BY <1>2, <1>4 DEF graph, call
<1>8. /\ seen'[t] = seen[t] \cup V
      /\ \A u \in Threads \ {t} : seen'[u] = seen[u]
  BY <1>5 DEF TypeOK
<1>9. Phased' /\ Membership' /\ InMemory' /\ Identified'
  BY <1>7 DEF IInv, Phased, Membership, InMemory, Identified, Inserting, Patching
<1>10. Positioned'
  BY <1>7, OwnsStays DEF IInv, Positioned, Inserting
<1>11. node[t] \notin friends[c]
  BY <1>1, <1>3 DEF IInv, Unknown
<1>12. Searching'
  BY <1>1, <1>3, <1>6, <1>7, <1>8, <1>11 DEF IInv, Searching, Inserting
<1>13. Unknown'
  <2>1. ASSUME NEW u \in Threads, pc[u] = "search"
        PROVE  node[u] \notin seen'[t]
    BY <1>1, <1>3, <1>6, <1>8, <2>1 DEF IInv, Unknown, Inserting
  <2> QED BY <1>1, <1>7, <1>8, <2>1 DEF IInv, Unknown, Inserting
<1>14. Mutual'
  BY <1>7 DEF IInv, Mutual, HalfLinked
<1>15. Queued' /\ Forgetting' /\ Replacing'
  BY <1>1, <1>7 DEF Queued, Forgetting, Replacing
<1> QED BY <1>9, <1>10, <1>12, <1>13, <1>14, <1>15 DEF IInv

LEMMA StopSearchStep ==
    ASSUME TypeOK, IInv, NEW t \in Threads, StopSearch(t)
    PROVE  IInv'
<1>1. /\ phase = "adding" /\ pc[t] = "search" /\ Inserting(t)
      /\ UNCHANGED <<elList, friends, nodeId, nextNodeId, entry, alive, phase, batch,
                     removed, queue, pos, node, seen, peer>>
  BY DEF StopSearch, Inserting, graph, call
<1>2. /\ pc'[t] = "link" /\ left'[t] \subseteq seen[t]
      /\ \A u \in Threads \ {t} : pc'[u] = pc[u] /\ left'[u] = left[u]
  BY DEF StopSearch, Nearest, TypeOK
<1>3. \A u \in Threads : Inserting(u)' = Inserting(u) /\ ~ Patching(u)'
  BY <1>1, <1>2 DEF Inserting, Patching
<1>4. Phased' /\ Membership' /\ InMemory' /\ Identified'
  BY <1>1, <1>2, <1>3 DEF IInv, Phased, Membership, InMemory, Identified
<1>5. Positioned'
  BY <1>1, <1>3, OwnsStays DEF IInv, Positioned
<1>6. Searching'
  BY <1>1, <1>2, <1>3 DEF IInv, Searching
<1>7. Unknown'
  BY <1>1, <1>2, <1>3 DEF IInv, Unknown
<1>8. Mutual'
  BY <1>1, <1>2 DEF IInv, Mutual, HalfLinked
<1>9. Queued' /\ Forgetting' /\ Replacing'
  BY <1>1 DEF Queued, Forgetting, Replacing
<1> QED BY <1>4, <1>5, <1>6, <1>7, <1>8, <1>9 DEF IInv

\* What every step inside add finds: threads insert different nodes.
LEMMA Working ==
    ASSUME TypeOK, IInv, NEW t \in Threads, Inserting(t)
    PROVE  /\ phase = "adding" /\ removed = {} /\ queue = {}
           /\ node[t] \in alive \ elList /\ node[t] \in Node
           /\ \A u \in Threads \ {t} : Inserting(u) => node[u] # node[t]
<1>1. phase = "adding" /\ removed = {} /\ queue = {}
  BY DEF IInv, Phased, Inserting
<1>2. node[t] \in alive \ elList /\ node[t] \in Node
  BY <1>1 DEF IInv, Positioned, TypeOK
<1>3. ASSUME NEW u \in Threads \ {t}, Inserting(u), node[u] = node[t]
      PROVE  FALSE
  <2>1. /\ pos[t] \in Nat /\ pos[t] + 1 \in DOMAIN batch /\ Owns(t, pos[t])
        /\ pos[u] \in Nat /\ pos[u] + 1 \in DOMAIN batch /\ Owns(u, pos[u])
        /\ batch[pos[t] + 1] = batch[pos[u] + 1]
    BY <1>1, <1>3, Batches DEF IInv, Phased, Positioned, TypeOK
  <2>2. pos[t] + 1 = pos[u] + 1
    BY <1>1, <2>1, Batches DEF IInv, Phased
  <2>3. Owns(u, pos[t])
    BY <2>1, <2>2
  <2> QED BY <2>1, <2>3, OwnsOne
<1> QED BY <1>1, <1>2, <1>3

LEMMA LinkThereStep ==
    ASSUME TypeOK, IInv, NEW t \in Threads, LinkThere(t)
    PROVE  IInv'
<1>1. /\ phase = "adding" /\ pc[t] = "link" /\ Inserting(t)
      /\ UNCHANGED <<elList, nodeId, nextNodeId, entry, alive, phase, batch,
                     removed, queue, pos, node, seen, left>>
  BY DEF LinkThere, Inserting, call
<1>2. PICK x \in left[t] :
          /\ friends' = [friends EXCEPT ![x] = @ \cup {node[t]}]
          /\ peer' = [peer EXCEPT ![t] = x]
  BY DEF LinkThere, Farthest
<1>3. /\ node[t] \in alive
      /\ \A u \in Threads \ {t} : Inserting(u) => node[u] # node[t]
  BY <1>1, Working
<1>4. x \in alive /\ x # node[t] /\ x \in Node
  BY <1>1 DEF IInv, Searching, TypeOK
<1>5. /\ friends'[x] = friends[x] \cup {node[t]}
      /\ \A y \in Node \ {x} : friends'[y] = friends[y]
      /\ pc'[t] = "linkback" /\ peer'[t] = x
      /\ \A u \in Threads \ {t} : pc'[u] = pc[u] /\ peer'[u] = peer[u]
  BY <1>2, <1>4 DEF LinkThere, TypeOK
<1>6. \A u \in Threads : Inserting(u)' = Inserting(u) /\ ~ Patching(u)'
  BY <1>1, <1>5 DEF Inserting, Patching
<1>7. alive \subseteq Node
  BY DEF TypeOK
<1>8. Phased' /\ Membership' /\ Identified'
  BY <1>1, <1>5, <1>6 DEF IInv, Phased, Membership, Identified
<1>9. InMemory'
  BY <1>1, <1>3, <1>4, <1>5, <1>7 DEF IInv, InMemory
<1>10. Positioned'
  BY <1>1, <1>6, OwnsStays DEF IInv, Positioned
<1>11. Searching'
  <2>1. \A y \in Node : friends[y] \subseteq friends'[y]
    BY <1>5
  <2>2. \A u \in Threads : pc[u] = "linkback" /\ Inserting(u) => peer[u] \in Node
    BY <1>7 DEF IInv, Searching
  <2> QED BY <1>1, <1>3, <1>4, <1>5, <1>6, <2>1, <2>2 DEF IInv, Searching
<1>12. Unknown'
  <2>1. ASSUME NEW u \in Threads, pc[u] = "search"
        PROVE  /\ u # t /\ node[u] # node[t] /\ node[u] # x
               /\ \A y \in alive : node[u] \notin friends[y]
    BY <1>1, <1>3, <2>1 DEF IInv, Unknown, Inserting
  <2>2. ASSUME NEW u \in Threads, pc[u] = "search", NEW y \in alive
        PROVE  node[u] \notin friends'[y]
    BY <1>5, <1>7, <2>1, <2>2
  <2> QED BY <1>1, <1>5, <1>6, <2>1, <2>2 DEF IInv, Unknown
<1>13. Mutual'
  <2>1. ASSUME NEW y \in alive \ removed, NEW z \in friends'[y]
        PROVE  y \in friends'[z] \/ \E u \in Threads : HalfLinked(u, y, z)'
    <3>1. CASE y = x /\ z = node[t]
      BY <1>1, <1>5, <3>1 DEF HalfLinked
    <3>2. CASE z \in friends[y]
      <4>1. z \in Node
        BY <1>7, <3>2 DEF IInv, InMemory
      <4>2. CASE y \in friends[z]
        BY <1>5, <4>1, <4>2
      <4>3. ASSUME NEW u \in Threads, HalfLinked(u, y, z)
            PROVE  HalfLinked(u, y, z)'
        BY <1>1, <1>5, <4>3 DEF HalfLinked
      <4> QED BY <3>2, <4>2, <4>3 DEF IInv, Mutual
    <3> QED BY <1>5, <1>7, <3>1, <3>2
  <2> QED BY <1>1, <2>1 DEF Mutual
<1>14. Queued' /\ Forgetting' /\ Replacing'
  BY <1>1 DEF Queued, Forgetting, Replacing
<1> QED BY <1>8, <1>9, <1>10, <1>11, <1>12, <1>13, <1>14 DEF IInv

LEMMA LinkBackStep ==
    ASSUME TypeOK, IInv, NEW t \in Threads, LinkBack(t)
    PROVE  IInv'
<1>1. /\ phase = "adding" /\ pc[t] = "linkback" /\ Inserting(t)
      /\ UNCHANGED <<elList, nodeId, nextNodeId, entry, alive, phase, batch,
                     removed, queue, pos, node, seen, peer>>
  BY DEF LinkBack, Inserting, call
<1>2. /\ node[t] \in alive /\ node[t] \in Node
      /\ \A u \in Threads \ {t} : Inserting(u) => node[u] # node[t]
  BY <1>1, Working
<1>3. peer[t] \in alive \ {node[t]} /\ node[t] \in friends[peer[t]]
  BY <1>1 DEF IInv, Searching
<1>4. /\ friends'[node[t]] = friends[node[t]] \cup {peer[t]}
      /\ \A y \in Node \ {node[t]} : friends'[y] = friends[y]
      /\ pc'[t] = "link" /\ left'[t] \subseteq left[t]
      /\ \A u \in Threads \ {t} : pc'[u] = pc[u] /\ left'[u] = left[u]
  BY <1>2 DEF LinkBack, TypeOK
<1>5. \A u \in Threads : Inserting(u)' = Inserting(u) /\ ~ Patching(u)'
  BY <1>1, <1>4 DEF Inserting, Patching
<1>6. alive \subseteq Node
  BY DEF TypeOK
<1>7. Phased' /\ Membership' /\ Identified'
  BY <1>1, <1>4, <1>5 DEF IInv, Phased, Membership, Identified
<1>8. InMemory'
  BY <1>1, <1>2, <1>3, <1>4, <1>6 DEF IInv, InMemory
<1>9. Positioned'
  BY <1>1, <1>5, OwnsStays DEF IInv, Positioned
<1>10. \A y \in Node : friends[y] \subseteq friends'[y]
  BY <1>4
<1>11. Searching'
  BY <1>1, <1>4, <1>5, <1>6, <1>10 DEF IInv, Searching
<1>12. Unknown'
  <2>1. ASSUME NEW u \in Threads, pc[u] = "search"
        PROVE  /\ u # t /\ node[u] # peer[t]
               /\ \A y \in alive : node[u] \notin friends[y]
    BY <1>1, <2>1 DEF IInv, Unknown, Inserting
  <2>2. ASSUME NEW u \in Threads, pc[u] = "search", NEW y \in alive
        PROVE  node[u] \notin friends'[y]
    BY <1>4, <1>6, <2>1, <2>2
  <2> QED BY <1>1, <1>4, <1>5, <2>1, <2>2 DEF IInv, Unknown
<1>13. Mutual'
  <2>1. ASSUME NEW y \in alive \ removed, NEW z \in friends'[y]
        PROVE  y \in friends'[z] \/ \E u \in Threads : HalfLinked(u, y, z)'
    <3>1. CASE y = node[t] /\ z = peer[t]
      BY <1>3, <1>6, <1>10, <3>1
    <3>2. CASE z \in friends[y]
      <4>1. z \in Node
        BY <1>6, <3>2 DEF IInv, InMemory
      <4>2. CASE y \in friends[z]
        BY <1>10, <4>1, <4>2
      <4>3. ASSUME NEW u \in Threads, HalfLinked(u, y, z)
            PROVE  y \in friends'[z] \/ HalfLinked(u, y, z)'
        <5>1. CASE u = t
          BY <1>1, <1>4, <4>3, <5>1 DEF HalfLinked
        <5>2. CASE u # t
          BY <1>1, <1>4, <4>3, <5>2 DEF HalfLinked
        <5> QED BY <5>1, <5>2
      <4> QED BY <3>2, <4>2, <4>3 DEF IInv, Mutual
    <3> QED BY <1>4, <1>6, <3>1, <3>2
  <2> QED BY <1>1, <2>1 DEF Mutual
<1>14. Queued' /\ Forgetting' /\ Replacing'
  BY <1>1 DEF Queued, Forgetting, Replacing
<1> QED BY <1>7, <1>8, <1>9, <1>11, <1>12, <1>13, <1>14 DEF IInv

\* An object with an id of its own.
LEMMA PublishStep ==
    ASSUME TypeOK, IInv, intact', NEW t \in Threads, Publish(t)
    PROVE  IInv'
<1>1. /\ phase = "adding" /\ pc[t] = "link" /\ Inserting(t)
      /\ elList' = elList \cup {node[t]}
      /\ entry' = IF entry = Null THEN node[t] ELSE entry
      /\ UNCHANGED <<friends, nodeId, nextNodeId, alive, phase, batch,
                     removed, queue, node, seen, left, peer>>
  BY DEF Publish, Published, Intact, Inserting, local
<1>2. /\ node[t] \in alive /\ node[t] \in Node /\ removed = {}
      /\ \A u \in Threads \ {t} : Inserting(u) => node[u] # node[t]
  BY <1>1, Working
<1>3. /\ pc'[t] = "next" /\ pos'[t] = pos[t] + Stride
      /\ \A u \in Threads \ {t} : pc'[u] = pc[u] /\ pos'[u] = pos[u]
  BY DEF Publish, TypeOK
<1>4. /\ ~ Inserting(t)'
      /\ \A u \in Threads \ {t} : Inserting(u)' = Inserting(u)
      /\ \A u \in Threads : ~ Patching(u)'
  BY <1>1, <1>3 DEF Inserting, Patching
<1>5. Phased'
  BY <1>1, <1>3, <1>4 DEF IInv, Phased
<1>6. Membership'
  BY <1>1, <1>2, <1>4 DEF IInv, Membership
<1>7. InMemory' /\ Identified'
  BY <1>1, <1>2 DEF IInv, InMemory, Identified, Membership
<1>8. Positioned'
  <2>1. /\ pos[t] \in Nat /\ Stride \in Nat \ {0} /\ Len(batch) \in Nat
        /\ \A u \in Threads : pos[u] \in Nat
    BY <1>1, Batches, Striding DEF IInv, Phased, TypeOK
  <2>2. Owns(t, pos[t] + Stride)
    BY <1>1, <2>1, OwnsNext DEF IInv, Positioned
  <2>3. ASSUME NEW u \in Threads \ {t}
        PROVE  /\ Inserting(u) =>
                    /\ pos[u] < Len(batch)
                    /\ Owns(u, pos[u])
                    /\ node[u] = batch[pos[u] + 1]
                    /\ node[u] \in alive \ elList'
               /\ ~ Inserting(u) /\ pos[u] < Len(batch) => Owns(u, pos[u])
    BY <1>1, <1>2 DEF IInv, Positioned
  <2>4. ASSUME NEW u \in Threads, NEW p \in 0 .. Len(batch) - 1, Owns(u, p),
               p > pos'[u] \/ (p = pos'[u] /\ ~ Inserting(u)')
        PROVE  batch[p + 1] \notin alive
    <3>1. CASE u = t
      <4>1. p > pos[t]
        BY <1>3, <2>1, <2>4, <3>1
      <4> QED BY <1>1, <2>4, <3>1, <4>1 DEF IInv, Positioned
    <3>2. CASE u # t
      BY <1>1, <1>3, <1>4, <2>4, <3>2 DEF IInv, Positioned
    <3> QED BY <3>1, <3>2
  <2> QED BY <1>1, <1>3, <1>4, <2>2, <2>3, <2>4, OwnsStays DEF Positioned
<1>9. Searching'
  BY <1>1, <1>3, <1>4 DEF IInv, Searching
<1>10. Unknown'
  BY <1>1, <1>3, <1>4 DEF IInv, Unknown
<1>11. Mutual'
  BY <1>1, <1>3 DEF IInv, Mutual, HalfLinked
<1>12. Queued' /\ Forgetting' /\ Replacing'
  BY <1>1 DEF Queued, Forgetting, Replacing
<1> QED BY <1>5, <1>6, <1>7, <1>8, <1>9, <1>10, <1>11, <1>12 DEF IInv

LEMMA EndOfBatchStep ==
    ASSUME TypeOK, IInv, NEW t \in Threads, EndOfBatch(t)
    PROVE  IInv'
<1>1. /\ phase = "adding" /\ pc[t] = "next" /\ ~ Inserting(t)
      /\ UNCHANGED <<elList, friends, nodeId, nextNodeId, entry, alive, phase, batch,
                     removed, queue, pos, node, seen, left, peer>>
      /\ pc'[t] = "done"
      /\ \A u \in Threads \ {t} : pc'[u] = pc[u]
  BY DEF EndOfBatch, Inserting, graph, call, local, TypeOK
<1>2. \A u \in Threads : Inserting(u)' = Inserting(u) /\ ~ Patching(u)'
  BY <1>1 DEF Inserting, Patching
<1>3. Phased' /\ Membership' /\ InMemory' /\ Identified'
  BY <1>1, <1>2 DEF IInv, Phased, Membership, InMemory, Identified
<1>4. Positioned'
  BY <1>1, <1>2, OwnsStays DEF IInv, Positioned
<1>5. Searching' /\ Unknown'
  BY <1>1, <1>2 DEF IInv, Searching, Unknown
<1>6. Mutual'
  BY <1>1 DEF IInv, Mutual, HalfLinked
<1>7. Queued' /\ Forgetting' /\ Replacing'
  BY <1>1 DEF Queued, Forgetting, Replacing
<1> QED BY <1>3, <1>4, <1>5, <1>6, <1>7 DEF IInv

\* When all threads have left, the nodes that were made are indexed.
LEMMA FinishAddStep ==
    ASSUME TypeOK, IInv, FinishAdd
    PROVE  IInv'
<1>1. /\ phase = "adding" /\ phase' = "idle" /\ removed' = {} /\ queue' = {} /\ removed = {}
      /\ UNCHANGED <<elList, friends, entry, alive, pc>>
      /\ \A t \in Threads : pc[t] = "done" /\ ~ Inserting(t) /\ ~ Inserting(t)' /\ ~ Patching(t)'
  BY DEF FinishAdd, Return, AllDone, Inserting, Patching, IInv, Phased
<1>2. alive = elList
  BY <1>1 DEF IInv, Membership
<1>3. FutureNextNodeId \in Nat
  BY <1>1, Batches DEF FutureNextNodeId, IInv, Phased, TypeOK
<1>4. /\ \A x, y \in elList : nodeId'[x] = nodeId'[y] => x = y
      /\ \A x \in elList : nodeId'[x] < nextNodeId'
  <2>1. /\ \A x, y \in elList : nodeId[x] = nodeId[y] => x = y
        /\ \A x \in elList : nodeId[x] < FutureNextNodeId
    BY <1>1, <1>2, KnownIds DEF IInv, Identified
  <2> QED BY <1>3, <2>1, Compaction DEF FinishAdd, TypeOK
<1>5. Phased' /\ Membership' /\ InMemory' /\ Identified'
  BY <1>1, <1>2, <1>4 DEF IInv, Phased, Membership, InMemory, Identified
<1>6. Positioned' /\ Searching' /\ Unknown'
  BY <1>1 DEF Positioned, Searching, Unknown
<1>7. Mutual'
  BY <1>1 DEF IInv, Mutual, HalfLinked
<1>8. Queued' /\ Forgetting' /\ Replacing'
  BY <1>1 DEF Queued, Forgetting, Replacing
<1> QED BY <1>5, <1>6, <1>7, <1>8 DEF IInv

\* As ids are unique, the bitset of ids tells the removed nodes.
LEMMA DeletedById ==
    ASSUME Identified, NEW S \in SUBSET alive, NEW n \in alive
    PROVE  IsDeleted(n, S) <=> n \in S
<1>1. IsDeleted(n, S) <=> \E m \in S : nodeId[n] = nodeId[m]
  BY DEF IsDeleted, IdsOf
<1> QED BY <1>1 DEF Identified

\* Who knows a node that is removed is known by it, and so is queued.
LEMMA DeleteBatchStep ==
    ASSUME TypeOK, IInv, intact',
           NEW b \in DeleteBatches, NEW s \in Strategies, DeleteBatch(b, s)
    PROVE  IInv'
<1> DEFINE D == Found(Members(b))
           F == UNION {friends[d] : d \in D}
<1>1. /\ alive = elList /\ removed = {} /\ queue = {}
      /\ \A t \in Threads : pc[t] = "done"
      /\ \A x \in alive : nodeId[x] < nextNodeId
      /\ \A x \in alive : \A y \in friends[x] : x \in friends[y]
  BY AtRest DEF DeleteBatch
<1>2. D \subseteq elList
  BY DEF Found
<1>3. F \subseteq alive
  BY <1>1, <1>2 DEF IInv, InMemory
<1>4. ~ \E n \in D \cup F : nodeId[n] >= nextNodeId
  <2>1. ASSUME NEW n \in D \cup F PROVE ~ (nodeId[n] >= nextNodeId)
    <3>1. n \in alive /\ nodeId[n] \in Nat /\ nextNodeId \in Nat
      BY <1>1, <1>2, <1>3 DEF TypeOK
    <3> QED BY <1>1, <3>1
  <2> QED BY <2>1
<1>5. /\ elList' = elList \ D /\ phase' = "deleting" /\ removed' = D
      /\ queue' = {n \in F : ~ IsDeleted(n, D)}
      /\ pc' = [t \in Threads |-> "take"]
      /\ UNCHANGED <<friends, nodeId, nextNodeId, entry, alive>>
  <2> HIDE DEF D, F
  <2>1. /\ elList' = elList \ D
        /\ Intact(s # "unsupported")
        /\ IF s = "unsupported"
           THEN UNCHANGED <<phase, removed, strategy, queue, pc>>
           ELSE /\ phase' = "deleting"
                /\ removed' = D
                /\ strategy' = s
                /\ queue' = {n \in F : ~ IsDeleted(n, D)}
                /\ pc' = [t \in Threads |-> "take"]
        /\ UNCHANGED <<friends, nodeId, nextNodeId, entry, alive, batch, pos, local>>
    BY <1>4 DEF DeleteBatch, D, F
  <2>2. s # "unsupported"
    BY <2>1 DEF Intact
  <2> QED BY <2>1, <2>2
<1>6. \A n \in alive : IsDeleted(n, D) <=> n \in D
  BY <1>1, <1>2, DeletedById DEF IInv
<1>7. \A t \in Threads : pc'[t] = "take" /\ ~ Inserting(t)' /\ ~ Patching(t)'
  BY <1>5 DEF Inserting, Patching
<1>8. queue' \subseteq alive \ D
  BY <1>3, <1>5, <1>6
<1> HIDE DEF D
<1>9. Phased' /\ Membership' /\ InMemory' /\ Identified'
  BY <1>1, <1>2, <1>5, <1>7 DEF IInv, Phased, Membership, InMemory, Identified
<1>10. Positioned' /\ Searching' /\ Unknown'
  BY <1>5, <1>7 DEF Positioned, Searching, Unknown
<1>11. Mutual'
  BY <1>1, <1>5 DEF Mutual
<1>12. Queued' /\ Replacing'
  BY <1>5, <1>7, <1>8 DEF Queued, Replacing
<1>13. Forgetting'
  <2>1. ASSUME NEW x \in alive \ D, NEW y \in friends[x] \cap D
        PROVE  x \in queue'
    <3>1. x \in friends[y]
      BY <1>1, <2>1
    <3>2. x \in F /\ ~ IsDeleted(x, D)
      BY <1>6, <2>1, <3>1
    <3> QED BY <1>5, <3>2
  <2> QED BY <1>5, <2>1 DEF Forgetting
<1> QED BY <1>9, <1>10, <1>11, <1>12, <1>13 DEF IInv

\* What every step of a patching thread finds.
LEMMA Deleting ==
    ASSUME TypeOK, IInv, phase = "deleting"
    PROVE  /\ \A t \in Threads : ~ Inserting(t)
           /\ alive = elList \cup removed
           /\ \A x \in alive : nodeId[x] < nextNodeId
           /\ \A t \in Threads : Patching(t) =>
                /\ node[t] \in alive \ removed /\ node[t] \in Node
                /\ \A u \in Threads \ {t} : Patching(u) => node[u] # node[t]
<1>1. \A t \in Threads : ~ Inserting(t)
  BY DEF Inserting
<1> QED BY <1>1 DEF IInv, Membership, Identified, Queued, TypeOK

\* The parts of the invariant that patching does not touch.
LEMMA PatchingFrame ==
    ASSUME TypeOK, IInv, phase = "deleting",
           UNCHANGED <<elList, nodeId, nextNodeId, entry, alive, phase, removed>>,
           \A t \in Threads : pc'[t] = "take" \/ Patching(t)' \/ pc'[t] = "done"
    PROVE  Phased' /\ Membership' /\ Identified' /\ Positioned' /\ Searching' /\ Unknown'
<1>1. \A t \in Threads : ~ Inserting(t) /\ ~ Inserting(t)'
  BY DEF Inserting
<1> QED
  BY <1>1 DEF IInv, Phased, Membership, Identified, Positioned, Searching, Unknown

LEMMA TakeStep ==
    ASSUME TypeOK, IInv, NEW t \in Threads, Take(t)
    PROVE  IInv'
<1>1. /\ phase = "deleting" /\ pc[t] = "take"
      /\ UNCHANGED <<elList, friends, nodeId, nextNodeId, entry, alive, phase, removed, left, peer>>
  BY DEF Take, graph
<1>2. PICK n \in queue :
          /\ queue' = queue \ {n}
          /\ node' = [node EXCEPT ![t] = n]
          /\ seen' = [seen EXCEPT ![t] = friends[n]]
  BY DEF Take
<1>3. /\ pc'[t] = "filter" /\ node'[t] = n /\ seen'[t] = friends[n]
      /\ \A u \in Threads \ {t} : pc'[u] = pc[u] /\ node'[u] = node[u] /\ seen'[u] = seen[u]
  BY <1>2 DEF Take, TypeOK
<1>4. /\ Patching(t)' /\ ~ Patching(t)
      /\ \A u \in Threads \ {t} : Patching(u)' = Patching(u)
  BY <1>1, <1>3 DEF Patching
<1>5. Phased' /\ Membership' /\ Identified' /\ Positioned' /\ Searching' /\ Unknown'
  <2>1. \A u \in Threads : pc'[u] = "take" \/ Patching(u)' \/ pc'[u] = "done"
    BY <1>1, <1>3, <1>4 DEF IInv, Phased
  <2> QED BY <1>1, <2>1, PatchingFrame
<1>6. InMemory'
  BY <1>1 DEF IInv, InMemory
<1>7. Mutual'
  BY <1>1, <1>3 DEF IInv, Mutual, HalfLinked
<1>8. Queued'
  BY <1>1, <1>2, <1>3, <1>4 DEF IInv, Queued
<1>9. Forgetting'
  BY <1>1, <1>2, <1>3 DEF IInv, Forgetting
<1>10. Replacing'
  BY <1>1, <1>3 DEF IInv, Replacing
<1> QED BY <1>5, <1>6, <1>7, <1>8, <1>9, <1>10 DEF IInv

\* Nobody changed the list the thread filters, so that it forgets exactly the
\* removed nodes.
LEMMA FilterStep ==
    ASSUME TypeOK, IInv, intact', NEW t \in Threads, Filter(t)
    PROVE  IInv'
<1> DEFINE n == node[t]
           gone == {f \in seen[t] : IsDeleted(f, removed)}
<1>1. /\ phase = "deleting" /\ pc[t] = "filter" /\ Patching(t)
      /\ seen[t] = friends[n]
  BY DEF Filter, Patching, Intact
<1>2. n \in alive \ removed /\ n \in Node
      /\ \A u \in Threads \ {t} : Patching(u) => node[u] # n
  BY <1>1, Deleting
<1>3. friends[n] \subseteq alive /\ removed \subseteq alive
  BY <1>2 DEF IInv, InMemory, Membership
<1>4. \A f \in friends[n] : IsDeleted(f, removed) <=> f \in removed
  BY <1>3, DeletedById DEF IInv
<1>5. gone = friends[n] \cap removed
  BY <1>1, <1>4
<1>6. ~ \E f \in seen[t] : nodeId[f] >= nextNodeId
  <2>1. ASSUME NEW f \in seen[t] PROVE ~ (nodeId[f] >= nextNodeId)
    <3>1. f \in alive /\ nodeId[f] \in Nat /\ nextNodeId \in Nat
      BY <1>1, <1>3 DEF TypeOK
    <3> QED BY <1>1, <3>1, Deleting
  <2> QED BY <2>1
<1>7. /\ UNCHANGED <<elList, nodeId, nextNodeId, entry, alive, phase, removed, queue, node, seen, peer>>
      /\ friends' = [friends EXCEPT ![n] = friends[n] \ removed]
      /\ left'[t] \subseteq gone
      /\ pc'[t] = "patch"
      /\ \A u \in Threads \ {t} : pc'[u] = pc[u] /\ left'[u] = left[u]
  <2>1. /\ friends' = [friends EXCEPT ![n] = seen[t] \ gone]
        /\ left' = [left EXCEPT ![t] = IF strategy = "kNone" THEN {} ELSE gone]
        /\ pc' = [pc EXCEPT ![t] = "patch"]
        /\ UNCHANGED <<elList, nodeId, nextNodeId, entry, alive, phase, removed, queue,
                       node, seen, peer>>
    BY <1>1, <1>6 DEF Filter
  <2>2. seen[t] \ gone = friends[n] \ removed
    BY <1>1, <1>5
  <2> HIDE DEF gone
  <2> QED BY <2>1, <2>2 DEF TypeOK
<1> HIDE DEF gone, n
<1>8. /\ friends'[n] = friends[n] \ removed
      /\ \A x \in Node \ {n} : friends'[x] = friends[x]
      /\ left'[t] \subseteq friends[n] \cap removed
  BY <1>2, <1>5, <1>7 DEF TypeOK
<1>9. \A u \in Threads : Patching(u)' = Patching(u)
  BY <1>1, <1>7 DEF Patching
<1>10. alive \subseteq Node /\ removed \subseteq Node
  BY DEF TypeOK
<1>11. Phased' /\ Membership' /\ Identified' /\ Positioned' /\ Searching' /\ Unknown'
  <2>1. \A u \in Threads : pc'[u] = "take" \/ Patching(u)' \/ pc'[u] = "done"
    BY <1>1, <1>7, <1>9 DEF IInv, Phased
  <2> QED BY <1>1, <1>7, <2>1, PatchingFrame
<1>12. InMemory'
  <2>1. \A x \in alive : friends'[x] \subseteq friends[x]
    BY <1>8, <1>10
  <2> QED BY <1>1, <1>7, <2>1 DEF IInv, InMemory
<1>13. Mutual'
  <2>1. ASSUME NEW x \in alive \ removed, NEW y \in friends'[x]
        PROVE  x \in friends'[y] \/ \E u \in Threads : HalfLinked(u, x, y)'
    <3>1. y \in friends[x] /\ y \in Node
      BY <1>8, <1>10, <2>1 DEF IInv, InMemory
    <3>2. CASE x \in friends[y]
      BY <1>8, <2>1, <3>1, <3>2
    <3>3. ASSUME NEW u \in Threads, HalfLinked(u, x, y)
          PROVE  HalfLinked(u, x, y)'
      BY <1>1, <1>7, <3>3 DEF HalfLinked
    <3> QED BY <2>1, <3>1, <3>2, <3>3 DEF IInv, Mutual
  <2> QED BY <1>7, <2>1 DEF Mutual
<1>14. Queued'
  BY <1>1, <1>7, <1>9 DEF IInv, Queued
<1>15. Forgetting'
  <2>1. ASSUME NEW x \in alive \ removed, NEW y \in friends'[x] \cap removed
        PROVE  x \in queue \/ \E u \in Threads : pc'[u] = "filter" /\ node[u] = x
    <3>1. x # n /\ y \in friends[x]
      BY <1>8, <1>10, <2>1
    <3> QED BY <1>1, <1>7, <2>1, <3>1 DEF IInv, Forgetting, n
  <2> QED BY <1>7, <2>1 DEF Forgetting
<1>16. Replacing'
  <2>1. ASSUME NEW u \in Threads \ {t}, Patching(u)
        PROVE  friends'[node[u]] = friends[node[u]]
    BY <1>1, <1>2, <1>8, <2>1, Deleting
  <2>2. ASSUME NEW u \in Threads \ {t}
        PROVE  /\ pc[u] = "filter" => seen[u] \subseteq friends'[node[u]]
               /\ pc[u] \in {"patch", "patchback"} => left[u] \subseteq removed
               /\ pc[u] = "patchback" =>
                    peer[u] \in alive \ removed /\ peer[u] \in friends'[node[u]]
    <3>1. pc[u] \in {"filter", "patch", "patchback"} => Patching(u)
      BY <1>1 DEF Patching
    <3> QED BY <1>1, <2>1, <3>1 DEF IInv, Replacing
  <2> QED BY <1>1, <1>7, <1>8, <2>2 DEF Replacing
<1> QED BY <1>11, <1>12, <1>13, <1>14, <1>15, <1>16 DEF IInv

\* The steps of patching that only add links between nodes that remain.
LEMMA PatchingGrows ==
    ASSUME TypeOK, IInv, NEW t \in Threads, phase = "deleting", Patching(t), Patching(t)',
           UNCHANGED <<elList, nodeId, nextNodeId, entry, alive, phase, removed, queue, node, seen>>,
           \A u \in Threads \ {t} : pc'[u] = pc[u] /\ left'[u] = left[u] /\ peer'[u] = peer[u],
           pc[t] # "filter", pc'[t] # "filter", left'[t] \subseteq left[t],
           NEW x \in alive \ removed, NEW y \in alive \ removed,
           friends' = [friends EXCEPT ![x] = @ \cup {y}],
           x \in friends'[y] \/ HalfLinked(t, x, y)',
           \A z, w : HalfLinked(t, z, w) => (w \in friends'[z] /\ z \in friends'[w]),
           pc'[t] = "patchback" => peer'[t] \in alive \ removed /\ peer'[t] \in friends'[node[t]]
    PROVE  IInv'
<1>1. alive \subseteq Node /\ removed \subseteq Node
  BY DEF TypeOK
<1>2. /\ friends'[x] = friends[x] \cup {y}
      /\ \A z \in Node \ {x} : friends'[z] = friends[z]
  BY <1>1 DEF TypeOK
<1>3. \A u \in Threads : Patching(u)' = Patching(u)
  BY DEF Patching
<1>4. Phased' /\ Membership' /\ Identified' /\ Positioned' /\ Searching' /\ Unknown'
  <2>1. \A u \in Threads : pc'[u] = "take" \/ Patching(u)' \/ pc'[u] = "done"
    BY <1>3 DEF IInv, Phased
  <2> QED BY <2>1, PatchingFrame
<1>5. InMemory'
  BY <1>1, <1>2 DEF IInv, InMemory
<1>6. Mutual'
  <2>1. ASSUME NEW z \in alive \ removed, NEW w \in friends'[z]
        PROVE  z \in friends'[w] \/ \E u \in Threads : HalfLinked(u, z, w)'
    <3>1. CASE z = x /\ w = y
      BY <3>1
    <3>2. CASE w \in friends[z]
      <4>1. w \in Node
        BY <1>1, <2>1, <3>2 DEF IInv, InMemory
      <4>2. CASE z \in friends[w]
        BY <1>2, <4>1, <4>2
      <4>3. ASSUME NEW u \in Threads, HalfLinked(u, z, w)
            PROVE  z \in friends'[w] \/ HalfLinked(u, z, w)'
        BY <4>3 DEF HalfLinked
      <4> QED BY <2>1, <3>2, <4>2, <4>3 DEF IInv, Mutual
    <3> QED BY <1>1, <1>2, <2>1, <3>1, <3>2
  <2> QED BY <2>1 DEF Mutual
<1>7. Queued'
  BY <1>3 DEF IInv, Queued, Patching
<1>8. Forgetting'
  <2>1. \A z \in alive \ removed : friends'[z] \cap removed = friends[z] \cap removed
    BY <1>1, <1>2
  <2>2. \A u \in Threads : pc[u] = "filter" => pc'[u] = "filter"
    OBVIOUS
  <2> QED BY <2>1, <2>2 DEF IInv, Forgetting
<1>9. Replacing'
  <2>1. \A z \in Node : friends[z] \subseteq friends'[z]
    BY <1>2
  <2>2. \A u \in Threads : pc[u] \in {"filter", "patch", "patchback"} => node[u] \in Node
    BY Deleting DEF Patching
  <2>3. /\ left[t] \subseteq removed /\ left'[t] \subseteq removed
    BY DEF IInv, Replacing, Patching
  <2>4. ASSUME NEW u \in Threads \ {t}
        PROVE  /\ pc[u] = "filter" => seen[u] \subseteq friends'[node[u]]
               /\ pc[u] \in {"patch", "patchback"} => left[u] \subseteq removed
               /\ pc[u] = "patchback" =>
                    peer[u] \in alive \ removed /\ peer[u] \in friends'[node[u]]
    BY <2>1, <2>2 DEF IInv, Replacing
  <2> QED BY <2>3, <2>4 DEF Replacing
<1> QED BY <1>4, <1>5, <1>6, <1>7, <1>8, <1>9 DEF IInv

\* A friend of a removed node that remains takes its place.
LEMMA PatchThereStep ==
    ASSUME TypeOK, IInv, NEW t \in Threads, PatchThere(t)
    PROVE  IInv'
<1> DEFINE n == node[t]
<1>1. /\ phase = "deleting" /\ pc[t] = "patch" /\ Patching(t)
      /\ UNCHANGED <<elList, nodeId, nextNodeId, entry, alive, phase, removed, queue, node, seen>>
  BY DEF PatchThere, Patching, call
<1>2. n \in alive \ removed /\ n \in Node
  BY <1>1, Deleting
<1>3. PICK d \in left[t] :
          /\ left' = [left EXCEPT ![t] = @ \ {d}]
          /\ IF Replacements(t, d) = {}
             THEN UNCHANGED <<friends, peer, pc>>
             ELSE \E x \in Replacements(t, d) :
                  /\ friends' = [friends EXCEPT ![node[t]] = @ \cup {x}]
                  /\ peer' = [peer EXCEPT ![t] = x]
                  /\ pc' = [pc EXCEPT ![t] = "patchback"]
  BY DEF PatchThere
<1>4. d \in removed /\ d \in alive /\ removed \subseteq alive
  BY <1>1 DEF IInv, Replacing, Membership
<1>5. left'[t] \subseteq left[t] /\ \A u \in Threads \ {t} : left'[u] = left[u]
  BY <1>3 DEF TypeOK
<1>6. CASE Replacements(t, d) = {}
  <2>1. UNCHANGED <<friends, peer, pc>>
    BY <1>3, <1>6
  <2>2. \A u \in Threads : Patching(u)' = Patching(u)
    BY <1>1, <2>1 DEF Patching
  <2>3. Phased' /\ Membership' /\ Identified' /\ Positioned' /\ Searching' /\ Unknown'
    <3>1. \A u \in Threads : pc'[u] = "take" \/ Patching(u)' \/ pc'[u] = "done"
      BY <1>1, <2>1, <2>2 DEF IInv, Phased
    <3> QED BY <1>1, <3>1, PatchingFrame
  <2>4. InMemory' /\ Mutual' /\ Forgetting'
    BY <1>1, <2>1 DEF IInv, InMemory, Mutual, HalfLinked, Forgetting
  <2>5. Queued'
    BY <1>1, <2>1, <2>2 DEF IInv, Queued
  <2>6. Replacing'
    BY <1>1, <1>5, <2>1 DEF IInv, Replacing
  <2> QED BY <2>3, <2>4, <2>5, <2>6 DEF IInv
<1>7. CASE Replacements(t, d) # {}
  <2>1. PICK x \in Replacements(t, d) :
            /\ friends' = [friends EXCEPT ![n] = @ \cup {x}]
            /\ peer' = [peer EXCEPT ![t] = x]
            /\ pc' = [pc EXCEPT ![t] = "patchback"]
    BY <1>3, <1>7
  <2>2. x \in friends[d] /\ ~ IsDeleted(x, removed)
    BY DEF Replacements, Closest
  <2>3. x \in alive
    BY <1>4, <2>2 DEF IInv, InMemory
  <2>4. x \in alive \ removed
    BY <1>4, <2>2, <2>3, DeletedById DEF IInv
  <2>5. /\ pc'[t] = "patchback" /\ peer'[t] = x
        /\ \A u \in Threads \ {t} : pc'[u] = pc[u] /\ peer'[u] = peer[u]
    BY <2>1 DEF TypeOK
  <2>6. x \in friends'[n]
    BY <1>2, <2>1 DEF TypeOK
  <2>7. Patching(t)' /\ HalfLinked(t, n, x)' /\ \A z, w : ~ HalfLinked(t, z, w)
    BY <1>1, <2>5 DEF Patching, HalfLinked
  <2> QED BY <1>1, <1>2, <1>5, <2>1, <2>4, <2>5, <2>6, <2>7, PatchingGrows
<1> QED BY <1>6, <1>7

\* The replacement learns of the node.
LEMMA PatchBackStep ==
    ASSUME TypeOK, IInv, NEW t \in Threads, PatchBack(t)
    PROVE  IInv'
<1>1. /\ phase = "deleting" /\ pc[t] = "patchback" /\ Patching(t)
      /\ UNCHANGED <<elList, nodeId, nextNodeId, entry, alive, phase, removed, queue, node, seen, left, peer>>
      /\ friends' = [friends EXCEPT ![peer[t]] = @ \cup {node[t]}]
      /\ pc'[t] = "patch"
      /\ \A u \in Threads \ {t} : pc'[u] = pc[u]
  BY DEF PatchBack, Patching, call, local, TypeOK
<1>2. /\ node[t] \in alive \ removed
      /\ peer[t] \in alive \ removed /\ peer[t] \in friends[node[t]]
  BY <1>1, Deleting DEF IInv, Replacing
<1>3. /\ friends'[peer[t]] = friends[peer[t]] \cup {node[t]}
      /\ friends[node[t]] \subseteq friends'[node[t]]
  BY <1>1, <1>2 DEF TypeOK
<1>4. \A z, w : HalfLinked(t, z, w) => (w \in friends'[z] /\ z \in friends'[w])
  BY <1>1, <1>2, <1>3 DEF HalfLinked
<1>5. Patching(t)' /\ peer[t] \in friends'[node[t]]
  BY <1>1, <1>2, <1>3 DEF Patching
<1>6. /\ pc[t] # "filter" /\ pc'[t] # "filter" /\ pc'[t] # "patchback"
      /\ left'[t] \subseteq left[t]
      /\ \A u \in Threads \ {t} : pc'[u] = pc[u] /\ left'[u] = left[u] /\ peer'[u] = peer[u]
  BY <1>1
<1> QED BY <1>1, <1>2, <1>4, <1>5, <1>6, PatchingGrows

LEMMA LeaveStep ==
    ASSUME TypeOK, IInv, NEW t \in Threads, Patched(t) \/ EndOfQueue(t)
    PROVE  IInv'
<1>1. /\ phase = "deleting"
      /\ UNCHANGED <<elList, friends, nodeId, nextNodeId, entry, alive, phase, removed,
                     queue, node, seen, left, peer>>
      /\ \/ pc[t] = "patch" /\ pc'[t] = "take"
         \/ pc[t] = "take" /\ pc'[t] = "done" /\ queue = {}
      /\ \A u \in Threads \ {t} : pc'[u] = pc[u]
  BY DEF Patched, EndOfQueue, graph, call, local, TypeOK
<1>2. \A u \in Threads : Patching(u)' => Patching(u)
  BY <1>1 DEF Patching
<1>3. Phased' /\ Membership' /\ Identified' /\ Positioned' /\ Searching' /\ Unknown'
  <2>1. \A u \in Threads : pc'[u] = "take" \/ Patching(u)' \/ pc'[u] = "done"
    BY <1>1 DEF IInv, Phased, Patching
  <2> QED BY <1>1, <2>1, PatchingFrame
<1>4. InMemory'
  BY <1>1 DEF IInv, InMemory
<1>5. Mutual'
  BY <1>1 DEF IInv, Mutual, HalfLinked
<1>6. Queued'
  BY <1>1, <1>2 DEF IInv, Queued
<1>7. Forgetting' /\ Replacing'
  BY <1>1 DEF IInv, Forgetting, Replacing
<1> QED BY <1>3, <1>4, <1>5, <1>6, <1>7 DEF IInv

\* When all threads have left the queue is empty, so that nobody knows the
\* nodes that are deleted now.
LEMMA FinishDeleteStep ==
    ASSUME TypeOK, IInv, FinishDelete
    PROVE  IInv'
<1>1. /\ phase = "deleting" /\ phase' = "idle" /\ removed' = {} /\ queue' = {}
      /\ alive' = alive \ removed
      /\ friends' = [n \in Node |-> IF n \in removed THEN {} ELSE friends[n]]
      /\ IF elList = {} THEN entry' = Null ELSE entry' \in elList
      /\ UNCHANGED <<elList, pc>>
      /\ \A t \in Threads : pc[t] = "done" /\ ~ Inserting(t)' /\ ~ Patching(t)'
  BY DEF FinishDelete, Return, AllDone, Inserting, Patching
<1>2. alive = elList \cup removed /\ elList \cap removed = {}
  BY <1>1, Deleting DEF IInv, Membership
<1>3. alive' = elList /\ alive \subseteq Node
  BY <1>1, <1>2 DEF TypeOK
<1>4. queue = {}
  <2>1. 0 \in Threads
    BY Striding
  <2> QED BY <1>1, <2>1 DEF IInv, Queued
<1>5. \A x \in elList : friends'[x] = friends[x] /\ friends[x] \subseteq elList
  <2>1. ASSUME NEW x \in elList PROVE friends[x] \cap removed = {}
    BY <1>1, <1>2, <1>4 DEF IInv, Forgetting
  <2>2. ASSUME NEW x \in elList PROVE friends'[x] = friends[x] /\ friends[x] \subseteq alive
    BY <1>1, <1>2, <1>3 DEF IInv, InMemory
  <2> QED BY <1>2, <2>1, <2>2
<1>6. /\ \A x, y \in elList : nodeId'[x] = nodeId'[y] => x = y
      /\ \A x \in elList : nodeId'[x] < nextNodeId'
  <2>1. /\ \A x, y \in elList : nodeId[x] = nodeId[y] => x = y
        /\ \A x \in elList : nodeId[x] < nextNodeId
    BY <1>1, <1>2, Deleting DEF IInv, Identified
  <2> QED BY <2>1, Compaction DEF FinishDelete, TypeOK
<1>7. Phased' /\ Membership' /\ InMemory' /\ Identified'
  BY <1>1, <1>3, <1>5, <1>6 DEF Phased, Membership, InMemory, Identified
<1>8. Positioned' /\ Searching' /\ Unknown'
  BY <1>1 DEF Positioned, Searching, Unknown
<1>9. Mutual'
  <2>1. ASSUME NEW x \in elList, NEW y \in friends[x] PROVE x \in friends[y]
    BY <1>1, <1>2, <2>1 DEF IInv, Mutual, HalfLinked
  <2> QED BY <1>1, <1>3, <1>5, <2>1 DEF Mutual
<1>10. Queued' /\ Forgetting' /\ Replacing'
  BY <1>1 DEF Queued, Forgetting, Replacing
<1> QED BY <1>7, <1>8, <1>9, <1>10 DEF IInv

LEMMA StutteringStep ==
    ASSUME IInv, UNCHANGED vars
    PROVE  IInv'
<1>1. UNCHANGED <<elList, friends, nodeId, nextNodeId, entry, alive, phase, batch,
                  removed, queue, pc, pos, node, seen, left, peer>>
  BY DEF vars, graph, call, local
<1>2. Phased' /\ Membership' /\ InMemory' /\ Identified'
  BY <1>1 DEF IInv, Phased, Membership, InMemory, Identified, Inserting, Patching
<1>3. Positioned'
  BY <1>1, OwnsStays DEF IInv, Positioned, Inserting
<1>4. Searching' /\ Unknown'
  BY <1>1 DEF IInv, Searching, Unknown, Inserting
<1>5. Mutual'
  BY <1>1 DEF IInv, Mutual, HalfLinked
<1>6. Queued' /\ Forgetting' /\ Replacing'
  BY <1>1 DEF IInv, Queued, Forgetting, Replacing, Patching
<1> QED BY <1>2, <1>3, <1>4, <1>5, <1>6 DEF IInv

\* A call that fails at the first object changes nothing.
LEMMA DeleteBatchFailsStep ==
    ASSUME IInv, intact', NEW b \in DeleteBatches, DeleteBatchFails(b)
    PROVE  IInv'
<1>1. UNCHANGED <<elList, friends, nodeId, nextNodeId, entry, alive, phase, batch,
                  removed, queue, pc, pos, node, seen, left, peer>>
  BY DEF DeleteBatchFails, Intact, local
<1>2. Phased' /\ Membership' /\ InMemory' /\ Identified'
  BY <1>1 DEF IInv, Phased, Membership, InMemory, Identified, Inserting, Patching
<1>3. Positioned'
  BY <1>1, OwnsStays DEF IInv, Positioned, Inserting
<1>4. Searching' /\ Unknown'
  BY <1>1 DEF IInv, Searching, Unknown, Inserting
<1>5. Mutual'
  BY <1>1 DEF IInv, Mutual, HalfLinked
<1>6. Queued' /\ Forgetting' /\ Replacing'
  BY <1>1 DEF IInv, Queued, Forgetting, Replacing, Patching
<1> QED BY <1>2, <1>3, <1>4, <1>5, <1>6 DEF IInv

\* What is intact was so before.
LEMMA IntactBefore ==
    ASSUME [Next]_vars, intact'
    PROVE  intact
<1> USE DEF call, Intact, Fail
<1>1. CASE Call
  BY <1>1 DEF Call, AddBatch, DeleteBatchFails, DeleteBatch
<1>2. CASE Finish
  BY <1>2 DEF Finish, FinishAdd, FinishDelete, Return
<1>3. ASSUME NEW t \in Threads, Worker(t) PROVE intact
  BY <1>3 DEF Worker, StartAdd, Expand, StopSearch, LinkThere, LinkBack, Publish, EndOfBatch,
     Take, Filter, PatchThere, PatchBack, Patched, EndOfQueue
<1>4. CASE UNCHANGED vars
  BY <1>4 DEF vars
<1> QED BY <1>1, <1>2, <1>3, <1>4 DEF Next, Rest

\* The invariant is inductive.
LEMMA Inductive ==
    ASSUME TypeOK, IInv, intact', [Next]_vars
    PROVE  IInv'
BY StutteringStep, AddBatchStep, StartAddStep, ExpandStep, StopSearchStep,
   LinkThereStep, LinkBackStep, PublishStep, EndOfBatchStep, FinishAddStep,
   DeleteBatchFailsStep, DeleteBatchStep, TakeStep, FilterStep, PatchThereStep,
   PatchBackStep, LeaveStep, FinishDeleteStep
DEF Next, Call, Finish, Worker, Rest

LEMMA InitIInv == Init => IInv
<1> SUFFICES ASSUME Init PROVE IInv
  OBVIOUS
<1>1. Phased /\ Membership /\ InMemory /\ Identified
  BY DEF Init, Phased, Membership, InMemory, Identified
<1>2. Positioned /\ Searching /\ Unknown /\ Mutual
  BY DEF Init, Positioned, Searching, Unknown, Mutual, Inserting
<1>3. Queued /\ Forgetting /\ Replacing
  BY DEF Init, Queued, Forgetting, Replacing
<1> QED BY <1>1, <1>2, <1>3 DEF IInv

\* The invariant holds of every index that is intact.
THEOREM Invariance == Spec => [](TypeOK /\ (intact => IInv))
<1>1. Init => TypeOK /\ Busy /\ (intact => IInv)
  <2>1. Init => TypeOK /\ Busy
    BY ParameterAssumption DEF Init, TypeOK, Busy, Phases, Labels
  <2> QED BY <2>1, InitIInv
<1>2. TypeOK /\ Busy /\ (intact => IInv) /\ [Next]_vars
      => (TypeOK /\ Busy /\ (intact => IInv))'
  BY TypeStep, BusyStep, IntactBefore, Inductive
<1> QED BY <1>1, <1>2, PTL DEF Spec

\* Links are reciprocal, up to the links being made (MSWNode::link): the way
\* DeleteBatch finds the nodes to patch misses nobody.
THEOREM LinksAreReciprocal == Spec => []Reciprocal
<1>1. (intact => IInv) => Reciprocal
  BY DEF IInv, Mutual, Reciprocal
<1> QED BY <1>1, Invariance, PTL

\* Nothing points to a node that was deleted.
THEOREM NothingDangles == Spec => []NoDangling
<1>1. (intact => IInv) => NoDangling
  BY DEF IInv, Membership, InMemory, NoDangling
<1> QED BY <1>1, Invariance, PTL

\* Between two calls, links join indexed nodes only.
THEOREM LinksJoinIndexedNodes == Spec => []OnlyIndexed
<1>1. TypeOK /\ (intact => IInv) => OnlyIndexed
  BY AtRest DEF IInv, InMemory, OnlyIndexed
<1> QED BY <1>1, Invariance, PTL

\* Node ids are unique and in range between two calls, as CheckIDs demands.
THEOREM IdsStayValid == Spec => []IdsAreValid
<1>1. TypeOK /\ (intact => IInv) => IdsAreValid
  BY AtRest DEF IInv, Identified, IdsAreValid
<1> QED BY <1>1, Invariance, PTL

\* No CHECK on ids, on the entry point or on a list of friends fails in an
\* index that is intact.
THEOREM NoCheckFails == Spec => []NoBug
<1>1. (intact => IInv) => NoBug
  BY DEF IInv, Phased, NoBug
<1> QED BY <1>1, Invariance, PTL
-----------------------------------------------------------------------------
(* An insertion only adds links: no node becomes its own friend, and what   *)
(* the entry point leads to remains reached, with the nodes that are new.   *)

\* A search starts at the entry point; the node it is made for is reached as
\* soon as one neighbor knows it.
GrowingOf(t) ==
    Inserting(t) =>
        /\ seen[t] # {}
        /\ \A x \in seen[t] : Reached(x)
        /\ pc[t] # "search" => \A x \in left[t] : Reached(x)
        /\ pc[t] = "linkback" => Reached(peer[t])
        /\ pc[t] = "link" /\ left[t] = {} => Reached(node[t])

Growing ==
    /\ \A x \in Node \ alive : friends[x] = {}
    /\ \A t \in Threads : GrowingOf(t)

\* What a step of an insertion may do to the graph.
Harmless ==
    /\ \A x \in Node : x \in friends'[x] => x \in friends[x]
    /\ Unreached' \subseteq Unreached

\* What is reached remains reached when lists grow.
LEMMA ReachedStays ==
    ASSUME entry' = entry, \A x \in Node : friends[x] \subseteq friends'[x],
           NEW y, Reached(y)
    PROVE  Reached(y)'
<1>1. ASSUME NEW S \in SUBSET Node, entry \in S, Closed(S)' PROVE y \in S
  <2>1. Closed(S)
    BY <1>1 DEF Closed
  <2> QED BY <1>1, <2>1 DEF Reached, Reaches
<1> QED BY <1>1 DEF Reached, Reaches

LEMMA FriendIsReached ==
    ASSUME NEW x, Reached(x), NEW y \in friends[x]
    PROVE  Reached(y)
BY DEF Reached, Reaches, Closed

LEMMA EntryIsReached == entry # Null => Reached(entry)
BY DEF Reached, Reaches

\* The steps that only add to lists, and leave entry and nodes in memory.
LEMMA ThreadGrows ==
    ASSUME TypeOK, Growing, NEW u \in Threads, entry' = entry,
           \A x \in Node : friends[x] \subseteq friends'[x],
           Inserting(u)' => /\ Inserting(u) /\ pc'[u] = pc[u] /\ node'[u] = node[u]
                            /\ seen'[u] = seen[u] /\ left'[u] = left[u] /\ peer'[u] = peer[u]
    PROVE  GrowingOf(u)'
<1> SUFFICES ASSUME Inserting(u)' PROVE GrowingOf(u)'
  BY DEF GrowingOf
<1>1. GrowingOf(u) /\ Inserting(u)
  BY DEF Growing
<1> QED BY <1>1, ReachedStays DEF GrowingOf

\* Reached nodes stay so, and a node that is indexed is reached.
LEMMA UnreachedStays ==
    ASSUME entry' = entry, \A x \in Node : friends[x] \subseteq friends'[x],
           \A y \in elList' : y \in elList \/ Reached(y)
    PROVE  Unreached' \subseteq Unreached
<1>1. ASSUME NEW y \in Unreached' PROVE y \in Unreached
  <2>1. y \in elList' /\ ~ Reached(y)'
    BY DEF Unreached
  <2>2. ~ Reached(y)
    BY <2>1, ReachedStays
  <2> QED BY <2>1, <2>2 DEF Unreached
<1> QED BY <1>1

LEMMA AddBatchGrows ==
    ASSUME TypeOK, IInv, Growing, NEW b \in AddBatches, AddBatch(b)
    PROVE  Growing' /\ Harmless
<1>1. /\ phase' = "adding" /\ \A t \in Threads : pc'[t] = "next"
      /\ b[1] \in Node /\ b[1] \notin alive /\ phase = "idle"
  BY Batches DEF AddBatch, TypeOK
<1>2. \A t \in Threads : ~ Inserting(t)'
  BY <1>1 DEF Inserting
<1>3. CASE elList = {}
  <2>1. /\ elList' = {b[1]} /\ entry' = b[1] /\ alive' = alive \cup {b[1]}
        /\ friends' = [friends EXCEPT ![b[1]] = {}]
    BY <1>1, <1>3 DEF AddBatch, Published, IsListed, ObjectIds, IInv, InMemory
  <2>2. \A x \in Node : friends'[x] = friends[x]
    BY <1>1, <2>1 DEF Growing, TypeOK
  <2>3. \A x \in Node \ alive' : friends'[x] = {}
    BY <2>1, <2>2 DEF Growing
  <2>4. entry' # Null
    BY <1>1, <2>1, NodeAssumption
  <2>5. Reached(b[1])'
    BY <2>1, <2>4 DEF Reached, Reaches
  <2>6. Unreached' = {}
    BY <2>1, <2>5 DEF Unreached
  <2> QED BY <1>2, <2>2, <2>3, <2>6 DEF Growing, GrowingOf, Harmless
<1>4. CASE elList # {}
  <2>1. UNCHANGED <<elList, entry, alive, friends>>
    BY <1>4 DEF AddBatch
  <2>2. Unreached' \subseteq Unreached
    BY <2>1, UnreachedStays
  <2> QED BY <1>2, <2>1, <2>2 DEF Growing, GrowingOf, Harmless
<1> QED BY <1>3, <1>4

LEMMA StartAddGrows ==
    ASSUME TypeOK, IInv, IInv', Growing, NEW t \in Threads, StartAdd(t)
    PROVE  Growing' /\ Harmless
<1> DEFINE n == batch[pos[t] + 1]
<1>1. phase' # "failed"
  BY DEF IInv, Phased
<1>2. /\ phase = "adding" /\ pc[t] = "next"
      /\ UNCHANGED <<elList, entry, phase, left, peer>> /\ elList # {} /\ entry # Null
      /\ alive' = alive \cup {n} /\ friends' = [friends EXCEPT ![n] = {}]
      /\ node' = [node EXCEPT ![t] = n] /\ seen' = [seen EXCEPT ![t] = {entry}]
      /\ pc' = [pc EXCEPT ![t] = "search"]
  BY <1>1 DEF StartAdd, Fail, call
<1>3. n \in Node /\ n \notin alive
  <2>1. /\ pos[t] \in 0 .. Len(batch) - 1 /\ pos[t] + 1 \in DOMAIN batch /\ batch \in AddBatches
        /\ Owns(t, pos[t]) /\ ~ Inserting(t)
    <3>1. /\ pos[t] < Len(batch) /\ pos[t] \in Nat /\ batch \in AddBatches
          /\ Owns(t, pos[t])
      BY <1>2 DEF StartAdd, IInv, Phased, Positioned, TypeOK
    <3>2. Len(batch) \in Nat /\ DOMAIN batch = 1 .. Len(batch)
      BY <3>1, Batches
    <3>3. ~ Inserting(t)
      BY <1>2 DEF Inserting
    <3> QED BY <3>1, <3>2, <3>3
  <2> QED BY <1>2, <2>1, Batches DEF IInv, Positioned
<1>4. \A x \in Node : friends'[x] = friends[x]
  BY <1>2, <1>3 DEF Growing, TypeOK
<1>5. \A x \in Node \ alive' : friends'[x] = {}
  BY <1>2, <1>4 DEF Growing
<1>6. Harmless
  BY <1>2, <1>4, UnreachedStays DEF Harmless
<1>7. GrowingOf(t)'
  <2>1. pc'[t] = "search" /\ seen'[t] = {entry}
    BY <1>2 DEF TypeOK
  <2>2. Reached(entry)'
    BY <1>2, <1>4, EntryIsReached, ReachedStays
  <2>3. \A x \in seen'[t] : x = entry'
    BY <1>2, <2>1
  <2> QED BY <2>1, <2>2, <2>3 DEF GrowingOf
<1>8. ASSUME NEW u \in Threads \ {t} PROVE GrowingOf(u)'
  <2>1. /\ pc'[u] = pc[u] /\ node'[u] = node[u] /\ seen'[u] = seen[u]
        /\ left'[u] = left[u] /\ peer'[u] = peer[u]
    BY <1>2, <1>8 DEF TypeOK
  <2> QED BY <1>2, <1>4, <2>1, ThreadGrows DEF Inserting
<1> QED BY <1>2, <1>5, <1>6, <1>7, <1>8 DEF Growing

\* Inside add, lists grow by links between different nodes.
LEMMA AddingGrows ==
    ASSUME TypeOK, Growing, NEW t \in Threads,
           UNCHANGED <<entry, alive, phase>>,
           \A y \in elList' : y \in elList \/ Reached(y),
           \A x \in Node : friends[x] \subseteq friends'[x],
           \A x \in Node : x \in friends'[x] => x \in friends[x],
           \A x \in Node \ alive : friends'[x] = {},
           \A u \in Threads \ {t} :
               /\ pc'[u] = pc[u] /\ node'[u] = node[u] /\ seen'[u] = seen[u]
               /\ left'[u] = left[u] /\ peer'[u] = peer[u],
           GrowingOf(t)'
    PROVE  Growing' /\ Harmless
<1>1. \A u \in Threads \ {t} : GrowingOf(u)'
  BY ThreadGrows DEF Inserting
<1> QED BY <1>1, UnreachedStays DEF Growing, Harmless

LEMMA WalkGrows ==
    ASSUME TypeOK, IInv, IInv', Growing, NEW t \in Threads, Expand(t) \/ StopSearch(t)
    PROVE  Growing' /\ Harmless
<1>1. phase = "adding" /\ pc[t] = "search" /\ Inserting(t)
  BY DEF Expand, StopSearch, Inserting
<1>2. UNCHANGED <<elList, entry, alive, phase, friends, node, peer>>
  <2>1. phase' # "failed"
    BY DEF IInv, Phased
  <2> QED BY <2>1 DEF Expand, StopSearch, Fail, graph, call
<1>3. GrowingOf(t)
  BY DEF Growing
<1>4. \A y : Reached(y) => Reached(y)'
  BY <1>2, ReachedStays
<1>5. CASE Expand(t)
  <2>1. pc' = pc /\ left' = left
    BY <1>1, <1>2, <1>5 DEF Expand, Fail
  <2>2. PICK c \in Closest(Candidates(t), node[t]) :
            \E V \in NewlyVisited(friends[c], seen[t]) : seen' = [seen EXCEPT ![t] = @ \cup V]
    BY <1>1, <1>2, <1>5 DEF Expand, Fail
  <2>3. c \in seen[t] /\ \A V \in NewlyVisited(friends[c], seen[t]) : V \subseteq friends[c]
    BY DEF Closest, Candidates, NewlyVisited
  <2>4. /\ \A x \in seen'[t] : x \in seen[t] \/ x \in friends[c]
        /\ seen'[t] # {}
        /\ \A u \in Threads \ {t} : seen'[u] = seen[u]
    BY <2>2, <2>3 DEF TypeOK
  <2>5. \A x \in seen'[t] : Reached(x)'
    BY <1>1, <1>3, <1>4, <2>3, <2>4, FriendIsReached DEF GrowingOf
  <2>6. GrowingOf(t)'
    BY <1>1, <2>1, <2>4, <2>5 DEF GrowingOf
  <2> QED BY <1>1, <1>2, <2>1, <2>4, <2>6, AddingGrows DEF Growing
<1>6. CASE StopSearch(t)
  <2>1. /\ seen' = seen /\ pc'[t] = "link" /\ left'[t] \in Nearest(seen[t], node[t])
        /\ \A u \in Threads \ {t} : pc'[u] = pc[u] /\ left'[u] = left[u]
    BY <1>6 DEF StopSearch, TypeOK
  <2>2. left'[t] \subseteq seen[t] /\ left'[t] # {}
    <3>1. seen[t] \in SUBSET Node /\ seen[t] # {}
      BY <1>1, <1>3 DEF GrowingOf, TypeOK
    <3>2. IsFiniteSet(seen[t]) /\ Cardinality(seen[t]) # 0
      BY <3>1, NodeAssumption, FS_Subset, FS_EmptySet
    <3>3. Cardinality(left'[t]) # 0
      BY <2>1, <3>2, ParameterAssumption DEF Nearest
    <3>4. left'[t] # {}
      BY <3>3, FS_EmptySet
    <3> QED BY <2>1, <3>4 DEF Nearest
  <2>3. \A x \in seen[t] : Reached(x)'
    BY <1>1, <1>3, <1>4 DEF GrowingOf
  <2>4. GrowingOf(t)'
    BY <1>1, <1>3, <2>1, <2>2, <2>3 DEF GrowingOf
  <2> QED BY <1>1, <1>2, <2>1, <2>4, AddingGrows DEF Growing
<1> QED BY <1>5, <1>6

LEMMA LinkThereGrows ==
    ASSUME TypeOK, IInv, Growing, NEW t \in Threads, LinkThere(t)
    PROVE  Growing' /\ Harmless
<1>1. /\ phase = "adding" /\ pc[t] = "link" /\ Inserting(t)
      /\ UNCHANGED <<elList, entry, alive, phase, node, seen, left>>
  BY DEF LinkThere, Inserting, call
<1>2. PICK x \in left[t] :
          /\ friends' = [friends EXCEPT ![x] = @ \cup {node[t]}]
          /\ peer' = [peer EXCEPT ![t] = x]
  BY DEF LinkThere, Farthest
<1>3. x \in alive /\ x # node[t] /\ x \in Node
  BY <1>1 DEF IInv, Searching, TypeOK
<1>4. /\ friends'[x] = friends[x] \cup {node[t]}
      /\ \A y \in Node \ {x} : friends'[y] = friends[y]
      /\ pc'[t] = "linkback" /\ peer'[t] = x
      /\ \A u \in Threads \ {t} : pc'[u] = pc[u] /\ peer'[u] = peer[u]
  BY <1>2, <1>3 DEF LinkThere, TypeOK
<1>5. \A y \in Node : friends[y] \subseteq friends'[y] /\ (y \in friends'[y] => y \in friends[y])
  BY <1>3, <1>4
<1>6. \A y \in Node \ alive : friends'[y] = {}
  BY <1>3, <1>4 DEF Growing
<1>7. GrowingOf(t)'
  <2>1. GrowingOf(t) /\ \A y : Reached(y) => Reached(y)'
    BY <1>1, <1>5, ReachedStays DEF Growing
  <2> QED BY <1>1, <1>4, <2>1 DEF GrowingOf
<1> QED BY <1>1, <1>4, <1>5, <1>6, <1>7, AddingGrows

LEMMA LinkBackGrows ==
    ASSUME TypeOK, IInv, Growing, NEW t \in Threads, LinkBack(t)
    PROVE  Growing' /\ Harmless
<1>1. /\ phase = "adding" /\ pc[t] = "linkback" /\ Inserting(t)
      /\ UNCHANGED <<elList, entry, alive, phase, node, seen, peer>>
  BY DEF LinkBack, Inserting, call
<1>2. /\ peer[t] \in alive /\ peer[t] # node[t] /\ node[t] \in friends[peer[t]]
      /\ node[t] \in alive /\ node[t] \in Node
  BY <1>1, Working DEF IInv, Searching
<1>3. /\ friends'[node[t]] = friends[node[t]] \cup {peer[t]}
      /\ \A y \in Node \ {node[t]} : friends'[y] = friends[y]
      /\ pc'[t] = "link" /\ left'[t] \subseteq left[t]
      /\ \A u \in Threads \ {t} : pc'[u] = pc[u] /\ left'[u] = left[u]
  BY <1>2 DEF LinkBack, TypeOK
<1>4. \A y \in Node : friends[y] \subseteq friends'[y] /\ (y \in friends'[y] => y \in friends[y])
  BY <1>2, <1>3
<1>5. \A y \in Node \ alive : friends'[y] = {}
  BY <1>2, <1>3 DEF Growing
<1>6. GrowingOf(t)'
  <2>1. GrowingOf(t) /\ \A y : Reached(y) => Reached(y)'
    BY <1>1, <1>4, ReachedStays DEF Growing
  <2>2. Reached(node[t])
    BY <1>1, <1>2, <2>1, FriendIsReached DEF GrowingOf
  <2> QED BY <1>1, <1>3, <2>1, <2>2 DEF GrowingOf
<1> QED BY <1>1, <1>3, <1>4, <1>5, <1>6, AddingGrows

LEMMA PublishGrows ==
    ASSUME TypeOK, IInv, Growing, NEW t \in Threads, Publish(t)
    PROVE  Growing' /\ Harmless
<1>1. /\ phase = "adding" /\ pc[t] = "link" /\ left[t] = {} /\ Inserting(t)
      /\ UNCHANGED <<friends, alive, phase, node, seen, left, peer>>
      /\ elList' \subseteq elList \cup {node[t]}
  BY DEF Publish, Published, Inserting, local
<1>2. entry' = entry
  <2>1. entry # Null
    BY <1>1, NodeAssumption DEF IInv, Membership, InMemory, TypeOK
  <2> QED BY <2>1 DEF Publish, Published
<1>3. Reached(node[t])
  BY <1>1 DEF Growing, GrowingOf
<1>4. pc'[t] = "next" /\ \A u \in Threads \ {t} : pc'[u] = pc[u]
  BY DEF Publish, TypeOK
<1>5. GrowingOf(t)'
  BY <1>4 DEF GrowingOf, Inserting
<1> QED BY <1>1, <1>2, <1>3, <1>4, <1>5, AddingGrows DEF Growing

\* Other steps of an insertion change nothing that is reached.
LEMMA EndGrows ==
    ASSUME TypeOK, Growing, \/ \E t \in Threads : EndOfBatch(t)
                            \/ UNCHANGED vars
    PROVE  Growing' /\ Harmless
<1>1. UNCHANGED <<elList, friends, entry, alive, phase>>
  BY DEF EndOfBatch, graph, call, vars
<1>2. \A u \in Threads :
          Inserting(u)' => /\ Inserting(u) /\ pc'[u] = pc[u] /\ node'[u] = node[u]
                           /\ seen'[u] = seen[u] /\ left'[u] = left[u] /\ peer'[u] = peer[u]
  BY <1>1 DEF EndOfBatch, local, call, vars, Inserting, TypeOK
<1>3. \A u \in Threads : GrowingOf(u)'
  BY <1>1, <1>2, ThreadGrows
<1>4. Unreached' \subseteq Unreached
  BY <1>1, UnreachedStays
<1> QED BY <1>1, <1>3, <1>4 DEF Growing, Harmless

\* Nobody inserts when a batch ends or something is deleted; nodes that are
\* not in memory get no friends.
LEMMA OtherGrows ==
    ASSUME TypeOK, IInv, intact', Growing,
           \/ Finish
           \/ \E b \in DeleteBatches : DeleteBatchFails(b) \/ \E s \in Strategies : DeleteBatch(b, s)
           \/ \E t \in Threads : \/ Take(t) \/ Filter(t) \/ PatchThere(t) \/ PatchBack(t)
                                 \/ Patched(t) \/ EndOfQueue(t)
    PROVE  Growing' /\ phase' # "adding"
<1>1. phase' # "adding"
  BY DEF Finish, FinishAdd, FinishDelete, Return, DeleteBatchFails, DeleteBatch, Fail, call,
         Take, Filter, PatchThere, PatchBack, Patched, EndOfQueue
<1>2. \A t \in Threads : GrowingOf(t)'
  BY <1>1 DEF GrowingOf, Inserting
<1>3. ASSUME Finish PROVE \A x \in Node \ alive' : friends'[x] = {}
  BY <1>3 DEF Finish, FinishAdd, FinishDelete, Growing, TypeOK
<1>4. ASSUME NEW b \in DeleteBatches,
             DeleteBatchFails(b) \/ \E s \in Strategies : DeleteBatch(b, s)
      PROVE  UNCHANGED <<friends, alive>>
  BY <1>4 DEF DeleteBatchFails, DeleteBatch, Fail, graph
<1>5. ASSUME NEW t \in Threads, Take(t) \/ Patched(t) \/ EndOfQueue(t)
      PROVE  UNCHANGED <<friends, alive>>
  BY <1>5 DEF Take, Patched, EndOfQueue, graph
<1>6. ASSUME NEW t \in Threads, Filter(t) \/ PatchThere(t) \/ PatchBack(t)
      PROVE  /\ alive' = alive
             /\ \E x \in alive : \E S : friends' = [friends EXCEPT ![x] = S] \/ friends' = friends
  <2>1. phase = "deleting" /\ Patching(t) /\ alive' = alive
    BY <1>6 DEF Filter, PatchThere, PatchBack, Patching, graph
  <2>2. node[t] \in alive
    BY <2>1, Deleting
  <2>3. PatchBack(t) => peer[t] \in alive
    BY DEF PatchBack, IInv, Replacing
  <2>4. CASE Filter(t)
    BY <2>2, <2>4 DEF Filter, graph
  <2>5. CASE PatchThere(t)
    BY <2>2, <2>5 DEF PatchThere
  <2>6. CASE PatchBack(t)
    BY <2>3, <2>6 DEF PatchBack
  <2> QED BY <1>6, <2>1, <2>4, <2>5, <2>6
<1>7. \A x \in Node \ alive' : friends'[x] = {}
  <2>1. CASE \E t \in Threads : Filter(t) \/ PatchThere(t) \/ PatchBack(t)
    BY <1>6, <2>1 DEF Growing, TypeOK
  <2>2. CASE UNCHANGED <<friends, alive>>
    BY <2>2 DEF Growing
  <2>3. CASE Finish
    BY <1>3, <2>3 DEF Growing
  <2> QED BY <1>4, <1>5, <2>1, <2>2, <2>3
<1> QED BY <1>1, <1>2, <1>7 DEF Growing

\* Every step keeps what searches hold, and steps of insertions are harmless.
LEMMA GrowingStep ==
    ASSUME TypeOK, IInv, Growing, intact', [Next]_vars
    PROVE  /\ Growing'
           /\ phase' = "adding" => Harmless
<1>1. IInv'
  BY Inductive
<1> QED
  BY <1>1, AddBatchGrows, StartAddGrows, WalkGrows, LinkThereGrows, LinkBackGrows,
     PublishGrows, EndGrows, OtherGrows
  DEF Next, Call, Worker, Rest

\* Lists only grow in an insertion, and what a search holds is reached from the
\* entry point.
THEOREM GraphGrows == Spec => [](TypeOK /\ (intact => IInv /\ Growing))
<1>1. Init => TypeOK /\ Busy /\ (intact => IInv /\ Growing)
  <2>1. Init => TypeOK /\ Busy
    BY ParameterAssumption DEF Init, TypeOK, Busy, Phases, Labels
  <2>2. Init => Growing
    BY DEF Init, Growing, GrowingOf, Inserting
  <2> QED BY <2>1, <2>2, InitIInv
<1>2. TypeOK /\ Busy /\ (intact => IInv /\ Growing) /\ [Next]_vars
      => (TypeOK /\ Busy /\ (intact => IInv /\ Growing))'
  BY TypeStep, BusyStep, IntactBefore, Inductive, GrowingStep
<1> QED BY <1>1, <1>2, PTL DEF Spec

\* An insertion links no node to itself: the search of add never meets the
\* node it is made for, which others link meanwhile.
THEOREM NobodyKnowsItself == Spec => NoSelfLink
<1>1. TypeOK /\ (intact => IInv /\ Growing) /\ [Next]_vars
      => [intact' /\ phase' = "adding" =>
              \A x \in Node : x \in friends'[x] => x \in friends[x]]_vars
  BY IntactBefore, GrowingStep DEF Harmless
<1> QED BY <1>1, GraphGrows, PTL DEF Spec, NoSelfLink

\* While threads add nodes, the entry point leads to every node they index, and
\* to what it led to before: add of small_world_rand.cc publishes a node when
\* all its links are made.
THEOREM EverythingIsReached == Spec => StaysConnected
<1>1. TypeOK /\ (intact => IInv /\ Growing) /\ [Next]_vars
      => [intact' /\ phase' = "adding" => Unreached' \subseteq Unreached]_vars
  BY IntactBefore, GrowingStep DEF Harmless
<1> QED BY <1>1, GraphGrows, PTL DEF Spec, StaysConnected

-----------------------------------------------------------------------------
(* The first batch of an empty index.                                      *)

\* Two positions of a thread are a stride apart.
LEMMA OwnsApart ==
    ASSUME NEW t \in Threads, NEW p \in Nat, NEW q \in Nat,
           Owns(t, p), Owns(t, q), p < q + Stride
    PROVE  p <= q
<1>1. PICK k \in 0 .. p : p = t + k * Stride
  BY DEF Owns
<1>2. PICK l \in 0 .. q : q = t + l * Stride
  BY DEF Owns
<1>3. k \in Nat /\ l \in Nat /\ Stride \in Nat \ {0} /\ t \in Nat
  BY Striding
<1>4. k * Stride < (l + 1) * Stride
  BY <1>1, <1>2, <1>3
<1>5. CASE k <= l
  <2>1. (l - k) * Stride >= 0 /\ l * Stride = k * Stride + (l - k) * Stride
    BY <1>3, <1>5
  <2>2. k * Stride \in Nat /\ l * Stride \in Nat /\ (l - k) * Stride \in Int
    BY <1>3
  <2> QED BY <1>1, <1>2, <1>3, <2>1, <2>2
<1>6. CASE k > l
  <2>1. (k - l - 1) * Stride >= 0 /\ k * Stride = (l + 1) * Stride + (k - l - 1) * Stride
    BY <1>3, <1>6
  <2>2. k * Stride \in Nat /\ (l + 1) * Stride \in Nat /\ (k - l - 1) * Stride \in Int
    BY <1>3
  <2> QED BY <1>4, <2>1, <2>2
<1> QED BY <1>3, <1>5, <1>6

\* Every position belongs to a thread.
LEMMA OwnsSome == \A p \in Nat : \E t \in Threads : Owns(t, p)
<1> DEFINE Bad == {p \in Nat : \A t \in Threads : ~ Owns(t, p)}
<1>1. SUFFICES ASSUME Bad # {} PROVE FALSE
  OBVIOUS
<1>2. PICK p \in Bad : \A q \in Bad : p <= q
  <2> DEFINE f == [q \in Nat |-> q]
  <2>1. \A q \in Bad : f[q] \in Nat
    OBVIOUS
  <2>2. \E p \in Bad : \A q \in Bad : f[p] <= f[q]
    <3> HIDE DEF f, Bad
    <3> QED BY <1>1, <2>1, LeastValue
  <2> QED BY <2>2
<1>3. p \in Nat /\ Stride \in Nat \ {0} /\ Threads = 0 .. Stride - 1
  BY <1>2, Striding
<1>4. CASE p < Stride
  <2>1. p \in Threads /\ 0 \in 0 .. p /\ p = p + 0 * Stride
    BY <1>3, <1>4
  <2>2. Owns(p, p)
    BY <2>1 DEF Owns
  <2> QED BY <1>2, <2>1, <2>2
<1>5. CASE p >= Stride
  <2>1. p - Stride \in Nat /\ p - Stride < p /\ (p - Stride) + Stride = p
    BY <1>3, <1>5
  <2>2. p - Stride \notin Bad
    BY <1>2, <1>3, <2>1
  <2>3. PICK t \in Threads : Owns(t, p - Stride)
    BY <2>1, <2>2
  <2>4. Owns(t, p)
    BY <2>1, <2>3, OwnsNext
  <2> QED BY <1>2, <2>4
<1> QED BY <1>3, <1>4, <1>5

\* Threads start at their first position but for that of the first object.
LEMMA OwnsNoneBefore ==
    ASSUME NEW t \in Threads, NEW p \in Nat \ {0}, Owns(t, p)
    PROVE  FirstPos(t) <= p
<1>1. Stride \in Nat \ {0} /\ t \in Nat /\ FirstPos(t) \in Nat
  BY Striding, OwnsFirst
<1>2. CASE SingleThreaded
  BY <1>2 DEF FirstPos
<1>3. CASE ~ SingleThreaded /\ t = 0
  <2>1. FirstPos(t) = Stride
    BY <1>3 DEF FirstPos, Stride
  <2>2. Owns(t, 0)
    BY <1>1, <1>3 DEF Owns
  <2>3. p < 0 + Stride => p <= 0
    BY <2>2, OwnsApart
  <2> QED BY <1>1, <2>1, <2>3
<1>4. CASE ~ SingleThreaded /\ t # 0
  <2>1. FirstPos(t) = t
    BY <1>4 DEF FirstPos
  <2>2. PICK k \in 0 .. p : p = t + k * Stride
    BY DEF Owns
  <2>3. k \in Nat /\ k * Stride \in Nat
    BY <1>1
  <2> QED BY <1>1, <2>1, <2>2, <2>3
<1> QED BY <1>2, <1>3, <1>4

\* What is indexed, or being inserted, is in memory and is not being removed.
Kept ==
    /\ elList \subseteq alive
    /\ elList \cap removed = {}
    /\ phase \in {"idle", "adding"} => removed = {}
    /\ \A t \in Threads : Inserting(t) => node[t] \in alive

\* Thread t has indexed the objects of the positions behind it.
GoneBy(t) ==
    /\ Owns(t, pos[t])
    /\ pc[t] \in {"next", "search", "link", "linkback", "done"}
    /\ pc[t] = "done" => pos[t] >= Len(batch)
    /\ Inserting(t) => node[t] = batch[pos[t] + 1] /\ pos[t] < Len(batch)
    /\ \A p \in Nat \ {0} :
        Owns(t, p) /\ p < pos[t] /\ p < Len(batch) => IsListed(Id[batch[p + 1]])

\* The first object was put into the empty index, or something else was there.
Filling ==
    phase = "adding" =>
        /\ batch \in AddBatches
        /\ elList \subseteq Members(batch) => IsListed(Id[batch[1]])
        /\ \A t \in Threads : GoneBy(t)

\* A batch starts with nothing done, and with none of its objects in memory.
LEMMA FillingStarts ==
    ASSUME TypeOK, Kept, NEW b \in AddBatches, AddBatch(b)
    PROVE  Kept' /\ Filling'
<1>1. /\ phase = "idle" /\ phase' = "adding" /\ batch' = b /\ removed' = removed
      /\ pc' = [t \in Threads |-> "next"]
      /\ pos' = [t \in Threads |-> FirstPos(t)]
      /\ \A i \in DOMAIN b : b[i] \notin alive
  BY DEF AddBatch
<1>2. Len(b) \in Nat \ {0} /\ DOMAIN b = 1 .. Len(b)
  BY Batches
<1>3. \/ elList = {} /\ elList' = {b[1]} /\ alive' = alive \cup {b[1]}
      \/ elList # {} /\ elList' = elList /\ alive' = alive
  BY DEF AddBatch, Published, IsListed, ObjectIds
<1>4. Kept'
  BY <1>1, <1>3 DEF Kept, Inserting
<1>5. elList' \subseteq Members(b) => IsListed(Id[b[1]])'
  BY <1>1, <1>3 DEF Members, Kept, IsListed, ObjectIds
<1>6. ASSUME NEW t \in Threads PROVE GoneBy(t)'
  <2>1. pc'[t] = "next" /\ pos'[t] = FirstPos(t) /\ FirstPos(t) \in Nat
    BY <1>1, OwnsFirst
  <2>2. Owns(t, pos[t])'
    BY <2>1, OwnsFirst, OwnsStays
  <2>3. \A p \in Nat \ {0} : Owns(t, p)' => ~ (p < pos'[t])
    BY <2>1, OwnsNoneBefore, OwnsStays
  <2> QED BY <2>1, <2>2, <2>3 DEF GoneBy, Inserting
<1> QED BY <1>1, <1>4, <1>5, <1>6 DEF Filling, Members

\* Members are those of the batch, and the batch stays.
LEMMA GoneByStays ==
    ASSUME NEW t \in Threads, GoneBy(t), pos'[t] = pos[t], batch' = batch, phase' = phase,
           elList \subseteq elList',
           pc'[t] = pc[t] /\ node'[t] = node[t]
    PROVE  GoneBy(t)'
BY OwnsStays DEF GoneBy, Inserting, IsListed, ObjectIds

LEMMA FillingStep ==
    ASSUME TypeOK, Kept, Filling, [Next]_vars
    PROVE  Kept' /\ Filling'
<1> USE DEF graph, call, local
<1>1. ASSUME NEW b \in AddBatches, AddBatch(b) PROVE Kept' /\ Filling'
  BY <1>1, FillingStarts
<1>2. ASSUME NEW b \in DeleteBatches,
             DeleteBatchFails(b) \/ \E s \in Strategies : DeleteBatch(b, s)
      PROVE Kept' /\ Filling'
  <2>1. CASE DeleteBatchFails(b)
    BY <2>1 DEF DeleteBatchFails, Kept, Filling, Inserting
  <2>2. ASSUME NEW s \in Strategies, DeleteBatch(b, s) PROVE Kept' /\ Filling'
    <3>1. CASE Fail
      BY <3>1 DEF Fail, Kept, Filling, Inserting
    <3>2. CASE ~ Fail
      <4>1. /\ phase = "idle" /\ elList' = elList \ Found(Members(b)) /\ UNCHANGED alive
            /\ \/ UNCHANGED <<phase, removed>>
               \/ phase' = "deleting" /\ removed' = Found(Members(b))
        BY <2>2, <3>2 DEF DeleteBatch
      <4>2. phase' # "adding"
        BY <4>1
      <4> QED BY <4>1, <4>2 DEF Kept, Filling, Inserting
    <3> QED BY <3>1, <3>2
  <2> QED BY <1>2, <2>1, <2>2
<1>3. ASSUME Finish PROVE Kept' /\ Filling'
  <2>1. phase' = "idle" /\ removed' = {} /\ elList' = elList
        /\ \/ UNCHANGED alive
           \/ alive' = alive \ removed
    BY <1>3 DEF Finish, FinishAdd, FinishDelete, Return
  <2> QED BY <2>1 DEF Kept, Filling, Inserting
<1>4. ASSUME Fail PROVE Kept' /\ Filling'
  BY <1>4 DEF Fail, Kept, Filling, Inserting
<1>5. ASSUME UNCHANGED vars PROVE Kept' /\ Filling'
  <2>1. Kept'
    BY <1>5 DEF vars, Kept, Inserting
  <2>2. Filling'
    BY <1>5, GoneByStays DEF vars, Filling, Members, IsListed, ObjectIds
  <2> QED BY <2>1, <2>2
<1>6. ASSUME NEW t \in Threads,
             Take(t) \/ Filter(t) \/ PatchThere(t) \/ PatchBack(t) \/ Patched(t) \/ EndOfQueue(t)
      PROVE Kept' /\ Filling'
  <2>1. /\ phase = "deleting" /\ UNCHANGED <<elList, alive, removed>>
        /\ phase' \in {"deleting", "failed"}
    BY <1>6 DEF Take, Filter, PatchThere, PatchBack, Patched, EndOfQueue
  <2> QED BY <2>1 DEF Kept, Filling, Inserting
<1>7. ASSUME NEW t \in Threads, ~ Fail,
             \/ StartAdd(t) \/ Expand(t) \/ StopSearch(t)
             \/ LinkThere(t) \/ LinkBack(t) \/ Publish(t) \/ EndOfBatch(t)
      PROVE Kept' /\ Filling'
  <2>1. /\ phase = "adding" /\ UNCHANGED <<phase, batch, removed>>
        /\ pc[t] \in {"next", "search", "link", "linkback"}
        /\ pc'[t] \in {"next", "search", "link", "linkback", "done"}
        /\ \A u \in Threads \ {t} : pc'[u] = pc[u] /\ node'[u] = node[u] /\ pos'[u] = pos[u]
    BY <1>7 DEF StartAdd, Expand, StopSearch, LinkThere, LinkBack, Publish, EndOfBatch, TypeOK
  <2>2. /\ batch \in AddBatches /\ Len(batch) \in Nat \ {0} /\ DOMAIN batch = 1 .. Len(batch)
        /\ pos[t] \in Nat /\ GoneBy(t)
    BY <2>1, Batches DEF Filling, TypeOK
  <2>3. /\ alive \subseteq alive'
        /\ \/ elList' = elList
           \/ Publish(t) /\ elList' = elList \cup {node[t]}
        /\ Publish(t) => Id[node[t]] \in ObjectIds(elList')
    BY <1>7 DEF StartAdd, Expand, StopSearch, LinkThere, LinkBack, Publish, EndOfBatch, Published,
             IsListed, ObjectIds
  <2>4. Publish(t) => Inserting(t)
    BY DEF Publish, Inserting
  <2>5. Inserting(t)' => node'[t] \in alive'
    <3>1. CASE StartAdd(t)
      BY <1>7, <3>1 DEF StartAdd, TypeOK
    <3>2. CASE ~ StartAdd(t)
      <4>1. pc'[t] \in {"search", "link", "linkback"} => Inserting(t) /\ node'[t] = node[t]
        BY <1>7, <3>2, <2>1 DEF Expand, StopSearch, LinkThere, LinkBack, Publish, EndOfBatch,
                         Inserting, TypeOK
      <4> QED BY <2>3, <4>1 DEF Kept, Inserting
    <3> QED BY <3>1, <3>2
  <2>6. Kept'
    BY <2>1, <2>3, <2>4, <2>5 DEF Kept, Inserting
  <2>7. ASSUME NEW u \in Threads, u # t PROVE GoneBy(u)'
    BY <2>1, <2>3, <2>7, GoneByStays DEF Filling
  <2>8. GoneBy(t)'
    <3>1. CASE StartAdd(t)
      <4>1. /\ pos[t] < Len(batch) /\ node'[t] = batch[pos[t] + 1] /\ pc'[t] = "search"
            /\ elList' = elList /\ pos' = pos
        BY <1>7, <3>1 DEF StartAdd, TypeOK
      <4> QED BY <2>1, <2>2, <4>1, OwnsStays DEF GoneBy, IsListed, ObjectIds
    <3>2. CASE Publish(t)
      <4>1. /\ pos'[t] = pos[t] + Stride /\ pc'[t] = "next" /\ pc[t] = "link"
            /\ elList \subseteq elList' /\ Id[node[t]] \in ObjectIds(elList') /\ Inserting(t)
        BY <3>2, <2>3, <2>4 DEF Publish, TypeOK
      <4>2. node[t] = batch[pos[t] + 1] /\ Owns(t, pos[t])
        BY <2>2, <4>1 DEF GoneBy
      <4>3. Owns(t, pos[t])'
        BY <2>2, <4>1, <4>2, OwnsNext, OwnsStays
      <4>4. ASSUME NEW p \in Nat \ {0}, Owns(t, p)', p < pos'[t], p < Len(batch)
            PROVE  Id[batch[p + 1]] \in ObjectIds(elList')
        <5>1. Owns(t, p)
          BY <4>4, OwnsStays
        <5>2. p <= pos[t]
          BY <2>2, <4>1, <4>2, <4>4, <5>1, OwnsApart
        <5>3. CASE p = pos[t]
          BY <4>1, <4>2, <5>3
        <5>4. CASE p < pos[t]
          <6>1. IsListed(Id[batch[p + 1]])
            BY <2>2, <4>4, <5>1, <5>4 DEF GoneBy
          <6> QED BY <4>1, <6>1 DEF IsListed, ObjectIds
        <5> QED BY <2>2, <5>2, <5>3, <5>4
      <4> QED BY <2>1, <4>1, <4>3, <4>4 DEF GoneBy, Inserting, IsListed, ObjectIds
    <3>3. CASE EndOfBatch(t)
      <4>1. /\ pos[t] >= Len(batch) /\ pc'[t] = "done" /\ elList' = elList /\ pos' = pos
        BY <3>3 DEF EndOfBatch, TypeOK
      <4> QED BY <2>1, <2>2, <4>1, OwnsStays DEF GoneBy, Inserting, IsListed, ObjectIds
    <3>4. CASE Expand(t) \/ StopSearch(t) \/ LinkThere(t) \/ LinkBack(t)
      <4>1. /\ pos' = pos /\ node' = node /\ elList' = elList
            /\ pc[t] \in {"search", "link", "linkback"}
            /\ pc'[t] \in {"search", "link", "linkback"}
        BY <1>7, <3>4 DEF Expand, StopSearch, LinkThere, LinkBack, TypeOK
      <4> QED BY <2>1, <2>2, <4>1, OwnsStays DEF GoneBy, Inserting, IsListed, ObjectIds
    <3> QED BY <1>7, <3>1, <3>2, <3>3, <3>4
  <2>9. elList' \subseteq Members(batch) => IsListed(Id[batch[1]])'
    BY <2>1, <2>3 DEF Filling, IsListed, ObjectIds
  <2> QED BY <2>1, <2>2, <2>6, <2>7, <2>8, <2>9 DEF Filling, Members
<1> QED
  BY <1>1, <1>2, <1>3, <1>4, <1>5, <1>6, <1>7 DEF Next, Call, Worker, Rest

\* A call that returns has indexed every object of its batch, by its id, if all
\* that is indexed comes from there.
LEMMA BatchIsComplete ==
    ASSUME TypeOK, Kept, Filling, phase = "adding", [Next]_vars, phase' = "idle",
           elList \subseteq Members(batch)
    PROVE  elList' \subseteq Members(batch) /\ ObjectIds(elList') = ObjectIds(Members(batch))
<1>1. AllDone /\ elList' = elList
  BY DEF Next, Call, AddBatch, DeleteBatchFails, DeleteBatch, Finish, FinishAdd, FinishDelete,
     Worker, StartAdd, Expand, StopSearch, LinkThere, LinkBack, Publish, EndOfBatch, Take, Filter,
     PatchThere, PatchBack, Patched, EndOfQueue, Rest, Fail, vars, graph, call, local
<1>2. /\ batch \in AddBatches /\ Len(batch) \in Nat \ {0} /\ DOMAIN batch = 1 .. Len(batch)
      /\ IsListed(Id[batch[1]])
  BY Batches DEF Filling
<1>3. ASSUME NEW i \in DOMAIN batch, i # 1 PROVE IsListed(Id[batch[i]])
  <2>1. i - 1 \in Nat \ {0} /\ i - 1 < Len(batch) /\ (i - 1) + 1 = i
    BY <1>2, <1>3
  <2>2. PICK t \in Threads : Owns(t, i - 1)
    BY <2>1, OwnsSome
  <2>3. GoneBy(t) /\ pos[t] \in Nat /\ pos[t] >= Len(batch)
    BY <1>1 DEF AllDone, Filling, GoneBy, TypeOK
  <2> QED BY <1>2, <2>1, <2>2, <2>3 DEF GoneBy
<1>4. ObjectIds(Members(batch)) \subseteq ObjectIds(elList)
  <2>1. \A i \in DOMAIN batch : IsListed(Id[batch[i]])
    BY <1>2, <1>3
  <2> QED BY <2>1 DEF Members, ObjectIds, IsListed
<1>5. ObjectIds(elList) \subseteq ObjectIds(Members(batch))
  BY DEF ObjectIds
<1> QED BY <1>1, <1>4, <1>5

\* The batch that AddBatch inserts into an empty index is indexed completely,
\* however its positions are dealt and whatever fails before.
THEOREM FirstBatchIsAdded == Spec => AddsToEmpty
<1>1. Init => TypeOK /\ Busy /\ Kept /\ Filling
  <2>1. Init => TypeOK /\ Busy
    BY ParameterAssumption DEF Init, TypeOK, Busy, Phases, Labels
  <2> QED BY <2>1 DEF Init, Kept, Filling, Inserting
<1>2. TypeOK /\ Busy /\ Kept /\ Filling /\ [Next]_vars => (TypeOK /\ Busy /\ Kept /\ Filling)'
  BY TypeStep, BusyStep, FillingStep
<1>3. TypeOK /\ Kept /\ Filling /\ [Next]_vars
      => [phase = "adding" /\ phase' = "idle" /\ elList \subseteq Members(batch) =>
             elList' \subseteq Members(batch)
             /\ ObjectIds(elList') = ObjectIds(Members(batch))]_vars
  BY BatchIsComplete
<1> QED BY <1>1, <1>2, <1>3, PTL DEF Spec, AddsToEmpty
=============================================================================
