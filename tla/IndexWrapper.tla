----------------------------- MODULE IndexWrapper -----------------------------
(***************************************************************************)
(* IndexWrapper of python_bindings/nmslib.cc over the two graph indices:   *)
(* data points are added, an index is created, saved and loaded, by one    *)
(* Python thread.  Files may be missing or cut short: a save that fails    *)
(* throws and leaves what it wrote.                                        *)
(*                                                                         *)
(* hnsw has two forms: the regular one refers to the objects of the        *)
(* wrapper, the optimized one has a copy of them.  small_world_rand is     *)
(* regular, and keeps its nodes by the ids of their objects.  An object is *)
(* a point with the number of its allocation; equal points have equal ids. *)
(***************************************************************************)
EXTENDS Integers, SequencesExt

CONSTANTS
    Point,          \* what is added, told apart by its id
    Files,          \* file names
    Kinds,          \* kinds of wrappers, see KindsAssumption
    MaxData, MaxMade, MaxFaults     \* bounds: points in data, objects made, failed writes

\* The method, and whether the space has a distance function of its own.
ASSUME KindsAssumption ==
    Kinds \subseteq [method : {"hnsw", "small_world_rand"}, optimizable : BOOLEAN]

VARIABLES
    kind,       \* the wrapper's method and space, which do not change
    data,       \* the objects of the wrapper
    made,       \* number of objects made so far
    index,      \* the index object, None before createIndex and loadIndex
    files,      \* files[f]: the index file f and its companion with the data
    faults,     \* number of writes that failed
    failed,     \* history: the last createIndex or loadIndex threw
    added,      \* history: points were added since
    saved       \* history: what loading f has to restore

vars == <<kind, data, made, index, files, faults, failed, added, saved>>

-----------------------------------------------------------------------------
None == [form |-> "none"]
Missing == [form |-> "missing"]

\* A new Hnsw or SmallWorldRand.  nodes: the objects of the nodes, by node id;
\* listed: the nodes in ElList_; copy: the points of data_rearranged_; optimized:
\* data_level0_memory_ is set; entry, pool, params: enterpoint_, visitedlistpool
\* and ef_ are set.
NewIndex == [form |-> "index", nodes |-> <<>>, listed |-> {}, copy |-> <<>>,
             optimized |-> FALSE, entry |-> FALSE, pool |-> FALSE, params |-> FALSE]

PointsOf(objects) == [i \in DOMAIN objects |-> objects[i].point]
Indexed(ix) == IF ix = None THEN <<>>
               ELSE IF ix.optimized THEN ix.copy ELSE PointsOf(ix.nodes)

\* The nodes that come to be in ElList_: all, or one for every id, the first
\* node being one of them; a node whose id is there already stays linked.
Lists ==
    IF kind.method = "hnsw" THEN {DOMAIN data}
    ELSE {S \in SUBSET DOMAIN data :
             /\ data # <<>> => 1 \in S
             /\ \A i \in DOMAIN data : \E j \in S : data[j].point = data[i].point
             /\ \A i, j \in S : data[i].point = data[j].point => i = j}

\* CreateIndex; without data nothing is built, and nothing optimized.
Built(skip) ==
    LET optimized == kind.optimizable /\ ~ skip /\ data # <<>>
    IN  {[NewIndex EXCEPT !.nodes = data, !.listed = S, !.entry = data # <<>>,
                          !.params = TRUE, !.pool = data # <<>>, !.optimized = optimized,
                          !.copy = IF optimized THEN PointsOf(data) ELSE <<>>] : S \in Lists}

\* What SaveIndex writes: the nodes of ElList_, which are counted in the
\* optimized form, too.  loose: their links lead to others as well, since all
\* are reached from the entry point.
Content(ix) ==
    [form |-> IF ix.optimized THEN "optimized" ELSE "regular", whole |-> TRUE,
     points |-> IF ix.optimized THEN SubSeq(ix.copy, 1, Len(ix.nodes))
                ELSE Restrict(PointsOf(ix.nodes), ix.listed),
     loose |-> ix.listed # DOMAIN ix.nodes]

-----------------------------------------------------------------------------
\* LoadIndex of a new index, with the objects it may refer to: the index it
\* makes and whether it throws.  A file that is cut is noticed in its header
\* or after the nodes were made.
Threw(ix) == [threw |-> TRUE, index |-> ix]

\* The small-world graph compares the id of every object it finds, in any
\* order; the nodes made before a difference stay.  In its second pass it does
\* not find the nodes that loose links lead to.
SmallWorldLoaded(c, objects) ==
    LET same == {i \in DOMAIN c.points : i \in DOMAIN objects /\ objects[i].point = c.points[i]}
        Made(S) == [NewIndex EXCEPT !.nodes = Restrict(objects, S), !.listed = S]
    IN  IF same # DOMAIN c.points THEN {Threw(Made(S)) : S \in SUBSET same}
        ELSE IF c.loose \/ ~ c.whole THEN {Threw(Made(same))}
        ELSE {[threw |-> FALSE, index |-> [Made(same) EXCEPT !.entry = same # {}]]}

\* The hierarchical graph compares the number of objects.
RegularLoaded(c, objects) ==
    LET ix == [NewIndex EXCEPT !.nodes = objects, !.listed = DOMAIN objects,
                               !.entry = objects # <<>>]
    IN  IF Len(c.points) # Len(objects) THEN Threw(NewIndex)
        ELSE IF ~ c.whole THEN Threw(ix)
        ELSE [threw |-> FALSE, index |-> [ix EXCEPT !.pool = TRUE]]

\* Mutant: LoadIndex makes no lists for the searches.
OptimizedLoadedNoPool(c) ==
    LET ix == [NewIndex EXCEPT !.copy = c.points, !.optimized = TRUE]
    IN  IF ~ c.whole THEN Threw(ix) ELSE [threw |-> FALSE, index |-> ix]

OptimizedLoaded(c) ==
    LET ix == [NewIndex EXCEPT !.copy = c.points, !.optimized = TRUE]
    IN  IF ~ c.whole THEN Threw(ix)
        ELSE [threw |-> FALSE, index |-> [ix EXCEPT !.pool = TRUE]]

Loaded(c, objects) ==
    IF c = Missing THEN {Threw(NewIndex)}
    ELSE (IF c.whole THEN {} ELSE {Threw(NewIndex)}) \cup
         (IF c.form = "optimized" THEN {OptimizedLoaded(c)}
          ELSE IF kind.method = "hnsw" THEN {RegularLoaded(c, objects)}
          ELSE SmallWorldLoaded(c, objects))

\* ReadObjectVectorFromBinData: new objects, those before a cut included.
NewObjects(points) == [i \in DOMAIN points |-> [point |-> points[i], nr |-> made + i]]
ReadData(d) ==
    IF d = Missing THEN [threw |-> TRUE, objects |-> <<>>]
    ELSE [threw |-> ~ d.whole, objects |-> NewObjects(d.points)]

-----------------------------------------------------------------------------
Init ==
    /\ kind \in {k \in Kinds : k.optimizable => k.method = "hnsw"}
    /\ data = <<>>
    /\ made = 0
    /\ index = None
    /\ files = [f \in Files |-> [index |-> Missing, data |-> Missing]]
    /\ faults = 0
    /\ failed = FALSE
    /\ added = FALSE
    /\ saved = [f \in Files |-> None]

\* addDataPoint; the index does not learn of the point.
AddDataPoint(p) ==
    /\ Len(data) < MaxData
    /\ made < MaxMade
    /\ data' = Append(data, NewObjects(<<p>>)[1])
    /\ made' = made + 1
    /\ added' = TRUE
    /\ UNCHANGED <<kind, index, files, faults, failed, saved>>

CreateIndex(skip) ==
    /\ index' \in Built(skip)
    /\ failed' = FALSE
    /\ added' = FALSE
    /\ UNCHANGED <<kind, data, made, files, faults, saved>>

\* Mutant: the index is replaced after the data were read.
LoadIndexReadFirst(f, loadData) ==
    LET read == IF loadData THEN ReadData(files[f].data) ELSE [threw |-> FALSE, objects |-> data]
    IN  /\ made + Len(read.objects) <= MaxMade
        /\ data' = read.objects
        /\ made' = IF loadData THEN made + Len(read.objects) ELSE made
        /\ IF read.threw THEN UNCHANGED index /\ failed' = TRUE
           ELSE \E result \in Loaded(files[f].index, read.objects) :
                    /\ index' = [result.index EXCEPT !.params = ~ result.threw]
                    /\ failed' = result.threw
        /\ added' = FALSE
        /\ UNCHANGED <<kind, files, faults, saved>>

\* The old index is gone at once, then the old data, then the file is read and
\* the query-time parameters are set.
LoadIndex(f, loadData) ==
    LET read == IF loadData THEN ReadData(files[f].data) ELSE [threw |-> FALSE, objects |-> data]
    IN  /\ made + Len(read.objects) <= MaxMade
        /\ data' = read.objects
        /\ made' = IF loadData THEN made + Len(read.objects) ELSE made
        /\ IF read.threw THEN index' = NewIndex /\ failed' = TRUE
           ELSE \E result \in Loaded(files[f].index, read.objects) :
                    /\ index' = [result.index EXCEPT !.params = ~ result.threw]
                    /\ failed' = result.threw
        /\ added' = FALSE
        /\ UNCHANGED <<kind, files, faults, saved>>

\* The points in a file that was cut: the first ones, or any nodes of ElList_.
Cut(c) ==
    IF kind.method = "hnsw" \/ c.form = "data"
    THEN {SubSeq(c.points, 1, n) : n \in 0 .. Len(c.points)}
    ELSE {Restrict(c.points, S) : S \in SUBSET DOMAIN c.points}

\* A write of content c over old: done, or failed before or after the file was
\* cut; then it throws.
Writes(old, c) ==
    {[threw |-> FALSE, file |-> c]} \cup
    IF faults = MaxFaults THEN {}
    ELSE {[threw |-> TRUE, file |-> old]} \cup
         {[threw |-> TRUE, file |-> [c EXCEPT !.whole = FALSE, !.points = points]] :
             points \in Cut(c)}

\* What is to come back: an optimized index by itself, a regular one with data.
ToRestore(saveData) ==
    IF ~ added /\ (saveData \/ index.optimized)
    THEN [form |-> "saved", points |-> Indexed(index), withData |-> saveData,
          loaded |-> index.optimized /\ DOMAIN index.nodes = {}]
    ELSE None

\* Mutant: data that were saved under the name before are kept.
SaveIndexKeepingData(f, saveData) ==
    /\ index # None /\ ~ failed
    /\ LET dataFile == [form |-> "data", whole |-> TRUE, points |-> PointsOf(data)]
       IN  \E x \in {[threw |-> FALSE, file |-> Content(index)]} :
               /\ files' = [files EXCEPT ![f] = [index |-> x.file,
                      data |-> IF saveData /\ @.data = Missing THEN dataFile ELSE @.data]]
               /\ saved' = [saved EXCEPT ![f] = ToRestore(saveData)]
    /\ UNCHANGED <<kind, data, made, index, faults, failed, added>>

\* saveIndex of an index that was created or loaded without an exception: the
\* data are written first.  Without an index it throws.
SaveIndex(f, saveData) ==
    /\ index # None /\ ~ failed
    /\ LET dataFile == [form |-> "data", whole |-> TRUE, points |-> PointsOf(data)]
       IN  \E d \in IF saveData THEN Writes(files[f].data, dataFile)
                                ELSE {[threw |-> FALSE, file |-> files[f].data]} :
           \E x \in IF d.threw THEN {[threw |-> TRUE, file |-> files[f].index]}
                               ELSE Writes(files[f].index, Content(index)) :
               /\ files' = [files EXCEPT ![f] = [index |-> x.file, data |-> d.file]]
               /\ faults' = IF x.threw THEN faults + 1 ELSE faults
               /\ saved' = [saved EXCEPT ![f] = IF x.threw THEN None ELSE ToRestore(saveData)]
    /\ UNCHANGED <<kind, data, made, index, failed, added>>

Next ==
    \/ \E p \in Point : AddDataPoint(p)
    \/ \E skip \in BOOLEAN : CreateIndex(skip)
    \/ \E f \in Files, b \in BOOLEAN : LoadIndex(f, b) \/ SaveIndex(f, b)

Spec == Init /\ [][Next]_vars

-----------------------------------------------------------------------------
(* Properties.                                                             *)

\* What a query does now: the check of knnQuery, then Search.
Query ==
    IF index = None THEN "refused"
    ELSE IF kind.method = "hnsw"
    THEN IF data = <<>> /\ index.copy = <<>> THEN "nothing"
         ELSE IF index.pool /\ index.params /\
                 IF index.optimized THEN index.copy # <<>> ELSE index.entry
              THEN "answer" ELSE "undefined"
    ELSE IF DOMAIN index.nodes = {} THEN "nothing"
         ELSE IF index.entry /\ index.params THEN "answer" ELSE "undefined"

\* Node i of the index is object i of the data, which was not freed: freeing
\* and reading data in loadIndex, and what it leaves when it throws.
NodesMatchData ==
    index # None =>
        \A i \in DOMAIN index.nodes : i \in DOMAIN data /\ index.nodes[i] = data[i]

\* A query is undefined (it follows a null pointer) only after a load that
\* threw, or when an index without points got data: nmslib.cc 104-121, hnsw.cc 718.
QueryDefined == Query = "undefined" => failed \/ Indexed(index) = <<>>

\* What a load of f would bring back.
Restored(f) ==
    LET read == IF saved[f].withData THEN ReadData(files[f].data)
                ELSE [threw |-> FALSE, objects |-> data]
    IN  {[threw |-> read.threw \/ r.threw, points |-> Indexed(r.index)] :
            r \in Loaded(files[f].index, read.objects)}

\* An index that was saved is restored by the pair of calls of the README of
\* the bindings ("Saving Indexes and Data") ...
SavedIndexReturns ==
    \A f \in Files : saved[f] # None =>
        Restored(f) = {[threw |-> FALSE, points |-> saved[f].points]}

\* ... if it was not loaded from an optimized file.  In small_world_rand, no
\* two objects may have one id (small_world_rand.cc 598, 814 and 895).
BuiltIndexReturns ==
    \A f \in Files :
        /\ saved[f] # None
        /\ ~ saved[f].loaded
        /\ kind.method = "hnsw" \/ IsInjective(saved[f].points)
        => Restored(f) = {[threw |-> FALSE, points |-> saved[f].points]}
=============================================================================
