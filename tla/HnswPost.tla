------------------------------ MODULE HnswPost ------------------------------
(***************************************************************************)
(* All of CreateIndex of src/method/hnsw.cc: a build, and with the         *)
(* parameter post a second one in the reverse order, whose lists of level  *)
(* 0 are merged with those of the first by the threads of ParallelFor.     *)
(* Then the lists are copied to an optimized index, where each of level 0  *)
(* has a section of maxM0_ + 1 ints.                                       *)
(***************************************************************************)
EXTENDS HnswBuild, SequencesExt

CONSTANTS
    Posts,              \* values of the parameter post
    DrawnWith           \* bound: DrawnWith[post], the levels drawn

ASSUME PostAssumption ==
    /\ Posts \subseteq 0 .. 2
    /\ DrawnWith \in [Posts -> SUBSET Drawn \ {{}}]
    /\ \A q, x, y \in Node : Dist[x][q] = Dist[y][q] => x = y

VARIABLES
    post,               \* post_
    phase,              \* "first", "second", "merging" or "ready"
    temp,               \* temp: friends on level 0 in the first build
    maxF, maxM0,        \* maxF; maxM0_ after the builds
    merge,              \* position in Data of the next node to merge
    task                \* what each worker is merging

postvars == <<post, phase, temp, maxF, maxM0, merge, task>>
Free == [pc |-> "fetch", node |-> Null, copy |-> 0]

CreateInit ==
    /\ Init
    /\ post \in Posts /\ maxlevel \in DrawnWith[post]
    /\ phase = "first"
    /\ temp = [x \in Node |-> {}]
    /\ maxF = 0 /\ maxM0 = MaxM0
    /\ merge = 2
    /\ task = [t \in Threads |-> Free]

\* A worker inserts, in either build.
Build ==
    /\ phase \in {"first", "second"}
    /\ \E t \in Threads : Worker(t)
    /\ \A x \in Node : level'[x] \in DrawnWith[post] \cup {-1}
    /\ UNCHANGED postvars

\* Mutant: the second build keeps the entry point of the first.
SecondBuildOldTop ==
    /\ phase = "first" /\ Built /\ post # 0
    /\ phase' = "second"
    /\ temp' = friends[0]
    /\ order' = <<Data[1]>> \o Reverse(Tail(Data))
    /\ \E l \in DrawnWith[post] :
        level' = [x \in Node |-> IF x = Data[1] THEN l ELSE -1]
    /\ elList' = {Data[1]}
    /\ friends' = [l \in Levels |-> [x \in Node |-> {}]]
    /\ next' = 2
    /\ pc' = [t \in Threads |-> "fetch"]
    /\ UNCHANGED <<delaunayType, top, local, post, maxF, maxM0, merge, task>>

\* "Making the same index in reverse order": with new nodes, of new levels,
\* from the same first object.
SecondBuild ==
    /\ phase = "first" /\ Built /\ post # 0
    /\ phase' = "second"
    /\ temp' = friends[0]
    /\ order' = <<Data[1]>> \o Reverse(Tail(Data))
    /\ \E l \in DrawnWith[post] :
        /\ level' = [x \in Node |-> IF x = Data[1] THEN l ELSE -1]
        /\ maxlevel' = l
    /\ enterpoint' = Data[1]
    /\ elList' = {Data[1]}
    /\ friends' = [l \in Levels |-> [x \in Node |-> {}]]
    /\ next' = 2
    /\ pc' = [t \in Threads |-> "fetch"]
    /\ UNCHANGED <<delaunayType, guard, local, post, maxF, maxM0, merge, task>>

StartMerging ==
    /\ phase = "second" /\ Built
    /\ phase' = "merging"
    /\ UNCHANGED <<vars, post, temp, maxF, maxM0, merge, task>>

-----------------------------------------------------------------------------
(* The loop that merges.  Its first iteration is for the second object.    *)

Merged(x) == friends[0][x] \cup temp[x]

\* The distances from the friends to x; add takes those from a new node.
Toward(x) == [y \in Node |-> Dist[y][x]]

\* With post = 2 at most maxM0_ of them are kept.
Kept(x) ==
    IF delaunayType = 0 THEN Nearest(Merged(x), Toward(x), maxM0)
    ELSE IF Cardinality(Merged(x)) < maxM0 THEN Merged(x)
    ELSE Heuristic1(Merged(x), Toward(x), maxM0)

Goes(t, label) == task' = [task EXCEPT ![t].pc = label]

TakeNode(t) ==
    /\ task[t].pc = "fetch" /\ merge <= Len(Data)
    /\ task' = [task EXCEPT ![t] = [@ EXCEPT !.pc = "compare", !.node = Data[merge]]]
    /\ merge' = merge + 1
    /\ UNCHANGED <<vars, maxF, maxM0>>

\* maxF is read and written by all workers without a lock ...
CompareMaxF(t) ==
    /\ task[t].pc = "compare"
    /\ Goes(t, IF Cardinality(Merged(task[t].node)) > maxF THEN "raise" ELSE "join")
    /\ UNCHANGED <<vars, maxF, maxM0, merge>>

RaiseMaxF(t) ==
    /\ task[t].pc = "raise"
    /\ maxF' = Cardinality(Merged(task[t].node))
    /\ Goes(t, "join")
    /\ UNCHANGED <<vars, maxM0, merge>>

\* ... and so is maxM0_, which becomes maxF with post = 1.
ReadMaxF(t) ==
    /\ task[t].pc = "join" /\ post = 1
    /\ task' = [task EXCEPT ![t] = [@ EXCEPT !.pc = "store", !.copy = maxF]]
    /\ UNCHANGED <<vars, maxF, maxM0, merge>>

StoreMaxM0(t) ==
    /\ task[t].pc = "store"
    /\ maxM0' = task[t].copy
    /\ Goes(t, "swap")
    /\ UNCHANGED <<vars, maxF, merge>>

\* allFriends_[0].swap(rez)
Swap(t) ==
    /\ task[t].pc = "swap" \/ (task[t].pc = "join" /\ post = 2)
    /\ LET x == task[t].node
       IN  friends' = [friends EXCEPT ![0][x] = IF post = 1 THEN Merged(x) ELSE Kept(x)]
    /\ task' = [task EXCEPT ![t] = Free]
    /\ UNCHANGED <<delaunayType, order, elList, level, top, next, pc, local, maxF, maxM0, merge>>

Merge ==
    /\ phase = "merging"
    /\ \E t \in Threads :
        \/ TakeNode(t) \/ CompareMaxF(t) \/ RaiseMaxF(t)
        \/ ReadMaxF(t) \/ StoreMaxM0(t) \/ Swap(t)
    /\ UNCHANGED <<post, phase, temp>>

\* The lists are final, the optimized index is laid out.
Finish ==
    /\ \/ phase = "first" /\ Built /\ post = 0
       \/ phase = "merging" /\ merge > Len(Data) /\ \A t \in Threads : task[t].pc = "fetch"
    /\ phase' = "ready"
    /\ UNCHANGED <<vars, post, temp, maxF, maxM0, merge, task>>

Rest == phase = "ready" /\ UNCHANGED <<vars, postvars>>

CreateNext == Build \/ SecondBuild \/ StartMerging \/ Merge \/ Finish \/ Rest

\* Some thread runs as long as one of them can: less than the scheduler gives.
CreateSpec ==
    /\ CreateInit /\ [][CreateNext]_<<vars, postvars>>
    /\ WF_<<vars, postvars>>(CreateNext)

-----------------------------------------------------------------------------
(* Properties.                                                             *)

\* maxM0 is "the maximum number of neighbors" in the zero layer (methods.md):
\* copyDataAndLevel0LinksToOptIndex has a section of maxM0_ + 1 ints for the
\* length and the ids of a list, and the searches a buffer of that size.
SectionsHold == phase = "ready" => \A x \in Node : Cardinality(friends[0][x]) <= maxM0

\* The construction ends, although threads wait for the guard.
IsBuilt == <>(phase = "ready")
=============================================================================
