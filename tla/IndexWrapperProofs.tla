-------------------------- MODULE IndexWrapperProofs --------------------------
(***************************************************************************)
(* Whatever sequence of calls creates, saves and loads an index, and       *)
(* wherever a file is cut, the nodes of the index are objects of the       *)
(* wrapper's data, for any number of points, files and calls.              *)
(***************************************************************************)
EXTENDS IndexWrapper, Extremes, SequenceTheorems

-----------------------------------------------------------------------------
(* Numbers and sequences.                                                  *)

\* A function on 1 .. n is a sequence of length n.
LEMMA FunctionIsSeq ==
    ASSUME NEW S, NEW n \in Nat, NEW f \in [1 .. n -> S]
    PROVE  f \in Seq(S) /\ Len(f) = n
<1>1. f \in Seq(S)
  BY SeqDef
<1>2. Len(f) \in Nat /\ DOMAIN f = 1 .. Len(f)
  BY <1>1, LenProperties
<1>3. 1 .. Len(f) = 1 .. n
  BY <1>2
<1>4. \A i \in Nat : (1 <= i /\ i <= Len(f)) <=> (1 <= i /\ i <= n)
  BY <1>2, <1>3
<1> HIDE <1>3
<1>5. Len(f) = n
  BY <1>2, <1>4
<1> QED
  BY <1>1, <1>5

\* A sequence is a function on numbers.
LEMMA SeqIsPartial ==
    ASSUME NEW S, NEW s \in Seq(S)
    PROVE  /\ Len(s) \in Nat /\ DOMAIN s = 1 .. Len(s) /\ s \in [DOMAIN s -> S]
           /\ DOMAIN s \in SUBSET Nat
           /\ s = <<>> <=> DOMAIN s = {}
<1>1. Len(s) \in Nat /\ DOMAIN s = 1 .. Len(s)
  BY LenProperties
<1>2. s \in [1 .. Len(s) -> S]
  BY SeqDef, <1>1
<1>3. s = <<>> <=> DOMAIN s = {}
  <2>1. s = <<>> <=> Len(s) = 0
    BY EmptySeq
  <2>2. Len(s) = 0 <=> 1 .. Len(s) = {}
    <3>1. Len(s) # 0 => 1 \in 1 .. Len(s)
      BY <1>1
    <3>2. Len(s) = 0 => 1 .. Len(s) = {}
      BY <1>1
    <3> QED
      BY <3>1, <3>2
  <2> QED
    BY <1>1, <2>1, <2>2
<1> QED
  BY <1>1, <1>2, <1>3

-----------------------------------------------------------------------------
(* The invariant.                                                          *)

Object == [point : Point, nr : Nat]
Partial(S) == UNION {[D -> S] : D \in SUBSET Nat}

LEMMA SeqInPartial ==
    ASSUME NEW S, NEW s \in Seq(S)
    PROVE  s \in Partial(S)
<1>1. /\ DOMAIN s \in SUBSET Nat
      /\ s \in [DOMAIN s -> S]
  BY SeqIsPartial
<1>2. [DOMAIN s -> S] \in {[D -> S] : D \in SUBSET Nat}
  BY <1>1
<1> QED
  BY <1>1, <1>2 DEF Partial

DataFile == [form : {"data"}, whole : BOOLEAN, points : Seq(Point)]
IndexFile == [form : {"regular", "optimized"}, whole : BOOLEAN, points : Partial(Point),
              loose : BOOLEAN]

\* The files of hnsw hold as many points as their header says.
Readable == {c \in IndexFile : /\ kind.method = "hnsw" => c.points \in Seq(Point)
                               /\ c.form = "optimized" => kind.method = "hnsw"}

IndexType ==
    [form : {"index"}, nodes : Partial(Object), listed : SUBSET Nat, copy : Seq(Point),
     optimized : BOOLEAN, entry : BOOLEAN, pool : BOOLEAN, params : BOOLEAN]

\* The nodes are some of the objects, in hnsw the first ones, and an optimized
\* index that also has nodes has a copy of each: SaveIndex copies as many as there
\* are nodes.
Follows(ix, objects) ==
    /\ DOMAIN ix.nodes \subseteq DOMAIN objects
    /\ \A i \in DOMAIN ix.nodes : ix.nodes[i] = objects[i]
    /\ ix.listed \subseteq DOMAIN ix.nodes
    /\ kind.method = "hnsw" => ix.nodes \in Seq(Object) /\ ix.listed = DOMAIN ix.nodes
    /\ ix.optimized => kind.method = "hnsw" /\ Len(ix.nodes) <= Len(ix.copy)

StateTyped ==
    /\ kind.optimizable => kind.method = "hnsw"
    /\ data \in Seq(Object)
    /\ made \in Nat
    /\ files \in [Files -> [index : Readable \cup {Missing}, data : DataFile \cup {Missing}]]
    /\ index \in IndexType \cup {None}

WrapperInv == StateTyped /\ (index # None => Follows(index, data))

-----------------------------------------------------------------------------
(* What the helpers return.                                                *)

LEMMA NewIndexTyped ==
    /\ NewIndex \in IndexType
    /\ NewIndex # None
    /\ \A objects \in Seq(Object) : Follows(NewIndex, objects)
<1>1. /\ <<>> \in Seq(Object) /\ DOMAIN <<>> = {} /\ <<>> \in [{} -> Object]
      /\ <<>> \in Seq(Point) /\ Len(<<>>) = 0
  <2>1. <<>> \in Seq(Object) /\ <<>> \in Seq(Point) /\ Len(<<>>) = 0
    BY EmptySeq
  <2>2. \A s \in Seq(Object) : s = <<>> => DOMAIN s = {} /\ s \in [DOMAIN s -> Object]
    BY SeqIsPartial
  <2>3. DOMAIN <<>> = {} /\ <<>> \in [DOMAIN <<>> -> Object]
    BY <2>1, <2>2
  <2>4. [DOMAIN <<>> -> Object] = [{} -> Object]
    BY <2>3
  <2> QED
    BY <2>1, <2>3, <2>4
<1>2. <<>> \in Partial(Object)
  BY <1>1 DEF Partial
<1>3. NewIndex \in IndexType
  BY <1>1, <1>2 DEF NewIndex, IndexType
<1>4. /\ NewIndex.nodes = <<>> /\ NewIndex.listed = {} /\ ~ NewIndex.optimized
      /\ NewIndex.form = "index"
  BY DEF NewIndex
<1>5. ASSUME NEW objects \in Seq(Object) PROVE Follows(NewIndex, objects)
  BY <1>1, <1>4 DEF Follows
<1>6. NewIndex # None
  BY <1>4 DEF None
<1> QED
  BY <1>3, <1>5, <1>6

LEMMA PointsTyped ==
    ASSUME NEW objects \in Seq(Object)
    PROVE  PointsOf(objects) \in Seq(Point) /\ Len(PointsOf(objects)) = Len(objects)
<1>1. Len(objects) \in Nat /\ DOMAIN objects = 1 .. Len(objects)
  BY LenProperties
<1>2. ASSUME NEW i \in 1 .. Len(objects) PROVE objects[i].point \in Point
  <2>1. objects[i] \in Object
    BY ElementOfSeq
  <2> QED
    BY <2>1 DEF Object
<1>3. PointsOf(objects) \in [1 .. Len(objects) -> Point]
  BY <1>1, <1>2 DEF PointsOf
<1> QED
  BY <1>1, <1>3, FunctionIsSeq

\* The points of some nodes.
LEMMA PartialPoints ==
    ASSUME NEW D \in SUBSET Nat, NEW nodes \in [D -> Object], NEW S \in SUBSET D
    PROVE  /\ PointsOf(nodes) \in [D -> Point]
           /\ \A i \in D : PointsOf(nodes)[i] = nodes[i].point
           /\ Restrict(PointsOf(nodes), S) = [i \in S |-> nodes[i].point]
           /\ Restrict(PointsOf(nodes), S) \in [S -> Point]
           /\ Restrict(PointsOf(nodes), S) \in Partial(Point)
           /\ Restrict(PointsOf(nodes), D) = PointsOf(nodes)
<1>1. \A i \in D : nodes[i].point \in Point
  BY DEF Object
<1>2. /\ PointsOf(nodes) = [i \in D |-> nodes[i].point]
  BY DEF PointsOf
<1>3. Restrict(PointsOf(nodes), S) = [i \in S |-> nodes[i].point]
  BY <1>2 DEF Restrict
<1>4. Restrict(PointsOf(nodes), D) = [i \in D |-> nodes[i].point]
  BY <1>2 DEF Restrict
<1>5. Restrict(PointsOf(nodes), S) \in [S -> Point]
  BY <1>1, <1>3
<1>6. S \in SUBSET Nat
  OBVIOUS
<1>7. Restrict(PointsOf(nodes), S) \in Partial(Point)
  BY <1>5, <1>6 DEF Partial
<1> QED
  BY <1>1, <1>2, <1>3, <1>4, <1>5, <1>7

LEMMA ObjectsTyped ==
    ASSUME NEW points \in Seq(Point), made \in Nat
    PROVE  NewObjects(points) \in Seq(Object) /\ Len(NewObjects(points)) = Len(points)
<1>1. Len(points) \in Nat /\ DOMAIN points = 1 .. Len(points)
  BY LenProperties
<1>2. ASSUME NEW i \in 1 .. Len(points) PROVE [point |-> points[i], nr |-> made + i] \in Object
  <2>1. points[i] \in Point /\ made + i \in Nat
    BY ElementOfSeq
  <2> QED
    BY <2>1 DEF Object
<1>3. NewObjects(points) \in [1 .. Len(points) -> Object]
  BY <1>1, <1>2 DEF NewObjects
<1> QED
  BY <1>1, <1>3, FunctionIsSeq

LEMMA ReadTyped ==
    ASSUME NEW d \in DataFile \cup {Missing}, made \in Nat
    PROVE  ReadData(d).objects \in Seq(Object)
<1>1. CASE d = Missing
  BY <1>1, EmptySeq DEF ReadData
<1>2. CASE d # Missing
  <2>1. d.points \in Seq(Point)
    BY <1>2 DEF DataFile
  <2>2. ReadData(d).objects = NewObjects(d.points)
    BY <1>2 DEF ReadData
  <2> QED
    BY <2>1, <2>2, ObjectsTyped
<1> QED
  BY <1>1, <1>2

\* SmallWorldRand::LoadIndex: the nodes made are objects whose ids are those in
\* the file.
LEMMA SmallWorldFollows ==
    ASSUME NEW c, NEW objects \in Seq(Object), kind.method # "hnsw",
           NEW r \in SmallWorldLoaded(c, objects)
    PROVE  r.index \in IndexType /\ Follows(r.index, objects)
<1> DEFINE same == {i \in DOMAIN c.points : i \in DOMAIN objects /\ objects[i].point = c.points[i]}
           Made(S) == [NewIndex EXCEPT !.nodes = Restrict(objects, S), !.listed = S]
           some == same # {}
<1>1. /\ DOMAIN objects \in SUBSET Nat /\ objects \in [DOMAIN objects -> Object]
      /\ same \in SUBSET DOMAIN objects
  BY SeqIsPartial
<1>2. \/ \E S \in SUBSET same : r = Threw(Made(S))
      \/ r = Threw(Made(same))
      \/ r = [threw |-> FALSE, index |-> [Made(same) EXCEPT !.entry = some]]
  BY DEF SmallWorldLoaded
<1>3. PICK S \in SUBSET same :
          r.index = Made(S) \/ r.index = [Made(S) EXCEPT !.entry = some]
  <2>1. ASSUME NEW S \in SUBSET same, r = Threw(Made(S)) PROVE r.index = Made(S)
    <3> HIDE DEF Made
    <3> QED
      BY <2>1 DEF Threw
  <2>2. CASE r = Threw(Made(same))
    BY <2>2 DEF Threw
  <2>3. CASE r = [threw |-> FALSE, index |-> [Made(same) EXCEPT !.entry = some]]
    BY <2>3
  <2> QED
    BY <1>2, <2>1, <2>2, <2>3
<1> DEFINE nodes == Restrict(objects, S)
<1>4. /\ S \in SUBSET DOMAIN objects /\ S \in SUBSET Nat /\ some \in BOOLEAN
  BY <1>1
<1> HIDE DEF same, some
<1>5. nodes = [i \in S |-> objects[i]] /\ nodes \in [S -> Object]
  BY <1>1, <1>4 DEF Restrict
<1>6. nodes \in Partial(Object)
  BY <1>4, <1>5 DEF Partial
<1> DEFINE made0 == [NewIndex EXCEPT !.nodes = nodes, !.listed = S]
           made1 == [made0 EXCEPT !.entry = some]
<1>7. r.index \in {made0, made1}
  BY <1>3
<1> HIDE DEF nodes
<1>8. /\ made0 \in IndexType /\ made0.nodes = nodes /\ made0.listed = S /\ ~ made0.optimized
      /\ made1 \in IndexType /\ made1.nodes = nodes /\ made1.listed = S /\ ~ made1.optimized
  BY <1>4, <1>6, NewIndexTyped DEF IndexType, NewIndex
<1>9. \A ix \in {made0, made1} : Follows(ix, objects)
  BY <1>4, <1>5, <1>8 DEF Follows
<1> QED
  BY <1>7, <1>8, <1>9

\* Hnsw::LoadRegularIndex: all the objects, or none when their number differs.
LEMMA RegularFollows ==
    ASSUME NEW c, NEW objects \in Seq(Object), kind.method = "hnsw"
    PROVE  LET ix == RegularLoaded(c, objects).index
           IN  ix \in IndexType /\ Follows(ix, objects)
<1> DEFINE all == DOMAIN objects
           some == objects # <<>>
           made0 == [NewIndex EXCEPT !.nodes = objects, !.listed = all, !.entry = some]
           made1 == [made0 EXCEPT !.pool = TRUE]
<1>1. all \in SUBSET Nat /\ objects \in Partial(Object) /\ some \in BOOLEAN
  BY SeqIsPartial DEF Partial
<1>2. RegularLoaded(c, objects).index \in {NewIndex, made0, made1}
  BY DEF RegularLoaded, Threw
<1>3. all = DOMAIN objects
  OBVIOUS
<1> HIDE DEF all, some
<1>4. /\ made0 \in IndexType /\ made0.nodes = objects /\ made0.listed = all /\ ~ made0.optimized
      /\ made1 \in IndexType /\ made1.nodes = objects /\ made1.listed = all /\ ~ made1.optimized
  BY <1>1, NewIndexTyped DEF IndexType, NewIndex
<1>5. Follows(made0, objects) /\ Follows(made1, objects)
  BY <1>3, <1>4 DEF Follows
<1> QED
  BY <1>2, <1>4, <1>5, NewIndexTyped

\* Hnsw::LoadOptimizedIndex refers to no object.
LEMMA OptimizedFollows ==
    ASSUME NEW c, c.points \in Seq(Point), NEW objects \in Seq(Object), kind.method = "hnsw"
    PROVE  LET ix == OptimizedLoaded(c).index
           IN  ix \in IndexType /\ Follows(ix, objects)
<1> DEFINE made0 == [NewIndex EXCEPT !.copy = c.points, !.optimized = TRUE]
           made1 == [made0 EXCEPT !.pool = TRUE]
<1>1. /\ made0 \in IndexType /\ made0.nodes = NewIndex.nodes /\ made0.listed = NewIndex.listed
      /\ made1 \in IndexType /\ made1.nodes = NewIndex.nodes /\ made1.listed = NewIndex.listed
      /\ made0.copy \in Seq(Point) /\ made1.copy \in Seq(Point)
  BY NewIndexTyped DEF IndexType, NewIndex
<1>2. OptimizedLoaded(c).index \in {made0, made1}
  BY DEF OptimizedLoaded, Threw
<1>3. Len(made0.copy) \in Nat /\ Len(made1.copy) \in Nat
  BY <1>1, LenProperties
<1>4. Len(NewIndex.nodes) = 0
  BY EmptySeq DEF NewIndex
<1>5. Follows(NewIndex, objects)
  BY NewIndexTyped
<1>6. Follows(made0, objects) /\ Follows(made1, objects)
  BY <1>1, <1>3, <1>4, <1>5 DEF Follows
<1> QED
  BY <1>1, <1>2, <1>6

LEMMA LoadedFollows ==
    ASSUME NEW c \in Readable \cup {Missing}, NEW objects \in Seq(Object),
           NEW r \in Loaded(c, objects)
    PROVE  r.index \in IndexType /\ Follows(r.index, objects)
<1>1. \/ r = Threw(NewIndex)
      \/ /\ c \in Readable
         /\ \/ c.form = "optimized" /\ r = OptimizedLoaded(c)
            \/ kind.method = "hnsw" /\ r = RegularLoaded(c, objects)
            \/ kind.method # "hnsw" /\ r \in SmallWorldLoaded(c, objects)
  BY DEF Loaded
<1>2. CASE r = Threw(NewIndex)
  BY <1>2, NewIndexTyped DEF Threw
<1>3. CASE c \in Readable /\ c.form = "optimized" /\ r = OptimizedLoaded(c)
  BY <1>3, OptimizedFollows DEF Readable
<1> QED
  BY <1>1, <1>2, <1>3, RegularFollows, SmallWorldFollows

\* The first n elements of a sequence that has as many.
LEMMA CutTyped ==
    ASSUME NEW points \in Seq(Point), NEW n \in Nat, n <= Len(points)
    PROVE  SubSeq(points, 1, n) \in Seq(Point)
<1>1. Len(points) \in Nat
  BY LenProperties
<1>2. ASSUME NEW i \in 1 .. n PROVE points[i] \in Point
  <2>1. i \in 1 .. Len(points)
    BY <1>1
  <2> QED
    BY <2>1, ElementOfSeq
<1> QED
  BY <1>2, SubSeqProperties

LEMMA ContentTyped ==
    ASSUME NEW ix \in IndexType, NEW objects, Follows(ix, objects)
    PROVE  Content(ix) \in Readable
<1>1. PICK D \in SUBSET Nat : ix.nodes \in [D -> Object]
  BY DEF IndexType, Partial
<1>2. ix.copy \in Seq(Point) /\ ix.optimized \in BOOLEAN /\ DOMAIN ix.nodes = D
      /\ ix.listed \in SUBSET D
  BY <1>1 DEF IndexType, Follows
<1> DEFINE points == IF ix.optimized THEN SubSeq(ix.copy, 1, Len(ix.nodes))
                     ELSE Restrict(PointsOf(ix.nodes), ix.listed)
           form == IF ix.optimized THEN "optimized" ELSE "regular"
           loose == ix.listed # DOMAIN ix.nodes
<1>3. /\ points \in Partial(Point)
      /\ kind.method = "hnsw" => points \in Seq(Point)
      /\ form \in {"regular", "optimized"}
      /\ form = "optimized" => kind.method = "hnsw"
  <2>1. CASE ix.optimized
    <3>1. kind.method = "hnsw" /\ ix.nodes \in Seq(Object) /\ Len(ix.nodes) <= Len(ix.copy)
      BY <2>1 DEF Follows
    <3>2. Len(ix.nodes) \in Nat
      BY <3>1, LenProperties
    <3>3. points \in Seq(Point)
      BY <1>2, <2>1, <3>1, <3>2, CutTyped
    <3>4. points \in Partial(Point)
      BY <3>3, SeqInPartial
    <3> QED
      BY <2>1, <3>1, <3>3, <3>4
  <2>2. CASE ~ ix.optimized
    <3>1. points = Restrict(PointsOf(ix.nodes), ix.listed)
      BY <2>2
    <3>2. points \in Partial(Point)
      <4>1. Restrict(PointsOf(ix.nodes), ix.listed) \in Partial(Point)
        BY <1>1, <1>2, PartialPoints
      <4> QED
        BY <3>1, <4>1
    <3>3. ASSUME kind.method = "hnsw" PROVE points \in Seq(Point)
      <4>1. ix.nodes \in Seq(Object) /\ ix.listed = D
        BY <1>2, <3>3 DEF Follows
      <4>2. points = PointsOf(ix.nodes)
        BY <1>1, <3>1, <4>1, PartialPoints
      <4> QED
        BY <4>1, <4>2, PointsTyped
    <3> QED
      BY <2>2, <3>2, <3>3
  <2> QED
    BY <1>2, <2>1, <2>2
<1>4. Content(ix) = [form |-> form, whole |-> TRUE, points |-> points, loose |-> loose]
  BY DEF Content
<1>5. loose \in BOOLEAN
  OBVIOUS
<1> HIDE DEF points, form, loose
<1>6. Content(ix) \in IndexFile
  BY <1>3, <1>4, <1>5 DEF IndexFile
<1>7. /\ kind.method = "hnsw" => Content(ix).points \in Seq(Point)
      /\ Content(ix).form = "optimized" => kind.method = "hnsw"
  BY <1>3, <1>4
<1> QED
  BY <1>6, <1>7 DEF Readable

LEMMA FormsDiffer == Readable \cap DataFile = {}
BY DEF Readable, IndexFile, DataFile

LEMMA WritesTyped ==
    ASSUME NEW old, NEW c, c \in Readable \/ c \in DataFile, NEW w \in Writes(old, c)
    PROVE  \/ w.file = old
           \/ w.file \in Readable /\ c \in Readable
           \/ w.file \in DataFile /\ c \in DataFile
<1>1. CASE w = [threw |-> FALSE, file |-> c] \/ w = [threw |-> TRUE, file |-> old]
  BY <1>1
<1>2. ASSUME NEW points \in Cut(c),
             w = [threw |-> TRUE, file |-> [c EXCEPT !.whole = FALSE, !.points = points]]
      PROVE  \/ w.file \in Readable /\ c \in Readable
             \/ w.file \in DataFile /\ c \in DataFile
  <2>1. CASE kind.method = "hnsw" \/ c.form = "data"
    <3>1. c.points \in Seq(Point)
      BY <2>1 DEF Readable, DataFile, IndexFile
    <3>2. PICK n \in 0 .. Len(c.points) : points = SubSeq(c.points, 1, n)
      BY <2>1 DEF Cut
    <3>3. Len(c.points) \in Nat
      BY <3>1, LenProperties
    <3>4. points \in Seq(Point)
      BY <3>1, <3>2, <3>3, CutTyped
    <3>5. points \in Partial(Point)
      BY <3>4, SeqInPartial
    <3> QED
      BY <1>2, <3>4, <3>5 DEF Readable, IndexFile, DataFile
  <2>2. CASE kind.method # "hnsw" /\ c.form # "data"
    <3>1. c \in Readable
      BY <2>2 DEF DataFile
    <3>2. PICK D \in SUBSET Nat : c.points \in [D -> Point]
      BY <3>1 DEF Readable, IndexFile, Partial
    <3>3. PICK S \in SUBSET D : points = Restrict(c.points, S)
      BY <2>2, <3>2 DEF Cut
    <3>4. points \in [S -> Point] /\ S \in SUBSET Nat
      BY <3>2, <3>3 DEF Restrict
    <3>5. points \in Partial(Point)
      BY <3>4 DEF Partial
    <3> QED
      BY <1>2, <2>2, <3>1, <3>5 DEF Readable, IndexFile
  <2> QED
    BY <2>1, <2>2
<1> QED
  BY <1>1, <1>2 DEF Writes

-----------------------------------------------------------------------------
(* The steps.                                                              *)

LEMMA InitWrapper == Init => WrapperInv
<1> SUFFICES ASSUME Init PROVE WrapperInv
  OBVIOUS
<1>1. data \in Seq(Object)
  BY EmptySeq DEF Init
<1>2. files \in [Files -> [index : Readable \cup {Missing}, data : DataFile \cup {Missing}]]
  BY DEF Init
<1> QED
  BY <1>1, <1>2 DEF Init, WrapperInv, StateTyped

\* A point is added behind the objects that the index has as nodes.
LEMMA StepAddDataPoint ==
    ASSUME WrapperInv, NEW p \in Point, AddDataPoint(p)
    PROVE  WrapperInv'
<1> USE DEF WrapperInv, StateTyped
<1> DEFINE object == NewObjects(<<p>>)[1]
<1>1. object \in Object
  <2>1. <<p>> \in Seq(Point) /\ Len(<<p>>) = 1
    OBVIOUS
  <2>2. NewObjects(<<p>>) \in Seq(Object) /\ Len(NewObjects(<<p>>)) = 1
    BY <2>1, ObjectsTyped
  <2> QED
    BY <2>2, ElementOfSeq
<1> HIDE DEF object
<1>2. /\ data' = Append(data, object) /\ made' = made + 1 /\ index' = index /\ files' = files
      /\ kind' = kind /\ Readable' = Readable
  BY DEF AddDataPoint, object, Readable
<1>3. /\ data' \in Seq(Object) /\ Len(data') = Len(data) + 1
      /\ \A i \in 1 .. Len(data) : data'[i] = data[i]
  BY <1>1, <1>2, AppendProperties
<1>4. ASSUME index # None PROVE Follows(index, data')
  <2>1. Len(data) \in Nat /\ DOMAIN data = 1 .. Len(data) /\ DOMAIN data' = 1 .. Len(data')
    BY <1>3, SeqIsPartial
  <2>2. DOMAIN data \subseteq DOMAIN data'
    BY <1>3, <2>1
  <2> QED
    BY <1>3, <1>4, <2>1, <2>2 DEF Follows
<1>5. (index # None => Follows(index, data))'
  BY <1>2, <1>4 DEF Follows
<1> QED
  BY <1>2, <1>3, <1>5

\* The index is built from all of the data.
LEMMA StepCreateIndex ==
    ASSUME WrapperInv, NEW skip \in BOOLEAN, CreateIndex(skip)
    PROVE  WrapperInv'
<1> USE DEF WrapperInv, StateTyped
<1> DEFINE optimized == kind.optimizable /\ ~ skip /\ data # <<>>
           some == data # <<>>
           copy == IF optimized THEN PointsOf(data) ELSE <<>>
<1>1. /\ data' = data /\ made' = made /\ files' = files /\ kind' = kind
      /\ Readable' = Readable
  BY DEF CreateIndex, Readable
<1>2. /\ optimized \in BOOLEAN /\ some \in BOOLEAN /\ copy \in Seq(Point)
      /\ optimized => Len(copy) = Len(data) /\ kind.method = "hnsw"
  BY PointsTyped, EmptySeq
<1>3. PICK S \in Lists : index' = [NewIndex EXCEPT !.nodes = data, !.listed = S, !.entry = some,
                        !.params = TRUE, !.pool = some, !.optimized = optimized, !.copy = copy]
  BY DEF CreateIndex, Built
<1>4. /\ S \in SUBSET DOMAIN data
      /\ kind.method = "hnsw" => S = DOMAIN data
  BY DEF Lists
<1>5. /\ S \in SUBSET Nat /\ data \in Partial(Object) /\ Len(data) \in Nat
  <2>1. Len(data) \in Nat /\ DOMAIN data \in SUBSET Nat
    BY SeqIsPartial
  <2> QED
    BY <1>4, <2>1, SeqInPartial
<1> HIDE DEF optimized, some, copy
<1>6. /\ index' \in IndexType /\ index'.nodes = data /\ index'.listed = S
      /\ index'.copy = copy /\ index'.optimized = optimized
  BY <1>2, <1>3, <1>5, NewIndexTyped DEF IndexType, NewIndex
<1>7. Follows(index', data)
  BY <1>2, <1>4, <1>5, <1>6 DEF Follows
<1>8. (index # None => Follows(index, data))'
  BY <1>1, <1>7 DEF Follows
<1> QED
  BY <1>1, <1>6, <1>8

\* The index follows the objects that are read, or the old ones when no data
\* are read; when reading the data threw it has no nodes.
LEMMA StepLoadIndex ==
    ASSUME WrapperInv, NEW f \in Files, NEW loadData \in BOOLEAN, LoadIndex(f, loadData)
    PROVE  WrapperInv'
<1> USE DEF WrapperInv, StateTyped
<1> DEFINE read == IF loadData THEN ReadData(files[f].data)
                   ELSE [threw |-> FALSE, objects |-> data]
<1>1. files[f].index \in Readable \cup {Missing} /\ files[f].data \in DataFile \cup {Missing}
  OBVIOUS
<1>2. read.objects \in Seq(Object)
  <2>1. CASE loadData
    BY <1>1, <2>1, ReadTyped
  <2>2. CASE ~ loadData
    BY <2>2
  <2> QED
    BY <2>1, <2>2
<1>3. /\ data' = read.objects
      /\ made' = IF loadData THEN made + Len(read.objects) ELSE made
      /\ files' = files /\ kind' = kind
      /\ IF read.threw THEN index' = NewIndex
         ELSE \E result \in Loaded(files[f].index, read.objects) :
                  index' = [result.index EXCEPT !.params = ~ result.threw]
  BY DEF LoadIndex
<1> HIDE DEF read
<1>4. made' \in Nat
  BY <1>2, <1>3, LenProperties
<1>5. index' \in IndexType /\ Follows(index', data')
  <2>1. CASE read.threw
    BY <1>2, <1>3, <2>1, NewIndexTyped
  <2>2. CASE ~ read.threw
    <3>1. PICK result \in Loaded(files[f].index, read.objects) :
              index' = [result.index EXCEPT !.params = ~ result.threw]
      BY <1>3, <2>2
    <3>2. result.index \in IndexType /\ Follows(result.index, read.objects)
      BY <1>1, <1>2, LoadedFollows
    <3> DEFINE set == ~ result.threw
    <3>3. set \in BOOLEAN
      OBVIOUS
    <3>4. index' = [result.index EXCEPT !.params = set]
      BY <3>1
    <3> HIDE DEF set
    <3>5. /\ index' \in IndexType /\ index'.nodes = result.index.nodes
          /\ index'.listed = result.index.listed
          /\ index'.copy = result.index.copy /\ index'.optimized = result.index.optimized
      BY <3>2, <3>3, <3>4 DEF IndexType
    <3> QED
      BY <1>3, <3>2, <3>5 DEF Follows
  <2> QED
    BY <2>1, <2>2
<1>6. (index # None => Follows(index, data))' /\ Readable' = Readable
  BY <1>3, <1>5 DEF Follows, Readable
<1> QED
  BY <1>2, <1>3, <1>4, <1>5, <1>6

\* Only the files change, and what is written are sequences of points.
LEMMA StepSaveIndex ==
    ASSUME WrapperInv, NEW f \in Files, NEW saveData \in BOOLEAN, SaveIndex(f, saveData)
    PROVE  WrapperInv'
<1> USE DEF WrapperInv, StateTyped
<1> DEFINE dataFile == [form |-> "data", whole |-> TRUE, points |-> PointsOf(data)]
<1>1. dataFile \in DataFile
  BY PointsTyped DEF DataFile
<1>2. /\ index # None /\ data' = data /\ made' = made /\ index' = index
      /\ kind' = kind /\ Readable' = Readable
  BY DEF SaveIndex, Readable
<1>3. Content(index) \in Readable
  BY <1>2, ContentTyped
<1>4. files[f].index \in Readable \cup {Missing} /\ files[f].data \in DataFile \cup {Missing}
  OBVIOUS
<1>5. PICK d \in IF saveData THEN Writes(files[f].data, dataFile)
                 ELSE {[threw |-> FALSE, file |-> files[f].data]} :
         \E x \in IF d.threw THEN {[threw |-> TRUE, file |-> files[f].index]}
                  ELSE Writes(files[f].index, Content(index)) :
             files' = [files EXCEPT ![f] = [index |-> x.file, data |-> d.file]]
  BY DEF SaveIndex
<1> HIDE DEF dataFile
<1>6. PICK x \in IF d.threw THEN {[threw |-> TRUE, file |-> files[f].index]}
                 ELSE Writes(files[f].index, Content(index)) :
         files' = [files EXCEPT ![f] = [index |-> x.file, data |-> d.file]]
  BY <1>5
<1>7. d.file \in DataFile \cup {Missing}
  <2>1. CASE saveData
    BY <1>1, <1>4, <2>1, WritesTyped, FormsDiffer
  <2>2. CASE ~ saveData
    BY <1>4, <2>2
  <2> QED
    BY <2>1, <2>2
<1>8. x.file \in Readable \cup {Missing}
  <2>1. CASE d.threw
    BY <1>4, <2>1
  <2>2. CASE ~ d.threw
    BY <1>3, <1>4, <2>2, WritesTyped, FormsDiffer
  <2> QED
    BY <2>1, <2>2
<1>9. files' \in [Files -> [index : Readable \cup {Missing}, data : DataFile \cup {Missing}]]
  BY <1>6, <1>7, <1>8
<1>10. (index # None => Follows(index, data))'
  BY <1>2 DEF Follows
<1> QED
  BY <1>2, <1>9, <1>10

LEMMA StepStutters ==
    ASSUME WrapperInv, UNCHANGED vars
    PROVE  WrapperInv'
BY DEF WrapperInv, StateTyped, Readable, Follows, vars

THEOREM WrapperInvariant == Spec => []WrapperInv
<1>1. Init => WrapperInv
  BY InitWrapper
<1>2. WrapperInv /\ [Next]_vars => WrapperInv'
  <2> SUFFICES ASSUME WrapperInv, [Next]_vars PROVE WrapperInv'
    OBVIOUS
  <2>1. ASSUME NEW p \in Point, AddDataPoint(p) PROVE WrapperInv'
    BY <2>1, StepAddDataPoint
  <2>2. ASSUME NEW skip \in BOOLEAN, CreateIndex(skip) PROVE WrapperInv'
    BY <2>2, StepCreateIndex
  <2>3. ASSUME NEW f \in Files, NEW b \in BOOLEAN, LoadIndex(f, b) PROVE WrapperInv'
    BY <2>3, StepLoadIndex
  <2>4. ASSUME NEW f \in Files, NEW b \in BOOLEAN, SaveIndex(f, b) PROVE WrapperInv'
    BY <2>4, StepSaveIndex
  <2>5. CASE UNCHANGED vars
    BY <2>5, StepStutters
  <2> QED
    BY <2>1, <2>2, <2>3, <2>4, <2>5 DEF Next
<1> QED
  BY <1>1, <1>2, PTL DEF Spec

\* Node i of the index is object i of the data, after every call, also after a
\* load that threw: loadIndex of nmslib.cc 103-121, hnsw.cc 956-963 and
\* small_world_rand.cc 872-881.
THEOREM NodesStayWithData == Spec => []NodesMatchData
<1>1. WrapperInv => NodesMatchData
  BY DEF NodesMatchData, WrapperInv, Follows
<1> QED
  BY <1>1, WrapperInvariant, PTL

-----------------------------------------------------------------------------
(* What queries see, and what a load restores.                             *)

Record == [form : {"saved"}, points : Partial(Point), withData : BOOLEAN, loaded : BOOLEAN]

\* An index that was created or loaded without an exception can be searched,
\* has a copy of every node or none, nodes for all data if it needs them, and
\* a node in ElList_ for the id of every node.
Complete ==
    index # None /\ ~ failed =>
        /\ index.params
        /\ DOMAIN index.nodes # {} => index.entry
        /\ kind.method = "hnsw" /\ (DOMAIN index.nodes # {} \/ index.optimized) => index.pool
        /\ index.optimized /\ DOMAIN index.nodes # {} => Len(index.copy) = Len(index.nodes)
        /\ kind.method = "hnsw" /\ ~ added /\ ~ index.optimized => DOMAIN index.nodes = DOMAIN data
        /\ \A i \in DOMAIN index.nodes : \E j \in index.listed :
               index.nodes[i].point = index.nodes[j].point

\* A saved index and, if loading it takes objects, these objects are whole.
Matches(c, d, record) ==
    /\ c # Missing /\ c.whole /\ c.points = record.points
    /\ record.withData => d # Missing /\ d.whole
    /\ c.form # "optimized" =>
        /\ record.withData
        /\ ~ c.loose
        /\ \A i \in DOMAIN c.points : i \in DOMAIN d.points /\ d.points[i] = c.points[i]
        /\ kind.method = "hnsw" => DOMAIN c.points = DOMAIN d.points

\* The records that BuiltIndexReturns speaks of.
Due(record) ==
    /\ record # None
    /\ ~ record.loaded
    /\ kind.method = "hnsw" \/ IsInjective(record.points)

Restorable ==
    /\ saved \in [Files -> Record \cup {None}]
    /\ \A f \in Files : Due(saved[f]) => Matches(files[f].index, files[f].data, saved[f])

LoadInv == WrapperInv /\ Complete /\ Restorable

\* A load that does not throw makes an index that can be searched.
LEMMA LoadedComplete ==
    ASSUME NEW c \in Readable \cup {Missing}, NEW objects \in Seq(Object),
           NEW r \in Loaded(c, objects), ~ r.threw
    PROVE  /\ DOMAIN r.index.nodes # {} => r.index.entry
           /\ kind.method = "hnsw" /\ (DOMAIN r.index.nodes # {} \/ r.index.optimized)
                => r.index.pool
           /\ r.index.optimized => DOMAIN r.index.nodes = {}
           /\ kind.method = "hnsw" /\ ~ r.index.optimized
                => DOMAIN r.index.nodes = DOMAIN objects
           /\ r.index.listed = DOMAIN r.index.nodes
<1> DEFINE optimized0 == [NewIndex EXCEPT !.copy = c.points, !.optimized = TRUE]
           some == objects # <<>>
           all == DOMAIN objects
           regular0 == [NewIndex EXCEPT !.nodes = objects, !.listed = all, !.entry = some]
<1>1. /\ c \in Readable
      /\ \/ c.form = "optimized" /\ r = OptimizedLoaded(c)
         \/ kind.method = "hnsw" /\ r = RegularLoaded(c, objects)
         \/ kind.method # "hnsw" /\ r \in SmallWorldLoaded(c, objects)
  BY DEF Loaded, Threw
<1>2. DOMAIN NewIndex.nodes = {} /\ NewIndex.listed = {}
  <2>1. \A s \in Seq(Object) : s = <<>> => DOMAIN s = {}
    BY SeqIsPartial
  <2> QED
    BY <2>1, EmptySeq DEF NewIndex
<1>3. CASE r = OptimizedLoaded(c)
  <2>1. r.index = [optimized0 EXCEPT !.pool = TRUE]
    BY <1>3 DEF OptimizedLoaded, Threw
  <2>2. /\ r.index.nodes = NewIndex.nodes /\ r.index.listed = NewIndex.listed
        /\ r.index.optimized /\ r.index.pool
    BY <2>1 DEF NewIndex
  <2> QED
    BY <1>2, <2>2
<1>4. CASE kind.method = "hnsw" /\ r = RegularLoaded(c, objects)
  <2>1. r.index = [regular0 EXCEPT !.pool = TRUE]
    BY <1>4 DEF RegularLoaded, Threw
  <2>2. some <=> all # {}
    BY SeqIsPartial
  <2>3. all = DOMAIN objects
    OBVIOUS
  <2> HIDE DEF some, all
  <2>4. /\ r.index.nodes = objects /\ r.index.listed = all /\ (r.index.entry <=> some)
        /\ ~ r.index.optimized /\ r.index.pool
    BY <2>1 DEF NewIndex
  <2> QED
    BY <2>2, <2>3, <2>4
<1>5. CASE kind.method # "hnsw" /\ r \in SmallWorldLoaded(c, objects)
  <2> DEFINE same == {i \in DOMAIN c.points :
                         i \in DOMAIN objects /\ objects[i].point = c.points[i]}
             full == same # {}
             nodes == Restrict(objects, same)
             made0 == [NewIndex EXCEPT !.nodes = nodes, !.listed = same]
  <2> DEFINE Made(S) == [NewIndex EXCEPT !.nodes = Restrict(objects, S), !.listed = S]
  <2>1. r.index = [made0 EXCEPT !.entry = full]
    <3> DEFINE last == [threw |-> FALSE, index |-> [made0 EXCEPT !.entry = full]]
    <3>1. \/ \E S \in SUBSET same : r = Threw(Made(S))
          \/ r = Threw(Made(same))
          \/ r = last
      BY <1>5 DEF SmallWorldLoaded
    <3>2. \A ix : r # Threw(ix)
      BY DEF Threw
    <3>3. r = last
      <4> HIDE DEF Made, last
      <4> QED
        BY <3>1, <3>2
    <3> QED
      BY <3>3
  <2>2. DOMAIN nodes = same
    BY DEF Restrict
  <2>3. full <=> same # {}
    OBVIOUS
  <2> HIDE DEF nodes, same, full
  <2>4. /\ r.index.nodes = nodes /\ r.index.listed = same /\ (r.index.entry <=> full)
        /\ ~ r.index.optimized
    BY <2>1 DEF NewIndex
  <2> QED
    BY <1>5, <2>2, <2>3, <2>4
<1> QED
  BY <1>1, <1>3, <1>4, <1>5

LEMMA IndexedTyped ==
    ASSUME NEW ix \in IndexType
    PROVE  /\ Indexed(ix) \in Partial(Point)
           /\ Indexed(ix) = IF ix.optimized THEN ix.copy ELSE PointsOf(ix.nodes)
           /\ PointsOf(ix.nodes) = [i \in DOMAIN ix.nodes |-> ix.nodes[i].point]
<1>1. PICK D \in SUBSET Nat : ix.nodes \in [D -> Object]
  BY DEF IndexType, Partial
<1>2. ix # None /\ ix.copy \in Seq(Point)
  BY DEF IndexType, None
<1>3. Indexed(ix) = IF ix.optimized THEN ix.copy ELSE PointsOf(ix.nodes)
  BY <1>2 DEF Indexed
<1>4. PointsOf(ix.nodes) = [i \in DOMAIN ix.nodes |-> ix.nodes[i].point]
  BY DEF PointsOf
<1>5. PointsOf(ix.nodes) \in Partial(Point)
  <2>1. Restrict(PointsOf(ix.nodes), D) \in Partial(Point)
    BY <1>1, PartialPoints
  <2>2. Restrict(PointsOf(ix.nodes), D) = PointsOf(ix.nodes)
    BY <1>1, PartialPoints
  <2> QED
    BY <2>1, <2>2
<1>6. ix.copy \in Partial(Point)
  BY <1>2, SeqInPartial
<1> QED
  BY <1>3, <1>4, <1>5, <1>6

\* Loading what Matches describes throws nothing and brings back its points.
LEMMA PointsBack ==
    ASSUME NEW c \in Readable, NEW objects \in Seq(Object), c.whole,
           c.form # "optimized" =>
               /\ ~ c.loose
               /\ \A i \in DOMAIN c.points : i \in DOMAIN objects /\ objects[i].point = c.points[i]
               /\ kind.method = "hnsw" => DOMAIN c.points = DOMAIN objects
    PROVE  \E r \in Loaded(c, objects) :
               /\ Loaded(c, objects) = {r}
               /\ ~ r.threw
               /\ Indexed(r.index) = c.points
<1> DEFINE some == objects # <<>>
           all == DOMAIN objects
           optimized0 == [NewIndex EXCEPT !.copy = c.points, !.optimized = TRUE]
           regular0 == [NewIndex EXCEPT !.nodes = objects, !.listed = all, !.entry = some]
<1>1. PICK D \in SUBSET Nat : c.points \in [D -> Point]
  BY DEF Readable, IndexFile, Partial
<1>2. DOMAIN c.points = D /\ c # Missing
  BY <1>1 DEF Readable, IndexFile, Missing
<1>3. NewIndex # None /\ NewIndex.form = "index" /\ None.form = "none"
  BY NewIndexTyped DEF NewIndex, None
<1>4. CASE c.form = "optimized"
  <2> DEFINE r == [threw |-> FALSE, index |-> [optimized0 EXCEPT !.pool = TRUE]]
  <2>1. Loaded(c, objects) = {r}
    BY <1>2, <1>4 DEF Loaded, OptimizedLoaded
  <2>2. r.index.optimized /\ r.index.copy = c.points /\ r.index.form = "index"
    BY DEF NewIndex
  <2>3. Indexed(r.index) = c.points
    BY <1>3, <2>2 DEF Indexed
  <2> QED
    BY <2>1, <2>3
<1>5. CASE c.form # "optimized" /\ kind.method = "hnsw"
  <2> DEFINE r == [threw |-> FALSE, index |-> [regular0 EXCEPT !.pool = TRUE]]
  <2>1. c.points \in Seq(Point) /\ DOMAIN c.points = DOMAIN objects
    BY <1>5 DEF Readable
  <2>2. Len(c.points) = Len(objects)
    BY <2>1, SeqIsPartial, FunctionIsSeq
  <2>3. Loaded(c, objects) = {r}
    BY <1>2, <1>5, <2>2 DEF Loaded, RegularLoaded
  <2>4. ~ r.index.optimized /\ r.index.nodes = objects /\ r.index.form = "index"
    BY DEF NewIndex
  <2>5. Indexed(r.index) = PointsOf(objects)
    BY <1>3, <2>4 DEF Indexed
  <2>6. PointsOf(objects) = [i \in D |-> objects[i].point]
    BY <1>2, <2>1 DEF PointsOf
  <2>7. \A i \in D : objects[i].point = c.points[i]
    BY <1>2, <1>5
  <2>8. PointsOf(objects) = c.points
    BY <1>1, <2>6, <2>7
  <2> QED
    BY <2>3, <2>5, <2>8
<1>6. CASE c.form # "optimized" /\ kind.method # "hnsw"
  <2> DEFINE same == {i \in DOMAIN c.points :
                         i \in DOMAIN objects /\ objects[i].point = c.points[i]}
             full == same # {}
             nodes == Restrict(objects, same)
             made0 == [NewIndex EXCEPT !.nodes = nodes, !.listed = same]
             r == [threw |-> FALSE, index |-> [made0 EXCEPT !.entry = full]]
  <2>1. same = D /\ same = DOMAIN c.points
    BY <1>2, <1>6
  <2>2. SmallWorldLoaded(c, objects) = {r}
    BY <1>6, <2>1 DEF SmallWorldLoaded
  <2>3. Loaded(c, objects) = {r}
    BY <1>2, <1>6, <2>2 DEF Loaded
  <2>4. ~ r.index.optimized /\ r.index.nodes = nodes /\ r.index.form = "index"
    BY DEF NewIndex
  <2>5. Indexed(r.index) = PointsOf(nodes)
    BY <1>3, <2>4 DEF Indexed
  <2>6. nodes = [i \in D |-> objects[i]]
    BY <2>1 DEF Restrict
  <2> HIDE DEF nodes
  <2>7. PointsOf(nodes) = [i \in D |-> objects[i].point]
    BY <2>6 DEF PointsOf
  <2>8. \A i \in D : objects[i].point = c.points[i]
    BY <1>2, <1>6
  <2>9. PointsOf(nodes) = c.points
    BY <1>1, <2>7, <2>8
  <2> QED
    BY <2>3, <2>5, <2>9
<1> QED
  BY <1>4, <1>5, <1>6

-----------------------------------------------------------------------------
(* The steps keep an index that can be searched ...                        *)

LEMMA CompleteAfterCreating ==
    ASSUME LoadInv, NEW skip \in BOOLEAN, CreateIndex(skip)
    PROVE  Complete'
<1> USE DEF LoadInv, WrapperInv, StateTyped
<1> DEFINE optimized == kind.optimizable /\ ~ skip /\ data # <<>>
           some == data # <<>>
           copy == IF optimized THEN PointsOf(data) ELSE <<>>
<1>1. data' = data /\ kind' = kind
  BY DEF CreateIndex
<1>2. optimized => Len(copy) = Len(data)
  BY PointsTyped
<1>3. PICK S \in Lists : index' = [NewIndex EXCEPT !.nodes = data, !.listed = S, !.entry = some,
                        !.params = TRUE, !.pool = some, !.optimized = optimized, !.copy = copy]
  BY DEF CreateIndex, Built
<1>4. \A i \in DOMAIN data : \E j \in S : data[i].point = data[j].point
  BY DEF Lists
<1>5. (optimized => some) /\ (some <=> DOMAIN data # {})
  BY SeqIsPartial
<1> HIDE DEF optimized, copy, some
<1>6. /\ index'.nodes = data /\ index'.listed = S /\ (index'.entry <=> some) /\ index'.params
      /\ (index'.pool <=> some) /\ (index'.optimized <=> optimized)
      /\ index'.copy = copy
  BY <1>3 DEF NewIndex
<1> QED
  BY <1>1, <1>2, <1>4, <1>5, <1>6 DEF Complete

LEMMA CompleteAfterLoading ==
    ASSUME LoadInv, NEW f \in Files, NEW loadData \in BOOLEAN, LoadIndex(f, loadData)
    PROVE  Complete'
<1> USE DEF LoadInv, WrapperInv, StateTyped
<1> DEFINE read == IF loadData THEN ReadData(files[f].data)
                   ELSE [threw |-> FALSE, objects |-> data]
<1>1. files[f].index \in Readable \cup {Missing} /\ files[f].data \in DataFile \cup {Missing}
  OBVIOUS
<1>2. read.objects \in Seq(Object)
  <2>1. CASE loadData
    BY <1>1, <2>1, ReadTyped
  <2>2. CASE ~ loadData
    BY <2>2
  <2> QED
    BY <2>1, <2>2
<1>3. /\ data' = read.objects /\ kind' = kind
      /\ IF read.threw THEN failed' = TRUE
         ELSE \E result \in Loaded(files[f].index, read.objects) :
                  /\ index' = [result.index EXCEPT !.params = ~ result.threw]
                  /\ failed' = result.threw
  BY DEF LoadIndex
<1> HIDE DEF read
<1>4. CASE read.threw
  BY <1>3, <1>4 DEF Complete
<1>5. CASE ~ read.threw
  <2>1. PICK result \in Loaded(files[f].index, read.objects) :
            /\ index' = [result.index EXCEPT !.params = ~ result.threw]
            /\ failed' = result.threw
    BY <1>3, <1>5
  <2>2. CASE result.threw
    BY <2>1, <2>2 DEF Complete
  <2>3. CASE ~ result.threw
    <3>1. result.index \in IndexType
      BY <1>1, <1>2, LoadedFollows
    <3> DEFINE set == ~ result.threw
    <3>2. set
      BY <2>3
    <3>3. index' = [result.index EXCEPT !.params = set]
      BY <2>1
    <3> HIDE DEF set
    <3>4. /\ index'.nodes = result.index.nodes /\ index'.copy = result.index.copy
          /\ index'.optimized = result.index.optimized /\ index'.entry = result.index.entry
          /\ index'.pool = result.index.pool /\ index'.params = set
          /\ index'.listed = result.index.listed
      BY <3>1, <3>3 DEF IndexType
    <3>5. /\ DOMAIN result.index.nodes # {} => result.index.entry
          /\ kind.method = "hnsw" /\ (DOMAIN result.index.nodes # {} \/ result.index.optimized)
                => result.index.pool
          /\ result.index.optimized => DOMAIN result.index.nodes = {}
          /\ kind.method = "hnsw" /\ ~ result.index.optimized
                => DOMAIN result.index.nodes = DOMAIN read.objects
          /\ result.index.listed = DOMAIN result.index.nodes
      BY <1>1, <1>2, <2>3, LoadedComplete
    <3> QED
      BY <1>3, <3>2, <3>4, <3>5 DEF Complete
  <2> QED
    BY <2>2, <2>3
<1> QED
  BY <1>4, <1>5

(* ... and files that can be loaded.                                       *)

\* A write that does not throw has written everything.
LEMMA Written ==
    ASSUME NEW old, NEW c, NEW w \in Writes(old, c), ~ w.threw
    PROVE  w.file = c
<1> DEFINE Part(points) == [c EXCEPT !.whole = FALSE, !.points = points]
<1>1. \/ w \in {[threw |-> FALSE, file |-> c], [threw |-> TRUE, file |-> old]}
      \/ \E points \in Cut(c) : w = [threw |-> TRUE, file |-> Part(points)]
  BY Zenon DEF Writes
<1> HIDE DEF Part
<1> QED
  BY <1>1

\* What is saved of an index whose nodes are not gone is what it indexes, if no
\* two nodes of a small-world graph have one id; then no link is loose.
LEMMA ContentIndexed ==
    ASSUME NEW ix \in IndexType, NEW objects, Follows(ix, objects),
           ~ (ix.optimized /\ DOMAIN ix.nodes = {}),
           ix.optimized /\ DOMAIN ix.nodes # {} => Len(ix.copy) = Len(ix.nodes),
           \A i \in DOMAIN ix.nodes : \E j \in ix.listed : ix.nodes[i].point = ix.nodes[j].point,
           kind.method = "hnsw" \/ IsInjective(Indexed(ix))
    PROVE  /\ Content(ix).points = Indexed(ix)
           /\ ~ ix.optimized => ~ Content(ix).loose
<1>1. PICK D \in SUBSET Nat : ix.nodes \in [D -> Object]
  BY DEF IndexType, Partial
<1>2. ix.copy \in Seq(Point) /\ DOMAIN ix.nodes = D /\ ix.listed \in SUBSET D
  BY <1>1 DEF IndexType, Follows
<1>3. CASE ix.optimized
  <2>1. Len(ix.copy) = Len(ix.nodes)
    BY <1>3
  <2>2. SubSeq(ix.copy, 1, Len(ix.nodes)) = ix.copy
    BY <1>2, <2>1, SubSeqFull
  <2> QED
    BY <1>3, <2>2, IndexedTyped DEF Content
<1>4. CASE ~ ix.optimized
  <2>1. Indexed(ix) = [i \in D |-> ix.nodes[i].point]
    BY <1>2, <1>4, IndexedTyped
  <2>2. ix.listed = D
    <3>1. CASE kind.method = "hnsw"
      BY <1>2, <3>1 DEF Follows
    <3>2. ASSUME IsInjective(Indexed(ix)), NEW i \in D PROVE i \in ix.listed
      <4>1. PICK j \in ix.listed : ix.nodes[i].point = ix.nodes[j].point
        BY <1>2, <3>2
      <4>2. j \in D /\ Indexed(ix)[i] = Indexed(ix)[j]
        BY <1>2, <2>1, <4>1
      <4>3. \A a, b \in D : Indexed(ix)[a] = Indexed(ix)[b] => a = b
        BY <2>1, <3>2 DEF IsInjective
      <4> QED
        BY <4>1, <4>2, <4>3
    <3> QED
      BY <1>2, <3>1, <3>2
  <2>3. Restrict(PointsOf(ix.nodes), D) = PointsOf(ix.nodes)
    BY <1>1, PartialPoints
  <2>4. Indexed(ix) = PointsOf(ix.nodes)
    BY <1>4, IndexedTyped
  <2> QED
    BY <1>2, <1>4, <2>2, <2>3, <2>4 DEF Content
<1> QED
  BY <1>3, <1>4

LEMMA RestorableAfterSaving ==
    ASSUME LoadInv, NEW f \in Files, NEW saveData \in BOOLEAN, SaveIndex(f, saveData)
    PROVE  Restorable'
<1> USE DEF LoadInv, WrapperInv, StateTyped
<1> DEFINE dataFile == [form |-> "data", whole |-> TRUE, points |-> PointsOf(data)]
<1>1. index # None /\ ~ failed /\ kind' = kind /\ index \in IndexType
  BY DEF SaveIndex
<1>2. PICK d \in IF saveData THEN Writes(files[f].data, dataFile)
                 ELSE {[threw |-> FALSE, file |-> files[f].data]} :
         \E x \in IF d.threw THEN {[threw |-> TRUE, file |-> files[f].index]}
                  ELSE Writes(files[f].index, Content(index)) :
             /\ files' = [files EXCEPT ![f] = [index |-> x.file, data |-> d.file]]
             /\ saved' = [saved EXCEPT ![f] = IF x.threw THEN None ELSE ToRestore(saveData)]
  BY DEF SaveIndex
<1>3. PICK x \in IF d.threw THEN {[threw |-> TRUE, file |-> files[f].index]}
                 ELSE Writes(files[f].index, Content(index)) :
         /\ files' = [files EXCEPT ![f] = [index |-> x.file, data |-> d.file]]
         /\ saved' = [saved EXCEPT ![f] = IF x.threw THEN None ELSE ToRestore(saveData)]
  BY <1>2
<1> HIDE DEF dataFile
<1> DEFINE record == IF x.threw THEN None ELSE ToRestore(saveData)
           gone == index.optimized /\ DOMAIN index.nodes = {}
<1>4. record \in Record \cup {None}
  <2>1. Indexed(index) \in Partial(Point) /\ gone \in BOOLEAN
    BY <1>1, IndexedTyped
  <2>2. \/ record = None
        \/ record = [form |-> "saved", points |-> Indexed(index), withData |-> saveData,
                     loaded |-> gone]
    BY DEF ToRestore
  <2> HIDE DEF gone, record
  <2> QED
    BY <2>1, <2>2 DEF Record
<1>5. ASSUME Due(record) PROVE Matches(x.file, d.file, record)
  <2>1. /\ ~ x.threw /\ ~ added /\ (saveData \/ index.optimized)
        /\ record = [form |-> "saved", points |-> Indexed(index), withData |-> saveData,
                     loaded |-> gone]
    BY <1>5 DEF ToRestore, Due
  <2>2. /\ ~ gone /\ record.points = Indexed(index) /\ record.withData = saveData
        /\ kind.method = "hnsw" \/ IsInjective(Indexed(index))
    <3> HIDE DEF gone, record
    <3> QED
      BY <1>5, <2>1 DEF Due
  <2>3. ~ d.threw /\ x.file = Content(index)
    <3>1. ~ d.threw
      BY <2>1
    <3> QED
      BY <2>1, <3>1, Written
  <2>4. saveData => d.file = dataFile
    BY <2>3, Written
  <2>5. /\ Content(index).points = Indexed(index)
        /\ ~ index.optimized => ~ Content(index).loose
    <3>1. /\ Follows(index, data)
          /\ index.optimized /\ DOMAIN index.nodes # {} => Len(index.copy) = Len(index.nodes)
          /\ \A i \in DOMAIN index.nodes : \E j \in index.listed :
                 index.nodes[i].point = index.nodes[j].point
      BY <1>1 DEF Complete
    <3> QED
      BY <1>1, <2>2, <3>1, ContentIndexed
  <2>6. /\ Content(index).whole /\ Content(index) # Missing
        /\ Content(index).form = "optimized" <=> index.optimized
    BY DEF Content, Missing
  <2>7. /\ dataFile # Missing /\ dataFile.whole
        /\ dataFile.points = [i \in DOMAIN data |-> data[i].point]
    BY DEF dataFile, Missing, PointsOf
  <2>8. ASSUME ~ index.optimized
        PROVE  /\ \A i \in DOMAIN Indexed(index) :
                     /\ i \in DOMAIN dataFile.points
                     /\ dataFile.points[i] = Indexed(index)[i]
               /\ kind.method = "hnsw" => DOMAIN Indexed(index) = DOMAIN dataFile.points
    <3>1. Indexed(index) = [i \in DOMAIN index.nodes |-> index.nodes[i].point]
      BY <1>1, <2>8, IndexedTyped
    <3>2. /\ DOMAIN index.nodes \subseteq DOMAIN data
          /\ \A i \in DOMAIN index.nodes : index.nodes[i] = data[i]
      BY <1>1 DEF Follows
    <3>3. kind.method = "hnsw" => DOMAIN index.nodes = DOMAIN data
      BY <1>1, <2>1, <2>8 DEF Complete
    <3> QED
      BY <2>7, <3>1, <3>2, <3>3
  <2> HIDE DEF record, gone
  <2> QED
    BY <2>1, <2>2, <2>3, <2>4, <2>5, <2>6, <2>7, <2>8 DEF Matches
<1> HIDE DEF record
<1>6. saved' = [saved EXCEPT ![f] = record]
  BY <1>3 DEF record
<1>7. saved' \in [Files -> Record \cup {None}]
  BY <1>4, <1>6 DEF Restorable
<1>8. ASSUME NEW g \in Files, Due(saved'[g])
      PROVE  Matches(files'[g].index, files'[g].data, saved'[g])
  <2>1. CASE g = f
    <3>1. /\ saved'[g] = record /\ files'[g] = [index |-> x.file, data |-> d.file]
      BY <1>3, <1>6, <2>1 DEF Restorable
    <3> QED
      BY <1>5, <1>8, <3>1
  <2>2. CASE g # f
    <3>1. saved'[g] = saved[g] /\ files'[g] = files[g]
      BY <1>3, <1>6, <2>2 DEF Restorable
    <3> QED
      BY <1>8, <3>1 DEF Restorable
  <2> QED
    BY <2>1, <2>2
<1> QED
  BY <1>1, <1>7, <1>8 DEF Restorable, Matches, Due

LEMMA RestorableStays ==
    ASSUME Restorable, UNCHANGED <<kind, files, saved>>
    PROVE  Restorable'
BY DEF Restorable, Matches, Due

THEOREM LoadInvariant == Spec => []LoadInv
<1>1. Init => Complete /\ Restorable
  BY DEF Init, Complete, Restorable, Due
<1>2. LoadInv /\ WrapperInv' /\ [Next]_vars => LoadInv'
  <2> SUFFICES ASSUME LoadInv, WrapperInv', [Next]_vars PROVE Complete' /\ Restorable'
    BY DEF LoadInv
  <2>1. ASSUME NEW p \in Point, AddDataPoint(p) PROVE Complete' /\ Restorable'
    <3>1. Restorable'
      BY <2>1, RestorableStays DEF AddDataPoint, LoadInv
    <3>2. /\ index' = index /\ failed' = failed /\ added' /\ kind' = kind
      BY <2>1 DEF AddDataPoint
    <3>3. Complete'
      BY <3>2 DEF LoadInv, Complete
    <3> QED
      BY <3>1, <3>3
  <2>2. ASSUME NEW skip \in BOOLEAN, CreateIndex(skip) PROVE Complete' /\ Restorable'
    <3>1. Restorable'
      BY <2>2, RestorableStays DEF CreateIndex, LoadInv
    <3> QED
      BY <2>2, <3>1, CompleteAfterCreating
  <2>3. ASSUME NEW f \in Files, NEW b \in BOOLEAN, LoadIndex(f, b)
        PROVE  Complete' /\ Restorable'
    <3>1. Restorable'
      BY <2>3, RestorableStays DEF LoadIndex, LoadInv
    <3> QED
      BY <2>3, <3>1, CompleteAfterLoading
  <2>4. ASSUME NEW f \in Files, NEW b \in BOOLEAN, SaveIndex(f, b)
        PROVE  Complete' /\ Restorable'
    <3>1. Complete'
      BY <2>4 DEF SaveIndex, LoadInv, Complete
    <3> QED
      BY <2>4, <3>1, RestorableAfterSaving
  <2>5. CASE UNCHANGED vars
    BY <2>5, RestorableStays DEF vars, LoadInv, Complete
  <2> QED
    BY <2>1, <2>2, <2>3, <2>4, <2>5 DEF Next
<1>3. Init /\ WrapperInv => LoadInv
  BY <1>1 DEF LoadInv
<1> QED
  BY <1>2, <1>3, WrapperInvariant, PTL DEF Spec

-----------------------------------------------------------------------------
(* The properties.                                                         *)

\* A query follows no null pointer, unless the last load threw or the index was
\* made without points: the checks of nmslib.cc 127-140, and what createIndex
\* and loadIndex set for the searches, hnsw.cc 345-470 and 941-1074,
\* small_world_rand.cc 838-919.
THEOREM QueriesAreDefined == Spec => []QueryDefined
<1>1. LoadInv => QueryDefined
  <2> SUFFICES ASSUME LoadInv, Query = "undefined", ~ failed PROVE Indexed(index) = <<>>
    BY DEF QueryDefined
  <2>1. index # None
    BY DEF Query
  <2>2. index \in IndexType
    BY <2>1 DEF LoadInv, WrapperInv, StateTyped
  <2>3. /\ index.params
        /\ DOMAIN index.nodes # {} => index.entry
        /\ kind.method = "hnsw" /\ (DOMAIN index.nodes # {} \/ index.optimized) => index.pool
    BY <2>1 DEF LoadInv, Complete
  <2>4. Follows(index, data)
    BY <2>1 DEF LoadInv, WrapperInv
  <2>5. CASE index.optimized
    <3>1. kind.method = "hnsw"
      BY <2>4, <2>5 DEF Follows
    <3> QED
      BY <2>1, <2>2, <2>3, <2>5, <3>1, IndexedTyped DEF Query
  <2>6. CASE ~ index.optimized
    <3>1. DOMAIN index.nodes = {} /\ kind.method = "hnsw"
      BY <2>1, <2>3, <2>6 DEF Query
    <3>2. index.nodes \in Seq(Object)
      BY <2>4, <3>1 DEF Follows
    <3>3. index.nodes = <<>> /\ Len(index.nodes) = 0
      BY <3>1, <3>2, SeqIsPartial, EmptySeq
    <3>4. Indexed(index) \in Seq(Point) /\ Len(Indexed(index)) = 0
      BY <2>2, <2>6, <3>2, <3>3, IndexedTyped, PointsTyped
    <3> QED
      BY <3>4, EmptySeq
  <2> QED
    BY <2>5, <2>6
<1> QED
  BY <1>1, LoadInvariant, PTL

\* An index that was built here, or loaded with its objects, and saved without
\* an exception comes back from its files, whatever was done to the wrapper
\* since; in small_world_rand if no two of its objects have one id: saveIndex and
\* loadIndex of nmslib.cc 98-125 over both file formats of hnsw and that of
\* small_world_rand.
THEOREM SavedIndexComesBack == Spec => []BuiltIndexReturns
<1>1. LoadInv => BuiltIndexReturns
  <2> SUFFICES ASSUME LoadInv, NEW f \in Files, Due(saved[f])
               PROVE  Restored(f) = {[threw |-> FALSE, points |-> saved[f].points]}
    BY DEF BuiltIndexReturns, Due
  <2> DEFINE c == files[f].index
             d == files[f].data
             read == IF saved[f].withData THEN ReadData(d)
                     ELSE [threw |-> FALSE, objects |-> data]
  <2>1. /\ c \in Readable \cup {Missing} /\ d \in DataFile \cup {Missing}
        /\ made \in Nat /\ data \in Seq(Object)
    BY DEF LoadInv, WrapperInv, StateTyped
  <2>2. Matches(c, d, saved[f])
    BY DEF LoadInv, Restorable
  <2>3. c \in Readable /\ c.whole /\ c.points = saved[f].points
    BY <2>1, <2>2 DEF Matches
  <2>4. ~ read.threw
    <3>1. CASE saved[f].withData
      BY <2>2, <3>1 DEF Matches, ReadData
    <3>2. CASE ~ saved[f].withData
      BY <3>2
    <3> QED
      BY <3>1, <3>2
  <2>5. read.objects \in Seq(Object)
    <3>1. CASE saved[f].withData
      BY <2>1, <3>1, ReadTyped
    <3>2. CASE ~ saved[f].withData
      BY <2>1, <3>2
    <3> QED
      BY <3>1, <3>2
  <2>6. ASSUME c.form # "optimized"
        PROVE  /\ ~ c.loose
               /\ \A i \in DOMAIN c.points :
                     i \in DOMAIN read.objects /\ read.objects[i].point = c.points[i]
               /\ kind.method = "hnsw" => DOMAIN c.points = DOMAIN read.objects
    <3>1. /\ saved[f].withData /\ d # Missing /\ ~ c.loose
          /\ \A i \in DOMAIN c.points : i \in DOMAIN d.points /\ d.points[i] = c.points[i]
          /\ kind.method = "hnsw" => DOMAIN c.points = DOMAIN d.points
      BY <2>2, <2>6 DEF Matches
    <3>2. read.objects = NewObjects(d.points)
      BY <3>1 DEF ReadData
    <3>3. /\ DOMAIN NewObjects(d.points) = DOMAIN d.points
          /\ \A i \in DOMAIN d.points : NewObjects(d.points)[i].point = d.points[i]
      BY DEF NewObjects
    <3> HIDE DEF c, d, read
    <3> QED
      BY <3>1, <3>2, <3>3
  <2> HIDE DEF read
  <2>7. PICK r \in Loaded(c, read.objects) :
            /\ Loaded(c, read.objects) = {r} /\ ~ r.threw /\ Indexed(r.index) = c.points
    BY <2>3, <2>5, <2>6, PointsBack
  <2>8. Restored(f) = {[threw |-> read.threw \/ s.threw, points |-> Indexed(s.index)] :
                          s \in Loaded(c, read.objects)}
    BY DEF Restored, read
  <2>9. Restored(f) = {[threw |-> read.threw \/ r.threw, points |-> Indexed(r.index)]}
    BY <2>7, <2>8
  <2>10. (read.threw \/ r.threw) = FALSE
    BY <2>4, <2>7
  <2> QED
    BY <2>3, <2>7, <2>9, <2>10
<1> QED
  BY <1>1, LoadInvariant, PTL
=============================================================================
