-------------------------- MODULE ThreadPoolProofs --------------------------
(* Proofs about ThreadPool, for every range of ids, number of workers and   *)
(* set of throwing jobs.                                                    *)
EXTENDS ThreadPool, FiniteSetTheorems, TLAPS

\* The number of workers is a natural number.
LEMMA ThreadQtyNat == numThreads \in ThreadQtys => numThreads \in Nat
BY ThreadsAssumption DEF ThreadQtys

\* The number of workers does not change during a call.
LEMMA SameThreads ==
    ASSUME [Next]_vars
    PROVE  numThreads' = numThreads /\ Threads' = Threads
BY DEF Next, vars, Caller, Finished, Worker, Threads, Enter, SequentialCall,
   SequentialReturn, SequentialThrow, SequentialUnwind, SequentialEnd, Spawn,
   AllSpawned, Join, Return, Fetch, FnReturns, FnThrows, RecordException, StoreEnd

\* A counter below SizeMod - 1 does not wrap when it is incremented, and the
\* incremented counter is always a value of size_t.
LEMMA Increment ==
    ASSUME NEW n \in Ids
    PROVE  /\ (n + 1) % SizeMod \in Ids
           /\ n + 1 < SizeMod => (n + 1) % SizeMod = n + 1
BY RangeAssumption DEF Ids

-----------------------------------------------------------------------------
\* Every step keeps the types.
LEMMA TypeStep ==
    ASSUME TypeOK, [Next]_vars
    PROVE  TypeOK'
<1>0. numThreads' = numThreads /\ Threads' = Threads /\ numThreads \in Nat
  BY SameThreads, ThreadQtyNat DEF TypeOK
<1> USE <1>0 DEF TypeOK
<1>1. CASE Enter
  BY <1>1 DEF Enter
<1>2. CASE SequentialCall
  BY <1>2 DEF SequentialCall
<1>3. CASE SequentialReturn
  BY <1>3, Increment DEF SequentialReturn
<1>4. CASE SequentialThrow
  BY <1>4 DEF SequentialThrow
<1>5. CASE SequentialUnwind \/ SequentialEnd \/ AllSpawned \/ Return
  BY <1>5 DEF SequentialUnwind, SequentialEnd, AllSpawned, Return
<1>6. CASE Spawn
  BY <1>6 DEF Spawn, Threads
<1>7. CASE Join
  BY <1>7 DEF Join
<1>8. ASSUME NEW t \in Threads, Worker(t) PROVE TypeOK'
  <2>1. CASE Fetch(t)
    BY <2>1, Increment DEF Fetch
  <2>2. CASE FnReturns(t)
    BY <2>2 DEF FnReturns
  <2>3. CASE FnThrows(t)
    BY <2>3 DEF FnThrows
  <2>4. CASE RecordException(t)
    BY <2>4 DEF RecordException
  <2>5. CASE StoreEnd(t)
    BY <2>5, RangeAssumption DEF StoreEnd, Ids
  <2> QED BY <1>8, <2>1, <2>2, <2>3, <2>4, <2>5 DEF Worker
<1>9. CASE UNCHANGED vars
  BY <1>9 DEF vars
<1> QED
  BY <1>1, <1>2, <1>3, <1>4, <1>5, <1>6, <1>7, <1>8, <1>9
  DEF Next, Caller, Finished

\* Every variable of ParallelFor keeps its type, whether or not the counter
\* wraps (lines 62-114).
THEOREM TypeCorrect == Spec => []TypeOK
<1>1. Init => TypeOK
  BY RangeAssumption, ThreadQtyNat DEF Init, TypeOK, Ids
<1>2. TypeOK /\ [Next]_vars => TypeOK'
  BY TypeStep
<1> QED BY <1>1, <1>2, PTL DEF Spec

-----------------------------------------------------------------------------
\* The workers that have left are finitely many, at most numThreads, and fewer
\* as long as one worker has not left.
LEMMA DoneFinite ==
    ASSUME TypeOK
    PROVE  /\ IsFiniteSet(Done)
           /\ Cardinality(Done) \in 0 .. numThreads
           /\ \A t \in Threads : pc[t] # "done" => Cardinality(Done) < numThreads
<1>0. numThreads \in Nat
  BY ThreadQtyNat DEF TypeOK
<1>1. IsFiniteSet(Threads) /\ Cardinality(Threads) = numThreads
  BY <1>0, FS_Interval DEF Threads
<1>2. Done \in SUBSET Threads
  BY DEF Done
<1>3. /\ IsFiniteSet(Done)
      /\ Cardinality(Done) <= Cardinality(Threads)
      /\ Cardinality(Threads) = Cardinality(Done) => Threads = Done
  BY <1>1, <1>2, FS_Subset
<1>4. Cardinality(Done) \in Nat
  BY <1>3, FS_CardinalityType
<1>5. \A t \in Threads : pc[t] # "done" => Threads # Done
  BY DEF Done
<1> QED BY <1>0, <1>1, <1>3, <1>4, <1>5

\* Under NoWrap, a worker that has not left and the sequential loop always
\* find a counter that can be incremented without wrapping.
LEMMA Room ==
    ASSUME NoWrap, TypeOK, CounterInv
    PROVE  /\ \A t \in Threads : pc[t] # "done" => current + 1 < SizeMod
           /\ current < End => current + 1 < SizeMod
<1>1. Cardinality(Done) \in Nat /\ numThreads \in Nat
  BY DoneFinite, ThreadQtyNat DEF TypeOK
<1>2. current \in Nat /\ End \in Nat /\ SizeMod \in Nat
  BY RangeAssumption DEF TypeOK, Ids
<1>3. End + numThreads < SizeMod /\ current <= End + Cardinality(Done)
  BY DEF NoWrap, CounterInv, TypeOK
<1>4. \A t \in Threads : pc[t] # "done" => Cardinality(Done) < numThreads
  BY DoneFinite
<1> QED BY <1>1, <1>2, <1>3, <1>4

\* A worker that leaves adds one to the number of workers that have left.
LEMMA Leaves ==
    ASSUME NEW t \in Threads, TypeOK, pc[t] # "done",
           pc' = [pc EXCEPT ![t] = "done"], Threads' = Threads
    PROVE  Cardinality(Done') = Cardinality(Done) + 1
<1>1. Done' = Done \cup {t} /\ t \notin Done
  BY DEF Done, TypeOK
<1> QED BY <1>1, DoneFinite, FS_AddElement

\* A step that lets no worker leave keeps their number.
LEMMA Stays ==
    ASSUME NEW t \in Threads, NEW s, TypeOK, pc[t] # "done", s # "done",
           pc' = [pc EXCEPT ![t] = s], Threads' = Threads
    PROVE  Done' = Done
BY DEF Done, TypeOK

LEMMA CounterStep ==
    ASSUME NoWrap, IInv, [Next]_vars
    PROVE  CounterInv'
<1>n. numThreads' = numThreads /\ Threads' = Threads /\ numThreads \in Nat
  BY SameThreads, ThreadQtyNat DEF IInv, TypeOK
<1> USE <1>n, RangeAssumption
<1> DEFINE C == Cardinality(Done)
<1>1. C \in Nat /\ current \in Nat /\ Start \in Nat /\ End \in Nat
  BY DoneFinite DEF IInv, TypeOK, Ids
<1>2. CounterInv /\ TypeOK /\ Start <= current /\ current <= End + C /\ Start <= End
  BY DEF IInv, CounterInv
<1>3. ASSUME UNCHANGED <<current, pc>> PROVE CounterInv'
  BY <1>2, <1>3 DEF CounterInv, Done
<1>4. CASE Enter \/ SequentialCall \/ SequentialThrow \/ SequentialUnwind
           \/ SequentialEnd \/ AllSpawned \/ Join \/ Return
  BY <1>3, <1>4 DEF Enter, SequentialCall, SequentialThrow, SequentialUnwind,
     SequentialEnd, AllSpawned, Join, Return
<1>5. CASE SequentialReturn
  <2>1. current' = (current + 1) % SizeMod /\ Done' = Done /\ current < End
    BY <1>5 DEF SequentialReturn, Done, IInv, TypeOK, HoldersInv, Pending, Jobs
  <2>2. current' = current + 1
    BY <2>1, <1>2, Room, Increment DEF IInv, TypeOK
  <2> HIDE DEF C
  <2>3. Start <= current' /\ current' <= End + C
    BY <2>1, <2>2, <1>1, <1>2
  <2> QED BY <2>1, <2>3 DEF CounterInv, C
<1>6. CASE Spawn
  <2>1. spawned + 1 \in Threads /\ pc[spawned + 1] = "unborn"
    BY <1>6 DEF Spawn, Threads, IInv, TypeOK, CallerInv
  <2>2. Done' = Done /\ current' = current
    BY <2>1, <1>6, <1>2, Stays DEF Spawn
  <2> QED BY <1>2, <2>2 DEF CounterInv
<1>7. ASSUME NEW t \in Threads, Worker(t) PROVE CounterInv'
  <2>1. CASE Fetch(t)
    <3>1. current' = current + 1
      BY <2>1, <1>2, Room, Increment DEF Fetch, TypeOK
    <3>2. CASE current >= End
      <4>1. Cardinality(Done') = C + 1
        BY <2>1, <3>2, <1>2, Leaves DEF Fetch
      <4> HIDE DEF C
      <4>2. Start <= current' /\ current' <= End + (C + 1)
        BY <1>1, <1>2, <3>1
      <4> QED BY <4>1, <4>2 DEF CounterInv
    <3>3. CASE current < End
      <4>1. Done' = Done
        <5>1. pc' = [pc EXCEPT ![t] = "run"] /\ pc[t] # "done"
          BY <2>1, <3>3, <1>1 DEF Fetch
        <5> QED BY <5>1, <1>2, Stays
      <4> HIDE DEF C
      <4>2. Start <= current' /\ current' <= End + C
        BY <1>1, <1>2, <3>1, <3>3
      <4> QED BY <4>1, <4>2 DEF CounterInv, C
    <3> QED BY <1>1, <3>2, <3>3
  <2>2. CASE FnReturns(t) \/ FnThrows(t) \/ RecordException(t)
    <3>1. Done' = Done /\ current' = current
      BY <2>2, <1>2, Stays DEF FnReturns, FnThrows, RecordException
    <3> QED BY <1>2, <3>1 DEF CounterInv
  <2>3. CASE StoreEnd(t)
    <3>1. current' = End /\ Cardinality(Done') = C + 1
      BY <2>3, <1>2, Leaves DEF StoreEnd
    <3> HIDE DEF C
    <3>2. Start <= current' /\ current' <= End + (C + 1)
      BY <1>1, <1>2, <3>1
    <3> QED BY <3>1, <3>2 DEF CounterInv
  <2> QED BY <1>7, <2>1, <2>2, <2>3 DEF Worker
<1>8. CASE UNCHANGED vars
  BY <1>3, <1>8 DEF vars
<1> QED
  BY <1>4, <1>5, <1>6, <1>7, <1>8 DEF Next, Caller, Finished

-----------------------------------------------------------------------------
\* The caller and the workers stay in step.
LEMMA CallerStep ==
    ASSUME IInv, [Next]_vars
    PROVE  CallerInv'
<1>n. numThreads' = numThreads /\ Threads' = Threads /\ numThreads \in Nat
  BY SameThreads, ThreadQtyNat DEF IInv, TypeOK
<1> USE <1>n DEF IInv, TypeOK, CallerInv, Over
<1>1. CASE Enter
  BY <1>1 DEF Enter
<1>2. CASE SequentialCall \/ SequentialReturn \/ SequentialThrow
  BY <1>2 DEF SequentialCall, SequentialReturn, SequentialThrow
<1>3. CASE SequentialUnwind \/ SequentialEnd
  BY <1>3 DEF SequentialUnwind, SequentialEnd
<1>4. CASE Spawn
  BY <1>4 DEF Spawn, Threads
<1>5. CASE AllSpawned \/ Return
  BY <1>5 DEF AllSpawned, Return
<1>6. CASE Join
  <2>1. \A t \in Threads : t <= joined' => t <= joined \/ t = joined + 1
    BY <1>6 DEF Join, Threads
  <2> QED BY <1>6, <2>1 DEF Join
<1>7. ASSUME NEW t \in Threads, Worker(t) PROVE CallerInv'
  BY <1>7 DEF Worker, Fetch, FnReturns, FnThrows, RecordException, StoreEnd
<1>8. CASE UNCHANGED vars
  BY <1>8 DEF vars
<1> QED
  BY <1>1, <1>2, <1>3, <1>4, <1>5, <1>6, <1>7, <1>8 DEF Next, Caller, Finished

\* Nobody calls the function with the same id twice: an id is called behind
\* the counter, or by the sequential loop at the counter.
LEMMA CallsStep ==
    ASSUME NoWrap, IInv, [Next]_vars
    PROVE  CallsInv'
<1>n. numThreads' = numThreads /\ Threads' = Threads /\ numThreads \in Nat
  BY SameThreads, ThreadQtyNat DEF IInv, TypeOK
<1> USE <1>n, RangeAssumption DEF IInv, TypeOK
<1>0. current \in Nat /\ End \in Nat /\ Start \in Nat /\ Start <= current
  BY DEF Ids, CounterInv
<1>1. CASE Enter \/ Join \/ AllSpawned \/ SequentialEnd \/ SequentialThrow \/ SequentialUnwind
  BY <1>1 DEF Enter, Join, AllSpawned, SequentialEnd, SequentialThrow, SequentialUnwind, CallsInv
<1>2. CASE SequentialCall
  <2>1. /\ main = "sequential" /\ main' = "calling" /\ current < End
        /\ current' = current /\ calls' = [calls EXCEPT ![current] = @ + 1]
        /\ numThreads = 1
    BY <1>2 DEF SequentialCall, CallerInv
  <2>2. current \in Jobs /\ calls[current] = 0
    BY <2>1, <1>0 DEF CallsInv, Jobs
  <2> QED BY <2>1, <2>2 DEF CallsInv
<1>3. CASE SequentialReturn
  <2>1. current' = (current + 1) % SizeMod /\ calls' = calls
    BY <1>3 DEF SequentialReturn
  <2>2. current < End
    BY <1>3 DEF SequentialReturn, HoldersInv, Pending, Jobs
  <2>3. current' = current + 1
    BY <2>1, <2>2, Room, Increment
  <2>4. \A j \in Ids : j \in Nat
    BY DEF Ids
  <2> QED BY <1>0, <2>1, <2>3, <2>4 DEF CallsInv
<1>4. CASE Spawn
  BY <1>4 DEF Spawn, CallsInv
<1>5. CASE Return
  BY <1>5 DEF Return, CallsInv
<1>6. ASSUME NEW t \in Threads, Worker(t) PROVE CallsInv'
  <2>1. CASE Fetch(t)
    <3>1. main \notin {"calling", "unwinding"} /\ (main = "exception" => numThreads # 1)
      BY <2>1 DEF Fetch, CallerInv, Over, Threads
    <3>2. current' = current + 1 /\ main' = main
      BY <2>1, Room, Increment DEF Fetch
    <3>3. \A j \in Ids : j \in Nat
      BY DEF Ids
    <3>4. CASE current >= End
      BY <2>1, <1>0, <3>2, <3>3, <3>4 DEF Fetch, CallsInv
    <3>5. CASE current < End
      <4>1. current \in Jobs /\ calls[current] = 0
        BY <3>1, <3>5, <1>0 DEF CallsInv, Jobs
      <4>2. calls' = [calls EXCEPT ![current] = @ + 1]
        BY <2>1, <3>5, <1>0 DEF Fetch
      <4> QED BY <1>0, <3>1, <3>2, <3>3, <4>1, <4>2 DEF CallsInv
    <3> QED BY <1>0, <3>4, <3>5
  <2>2. CASE FnReturns(t) \/ FnThrows(t) \/ RecordException(t)
    BY <2>2 DEF FnReturns, FnThrows, RecordException, CallsInv
  <2>3. CASE StoreEnd(t)
    <3>1. current' = End /\ calls' = calls /\ main' = main
      BY <2>3 DEF StoreEnd
    <3>2. \A j \in Jobs : j < End
      BY DEF Jobs
    <3> QED BY <3>1, <3>2 DEF CallsInv
  <2> QED BY <1>6, <2>1, <2>2, <2>3 DEF Worker
<1>7. CASE UNCHANGED vars
  BY <1>7 DEF vars, CallsInv
<1> QED
  BY <1>1, <1>2, <1>3, <1>4, <1>5, <1>6, <1>7 DEF Next, Caller, Finished

\* A pending call stays with the one thread that made it.
LEMMA HoldersStep ==
    ASSUME NoWrap, IInv, [Next]_vars
    PROVE  HoldersInv'
<1>n. numThreads' = numThreads /\ Threads' = Threads /\ numThreads \in Nat
  BY SameThreads, ThreadQtyNat DEF IInv, TypeOK
<1> USE <1>n, RangeAssumption DEF IInv, TypeOK
<1>0. current \in Nat /\ End \in Nat /\ Start \in Nat /\ Start <= current
  BY DEF Ids, CounterInv
<1>1. CASE Enter \/ Join \/ AllSpawned \/ SequentialEnd \/ SequentialUnwind \/ Return
  BY <1>1 DEF Enter, Join, AllSpawned, SequentialEnd, SequentialUnwind, Return,
     HoldersInv, Pending
<1>2. CASE SequentialCall
  <2>1. /\ current \in Jobs /\ calls[current] = 0
        /\ calls' = [calls EXCEPT ![current] = @ + 1]
        /\ main # "calling" /\ main' = "calling"
        /\ UNCHANGED <<current, pc, id, ended, threw>>
    BY <1>2, <1>0 DEF SequentialCall, CallsInv, CallerInv, Jobs
  <2> QED BY <2>1 DEF HoldersInv, Pending
<1>3. CASE SequentialReturn \/ SequentialThrow
  <2>1. \A t \in Threads : pc[t] # "run"
    BY <1>3 DEF SequentialReturn, SequentialThrow, CallerInv, Threads
  <2> QED BY <1>3, <2>1 DEF SequentialReturn, SequentialThrow, HoldersInv, Pending
<1>4. CASE Spawn
  <2>1. spawned + 1 \in Threads /\ pc[spawned + 1] = "unborn" /\ main = "spawn"
    BY <1>4 DEF Spawn, Threads, CallerInv
  <2> QED BY <1>4, <2>1 DEF Spawn, HoldersInv, Pending
<1>5. ASSUME NEW t \in Threads, Worker(t) PROVE HoldersInv'
  <2>1. CASE Fetch(t) /\ current >= End
    <3>1. /\ pc[t] = "fetch" /\ pc' = [pc EXCEPT ![t] = "done"]
          /\ id' = [id EXCEPT ![t] = current]
          /\ UNCHANGED <<main, calls, ended, threw>>
      BY <2>1, <1>0 DEF Fetch
    <3>2. main # "calling"
      BY <3>1 DEF CallerInv, Threads
    <3> QED BY <3>1, <3>2 DEF HoldersInv, Pending
  <2>2. CASE Fetch(t) /\ current < End
    <3>1. main \notin {"calling", "unwinding"} /\ (main = "exception" => numThreads # 1)
      BY <2>2 DEF Fetch, CallerInv, Over, Threads
    <3>2. current \in Jobs /\ calls[current] = 0
      BY <2>2, <3>1, <1>0 DEF CallsInv, Jobs
    <3>3. /\ pc[t] = "fetch" /\ pc' = [pc EXCEPT ![t] = "run"]
          /\ id' = [id EXCEPT ![t] = current]
          /\ calls' = [calls EXCEPT ![current] = @ + 1]
          /\ UNCHANGED <<main, ended, threw>>
      BY <2>2, <1>0 DEF Fetch
    <3> QED BY <3>1, <3>2, <3>3 DEF HoldersInv, Pending
  <2>3. CASE FnReturns(t) \/ FnThrows(t)
    <3>1. main # "calling"
      BY <2>3 DEF FnReturns, FnThrows, CallerInv, Threads
    <3>2. PICK s \in {"fetch", "catch"} :
            /\ pc[t] = "run" /\ pc' = [pc EXCEPT ![t] = s]
            /\ ended' \cup threw' = (ended \cup threw) \cup {id[t]}
            /\ \/ ended' = ended \cup {id[t]} /\ threw' = threw
               \/ ended' = ended /\ threw' = threw \cup {id[t]}
            /\ UNCHANGED <<main, id, calls>>
      BY <2>3 DEF FnReturns, FnThrows
    <3> QED BY <3>1, <3>2 DEF HoldersInv, Pending
  <2>4. CASE RecordException(t) \/ StoreEnd(t)
    <3>1. main # "calling"
      BY <2>4 DEF RecordException, StoreEnd, CallerInv, Threads
    <3> QED BY <2>4, <3>1 DEF RecordException, StoreEnd, HoldersInv, Pending
  <2> QED BY <1>5, <1>0, <2>1, <2>2, <2>3, <2>4 DEF Worker, Fetch
<1>6. CASE UNCHANGED vars
  BY <1>6 DEF vars, HoldersInv, Pending
<1> QED
  BY <1>1, <1>2, <1>3, <1>4, <1>5, <1>6 DEF Next, Caller, Finished

\* Exceptions are recorded before the range is cut short.
LEMMA ExceptionStep ==
    ASSUME NoWrap, SomeThread, IInv, [Next]_vars
    PROVE  ExceptionInv'
<1>n. numThreads' = numThreads /\ Threads' = Threads /\ numThreads \in Nat
  BY SameThreads, ThreadQtyNat DEF IInv, TypeOK
<1> USE <1>n, RangeAssumption DEF IInv, TypeOK
<1>0. current \in Nat /\ End \in Nat /\ Start \in Nat /\ Start <= current
      /\ \A j \in Ids : j \in Nat
  BY DEF Ids, CounterInv
<1>1. CASE Enter \/ AllSpawned \/ Join
  BY <1>1 DEF Enter, AllSpawned, Join, ExceptionInv, Done
<1>2. CASE SequentialCall
  BY <1>0, <1>2 DEF SequentialCall, ExceptionInv, Done, Jobs
<1>3. CASE SequentialReturn
  <2>1. current < End /\ calls[current] = 1 /\ numThreads = 1 /\ threw = {}
    BY <1>3 DEF SequentialReturn, HoldersInv, Pending, Jobs, CallerInv, ExceptionInv
  <2>2. current' = current + 1
    BY <1>3, <2>1, Room, Increment DEF SequentialReturn
  <2>3. \A t \in Threads : pc[t] = "unborn"
    BY <2>1 DEF CallerInv, Threads
  <2> QED BY <1>3, <1>0, <2>1, <2>2, <2>3 DEF SequentialReturn, ExceptionInv, Done, Jobs
<1>4. CASE SequentialThrow
  BY <1>4 DEF SequentialThrow, ExceptionInv, Done, CallerInv
<1>5. CASE SequentialUnwind \/ SequentialEnd
  BY <1>5, <1>0 DEF SequentialUnwind, SequentialEnd, ExceptionInv, Done
<1>6. CASE Return
  <2>1. \A t \in Threads : pc[t] = "done"
    BY <1>6 DEF Return, CallerInv, Threads
  <2>2. main = "join" /\ numThreads # 1
    BY <1>6 DEF Return, CallerInv
  <2>3. lastException = NoException <=> threw = {}
    BY <2>1, <2>2 DEF ExceptionInv
  <2> QED BY <1>6, <2>2, <2>3 DEF Return, ExceptionInv, Done
<1>7. CASE Spawn
  <2>1. spawned + 1 \in Threads /\ pc[spawned + 1] = "unborn" /\ main = "spawn"
    BY <1>7 DEF Spawn, Threads, CallerInv
  <2> QED BY <1>7, <2>1 DEF Spawn, ExceptionInv, Done
<1>8. ASSUME NEW t \in Threads, Worker(t) PROVE ExceptionInv'
  <2>0. main \notin {"entry", "sequential", "calling", "unwinding"}
    BY <1>8 DEF Worker, Fetch, FnReturns, FnThrows, RecordException, StoreEnd,
       CallerInv, Threads
  <2>1. CASE Fetch(t) /\ current >= End
    <3>1. current' = current + 1 /\ \A j \in Jobs : j < current
      BY <2>1, <1>0, Room, Increment DEF Fetch, Jobs
    <3>2. numThreads # 1 \/ main # "normal"
      BY <2>1 DEF Fetch, CallerInv, Threads, Over
    <3> QED BY <2>0, <2>1, <1>0, <3>1, <3>2 DEF Fetch, ExceptionInv, Done
  <2>2. CASE Fetch(t) /\ current < End
    <3>1. current' = current + 1 /\ current \in Jobs
      BY <2>2, <1>0, Room, Increment DEF Fetch, Jobs
    <3>9. calls[current] = 0
      BY <2>0, <2>2, <1>0, <3>1 DEF Fetch, CallsInv, CallerInv, Over, Threads
    <3>2. /\ pc[t] = "fetch" /\ pc' = [pc EXCEPT ![t] = "run"]
          /\ calls' = [calls EXCEPT ![current] = @ + 1]
          /\ UNCHANGED <<main, lastException, threw>>
      BY <2>2, <1>0 DEF Fetch
    <3>3. main # "normal"
      BY <3>2 DEF CallerInv, Over, Threads
    <3>4. Done' = Done
      BY <3>2 DEF Done
    <3>5. Done # {} => threw # {}
      BY <2>2, <1>0 DEF ExceptionInv
    <3>6. threw = {} => \A j \in Jobs : j < current' => calls'[j] = 1
      <4>1. \A j \in Jobs : j \in Ids
        BY DEF Jobs, Ids
      <4> QED BY <3>1, <3>2, <3>9, <4>1, <1>0 DEF ExceptionInv
    <3> QED BY <2>0, <3>2, <3>3, <3>4, <3>5, <3>6 DEF ExceptionInv
  <2>3. CASE FnReturns(t)
    BY <2>0, <2>3 DEF FnReturns, ExceptionInv, Done
  <2>4. CASE FnThrows(t)
    <3>1. main # "normal"
      BY <2>4 DEF FnThrows, CallerInv, Over, Threads
    <3> QED BY <2>0, <2>4, <3>1 DEF FnThrows, ExceptionInv, Done
  <2>5. CASE RecordException(t)
    <3>1. lastException' # NoException
      BY <2>5, ExceptionAssumption DEF RecordException, Ids
    <3> QED BY <2>0, <2>5, <3>1 DEF RecordException, ExceptionInv, Done
  <2>6. CASE StoreEnd(t)
    <3>1. threw # {} /\ main # "normal"
      BY <2>6 DEF StoreEnd, ExceptionInv
    <3> QED BY <2>0, <2>6, <3>1 DEF StoreEnd, ExceptionInv, Done
  <2> QED BY <1>8, <1>0, <2>1, <2>2, <2>3, <2>4, <2>5, <2>6 DEF Worker, Fetch
<1>9. CASE UNCHANGED vars
  BY <1>9 DEF vars, ExceptionInv, Done
<1> QED
  BY <1>1, <1>2, <1>3, <1>4, <1>5, <1>6, <1>7, <1>8, <1>9 DEF Next, Caller, Finished

-----------------------------------------------------------------------------
\* The inductive invariant holds when there is a worker and the counter has
\* room for one fetch past the end by every worker.
THEOREM Inductive ==
    ASSUME NoWrap, SomeThread
    PROVE  Spec => []IInv
<1>1. Init => IInv
  <2> SUFFICES ASSUME Init PROVE IInv
    OBVIOUS
  <2>1. TypeOK
    BY RangeAssumption, ThreadQtyNat DEF Init, TypeOK, Ids
  <2>2. Done = {}
    BY DEF Init, Done
  <2>3. CounterInv
    BY <2>2, FS_EmptySet, RangeAssumption DEF Init, CounterInv
  <2>4. CallerInv /\ CallsInv /\ HoldersInv
    BY ThreadQtyNat, RangeAssumption
    DEF Init, CallerInv, CallsInv, HoldersInv, Pending, Over, Threads, Ids, Jobs
  <2>5. ExceptionInv
    BY <2>2, RangeAssumption DEF Init, ExceptionInv, Jobs
  <2> QED BY <2>1, <2>3, <2>4, <2>5 DEF IInv
<1>2. IInv /\ [Next]_vars => IInv'
  <2> SUFFICES ASSUME IInv, [Next]_vars PROVE IInv'
    OBVIOUS
  <2>1. TypeOK'
    BY TypeStep DEF IInv
  <2> QED
    BY <2>1, CounterStep, CallerStep, CallsStep, HoldersStep, ExceptionStep DEF IInv
<1> QED BY <1>1, <1>2, PTL DEF Spec

\* No id is given to the job function twice, and none outside [start, end).
THEOREM CalledAtMostOnce ==
    ASSUME NoWrap, SomeThread
    PROVE  Spec => []AtMostOnce
<1>1. IInv => AtMostOnce
  BY DEF IInv, CallsInv, AtMostOnce
<1> QED BY <1>1, Inductive, PTL

\* A normal return means that the function has returned for every id.
THEOREM NormalReturnMeansAll ==
    ASSUME NoWrap, SomeThread
    PROVE  Spec => []NormalMeansAll
<1>1. IInv => NormalMeansAll
  <2> SUFFICES ASSUME IInv, main = "normal" PROVE ended = Jobs
    BY DEF NormalMeansAll
  <2>1. threw = {} /\ End <= current
    <3>1. CASE numThreads = 1
      BY <3>1 DEF IInv, ExceptionInv
    <3>2. CASE numThreads # 1
      <4>1. 1 \in Threads /\ pc[1] = "done"
        BY <3>2, ThreadQtyNat DEF IInv, TypeOK, CallerInv, Over, Threads, SomeThread
      <4> QED BY <4>1 DEF IInv, ExceptionInv, Done
    <3> QED BY <3>1, <3>2
  <2>2. \A t \in Threads : pc[t] # "run"
    BY ThreadQtyNat DEF IInv, CallerInv, Over, Threads
  <2>3. \A j \in Jobs : calls[j] = 1 /\ j \in Ids
    BY <2>1, RangeAssumption DEF IInv, TypeOK, ExceptionInv, Jobs, Ids
  <2>4. \A j \in Jobs : j \in ended
    BY <2>1, <2>2, <2>3 DEF IInv, HoldersInv, Pending
  <2>5. \A j \in ended : j \in Jobs
    BY DEF IInv, TypeOK, HoldersInv, CallsInv
  <2> QED BY <2>4, <2>5
<1> QED BY <1>1, Inductive, PTL

\* The caller gets an exception exactly when some call of the function threw.
THEOREM ExceptionsAreReported ==
    ASSUME NoWrap, SomeThread
    PROVE  Spec => []ExceptionIsReported
<1>1. IInv => ExceptionIsReported
  BY DEF IInv, ExceptionInv, ExceptionIsReported, Over
<1> QED BY <1>1, Inductive, PTL

\* No worker is running, or about to be, once the caller has been told.
THEOREM NobodyRunsAfterReturn ==
    ASSUME NoWrap, SomeThread
    PROVE  Spec => []QuietAfterReturn
<1>1. IInv => QuietAfterReturn
  BY ThreadQtyNat DEF IInv, CallerInv, QuietAfterReturn, Threads
<1> QED BY <1>1, Inductive, PTL

-----------------------------------------------------------------------------
\* Every step of ParallelFor is a step of the job set its callers rely on, or
\* leaves it unchanged.
LEMMA StepRefines ==
    ASSUME NoWrap, SomeThread, IInv, IInv', NormalMeansAll', [Next]_vars
    PROVE  [Abstract!Next]_Abstract!vars
<1>n. numThreads' = numThreads /\ Threads' = Threads /\ numThreads \in Nat
  BY SameThreads, ThreadQtyNat DEF IInv, TypeOK
<1> USE <1>n DEF IInv, TypeOK
<1> DEFINE Settled == ended \cup threw
<1>0. /\ \A j \in Ids : calls[j] \in {0, 1} /\ (calls[j] = 1 => j \in Jobs)
      /\ \A j \in Jobs : j \in Ids
      /\ current \in Nat /\ End \in Nat /\ Start \in Nat /\ Start <= current
  <2>1. /\ \A j \in Ids : calls[j] \in {0, 1} /\ (calls[j] = 1 => j \in Jobs)
        /\ \A j \in Jobs : j \in Ids
    BY RangeAssumption DEF CallsInv, Jobs, Ids
  <2>2. End \in Nat /\ Start \in Nat
    BY RangeAssumption
  <2>3. current \in Nat /\ Start <= current
    BY <2>2, RangeAssumption DEF CounterInv, Ids
  <2> QED
    BY <2>1, <2>2, <2>3
<1>1. ASSUME UNCHANGED <<calls, ended, threw>>, Over' <=> Over, Over => main' = main
      PROVE  UNCHANGED Abstract!vars
  BY <1>1 DEF Abstract!vars, Begun, Outcome
<1>2. ASSUME NEW j \in Jobs, calls[j] = 0, calls' = [calls EXCEPT ![j] = @ + 1],
             ~Over, ~Over', UNCHANGED <<ended, threw>>
      PROVE  Abstract!Next
  <2>1. Begun' = Begun \cup {j} /\ j \notin Begun
    BY <1>0, <1>2 DEF Begun
  <2>2. Outcome = "pending" /\ Outcome' = "pending"
    BY <1>2 DEF Outcome
  <2>3. Abstract!Begin(j)
    BY <1>2, <2>1, <2>2 DEF Abstract!Begin
  <2> QED BY <2>3 DEF Abstract!Next
<1>3. ASSUME NEW j, Pending(j), calls' = calls, ~Over, ~Over',
             \/ ended' = ended \cup {j} /\ threw' = threw
             \/ ended' = ended /\ threw' = threw \cup {j}
      PROVE  Abstract!Next
  <2>1. Begun' = Begun /\ j \in Begun \ (ended \cup threw) /\ j \in Jobs
    BY <1>0, <1>3 DEF Begun, Pending
  <2>2. Outcome = "pending" /\ Outcome' = "pending"
    BY <1>3 DEF Outcome
  <2>3. Abstract!Finish(j) \/ Abstract!Throw(j)
    BY <1>3, <2>1, <2>2 DEF Abstract!Finish, Abstract!Throw, Abstract!Running
  <2> QED BY <2>1, <2>3 DEF Abstract!Next
<1>4. ASSUME ~Over, main' \in {"normal", "exception"}, UNCHANGED <<calls, ended, threw>>,
             main' = "exception" => \A j \in Ids : ~Pending(j)
      PROVE  Abstract!Next
  <2>1. Outcome = "pending" /\ Outcome' = main' /\ Begun' = Begun
    BY <1>4 DEF Outcome, Over, Begun
  <2>2. CASE main' = "normal"
    <3>1. Abstract!ReturnNormally
      BY <1>4, <2>1, <2>2 DEF NormalMeansAll, Abstract!ReturnNormally
    <3> QED BY <3>1 DEF Abstract!Next
  <2>3. CASE main' = "exception"
    <3>1. threw # {}
      BY <1>4, <2>3 DEF ExceptionInv
    <3>2. Begun \ (ended \cup threw) = {}
      <4>1. \A j \in Begun : j \in Jobs /\ j \in Ids /\ calls[j] = 1
        <5> TAKE j \in Begun
        <5>1. j \in Jobs /\ calls[j] > 0
          BY DEF Begun
        <5>2. j \in Ids /\ calls[j] \in {0, 1}
          BY <5>1, <1>0
        <5> QED BY <5>1, <5>2
      <4> QED BY <1>4, <2>3, <4>1 DEF Pending
    <3>3. Abstract!ReturnException
      BY <1>4, <2>1, <2>3, <3>1, <3>2 DEF Abstract!ReturnException, Abstract!Running
    <3> QED BY <3>3 DEF Abstract!Next
  <2> QED BY <1>4, <2>2, <2>3
<1>5. CASE Enter \/ AllSpawned \/ Join \/ Spawn
  BY <1>1, <1>5 DEF Enter, AllSpawned, Join, Spawn, Over
<1>6. CASE SequentialCall
  <2>1. current \in Jobs /\ calls[current] = 0
    BY <1>0, <1>6 DEF SequentialCall, CallsInv, Jobs
  <2> QED BY <1>2, <1>6, <2>1 DEF SequentialCall, Over
<1>7. CASE SequentialReturn \/ SequentialThrow
  BY <1>3, <1>7 DEF SequentialReturn, SequentialThrow, HoldersInv, Over
<1>8. CASE SequentialUnwind \/ SequentialEnd \/ Return
  <2>1. \A t \in Threads : pc[t] # "run"
    <3>1. CASE SequentialUnwind \/ SequentialEnd
      BY <3>1 DEF SequentialUnwind, SequentialEnd, CallerInv, Threads
    <3>2. CASE Return
      BY <3>2 DEF Return, CallerInv, Threads
    <3> QED BY <1>8, <3>1, <3>2
  <2>2. \A j \in Ids : ~Pending(j)
    BY <1>8, <2>1 DEF SequentialUnwind, SequentialEnd, Return, HoldersInv
  <2> QED BY <1>4, <1>8, <2>2 DEF SequentialUnwind, SequentialEnd, Return, Over
<1>9. ASSUME NEW t \in Threads, Worker(t)
      PROVE  Abstract!Next \/ UNCHANGED Abstract!vars
  <2>0. pc[t] # "done" /\ main' = main
    BY <1>9 DEF Worker, Fetch, FnReturns, FnThrows, RecordException, StoreEnd
  <2>1. ~Over /\ ~Over'
    <3>1. pc[t] = "unborn" => spawned < t
      BY DEF CallerInv
    <3>2. pc[t] # "unborn"
      BY <1>9 DEF Worker, Fetch, FnReturns, FnThrows, RecordException, StoreEnd
    <3>3. Over => numThreads # 1 /\ joined = numThreads
      BY <3>2 DEF CallerInv, Threads
    <3> QED BY <2>0, <3>3 DEF CallerInv, Threads, Over
  <2>2. CASE Fetch(t) /\ current >= End
    BY <1>1, <1>0, <2>1, <2>2 DEF Fetch
  <2>3. CASE Fetch(t) /\ current < End
    <3>1. current \in Jobs /\ calls' = [calls EXCEPT ![current] = @ + 1]
          /\ UNCHANGED <<ended, threw>>
      BY <2>3, <1>0 DEF Fetch, Jobs
    <3>2. calls[current] = 0
      BY <1>0, <2>1, <2>3, <3>1 DEF Fetch, CallsInv, CallerInv, Threads, Over
    <3> QED BY <1>2, <2>1, <3>1, <3>2
  <2>4. CASE FnReturns(t) \/ FnThrows(t)
    BY <1>3, <2>1, <2>4 DEF FnReturns, FnThrows, HoldersInv
  <2>5. CASE RecordException(t) \/ StoreEnd(t)
    BY <1>1, <2>1, <2>5 DEF RecordException, StoreEnd
  <2> QED BY <1>9, <1>0, <2>2, <2>3, <2>4, <2>5 DEF Worker, Fetch
<1>10. CASE UNCHANGED vars
  BY <1>1, <1>10 DEF vars, Over
<1> QED
  BY <1>5, <1>6, <1>7, <1>8, <1>9, <1>10 DEF Next, Caller, Finished

\* ParallelFor implements the job set: every id at most once, a normal return
\* only after all of them, an exception only after one and with nothing running.
THEOREM Refinement ==
    ASSUME NoWrap, SomeThread
    PROVE  Spec => ImplementsJobSet
<1>1. Init => Abstract!Init
  <2> SUFFICES ASSUME Init PROVE Abstract!Init
    OBVIOUS
  <2>1. Begun = {}
    <3>1. \A j \in Jobs : j \in Ids
      BY RangeAssumption DEF Jobs, Ids
    <3> QED BY <3>1 DEF Init, Begun
  <2> QED BY <2>1 DEF Init, Abstract!Init, Outcome, Over
<1>2. IInv /\ IInv' /\ NormalMeansAll' /\ [Next]_vars => [Abstract!Next]_Abstract!vars
  BY StepRefines
<1> QED
  BY <1>1, <1>2, Inductive, NormalReturnMeansAll, PTL
  DEF Spec, ImplementsJobSet, Abstract!Spec
=============================================================================
