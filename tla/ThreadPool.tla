----------------------------- MODULE ThreadPool -----------------------------
(***************************************************************************)
(* ParallelFor of include/thread_pool.h: a replacement for "omp parallel   *)
(* for" used to build graph indices, to run batches of queries and to      *)
(* compute gold standards.  Worker threads take ids from an atomic counter *)
(* with fetch_add; a worker whose job function throws records the          *)
(* exception under a mutex and moves the counter to the end of the range.  *)
(*                                                                         *)
(* The counter is a size_t: it is kept modulo SizeMod (2^64 in the code).  *)
(* The job function is external: it returns or, on the ids of MayThrow,    *)
(* may throw.                                                              *)
(***************************************************************************)
EXTENDS Integers, FiniteSets

CONSTANTS
    Start, End,         \* the range of ids [Start, End)
    ThreadArgs,         \* values of the argument numThreads (0: ask the hardware)
    HardwareThreads,    \* what std::thread::hardware_concurrency() returns
    SizeMod,            \* number of values of size_t
    MayThrow,           \* ids on which the job function may throw
    NoException         \* the null exception_ptr

ASSUME RangeAssumption ==
    /\ SizeMod \in Nat \ {0}
    /\ Start \in 0 .. SizeMod - 1
    /\ End \in Start .. SizeMod - 1
ASSUME ThreadsAssumption == ThreadArgs \subseteq Nat /\ HardwareThreads \in Nat
ASSUME ExceptionAssumption ==
    MayThrow \subseteq Start .. End - 1 /\ NoException \notin 0 .. SizeMod - 1

\* The numbers of workers that may be used: lines 63-65.
ThreadQtys == {IF n = 0 THEN HardwareThreads ELSE n : n \in ThreadArgs}

Ids == 0 .. SizeMod - 1
Jobs == Start .. End - 1

VARIABLES
    numThreads,     \* the number of workers of this call
    main,           \* program counter of the calling thread
    spawned,        \* number of workers created so far
    joined,         \* number of workers joined so far
    current,        \* the shared atomic counter
    lastException,  \* last exception recorded, named by the id that threw it
    pc,             \* program counter of every worker
    id,             \* the local variable id of every worker
    calls,          \* calls[j]: how often the function was called with j
    ended,          \* ids for which a call of the function returned
    threw           \* ids for which a call of the function threw

vars == <<numThreads, main, spawned, joined, current, lastException, pc, id,
          calls, ended, threw>>

Threads == 1 .. numThreads

TypeOK ==
    /\ numThreads \in ThreadQtys
    /\ main \in {"entry", "sequential", "calling", "unwinding", "spawn", "join",
                "normal", "exception"}
    /\ spawned \in 0 .. numThreads
    /\ joined \in 0 .. numThreads
    /\ current \in Ids
    /\ lastException \in Ids \cup {NoException}
    /\ pc \in [Threads -> {"unborn", "fetch", "run", "catch", "store", "done"}]
    /\ id \in [Threads -> Ids]
    /\ calls \in [Ids -> Nat]
    /\ ended \in SUBSET Ids
    /\ threw \in SUBSET Ids

Init ==
    /\ numThreads \in ThreadQtys
    /\ main = "entry"
    /\ spawned = 0
    /\ joined = 0
    /\ current = Start
    /\ lastException = NoException
    /\ pc = [t \in Threads |-> "unborn"]
    /\ id = [t \in Threads |-> Start]
    /\ calls = [j \in Ids |-> 0]
    /\ ended = {}
    /\ threw = {}

-----------------------------------------------------------------------------
(* The calling thread.                                                     *)

\* With exactly one thread the loop runs in the caller, else workers are made.
Enter ==
    /\ main = "entry"
    /\ main' = IF numThreads = 1 THEN "sequential" ELSE "spawn"
    /\ UNCHANGED <<numThreads, spawned, joined, current, lastException, pc, id, calls, ended, threw>>

\* for (id = start; id < end; id++) fn(id, 0): here current is the loop variable.
SequentialCall ==
    /\ main = "sequential"
    /\ current < End
    /\ main' = "calling"
    /\ calls' = [calls EXCEPT ![current] = @ + 1]
    /\ UNCHANGED <<numThreads, spawned, joined, current, lastException, pc, id, ended, threw>>

SequentialReturn ==
    /\ main = "calling"
    /\ main' = "sequential"
    /\ current' = (current + 1) % SizeMod
    /\ ended' = ended \cup {current}
    /\ UNCHANGED <<numThreads, spawned, joined, lastException, pc, id, calls, threw>>

\* Nothing catches the exception of fn in the sequential loop: it passes to
\* the caller of ParallelFor.
SequentialThrow ==
    /\ main = "calling"
    /\ current \in MayThrow
    /\ main' = "unwinding"
    /\ threw' = threw \cup {current}
    /\ UNCHANGED <<numThreads, spawned, joined, current, lastException, pc, id, calls, ended>>

SequentialUnwind ==
    /\ main = "unwinding"
    /\ main' = "exception"
    /\ UNCHANGED <<numThreads, spawned, joined, current, lastException, pc, id, calls, ended, threw>>

SequentialEnd ==
    /\ main = "sequential"
    /\ current >= End
    /\ main' = "normal"
    /\ UNCHANGED <<numThreads, spawned, joined, current, lastException, pc, id, calls, ended, threw>>

\* Mutant: threadId <= numThreads.
SpawnOneMore ==
    /\ main = "spawn"
    /\ spawned <= numThreads
    /\ spawned' = spawned + 1
    /\ pc' = [pc EXCEPT ![spawned + 1] = "fetch"]
    /\ UNCHANGED <<numThreads, main, joined, current, lastException, id, calls, ended, threw>>

\* A worker runs as soon as it is created, while the caller creates others.
Spawn ==
    /\ main = "spawn"
    /\ spawned < numThreads
    /\ spawned' = spawned + 1
    /\ pc' = [pc EXCEPT ![spawned + 1] = "fetch"]
    /\ UNCHANGED <<numThreads, main, joined, current, lastException, id, calls, ended, threw>>

AllSpawned ==
    /\ main = "spawn"
    /\ spawned = numThreads
    /\ main' = "join"
    /\ UNCHANGED <<numThreads, spawned, joined, current, lastException, pc, id, calls, ended, threw>>

\* Mutant: detach() for join().
JoinWithoutWaiting ==
    /\ main = "join"
    /\ joined < numThreads
    /\ joined' = joined + 1
    /\ UNCHANGED <<numThreads, main, spawned, current, lastException, pc, id, calls, ended, threw>>

Join ==
    /\ main = "join"
    /\ joined < numThreads
    /\ pc[joined + 1] = "done"
    /\ joined' = joined + 1
    /\ UNCHANGED <<numThreads, main, spawned, current, lastException, pc, id, calls, ended, threw>>

\* Mutant: the recorded exception is not rethrown.
ReturnAnyway ==
    /\ main = "join"
    /\ joined = numThreads
    /\ main' = "normal"
    /\ UNCHANGED <<numThreads, spawned, joined, current, lastException, pc, id, calls, ended, threw>>

\* After the joins: return, or rethrow the recorded exception.
Return ==
    /\ main = "join"
    /\ joined = numThreads
    /\ main' = IF lastException = NoException THEN "normal" ELSE "exception"
    /\ UNCHANGED <<numThreads, spawned, joined, current, lastException, pc, id, calls, ended, threw>>

-----------------------------------------------------------------------------
(* A worker.                                                               *)

\* Mutant: id + 1 >= end for id >= end.
FetchStopsEarly(t) ==
    /\ pc[t] = "fetch"
    /\ id' = [id EXCEPT ![t] = current]
    /\ current' = (current + 1) % SizeMod
    /\ IF current + 1 >= End
       THEN /\ pc' = [pc EXCEPT ![t] = "done"]
            /\ UNCHANGED calls
       ELSE /\ pc' = [pc EXCEPT ![t] = "run"]
            /\ calls' = [calls EXCEPT ![current] = @ + 1]
    /\ UNCHANGED <<numThreads, main, spawned, joined, lastException, ended, threw>>

\* id = current.fetch_add(1); past the end the worker leaves, else it calls fn.
Fetch(t) ==
    /\ pc[t] = "fetch"
    /\ id' = [id EXCEPT ![t] = current]
    /\ current' = (current + 1) % SizeMod
    /\ IF current >= End
       THEN /\ pc' = [pc EXCEPT ![t] = "done"]
            /\ UNCHANGED calls
       ELSE /\ pc' = [pc EXCEPT ![t] = "run"]
            /\ calls' = [calls EXCEPT ![current] = @ + 1]
    /\ UNCHANGED <<numThreads, main, spawned, joined, lastException, ended, threw>>

FnReturns(t) ==
    /\ pc[t] = "run"
    /\ pc' = [pc EXCEPT ![t] = "fetch"]
    /\ ended' = ended \cup {id[t]}
    /\ UNCHANGED <<numThreads, main, spawned, joined, current, lastException, id, calls, threw>>

FnThrows(t) ==
    /\ pc[t] = "run"
    /\ id[t] \in MayThrow
    /\ pc' = [pc EXCEPT ![t] = "catch"]
    /\ threw' = threw \cup {id[t]}
    /\ UNCHANGED <<numThreads, main, spawned, joined, current, lastException, id, calls, ended>>

\* Mutant: the handler does not record the exception.
RecordNothing(t) ==
    /\ pc[t] = "catch"
    /\ \A u \in Threads : pc[u] # "store"
    /\ pc' = [pc EXCEPT ![t] = "store"]
    /\ UNCHANGED <<numThreads, main, spawned, joined, current, lastException, id, calls, ended, threw>>

\* The handler owns lastExceptMutex while it records the exception ...
RecordException(t) ==
    /\ pc[t] = "catch"
    /\ \A u \in Threads : pc[u] # "store"
    /\ lastException' = id[t]
    /\ pc' = [pc EXCEPT ![t] = "store"]
    /\ UNCHANGED <<numThreads, main, spawned, joined, current, id, calls, ended, threw>>

\* Mutant: current = id for current = end.
StoreOwnId(t) ==
    /\ pc[t] = "store"
    /\ current' = id[t]
    /\ pc' = [pc EXCEPT ![t] = "done"]
    /\ UNCHANGED <<numThreads, main, spawned, joined, lastException, id, calls, ended, threw>>

\* Mutant: lastExceptMutex is not released.
StoreKeepsMutex(t) ==
    /\ pc[t] = "store"
    /\ current' = End
    /\ UNCHANGED <<numThreads, main, spawned, joined, lastException, pc, id, calls, ended, threw>>

\* ... and stores end in the counter, which the mutex does not protect.
StoreEnd(t) ==
    /\ pc[t] = "store"
    /\ current' = End
    /\ pc' = [pc EXCEPT ![t] = "done"]
    /\ UNCHANGED <<numThreads, main, spawned, joined, lastException, id, calls, ended, threw>>

Worker(t) ==
    Fetch(t) \/ FnReturns(t) \/ FnThrows(t) \/ RecordException(t) \/ StoreEnd(t)

Caller ==
    \/ Enter
    \/ SequentialCall \/ SequentialReturn \/ SequentialEnd
    \/ SequentialThrow \/ SequentialUnwind
    \/ Spawn \/ AllSpawned \/ Join \/ Return

\* The call is over: nothing moves any more.
Finished == main \in {"normal", "exception"} /\ UNCHANGED vars

Next == Caller \/ (\E t \in Threads : Worker(t)) \/ Finished

Spec == Init /\ [][Next]_vars

\* Threads are scheduled by the operating system; a job function ends.
AllThreads == UNION {1 .. n : n \in ThreadQtys}
FairSpec ==
    Spec /\ WF_vars(Caller) /\ \A t \in AllThreads : WF_vars(t \in Threads /\ Worker(t))

-----------------------------------------------------------------------------
(* Properties.                                                             *)

Over == main \in {"normal", "exception"}

\* The counter cannot wrap: every worker may fetch one id past the end.
NoWrap == \A n \in ThreadQtys : End + n < SizeMod

\* With hardware_concurrency() = 0 there is no worker and nothing is processed.
SomeThread == 0 \notin ThreadQtys

\* Nobody calls the job function twice with the same id, and never outside
\* [start, end): lines 83-90, several workers and an exception in flight.
AtMostOnce == \A j \in Ids : calls[j] <= IF j \in Jobs THEN 1 ELSE 0

\* A normal return of ParallelFor means that the function has returned for
\* every id ("Process ids from start (inclusive) to end (EXCLUSIVE)").
NormalMeansAll == main = "normal" => ended = Jobs

\* Exceptions are neither lost nor invented: once the caller is told, the
\* function threw exactly when the caller gets an exception.
ExceptionIsReported == Over => (main = "exception" <=> threw # {})

\* The caller is told only when no worker can still touch its variables,
\* which live on the stack of ParallelFor (current, lastException).
QuietAfterReturn ==
    Over => \A t \in Threads : pc[t] = (IF numThreads = 1 THEN "unborn" ELSE "done")

\* Every call of ParallelFor ends, whichever jobs throw.
Terminates == <>Over

-----------------------------------------------------------------------------
(* The inductive invariant behind the properties above.                    *)

Done == {t \in Threads : pc[t] = "done"}
Begun == {j \in Jobs : calls[j] > 0}

\* The function was called with j and has neither returned nor thrown.
Pending(j) == j \in Jobs /\ calls[j] = 1 /\ j \notin ended \cup threw

\* Only workers that have left may have pushed the counter past the end.
CounterInv ==
    /\ Start <= current
    /\ current <= End + Cardinality(Done)

\* The caller and the workers are in step.
CallerInv ==
    /\ \A t \in Threads : pc[t] = "unborn" <=> spawned < t
    /\ main = "entry" => spawned = 0
    /\ numThreads = 1 => spawned = 0 /\ main \notin {"spawn", "join"}
    /\ numThreads # 1 => main \notin {"sequential", "calling", "unwinding"}
    /\ main \notin {"entry", "spawn"} /\ numThreads # 1 => spawned = numThreads
    /\ \A t \in Threads : t <= joined => pc[t] = "done"
    /\ Over /\ numThreads # 1 => joined = numThreads

\* Calls are made once, on jobs behind the counter; the sequential loop moves
\* the counter after the call.
CallsInv ==
    \A j \in Ids :
        /\ calls[j] \in {0, 1}
        /\ calls[j] = 1 =>
                /\ j \in Jobs
                /\ \/ j < current
                   \/ j = current /\ numThreads = 1 /\ main \in {"calling", "unwinding", "exception"}

\* A pending call is held by exactly one thread, and by nobody when settled.
HoldersInv ==
    /\ \A j \in ended \cup threw : calls[j] = 1
    /\ ended \cap threw = {}
    /\ main = "calling" => Pending(current)
    /\ \A t \in Threads : pc[t] = "run" => Pending(id[t])
    /\ \A t, u \in Threads : pc[t] = "run" /\ pc[u] = "run" /\ id[t] = id[u] => t = u
    /\ \A j \in Ids : Pending(j) =>
            \/ main = "calling" /\ current = j
            \/ \E t \in Threads : pc[t] = "run" /\ id[t] = j

\* While nothing has thrown, nothing behind the counter is skipped and only a
\* counter at the end lets a worker leave; a throw is recorded before that.
ExceptionInv ==
    /\ threw = {} => \A j \in Jobs : j < current => calls[j] = 1
    /\ Done # {} => threw # {} \/ End <= current
    /\ lastException # NoException => threw # {}
    /\ \A t \in Threads :
            /\ pc[t] \in {"catch", "store"} => threw # {}
            /\ pc[t] = "store" => lastException # NoException
    /\ numThreads # 1 /\ threw # {} =>
            lastException # NoException \/ \E t \in Threads : pc[t] = "catch"
    /\ main \in {"entry", "sequential", "calling"} => threw = {}
    /\ main = "unwinding" => threw # {}
    /\ main = "exception" => threw # {}
    /\ main = "normal" => threw = {} /\ (numThreads = 1 => End <= current)

IInv == TypeOK /\ CounterInv /\ CallerInv /\ CallsInv /\ HoldersInv /\ ExceptionInv

-----------------------------------------------------------------------------
\* ParallelFor implements the job set its callers rely on.
Outcome == IF Over THEN main ELSE "pending"
Abstract == INSTANCE JobSet WITH
    begun <- Begun,
    ended <- ended,
    threw <- threw,
    outcome <- Outcome
ImplementsJobSet == Abstract!Spec
=============================================================================
