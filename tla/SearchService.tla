---------------------------- MODULE SearchService ----------------------------
(***************************************************************************)
(* What a client of the query server relies on.  A search is a best-first  *)
(* walk: it expands the closest node it has seen and not expanded, as long *)
(* as that node is among the ef closest ones it has seen, and answers with *)
(* the closest nodes it has seen.  The width ef is a setting of the server *)
(* and does not change while a search is under way.                        *)
(***************************************************************************)
EXTENDS Integers, FiniteSets

CONSTANTS
    Searches,       \* searches that may be under way at the same time
    Node, Queries,
    Dist,           \* Dist[q][n], from a query to a node
    Ks, Efs         \* numbers of neighbors asked for, values of ef

VARIABLES
    friends,        \* friends[n]: nodes n has links to on level 0
    upper,          \* friends on level 1, where a search begins
    ef,             \* the setting
    search          \* what is known of every search

vars == <<friends, upper, ef, search>>

Idle == [phase |-> "idle"]

Init ==
    /\ friends \in [Node -> SUBSET Node]
    /\ upper \in [Node -> SUBSET Node]
    /\ ef \in Efs
    /\ search = [s \in Searches |-> Idle]

-----------------------------------------------------------------------------
Closer(q, S, n) == {m \in S : Dist[q][m] < Dist[q][n]}
AsClose(q, S, n) == {m \in S : Dist[q][m] <= Dist[q][n]}

\* n may be one of the w closest nodes of S, if ties are decided for it ...
MayBeAmong(q, w, S, n) == Cardinality(Closer(q, S, n)) < w
\* ... and is one of them, even if they are decided against it.
MustBeAmong(q, w, S, n) == Cardinality(AsClose(q, S \ {n}, n)) < w

Begin(s) ==
    /\ search[s] = Idle
    /\ \E q \in Queries, k \in Ks :
           search' = [search EXCEPT ![s] = [phase |-> "searching", q |-> q, k |-> k,
                                            seen |-> {}, expanded |-> {}]]
    /\ UNCHANGED <<friends, upper, ef>>

\* The walk begins at a local minimum of the level above.
Enter(s) ==
    /\ search[s].phase = "searching"
    /\ search[s].seen = {}
    /\ \E n \in Node :
           /\ Closer(search[s].q, upper[n], n) = {}
           /\ search' = [search EXCEPT ![s].seen = {n}]
    /\ UNCHANGED <<friends, upper, ef>>

Expand(s) ==
    /\ search[s].phase = "searching"
    /\ LET q == search[s].q
           unexpanded == search[s].seen \ search[s].expanded
       IN  \E n \in unexpanded :
               /\ Closer(q, unexpanded, n) = {}
               /\ MayBeAmong(q, ef, search[s].seen, n)
               /\ search' = [search EXCEPT ![s].seen = @ \cup friends[n],
                                           ![s].expanded = @ \cup {n}]
    /\ UNCHANGED <<friends, upper, ef>>

\* At most k of the nodes seen, among them the closest ones: each node left
\* out is at least as far as w of the answer, w the smaller of k and ef.
IsAnswer(q, k, seen, A) ==
    LET w == IF k < ef THEN k ELSE ef
    IN  /\ A \subseteq seen
        /\ Cardinality(A) <= k
        /\ \A n \in seen \ A : Cardinality(AsClose(q, A, n)) >= w

Answer(s) ==
    /\ search[s].phase = "searching"
    /\ LET q == search[s].q
           seen == search[s].seen
       IN  /\ seen # {}
           /\ \A n \in seen \ search[s].expanded : ~ MustBeAmong(q, ef, seen, n)
           /\ \E A \in SUBSET seen :
                  /\ IsAnswer(q, search[s].k, seen, A)
                  /\ search' = [search EXCEPT ![s] = [phase |-> "answered", answer |-> A]]
    /\ UNCHANGED <<friends, upper, ef>>

\* The answers of one request are handed over together.
Collect(S) ==
    /\ \A s \in S : search[s].phase = "answered"
    /\ search' = [s \in Searches |-> IF s \in S THEN Idle ELSE search[s]]
    /\ UNCHANGED <<friends, upper, ef>>

SetEf ==
    /\ \A s \in Searches : search[s].phase # "searching"
    /\ ef' \in Efs
    /\ UNCHANGED <<friends, upper, search>>

Next ==
    \/ \E s \in Searches : Begin(s) \/ Enter(s) \/ Expand(s) \/ Answer(s)
    \/ \E S \in SUBSET Searches : Collect(S)
    \/ SetEf

Spec == Init /\ [][Next]_vars
=============================================================================
