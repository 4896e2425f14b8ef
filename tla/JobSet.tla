------------------------------- MODULE JobSet -------------------------------
(***************************************************************************)
(* What a caller of ParallelFor relies on: every id of the range is given  *)
(* to the job function at most once, in any order; the call returns        *)
(* normally only when the function has returned for all of them, and ends  *)
(* with an exception only when some call of the function has thrown.       *)
(***************************************************************************)

CONSTANT Jobs       \* the ids start, ..., end - 1

VARIABLES
    begun,          \* ids the job function was called with
    ended,          \* ids for which the function returned
    threw,          \* ids for which the function threw
    outcome         \* how the call of ParallelFor ended, if it has

vars == <<begun, ended, threw, outcome>>

TypeOK ==
    /\ begun \in SUBSET Jobs
    /\ ended \in SUBSET Jobs
    /\ threw \in SUBSET Jobs
    /\ outcome \in {"pending", "normal", "exception"}

Init ==
    /\ begun = {}
    /\ ended = {}
    /\ threw = {}
    /\ outcome = "pending"

Running == begun \ (ended \cup threw)

Begin(j) ==
    /\ outcome = "pending"
    /\ j \in Jobs \ begun
    /\ begun' = begun \cup {j}
    /\ UNCHANGED <<ended, threw, outcome>>

Finish(j) ==
    /\ outcome = "pending"
    /\ j \in Running
    /\ ended' = ended \cup {j}
    /\ UNCHANGED <<begun, threw, outcome>>

Throw(j) ==
    /\ outcome = "pending"
    /\ j \in Running
    /\ threw' = threw \cup {j}
    /\ UNCHANGED <<begun, ended, outcome>>

ReturnNormally ==
    /\ outcome = "pending"
    /\ ended = Jobs
    /\ outcome' = "normal"
    /\ UNCHANGED <<begun, ended, threw>>

ReturnException ==
    /\ outcome = "pending"
    /\ threw # {}
    /\ Running = {}
    /\ outcome' = "exception"
    /\ UNCHANGED <<begun, ended, threw>>

Next ==
    \/ \E j \in Jobs : Begin(j) \/ Finish(j) \/ Throw(j)
    \/ ReturnNormally
    \/ ReturnException

Spec == Init /\ [][Next]_vars
=============================================================================
