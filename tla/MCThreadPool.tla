---------------------------- MODULE MCThreadPool ----------------------------
(* Instances of ThreadPool for TLC.                                        *)
EXTENDS ThreadPool

\* Jobs 1 .. 4, a counter that has room for every last fetch.
ConstThrowing == {2, 3}
NoEx == -1
=============================================================================
