---------------------------- MODULE MCIndexWrapper ----------------------------
(* Instances of IndexWrapper for TLC.                                      *)
EXTENDS IndexWrapper

AllKinds == [method : {"hnsw", "small_world_rand"}, optimizable : BOOLEAN]
EuclideanHnsw == {[method |-> "hnsw", optimizable |-> TRUE]}
=============================================================================
