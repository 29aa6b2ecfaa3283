---------------------------- MODULE MCRedisGraph ----------------------------
(* RedisGraph for TLC: workers, nodes and edges are interchangeable. *)
EXTENDS RedisGraph, TLC
Symmetry == Permutations(Workers) \cup Permutations(Nodes) \cup Permutations(Labels)
=============================================================================
