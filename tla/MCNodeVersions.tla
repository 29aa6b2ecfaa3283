--------------------------- MODULE MCNodeVersions ---------------------------
(* NodeVersions for TLC: a chain of nodes, threads are interchangeable.     *)
EXTENDS NodeVersions, TLC
CONSTANTS p1, p2, t1, t2, a, b
Chain == {<<a, b>>}
Symmetry == Permutations(Threads)
=============================================================================
