------------------------------- MODULE MCPool -------------------------------
(* ConnectionPool on small sets of threads and connections. *)
EXTENDS ConnectionPool, TLC

Symmetry == Permutations(Threads) \cup Permutations(Conns)
=============================================================================
