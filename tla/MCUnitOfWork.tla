---------------------------- MODULE MCUnitOfWork ----------------------------
(* UnitOfWork with two sessions on one connection. *)
EXTENDS UnitOfWork, TLC

Symmetric == Permutations(Orms) \cup Permutations(Works) \cup Permutations(Stmts)
=============================================================================
