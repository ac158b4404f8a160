------------------------------ MODULE MCSession ------------------------------
(* Instances of AsyncSession for TLC. *)
EXTENDS AsyncSession, TLC

Symmetry == Permutations(Ops) \cup Permutations(Workers)
=============================================================================
