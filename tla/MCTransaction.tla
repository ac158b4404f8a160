---------------------------- MODULE MCTransaction ----------------------------
(* An instance of AsyncTransaction with two threads on one session. *)
EXTENDS AsyncTransaction, TLC
=============================================================================
