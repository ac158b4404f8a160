----------------------------- MODULE SessionFifo -----------------------------
(***************************************************************************)
(* What a session promises of the operations handed to it (the comment on  *)
(* operation_queue in include/uniorm/async.hpp): they are served in the    *)
(* order they were accepted, one at a time, each exactly once, and never   *)
(* more than the submit limit of them hold a turn.                         *)
(***************************************************************************)
EXTENDS Naturals, Sequences

CONSTANTS Ops, Limits

VARIABLES
  turn,     \* operations accepted and not over, the one being served first
  served,   \* operations that are over, in the order they ended
  limit     \* submit_limit

absVars == <<turn, served, limit>>

SessionInit == turn = <<>> /\ served = <<>> /\ limit \in Limits

Accept(op) ==
  /\ Len(turn) < limit
  /\ \A i \in 1..Len(turn) : turn[i] # op
  /\ \A i \in 1..Len(served) : served[i] # op
  /\ turn' = Append(turn, op)
  /\ UNCHANGED <<served, limit>>

Complete ==
  /\ turn # <<>>
  /\ served' = Append(served, Head(turn))
  /\ turn' = Tail(turn)
  /\ UNCHANGED limit

SetLimit ==
  /\ limit' \in Limits \cup {1}
  /\ UNCHANGED <<turn, served>>

SessionNext == (\E op \in Ops : Accept(op)) \/ Complete \/ SetLimit

SessionSpec == SessionInit /\ [][SessionNext]_absVars
=============================================================================
