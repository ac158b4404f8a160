------------------------------ MODULE MCAsync ------------------------------
(***************************************************************************)
(* What the threads behind asynchronous calls owe: the worker pool, a      *)
(* session on an executor of any kind, and the transactions of a session.  *)
(* The three share no state, so each behaviour moves one of them while the *)
(* others stay where they began.                                           *)
(***************************************************************************)
EXTENDS WorkerPool, AsyncTransaction, TLC

CONSTANTS
  Ops, Callers, Owner, Limits, Modes, Outcomes, Redrives, Nothing

VARIABLES
  moves,
  waiting, in_flight, draining, limit, drainer, popped, current, driven, stage, failed,
  on, parked, served, idler, closed

Session == INSTANCE AsyncSession

sessionVars == <<waiting, in_flight, draining, limit, drainer, popped, current, driven,
                 stage, failed, on, parked, served, idler, closed>>
asyncVars == <<vars, moves, sessionVars, txVars>>

AsyncInit ==
  /\ moves \in {"workers", "session", "transaction"}
  /\ Init /\ Session!Init /\ TxInit

AsyncNext ==
  \/ moves = "workers" /\ Next /\ UNCHANGED <<moves, sessionVars, txVars>>
  \/ moves = "session" /\ Session!Next /\ UNCHANGED <<moves, vars, txVars>>
  \/ moves = "transaction" /\ TxNext /\ UNCHANGED <<moves, vars, sessionVars>>

\* No fair action is enabled in the initial states, so each fairness condition
\* binds the part that moves and not the others.
AsyncSpec ==
  AsyncInit /\ [][AsyncNext]_asyncVars /\ Fairness /\ Session!Fairness /\ TxFairness

\* Every request the queue accepted is answered, and the destructor of a session
\* that began to wait comes to its end (async.cpp:63-90, 157-175, async.hpp:322-351).
SessionServes == Session!EveryRequestAnswered /\ Session!SessionEnds
=============================================================================
