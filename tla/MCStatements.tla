---------------------------- MODULE MCStatements ----------------------------
(***************************************************************************)
(* What runs on one connection: units of work, batches of entity writes,   *)
(* and readers of results.  The three parts share no state here, so each   *)
(* behaviour is a scene of one of them, with the variables of the others   *)
(* at rest.                                                                *)
(***************************************************************************)
EXTENDS UnitOfWork, BatchWrite, ResultFetch, TLC

VARIABLE scene

sceneVars == <<vars, scene, batchVars, fetchVars>>

NoWriter == kind = (CHOOSE k \in Kinds : TRUE) /\ op = "insert" /\ autocommit
NoResult == backend = "libpq" /\ result = [wide |-> "text", lens |-> <<>>]

SceneInit ==
  /\ Init /\ BatchInit /\ FetchInit
  /\ scene \in {"unit", "write", "read"}
  /\ scene # "write" => NoWriter
  /\ scene # "read" => NoResult

\* A unit of work always has a next step; a writer or a reader may be done.
SceneNext ==
  \/ scene = "unit" /\ Next /\ UNCHANGED <<scene, batchVars, fetchVars>>
  \/ scene = "write" /\ BatchNext /\ UNCHANGED <<vars, scene, fetchVars>>
  \/ scene = "read" /\ FetchNext /\ UNCHANGED <<vars, scene, batchVars>>
  \/ scene # "unit" /\ UNCHANGED sceneVars

SceneSpec == SceneInit /\ [][SceneNext]_sceneVars

Symmetric == Permutations(Orms) \cup Permutations(Works) \cup Permutations(Stmts)
=============================================================================
