------------------------------- MODULE MCText -------------------------------
(***************************************************************************)
(* What is said to a database and about one: built queries, the rewriting  *)
(* of texts, the resolving of names, generated headers, DDL scripts, the   *)
(* scheme that finds a backend, and decimal literals.  These parts share   *)
(* no state, so each behaviour is a scene of one of them, with the         *)
(* variables of the others at rest.                                        *)
(***************************************************************************)
EXTENDS MCTextData, Identifiers, SchemaGenerator, BackendRegistry

CONSTANTS
  Fields, MaxWheres, MaxCalls, MaxRange, RawClauses,
  Chars, MaxPieces, MaxBody,
  Statements, MaxStatements,
  Digits, MaxLength, max_digits, Bits, Others

VARIABLES
  scene,
  builder, made,
  driver, pieces,
  script, text, pos, mode, back, slot, row, tables, pending, notes,
  literal

Building == INSTANCE QueryBuilder
Rewriting == INSTANCE SqlText
Reading == INSTANCE DdlScript
Counting == INSTANCE Decimal

builderVars == <<builder, made>>
textVars == <<driver, pieces>>
ddlVars == <<script, text, pos, mode, back, slot, row, tables, pending, notes>>
sceneVars == <<scene, builderVars, textVars, nameVars, genVars, ddlVars, loaderVars, literal>>

BuilderRests == builder = Unset /\ made = Unset
TextRests == driver = Unset /\ pieces = Unset
NamesRest == world = CHOOSE w \in Worlds : TRUE
GeneratorRests ==
  /\ phase = Unset /\ lines = Unset /\ section = Unset /\ config = Unset /\ md = Unset
  /\ wanted = Unset /\ model = Unset /\ header = Unset /\ warned = Unset
DdlRests ==
  /\ script = Unset /\ text = Unset /\ pos = Unset /\ mode = Unset /\ back = Unset
  /\ slot = Unset /\ row = Unset /\ tables = Unset /\ pending = Unset /\ notes = Unset
LoaderRests == plugin = [k \in Keys |-> "good"]

SceneInit ==
  /\ scene \in {"build", "rewrite", "name", "generate", "ddl", "load", "number"}
  /\ IF scene = "build" THEN Building!BuilderInit ELSE BuilderRests
  /\ IF scene = "rewrite" THEN Rewriting!TextInit ELSE TextRests
  /\ NameInit /\ (scene # "name" => NamesRest)
  /\ IF scene = "generate" THEN GenInit ELSE GeneratorRests
  /\ IF scene = "ddl" THEN Reading!DdlInit ELSE DdlRests
  /\ LoaderInit /\ (scene # "load" => LoaderRests)
  /\ IF scene = "number" THEN Counting!DecimalInit ELSE literal = Unset

SceneNext ==
  /\ scene' = scene
  /\ \/ /\ scene = "build" /\ Building!BuilderNext
        /\ UNCHANGED <<textVars, nameVars, genVars, ddlVars, loaderVars, literal>>
     \/ /\ scene = "rewrite" /\ Rewriting!TextNext
        /\ UNCHANGED <<builderVars, nameVars, genVars, ddlVars, loaderVars, literal>>
     \/ /\ scene = "name" /\ NameNext
        /\ UNCHANGED <<builderVars, textVars, genVars, ddlVars, loaderVars, literal>>
     \/ /\ scene = "generate" /\ GenNext
        /\ UNCHANGED <<builderVars, textVars, nameVars, ddlVars, loaderVars, literal>>
     \/ /\ scene = "ddl" /\ Reading!DdlNext
        /\ UNCHANGED <<builderVars, textVars, nameVars, genVars, loaderVars, literal>>
     \/ /\ scene = "load" /\ LoaderNext
        /\ UNCHANGED <<builderVars, textVars, nameVars, genVars, ddlVars, literal>>
     \/ /\ scene = "number" /\ Counting!DecimalNext
        /\ UNCHANGED <<builderVars, textVars, nameVars, genVars, ddlVars, loaderVars>>

SceneSpec == SceneInit /\ [][SceneNext]_sceneVars

MCSchemeOf == "bare" :> "odbc" @@ "ORACLE" :> "oracle" @@ "oracle" :> "oracle"

\* 0, -0, 1, 12, .5, -0.5, 1.5 and -1.50
MCOthers ==
  LET minus == 10  dot == 12    \* Minus and Dot of Decimal
  IN  {<<0>>, <<minus, 0>>, <<1>>, <<1, 2>>, <<dot, 5>>, <<minus, 0, dot, 5>>, <<1, dot, 5>>,
       <<minus, 1, dot, 5, 0>>}
-----------------------------------------------------------------------------
\* A built statement touches the rows that meet every clause it was given, assigns
\* each column the value it was set to, and has the page and the order asked for
\* last (builder.hpp:216-352, orm.cpp:183-266, dialect.cpp:42-66).
BuiltAsChained ==
  scene = "build" =>
    Building!SelectsWhatWasChained /\ Building!AssignsWhatWasSet /\ Building!PageAsAsked

\* Every mark of a text is numbered as it is bound, nothing else in it is touched,
\* and a text is a query when its first word says so (libpq/sql_text.cpp:145-198,
\* oracle_oci/sql_text.cpp:120-186).
TextsAsMeant == scene = "rewrite" => Rewriting!MarksNumbered /\ Rewriting!QueryTold

\* A finished reading of a script has the columns, keys, indexes and foreign keys
\* it declares (ddl_meta.cpp parse_script, resolve_pending_keys).
ReadAsDeclared == scene = "ddl" => Reading!ColumnsAsDeclared /\ Reading!ReferencesAsDeclared

\* The reader of a script never stands still (ddl_meta.cpp parse_script).
StepsForward == [][scene = "ddl" => Reading!MovesForward]_sceneVars

\* A literal that is read is written back as the same decimal, to_int64() gives
\* exactly the integers that fit, and decimals are ordered as numbers
\* (decimal.cpp:12-203).
DecimalsTrue ==
  scene = "number" =>
    Counting!LiteralsKept /\ Counting!IntegersFit /\ Counting!OrderedAsNumbers
=============================================================================
