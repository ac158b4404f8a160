----------------------------- MODULE MCTextData -----------------------------
(***************************************************************************)
(* The databases, configurations and scripts that MCText gives its scenes. *)
(***************************************************************************)
EXTENDS OdbcCatalog, TLC

lower(stem) == Name(stem, "lower")
upper(stem) == Name(stem, "upper")
mixed(stem) == Name(stem, "mixed")
db == lower("db")
pub == lower("pub")
own == lower("own")
-----------------------------------------------------------------------------
(* Identifiers: tables whose names differ by case, by the namespace they are
   in, or by what an underscore matches; columns that differ by case alone. *)

Col(name, key, optional) == [name |-> name, key |-> key, accepts |-> {"int"}, optional |-> optional]
Stored(name, nullable) == [name |-> name, type |-> "int", nullable |-> nullable]
Tab(catalog, schema, name, columns) ==
  [catalog |-> catalog, schema |-> schema, name |-> name, type |-> "TABLE", columns |-> columns]

Pg(folds, tables) ==
  [dbms |-> "postgresql", current |-> db, path |-> pub, escape |-> TRUE, folds |-> folds,
   tables |-> tables]
My(folds, tables) ==
  [dbms |-> "mysql", current |-> db, path |-> NoName, escape |-> TRUE, folds |-> folds,
   tables |-> tables]
PgT(name, columns) == Tab(db, pub, name, columns)
MyT(name, columns) == Tab(db, NoName, name, columns)

Declared ==
  [e |-> [table |-> upper("a_b"), columns |-> <<Col(lower("x"), TRUE, FALSE), Col(upper("x"), TRUE, TRUE)>>],
   f |-> [table |-> lower("t"), columns |-> <<Col(lower("x"), TRUE, FALSE), Col(lower("y"), FALSE, TRUE)>>]]

TwoX == <<Stored(lower("x"), FALSE), Stored(upper("x"), TRUE)>>
LowerXY == <<Stored(lower("x"), FALSE), Stored(lower("y"), TRUE)>>
UpperXY == <<Stored(upper("x"), FALSE), Stored(upper("y"), TRUE)>>
MixedXY == <<Stored(mixed("x"), FALSE), Stored(upper("x"), FALSE), Stored(upper("y"), TRUE)>>

FirstDatabases(folds) == {
  Pg(folds, {PgT(lower("a_b"), TwoX), PgT(lower("axb"), LowerXY), PgT(lower("t"), LowerXY)}),
  Pg(folds, {PgT(upper("a_b"), TwoX), PgT(lower("a_b"), LowerXY), PgT(upper("t"), UpperXY)}),
  Pg(folds, {Tab(db, own, upper("a_b"), TwoX), PgT(lower("axb"), TwoX), PgT(lower("t"), MixedXY)}),
  My(folds, {MyT(upper("a_b"), LowerXY), MyT(lower("t"), UpperXY)}),
  My(folds, {MyT(lower("a_b"), UpperXY), MyT(upper("t"), LowerXY), MyT(lower("t"), UpperXY)})}
SecondDatabase == Pg(FALSE, {PgT(lower("t"), TwoX), PgT(lower("axb"), TwoX)})

MCWorlds ==
  {[db |-> [d |-> first, g |-> SecondDatabase], declared |-> Declared] :
     first \in FirstDatabases(TRUE) \cup FirstDatabases(FALSE)}
MCNamespaces == {[catalog |-> db, schema |-> pub], [catalog |-> db, schema |-> NoName]}
-----------------------------------------------------------------------------
(* SchemaGenerator: catalogs whose names meet once they are camel or pascal
   case, and the lines of configurations. *)

Row(name, type, nullable) ==
  [name |-> name, type_name |-> type, sized |-> "DECIMAL(10,2)", nullable |-> nullable]
Tbl(schema, name, columns, keys) ==
  [catalog |-> db, schema |-> schema, name |-> name, type |-> "TABLE", columns |-> columns,
   keys |-> keys, references |-> <<[table |-> name, column |-> lower("x")]>>,
   indexes |-> {[name |-> lower("i"), type |-> "other"], [name |-> NoName, type |-> "other"]}]

Columns1 == <<Row(lower("a_b"), "BIGINT", FALSE), Row(mixed("ab"), "DECIMAL", TRUE), Row(upper("x"), "FLOAT", FALSE)>>
Columns2 == <<Row(lower("x"), "INTEGER", FALSE), Row(lower("y"), "GUID", TRUE)>>
Columns3 == <<Row(lower("x"), "LONGVARBINARY", FALSE), Row(upper("x"), "TIME", TRUE), Row(lower("z"), "TINYINT", FALSE)>>

MCCatalogs ==
  UNION {{
    Pg(folds, {Tbl(pub, lower("a_b"), Columns1, <<lower("a_b")>>),
               Tbl(pub, lower("axb"), Columns2, <<lower("x")>>)}),
    Pg(folds, {Tbl(pub, lower("a_b"), Columns2, <<upper("x")>>),
               Tbl(pub, mixed("ab"), Columns1, <<lower("a_b"), upper("x")>>)}),
    Pg(folds, {Tbl(pub, lower("t"), Columns2, <<lower("x")>>),
               Tbl(pub, upper("t"), Columns3, <<upper("x")>>), Tbl(own, lower("u"), Columns1, <<>>)})
  } : folds \in BOOLEAN}
MCRequests == {{}, {lower("a_b")}, {upper("t")}, {lower("t"), lower("u")}}

Sec(kind, table, column) ==
  [kind |-> "section", section |-> [kind |-> kind, table |-> table, column |-> column]]
Setting(key, value) == [kind |-> "text", key |-> key, value |-> value]

MCLines == {
  Sec("types", NoName, NoName), Sec("table", upper("a_b"), NoName), Sec("table", lower("t"), NoName),
  Sec("column", lower("a_b"), lower("x")), Sec("column", lower("t"), lower("y")), Sec("odd", NoName, NoName),
  Setting("DECIMAL", "double"), Setting("DECIMAL(10,2)", "decimal_t"), Setting("class", <<"c">>),
  Setting("cpp_type", "string"), Setting("cpp_type", "float"), Setting("converter", "domain"),
  [kind |-> "bool", key |-> "skip", value |-> TRUE]}
-----------------------------------------------------------------------------
(* DdlScript: statements, each with what it asks for. *)

C(name, type, nullable) == [name |-> name, type |-> type, nullable |-> nullable]
R(table, column, local) == [table |-> table, column |-> column, local |-> local]
Ix(columns, unique) == [columns |-> columns, unique |-> unique]
M(kind, name, columns, keys, references, indices) ==
  [kind |-> kind, name |-> name, columns |-> columns, keys |-> keys, references |-> references,
   indexes |-> indices]
St(tokens, makes) == [tokens |-> tokens, makes |-> makes]
MakesNothing == M("none", <<"-">>, <<>>, <<>>, <<>>, <<>>)

MCScripts == {
  St(<<"create","table","t","(","a","int",",","b","varchar","(","7",")","not","null","default","'x'",",","primary","key","(","a",")",")",";">>,
     M("create", <<"t">>, <<C("a","integer",TRUE), C("b","varchar",FALSE)>>, <<"a">>, <<>>, <<>>)),
  St(<<"create","table","if","not","exists","t","(","k","serial","primary","key",",","key","int","unique",",",
       "d","double","precision","null",",","check","(","d","<","7",")",",","index","i","(","k","desc",",","d",")",")","engine","=","x",";">>,
     M("create", <<"t">>, <<C("k","integer",FALSE), C("key","integer",TRUE), C("d","double_precision",TRUE)>>, <<"k">>, <<>>,
       <<Ix(<<"key">>,TRUE), Ix(<<"k","d">>,FALSE)>>)),
  St(<<"create","table","s",".","u","(","p","timestamp","(","7",")","with","time","zone","not","null","comment","'x'",
       "generated","always","as","(","f","(",")",")","stored",",","q","int","constraint","c","references","t",
       "on","delete","cascade",",","constraint","f","foreign","key","(","q",")","references","v","(","z",")",")",";">>,
     M("create", <<"s","u">>, <<C("p","timestamp",FALSE), C("q","integer",TRUE)>>, <<>>, <<R("t","","q"), R("v","z","q")>>, <<>>)),
  St(<<"alter","table","only","t","add","column","n","int","not","null","after","a",",","add","constraint","g","foreign","key","(","n",")",
       "references","u",";">>,
     M("alter", <<"t">>, <<C("n","integer",FALSE)>>, <<>>, <<R("u","","n")>>, <<>>)),
  St(<<"alter","table","u","add","(","x","int",",","y","odd",")",",","add","primary","key","(","x",")",";">>,
     M("alter", <<"u">>, <<C("x","integer",TRUE), C("y","other",TRUE)>>, <<"x">>, <<>>, <<>>)),
  St(<<"alter","table","t","drop","column","b",",","add","w","int",";">>, MakesNothing),
  St(<<"alter","role","r",";">>, MakesNothing),
  St(<<"create","unique","index","i","on","s",".","u","using","btree","(","p","desc",")","where","(","p",")",";">>,
     M("alter", <<"s","u">>, <<>>, <<>>, <<>>, <<Ix(<<"p">>,TRUE)>>)),
  St(<<"create","procedure","f","(",")","begin","begin","insert",";","end",";","create","table","w","(","a","int",")",";","end",";">>, MakesNothing),
  St(<<"create","schema","if","not","exists","s",";">>, MakesNothing),
  St(<<"insert","into","t","values","(","'x'",",",";",")",";">>, MakesNothing),
  St(<<"use","d",";",";","vacuum",";">>, MakesNothing),
  St(<<"create","table","x","(","a","int","[","]",")",";">>, MakesNothing),
  St(<<"create","table","x","like","t",";">>, MakesNothing),
  St(<<"create","table","e","(",")",";">>, M("create", <<"e">>, <<>>, <<>>, <<>>, <<>>)) }
=============================================================================
