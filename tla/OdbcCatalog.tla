---------------------------- MODULE OdbcCatalog ----------------------------
(***************************************************************************)
(* The ODBC schema catalog (src/backends/odbc/schema_catalog.cpp): what the *)
(* driver's catalog procedures answer and which of those rows the library   *)
(* keeps.  A name is a stem and the case it is spelled in; the stem "a_b"   *)
(* also reads as a pattern, and "long" is one that overruns the reader's    *)
(* buffer.  A read answers [ok, rows]: ok is FALSE where the code throws.   *)
(***************************************************************************)
EXTENDS Naturals, Sequences, FiniteSets, Functions

NoStem == ""
NoName == [stem |-> NoStem, case |-> "lower"]
Name(stem, case) == [stem |-> stem, case |-> case]

Cases == {"lower", "upper", "mixed"}
Names == [stem : STRING, case : Cases]
Given(name) == name \in Names /\ name.stem # NoStem

fold_lower(name) == [name EXCEPT !.case = "lower"]
fold_upper(name) == IF name = NoName THEN name ELSE [name EXCEPT !.case = "upper"]

fold_equal(left, right) == fold_lower(left) = fold_lower(right)

Answer(rows) == [ok |-> TRUE, rows |-> rows]
Thrown == [ok |-> FALSE, rows |-> {}]

(***************************************************************************)
(* The driver.  An empty argument is unrestricted; any other is a search    *)
(* pattern, taken literally once its wildcards are escaped, and compared    *)
(* with or without regard to case as the driver pleases (db.folds).         *)
(***************************************************************************)
Wildcards(stem) == IF stem = "a_b" THEN {"a_b", "axb"} ELSE {stem}

Selects(db, argument, escaped, name) ==
    \/ argument = NoName
    \/ /\ name.stem \in IF escaped THEN {argument.stem} ELSE Wildcards(argument.stem)
       /\ db.folds \/ name.case = argument.case

(* char_buffer: str() cuts a text at the buffer's end, exact_str() throws. *)
str(name) == IF name.stem = "long" THEN [name EXCEPT !.stem = "cut"] ELSE name
exact_str_ok(name, allow_empty) == name.stem # "long" /\ (allow_empty \/ name # NoName)

catalog_name_matches(asked, reported) ==
    asked = NoName \/ reported = NoName \/ fold_equal(asked, reported)

asked_as(asked, table) ==
    /\ catalog_name_matches(asked.catalog, str(table.catalog))
    /\ catalog_name_matches(asked.schema, str(table.schema))
    /\ catalog_name_matches(asked.name, str(table.name))

exact_row_ok(table, schema_required) ==
    /\ exact_str_ok(table.catalog, FALSE)
    /\ exact_str_ok(table.schema, ~schema_required)
    /\ exact_str_ok(table.name, FALSE)

exact_catalog_namespace_matches(asked, table) ==
    asked.catalog = table.catalog /\ asked.schema = table.schema
exact_catalog_table_matches(asked, table) ==
    exact_catalog_namespace_matches(asked, table) /\ asked.name = table.name

(* Exact reads are offered for two kinds of server, each with the namespace
   it has, and only by a driver that names a one-byte pattern escape. *)
exact_namespace_escape(db, asked) ==
    /\ asked.catalog # NoName
    /\ \/ db.dbms = "postgresql" /\ asked.schema # NoName /\ asked.catalog = db.current
       \/ db.dbms = "mysql" /\ asked.schema = NoName
    /\ db.escape

TablesAnswered(db, asked, exact) ==
    {table \in db.tables :
        /\ table.type = "TABLE"
        /\ Selects(db, asked.catalog, FALSE, table.catalog)
        /\ Selects(db, asked.schema, exact, table.schema)}

ReportedTable(table) ==
    [catalog |-> str(table.catalog), schema |-> str(table.schema), name |-> str(table.name)]

read_tables(db, asked, exact) ==
    LET found == TablesAnswered(db, asked, exact) IN
    IF ~exact
    THEN Answer({ReportedTable(table) : table \in {t \in found : asked_as([asked EXCEPT !.name = NoName], t)}})
    ELSE IF /\ exact_namespace_escape(db, asked)
            /\ \A table \in found : exact_row_ok(table, asked.schema # NoName)
         THEN Answer({ReportedTable(table) :
                         table \in {t \in found : exact_catalog_namespace_matches(asked, t)}})
         ELSE Thrown

(* The tables whose column, key and index rows the driver reports for one
   table reference; views are among them.  A catalog name is a literal here. *)
TablesDescribed(db, asked, exact) ==
    {table \in db.tables :
        /\ Selects(db, asked.catalog, TRUE, table.catalog)
        /\ Selects(db, asked.schema, exact, table.schema)
        /\ Selects(db, asked.name, exact, table.name)}

(* The tables among them whose rows are kept. *)
TablesAsked(db, asked, exact) ==
    {table \in TablesDescribed(db, asked, exact) :
        IF exact THEN exact_catalog_table_matches(asked, table) ELSE asked_as(asked, table)}

read_table_columns(db, asked, exact) ==
    LET rows == UNION {Range(table.columns) : table \in TablesAsked(db, asked, exact)} IN
    IF ~exact
    THEN Answer({[row EXCEPT !.name = str(row.name)] : row \in rows})
    ELSE IF /\ asked.name # NoName
            /\ exact_namespace_escape(db, asked)
            /\ \A table \in TablesDescribed(db, asked, exact) :
                   exact_row_ok(table, asked.schema # NoName)
            /\ \A row \in rows : exact_str_ok(row.name, FALSE)
         THEN Answer(rows)
         ELSE Thrown

Described(db, asked) == {t \in TablesDescribed(db, asked, FALSE) : asked_as(asked, t)}

primary_key(db, asked) ==
    UNION {{str(key) : key \in Range(table.keys)} : table \in Described(db, asked)}

foreign_keys(db, asked) ==
    UNION {Range(table.references) : table \in Described(db, asked)}

(* Only plain index rows count, and one without a name is no index. *)
indexes(db, asked) ==
    {index \in UNION {table.indexes : table \in Described(db, asked)} :
        index.type = "other" /\ index.name # NoName}
=============================================================================
