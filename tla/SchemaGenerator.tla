-------------------------- MODULE SchemaGenerator --------------------------
(***************************************************************************)
(* uniorm-gen: the configuration is read line by line, the catalog is read  *)
(* into a schema model, the configuration is checked against it, and one    *)
(* header is written (src/tools/uniorm-gen: config.cpp, schema_reader.cpp,  *)
(* naming.cpp, generator.cpp, main.cpp).  A failing step throws and nothing *)
(* is written.                                                              *)
(***************************************************************************)
EXTENDS OdbcCatalog, SequencesExt

CONSTANTS
    Lines,      \* configuration lines
    MaxLines,   \* bound on the lines of one configuration
    Catalogs,   \* databases, as OdbcCatalog describes them
    Requests    \* sets of names for --tables; the empty one asks for all

VARIABLES phase, lines, section, config, md, wanted, model, header, warned

genVars == <<phase, lines, section, config, md, wanted, model, header, warned>>

(***************************************************************************)
(* What a server sees to: a table is told from another by its full name,    *)
(* names are not empty and fit the catalog reader's buffer, and where one   *)
(* table is in a catalog or a schema all are.  A line of a configuration    *)
(* sets something.                                                          *)
(***************************************************************************)
Fits(name) == name \in Names /\ name.stem # "long"
CatalogRows == [name : Names, type_name : STRING, sized : STRING, nullable : BOOLEAN]

WellListed(db) ==
    /\ IsFiniteSet(db.tables) /\ db.folds \in BOOLEAN
    /\ \A table \in db.tables :
           /\ Fits(table.catalog) /\ Fits(table.schema) /\ Fits(table.name) /\ Given(table.name)
           /\ table.columns \in Seq(CatalogRows)
    /\ \A t1, t2 \in db.tables :
           /\ exact_catalog_table_matches(t1, t2) => t1 = t2
           /\ t1.catalog = NoName => t2.catalog = NoName
           /\ t1.schema = NoName => t2.schema = NoName

NoValue == "-"

ASSUME GeneratorAssumption ==
    /\ \A db \in Catalogs : WellListed(db)
    /\ \A line \in Lines : line.kind = "text" => line.value # NoValue

NoSection == [kind |-> "none", table |-> NoName, column |-> NoName]

(***************************************************************************)
(* config.cpp.  Keys are stored folded; a later line overrides an earlier.  *)
(***************************************************************************)
NoTable == [class |-> <<>>, skip |-> FALSE, columns |-> <<>>]
NoColumn == [cpp_type |-> NoValue, converter |-> NoValue]

Entry(map, key, otherwise) == IF key \in DOMAIN map THEN map[key] ELSE otherwise
Put(map, key, entry) == [k \in DOMAIN map \cup {key} |-> IF k = key THEN entry ELSE map[k]]

(* Whether apply_setting() takes the line in the section it stands in. *)
Applies(where, line) ==
    \/ where.kind = "types" /\ line.kind = "text"
    \/ where.kind = "table" /\ where.table # NoName
       /\ \/ line.key = "class" /\ line.kind = "text"
          \/ line.key = "skip" /\ line.kind = "bool"
    \/ where.kind = "column" /\ where.table # NoName /\ where.column # NoName
       /\ line.key \in {"cpp_type", "converter"} /\ line.kind = "text"

apply_setting(cfg, where, line) ==
    LET t == fold_lower(where.table)
        c == fold_lower(where.column)
        table == Entry(cfg.tables, t, NoTable)
        column == Entry(table.columns, c, NoColumn)
        new == [column EXCEPT ![line.key] = line.value]
    IN CASE where.kind = "types" -> [cfg EXCEPT !.types = Put(@, line.key, line.value)]
         [] where.kind = "table" ->
                [cfg EXCEPT !.tables = Put(@, t, [table EXCEPT ![line.key] = line.value])]
         [] where.kind = "column" ->
                [cfg EXCEPT !.tables = Put(@, t, [table EXCEPT !.columns = Put(@, c, new)])]

(* parse_config(): one line of the file. *)
ParseLine(line) ==
    /\ phase = "config" /\ lines < MaxLines
    /\ lines' = lines + 1
    /\ \/ /\ line.kind = "section"
          /\ section' = line.section
          /\ UNCHANGED <<phase, config>>
       \/ /\ line.kind # "section" /\ Applies(section, line)
          /\ config' = apply_setting(config, section, line)
          /\ UNCHANGED <<phase, section>>
       \/ /\ line.kind # "section" /\ ~Applies(section, line)
          /\ phase' = "failed"
          /\ UNCHANGED <<section, config>>
    /\ UNCHANGED <<md, wanted, model, header, warned>>

(***************************************************************************)
(* schema_reader.cpp.                                                       *)
(***************************************************************************)
Everything == [catalog |-> NoName, schema |-> NoName, name |-> NoName]
Listed == read_tables(md, Everything, FALSE).rows

(* The table --tables means: as spelled, or else by case alone. *)
Hits(want) ==
    LET same == {row \in Listed : row.name = want}
    IN IF same # {} THEN same ELSE {row \in Listed : fold_equal(row.name, want)}

list_tables ==
    IF wanted = {} THEN Listed ELSE {CHOOSE row \in Hits(want) : TRUE : want \in wanted}

(* The column rows the catalog keeps, table by table as the driver has them. *)
RowsOf(tables) ==
    LET list == SetToSeq(tables)
    IN FlattenSeq([i \in DOMAIN list |-> list[i].columns])

(* Mutant: a row is kept whatever table it is of. *)
ColumnRowsLoose(db, asked, exact) == RowsOf(TablesDescribed(db, asked, exact))

ColumnRows(db, asked, exact) == RowsOf(TablesAsked(db, asked, exact))

read_columns(ref) ==
    LET rows == ColumnRows(md, ref, FALSE)
    IN [i \in DOMAIN rows |-> [rows[i] EXCEPT !.name = str(@)]]

read_primary_keys(columns, keys) ==
    [i \in DOMAIN columns |-> columns[i].name \in keys]

TableModel(ref) ==
    LET columns == read_columns(ref)
        keys == primary_key(md, ref)
    IN [ref |-> ref, columns |-> columns,
        key |-> read_primary_keys(columns, keys),
        unmatched |-> keys \ {columns[i].name : i \in DOMAIN columns},
        references |-> foreign_keys(md, ref),
        indexes |-> indexes(md, ref)]

read_schema ==
    /\ phase = "config"
    /\ IF \A want \in wanted : Hits(want) # {}
       THEN /\ phase' = "check"
            /\ model' = {TableModel(ref) : ref \in list_tables}
            /\ warned' = UNION {{<<table.ref, key>> : key \in table.unmatched} : table \in model'}
       ELSE phase' = "failed" /\ UNCHANGED <<model, warned>>
    /\ UNCHANGED <<lines, section, config, md, wanted, header>>

(***************************************************************************)
(* check_config(): every section names a listed table, every column         *)
(* override a column of a table this run reads.                             *)
(***************************************************************************)
ConfigTablesFit ==
    \A key \in DOMAIN config.tables : \E row \in Listed : fold_lower(row.name) = key

ConfigFits ==
    /\ ConfigTablesFit
    /\ \A key \in DOMAIN config.tables :
           LET read == {table \in model : fold_lower(table.ref.name) = key}
               table == CHOOSE t \in read : TRUE
           IN read # {} => DOMAIN config.tables[key].columns \subseteq
                  {fold_lower(row.name) : row \in Range(table.columns)}

check_config ==
    /\ phase = "check"
    /\ phase' = IF ConfigFits THEN "generate" ELSE "failed"
    /\ UNCHANGED <<lines, section, config, md, wanted, model, header, warned>>

(***************************************************************************)
(* naming.cpp: an identifier is its words and the number it ends in.  An    *)
(* underscore separates words, and so does a capital after a small letter.  *)
(***************************************************************************)
split_words(name) ==
    CASE name.stem = "a_b" -> <<"a", "b">>
      [] name.stem = "ab" /\ name.case = "mixed" -> <<"a", "b">>
      [] name.stem = "a_b2" -> <<"a", "b">>
      [] OTHER -> <<name.stem>>

to_camel_case(name) ==
    [words |-> split_words(name), number |-> IF name.stem = "a_b2" THEN <<2>> ELSE <<>>]
to_pascal_case(name) == split_words(name) \o IF name.stem = "a_b2" THEN <<"2">> ELSE <<>>

(***************************************************************************)
(* generator.cpp.                                                           *)
(***************************************************************************)
Bindable == {"bool", "int16", "int32", "int64", "double", "string", "bytes", "timestamp", "decimal_t"}

DefaultNarrow(type) ==
    CASE type \in {"integer", "bigint"} -> "int32" [] OTHER -> "string"

default_cpp_type(type) ==
    CASE type = "boolean" -> "bool"
      [] type = "smallint" -> "int16"
      [] type = "integer" -> "int32"
      [] type = "bigint" -> "int64"
      [] type \in {"real", "double_precision"} -> "double"
      [] type \in {"binary", "varbinary"} -> "bytes"
      [] type \in {"date", "time", "timestamp"} -> "timestamp"
      [] OTHER -> "string"

(* The SQL types a member of each type binds (mapping/registry.hpp). *)
accepted_sql_types(cpp) ==
    CASE cpp = "bool" -> {"boolean"}
      [] cpp = "int16" -> {"smallint"}
      [] cpp = "int32" -> {"integer"}
      [] cpp = "int64" -> {"bigint"}
      [] cpp = "double" -> {"real", "double_precision", "decimal"}
      [] cpp \in {"string", "decimal_t"} ->
             {"character", "varchar", "longvarchar", "wchar", "wvarchar", "guid", "decimal"}
      [] cpp = "bytes" -> {"binary", "varbinary"}
      [] cpp = "timestamp" -> {"date", "time", "timestamp"}

(* ODBC type codes read as the neutral types (odbc/native_types.hpp). *)
sql_type_from_native(code) ==
    CASE code = "BIT" -> "boolean"
      [] code \in {"TINYINT", "SMALLINT"} -> "smallint"
      [] code = "INTEGER" -> "integer"
      [] code = "BIGINT" -> "bigint"
      [] code \in {"REAL", "FLOAT"} -> "real"
      [] code = "DOUBLE" -> "double_precision"
      [] code \in {"DECIMAL", "NUMERIC"} -> "decimal"
      [] code = "CHAR" -> "character"
      [] code = "VARCHAR" -> "varchar"
      [] code = "LONGVARCHAR" -> "longvarchar"
      [] code = "WCHAR" -> "wchar"
      [] code \in {"WVARCHAR", "WLONGVARCHAR"} -> "wvarchar"
      [] code = "BINARY" -> "binary"
      [] code \in {"VARBINARY", "LONGVARBINARY"} -> "varbinary"
      [] code = "DATE" -> "date"
      [] code = "TIME" -> "time"
      [] code = "TIMESTAMP" -> "timestamp"
      [] code = "GUID" -> "guid"
      [] OTHER -> "other"

TableConfig(name) == Entry(config.tables, fold_lower(name), NoTable)
ColumnConfig(table, name) ==
    Entry(TableConfig(table).columns, fold_lower(name), NoColumn)

(* A type with its size is looked up before the bare type. *)
find_type_override(row) ==
    Entry(config.types, row.sized, Entry(config.types, row.type_name, NoValue))

(* Converter, then column override, then type override, then the default. *)
MemberType(table, row) ==
    LET column == ColumnConfig(table, row.name) IN
    IF column.converter # NoValue THEN [cpp |-> column.converter, through |-> TRUE]
    ELSE [cpp |-> IF column.cpp_type # NoValue THEN column.cpp_type
                  ELSE IF find_type_override(row) # NoValue THEN find_type_override(row)
                  ELSE default_cpp_type(sql_type_from_native(row.type_name)),
          through |-> FALSE]

(* A member name that is taken gets the column's index, counted from zero. *)
MemberName(columns, i, used) ==
    LET plain == to_camel_case(columns[i].name)
    IN IF plain \in used THEN [plain EXCEPT !.number = Append(@, i - 1)] ELSE plain

MemberNames(columns) ==
    LET name[i \in 1 .. Len(columns)] == MemberName(columns, i, {name[j] : j \in 1 .. i - 1})
    IN name

Member(table, i) ==
    LET row == table.columns[i]
        type == MemberType(table.ref.name, row)
    IN [cpp |-> type.cpp, through |-> type.through, member |-> MemberNames(table.columns)[i],
        column |-> row.name, key |-> table.key[i], optional |-> row.nullable]

build_members(table) == [i \in DOMAIN table.columns |-> Member(table, i)]

emitted_class(table) ==
    LET class == TableConfig(table.ref.name).class
    IN IF class # <<>> THEN class ELSE to_pascal_case(table.ref.name)

Emitted == {table \in model : ~TableConfig(table.ref.name).skip}

ClassNamesUnchecked == TRUE
check_class_names ==
    \A t1, t2 \in Emitted : t1 # t2 => emitted_class(t1) # emitted_class(t2)

Types_ok ==
    \A table \in Emitted : \A m \in Range(build_members(table)) : m.through \/ m.cpp \in Bindable

emit_table(table) ==
    [ref |-> table.ref, class |-> emitted_class(table), members |-> build_members(table),
     references |-> table.references, indexes |-> table.indexes]

(* generate_header() and the write in generate_from(), which may fail. *)
generate_header ==
    /\ phase = "generate"
    /\ \/ /\ check_class_names /\ Types_ok
          /\ phase' = "written"
          /\ header' = {emit_table(table) : table \in Emitted}
       \/ phase' = "failed" /\ UNCHANGED header
    /\ UNCHANGED <<lines, section, config, md, wanted, model, warned>>

GenInit ==
    /\ phase = "config" /\ lines = 0 /\ section = NoSection
    /\ config = [types |-> <<>>, tables |-> <<>>]
    /\ md \in Catalogs /\ wanted \in Requests
    /\ model = {} /\ header = {} /\ warned = {}

GenNext ==
    \/ \E line \in Lines : ParseLine(line)
    \/ read_schema \/ check_config \/ generate_header

GenSpec == GenInit /\ [][GenNext]_genVars

(***************************************************************************)
(* Properties of a written header.                                          *)
(***************************************************************************)
Written == phase = "written"

Source(ref) == CHOOSE table \in md.tables : ReportedTable(table) = ref

(* A table whose names differ from another's by case alone cannot be told
   from it by a driver that compares names without case. *)
Alone(ref) ==
    \/ ~md.folds
    \/ \A table \in md.tables : fold_equal(table.name, ref.name) => ReportedTable(table) = ref

(* Each struct describes its own table: the columns in the server's order,
   the keys, references and indexes of that table and not of one whose name
   its own name matches as a pattern; and a key column is marked as one, or
   the run says which key name it could not place (schema_reader.cpp:66-133,
   schema_catalog.cpp asked_as). *)
HeaderIsTheTables ==
    Written => \A struct \in header : Alone(struct.ref) =>
        LET table == Source(struct.ref)
            Marked == {struct.members[i].column : i \in {j \in DOMAIN struct.members : struct.members[j].key}}
        IN /\ Len(struct.members) = Len(table.columns)
           /\ \A i \in DOMAIN struct.members :
                  /\ struct.members[i].column = str(table.columns[i].name)
                  /\ struct.members[i].optional = table.columns[i].nullable
           /\ \A key \in Range(table.keys) : str(key) \in Marked \/ <<struct.ref, str(key)>> \in warned
           /\ Marked \subseteq {str(key) : key \in Range(table.keys)}
           /\ struct.references = Range(table.references)

(* The header compiles: no two structs share a name, and no two members of a
   struct do unless a column name itself ends in a number, which a renamed
   member can run into (generator.cpp:202-266). *)
NamesDistinct ==
    Written =>
        /\ \A s1, s2 \in header : s1 # s2 => s1.class # s2.class
        /\ \A struct \in header :
               (\A i \in DOMAIN struct.members : to_camel_case(struct.members[i].column).number = <<>>)
               => \A i, j \in DOMAIN struct.members :
                      i # j => struct.members[i].member # struct.members[j].member

(* A struct no override touches passes strict validation against the
   database it was generated from: every member binds its column's type
   (generator.cpp default_cpp_type against registry.hpp accepted_sql_types). *)
HeaderValidates ==
    (Written /\ DOMAIN config.types = {}) => \A struct \in header :
        (Alone(struct.ref) /\ fold_lower(struct.ref.name) \notin DOMAIN config.tables) =>
            \A i \in DOMAIN struct.members :
                LET type == sql_type_from_native(Source(struct.ref).columns[i].type_name)
                IN type = "other" \/ type \in accepted_sql_types(struct.members[i].cpp)

(* No override is ignored in silence: in a written header every section of
   the configuration names a table of the catalog, and every column override
   of an emitted table shows in one of its members (main.cpp:96-105).  Of two
   tables whose names differ by case alone check_config() looks at one. *)
OverridesHeeded ==
    Written => \A key \in DOMAIN config.tables :
        /\ \E row \in Listed : fold_lower(row.name) = key
        /\ \A struct \in header :
               /\ fold_lower(struct.ref.name) = key
               /\ \A table \in model : fold_lower(table.ref.name) = key => table.ref = struct.ref
               =>
               \A column \in DOMAIN config.tables[key].columns :
                   \E m \in Range(struct.members) :
                       /\ fold_lower(m.column) = column
                       /\ m.cpp \in {config.tables[key].columns[column].converter,
                                     config.tables[key].columns[column].cpp_type}

(* A header that was written describes its own tables, compiles, passes strict
   validation where no override touches it, and heeds every override
   (schema_reader.cpp:66-133, generator.cpp:202-266, main.cpp:96-105). *)
HeaderFits == HeaderIsTheTables /\ NamesDistinct /\ HeaderValidates /\ OverridesHeeded
=============================================================================
