---------------------------- MODULE Identifiers ----------------------------
(***************************************************************************)
(* The names an orm puts into its statements: the mapping registry, the     *)
(* identifier policy a lease carries, identifier resolution against the     *)
(* server's catalog, validation, and the columns a write matches on         *)
(* (src/src/orm.cpp, src/src/orm_mapping.hpp, src/src/mapping/registry.cpp, *)
(* src/src/connection.cpp, src/src/dialect.cpp).                            *)
(***************************************************************************)
EXTENDS OdbcCatalog

CONSTANTS
    Orms,       \* orm objects; each database's pool holds one connection
    Mappers,    \* the orms that map entities; the others only lease and set policies
    Worlds,     \* [db |-> databases by id, declared |-> mappings by entity]
    Policies,   \* identifier policies an application may set
    Namespaces, \* [catalog, schema] pairs handed to resolve_identifiers
    Unset

VARIABLES
    world,      \* the databases and the mappings of this behaviour
    lease,      \* orm -> the database its pooled connection is open to
    policy,     \* orm -> identifiers_
    mapped,     \* orm -> entity -> how many declared columns are mapped so far
    resolved,   \* orm -> entity -> identifier_resolution
    link,       \* database -> the pooled connection's policy and cached dialect
    checked     \* orm -> the mode of the last validate() nothing has since outdated

nameVars == <<world, lease, policy, mapped, resolved, link, checked>>

Entities == DOMAIN world.declared
Databases == DOMAIN world.db
Unmapped == 0 - 1

(***************************************************************************)
(* Dialects.                                                                *)
(***************************************************************************)
detect(dbms) ==
    CASE dbms = "mysql" -> [identifiers |-> "keep", qualification |-> "catalog"]
      [] dbms = "postgresql" -> [identifiers |-> "lower", qualification |-> "schema"]
      [] dbms = "oracle" -> [identifiers |-> "upper", qualification |-> "schema"]
      [] OTHER -> [identifiers |-> "keep", qualification |-> "unsupported"]

fold_identifier(case, name) ==
    CASE case = "lower" -> fold_lower(name)
      [] case = "upper" -> fold_upper(name)
      [] OTHER -> name

value_or(case, otherwise) == IF case = Unset THEN otherwise ELSE case

(* connection::sql_dialect() detects once, connection::identifier_case()
   corrects what was cached. *)
sql_dialect(database) ==
    LET conn == link[database]
        found == detect(world.db[database].dbms).identifiers
    IN IF conn.dialect # Unset THEN conn
       ELSE [conn EXCEPT !.detected = found, !.dialect = value_or(conn.policy, found)]

SetLinkPolicy(conn, case) ==
    [conn EXCEPT !.policy = case,
                 !.dialect = IF @ = Unset THEN Unset ELSE value_or(case, conn.detected)]

NewLink == [policy |-> Unset, detected |-> "keep", dialect |-> Unset]

(***************************************************************************)
(* Mappings.                                                                *)
(***************************************************************************)
TableOf(entity) == world.declared[entity].table
Columns(orm, entity) == SubSeq(world.declared[entity].columns, 1, mapped[orm][entity])
MappedBy(orm) == {entity \in Entities : mapped[orm][entity] # Unmapped}

Connected(orm) == lease[orm] # Unset
Db(orm) == world.db[lease[orm]]
QualificationOf(orm) == detect(Db(orm).dbms).qualification

Outdated(orm) == [checked EXCEPT ![orm] = Unset]
Cleared(orm) == [resolved EXCEPT ![orm] = [entity \in Entities |-> Unset]]

Map(orm, entity) ==
    /\ mapped[orm][entity] = Unmapped
    /\ mapped' = [mapped EXCEPT ![orm][entity] = 0]
    /\ checked' = Outdated(orm)
    /\ UNCHANGED <<world, lease, policy, resolved, link>>

require_unresolved(orm, entity) == resolved[orm][entity] = Unset

(* mapping_builder::column() and primary_key(). *)
AddColumn(orm, entity) ==
    /\ mapped[orm][entity] \in 0 .. Len(world.declared[entity].columns) - 1
    /\ require_unresolved(orm, entity)
    /\ mapped' = [mapped EXCEPT ![orm][entity] = @ + 1]
    /\ checked' = Outdated(orm)
    /\ UNCHANGED <<world, lease, policy, resolved, link>>

(***************************************************************************)
(* The lease.  connect() forgets the resolution first, then acquires: a     *)
(* pool with nothing free makes it throw and keeps the lease there was.     *)
(***************************************************************************)
AdoptKeeping(orm, database) == link[database]
adopt_connection(orm, database) == SetLinkPolicy(link[database], policy[orm])

Free(database) == \A orm \in Orms : lease[orm] # database

ConnectKeeping(orm, database) ==
    /\ checked' = Outdated(orm)
    /\ IF Free(database)
       THEN /\ lease' = [lease EXCEPT ![orm] = database]
            /\ link' = [link EXCEPT ![database] = adopt_connection(orm, database)]
       ELSE UNCHANGED <<lease, link>>
    /\ UNCHANGED <<world, policy, mapped, resolved>>

connect(orm, database) ==
    /\ checked' = Outdated(orm)
    /\ resolved' = Cleared(orm)
    /\ IF Free(database)
       THEN /\ lease' = [lease EXCEPT ![orm] = database]
            /\ link' = [link EXCEPT ![database] = adopt_connection(orm, database)]
       ELSE UNCHANGED <<lease, link>>
    /\ UNCHANGED <<world, policy, mapped>>

disconnect(orm) ==
    /\ resolved' = Cleared(orm)
    /\ lease' = [lease EXCEPT ![orm] = Unset]
    /\ checked' = Outdated(orm)
    /\ UNCHANGED <<world, policy, mapped, link>>

identifier_case(orm, case) ==
    /\ policy' = [policy EXCEPT ![orm] = case]
    /\ link' = IF Connected(orm)
               THEN [link EXCEPT ![lease[orm]] = SetLinkPolicy(@, case)]
               ELSE link
    /\ checked' = Outdated(orm)
    /\ UNCHANGED <<world, lease, mapped, resolved>>

(***************************************************************************)
(* Resolution.                                                              *)
(***************************************************************************)
(* The name as declared when the catalog has it, or else the only one that
   differs by case alone; Unset where the code throws. *)
resolve_identifier(names, declared) ==
    LET candidates == {name \in names : fold_equal(name, declared)}
    IN IF declared \in names THEN declared
       ELSE IF Cardinality(candidates) = 1 THEN CHOOSE name \in candidates : TRUE
       ELSE Unset

Conflicting(rows) == \E r1, r2 \in rows : r1.name = r2.name /\ r1 # r2

exact_columns(db, table) ==
    LET answer == read_table_columns(db, table, TRUE)
    IN IF answer.ok /\ ~Conflicting(answer.rows) THEN answer ELSE Thrown

Scope(space) == [catalog |-> space.catalog, schema |-> space.schema, name |-> NoName]

(* The names identifier_catalog lists. *)
TableNames(orm, space) == {row.name : row \in read_tables(Db(orm), Scope(space), TRUE).rows}

(* identifier_catalog::resolve(): Unset where it throws. *)
Resolution(orm, entity, space) ==
    LET named == resolve_identifier(TableNames(orm, space), TableOf(entity))
        table == [Scope(space) EXCEPT !.name = named]
        live == exact_columns(Db(orm), table)
        names == {row.name : row \in live.rows}
        found == [i \in DOMAIN Columns(orm, entity) |->
                      resolve_identifier(names, Columns(orm, entity)[i].name)]
    IN IF named = Unset THEN Unset
       ELSE IF Columns(orm, entity) = <<>> THEN [table |-> table, columns |-> <<>>]
       ELSE IF live.ok /\ Unset \notin Range(found) /\ IsInjective(found)
            THEN [table |-> table, columns |-> found]
       ELSE Unset

(* The conditions resolve_identifiers() checks before it reads a name. *)
MayResolve(orm, space) ==
    /\ QualificationOf(orm) # "unsupported"
    /\ space.catalog # NoName
    /\ IF QualificationOf(orm) = "schema"
       THEN space.schema # NoName /\ space.catalog = Db(orm).current
       ELSE space.schema = NoName
    /\ read_tables(Db(orm), Scope(space), TRUE).ok

Touched(orm) == [link EXCEPT ![lease[orm]] = sql_dialect(lease[orm])]

(* Entities resolved one by one are swapped in as they come. *)
ResolvePiecemeal(orm, space) ==
    /\ Connected(orm)
    /\ link' = Touched(orm)
    /\ resolved' = [resolved EXCEPT ![orm] = [entity \in Entities |->
           IF entity \in MappedBy(orm) /\ MayResolve(orm, space) /\ Resolution(orm, entity, space) # Unset
           THEN Resolution(orm, entity, space) ELSE resolved[orm][entity]]]
    /\ checked' = Outdated(orm)
    /\ UNCHANGED <<world, lease, policy, mapped>>

resolve_identifiers(orm, space) ==
    LET pending == [entity \in MappedBy(orm) |-> Resolution(orm, entity, space)] IN
    /\ Connected(orm)
    /\ link' = Touched(orm)
    /\ IF MayResolve(orm, space) /\ Unset \notin {pending[entity] : entity \in DOMAIN pending}
       THEN resolved' = [resolved EXCEPT ![orm] = [entity \in Entities |->
                            IF entity \in DOMAIN pending THEN pending[entity] ELSE Unset]]
       ELSE UNCHANGED resolved
    /\ checked' = Outdated(orm)
    /\ UNCHANGED <<world, lease, policy, mapped>>

clear_identifier_resolution(orm) ==
    /\ resolved' = Cleared(orm)
    /\ checked' = Outdated(orm)
    /\ UNCHANGED <<world, lease, policy, mapped, link>>

(***************************************************************************)
(* Rendering.                                                               *)
(***************************************************************************)
CaseOf(orm) == sql_dialect(lease[orm]).dialect

column_sql(orm, entity, i) ==
    IF resolved[orm][entity] = Unset
    THEN fold_identifier(CaseOf(orm), Columns(orm, entity)[i].name)
    ELSE resolved[orm][entity].columns[i]

(* A resolved table is qualified by the schema or by the catalog. *)
table_sql(orm, entity) ==
    LET found == resolved[orm][entity] IN
    IF found = Unset
    THEN [qualifier |-> NoName, name |-> fold_identifier(CaseOf(orm), TableOf(entity))]
    ELSE [qualifier |-> IF QualificationOf(orm) = "schema" THEN found.table.schema
                                                           ELSE found.table.catalog,
          name |-> found.table.name]

(***************************************************************************)
(* Validation.                                                              *)
(***************************************************************************)
Accepts(column, row) ==
    /\ row.type = "other" \/ row.type \in column.accepts
    /\ row.nullable => column.optional

Live(orm, entity) ==
    LET found == resolved[orm][entity] IN
    IF found # Unset THEN exact_columns(Db(orm), found.table)
    ELSE read_table_columns(Db(orm),
             [catalog |-> NoName, schema |-> NoName, name |-> table_sql(orm, entity).name], FALSE)

ValidateLoose(orm, entity, mode) ==
    LET live == Live(orm, entity) IN
    /\ live.ok /\ live.rows # {}
    /\ \A i \in DOMAIN Columns(orm, entity) : \E row \in live.rows :
           /\ fold_equal(row.name, column_sql(orm, entity, i))
           /\ mode = "strict" => Accepts(Columns(orm, entity)[i], row)

validate_entity(orm, entity, mode) ==
    LET live == Live(orm, entity) IN
    /\ live.ok /\ live.rows # {}
    /\ \A i \in DOMAIN Columns(orm, entity) : \E row \in live.rows :
           /\ row.name = column_sql(orm, entity, i)
           /\ mode = "strict" => Accepts(Columns(orm, entity)[i], row)

validate(orm, mode) ==
    /\ Connected(orm)
    /\ \A entity \in MappedBy(orm) : validate_entity(orm, entity, mode)
    /\ link' = Touched(orm)
    /\ checked' = [checked EXCEPT ![orm] = mode]
    /\ UNCHANGED <<world, lease, policy, mapped, resolved>>

(***************************************************************************)
(* Columns of a write, columns of a result.                                 *)
(***************************************************************************)
LeadingKey(columns) ==
    LET keys == {i \in DOMAIN columns : columns[i].key}
    IN {i \in keys : \A j \in keys : i <= j}
primary_key_columns(columns) == {i \in DOMAIN columns : columns[i].key}

(* The first column declared under each name; Unset where a name is not
   mapped or where the entity declares no key to fall back on. *)
resolve_where(columns, fields) ==
    LET names == IF fields # {} THEN fields
                 ELSE {columns[i].name : i \in primary_key_columns(columns)}
        First(name) == {i \in DOMAIN columns : /\ columns[i].name = name
                                               /\ \A j \in 1 .. i - 1 : columns[j].name # name}
    IN IF names = {} \/ \E name \in names : First(name) = {} THEN Unset
       ELSE UNION {First(name) : name \in names}

set_columns_of(columns, where) == DOMAIN columns \ where

OrdinalFolded(label, result) ==
    LET alike == {slot \in DOMAIN result : fold_equal(result[slot], label)}
    IN IF alike = {} THEN 0 ELSE CHOOSE slot \in alike : \A other \in alike : slot <= other

(* The label as mapped (not as folded into the statement), exact before
   folded; 0 where the code throws. *)
result_ordinal(label, result) ==
    LET Least(slots) == CHOOSE slot \in slots : \A other \in slots : slot <= other
        same == {slot \in DOMAIN result : result[slot] = label}
        alike == {slot \in DOMAIN result : fold_equal(result[slot], label)}
    IN IF same # {} THEN Least(same) ELSE IF alike # {} THEN Least(alike) ELSE 0

LabelOf(orm, entity, i) ==
    IF resolved[orm][entity] = Unset THEN Columns(orm, entity)[i].name
                                     ELSE resolved[orm][entity].columns[i]

NameInit ==
    /\ world \in Worlds
    /\ lease = [orm \in Orms |-> Unset]
    /\ policy = [orm \in Orms |-> Unset]
    /\ mapped = [orm \in Orms |-> [entity \in Entities |-> Unmapped]]
    /\ resolved = [orm \in Orms |-> [entity \in Entities |-> Unset]]
    /\ link = [database \in Databases |-> NewLink]
    /\ checked = [orm \in Orms |-> Unset]

NameNext == \E orm \in Orms :
    \/ orm \in Mappers /\ \E entity \in Entities : Map(orm, entity) \/ AddColumn(orm, entity)
    \/ \E database \in Databases : connect(orm, database)
    \/ disconnect(orm)
    \/ \E case \in Policies : identifier_case(orm, case)
    \/ orm \in Mappers /\ \E space \in Namespaces : resolve_identifiers(orm, space)
    \/ clear_identifier_resolution(orm)
    \/ orm \in Mappers /\ \E mode \in {"strict", "lenient"} : validate(orm, mode)

NameSpec == NameInit /\ [][NameNext]_nameVars

(***************************************************************************)
(* What the server makes of a quoted name.  External: table names compare   *)
(* as spelled, an unqualified one is looked up in the current namespace,    *)
(* column names compare as spelled except on MySQL.                         *)
(***************************************************************************)
Denoted(db, rendered) ==
    {table \in db.tables :
        /\ table.catalog = IF db.dbms = "mysql" /\ rendered.qualifier # NoName
                           THEN rendered.qualifier ELSE db.current
        /\ table.schema = IF db.dbms # "mysql" /\ rendered.qualifier # NoName
                          THEN rendered.qualifier ELSE db.path
        /\ table.name = rendered.name}

SameColumn(db, stored, rendered) ==
    IF db.dbms = "mysql" THEN fold_equal(stored, rendered) ELSE stored = rendered

StoredColumn(db, table, rendered) ==
    {row \in Range(table.columns) : SameColumn(db, row.name, rendered)}

(***************************************************************************)
(* What a server sees to: a table is told from another by its full name, a  *)
(* column by what the server compares, MySQL has no schemas, and a column's *)
(* name fits the catalog reader's buffer.  A mapping names a column, and    *)
(* once: no server takes a statement that lists it twice or an empty name.  *)
(***************************************************************************)
WellKept(db) ==
    /\ db.folds \in BOOLEAN
    /\ db.dbms = "mysql" => db.path = NoName
    /\ \A t1, t2 \in db.tables : exact_catalog_table_matches(t1, t2) => t1 = t2
    /\ \A table \in db.tables :
           /\ Given(table.name)
           /\ table.columns \in Seq([name : Names, type : STRING, nullable : BOOLEAN])
           /\ \A row \in Range(table.columns) : row.name.stem # "long"
           /\ \A r1, r2 \in Range(table.columns) : SameColumn(db, r1.name, r2.name) => r1 = r2

WellDeclared(mapping) ==
    /\ Given(mapping.table)
    /\ mapping.columns \in
           Seq([name : Names, key : BOOLEAN, accepts : SUBSET STRING, optional : BOOLEAN])
    /\ \A i, j \in DOMAIN mapping.columns :
           /\ Given(mapping.columns[i].name)
           /\ mapping.columns[i].name = mapping.columns[j].name => i = j

ASSUME NameAssumption ==
    \A w \in Worlds :
        /\ \A database \in DOMAIN w.db : WellKept(w.db[database])
        /\ \A entity \in DOMAIN w.declared : WellDeclared(w.declared[entity])

(* Whether the server can run a statement naming every mapped column. *)
Runs(orm, entity) ==
    \E table \in Denoted(Db(orm), table_sql(orm, entity)) :
        \A i \in DOMAIN Columns(orm, entity) :
            StoredColumn(Db(orm), table, column_sql(orm, entity, i)) # {}

(***************************************************************************)
(* Properties.                                                              *)
(***************************************************************************)
(* A resolution an orm holds fits the connection it holds: as many names as
   mapped columns, every one a column of the very table the statement will
   name, no two the same.  connect() and disconnect() forget it, and a
   resolved mapping refuses new columns (orm.cpp 56-73, 101-144;
   mapping/registry.hpp require_unresolved). *)
ResolvedNamesExist ==
    \A orm \in Orms : \A entity \in Entities :
        resolved[orm][entity] # Unset =>
            /\ Connected(orm)
            /\ Len(resolved[orm][entity].columns) = Len(Columns(orm, entity))
            /\ IsInjective(resolved[orm][entity].columns)
            /\ Runs(orm, entity)

(* resolve_identifiers() installs every mapped entity's resolution or none
   (orm.cpp:126-137): no step leaves some of an orm's entities newly resolved
   and others on an older answer. *)
ResolvesAtOnce ==
    \A orm \in Orms : resolved'[orm] # resolved[orm] =>
        \/ \A entity \in Entities : resolved'[orm][entity] = Unset
        \/ \E space \in Namespaces : \A entity \in MappedBy(orm) :
               /\ resolved'[orm][entity] # Unset
               /\ [resolved'[orm][entity].table EXCEPT !.name = NoName] = Scope(space)

(* A mapping that passed validate() runs: the table and columns its
   statements name exist on the server, and after a strict pass each has a
   type the member binds and is nullable only where the member is optional
   (orm_mapping.hpp validate_entity).  Without a resolution the catalog is
   asked across namespaces, by a driver that may not look at case, so this
   holds where no table whose name differs by case alone lives elsewhere than
   where an unqualified name is looked up, or is taken for it. *)
ValidatedNamesWork ==
    \A orm \in Orms : checked[orm] # Unset => \A entity \in MappedBy(orm) :
        \/ /\ resolved[orm][entity] = Unset
           /\ \E table \in Db(orm).tables :
                 /\ fold_equal(table.name, table_sql(orm, entity).name)
                 /\ \/ table.catalog # Db(orm).current
                    \/ table.schema # Db(orm).path
                    \/ table.name # table_sql(orm, entity).name /\ Db(orm).folds
        \/ /\ Runs(orm, entity)
           /\ checked[orm] = "strict" =>
                 \A table \in Denoted(Db(orm), table_sql(orm, entity)) :
                 \A i \in DOMAIN Columns(orm, entity) :
                 \A row \in StoredColumn(Db(orm), table, column_sql(orm, entity, i)) :
                     Accepts(Columns(orm, entity)[i], row)

(* A pooled connection spells names by the policy of the orm that holds it,
   whoever held it before and whether its dialect was cached by then
   (orm.cpp adopt_connection, connection.cpp:123-141). *)
PolicyIsOwners ==
    \A orm \in Orms : Connected(orm) =>
        CaseOf(orm) = value_or(policy[orm], detect(Db(orm).dbms).identifiers)

(* A column read back by name is the column the SELECT named at that place,
   also where two columns differ by case alone and where the server reports a
   spelling that is not the mapped one (mapping/registry.cpp:91-111). *)
OrdinalsRight ==
    \A orm \in Orms : Connected(orm) => \A entity \in MappedBy(orm) :
    \A table \in Denoted(Db(orm), table_sql(orm, entity)) :
        LET selected == [i \in DOMAIN Columns(orm, entity) |->
                            StoredColumn(Db(orm), table, column_sql(orm, entity, i))]
            result == [i \in DOMAIN selected |-> (CHOOSE row \in selected[i] : TRUE).name]
        IN Runs(orm, entity) => \A i \in DOMAIN selected :
               LET ordinal == result_ordinal(LabelOf(orm, entity, i), result)
               IN ordinal # 0 /\ selected[ordinal] = selected[i]

(* A write told no fields matches on the whole primary key and assigns no
   key column (orm_mapping.hpp resolve_where, set_columns_of). *)
WholeKeyMatched ==
    \A orm \in Orms : \A entity \in MappedBy(orm) :
        LET columns == Columns(orm, entity)
            where == resolve_where(columns, {})
        IN where # Unset => \A i \in DOMAIN columns :
               columns[i].key <=> i \in where /\ i \notin set_columns_of(columns, where)

(* The names in a statement are those of the connection it runs on: what was
   resolved or validated is there, a pooled connection spells by the policy of
   its holder, columns come back by their own name and a write told no fields
   matches on the whole key (orm.cpp:56-144, orm_mapping.hpp,
   registry.cpp:91-111). *)
NamesHold ==
    /\ ResolvedNamesExist /\ ValidatedNamesWork /\ PolicyIsOwners
    /\ OrdinalsRight /\ WholeKeyMatched

(* resolve_identifiers() installs every mapped entity's names or none
   (orm.cpp:126-137). *)
ResolvesTogether == [][ResolvesAtOnce]_nameVars
=============================================================================
