----------------------------- MODULE TextProofs -----------------------------
(***************************************************************************)
(* Theorems about the names in an orm's statements (Identifiers), for every *)
(* set of orms, databases and mappings, and about the scheme that finds a   *)
(* backend (BackendRegistry), for every set of threads and schemes.         *)
(***************************************************************************)
EXTENDS Identifiers, BackendRegistry, FiniteSetTheorems, WellFoundedInduction, TLAPS

(***************************************************************************)
(* Names.  What an orm reads from its variables, as operators on values:    *)
(* `found` is a resolution or Unset, `columns` the mapped columns so far.   *)
(***************************************************************************)
ColumnAs(case, columns, found, i) ==
    IF found = Unset THEN fold_identifier(case, columns[i].name) ELSE found.columns[i]

TableAs(db, case, name, found) ==
    IF found = Unset
    THEN [qualifier |-> NoName, name |-> fold_identifier(case, name)]
    ELSE [qualifier |-> IF detect(db.dbms).qualification = "schema" THEN found.table.schema
                                                                   ELSE found.table.catalog,
          name |-> found.table.name]

RunsAs(db, case, name, columns, found) ==
    \E table \in Denoted(db, TableAs(db, case, name, found)) :
        \A i \in DOMAIN columns : StoredColumn(db, table, ColumnAs(case, columns, found, i)) # {}

LiveAs(db, case, name, found) ==
    IF found # Unset THEN exact_columns(db, found.table)
    ELSE read_table_columns(db,
             [catalog |-> NoName, schema |-> NoName, name |-> fold_identifier(case, name)], FALSE)

ValidAs(db, case, name, columns, found, mode) ==
    LET live == LiveAs(db, case, name, found) IN
    /\ live.ok /\ live.rows # {}
    /\ \A i \in DOMAIN columns : \E row \in live.rows :
           /\ row.name = ColumnAs(case, columns, found, i)
           /\ mode = "strict" => Accepts(columns[i], row)

Spelling(orm) == value_or(policy[orm], detect(Db(orm).dbms).identifiers)

NameTypeInv ==
    /\ world \in Worlds
    /\ lease \in [Orms -> Databases \cup {Unset}]
    /\ DOMAIN policy = Orms
    /\ mapped \in [Orms -> [Entities -> {Unmapped} \cup Nat]]
    /\ \A orm \in Orms : \A entity \in Entities :
           mapped[orm][entity] \in {Unmapped} \cup 0 .. Len(world.declared[entity].columns)
    /\ DOMAIN resolved = Orms /\ \A orm \in Orms : DOMAIN resolved[orm] = Entities
    /\ DOMAIN link = Databases /\ DOMAIN checked = Orms

\* A connection has one holder and follows its holder's policy; a cached dialect
\* is the one detection and policy give.
LinkAt(database) ==
    LET conn == link[database]
    IN  /\ conn = [policy |-> conn.policy, detected |-> conn.detected, dialect |-> conn.dialect]
        /\ conn.dialect # Unset =>
               /\ conn.detected = detect(world.db[database].dbms).identifiers
               /\ conn.dialect = value_or(conn.policy, conn.detected)

LinkInv ==
    /\ \A o1, o2 \in Orms : lease[o1] = lease[o2] /\ lease[o1] # Unset => o1 = o2
    /\ \A orm \in Orms : lease[orm] # Unset => link[lease[orm]].policy = policy[orm]
    /\ \A database \in Databases : LinkAt(database)

\* A resolution is of a mapped entity and fits the connection.
ResolvedAt(orm, entity) ==
    LET found == resolved[orm][entity] IN
    found # Unset =>
        /\ lease[orm] # Unset /\ mapped[orm][entity] # Unmapped
        /\ Len(found.columns) = Len(Columns(orm, entity))
        /\ IsInjective(found.columns)
        /\ RunsAs(Db(orm), "keep", TableOf(entity), Columns(orm, entity), found)

ResolvedInv == \A orm \in Orms : \A entity \in Entities : ResolvedAt(orm, entity)

\* What validate() found still holds.
CheckedAt(orm) ==
    checked[orm] # Unset =>
        /\ lease[orm] # Unset
        /\ \A entity \in MappedBy(orm) :
               ValidAs(Db(orm), Spelling(orm), TableOf(entity), Columns(orm, entity),
                       resolved[orm][entity], checked[orm])

CheckedInv == \A orm \in Orms : CheckedAt(orm)

NameInv == NameTypeInv /\ LinkInv /\ ResolvedInv /\ CheckedInv

-----------------------------------------------------------------------------
\* A name is its stem and its case, and folding touches the case alone.
LEMMA Folded ==
  ASSUME NEW n \in Names
  PROVE  /\ fold_lower(n) = [stem |-> n.stem, case |-> "lower"]
         /\ n.stem # NoStem => fold_upper(n) = [stem |-> n.stem, case |-> "upper"]
         /\ n = [stem |-> n.stem, case |-> n.case]
  <1>1. /\ n = [stem |-> n.stem, case |-> n.case]
        /\ [n EXCEPT !.case = "lower"] = [stem |-> n.stem, case |-> "lower"]
        /\ [n EXCEPT !.case = "upper"] = [stem |-> n.stem, case |-> "upper"]
    BY DEF Names
  <1>2. n = NoName => n.stem = NoStem
    BY DEF NoName
  <1> QED BY <1>1, <1>2, Zenon DEF fold_lower, fold_upper

\* A spelled name.
LEMMA NameIsOne ==
  ASSUME NEW stem \in STRING, NEW case \in Cases
  PROVE  /\ [stem |-> stem, case |-> case] \in Names
         /\ [stem |-> stem, case |-> case].stem = stem
         /\ [stem |-> stem, case |-> case].case = case
         /\ stem # NoStem => [stem |-> stem, case |-> case] # NoName
  BY DEF Names, NoName

\* Names alike have the same stem.
LEMMA AlikeStems ==
  ASSUME NEW n \in Names, NEW m \in Names
  PROVE  fold_equal(n, m) <=> n.stem = m.stem
  <1>1. fold_lower(n) = [stem |-> n.stem, case |-> "lower"]
        /\ fold_lower(m) = [stem |-> m.stem, case |-> "lower"]
    BY Folded
  <1> QED BY <1>1 DEF fold_equal

\* However a dialect spells a given name, it is the same but for the case, and
\* spelling it again changes nothing.
LEMMA SpelledAlike ==
  ASSUME NEW n, Given(n), NEW case
  PROVE  LET said == fold_identifier(case, n)
         IN  /\ Given(said) /\ said.stem = n.stem /\ said # NoName
             /\ fold_equal(said, n)
             /\ case \in {"lower", "upper"} => said = [stem |-> n.stem, case |-> case]
             /\ case \notin {"lower", "upper"} => said = n
  <1> DEFINE said == fold_identifier(case, n)
  <1>1. n \in Names /\ n.stem # NoStem /\ n.stem \in STRING
    BY DEF Given, Names
  <1>2. CASE case \in {"lower", "upper"}
    <2>1. said = [stem |-> n.stem, case |-> case]
      BY <1>1, <1>2, Folded DEF fold_identifier
    <2>2. case \in Cases
      BY <1>2 DEF Cases
    <2>3. said \in Names /\ said.stem = n.stem /\ said # NoName
      BY <1>1, <2>1, <2>2, NameIsOne
    <2> QED BY <1>1, <1>2, <2>1, <2>3, AlikeStems, Zenon DEF Given
  <1>3. CASE case \notin {"lower", "upper"}
    <2>1. said = n /\ n # NoName
      BY <1>1, <1>3 DEF fold_identifier, NoName
    <2> QED BY <1>1, <1>3, <2>1, AlikeStems, Zenon DEF Given
  <1> QED BY <1>2, <1>3, Zenon

\* Spelled alike once, spelled the same by any dialect.
LEMMA SpelledSame ==
  ASSUME NEW n, Given(n), NEW m, Given(m), NEW case
  PROVE  /\ fold_identifier(case, n) = m => fold_identifier(case, m) = m
         /\ n.stem = m.stem /\ case \in {"lower", "upper"} =>
              fold_identifier(case, n) = fold_identifier(case, m)
  <1>1. CASE case \in {"lower", "upper"}
    <2>1. fold_identifier(case, n) = [stem |-> n.stem, case |-> case]
          /\ fold_identifier(case, m) = [stem |-> m.stem, case |-> case]
      BY <1>1, SpelledAlike
    <2> QED BY <2>1
  <1>2. CASE case \notin {"lower", "upper"}
    BY <1>2, SpelledAlike
  <1> QED BY <1>1, <1>2, Zenon

\* What the server compares columns by is an equivalence that holds of a name
\* and itself and implies that the names are alike.
LEMMA SameIsEquivalence ==
  ASSUME NEW db, NEW a, NEW b, NEW c
  PROVE  /\ SameColumn(db, a, a)
         /\ SameColumn(db, a, b) => SameColumn(db, b, a) /\ fold_equal(a, b)
         /\ SameColumn(db, a, b) /\ SameColumn(db, b, c) => SameColumn(db, a, c)
  BY DEF SameColumn, fold_equal

\* identifier_catalog::resolve() names something that is listed.
LEMMA ResolvedIsListed ==
  ASSUME NEW names, NEW declared, resolve_identifier(names, declared) # Unset
  PROVE  resolve_identifier(names, declared) \in names
  <1> DEFINE candidates == {name \in names : fold_equal(name, declared)}
  <1>1. Cardinality(candidates) = 1 => candidates # {}
    BY FS_EmptySet
  <1> QED BY <1>1 DEF resolve_identifier

\* A dialect's answers.
LEMMA DetectedAs ==
  ASSUME NEW dbms
  PROVE  /\ detect(dbms).identifiers \in {"keep", "lower", "upper"}
         /\ dbms = "mysql" => detect(dbms).qualification = "catalog"
         /\ dbms = "postgresql" => detect(dbms).qualification = "schema"
  BY DEF detect

\* A full name is of one table, and so is a name in a statement.
LEMMA TableIsOne ==
  ASSUME NEW db, WellKept(db), NEW rendered,
         NEW t1 \in Denoted(db, rendered), NEW t2 \in Denoted(db, rendered)
  PROVE  t1 = t2
  <1>1. t1 \in db.tables /\ t2 \in db.tables
        /\ t1.catalog = t2.catalog /\ t1.schema = t2.schema /\ t1.name = t2.name
    BY DEF Denoted
  <1> QED BY <1>1 DEF WellKept, exact_catalog_table_matches, exact_catalog_namespace_matches

\* A resolved table's name in a statement is its full name: qualified by the
\* schema or by the catalog, as the server has it (mapping/registry.cpp table_sql).
LEMMA QualifiedDenotes ==
  ASSUME NEW db, WellKept(db), NEW asked, exact_namespace_escape(db, asked), NEW rendered,
         rendered.qualifier = IF detect(db.dbms).qualification = "schema" THEN asked.schema
                                                                          ELSE asked.catalog,
         rendered.name = asked.name
  PROVE  Denoted(db, rendered) = {table \in db.tables : exact_catalog_table_matches(asked, table)}
  <1>1. CASE db.dbms = "mysql"
    <2>1. rendered.qualifier = asked.catalog /\ asked.catalog # NoName
          /\ asked.schema = NoName /\ db.path = NoName
      BY <1>1, DetectedAs DEF exact_namespace_escape, WellKept
    <2> QED BY <1>1, <2>1 DEF Denoted, exact_catalog_table_matches, exact_catalog_namespace_matches
  <1>2. CASE db.dbms = "postgresql"
    <2>1. rendered.qualifier = asked.schema /\ asked.schema # NoName /\ asked.catalog = db.current
      BY <1>2, DetectedAs DEF exact_namespace_escape
    <2> QED BY <1>2, <2>1 DEF Denoted, exact_catalog_table_matches, exact_catalog_namespace_matches
  <1> QED BY <1>1, <1>2 DEF exact_namespace_escape

\* What a read answers.
LEMMA AnswerRows ==
  /\ ~Thrown.ok
  /\ \A rows : Answer(rows).ok /\ Answer(rows).rows = rows
  BY DEF Thrown, Answer

Listed(db, asked) == read_tables(db, asked, TRUE)

\* An exact list of tables (schema_catalog.cpp read_tables) has names as the
\* server has them, of tables in the namespace that was asked for.
LEMMA ExactTables ==
  ASSUME NEW db, NEW asked, Listed(db, asked).ok
  PROVE  /\ exact_namespace_escape(db, asked)
         /\ \A row \in Listed(db, asked).rows :
              \E table \in db.tables :
                 exact_catalog_namespace_matches(asked, table) /\ table.name = row.name
  <1> DEFINE found == TablesAnswered(db, asked, TRUE)
             kept == {t \in found : exact_catalog_namespace_matches(asked, t)}
             whole == /\ exact_namespace_escape(db, asked)
                      /\ \A table \in found : exact_row_ok(table, asked.schema # NoName)
  <1>1. Listed(db, asked) =
          IF whole THEN Answer({ReportedTable(table) : table \in kept}) ELSE Thrown
    BY DEF Listed, read_tables
  <1>2. ~Thrown.ok /\ Answer({ReportedTable(table) : table \in kept}).rows = {ReportedTable(table) : table \in kept}
    BY AnswerRows, Zenon
  <1>3. whole /\ Listed(db, asked).rows = {ReportedTable(table) : table \in kept}
    <2> HIDE DEF whole, kept
    <2> QED BY <1>1, <1>2, Zenon
  <1>4. ASSUME NEW row \in {ReportedTable(table) : table \in kept}
        PROVE  \E table \in db.tables :
                  exact_catalog_namespace_matches(asked, table) /\ table.name = row.name
    <2>1. PICK table \in kept : row = ReportedTable(table)
      BY Zenon
    <2>2. table \in db.tables /\ exact_catalog_namespace_matches(asked, table)
      BY DEF TablesAnswered
    <2>3. table.name.stem # "long"
      BY <1>3, Zenon DEF exact_row_ok, exact_str_ok
    <2>4. row.name = table.name
      BY <2>1, <2>3, Zenon DEF ReportedTable, str
    <2> QED BY <2>2, <2>4
  <1> QED BY <1>3, <1>4, Zenon

\* Every name of the list is a table's, in that namespace.
Lists(db, space, named) ==
  Listed(db, Scope(space)).ok /\ named \in {row.name : row \in Listed(db, Scope(space)).rows}

LEMMA ListedIsThere ==
  ASSUME NEW db, NEW space, NEW named, Lists(db, space, named)
  PROVE  \E table \in db.tables :
           table.catalog = space.catalog /\ table.schema = space.schema /\ table.name = named
  <1>1. PICK row \in Listed(db, Scope(space)).rows : row.name = named
    BY Zenon DEF Lists
  <1>2. PICK table \in db.tables :
          exact_catalog_namespace_matches(Scope(space), table) /\ table.name = row.name
    <2>1. Listed(db, Scope(space)).ok
      BY Zenon DEF Lists
    <2> QED BY <1>1, <2>1, ExactTables
  <1>3. Scope(space).catalog = space.catalog /\ Scope(space).schema = space.schema
    BY DEF Scope
  <1> QED BY <1>1, <1>2, <1>3, Zenon DEF exact_catalog_namespace_matches

\* An exact read of columns (orm.cpp exact_columns over read_table_columns) has
\* the rows of the tables of exactly that name.
LEMMA ExactColumns ==
  ASSUME NEW db, NEW asked, exact_columns(db, asked).ok
  PROVE  /\ exact_namespace_escape(db, asked)
         /\ \A row \in exact_columns(db, asked).rows :
              \E table \in db.tables :
                 exact_catalog_table_matches(asked, table) /\ row \in Range(table.columns)
  <1> DEFINE tables == TablesAsked(db, asked, TRUE)
             rows == UNION {Range(table.columns) : table \in tables}
             whole == /\ asked.name # NoName
                      /\ exact_namespace_escape(db, asked)
                      /\ \A table \in TablesDescribed(db, asked, TRUE) :
                             exact_row_ok(table, asked.schema # NoName)
                      /\ \A row \in rows : exact_str_ok(row.name, FALSE)
  <1>1. read_table_columns(db, asked, TRUE) = IF whole THEN Answer(rows) ELSE Thrown
    BY DEF read_table_columns
  <1>2. ~Thrown.ok /\ Answer(rows).rows = rows
    BY AnswerRows, Zenon
  <1>3. exact_columns(db, asked) = read_table_columns(db, asked, TRUE)
    BY <1>2, Zenon DEF exact_columns
  <1>4. whole /\ exact_columns(db, asked).rows = rows
    <2> HIDE DEF whole, rows
    <2> QED BY <1>1, <1>2, <1>3, Zenon
  <1>5. \A table \in tables : table \in db.tables /\ exact_catalog_table_matches(asked, table)
    BY DEF TablesAsked, TablesDescribed
  <1> QED BY <1>4, <1>5, Zenon

\* A name in a namespace.
LEMMA NamedInScope ==
  ASSUME NEW space, NEW named
  PROVE  LET full == [Scope(space) EXCEPT !.name = named]
         IN  /\ full.catalog = space.catalog /\ full.schema = space.schema /\ full.name = named
             /\ [full EXCEPT !.name = NoName] = Scope(space)
  <1>1. [Scope(space) EXCEPT !.name = named] =
          [catalog |-> space.catalog, schema |-> space.schema, name |-> named]
    BY DEF Scope
  <1>2. [[catalog |-> space.catalog, schema |-> space.schema, name |-> named] EXCEPT !.name = NoName] =
          [catalog |-> space.catalog, schema |-> space.schema, name |-> NoName]
    OBVIOUS
  <1> QED BY <1>1, <1>2, Zenon DEF Scope

\* What resolve_identifiers() may install for an entity.
Answers(orm, entity, space, db, columns, answer) ==
    /\ db = Db(orm) /\ WellKept(db)
    /\ columns = Columns(orm, entity) /\ \E S : columns \in Seq(S)
    /\ MayResolve(orm, space)
    /\ answer = Resolution(orm, entity, space) /\ answer # Unset

\* What identifier_catalog::resolve() (orm.cpp) returns fits the connection: a
\* full name of the table in the namespace asked for, and for every mapped column
\* one of that very table, no two the same.
LEMMA ResolutionFits ==
  ASSUME NEW orm, NEW entity, NEW space, NEW db, NEW columns, NEW answer,
         Answers(orm, entity, space, db, columns, answer)
  PROVE  /\ [answer.table EXCEPT !.name = NoName] = Scope(space)
         /\ Len(answer.columns) = Len(columns) /\ IsInjective(answer.columns)
         /\ RunsAs(db, "keep", TableOf(entity), columns, answer)
  <1>0. /\ db = Db(orm) /\ WellKept(db) /\ columns = Columns(orm, entity) /\ MayResolve(orm, space)
        /\ answer = Resolution(orm, entity, space) /\ answer # Unset
    BY Zenon DEF Answers
  <1>S. PICK S : columns \in Seq(S)
    BY Zenon DEF Answers
  <1> USE <1>0
  <1> DEFINE named == resolve_identifier(TableNames(orm, space), TableOf(entity))
             full == [Scope(space) EXCEPT !.name = named]
             live == exact_columns(db, full)
             names == {row.name : row \in live.rows}
             found == [i \in DOMAIN columns |-> resolve_identifier(names, columns[i].name)]
             fits == live.ok /\ Unset \notin Range(found) /\ IsInjective(found)
  <1>1. answer = IF named = Unset THEN Unset
                 ELSE IF columns = <<>> THEN [table |-> full, columns |-> <<>>]
                 ELSE IF fits THEN [table |-> full, columns |-> found]
                 ELSE Unset
    BY Zenon DEF Resolution
  <1>2. full.catalog = space.catalog /\ full.schema = space.schema /\ full.name = named
        /\ [full EXCEPT !.name = NoName] = Scope(space)
    BY NamedInScope, Zenon
  <1> HIDE DEF named, full, fits
  <1>3. named # Unset /\ (columns # <<>> => fits)
    BY <1>1, Zenon
  <1>4. answer = IF columns = <<>> THEN [table |-> full, columns |-> <<>>]
                                   ELSE [table |-> full, columns |-> found]
    BY <1>1, <1>3, Zenon
  <1>5. answer.table = full /\ answer.columns = IF columns = <<>> THEN <<>> ELSE found
    BY <1>4
  <1>6. PICK table \in db.tables : exact_catalog_table_matches(full, table)
    <2>1. named \in TableNames(orm, space)
      BY <1>3, ResolvedIsListed DEF named
    <2>2. Lists(db, space, named)
      BY <2>1, Zenon DEF TableNames, MayResolve, Listed, Lists
    <2> HIDE DEF names, found, live
    <2>3. PICK table \in db.tables :
            table.catalog = space.catalog /\ table.schema = space.schema /\ table.name = named
      BY <2>2, ListedIsThere
    <2> QED BY <1>2, <2>3
            DEF exact_catalog_table_matches, exact_catalog_namespace_matches
  <1>7. exact_namespace_escape(db, full)
    <2>1. exact_namespace_escape(db, Scope(space))
      BY ExactTables, Zenon DEF MayResolve, Listed
    <2>2. Scope(space).catalog = space.catalog /\ Scope(space).schema = space.schema
      BY DEF Scope
    <2> QED BY <1>2, <2>1, <2>2 DEF exact_namespace_escape
  <1>8. table \in Denoted(db, TableAs(db, "keep", TableOf(entity), answer))
    <2> DEFINE rendered == TableAs(db, "keep", TableOf(entity), answer)
    <2>1. /\ rendered.qualifier = IF detect(db.dbms).qualification = "schema" THEN full.schema
                                                                              ELSE full.catalog
          /\ rendered.name = full.name
      BY <1>5 DEF TableAs
    <2> HIDE DEF rendered
    <2>2. Denoted(db, rendered) = {t \in db.tables : exact_catalog_table_matches(full, t)}
      BY <1>7, <2>1, QualifiedDenotes, Zenon
    <2> QED BY <1>6, <2>2, Zenon DEF rendered
  <1>9. ASSUME NEW i \in DOMAIN columns
        PROVE  StoredColumn(db, table, ColumnAs("keep", columns, answer, i)) # {}
    <2>1. columns # <<>> /\ fits /\ ColumnAs("keep", columns, answer, i) = found[i]
      BY <1>3, <1>5, <1>9 DEF ColumnAs
    <2>2. found[i] # Unset
      BY <1>9, <2>1, Zenon DEF fits, Range
    <2>3. found[i] \in names
      BY <1>9, <2>2, ResolvedIsListed, Zenon
    <2>4. PICK row \in live.rows : row.name = found[i]
      BY <2>3, Zenon
    <2>5. PICK t \in db.tables : exact_catalog_table_matches(full, t) /\ row \in Range(t.columns)
      BY <2>1, ExactColumns DEF fits
    <2>6. t = table
      BY <1>6, <2>5, Zenon DEF WellKept, exact_catalog_table_matches, exact_catalog_namespace_matches
    <2> QED BY <2>1, <2>4, <2>5, <2>6, SameIsEquivalence DEF StoredColumn
  <1>10. Len(answer.columns) = Len(columns) /\ IsInjective(answer.columns)
    <2>1. CASE columns = <<>>
      BY <1>5, <2>1 DEF IsInjective
    <2>2. CASE columns # <<>>
      <3>1. answer.columns = found /\ IsInjective(found)
        BY <1>3, <1>5, <2>2 DEF fits
      <3>2. DOMAIN found = 1..Len(columns) /\ Len(columns) \in Nat
        BY <1>S
      <3> QED BY <3>1, <3>2
    <2> QED BY <2>1, <2>2
  <1> QED BY <1>2, <1>5, <1>8, <1>9, <1>10, Zenon DEF RunsAs

\* After a strict pass: what the server takes each column for is accepted.
StrictAs(db, case, name, columns, found) ==
    \A table \in Denoted(db, TableAs(db, case, name, found)) : \A i \in DOMAIN columns :
    \A row \in StoredColumn(db, table, ColumnAs(case, columns, found, i)) : Accepts(columns[i], row)

\* Table `t` has the columns validate() asked for.
FoundIn(t, case, columns, found, mode) ==
    \A i \in DOMAIN columns : \E row \in Range(t.columns) :
        row.name = ColumnAs(case, columns, found, i) /\ (mode = "strict" => Accepts(columns[i], row))

\* A table a statement names, with the columns that were asked for, runs it: the
\* server has one table of that name and one column for each.
LEMMA FoundWorks ==
  ASSUME NEW db, WellKept(db), NEW case, NEW name, NEW columns, NEW found, NEW mode,
         NEW t \in Denoted(db, TableAs(db, case, name, found)), FoundIn(t, case, columns, found, mode)
  PROVE  /\ RunsAs(db, case, name, columns, found)
         /\ mode = "strict" => StrictAs(db, case, name, columns, found)
  <1>1. t \in db.tables
    BY DEF Denoted
  <1>2. ASSUME NEW i \in DOMAIN columns
        PROVE  StoredColumn(db, t, ColumnAs(case, columns, found, i)) # {}
    <2>1. PICK row \in Range(t.columns) : row.name = ColumnAs(case, columns, found, i)
      BY Zenon DEF FoundIn
    <2>2. row \in StoredColumn(db, t, ColumnAs(case, columns, found, i))
      BY <2>1, SameIsEquivalence, Zenon DEF StoredColumn
    <2> QED BY <2>2
  <1>3. ASSUME mode = "strict", NEW table \in Denoted(db, TableAs(db, case, name, found)),
               NEW i \in DOMAIN columns,
               NEW row \in StoredColumn(db, table, ColumnAs(case, columns, found, i))
        PROVE  Accepts(columns[i], row)
    <2>1. table = t
      BY TableIsOne, Zenon
    <2>2. PICK other \in Range(t.columns) :
            other.name = ColumnAs(case, columns, found, i) /\ Accepts(columns[i], other)
      BY <1>3, Zenon DEF FoundIn
    <2>3. row \in Range(t.columns) /\ SameColumn(db, row.name, other.name)
      BY <2>1, <2>2, Zenon DEF StoredColumn
    <2>4. row = other
      BY <1>1, <2>3, Zenon DEF WellKept
    <2> QED BY <2>2, <2>4, Zenon
  <1> QED BY <1>2, <1>3, Zenon DEF RunsAs, StrictAs

\* A validated resolution runs (orm_mapping.hpp validate_entity on exact columns).
LEMMA ValidResolved ==
  ASSUME NEW db, WellKept(db), NEW case, NEW name, NEW columns, NEW found, NEW mode,
         found # Unset, ValidAs(db, case, name, columns, found, mode)
  PROVE  /\ RunsAs(db, case, name, columns, found)
         /\ mode = "strict" => StrictAs(db, case, name, columns, found)
  <1> DEFINE live == exact_columns(db, found.table)
             rendered == TableAs(db, case, name, found)
  <1>1. /\ live.ok /\ live.rows # {}
        /\ \A i \in DOMAIN columns : \E row \in live.rows :
              row.name = ColumnAs(case, columns, found, i) /\ (mode = "strict" => Accepts(columns[i], row))
    BY Zenon DEF ValidAs, LiveAs
  <1>2. /\ exact_namespace_escape(db, found.table)
        /\ \A row \in live.rows : \E table \in db.tables :
              exact_catalog_table_matches(found.table, table) /\ row \in Range(table.columns)
    BY <1>1, ExactColumns, Zenon
  <1>3. /\ rendered.qualifier = IF detect(db.dbms).qualification = "schema" THEN found.table.schema
                                                                            ELSE found.table.catalog
        /\ rendered.name = found.table.name
    BY DEF TableAs
  <1> HIDE DEF live, rendered
  <1>4. Denoted(db, rendered) = {t \in db.tables : exact_catalog_table_matches(found.table, t)}
    BY <1>2, <1>3, QualifiedDenotes, Zenon
  <1>5. PICK t \in Denoted(db, rendered) : TRUE
    BY <1>1, <1>2, <1>4, Zenon
  <1>6. \A row \in live.rows : row \in Range(t.columns)
    BY <1>2, <1>4, <1>5, TableIsOne, Zenon
  <1>7. FoundIn(t, case, columns, found, mode)
    BY <1>1, <1>6, Zenon DEF FoundIn
  <1> QED BY <1>5, <1>7, FoundWorks, Zenon DEF rendered

\* Every table that could be taken for name `said` is the one a statement names.
Plain(db, said) ==
    \A table \in db.tables : fold_equal(table.name, said) =>
        /\ table.catalog = db.current /\ table.schema = db.path
        /\ table.name = said \/ ~db.folds

\* The reader cuts a long name, and then it is not the one that was asked for.
LEMMA KeptName ==
  ASSUME NEW n, Given(n), NEW said, Given(said), catalog_name_matches(said, str(n)),
         n.stem \in Wildcards(said.stem)
  PROVE  n.stem = said.stem
  <1>1. n \in Names /\ said \in Names /\ n.stem # NoStem /\ said.stem # NoStem
    BY DEF Given
  <1>2. n # NoName /\ said # NoName
    BY <1>1 DEF NoName
  <1>3. CASE n.stem = "long"
    <2>1. str(n) = [stem |-> "cut", case |-> n.case] /\ n.case \in Cases
      BY <1>1, <1>3 DEF str, Names
    <2>2. "cut" # NoStem
      BY Zenon DEF NoStem
    <2>3. str(n) # NoName
      BY <2>1, <2>2 DEF NoName
    <2>4. said.stem = "cut"
      <3>1. fold_lower(said) = fold_lower(str(n))
        BY <1>2, <2>3, Zenon DEF catalog_name_matches, fold_equal
      <3>2. fold_lower(str(n)) = [stem |-> "cut", case |-> "lower"]
        BY <2>1 DEF fold_lower
      <3>3. fold_lower(said) = [stem |-> said.stem, case |-> "lower"]
        BY <1>1, Folded, Zenon
      <3> QED BY <3>1, <3>2, <3>3
    <2>5. n.stem = "cut"
      BY <2>4 DEF Wildcards
    <2> QED BY <1>3, <2>5
  <1>4. CASE n.stem # "long"
    <2>1. str(n) = n
      BY <1>4 DEF str
    <2> QED BY <1>1, <1>2, <2>1, AlikeStems, Zenon DEF catalog_name_matches
  <1> QED BY <1>3, <1>4

\* The tables whose columns an inexact read answers for a plain name are the one
\* that a statement names (schema_catalog.cpp:298-308, asked without namespace).
LEMMA PlainAsked ==
  ASSUME NEW db, WellKept(db), NEW said, Given(said), Plain(db, said), NEW asked,
         asked = [catalog |-> NoName, schema |-> NoName, name |-> said],
         NEW t \in TablesAsked(db, asked, FALSE)
  PROVE  t \in Denoted(db, [qualifier |-> NoName, name |-> said])
  <1>1. t \in db.tables /\ Selects(db, said, FALSE, t.name) /\ catalog_name_matches(said, str(t.name))
    BY Zenon DEF TablesAsked, TablesDescribed, asked_as
  <1>2. Given(t.name) /\ db.folds \in BOOLEAN
    BY <1>1 DEF WellKept
  <1>3. said # NoName
    BY DEF Given, NoName
  <1>4. t.name.stem \in Wildcards(said.stem) /\ (db.folds \/ t.name.case = said.case)
    BY <1>1, <1>3 DEF Selects
  <1>5. t.name.stem = said.stem
    BY <1>1, <1>2, <1>4, KeptName, Zenon
  <1>6. fold_equal(t.name, said)
    BY <1>2, <1>5, AlikeStems, Zenon DEF Given
  <1>7. t.catalog = db.current /\ t.schema = db.path /\ (t.name = said \/ ~db.folds)
    BY <1>1, <1>6, Zenon DEF Plain
  <1>8. t.name = said
    <2>1. t.name = [stem |-> t.name.stem, case |-> t.name.case]
          /\ said = [stem |-> said.stem, case |-> said.case]
      BY <1>2, Folded, Zenon DEF Given
    <2> QED BY <1>4, <1>5, <1>7, <2>1, Zenon
  <1> QED BY <1>1, <1>7, <1>8 DEF Denoted

\* A row that is read keeps its name, type and nullability when its name fits.
LEMMA ReadRow ==
  ASSUME NEW T, NEW row \in [name : T, type : STRING, nullable : BOOLEAN], row.name.stem # "long",
         NEW r, r = [row EXCEPT !.name = str(row.name)]
  PROVE  r.name = row.name /\ r.type = row.type /\ r.nullable = row.nullable
  <1>1. str(row.name) = row.name
    BY DEF str
  <1> QED BY <1>1, SMT

\* A validated mapping whose table's name is plain runs (orm_mapping.hpp
\* validate_entity on the columns an inexact read answers).
LEMMA ValidPlain ==
  ASSUME NEW db, WellKept(db), NEW case, NEW name, Given(name), NEW columns, NEW mode,
         ValidAs(db, case, name, columns, Unset, mode), Plain(db, fold_identifier(case, name))
  PROVE  /\ RunsAs(db, case, name, columns, Unset)
         /\ mode = "strict" => StrictAs(db, case, name, columns, Unset)
  <1> DEFINE said == fold_identifier(case, name)
             asked == [catalog |-> NoName, schema |-> NoName, name |-> said]
             tables == TablesAsked(db, asked, FALSE)
             rows == UNION {Range(table.columns) : table \in tables}
             kept == {[row EXCEPT !.name = str(row.name)] : row \in rows}
  <1>1. Given(said)
    BY SpelledAlike, Zenon
  <1>2. LiveAs(db, case, name, Unset) = Answer(kept)
    BY Zenon DEF LiveAs, read_table_columns
  <1>3. Answer(kept).rows = kept
    BY AnswerRows, Zenon
  <1>4. TableAs(db, case, name, Unset) = [qualifier |-> NoName, name |-> said]
    BY Zenon DEF TableAs
  <1> HIDE DEF said, asked
  <1>5. \A t \in tables : t \in Denoted(db, [qualifier |-> NoName, name |-> said])
    BY <1>1, PlainAsked, Zenon DEF said, asked
  <1>6. /\ kept # {}
        /\ \A i \in DOMAIN columns : \E r \in kept :
              r.name = ColumnAs(case, columns, Unset, i) /\ (mode = "strict" => Accepts(columns[i], r))
    BY <1>2, <1>3, Zenon DEF ValidAs
  <1> HIDE DEF tables
  <1>7. PICK t \in tables : TRUE
    BY <1>6, Zenon
  <1>8. t \in Denoted(db, TableAs(db, case, name, Unset)) /\ t \in db.tables
    BY <1>4, <1>5, Zenon DEF Denoted
  <1>9. rows = Range(t.columns)
    <2>1. \A t2 \in tables : t2 = t
      BY <1>5, <1>7, TableIsOne, Zenon
    <2> QED BY <1>7, <2>1
  <1>10. ASSUME NEW row \in rows
         PROVE  row \in [name : Names, type : STRING, nullable : BOOLEAN] /\ row.name.stem # "long"
    <2>1. t.columns \in Seq([name : Names, type : STRING, nullable : BOOLEAN])
      BY <1>8, Zenon DEF WellKept
    <2>2. PICK i \in DOMAIN t.columns : row = t.columns[i]
      BY <1>9, Zenon DEF Range
    <2>3. row \in [name : Names, type : STRING, nullable : BOOLEAN]
      <3> DEFINE R == [name : Names, type : STRING, nullable : BOOLEAN]
      <3> HIDE DEF R
      <3>1. t.columns \in Seq(R)
        BY <2>1, Zenon DEF R
      <3>2. row \in R
        BY <2>2, <3>1
      <3> QED BY <3>2, Zenon DEF R
    <2> QED BY <1>8, <1>9, <2>3, Zenon DEF WellKept
  <1>11. ASSUME NEW i \in DOMAIN columns
         PROVE  \E row \in Range(t.columns) : /\ row.name = ColumnAs(case, columns, Unset, i)
                                              /\ mode = "strict" => Accepts(columns[i], row)
    <2>1. PICK r \in kept :
            r.name = ColumnAs(case, columns, Unset, i) /\ (mode = "strict" => Accepts(columns[i], r))
      BY <1>6, Zenon
    <2>2. PICK row \in rows : r = [row EXCEPT !.name = str(row.name)]
      BY Zenon
    <2>3. r.name = row.name /\ r.type = row.type /\ r.nullable = row.nullable
      BY <1>10, <2>2, ReadRow, Zenon
    <2>4. Accepts(columns[i], r) => Accepts(columns[i], row)
      BY <2>3, Zenon DEF Accepts
    <2> QED BY <1>9, <2>1, <2>3, <2>4, Zenon
  <1>12. FoundIn(t, case, columns, Unset, mode)
    BY <1>11, Zenon DEF FoundIn
  <1> QED BY <1>8, <1>12, FoundWorks, Zenon

\* The first of some slots is one of them.
LEMMA FirstSlot ==
  ASSUME NEW T \in SUBSET Nat, T # {}
  PROVE  (CHOOSE slot \in T : \A other \in T : slot <= other) \in T
  <1>1. PICK x \in T : \A y \in T : ~(<<y, x>> \in OpToRel(<, Nat))
    BY NatLessThanWellFounded, WFMin, Zenon
  <1>2. \A y \in T : x <= y
    <2> SUFFICES ASSUME NEW y \in T, y < x PROVE FALSE
      OBVIOUS
    <2>1. <<y, x>> \in Nat \X Nat /\ <<y, x>>[1] < <<y, x>>[2]
      OBVIOUS
    <2>2. <<y, x>> \in OpToRel(<, Nat)
      BY <2>1, Zenon DEF OpToRel
    <2> QED BY <1>1, <2>2, Zenon
  <1>3. \E slot \in T : \A other \in T : slot <= other
    BY <1>2, Zenon
  <1> QED BY <1>3, Zenon

\* What mapping/registry.cpp result_ordinal() finds where there is a name like
\* the label: that very name, or one like it if the label is not there.
LEMMA OrdinalFinds ==
  ASSUME NEW label, NEW result, DOMAIN result \subseteq Nat \ {0}, NEW i \in DOMAIN result,
         fold_equal(result[i], label), NEW o, o = result_ordinal(label, result)
  PROVE  /\ o \in DOMAIN result /\ o # 0 /\ fold_equal(result[o], label)
         /\ result[o] = label \/ \A j \in DOMAIN result : result[j] # label
  <1> DEFINE same == {slot \in DOMAIN result : result[slot] = label}
             alike == {slot \in DOMAIN result : fold_equal(result[slot], label)}
  <1>1. o = IF same # {} THEN CHOOSE slot \in same : \A other \in same : slot <= other
            ELSE IF alike # {} THEN CHOOSE slot \in alike : \A other \in alike : slot <= other
            ELSE 0
    BY Zenon DEF result_ordinal
  <1>2. same \in SUBSET Nat /\ alike \in SUBSET Nat /\ alike # {}
    OBVIOUS
  <1>3. CASE same # {}
    <2>1. o \in same
      BY <1>1, <1>2, <1>3, FirstSlot, Zenon
    <2> QED BY <2>1 DEF fold_equal
  <1>4. CASE same = {}
    <2>1. o \in alike
      BY <1>1, <1>2, <1>4, FirstSlot, Zenon
    <2> QED BY <1>4, <2>1
  <1> QED BY <1>3, <1>4, Zenon

LabelAs(columns, found, i) == IF found = Unset THEN columns[i].name ELSE found.columns[i]

SelectedAs(db, table, case, columns, found) ==
    [i \in DOMAIN columns |-> StoredColumn(db, table, ColumnAs(case, columns, found, i))]
ResultAs(selected) == [i \in DOMAIN selected |-> (CHOOSE row \in selected[i] : TRUE).name]

\* The slot a label finds holds a column that the statement named as it named
\* the label's own, whether the server looks at case or not.
LEMMA SaidAlike ==
  ASSUME NEW db, NEW case, NEW columns, NEW found, NEW i \in DOMAIN columns, NEW o \in DOMAIN columns,
         \A j \in DOMAIN columns : Given(columns[j].name), NEW result,
         \A j \in DOMAIN columns : SameColumn(db, result[j], ColumnAs(case, columns, found, j)),
         fold_equal(result[o], LabelAs(columns, found, i)),
         \/ result[o] = LabelAs(columns, found, i)
         \/ result[i] # LabelAs(columns, found, i)
  PROVE  SameColumn(db, ColumnAs(case, columns, found, o), ColumnAs(case, columns, found, i))
  <1> DEFINE said(j) == ColumnAs(case, columns, found, j)
             label(j) == LabelAs(columns, found, j)
             n(j) == columns[j].name
  <1>1. Given(n(i)) /\ Given(n(o))
    OBVIOUS
  <1>2. SameColumn(db, result[o], said(o)) /\ SameColumn(db, result[i], said(i))
    OBVIOUS
  <1>3. fold_equal(said(i), label(i))
    <2>1. CASE found = Unset
      BY <1>1, <2>1, SpelledAlike, Zenon DEF ColumnAs, LabelAs
    <2>2. CASE found # Unset
      BY <2>2, Zenon DEF ColumnAs, LabelAs, fold_equal
    <2> QED BY <2>1, <2>2, Zenon
  <1>4. CASE db.dbms = "mysql"
    <2>1. fold_equal(result[o], said(o))
      BY <1>2, <1>4, Zenon DEF SameColumn
    <2>2. fold_equal(said(o), said(i))
      BY <1>3, <2>1, Zenon DEF fold_equal
    <2> QED BY <1>4, <2>2, Zenon DEF SameColumn
  <1>5. CASE db.dbms # "mysql"
    <2>1. result[o] = said(o) /\ result[i] = said(i)
      BY <1>2, <1>5, Zenon DEF SameColumn
    <2>2. CASE said(i) = label(i)
      BY <2>1, <2>2, SameIsEquivalence, Zenon
    <2>3. CASE said(i) # label(i)
      <3>1. found = Unset /\ case \in {"lower", "upper"}
        BY <1>1, <2>3, SpelledAlike, Zenon DEF ColumnAs, LabelAs
      <3>2. said(o) = fold_identifier(case, n(o)) /\ said(i) = fold_identifier(case, n(i))
            /\ label(i) = n(i)
        BY <3>1, Zenon DEF ColumnAs, LabelAs
      <3>3. fold_equal(fold_identifier(case, n(o)), n(i))
        BY <2>1, <3>2, Zenon
      <3>4. Given(fold_identifier(case, n(o))) /\ fold_identifier(case, n(o)).stem = n(o).stem
        BY <1>1, SpelledAlike, Zenon
      <3>5. n(o).stem = n(i).stem
        BY <1>1, <3>3, <3>4, AlikeStems, Zenon DEF Given
      <3>6. fold_identifier(case, n(o)) = fold_identifier(case, n(i))
        BY <1>1, <3>1, <3>5, SpelledSame, Zenon
      <3> QED BY <3>2, <3>6, SameIsEquivalence, Zenon
    <2> QED BY <2>2, <2>3
  <1> QED BY <1>4, <1>5

\* A column read back by its label is the one the statement named there.
OrdinalsAs(db, case, name, columns, found) ==
    \A table \in Denoted(db, TableAs(db, case, name, found)) :
        RunsAs(db, case, name, columns, found) =>
            LET selected == SelectedAs(db, table, case, columns, found)
            IN  \A i \in DOMAIN columns :
                    LET ordinal == result_ordinal(LabelAs(columns, found, i), ResultAs(selected))
                    IN  ordinal # 0 /\ selected[ordinal] = selected[i]

LEMMA OrdinalsHold ==
  ASSUME NEW db, WellKept(db), NEW case, NEW name, NEW columns, NEW found,
         DOMAIN columns \subseteq Nat \ {0}, \A j \in DOMAIN columns : Given(columns[j].name)
  PROVE  OrdinalsAs(db, case, name, columns, found)
  <1> DEFINE said(j) == ColumnAs(case, columns, found, j)
             label(j) == LabelAs(columns, found, j)
  <1> SUFFICES ASSUME NEW table \in Denoted(db, TableAs(db, case, name, found)),
                      RunsAs(db, case, name, columns, found), NEW i \in DOMAIN columns,
                      NEW selected, selected = SelectedAs(db, table, case, columns, found),
                      NEW ordinal, ordinal = result_ordinal(label(i), ResultAs(selected))
               PROVE  ordinal # 0 /\ selected[ordinal] = selected[i]
    BY Zenon DEF OrdinalsAs
  <1> DEFINE result == ResultAs(selected)
  <1>1. DOMAIN selected = DOMAIN columns /\ DOMAIN result = DOMAIN columns
        /\ \A j \in DOMAIN columns : selected[j] = StoredColumn(db, table, said(j))
    BY DEF SelectedAs, ResultAs
  <1>2. \A j \in DOMAIN columns : selected[j] # {}
    <2>1. PICK t \in Denoted(db, TableAs(db, case, name, found)) :
            \A j \in DOMAIN columns : StoredColumn(db, t, said(j)) # {}
      BY Zenon DEF RunsAs
    <2>2. t = table
      BY TableIsOne, Zenon
    <2> QED BY <1>1, <2>1, <2>2, Zenon
  <1>3. ASSUME NEW j \in DOMAIN columns PROVE SameColumn(db, result[j], said(j))
    <2>1. result[j] = (CHOOSE row \in selected[j] : TRUE).name
      BY <1>1, Zenon DEF ResultAs
    <2>2. (CHOOSE row \in selected[j] : TRUE) \in selected[j]
      BY <1>2, Zenon
    <2> QED BY <1>1, <2>1, <2>2, Zenon DEF StoredColumn
  <1>4. fold_equal(result[i], label(i))
    <2>1. fold_equal(result[i], said(i))
      BY <1>3, SameIsEquivalence, Zenon
    <2>2. fold_equal(said(i), label(i))
      <3>1. CASE found = Unset
        BY <3>1, SpelledAlike, Zenon DEF ColumnAs, LabelAs
      <3>2. CASE found # Unset
        BY <3>2, Zenon DEF ColumnAs, LabelAs, fold_equal
      <3> QED BY <3>1, <3>2, Zenon
    <2> QED BY <2>1, <2>2, Zenon DEF fold_equal
  <1> HIDE DEF result
  <1>5. /\ ordinal \in DOMAIN result /\ ordinal # 0 /\ fold_equal(result[ordinal], label(i))
        /\ result[ordinal] = label(i) \/ \A j \in DOMAIN result : result[j] # label(i)
    <2>1. DOMAIN result \subseteq Nat \ {0} /\ i \in DOMAIN result
          /\ ordinal = result_ordinal(label(i), result)
      BY <1>1 DEF result
    <2> QED BY <1>4, <2>1, OrdinalFinds, Zenon
  <1>6. SameColumn(db, said(ordinal), said(i))
    BY <1>1, <1>3, <1>5, SaidAlike, Zenon
  <1>7. StoredColumn(db, table, said(ordinal)) = StoredColumn(db, table, said(i))
    BY <1>6, SameIsEquivalence, Zenon DEF StoredColumn
  <1> QED BY <1>1, <1>5, <1>7, Zenon

\* A mapping's columns so far: each has a name, and its own.
WellMapped(columns, len) ==
    /\ len \in Nat /\ DOMAIN columns = 1..len
    /\ \A i \in 1..len : Given(columns[i].name) /\ columns[i].key \in BOOLEAN
    /\ \A i, j \in 1..len : columns[i].name = columns[j].name => i = j
    /\ \E S : columns \in Seq(S)

\* orm_mapping.hpp resolve_where() without fields gives the key columns, and
\* set_columns_of() the others, of a mapping that names each column once.
LEMMA WholeKey ==
  ASSUME NEW columns, NEW len, WellMapped(columns, len), NEW where, where = resolve_where(columns, {}), where # Unset
  PROVE  \A i \in DOMAIN columns :
            columns[i].key <=> i \in where /\ i \notin set_columns_of(columns, where)
  <1> DEFINE keys == primary_key_columns(columns)
             names == {columns[i].name : i \in keys}
             First(name) == {i \in DOMAIN columns : /\ columns[i].name = name
                                                    /\ \A j \in 1 .. i - 1 : columns[j].name # name}
  <1> USE DEF WellMapped
  <1>1. keys \subseteq 1..len /\ \A i \in 1..len : i \in keys <=> columns[i].key
    BY DEF primary_key_columns
  <1>2. where = UNION {First(name) : name \in names}
    BY Zenon DEF resolve_where
  <1>3. ASSUME NEW k \in keys PROVE First(columns[k].name) = {k}
    <2>1. k \in 1..len
      BY <1>1
    <2>2. \A j \in 1..k - 1 : j \in 1..len /\ j # k
      BY <2>1
    <2>3. \A j \in 1..k - 1 : columns[j].name # columns[k].name
      BY <2>1, <2>2, Zenon
    <2> QED BY <2>1, <2>3, Zenon
  <1> HIDE DEF keys, First, WellMapped
  <1>4. where = keys
    <2>1. ASSUME NEW i \in where PROVE i \in keys
      <3>1. PICK k \in keys : i \in First(columns[k].name)
        BY <1>2
      <3> QED BY <1>3, <3>1, Zenon
    <2>2. ASSUME NEW k \in keys PROVE k \in where
      BY <1>2, <1>3
    <2> QED BY <2>1, <2>2, Zenon
  <1> QED BY <1>1, <1>4, Zenon DEF set_columns_of, WellMapped
-----------------------------------------------------------------------------
\* The mapped columns are the first of the declared ones.
LEMMA ColumnsAre ==
  ASSUME NameTypeInv, NEW orm \in Orms, NEW entity \in Entities, mapped[orm][entity] # Unmapped
  PROVE  WellMapped(Columns(orm, entity), mapped[orm][entity])
  <1> DEFINE columns == Columns(orm, entity)
             len == mapped[orm][entity]
             all == world.declared[entity].columns
             R == [name : Names, key : BOOLEAN, accepts : SUBSET STRING, optional : BOOLEAN]
  <1>1. WellDeclared(world.declared[entity])
    BY NameAssumption, Zenon DEF NameTypeInv, Entities
  <1>2. all \in Seq(R) /\ \A i, j \in DOMAIN all :
            Given(all[i].name) /\ (all[i].name = all[j].name => i = j)
    BY <1>1, Zenon DEF WellDeclared
  <1>3. \A x \in R : x.key \in BOOLEAN
    OBVIOUS
  <1> HIDE DEF R, all
  <1>4. len \in 0..Len(all)
    BY Zenon DEF NameTypeInv, all
  <1>5. columns = SubSeq(all, 1, len)
    BY Zenon DEF Columns, all
  <1>6. Len(all) \in Nat /\ DOMAIN all = 1..Len(all)
    BY <1>2
  <1> HIDE DEF columns, len
  <1>7. /\ len \in Nat /\ columns \in Seq(R) /\ Len(columns) = len /\ DOMAIN columns = 1..len
        /\ \A i \in 1..len : columns[i] = all[i] /\ i \in DOMAIN all /\ all[i] \in R
    BY <1>2, <1>4, <1>5, <1>6
  <1>8. \A i \in 1..len : Given(columns[i].name) /\ columns[i].key \in BOOLEAN
    BY <1>2, <1>3, <1>7, Zenon
  <1>9. \A i, j \in 1..len : columns[i].name = columns[j].name => i = j
    BY <1>2, <1>7
  <1>10. WellMapped(columns, len)
    BY <1>7, <1>8, <1>9, Zenon DEF WellMapped
  <1> QED BY <1>10, Zenon DEF columns, len

\* A pooled connection spells by its holder's policy.
LEMMA SpelledByPolicy ==
  ASSUME NameTypeInv, LinkInv, NEW orm \in Orms, lease[orm] # Unset
  PROVE  CaseOf(orm) = Spelling(orm)
  <1> DEFINE conn == link[lease[orm]]
             found == detect(Db(orm).dbms).identifiers
  <1>1. lease[orm] \in Databases
    BY DEF NameTypeInv
  <1>2. LinkAt(lease[orm]) /\ conn.policy = policy[orm]
    BY <1>1, Zenon DEF LinkInv
  <1>3. CASE conn.dialect # Unset
    <2>1. conn.detected = found /\ conn.dialect = value_or(conn.policy, conn.detected)
      BY <1>2, <1>3, Zenon DEF LinkAt, Db
    <2> QED BY <1>2, <1>3, <2>1, Zenon DEF CaseOf, Spelling, sql_dialect
  <1>4. CASE conn.dialect = Unset
    <2>1. sql_dialect(lease[orm]) = [conn EXCEPT !.detected = found, !.dialect = value_or(conn.policy, found)]
      BY <1>4, Zenon DEF sql_dialect, Db
    <2>2. conn = [policy |-> conn.policy, detected |-> conn.detected, dialect |-> conn.dialect]
      BY <1>2, Zenon DEF LinkAt
    <2> HIDE DEF conn, found
    <2>3. [conn EXCEPT !.detected = found, !.dialect = value_or(conn.policy, found)].dialect
            = value_or(conn.policy, found)
      BY <2>2
    <2> QED BY <1>2, <2>1, <2>3, Zenon DEF CaseOf, Spelling, found
  <1> QED BY <1>3, <1>4, Zenon

\* What an orm puts into statements, validates and labels, on values.
LEMMA OnValues ==
  ASSUME NEW orm, NEW entity
  PROVE  /\ table_sql(orm, entity) = TableAs(Db(orm), CaseOf(orm), TableOf(entity), resolved[orm][entity])
         /\ \A i : column_sql(orm, entity, i)
                     = ColumnAs(CaseOf(orm), Columns(orm, entity), resolved[orm][entity], i)
         /\ \A i : LabelOf(orm, entity, i) = LabelAs(Columns(orm, entity), resolved[orm][entity], i)
         /\ Runs(orm, entity) <=>
              RunsAs(Db(orm), CaseOf(orm), TableOf(entity), Columns(orm, entity), resolved[orm][entity])
         /\ \A mode : validate_entity(orm, entity, mode) <=>
              ValidAs(Db(orm), CaseOf(orm), TableOf(entity), Columns(orm, entity), resolved[orm][entity], mode)
  <1>1. table_sql(orm, entity) = TableAs(Db(orm), CaseOf(orm), TableOf(entity), resolved[orm][entity])
    BY Zenon DEF table_sql, TableAs, QualificationOf
  <1>2. \A i : column_sql(orm, entity, i)
                 = ColumnAs(CaseOf(orm), Columns(orm, entity), resolved[orm][entity], i)
    BY Zenon DEF column_sql, ColumnAs
  <1>3. \A i : LabelOf(orm, entity, i) = LabelAs(Columns(orm, entity), resolved[orm][entity], i)
    BY Zenon DEF LabelOf, LabelAs
  <1>4. Runs(orm, entity) <=>
          RunsAs(Db(orm), CaseOf(orm), TableOf(entity), Columns(orm, entity), resolved[orm][entity])
    BY <1>1, <1>2, Zenon DEF Runs, RunsAs
  <1>5. Live(orm, entity) = LiveAs(Db(orm), CaseOf(orm), TableOf(entity), resolved[orm][entity])
    <2>1. resolved[orm][entity] = Unset =>
            table_sql(orm, entity).name = fold_identifier(CaseOf(orm), TableOf(entity))
      BY <1>1 DEF TableAs
    <2> QED BY <2>1, Zenon DEF Live, LiveAs
  <1>6. \A mode : validate_entity(orm, entity, mode) <=>
          ValidAs(Db(orm), CaseOf(orm), TableOf(entity), Columns(orm, entity), resolved[orm][entity], mode)
    BY <1>2, <1>5, Zenon DEF validate_entity, ValidAs
  <1> QED BY <1>1, <1>2, <1>3, <1>4, <1>6, Zenon

\* A resolution is spelled as it is, by every policy.
LEMMA ResolvedAsIs ==
  ASSUME NEW db, NEW c1, NEW c2, NEW name, NEW columns, NEW found, found # Unset,
         RunsAs(db, c1, name, columns, found)
  PROVE  RunsAs(db, c2, name, columns, found)
  <1>1. TableAs(db, c1, name, found) = TableAs(db, c2, name, found)
    BY Zenon DEF TableAs
  <1>2. \A i : ColumnAs(c1, columns, found, i) = ColumnAs(c2, columns, found, i)
    BY Zenon DEF ColumnAs
  <1> QED BY <1>1, <1>2, Zenon DEF RunsAs

LEMMA NameInvHolds == NameInv => NamesHold
  <1> SUFFICES ASSUME NameInv PROVE NamesHold
    OBVIOUS
  <1>1. NameTypeInv /\ LinkInv /\ ResolvedInv /\ CheckedInv
    BY DEF NameInv
  <1>2. ASSUME NEW orm \in Orms, lease[orm] # Unset
        PROVE  WellKept(Db(orm)) /\ CaseOf(orm) = Spelling(orm)
    <2>1. lease[orm] \in DOMAIN world.db
      BY <1>1, <1>2 DEF NameTypeInv, Databases
    <2>2. WellKept(Db(orm))
      BY <1>1, <2>1, NameAssumption, Zenon DEF NameTypeInv, Db
    <2> QED BY <1>1, <1>2, <2>2, SpelledByPolicy, Zenon
  <1>3. ResolvedNamesExist
    <2> SUFFICES ASSUME NEW orm \in Orms, NEW entity \in Entities, resolved[orm][entity] # Unset
                 PROVE  /\ lease[orm] # Unset
                        /\ Len(resolved[orm][entity].columns) = Len(Columns(orm, entity))
                        /\ IsInjective(resolved[orm][entity].columns)
                        /\ Runs(orm, entity)
      BY Zenon DEF ResolvedNamesExist, Connected
    <2>1. ResolvedAt(orm, entity)
      BY <1>1, Zenon DEF ResolvedInv
    <2>2. RunsAs(Db(orm), CaseOf(orm), TableOf(entity), Columns(orm, entity), resolved[orm][entity])
      BY <2>1, ResolvedAsIs, Zenon DEF ResolvedAt
    <2>3. Runs(orm, entity)
      BY <2>2, OnValues, Zenon
    <2> QED BY <2>1, <2>3, Zenon DEF ResolvedAt
  <1>4. PolicyIsOwners
    BY <1>2, Zenon DEF PolicyIsOwners, Connected, Spelling
  <1>5. ValidatedNamesWork
    <2> SUFFICES ASSUME NEW orm \in Orms, checked[orm] # Unset, NEW entity \in MappedBy(orm),
                        NEW found, found = resolved[orm][entity], NEW said, said = table_sql(orm, entity).name,
                        ~(/\ found = Unset
                          /\ \E table \in Db(orm).tables :
                               /\ fold_equal(table.name, said)
                               /\ \/ table.catalog # Db(orm).current
                                  \/ table.schema # Db(orm).path
                                  \/ table.name # said /\ Db(orm).folds)
                 PROVE  /\ Runs(orm, entity)
                        /\ checked[orm] = "strict" =>
                             \A table \in Denoted(Db(orm), table_sql(orm, entity)) :
                             \A i \in DOMAIN Columns(orm, entity) :
                             \A row \in StoredColumn(Db(orm), table, column_sql(orm, entity, i)) :
                                 Accepts(Columns(orm, entity)[i], row)
      BY Zenon DEF ValidatedNamesWork
    <2> DEFINE db == Db(orm)
               case == CaseOf(orm)
               name == TableOf(entity)
               columns == Columns(orm, entity)
               mode == checked[orm]
    <2>1. lease[orm] # Unset /\ ValidAs(db, case, name, columns, found, mode)
      BY <1>1, <1>2, Zenon DEF CheckedInv, CheckedAt
    <2>2. WellKept(db)
      BY <1>2, <2>1, Zenon
    <2>3. entity \in Entities /\ Given(name)
      <3>1. entity \in DOMAIN world.declared
        BY DEF MappedBy, Entities
      <3>2. WellDeclared(world.declared[entity])
        BY <1>1, <3>1, NameAssumption, Zenon DEF NameTypeInv
      <3> QED BY <3>1, <3>2, Zenon DEF WellDeclared, Entities, TableOf
    <2>4. /\ table_sql(orm, entity) = TableAs(db, case, name, found)
          /\ \A i : column_sql(orm, entity, i) = ColumnAs(case, columns, found, i)
          /\ Runs(orm, entity) <=> RunsAs(db, case, name, columns, found)
      BY OnValues, Zenon
    <2>5. RunsAs(db, case, name, columns, found) /\ (mode = "strict" => StrictAs(db, case, name, columns, found))
      <3> HIDE DEF db, case, name, columns, mode
      <3>1. CASE found # Unset
        BY <2>1, <2>2, <3>1, ValidResolved, Zenon
      <3>2. CASE found = Unset
        <4>1. said = fold_identifier(case, name)
          BY <2>4, <3>2 DEF TableAs
        <4>2. Plain(db, said)
          BY <3>2, Zenon DEF Plain, db
        <4> QED BY <2>1, <2>2, <2>3, <3>2, <4>1, <4>2, ValidPlain, Zenon
      <3> QED BY <3>1, <3>2, Zenon
    <2> QED BY <2>4, <2>5, Zenon DEF StrictAs
  <1>6. OrdinalsRight
    <2> DEFINE rows(orm, entity, table) ==
                 [i \in DOMAIN Columns(orm, entity) |->
                    StoredColumn(Db(orm), table, column_sql(orm, entity, i))]
    <2> SUFFICES ASSUME NEW orm \in Orms, lease[orm] # Unset, NEW entity \in MappedBy(orm),
                        NEW table \in Denoted(Db(orm), table_sql(orm, entity)), Runs(orm, entity),
                        NEW i \in DOMAIN rows(orm, entity, table)
                 PROVE  LET ordinal == result_ordinal(LabelOf(orm, entity, i), ResultAs(rows(orm, entity, table)))
                        IN  ordinal # 0 /\ rows(orm, entity, table)[ordinal] = rows(orm, entity, table)[i]
      BY Zenon DEF OrdinalsRight, Connected, ResultAs
    <2> DEFINE selected == rows(orm, entity, table)
    <2> DEFINE db == Db(orm)
               case == CaseOf(orm)
               name == TableOf(entity)
               columns == Columns(orm, entity)
               found == resolved[orm][entity]
    <2>1. /\ table_sql(orm, entity) = TableAs(db, case, name, found)
          /\ \A k : column_sql(orm, entity, k) = ColumnAs(case, columns, found, k)
          /\ \A k : LabelOf(orm, entity, k) = LabelAs(columns, found, k)
          /\ Runs(orm, entity) <=> RunsAs(db, case, name, columns, found)
      BY OnValues, Zenon
    <2>2. selected = SelectedAs(db, table, case, columns, found)
      BY <2>1, Zenon DEF SelectedAs
    <2>3. DOMAIN columns \subseteq Nat \ {0} /\ \A j \in DOMAIN columns : Given(columns[j].name)
      <3>1. entity \in Entities /\ mapped[orm][entity] # Unmapped
        BY DEF MappedBy
      <3>2. WellMapped(columns, mapped[orm][entity])
        BY <1>1, <3>1, ColumnsAre, Zenon
      <3> HIDE DEF columns
      <3> QED BY <3>2 DEF WellMapped
    <2>4. WellKept(db)
      BY <1>2, Zenon
    <2>5. i \in DOMAIN columns
      OBVIOUS
    <2> HIDE DEF db, case, name, columns, found, rows
    <2>6. OrdinalsAs(db, case, name, columns, found)
      BY <2>3, <2>4, OrdinalsHold, Zenon
    <2> QED BY <2>1, <2>2, <2>5, <2>6, Zenon DEF OrdinalsAs, db
  <1>7. WholeKeyMatched
    <2> SUFFICES ASSUME NEW orm \in Orms, NEW entity \in MappedBy(orm), NEW columns, NEW where,
                        columns = Columns(orm, entity), where = resolve_where(columns, {}), where # Unset
                 PROVE  \A i \in DOMAIN columns :
                          columns[i].key <=> i \in where /\ i \notin set_columns_of(columns, where)
      BY Zenon DEF WholeKeyMatched
    <2>1. entity \in Entities /\ mapped[orm][entity] # Unmapped
      BY DEF MappedBy
    <2>2. WellMapped(columns, mapped[orm][entity])
      BY <1>1, <2>1, ColumnsAre, Zenon
    <2> QED BY <2>2, WholeKey, Zenon
  <1> QED BY <1>3, <1>4, <1>5, <1>6, <1>7, Zenon DEF NamesHold
-----------------------------------------------------------------------------
\* A resolution and a validation depend on what their own orm holds.
LEMMA ResolvedStays ==
  ASSUME NEW orm, NEW entity, world' = world, lease'[orm] = lease[orm],
         mapped'[orm][entity] = mapped[orm][entity], resolved'[orm][entity] = resolved[orm][entity],
         ResolvedAt(orm, entity)
  PROVE  ResolvedAt(orm, entity)'
  BY Zenon DEF ResolvedAt, Db, TableOf, Columns

LEMMA CheckedStays ==
  ASSUME NEW orm, world' = world, lease'[orm] = lease[orm], policy'[orm] = policy[orm],
         mapped'[orm] = mapped[orm], resolved'[orm] = resolved[orm], checked'[orm] = checked[orm],
         CheckedAt(orm)
  PROVE  CheckedAt(orm)'
  BY Zenon DEF CheckedAt, Db, TableOf, Columns, MappedBy, Spelling, Entities

LEMMA LinkStays ==
  ASSUME NEW database, world' = world, link'[database] = link[database], LinkAt(database)
  PROVE  LinkAt(database)'
  BY Zenon DEF LinkAt

\* A step of one orm: the others keep what they hold, and the orm's own
\* validation is outdated.
OwnStep(orm) ==
  /\ world' = world /\ checked' = Outdated(orm)
  /\ \A other \in Orms \ {orm} :
       /\ lease'[other] = lease[other] /\ policy'[other] = policy[other]
       /\ mapped'[other] = mapped[other] /\ resolved'[other] = resolved[other]

LEMMA OwnStepOutdates ==
  ASSUME NameInv, NEW orm \in Orms, OwnStep(orm)
  PROVE  /\ CheckedInv' /\ DOMAIN checked' = Orms
         /\ \A other \in Orms \ {orm} : \A entity \in Entities : ResolvedAt(other, entity)'
  <1>1. DOMAIN checked = Orms /\ CheckedInv /\ ResolvedInv
    BY Zenon DEF NameInv, NameTypeInv
  <1>2. /\ DOMAIN checked' = Orms /\ checked'[orm] = Unset
        /\ \A other \in Orms \ {orm} : checked'[other] = checked[other]
    BY <1>1 DEF OwnStep, Outdated
  <1>3. CheckedAt(orm)'
    BY <1>2, Zenon DEF CheckedAt
  <1>4. ASSUME NEW other \in Orms \ {orm}
        PROVE  CheckedAt(other)' /\ \A entity \in Entities : ResolvedAt(other, entity)'
    <2>1. CheckedAt(other) /\ \A entity \in Entities : ResolvedAt(other, entity)
      BY <1>1, Zenon DEF CheckedInv, ResolvedInv
    <2>2. /\ world' = world /\ lease'[other] = lease[other] /\ policy'[other] = policy[other]
          /\ mapped'[other] = mapped[other] /\ resolved'[other] = resolved[other]
      BY Zenon DEF OwnStep
    <2>3. CheckedAt(other)'
      BY <1>2, <2>1, <2>2, CheckedStays, Zenon
    <2>4. ASSUME NEW entity \in Entities PROVE ResolvedAt(other, entity)'
      BY <2>1, <2>2, ResolvedStays, Zenon
    <2> QED BY <2>3, <2>4, Zenon
  <1> QED BY <1>2, <1>3, <1>4, Zenon DEF CheckedInv

\* The invariant after a step of one orm.
LEMMA AfterOwnStep ==
  ASSUME NameInv, NEW orm \in Orms, OwnStep(orm), NameTypeInv', LinkInv',
         \A entity \in Entities : ResolvedAt(orm, entity)'
  PROVE  NameInv'
  <1>1. CheckedInv' /\ \A other \in Orms \ {orm} : \A entity \in Entities : ResolvedAt(other, entity)'
    BY OwnStepOutdates, Zenon
  <1>2. Entities' = Entities
    BY Zenon DEF OwnStep, Entities
  <1>3. ResolvedInv'
    BY <1>1, <1>2, Zenon DEF ResolvedInv
  <1> QED BY <1>1, <1>3, Zenon DEF NameInv

\* LinkInv speaks of leases, links and policies.
LEMMA LinksStay ==
  ASSUME LinkInv, world' = world, lease' = lease, link' = link, policy' = policy
  PROVE  LinkInv'
  BY Zenon DEF LinkInv, LinkAt, Databases

LEMMA NameStart == NameInit => NameInv
  <1> SUFFICES ASSUME NameInit PROVE NameInv
    OBVIOUS
  <1>1. NameTypeInv
    BY DEF NameInit, NameTypeInv, Unmapped
  <1>2. ASSUME NEW orm \in Orms
        PROVE  lease[orm] = Unset /\ checked[orm] = Unset /\ \A entity \in Entities : resolved[orm][entity] = Unset
    BY DEF NameInit
  <1>3. ASSUME NEW database \in Databases PROVE LinkAt(database)
    <2>1. link[database] = [policy |-> Unset, detected |-> "keep", dialect |-> Unset]
      BY DEF NameInit, NewLink
    <2> QED BY <2>1 DEF LinkAt
  <1> QED BY <1>1, <1>2, <1>3, Zenon
          DEF NameInv, LinkInv, ResolvedInv, ResolvedAt, CheckedInv, CheckedAt

\* A column is added to a mapping that is not resolved.
LEMMA NameMaps ==
  ASSUME NameInv, NEW orm \in Orms, NEW entity \in Entities, Map(orm, entity) \/ AddColumn(orm, entity)
  PROVE  NameInv'
  <1>1. NameTypeInv /\ LinkInv /\ ResolvedInv
    BY DEF NameInv
  <1>2. world' = world /\ lease' = lease /\ policy' = policy /\ resolved' = resolved /\ link' = link
        /\ checked' = Outdated(orm)
    BY Zenon DEF Map, AddColumn
  <1>3. resolved[orm][entity] = Unset
    BY <1>1, Zenon DEF Map, AddColumn, require_unresolved, ResolvedInv, ResolvedAt
  <1> DEFINE all == Len(world.declared[entity].columns)
  <1>4. all \in Nat
    <2>1. WellDeclared(world.declared[entity])
      BY <1>1, NameAssumption, Zenon DEF NameTypeInv, Entities
    <2> QED BY <2>1 DEF WellDeclared
  <1> HIDE DEF all
  <1>5. PICK v \in 0..all : mapped' = [mapped EXCEPT ![orm] = [@ EXCEPT ![entity] = v]]
    <2>1. CASE Map(orm, entity)
      <3>1. 0 \in 0..all /\ mapped' = [mapped EXCEPT ![orm][entity] = 0]
        BY <1>4, <2>1 DEF Map
      <3> QED BY <3>1, Zenon
    <2>2. CASE AddColumn(orm, entity)
      <3>1. mapped[orm][entity] \in 0..all - 1
            /\ mapped' = [mapped EXCEPT ![orm][entity] = mapped[orm][entity] + 1]
        BY <1>1, <2>2 DEF AddColumn, all, NameTypeInv
      <3>2. mapped[orm][entity] + 1 \in 0..all
        BY <1>4, <3>1
      <3> QED BY <3>1, <3>2, Zenon
    <2> QED BY <2>1, <2>2
  <1>6. mapped \in [Orms -> [Entities -> {Unmapped} \cup Nat]] /\ v \in Nat
    BY <1>1, <1>4, <1>5 DEF NameTypeInv
  <1>7. /\ mapped' \in [Orms -> [Entities -> {Unmapped} \cup Nat]]
        /\ mapped'[orm][entity] = v
        /\ \A other \in Orms \ {orm} : mapped'[other] = mapped[other]
        /\ \A e \in Entities \ {entity} : mapped'[orm][e] = mapped[orm][e]
    BY <1>5, <1>6
  <1>8. OwnStep(orm)
    BY <1>2, <1>7, Zenon DEF OwnStep
  <1>9. Entities' = Entities /\ Databases' = Databases
    BY <1>2, Zenon DEF Entities, Databases
  <1>10. \A o \in Orms : \A e \in Entities :
           mapped'[o][e] \in {Unmapped} \cup 0 .. Len(world.declared[e].columns)
    <2>1. \A o \in Orms : \A e \in Entities :
            mapped[o][e] \in {Unmapped} \cup 0 .. Len(world.declared[e].columns)
      BY <1>1, Zenon DEF NameTypeInv
    <2>2. v \in 0..Len(world.declared[entity].columns)
      BY <1>5 DEF all
    <2> QED BY <1>7, <2>1, <2>2, Zenon
  <1>11. NameTypeInv'
    BY <1>1, <1>2, <1>7, <1>8, <1>9, <1>10, OwnStepOutdates, Zenon DEF NameTypeInv, Unmapped
  <1>12. ASSUME NEW e \in Entities PROVE ResolvedAt(orm, e)'
    <2>1. CASE e = entity
      BY <1>2, <1>3, <2>1, Zenon DEF ResolvedAt
    <2>2. CASE e # entity
      <3>1. mapped'[orm][e] = mapped[orm][e] /\ ResolvedAt(orm, e)
        BY <1>1, <1>7, <2>2, Zenon DEF ResolvedInv
      <3> QED BY <1>2, <3>1, ResolvedStays, Zenon
    <2> QED BY <2>1, <2>2, Zenon
  <1> QED BY <1>1, <1>2, <1>8, <1>11, <1>12, LinksStay, AfterOwnStep, Zenon

\* Forgetting a resolution.
LEMMA ClearedHolds ==
  ASSUME NameTypeInv, NEW orm \in Orms, resolved' = Cleared(orm), world' = world
  PROVE  /\ DOMAIN resolved' = Orms /\ \A o \in Orms : DOMAIN resolved'[o] = Entities
         /\ \A other \in Orms \ {orm} : resolved'[other] = resolved[other]
         /\ \A entity \in Entities : resolved'[orm][entity] = Unset /\ ResolvedAt(orm, entity)'
  <1>1. /\ DOMAIN resolved' = Orms /\ resolved'[orm] = [entity \in Entities |-> Unset]
        /\ \A other \in Orms \ {orm} : resolved'[other] = resolved[other]
    BY DEF NameTypeInv, Cleared
  <1>2. \A o \in Orms : DOMAIN resolved'[o] = Entities
    BY <1>1 DEF NameTypeInv
  <1>3. \A entity \in Entities : resolved'[orm][entity] = Unset
    BY <1>1
  <1> QED BY <1>1, <1>2, <1>3, Zenon DEF ResolvedAt

\* What orm::adopt_connection() and connection::identifier_case() make of a link.
LEMMA PolicySet ==
  ASSUME NEW database, LinkAt(database), NEW case, NEW conn, conn = SetLinkPolicy(link[database], case),
         world' = world, link'[database] = conn
  PROVE  LinkAt(database)' /\ conn.policy = case
  <1> DEFINE old == link[database]
             dialect == IF old.dialect = Unset THEN Unset ELSE value_or(case, old.detected)
  <1>1. old = [policy |-> old.policy, detected |-> old.detected, dialect |-> old.dialect]
    BY Zenon DEF LinkAt
  <1>2. conn = [policy |-> case, detected |-> old.detected, dialect |-> dialect]
    <2> HIDE DEF old
    <2>1. conn = [old EXCEPT !.policy = case, !.dialect = dialect]
      BY <1>1 DEF SetLinkPolicy, old
    <2> HIDE DEF dialect
    <2> QED BY <1>1, <2>1, Zenon
  <1>3. conn.policy = case /\ conn.detected = old.detected /\ conn.dialect = dialect
        /\ conn = [policy |-> conn.policy, detected |-> conn.detected, dialect |-> conn.dialect]
    <2> HIDE DEF dialect, old
    <2> QED BY <1>2
  <1>4. old.dialect # Unset => old.detected = detect(world.db[database].dbms).identifiers
    BY Zenon DEF LinkAt
  <1>5. conn.dialect # Unset => old.dialect # Unset /\ conn.dialect = value_or(case, old.detected)
    BY <1>3, Zenon
  <1> HIDE DEF old
  <1> QED BY <1>3, <1>4, <1>5, Zenon DEF LinkAt

\* What connection::sql_dialect() makes of a link.
LEMMA DialectKept ==
  ASSUME NEW database, LinkAt(database), world' = world, link'[database] = sql_dialect(database)
  PROVE  LinkAt(database)' /\ link'[database].policy = link[database].policy
  <1> DEFINE old == link[database]
             conn == sql_dialect(database)
             found == detect(world.db[database].dbms).identifiers
  <1>1. old = [policy |-> old.policy, detected |-> old.detected, dialect |-> old.dialect]
    BY Zenon DEF LinkAt
  <1>2. CASE old.dialect # Unset
    <2>1. conn = old
      BY <1>2, Zenon DEF sql_dialect
    <2> QED BY <2>1, LinkStays, Zenon
  <1>3. CASE old.dialect = Unset
    <2>1. conn = [old EXCEPT !.detected = found, !.dialect = value_or(old.policy, found)]
      BY <1>3, Zenon DEF sql_dialect
    <2> HIDE DEF old, conn, found
    <2>2. conn = [policy |-> old.policy, detected |-> found, dialect |-> value_or(old.policy, found)]
      BY <1>1, <2>1, Zenon
    <2>3. conn.policy = old.policy /\ conn.detected = found /\ conn.dialect = value_or(old.policy, found)
          /\ conn = [policy |-> conn.policy, detected |-> conn.detected, dialect |-> conn.dialect]
      BY <2>2
    <2> QED BY <2>3, Zenon DEF LinkAt, old, conn, found
  <1> QED BY <1>2, <1>3, Zenon

\* A step that changes one link, and the leases and policies with it.
LinkStep(database, conn) ==
  /\ link' = [link EXCEPT ![database] = conn] /\ LinkAt(database)'
  /\ \A o1, o2 \in Orms : lease'[o1] = lease'[o2] /\ lease'[o1] # Unset => o1 = o2
  /\ \A o \in Orms : lease'[o] # Unset =>
        \/ lease'[o] = database /\ conn.policy = policy'[o]
        \/ lease'[o] # database /\ lease'[o] = lease[o] /\ policy'[o] = policy[o]

LEMMA OneLinkChanges ==
  ASSUME NameTypeInv, LinkInv, world' = world, NEW database \in Databases, NEW conn,
         LinkStep(database, conn)
  PROVE  LinkInv' /\ DOMAIN link' = Databases
  <1>1. DOMAIN link = Databases /\ lease \in [Orms -> Databases \cup {Unset}]
    BY Zenon DEF NameTypeInv
  <1> USE DEF LinkStep
  <1>2. link'[database] = conn /\ DOMAIN link' = Databases
        /\ \A d \in Databases : d # database => link'[d] = link[d]
    BY <1>1
  <1>3. Databases' = Databases
    BY Zenon DEF Databases
  <1>4. ASSUME NEW d \in Databases PROVE LinkAt(d)'
    <2>1. CASE d = database
      BY <1>2, <2>1, Zenon
    <2>2. CASE d # database
      <3>1. LinkAt(d) /\ link'[d] = link[d]
        BY <1>2, <2>2, Zenon DEF LinkInv
      <3> QED BY <3>1, LinkStays, Zenon
    <2> QED BY <2>1, <2>2, Zenon
  <1>5. ASSUME NEW o \in Orms, lease'[o] # Unset PROVE link'[lease'[o]].policy = policy'[o]
    <2>1. CASE lease'[o] = database
      BY <1>2, <1>5, <2>1, Zenon
    <2>2. CASE lease'[o] # database
      <3>1. lease'[o] = lease[o] /\ policy'[o] = policy[o]
        BY <1>5, <2>2, Zenon
      <3>2. link[lease[o]].policy = policy[o]
        BY <1>5, <3>1, Zenon DEF LinkInv
      <3>3. lease[o] \in Databases
        BY <1>1, <1>5, <3>1
      <3>4. link'[lease[o]] = link[lease[o]]
        BY <1>2, <2>2, <3>1, <3>3, Zenon
      <3> QED BY <3>1, <3>2, <3>4, Zenon
    <2> QED BY <2>1, <2>2, Zenon
  <1> QED BY <1>2, <1>3, <1>4, <1>5, Zenon DEF LinkInv

\* Reading the dialect changes no policy.
LEMMA LinksTouched ==
  ASSUME NameTypeInv, LinkInv, NEW orm \in Orms, lease[orm] # Unset, world' = world, lease' = lease,
         policy' = policy, link' = Touched(orm)
  PROVE  LinkInv' /\ DOMAIN link' = Databases
  <1>1. PICK database \in Databases : database = lease[orm]
    BY DEF NameTypeInv
  <1>2. PICK conn : conn = sql_dialect(database) /\ link' = [link EXCEPT ![database] = conn]
    BY <1>1, Zenon DEF Touched
  <1>3. link'[database] = conn
    BY <1>2 DEF NameTypeInv
  <1>4. LinkAt(database)' /\ conn.policy = link[database].policy
    <2>1. LinkAt(database) /\ link'[database] = sql_dialect(database)
      BY <1>2, <1>3, Zenon DEF LinkInv
    <2>2. LinkAt(database)' /\ link'[database].policy = link[database].policy
      BY <2>1, DialectKept, Zenon
    <2> QED BY <1>3, <2>2, Zenon
  <1>5. \A o \in Orms : lease'[o] # Unset =>
            \/ lease'[o] = database /\ conn.policy = policy'[o]
            \/ lease'[o] # database /\ lease'[o] = lease[o] /\ policy'[o] = policy[o]
    BY <1>1, <1>4, Zenon DEF LinkInv
  <1>6. \A o1, o2 \in Orms : lease'[o1] = lease'[o2] /\ lease'[o1] # Unset => o1 = o2
    BY Zenon DEF LinkInv
  <1>7. LinkStep(database, conn)
    BY <1>2, <1>4, <1>5, <1>6, Zenon DEF LinkStep
  <1> QED BY <1>7, OneLinkChanges, Zenon

LEMMA TypeStays ==
  ASSUME NameTypeInv, world' = world, mapped' = mapped, lease' \in [Orms -> Databases \cup {Unset}],
         DOMAIN policy' = Orms, DOMAIN resolved' = Orms, \A o \in Orms : DOMAIN resolved'[o] = Entities,
         DOMAIN link' = Databases, DOMAIN checked' = Orms
  PROVE  NameTypeInv'
  <1>1. Entities' = Entities /\ Databases' = Databases
    BY Zenon DEF Entities, Databases
  <1> QED BY <1>1, Zenon DEF NameTypeInv, Unmapped

\* orm::connect(): the resolution is gone whether or not the pool had a
\* connection to lease; the one it had is told the policy.
LEMMA NameConnects ==
  ASSUME NameInv, NEW orm \in Orms, NEW database \in Databases, connect(orm, database)
  PROVE  NameInv'
  <1>1. NameTypeInv /\ LinkInv /\ lease \in [Orms -> Databases \cup {Unset}] /\ DOMAIN link = Databases
    BY Zenon DEF NameInv, NameTypeInv
  <1>2. world' = world /\ policy' = policy /\ mapped' = mapped /\ checked' = Outdated(orm)
        /\ resolved' = Cleared(orm)
    BY Zenon DEF connect
  <1>3. /\ DOMAIN resolved' = Orms /\ \A o \in Orms : DOMAIN resolved'[o] = Entities
        /\ \A other \in Orms \ {orm} : resolved'[other] = resolved[other]
        /\ \A entity \in Entities : ResolvedAt(orm, entity)'
    BY <1>1, <1>2, ClearedHolds, Zenon
  <1>4. /\ lease' \in [Orms -> Databases \cup {Unset}]
        /\ \A other \in Orms \ {orm} : lease'[other] = lease[other]
        /\ LinkInv' /\ DOMAIN link' = Databases
    <2>1. CASE Free(database)
      <3>1. PICK conn : conn = SetLinkPolicy(link[database], policy[orm])
                        /\ link' = [link EXCEPT ![database] = conn]
        BY <2>1, Zenon DEF connect, adopt_connection
      <3>2. lease' = [lease EXCEPT ![orm] = database]
        BY <2>1, Zenon DEF connect
      <3>3. /\ lease' \in [Orms -> Databases \cup {Unset}] /\ lease'[orm] = database
            /\ \A other \in Orms \ {orm} : lease'[other] = lease[other]
            /\ link'[database] = conn
        BY <1>1, <3>1, <3>2
      <3>4. LinkAt(database)
        BY <1>1, Zenon DEF LinkInv
      <3>5. LinkAt(database)' /\ conn.policy = policy[orm]
        <4>1. PICK case : case = policy[orm]
          OBVIOUS
        <4>2. conn = SetLinkPolicy(link[database], case)
          BY <3>1, <4>1, Zenon
        <4>3. LinkAt(database)' /\ conn.policy = case
          <5>1. world' = world /\ link'[database] = conn
            BY <1>2, <3>3
          <5> QED BY <3>4, <4>2, <5>1, PolicySet, Zenon
        <4> QED BY <4>1, <4>3, Zenon
      <3>6. \A other \in Orms : lease[other] # database
        BY <2>1, Zenon DEF Free
      <3>7. LinkStep(database, conn)
        <4>1. \A o1, o2 \in Orms : lease'[o1] = lease'[o2] /\ lease'[o1] # Unset => o1 = o2
          BY <1>1, <3>3, <3>6, Zenon DEF LinkInv
        <4>2. \A o \in Orms : \/ lease'[o] = database /\ conn.policy = policy'[o]
                              \/ lease'[o] # database /\ lease'[o] = lease[o] /\ policy'[o] = policy[o]
          BY <1>2, <3>3, <3>5, <3>6, Zenon
        <4> QED BY <3>1, <3>5, <4>1, <4>2, Zenon DEF LinkStep
      <3> QED BY <1>1, <1>2, <3>3, <3>7, OneLinkChanges, Zenon
    <2>2. CASE ~Free(database)
      <3>1. lease' = lease /\ link' = link
        BY <2>2, Zenon DEF connect
      <3> QED BY <1>1, <1>2, <3>1, LinksStay, Zenon
    <2> QED BY <2>1, <2>2, Zenon
  <1>5. OwnStep(orm)
    BY <1>2, <1>3, <1>4, Zenon DEF OwnStep
  <1>6. NameTypeInv'
    <2>1. DOMAIN policy' = Orms
      BY <1>1, <1>2, Zenon DEF NameTypeInv
    <2> QED BY <1>1, <1>2, <1>3, <1>4, <1>5, <2>1, OwnStepOutdates, TypeStays, Zenon
  <1> QED BY <1>3, <1>4, <1>5, <1>6, AfterOwnStep, Zenon

LEMMA NameDisconnects ==
  ASSUME NameInv, NEW orm \in Orms, disconnect(orm) \/ clear_identifier_resolution(orm)
  PROVE  NameInv'
  <1>1. NameTypeInv /\ LinkInv /\ lease \in [Orms -> Databases \cup {Unset}] /\ DOMAIN link = Databases
        /\ DOMAIN policy = Orms
    BY Zenon DEF NameInv, NameTypeInv
  <1>2. world' = world /\ policy' = policy /\ mapped' = mapped /\ link' = link
        /\ checked' = Outdated(orm) /\ resolved' = Cleared(orm)
    BY Zenon DEF disconnect, clear_identifier_resolution
  <1>3. /\ DOMAIN resolved' = Orms /\ \A o \in Orms : DOMAIN resolved'[o] = Entities
        /\ \A other \in Orms \ {orm} : resolved'[other] = resolved[other]
        /\ \A entity \in Entities : ResolvedAt(orm, entity)'
    BY <1>1, <1>2, ClearedHolds, Zenon
  <1>4. /\ lease' \in [Orms -> Databases \cup {Unset}]
        /\ \A o \in Orms : lease'[o] # Unset => lease'[o] = lease[o]
        /\ \A other \in Orms \ {orm} : lease'[other] = lease[other]
    <2>1. CASE disconnect(orm)
      BY <1>1, <2>1 DEF disconnect
    <2>2. CASE clear_identifier_resolution(orm)
      BY <1>1, <2>2, Zenon DEF clear_identifier_resolution
    <2> QED BY <2>1, <2>2
  <1>5. LinkInv'
    <2>1. \A o1, o2 \in Orms : lease'[o1] = lease'[o2] /\ lease'[o1] # Unset => o1 = o2
      <3>1. \A o1, o2 \in Orms : lease[o1] = lease[o2] /\ lease[o1] # Unset => o1 = o2
        BY <1>1, Zenon DEF LinkInv
      <3>2. \A o \in Orms : lease'[o] # Unset => lease'[o] = lease[o]
        BY <1>4
      <3> QED BY <3>1, <3>2
    <2>2. \A o \in Orms : lease'[o] # Unset => link'[lease'[o]].policy = policy'[o]
      BY <1>1, <1>2, <1>4, Zenon DEF LinkInv
    <2>3. \A database \in Databases : LinkAt(database)'
      BY <1>1, <1>2, Zenon DEF LinkInv, LinkAt
    <2>4. Databases' = Databases
      BY <1>2, Zenon DEF Databases
    <2> QED BY <2>1, <2>2, <2>3, <2>4, Zenon DEF LinkInv
  <1>6. OwnStep(orm)
    BY <1>2, <1>3, <1>4, Zenon DEF OwnStep
  <1>7. NameTypeInv'
    BY <1>1, <1>2, <1>3, <1>4, <1>6, OwnStepOutdates, TypeStays, Zenon
  <1> QED BY <1>3, <1>5, <1>6, <1>7, AfterOwnStep, Zenon

\* orm::identifier_case(): a connection that is held is told at once.
LEMMA NameRespells ==
  ASSUME NameInv, NEW orm \in Orms, NEW case, identifier_case(orm, case)
  PROVE  NameInv'
  <1>1. /\ NameTypeInv /\ LinkInv /\ ResolvedInv /\ lease \in [Orms -> Databases \cup {Unset}]
        /\ DOMAIN link = Databases /\ DOMAIN policy = Orms /\ DOMAIN resolved = Orms
        /\ \A o \in Orms : DOMAIN resolved[o] = Entities
    BY Zenon DEF NameInv, NameTypeInv
  <1>2. world' = world /\ lease' = lease /\ mapped' = mapped /\ resolved' = resolved
        /\ checked' = Outdated(orm) /\ policy' = [policy EXCEPT ![orm] = case]
    BY Zenon DEF identifier_case
  <1>3. DOMAIN policy' = Orms /\ policy'[orm] = case
        /\ \A other \in Orms \ {orm} : policy'[other] = policy[other]
    BY <1>1, <1>2
  <1>4. LinkInv' /\ DOMAIN link' = Databases
    <2>1. CASE Connected(orm)
      <3>1. PICK database \in Databases : database = lease[orm]
        BY <1>1, <2>1 DEF Connected
      <3>2. PICK conn : conn = SetLinkPolicy(link[database], case)
                        /\ link' = [link EXCEPT ![database] = conn]
        BY <2>1, <3>1, Zenon DEF identifier_case
      <3>3. link'[database] = conn
        BY <1>1, <3>2
      <3>4. LinkAt(database)
        BY <1>1, Zenon DEF LinkInv
      <3>5. LinkAt(database)' /\ conn.policy = case
        BY <1>2, <3>2, <3>3, <3>4, PolicySet, Zenon
      <3>6. \A o1, o2 \in Orms : lease'[o1] = lease'[o2] /\ lease'[o1] # Unset => o1 = o2
        BY <1>1, <1>2, Zenon DEF LinkInv
      <3>7. \A o \in Orms : lease'[o] # Unset =>
              \/ lease'[o] = database /\ conn.policy = policy'[o]
              \/ lease'[o] # database /\ lease'[o] = lease[o] /\ policy'[o] = policy[o]
        <4> SUFFICES ASSUME NEW o \in Orms, lease'[o] # Unset
                     PROVE  \/ lease'[o] = database /\ conn.policy = policy'[o]
                            \/ lease'[o] # database /\ lease'[o] = lease[o] /\ policy'[o] = policy[o]
          OBVIOUS
        <4>1. CASE o = orm
          BY <1>2, <1>3, <3>1, <3>5, <4>1, Zenon
        <4>2. CASE o # orm
          BY <1>1, <1>2, <1>3, <3>1, <4>2, Zenon DEF LinkInv
        <4> QED BY <4>1, <4>2, Zenon
      <3>8. LinkStep(database, conn)
        BY <3>2, <3>5, <3>6, <3>7, Zenon DEF LinkStep
      <3> QED BY <1>1, <1>2, <3>8, OneLinkChanges, Zenon
    <2>2. CASE ~Connected(orm)
      <3>1. link' = link /\ lease[orm] = Unset
        BY <2>2, Zenon DEF identifier_case, Connected
      <3>2. \A o \in Orms : lease'[o] # Unset => link'[lease'[o]].policy = policy'[o]
        BY <1>1, <1>2, <1>3, <3>1, Zenon DEF LinkInv
      <3>3. \A database \in Databases : LinkAt(database)'
        BY <1>1, <1>2, <3>1, Zenon DEF LinkInv, LinkAt
      <3>4. \A o1, o2 \in Orms : lease'[o1] = lease'[o2] /\ lease'[o1] # Unset => o1 = o2
        BY <1>1, <1>2, Zenon DEF LinkInv
      <3>5. Databases' = Databases
        BY <1>2, Zenon DEF Databases
      <3> QED BY <1>1, <3>1, <3>2, <3>3, <3>4, <3>5, Zenon DEF LinkInv
    <2> QED BY <2>1, <2>2, Zenon
  <1>5. OwnStep(orm)
    BY <1>2, <1>3, Zenon DEF OwnStep
  <1>6. NameTypeInv'
    BY <1>1, <1>2, <1>3, <1>4, <1>5, OwnStepOutdates, TypeStays, Zenon
  <1>7. ASSUME NEW entity \in Entities PROVE ResolvedAt(orm, entity)'
    <2>1. ResolvedAt(orm, entity)
      BY <1>1, Zenon DEF ResolvedInv
    <2> QED BY <1>2, <2>1, ResolvedStays, Zenon
  <1> QED BY <1>4, <1>5, <1>6, <1>7, AfterOwnStep, Zenon

\* The resolution that resolve_identifiers() puts in place.
LEMMA ResolvedFits ==
  ASSUME NameTypeInv, NEW orm \in Orms, NEW entity \in Entities, NEW space, lease[orm] # Unset,
         mapped[orm][entity] # Unmapped, MayResolve(orm, space), Resolution(orm, entity, space) # Unset
  PROVE  LET answer == Resolution(orm, entity, space)
         IN  /\ [answer.table EXCEPT !.name = NoName] = Scope(space)
             /\ Len(answer.columns) = Len(Columns(orm, entity)) /\ IsInjective(answer.columns)
             /\ RunsAs(Db(orm), "keep", TableOf(entity), Columns(orm, entity), answer)
  <1>1. WellMapped(Columns(orm, entity), mapped[orm][entity])
    BY ColumnsAre, Zenon
  <1>2. \E S : Columns(orm, entity) \in Seq(S)
    BY <1>1, Zenon DEF WellMapped
  <1>3. lease[orm] \in Databases
    BY DEF NameTypeInv
  <1>4. WellKept(Db(orm))
    BY <1>3, NameAssumption, Zenon DEF NameTypeInv, Databases, Db
  <1>5. Answers(orm, entity, space, Db(orm), Columns(orm, entity), Resolution(orm, entity, space))
    BY <1>2, <1>4, Zenon DEF Answers
  <1> QED BY <1>5, ResolutionFits, Zenon

\* orm::resolve_identifiers() swaps in a resolution of every mapped entity, or
\* leaves the ones there were.
LEMMA ResolvedTogether ==
  ASSUME NameTypeInv, NEW orm \in Orms, NEW space, resolve_identifiers(orm, space)
  PROVE  \/ resolved' = resolved
         \/ /\ MayResolve(orm, space) /\ DOMAIN resolved' = Orms
            /\ \A o \in Orms : DOMAIN resolved'[o] = Entities
            /\ \A other \in Orms \ {orm} : resolved'[other] = resolved[other]
            /\ \A entity \in Entities :
                 IF mapped[orm][entity] # Unmapped
                 THEN /\ resolved'[orm][entity] = Resolution(orm, entity, space)
                      /\ Resolution(orm, entity, space) # Unset
                 ELSE resolved'[orm][entity] = Unset
  <1> DEFINE pending == [entity \in MappedBy(orm) |-> Resolution(orm, entity, space)]
             swapped == [entity \in Entities |-> IF entity \in DOMAIN pending THEN pending[entity] ELSE Unset]
             all == Unset \notin {pending[entity] : entity \in DOMAIN pending}
  <1>1. SUFFICES ASSUME resolved' # resolved
                 PROVE  /\ MayResolve(orm, space) /\ DOMAIN resolved' = Orms
                        /\ \A o \in Orms : DOMAIN resolved'[o] = Entities
                        /\ \A other \in Orms \ {orm} : resolved'[other] = resolved[other]
                        /\ \A entity \in Entities :
                             IF mapped[orm][entity] # Unmapped
                             THEN /\ resolved'[orm][entity] = Resolution(orm, entity, space)
                                  /\ Resolution(orm, entity, space) # Unset
                             ELSE resolved'[orm][entity] = Unset
    OBVIOUS
  <1>2. MayResolve(orm, space) /\ all /\ resolved' = [resolved EXCEPT ![orm] = swapped]
    BY <1>1, Zenon DEF resolve_identifiers
  <1>3. DOMAIN resolved = Orms /\ \A o \in Orms : DOMAIN resolved[o] = Entities
    BY Zenon DEF NameTypeInv
  <1>4. \A entity \in Entities :
          IF mapped[orm][entity] # Unmapped
          THEN swapped[entity] = Resolution(orm, entity, space) /\ swapped[entity] # Unset
          ELSE swapped[entity] = Unset
    <2> SUFFICES ASSUME NEW entity \in Entities
                 PROVE  IF mapped[orm][entity] # Unmapped
                        THEN swapped[entity] = Resolution(orm, entity, space) /\ swapped[entity] # Unset
                        ELSE swapped[entity] = Unset
      OBVIOUS
    <2>1. entity \in MappedBy(orm) <=> mapped[orm][entity] # Unmapped
      BY Zenon DEF MappedBy
    <2>2. entity \in MappedBy(orm) => pending[entity] = Resolution(orm, entity, space) /\ pending[entity] # Unset
      BY <1>2
    <2> QED BY <2>1, <2>2
  <1>5. DOMAIN swapped = Entities
    OBVIOUS
  <1> HIDE DEF swapped, all, pending
  <1>6. DOMAIN resolved' = Orms /\ resolved'[orm] = swapped
        /\ \A other \in Orms \ {orm} : resolved'[other] = resolved[other]
    BY <1>2, <1>3
  <1> QED BY <1>2, <1>3, <1>4, <1>5, <1>6, Zenon

LEMMA NameResolves ==
  ASSUME NameInv, NEW orm \in Orms, NEW space, resolve_identifiers(orm, space)
  PROVE  NameInv'
  <1>1. /\ NameTypeInv /\ LinkInv /\ ResolvedInv /\ lease \in [Orms -> Databases \cup {Unset}]
        /\ DOMAIN policy = Orms /\ DOMAIN resolved = Orms
        /\ \A o \in Orms : DOMAIN resolved[o] = Entities
    BY Zenon DEF NameInv, NameTypeInv
  <1>2. world' = world /\ lease' = lease /\ policy' = policy /\ mapped' = mapped
        /\ checked' = Outdated(orm) /\ link' = Touched(orm) /\ lease[orm] # Unset
    BY Zenon DEF resolve_identifiers, Connected
  <1>3. LinkInv' /\ DOMAIN link' = Databases
    BY <1>1, <1>2, LinksTouched, Zenon
  <1>4. /\ DOMAIN resolved' = Orms /\ \A o \in Orms : DOMAIN resolved'[o] = Entities
        /\ \A other \in Orms \ {orm} : resolved'[other] = resolved[other]
    BY <1>1, ResolvedTogether, Zenon
  <1>5. OwnStep(orm)
    BY <1>2, <1>4, Zenon DEF OwnStep
  <1>6. NameTypeInv'
    BY <1>1, <1>2, <1>3, <1>4, <1>5, OwnStepOutdates, TypeStays, Zenon
  <1>7. ASSUME NEW entity \in Entities PROVE ResolvedAt(orm, entity)'
    <2>1. CASE resolved' = resolved
      <3>1. ResolvedAt(orm, entity)
        BY <1>1, Zenon DEF ResolvedInv
      <3> QED BY <1>2, <2>1, <3>1, ResolvedStays, Zenon
    <2>2. CASE resolved' # resolved
      <3>1. /\ MayResolve(orm, space)
            /\ IF mapped[orm][entity] # Unmapped
               THEN /\ resolved'[orm][entity] = Resolution(orm, entity, space)
                    /\ Resolution(orm, entity, space) # Unset
               ELSE resolved'[orm][entity] = Unset
        BY <1>1, <2>2, ResolvedTogether, Zenon
      <3>2. CASE mapped[orm][entity] = Unmapped
        BY <3>1, <3>2, Zenon DEF ResolvedAt
      <3>3. CASE mapped[orm][entity] # Unmapped
        <4>1. LET answer == resolved'[orm][entity]
              IN  /\ Len(answer.columns) = Len(Columns(orm, entity)) /\ IsInjective(answer.columns)
                  /\ RunsAs(Db(orm), "keep", TableOf(entity), Columns(orm, entity), answer)
          <5>1. NameTypeInv /\ lease[orm] # Unset /\ MayResolve(orm, space)
                /\ Resolution(orm, entity, space) # Unset
            BY <1>1, <1>2, <3>1, <3>3, Zenon
          <5>2. LET answer == Resolution(orm, entity, space)
                IN  /\ Len(answer.columns) = Len(Columns(orm, entity)) /\ IsInjective(answer.columns)
                    /\ RunsAs(Db(orm), "keep", TableOf(entity), Columns(orm, entity), answer)
            BY <3>3, <5>1, ResolvedFits, Zenon
          <5> QED BY <3>1, <3>3, <5>2, Zenon
        <4>2. Columns(orm, entity)' = Columns(orm, entity) /\ Db(orm)' = Db(orm)
              /\ TableOf(entity)' = TableOf(entity) /\ lease'[orm] # Unset
              /\ mapped'[orm][entity] # Unmapped
          BY <1>2, <3>3, Zenon DEF Columns, Db, TableOf
        <4> QED BY <4>1, <4>2, Zenon DEF ResolvedAt, Unmapped
      <3> QED BY <3>2, <3>3, Zenon
    <2> QED BY <2>1, <2>2, Zenon
  <1> QED BY <1>3, <1>5, <1>6, <1>7, AfterOwnStep, Zenon

\* orm::validate() passes: what it looked at holds now.
LEMMA NameValidates ==
  ASSUME NameInv, NEW orm \in Orms, NEW mode, validate(orm, mode)
  PROVE  NameInv'
  <1>1. /\ NameTypeInv /\ LinkInv /\ ResolvedInv /\ CheckedInv
        /\ lease \in [Orms -> Databases \cup {Unset}] /\ DOMAIN checked = Orms
        /\ DOMAIN policy = Orms /\ DOMAIN resolved = Orms
        /\ \A o \in Orms : DOMAIN resolved[o] = Entities
    BY Zenon DEF NameInv, NameTypeInv
  <1>2. world' = world /\ lease' = lease /\ policy' = policy /\ mapped' = mapped /\ resolved' = resolved
        /\ checked' = [checked EXCEPT ![orm] = mode] /\ link' = Touched(orm) /\ lease[orm] # Unset
    BY Zenon DEF validate, Connected
  <1>3. LinkInv' /\ DOMAIN link' = Databases
    BY <1>1, <1>2, LinksTouched, Zenon
  <1>4. DOMAIN checked' = Orms /\ checked'[orm] = mode
        /\ \A other \in Orms \ {orm} : checked'[other] = checked[other]
    BY <1>1, <1>2
  <1>5. NameTypeInv'
    BY <1>1, <1>2, <1>3, <1>4, TypeStays, Zenon
  <1>6. Entities' = Entities
    BY <1>2, Zenon DEF Entities
  <1>7. ResolvedInv'
    <2>1. ASSUME NEW o \in Orms, NEW entity \in Entities PROVE ResolvedAt(o, entity)'
      <3>1. ResolvedAt(o, entity)
        BY <1>1, Zenon DEF ResolvedInv
      <3> QED BY <1>2, <3>1, ResolvedStays, Zenon
    <2> QED BY <1>6, <2>1, Zenon DEF ResolvedInv
  <1>8. CheckedAt(orm)'
    <2>1. \A entity \in MappedBy(orm) :
            ValidAs(Db(orm), Spelling(orm), TableOf(entity), Columns(orm, entity),
                    resolved[orm][entity], mode)
      <3>1. CaseOf(orm) = Spelling(orm)
        BY <1>1, <1>2, SpelledByPolicy, Zenon
      <3>2. \A entity \in MappedBy(orm) : validate_entity(orm, entity, mode)
        BY Zenon DEF validate
      <3> QED BY <3>1, <3>2, OnValues, Zenon
    <2>2. Db(orm)' = Db(orm) /\ Spelling(orm)' = Spelling(orm) /\ MappedBy(orm)' = MappedBy(orm)
          /\ \A entity : /\ TableOf(entity)' = TableOf(entity)
                         /\ Columns(orm, entity)' = Columns(orm, entity)
      BY <1>2, Zenon DEF Db, Spelling, MappedBy, TableOf, Columns, Entities
    <2> QED BY <1>2, <1>4, <2>1, <2>2, Zenon DEF CheckedAt
  <1>9. ASSUME NEW other \in Orms \ {orm} PROVE CheckedAt(other)'
    <2>1. CheckedAt(other)
      BY <1>1, Zenon DEF CheckedInv
    <2> QED BY <1>2, <1>4, <2>1, CheckedStays, Zenon
  <1>10. CheckedInv'
    BY <1>8, <1>9, Zenon DEF CheckedInv
  <1> QED BY <1>3, <1>5, <1>7, <1>10, Zenon DEF NameInv

LEMMA NameStutter ==
  ASSUME NameInv, UNCHANGED nameVars
  PROVE  NameInv'
  <1>1. world' = world /\ lease' = lease /\ policy' = policy /\ mapped' = mapped /\ resolved' = resolved
        /\ link' = link /\ checked' = checked
    BY Zenon DEF nameVars
  <1>2. NameTypeInv /\ LinkInv /\ ResolvedInv /\ CheckedInv
    BY Zenon DEF NameInv
  <1>3. Entities' = Entities
    BY <1>1, Zenon DEF Entities
  <1>4. NameTypeInv'
    BY <1>1, <1>2, <1>3, Zenon DEF NameTypeInv, Databases, Unmapped
  <1>5. LinkInv'
    BY <1>1, <1>2, LinksStay, Zenon
  <1>6. ASSUME NEW orm \in Orms, NEW entity \in Entities PROVE ResolvedAt(orm, entity)'
    <2>1. ResolvedAt(orm, entity)
      BY <1>2, Zenon DEF ResolvedInv
    <2> QED BY <1>1, <2>1, ResolvedStays, Zenon
  <1>7. ASSUME NEW orm \in Orms PROVE CheckedAt(orm)'
    <2>1. CheckedAt(orm)
      BY <1>2, Zenon DEF CheckedInv
    <2> QED BY <1>1, <2>1, CheckedStays, Zenon
  <1> QED BY <1>3, <1>4, <1>5, <1>6, <1>7, Zenon DEF NameInv, ResolvedInv, CheckedInv

LEMMA NameStep ==
  ASSUME NameInv, [NameNext]_nameVars
  PROVE  NameInv'
  <1>1. CASE NameNext
    <2>1. PICK orm \in Orms :
            \/ orm \in Mappers /\ \E entity \in Entities : Map(orm, entity) \/ AddColumn(orm, entity)
            \/ \E database \in Databases : connect(orm, database)
            \/ disconnect(orm)
            \/ \E case \in Policies : identifier_case(orm, case)
            \/ orm \in Mappers /\ \E space \in Namespaces : resolve_identifiers(orm, space)
            \/ clear_identifier_resolution(orm)
            \/ orm \in Mappers /\ \E mode \in {"strict", "lenient"} : validate(orm, mode)
      BY <1>1, Zenon DEF NameNext
    <2>2. ASSUME NEW entity \in Entities, Map(orm, entity) \/ AddColumn(orm, entity) PROVE NameInv'
      BY <2>2, NameMaps, Zenon
    <2>3. ASSUME NEW database \in Databases, connect(orm, database) PROVE NameInv'
      BY <2>3, NameConnects, Zenon
    <2>4. ASSUME disconnect(orm) \/ clear_identifier_resolution(orm) PROVE NameInv'
      BY <2>4, NameDisconnects, Zenon
    <2>5. ASSUME NEW case \in Policies, identifier_case(orm, case) PROVE NameInv'
      BY <2>5, NameRespells, Zenon
    <2>6. ASSUME NEW space \in Namespaces, resolve_identifiers(orm, space) PROVE NameInv'
      BY <2>6, NameResolves, Zenon
    <2>7. ASSUME NEW mode \in {"strict", "lenient"}, validate(orm, mode) PROVE NameInv'
      BY <2>7, NameValidates, Zenon
    <2> QED BY <2>1, <2>2, <2>3, <2>4, <2>5, <2>6, <2>7, Zenon
  <1>2. CASE UNCHANGED nameVars
    BY <1>2, NameStutter, Zenon
  <1> QED BY <1>1, <1>2, Zenon

\* Whatever orms, databases, mappings and policies there are, and however mapping,
\* connecting, respelling, resolving and validating interleave: what a statement
\* names is there on the connection that runs it, once resolved or validated; a
\* pooled connection spells by its holder's policy; a column comes back under its
\* own name; and a write told no fields matches on the whole key (orm.cpp:56-144,
\* orm_mapping.hpp, mapping/registry.cpp:91-111, connection.cpp:123-141).
THEOREM NamesAreRight == NameSpec => []NamesHold
  <1>1. NameInit => NameInv
    BY NameStart, Zenon
  <1>2. NameInv /\ [NameNext]_nameVars => NameInv'
    BY NameStep, Zenon
  <1>3. NameInv => NamesHold
    BY NameInvHolds, Zenon
  <1> QED BY <1>1, <1>2, <1>3, PTL DEF NameSpec

\* What one step of an orm makes of its resolutions.
LEMMA SwappedAtOnce ==
  ASSUME NameTypeInv, [NameNext]_nameVars
  PROVE  ResolvesAtOnce
  <1> SUFFICES ASSUME NEW o \in Orms, resolved'[o] # resolved[o]
               PROVE  \/ \A entity \in Entities : resolved'[o][entity] = Unset
                      \/ \E space \in Namespaces : \A entity \in MappedBy(o) :
                             /\ resolved'[o][entity] # Unset
                             /\ [resolved'[o][entity].table EXCEPT !.name = NoName] = Scope(space)
    BY Zenon DEF ResolvesAtOnce
  <1>1. resolved' # resolved
    OBVIOUS
  <1>2. PICK orm \in Orms :
          \/ \E entity \in Entities : Map(orm, entity) \/ AddColumn(orm, entity)
          \/ \E database \in Databases : connect(orm, database)
          \/ disconnect(orm)
          \/ \E case \in Policies : identifier_case(orm, case)
          \/ \E space \in Namespaces : resolve_identifiers(orm, space)
          \/ clear_identifier_resolution(orm)
          \/ \E mode \in {"strict", "lenient"} : validate(orm, mode)
    BY <1>1, Zenon DEF NameNext, nameVars
  <1>3. \/ resolved' = Cleared(orm) /\ world' = world
        \/ \E space \in Namespaces : resolve_identifiers(orm, space)
    BY <1>1, <1>2, Zenon DEF Map, AddColumn, connect, disconnect, identifier_case,
       clear_identifier_resolution, validate
  <1>4. CASE resolved' = Cleared(orm) /\ world' = world
    BY <1>4, ClearedHolds, Zenon
  <1>5. ASSUME NEW space \in Namespaces, resolve_identifiers(orm, space)
        PROVE  \A entity \in MappedBy(o) :
                 /\ resolved'[o][entity] # Unset
                 /\ [resolved'[o][entity].table EXCEPT !.name = NoName] = Scope(space)
    <2>1. /\ MayResolve(orm, space)
          /\ \A other \in Orms \ {orm} : resolved'[other] = resolved[other]
          /\ \A entity \in Entities :
               IF mapped[orm][entity] # Unmapped
               THEN /\ resolved'[orm][entity] = Resolution(orm, entity, space)
                    /\ Resolution(orm, entity, space) # Unset
               ELSE resolved'[orm][entity] = Unset
      BY <1>1, <1>5, ResolvedTogether, Zenon
    <2>2. o = orm /\ lease[orm] # Unset
      BY <1>5, <2>1, Zenon DEF resolve_identifiers, Connected
    <2>3. ASSUME NEW entity \in Entities, mapped[orm][entity] # Unmapped
          PROVE  /\ resolved'[orm][entity] # Unset
                 /\ [resolved'[orm][entity].table EXCEPT !.name = NoName] = Scope(space)
      <3>1. resolved'[orm][entity] = Resolution(orm, entity, space)
            /\ Resolution(orm, entity, space) # Unset
        BY <2>1, <2>3, Zenon
      <3>2. [Resolution(orm, entity, space).table EXCEPT !.name = NoName] = Scope(space)
        <4>1. lease[orm] # Unset /\ MayResolve(orm, space) /\ Resolution(orm, entity, space) # Unset
          BY <2>1, <2>2, <3>1, Zenon
        <4> QED BY <2>3, <4>1, ResolvedFits, Zenon
      <3> QED BY <3>1, <3>2, Zenon
    <2> QED BY <2>2, <2>3, Zenon DEF MappedBy
  <1> QED BY <1>3, <1>4, <1>5, Zenon

\* orm::resolve_identifiers() installs the names of every mapped entity, all from
\* the namespace it was given, or none (orm.cpp:126-137): no step leaves an orm
\* with entities of two answers.
THEOREM ResolvedAtOnce == NameSpec => ResolvesTogether
  <1>1. NameInit => NameInv
    BY NameStart, Zenon
  <1>2. NameInv /\ [NameNext]_nameVars => NameInv'
    BY NameStep, Zenon
  <1>3. NameInv /\ [NameNext]_nameVars => ResolvesAtOnce
    BY SwappedAtOnce, Zenon DEF NameInv
  <1> QED BY <1>1, <1>2, <1>3, PTL DEF NameSpec, ResolvesTogether

-----------------------------------------------------------------------------
(***************************************************************************)
(* The plugin loader.                                                       *)
(***************************************************************************)
USE LoaderAssumption

\* The threads that have a library of scheme `k` open and may yet close it, and
\* all that may have opened it.
Loads(x, k) == x.key = k /\ x.pc \in {"check", "register"}
Holds(x, k) == x.key = k /\ (x.pc \in {"check", "register", "again"} \/ x.end = "made")
Loading(s, k) == {t \in Loaders : Loads(s[t], k)}
Holding(s, k) == {t \in Loaders : Holds(s[t], k)}

\* Where a thread is says what it has found out.
SeekerInv(t) ==
  LET s == seeker[t] IN
  /\ s.pc # "idle" => s.key \in Keys /\ s.end = "none"
  /\ s.end # "none" => s.key \in Keys
  /\ s.pc \in {"open", "check", "register", "again"} => s.key \notin Builtin
  /\ s.pc \in {"register", "again"} => plugin[s.key] = "good"
  /\ s.pc = "again" => s.key \in registered
  /\ s.end = "made" => plugin[s.key] = "good" \/ s.key \in Builtin
  /\ s.end = "unknown" => plugin[s.key] # "good" /\ s.key \notin Builtin

\* A registered plugin stays in memory; the references to one that is not
\* registered are those of the threads that are loading it.
LibraryInv(k) ==
  /\ k \in registered \ Builtin => plugin[k] = "good" /\ library[k] > 0
  /\ library[k] <= Cardinality(Holding(seeker, k))
  /\ k \notin registered => library[k] = Cardinality(Loading(seeker, k))

LoaderInv ==
  /\ plugin \in [Keys -> Plugins] /\ registered \in SUBSET Keys /\ Builtin \subseteq registered
  /\ library \in [Keys -> Nat] /\ seeker \in [Loaders -> Seekers]
  /\ \A t \in Loaders : SeekerInv(t)
  /\ \A k \in Keys : LibraryInv(k)

\* The step of a thread: what it adds to and takes from the two sets.
LEMMA Moved ==
  ASSUME NEW t \in Loaders, NEW x \in Seekers, NEW k, seeker \in [Loaders -> Seekers],
         seeker' = [seeker EXCEPT ![t] = x]
  PROVE  /\ Loads(x, k) => Loading(seeker', k) = Loading(seeker, k) \cup {t}
         /\ ~Loads(x, k) => Loading(seeker', k) = Loading(seeker, k) \ {t}
         /\ Holds(x, k) => Holding(seeker', k) = Holding(seeker, k) \cup {t}
         /\ ~Holds(x, k) => Holding(seeker', k) = Holding(seeker, k) \ {t}
  <1>1. (t \in Loading(seeker', k) <=> Loads(x, k)) /\ (t \in Holding(seeker', k) <=> Holds(x, k))
    BY DEF Loading, Holding
  <1>2. ASSUME NEW u \in Loaders, u # t
        PROVE  (u \in Loading(seeker', k) <=> u \in Loading(seeker, k)) /\ (u \in Holding(seeker', k) <=> u \in Holding(seeker, k))
    BY <1>2 DEF Loading, Holding
  <1>3. Loading(seeker', k) \subseteq Loaders /\ Loading(seeker, k) \subseteq Loaders
        /\ Holding(seeker', k) \subseteq Loaders /\ Holding(seeker, k) \subseteq Loaders
    BY DEF Loading, Holding
  <1> QED BY <1>1, <1>2, <1>3, Zenon

\* The two sets are finite, and so are their numbers.
LEMMA HoldersFinite ==
  ASSUME NEW s, NEW k
  PROVE  /\ IsFiniteSet(Loading(s, k)) /\ IsFiniteSet(Holding(s, k))
         /\ Cardinality(Loading(s, k)) \in Nat /\ Cardinality(Holding(s, k)) \in Nat
         /\ Cardinality(Holding(s, k)) <= Cardinality(Loaders)
         /\ Cardinality(Loaders) \in Nat
  <1>1. Loading(s, k) \subseteq Loaders /\ Holding(s, k) \subseteq Loaders
    BY DEF Loading, Holding
  <1> QED BY <1>1, FS_Subset, FS_CardinalityType, Zenon

LEMMA LoaderStart == LoaderInit => LoaderInv
  <1> SUFFICES ASSUME LoaderInit PROVE LoaderInv
    OBVIOUS
  <1> USE DEF LoaderInit
  <1>1. seeker \in [Loaders -> Seekers] /\ library \in [Keys -> Nat]
    BY DEF Seekers
  <1>2. ASSUME NEW t \in Loaders PROVE SeekerInv(t)
    BY DEF SeekerInv
  <1>3. ASSUME NEW k \in Keys PROVE LibraryInv(k)
    <2>1. Loading(seeker, k) = {}
      BY DEF Loading, Loads
    <2> QED BY <2>1, FS_EmptySet, HoldersFinite DEF LibraryInv
  <1> QED BY <1>1, <1>2, <1>3 DEF LoaderInv

\* What a step of thread `t` leaves of the others.
LEMMA OthersStay ==
  ASSUME LoaderInv, NEW t \in Loaders, NEW x \in Seekers, seeker' = [seeker EXCEPT ![t] = x],
         plugin' = plugin, registered \subseteq registered', SeekerInv(t)'
  PROVE  seeker' \in [Loaders -> Seekers] /\ \A u \in Loaders : SeekerInv(u)'
  <1>1. ASSUME NEW u \in Loaders, u # t PROVE SeekerInv(u)'
    <2>1. seeker'[u] = seeker[u] /\ SeekerInv(u)
      BY <1>1 DEF LoaderInv
    <2> QED BY <2>1 DEF SeekerInv
  <1> QED BY <1>1 DEF LoaderInv

\* A step that opens and closes nothing and registers nothing: the thread stays
\* among those that are loading or stays away from them.
LEMMA LibrariesStay ==
  ASSUME LoaderInv, NEW t \in Loaders, NEW x \in Seekers, seeker' = [seeker EXCEPT ![t] = x],
         plugin' = plugin, registered' = registered, library' = library,
         \A k \in Keys : Loads(seeker[t], k) <=> Loads(x, k),
         \A k \in Keys : Holds(seeker[t], k) => Holds(x, k)
  PROVE  \A k \in Keys : LibraryInv(k)'
  <1> SUFFICES ASSUME NEW k \in Keys PROVE LibraryInv(k)'
    OBVIOUS
  <1>1. LibraryInv(k) /\ seeker \in [Loaders -> Seekers] /\ library \in [Keys -> Nat]
    BY DEF LoaderInv
  <1>2. /\ t \in Loading(seeker, k) <=> Loads(seeker[t], k)
        /\ t \in Holding(seeker, k) <=> Holds(seeker[t], k)
    BY DEF Loading, Holding
  <1>3. Loading(seeker', k) = Loading(seeker, k) /\ Holding(seeker, k) \subseteq Holding(seeker', k)
    <2>1. /\ Loads(x, k) => Loading(seeker', k) = Loading(seeker, k) \cup {t}
          /\ ~Loads(x, k) => Loading(seeker', k) = Loading(seeker, k) \ {t}
          /\ Holds(x, k) => Holding(seeker', k) = Holding(seeker, k) \cup {t}
          /\ ~Holds(x, k) => Holding(seeker', k) = Holding(seeker, k) \ {t}
      BY <1>1, Moved, Zenon
    <2> QED BY <1>2, <2>1, Zenon
  <1>4. Cardinality(Holding(seeker, k)) <= Cardinality(Holding(seeker', k))
    BY <1>3, HoldersFinite, FS_Subset, Zenon
  <1> QED BY <1>1, <1>3, <1>4, HoldersFinite DEF LibraryInv

LEMMA LoaderCreate ==
  ASSUME LoaderInv, NEW t \in Loaders, NEW spelling \in Spellings, Create(t, spelling)
  PROVE  LoaderInv'
  <1> DEFINE x == [pc |-> "lookup", key |-> KeyOf(spelling), end |-> "none"]
  <1>1. x \in Seekers /\ x.key \in Keys
    BY DEF Seekers, KeyOf, Keys
  <1>2. seeker' = [seeker EXCEPT ![t] = x] /\ UNCHANGED <<plugin, registered, library>>
    BY DEF Create
  <1>3. SeekerInv(t)'
    BY <1>1, <1>2 DEF SeekerInv, LoaderInv
  <1>4. seeker[t].pc = "idle" /\ seeker[t].end = "none"
    BY DEF Create
  <1>5. \A k \in Keys : ~Loads(seeker[t], k) /\ ~Loads(x, k) /\ ~Holds(seeker[t], k)
    BY <1>4 DEF Loads, Holds
  <1>6. \A k \in Keys : LibraryInv(k)'
    BY <1>1, <1>2, <1>5, LibrariesStay, Zenon
  <1> QED BY <1>1, <1>2, <1>3, <1>6, OthersStay, Zenon DEF LoaderInv

LEMMA LoaderLookup ==
  ASSUME LoaderInv, NEW t \in Loaders, Lookup(t) \/ LookupAgain(t)
  PROVE  LoaderInv'
  <1> DEFINE s == seeker[t]
  <1>1. s \in Seekers /\ SeekerInv(t) /\ s.pc \in {"lookup", "again"} /\ s.key \in Keys
        /\ s.end = "none" /\ LibraryInv(s.key)
    BY DEF LoaderInv, SeekerInv, Lookup, LookupAgain
  <1>2. PICK x \in Seekers :
          /\ seeker' = [seeker EXCEPT ![t] = x] /\ x.key = s.key
          /\ \/ x.pc = "idle" /\ x.end = "made" /\ s.key \in registered
             \/ x.pc = "open" /\ x.end = "none" /\ s.pc = "lookup" /\ s.key \notin registered
    <2>1. CASE s.key \in registered
      <3>1. seeker' = [seeker EXCEPT ![t] = [s EXCEPT !.pc = "idle", !.end = "made"]]
        BY <1>1, <2>1, Zenon DEF Lookup, LookupAgain, Tell, LoaderInv
      <3>2. [s EXCEPT !.pc = "idle", !.end = "made"] \in Seekers
            /\ [s EXCEPT !.pc = "idle", !.end = "made"].key = s.key
            /\ [s EXCEPT !.pc = "idle", !.end = "made"].pc = "idle"
            /\ [s EXCEPT !.pc = "idle", !.end = "made"].end = "made"
        BY <1>1, Zenon DEF Seekers
      <3> QED BY <2>1, <3>1, <3>2, Zenon
    <2>2. CASE s.key \notin registered
      <3>1. seeker' = [seeker EXCEPT ![t] = [s EXCEPT !.pc = "open"]] /\ s.pc = "lookup"
        BY <1>1, <2>2 DEF Lookup, LookupAgain, Go, LoaderInv, SeekerInv
      <3>2. [s EXCEPT !.pc = "open"] \in Seekers /\ [s EXCEPT !.pc = "open"].key = s.key
            /\ [s EXCEPT !.pc = "open"].pc = "open" /\ [s EXCEPT !.pc = "open"].end = "none"
        BY <1>1 DEF Seekers
      <3> QED BY <2>2, <3>1, <3>2, Zenon
    <2> QED BY <2>1, <2>2
  <1>3. UNCHANGED <<plugin, registered, library>>
    BY DEF Lookup, LookupAgain
  <1>4. seeker'[t] = x
    BY <1>2 DEF LoaderInv
  <1>5. SeekerInv(t)'
    BY <1>1, <1>2, <1>3, <1>4 DEF SeekerInv, LoaderInv, LibraryInv
  <1>6. \A k \in Keys : ~Loads(s, k) /\ ~Loads(x, k) /\ (Holds(s, k) => Holds(x, k))
    BY <1>1, <1>2 DEF Loads, Holds
  <1>7. \A k \in Keys : LibraryInv(k)'
    BY <1>2, <1>3, <1>6, LibrariesStay, Zenon
  <1> QED BY <1>2, <1>3, <1>5, <1>7, OthersStay, Zenon DEF LoaderInv

\* The thread that opens a library counts in both sets, and the reference is one
\* more; the one that closes it leaves both, and the reference is one fewer.
LEMMA Counts ==
  ASSUME LoaderInv, NEW t \in Loaders, NEW x \in Seekers, seeker' = [seeker EXCEPT ![t] = x],
         NEW k
  PROVE  /\ Loads(seeker[t], k) => Cardinality(Loading(seeker, k)) > 0
         /\ Loads(x, k) /\ ~Loads(seeker[t], k)
              => Cardinality(Loading(seeker', k)) = Cardinality(Loading(seeker, k)) + 1
         /\ ~Loads(x, k) /\ Loads(seeker[t], k)
              => Cardinality(Loading(seeker', k)) = Cardinality(Loading(seeker, k)) - 1
         /\ Holds(x, k) /\ ~Holds(seeker[t], k)
              => Cardinality(Holding(seeker', k)) = Cardinality(Holding(seeker, k)) + 1
         /\ ~Holds(x, k) /\ Holds(seeker[t], k)
              => Cardinality(Holding(seeker', k)) = Cardinality(Holding(seeker, k)) - 1
         /\ (Loads(x, k) <=> Loads(seeker[t], k)) => Loading(seeker', k) = Loading(seeker, k)
         /\ (Holds(x, k) <=> Holds(seeker[t], k)) => Holding(seeker', k) = Holding(seeker, k)
  <1>1. seeker \in [Loaders -> Seekers]
    BY DEF LoaderInv
  <1>2. /\ Loads(x, k) => Loading(seeker', k) = Loading(seeker, k) \cup {t}
        /\ ~Loads(x, k) => Loading(seeker', k) = Loading(seeker, k) \ {t}
        /\ Holds(x, k) => Holding(seeker', k) = Holding(seeker, k) \cup {t}
        /\ ~Holds(x, k) => Holding(seeker', k) = Holding(seeker, k) \ {t}
    BY <1>1, Moved, Zenon
  <1>3. /\ t \in Loading(seeker, k) <=> Loads(seeker[t], k)
        /\ t \in Holding(seeker, k) <=> Holds(seeker[t], k)
    BY DEF Loading, Holding
  <1>4. ASSUME NEW S, IsFiniteSet(S), Cardinality(S) \in Nat
        PROVE  /\ t \in S => Cardinality(S) > 0 /\ S \cup {t} = S
                             /\ Cardinality(S \ {t}) = Cardinality(S) - 1
               /\ t \notin S => Cardinality(S \cup {t}) = Cardinality(S) + 1 /\ S \ {t} = S
    <2>1. t \in S => Cardinality(S) > 0
      BY <1>4, FS_EmptySet
    <2>2. t \in S => Cardinality(S \ {t}) = Cardinality(S) - 1
      BY <1>4, FS_RemoveElement, Zenon
    <2>3. t \notin S => Cardinality(S \cup {t}) = Cardinality(S) + 1
      BY <1>4, FS_AddElement, Zenon
    <2> QED BY <2>1, <2>2, <2>3
  <1>5. /\ IsFiniteSet(Loading(seeker, k)) /\ Cardinality(Loading(seeker, k)) \in Nat
        /\ IsFiniteSet(Holding(seeker, k)) /\ Cardinality(Holding(seeker, k)) \in Nat
    BY HoldersFinite
  <1>6. /\ t \in Loading(seeker, k) => Cardinality(Loading(seeker, k)) > 0
                /\ Loading(seeker, k) \cup {t} = Loading(seeker, k)
                /\ Cardinality(Loading(seeker, k) \ {t}) = Cardinality(Loading(seeker, k)) - 1
        /\ t \notin Loading(seeker, k) => Loading(seeker, k) \ {t} = Loading(seeker, k)
                /\ Cardinality(Loading(seeker, k) \cup {t}) = Cardinality(Loading(seeker, k)) + 1
    BY <1>4, <1>5, Zenon
  <1>7. /\ t \in Holding(seeker, k) => Holding(seeker, k) \cup {t} = Holding(seeker, k)
                /\ Cardinality(Holding(seeker, k) \ {t}) = Cardinality(Holding(seeker, k)) - 1
        /\ t \notin Holding(seeker, k) => Holding(seeker, k) \ {t} = Holding(seeker, k)
                /\ Cardinality(Holding(seeker, k) \cup {t}) = Cardinality(Holding(seeker, k)) + 1
    BY <1>4, <1>5, Zenon
  <1>8. /\ Loads(seeker[t], k) => Cardinality(Loading(seeker, k)) > 0
        /\ Loads(x, k) /\ ~Loads(seeker[t], k)
             => Cardinality(Loading(seeker', k)) = Cardinality(Loading(seeker, k)) + 1
        /\ ~Loads(x, k) /\ Loads(seeker[t], k)
             => Cardinality(Loading(seeker', k)) = Cardinality(Loading(seeker, k)) - 1
        /\ (Loads(x, k) <=> Loads(seeker[t], k)) => Loading(seeker', k) = Loading(seeker, k)
    BY <1>2, <1>3, <1>6, Zenon
  <1>9. /\ Holds(x, k) /\ ~Holds(seeker[t], k)
             => Cardinality(Holding(seeker', k)) = Cardinality(Holding(seeker, k)) + 1
        /\ ~Holds(x, k) /\ Holds(seeker[t], k)
             => Cardinality(Holding(seeker', k)) = Cardinality(Holding(seeker, k)) - 1
        /\ (Holds(x, k) <=> Holds(seeker[t], k)) => Holding(seeker', k) = Holding(seeker, k)
    BY <1>2, <1>3, <1>7, Zenon
  <1> QED BY <1>8, <1>9, Zenon

LEMMA LoaderOpen ==
  ASSUME LoaderInv, NEW t \in Loaders, OpenLibrary(t)
  PROVE  LoaderInv'
  <1> DEFINE s == seeker[t]
  <1>1. s \in Seekers /\ SeekerInv(t) /\ s.pc = "open" /\ s.key \in Keys /\ s.end = "none"
        /\ s.key \notin Builtin
    BY DEF LoaderInv, SeekerInv, OpenLibrary
  <1>2. plugin' = plugin /\ registered' = registered /\ seeker \in [Loaders -> Seekers]
        /\ library \in [Keys -> Nat]
    BY DEF OpenLibrary, LoaderInv
  <1>3. CASE plugin[s.key] = "missing"
    <2> DEFINE x == [s EXCEPT !.pc = "idle", !.end = "unknown"]
    <2>1. x \in Seekers /\ x.key = s.key /\ x.pc = "idle" /\ x.end = "unknown"
      BY <1>1, Zenon DEF Seekers
    <2>2. seeker' = [seeker EXCEPT ![t] = x] /\ library' = library
      BY <1>2, <1>3, Zenon DEF OpenLibrary, Tell
    <2> HIDE DEF x
    <2>3. seeker'[t] = x
      BY <1>2, <2>2
    <2>4. SeekerInv(t)'
      BY <1>1, <1>2, <1>3, <2>1, <2>3 DEF SeekerInv
    <2>5. \A k \in Keys : ~Loads(s, k) /\ ~Loads(x, k) /\ ~Holds(s, k)
      BY <1>1, <2>1 DEF Loads, Holds
    <2>6. \A k \in Keys : LibraryInv(k)'
      BY <1>2, <2>1, <2>2, <2>5, LibrariesStay, Zenon
    <2> QED BY <1>2, <2>1, <2>2, <2>4, <2>6, OthersStay, Zenon DEF LoaderInv
  <1>4. CASE plugin[s.key] # "missing"
    <2> DEFINE x == [s EXCEPT !.pc = "check"]
    <2>1. x \in Seekers /\ x.key = s.key /\ x.pc = "check" /\ x.end = "none"
      BY <1>1 DEF Seekers
    <2>2. seeker' = [seeker EXCEPT ![t] = x] /\ library' = [library EXCEPT ![s.key] = @ + 1]
      BY <1>2, <1>4 DEF OpenLibrary, Go
    <2> HIDE DEF x
    <2>3. seeker'[t] = x /\ library' \in [Keys -> Nat]
      BY <1>1, <1>2, <2>2
    <2>4. SeekerInv(t)'
      BY <1>1, <1>2, <2>1, <2>3 DEF SeekerInv
    <2>5. ASSUME NEW k \in Keys PROVE LibraryInv(k)'
      <3>1. LibraryInv(k) /\ library[k] \in Nat
        BY <1>2 DEF LoaderInv
      <3>2. CASE k = s.key
        <4>1. ~Loads(s, k) /\ Loads(x, k) /\ ~Holds(s, k) /\ Holds(x, k)
          BY <1>1, <2>1, <3>2 DEF Loads, Holds
        <4>2. /\ Cardinality(Loading(seeker', k)) = Cardinality(Loading(seeker, k)) + 1
              /\ Cardinality(Holding(seeker', k)) = Cardinality(Holding(seeker, k)) + 1
          BY <2>1, <2>2, <4>1, Counts, Zenon
        <4>3. library'[k] = library[k] + 1
          BY <1>1, <1>2, <2>2, <3>2
        <4> QED BY <1>2, <3>1, <4>2, <4>3, HoldersFinite DEF LibraryInv
      <3>3. CASE k # s.key
        <4>1. ~Loads(s, k) /\ ~Loads(x, k) /\ ~Holds(s, k) /\ ~Holds(x, k)
          BY <2>1, <3>3 DEF Loads, Holds
        <4>2. Loading(seeker', k) = Loading(seeker, k) /\ Holding(seeker', k) = Holding(seeker, k)
          BY <2>1, <2>2, <4>1, Counts, Zenon
        <4>3. library'[k] = library[k]
          BY <1>1, <1>2, <2>2, <3>3
        <4> QED BY <1>2, <3>1, <4>2, <4>3 DEF LibraryInv
      <3> QED BY <3>2, <3>3
    <2> QED BY <1>2, <2>1, <2>2, <2>3, <2>4, <2>5, OthersStay, Zenon DEF LoaderInv
  <1> QED BY <1>3, <1>4

LEMMA LoaderCheck ==
  ASSUME LoaderInv, NEW t \in Loaders, CheckAbi(t)
  PROVE  LoaderInv'
  <1> DEFINE s == seeker[t]
  <1>1. s \in Seekers /\ SeekerInv(t) /\ s.pc = "check" /\ s.key \in Keys /\ s.end = "none"
        /\ s.key \notin Builtin
    BY DEF LoaderInv, SeekerInv, CheckAbi
  <1>2. plugin' = plugin /\ registered' = registered /\ seeker \in [Loaders -> Seekers]
        /\ library \in [Keys -> Nat]
    BY DEF CheckAbi, LoaderInv
  <1>3. CASE plugin[s.key] = "good"
    <2> DEFINE x == [s EXCEPT !.pc = "register"]
    <2>1. x \in Seekers /\ x.key = s.key /\ x.pc = "register" /\ x.end = "none"
      BY <1>1 DEF Seekers
    <2>2. seeker' = [seeker EXCEPT ![t] = x] /\ library' = library
      BY <1>2, <1>3 DEF CheckAbi, Go
    <2> HIDE DEF x
    <2>3. seeker'[t] = x
      BY <1>2, <2>2
    <2>4. SeekerInv(t)'
      BY <1>1, <1>2, <1>3, <2>1, <2>3 DEF SeekerInv
    <2>5. \A k \in Keys : (Loads(s, k) <=> Loads(x, k)) /\ (Holds(s, k) => Holds(x, k))
      BY <1>1, <2>1 DEF Loads, Holds
    <2>6. \A k \in Keys : LibraryInv(k)'
      BY <1>2, <2>1, <2>2, <2>5, LibrariesStay, Zenon
    <2> QED BY <1>2, <2>1, <2>2, <2>4, <2>6, OthersStay, Zenon DEF LoaderInv
  <1>4. CASE plugin[s.key] # "good"
    <2> DEFINE x == [s EXCEPT !.pc = "idle", !.end = "unknown"]
    <2>1. x \in Seekers /\ x.key = s.key /\ x.pc = "idle" /\ x.end = "unknown"
      BY <1>1, Zenon DEF Seekers
    <2>2. seeker' = [seeker EXCEPT ![t] = x] /\ library' = [library EXCEPT ![s.key] = @ - 1]
      BY <1>2, <1>4, Zenon DEF CheckAbi, Tell
    <2> HIDE DEF x
    <2>3. s.key \notin registered /\ library[s.key] = Cardinality(Loading(seeker, s.key))
      BY <1>1, <1>4 DEF LoaderInv, LibraryInv
    <2>4. Loads(s, s.key) /\ ~Loads(x, s.key) /\ Holds(s, s.key) /\ ~Holds(x, s.key)
      BY <1>1, <2>1 DEF Loads, Holds
    <2>5. /\ Cardinality(Loading(seeker, s.key)) > 0
          /\ Cardinality(Loading(seeker', s.key)) = Cardinality(Loading(seeker, s.key)) - 1
          /\ Cardinality(Holding(seeker', s.key)) = Cardinality(Holding(seeker, s.key)) - 1
      BY <2>1, <2>2, <2>4, Counts, Zenon
    <2>6. seeker'[t] = x /\ library' \in [Keys -> Nat] /\ library'[s.key] = library[s.key] - 1
      BY <1>1, <1>2, <2>2, <2>3, <2>5
    <2>7. SeekerInv(t)'
      BY <1>1, <1>2, <1>4, <2>1, <2>6 DEF SeekerInv
    <2>8. ASSUME NEW k \in Keys PROVE LibraryInv(k)'
      <3>1. LibraryInv(k) /\ library[k] \in Nat
        BY <1>2 DEF LoaderInv
      <3>2. CASE k = s.key
        BY <1>2, <2>3, <2>5, <2>6, <3>1, <3>2, HoldersFinite DEF LibraryInv
      <3>3. CASE k # s.key
        <4>1. ~Loads(s, k) /\ ~Loads(x, k) /\ ~Holds(s, k) /\ ~Holds(x, k)
          BY <2>1, <3>3 DEF Loads, Holds
        <4>2. Loading(seeker', k) = Loading(seeker, k) /\ Holding(seeker', k) = Holding(seeker, k)
          BY <2>1, <2>2, <4>1, Counts, Zenon
        <4>3. library'[k] = library[k]
          BY <1>1, <1>2, <2>2, <3>3
        <4> QED BY <1>2, <3>1, <4>2, <4>3 DEF LibraryInv
      <3> QED BY <3>2, <3>3
    <2> QED BY <1>2, <2>1, <2>2, <2>6, <2>7, <2>8, OthersStay, Zenon DEF LoaderInv
  <1> QED BY <1>3, <1>4

LEMMA LoaderRegister ==
  ASSUME LoaderInv, NEW t \in Loaders, Register(t)
  PROVE  LoaderInv'
  <1> DEFINE s == seeker[t]
             x == [s EXCEPT !.pc = "again"]
  <1>1. s \in Seekers /\ SeekerInv(t) /\ s.pc = "register" /\ s.key \in Keys /\ s.end = "none"
        /\ s.key \notin Builtin /\ plugin[s.key] = "good"
    BY DEF LoaderInv, SeekerInv, Register
  <1>2. plugin' = plugin /\ registered' = registered \cup {s.key} /\ library' = library
        /\ seeker \in [Loaders -> Seekers] /\ library \in [Keys -> Nat]
    BY DEF Register, LoaderInv
  <1>3. x \in Seekers /\ x.key = s.key /\ x.pc = "again" /\ x.end = "none"
    BY <1>1 DEF Seekers
  <1>4. seeker' = [seeker EXCEPT ![t] = x]
    BY <1>2 DEF Register, Go
  <1> HIDE DEF x
  <1>5. seeker'[t] = x
    BY <1>2, <1>4
  <1>6. SeekerInv(t)'
    BY <1>1, <1>2, <1>3, <1>5 DEF SeekerInv
  <1>7. ASSUME NEW k \in Keys PROVE LibraryInv(k)'
    <2>1. LibraryInv(k) /\ library[k] \in Nat
      BY <1>2 DEF LoaderInv
    <2>2. CASE k = s.key
      <3>1. Loads(s, k) /\ Holds(s, k) /\ Holds(x, k)
        BY <1>1, <1>3, <2>2 DEF Loads, Holds
      <3>2. Cardinality(Loading(seeker, k)) > 0 /\ Holding(seeker', k) = Holding(seeker, k)
        BY <1>3, <1>4, <3>1, Counts, Zenon
      <3> QED BY <1>1, <1>2, <2>1, <2>2, <3>2 DEF LibraryInv
    <2>3. CASE k # s.key
      <3>1. ~Loads(s, k) /\ ~Loads(x, k) /\ ~Holds(s, k) /\ ~Holds(x, k)
        BY <1>3, <2>3 DEF Loads, Holds
      <3>2. Loading(seeker', k) = Loading(seeker, k) /\ Holding(seeker', k) = Holding(seeker, k)
        BY <1>3, <1>4, <3>1, Counts, Zenon
      <3> QED BY <1>2, <2>1, <2>3, <3>2 DEF LibraryInv
    <2> QED BY <2>2, <2>3
  <1>8. registered' \in SUBSET Keys /\ Builtin \subseteq registered' /\ registered \subseteq registered'
    BY <1>1, <1>2 DEF LoaderInv
  <1> QED BY <1>2, <1>3, <1>4, <1>6, <1>7, <1>8, OthersStay, Zenon DEF LoaderInv

\* However many threads race for however many schemes (backend/registry.cpp
\* resolve(), plugin_loader.cpp try_load_plugin()): with a plugin that fits nobody
\* is told that the scheme is unknown, a factory that can be called has its
\* library in memory, and a library that was refused is closed again.
THEOREM LoaderIsSound == LoaderSpec => []LoaderSound
  <1>1. LoaderInv /\ [LoaderNext]_loaderVars => LoaderInv'
    <2> SUFFICES ASSUME LoaderInv, [LoaderNext]_loaderVars PROVE LoaderInv'
      OBVIOUS
    <2>1. CASE UNCHANGED loaderVars
      BY <2>1, Zenon DEF loaderVars, LoaderInv, SeekerInv, LibraryInv, Loading, Holding
    <2>2. CASE LoaderNext
      BY <2>2, LoaderCreate, LoaderLookup, LoaderOpen, LoaderCheck, LoaderRegister, Zenon
         DEF LoaderNext, SeekerStep
    <2> QED BY <2>1, <2>2
  <1>2. LoaderInv => LoaderSound
    <2> SUFFICES ASSUME LoaderInv PROVE LoaderSound
      OBVIOUS
    <2>1. LoaderTypeOK
      <3>1. ASSUME NEW k \in Keys PROVE library[k] \in 0..Cardinality(Loaders)
        BY HoldersFinite DEF LoaderInv, LibraryInv
      <3> QED BY <3>1 DEF LoaderTypeOK, LoaderInv
    <2>2. FoundWhenThere
      BY DEF FoundWhenThere, LoaderInv, SeekerInv, Seekers
    <2>3. LibrariesBalance
      BY DEF LibrariesBalance, LoaderInv, LibraryInv, Loading, Loads
    <2> QED BY <2>1, <2>2, <2>3 DEF LoaderSound
  <1> QED BY <1>1, <1>2, LoaderStart, PTL DEF LoaderSpec
=============================================================================
