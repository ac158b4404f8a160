--------------------------- MODULE GeneratorProofs ---------------------------
(***************************************************************************)
(* Proofs about uniorm-gen: a header that was written describes its own     *)
(* tables, compiles, validates and heeds every override (HeadersFit).       *)
(***************************************************************************)
EXTENDS SchemaGenerator, FiniteSetTheorems, WellFoundedInduction, TLAPS

-----------------------------------------------------------------------------
(* Names and the rows a table reference selects *)

\* A name that fits the reader's buffer is read as it is (schema_catalog.cpp
\* char_buffer::str()).
LEMMA FitsAsRead ==
  ASSUME NEW name, Fits(name)
  PROVE  str(name) = name
  BY DEF Fits, str

LEMMA FoldedStems ==
  ASSUME NEW a \in Names, NEW b \in Names
  PROVE  fold_equal(a, b) <=> a.stem = b.stem
  BY DEF Names, fold_equal, fold_lower

LEMMA SameName ==
  ASSUME NEW a \in Names, NEW b \in Names, a.stem = b.stem, a.case = b.case
  PROVE  a = b
  BY DEF Names

\* A table's reference as list_tables() reports it.
LEMMA ReportedAsIs ==
  ASSUME NEW db, WellListed(db), NEW t \in db.tables
  PROVE  /\ ReportedTable(t).catalog = t.catalog /\ ReportedTable(t).schema = t.schema
         /\ ReportedTable(t).name = t.name
         /\ t.catalog \in Names /\ t.schema \in Names /\ t.name \in Names
         /\ str(t.catalog) = t.catalog /\ str(t.schema) = t.schema /\ str(t.name) = t.name
  <1>1. Fits(t.catalog) /\ Fits(t.schema) /\ Fits(t.name)
    BY DEF WellListed
  <1>2. str(t.catalog) = t.catalog /\ str(t.schema) = t.schema /\ str(t.name) = t.name
    BY <1>1, FitsAsRead
  <1>3. t.catalog \in Names /\ t.schema \in Names /\ t.name \in Names
    BY <1>1 DEF Fits
  <1> QED BY <1>2, <1>3 DEF ReportedTable

LEMMA ReportedOnce ==
  ASSUME NEW db, WellListed(db), NEW t \in db.tables, NEW u \in db.tables,
         ReportedTable(u) = ReportedTable(t)
  PROVE  u = t
  <1>1. u.catalog = t.catalog /\ u.schema = t.schema /\ u.name = t.name
    BY ReportedAsIs
  <1>2. exact_catalog_table_matches(u, t)
    BY <1>1 DEF exact_catalog_table_matches, exact_catalog_namespace_matches
  <1> QED BY <1>2 DEF WellListed

\* What is read for a table is read of that table and no other
\* (schema_catalog.cpp asked_as(), catalog_name_matches()).
LEMMA AsksForItself ==
  ASSUME WellListed(md), NEW t \in md.tables, Alone(ReportedTable(t))
  PROVE  TablesAsked(md, ReportedTable(t), FALSE) = {t}
  <1> DEFINE ref == ReportedTable(t)
  <1>1. /\ ref.catalog = t.catalog /\ ref.schema = t.schema /\ ref.name = t.name
        /\ t.catalog \in Names /\ t.schema \in Names /\ t.name \in Names
        /\ str(t.catalog) = t.catalog /\ str(t.schema) = t.schema /\ str(t.name) = t.name
    BY ReportedAsIs
  <1> HIDE DEF ref
  <1>2. t \in TablesAsked(md, ref, FALSE)
    <2>1. asked_as(ref, t)
      BY <1>1 DEF asked_as, catalog_name_matches, fold_equal
    <2>2. \A n : n.stem \in Wildcards(n.stem)
      BY DEF Wildcards
    <2>3. t \in TablesDescribed(md, ref, FALSE)
      BY <1>1, <2>2 DEF TablesDescribed, Selects
    <2> QED BY <2>1, <2>3, Zenon DEF TablesAsked
  <1>3. ASSUME NEW u \in TablesAsked(md, ref, FALSE) PROVE u = t
    <2>1. /\ u \in md.tables /\ asked_as(ref, u)
          /\ Selects(md, ref.catalog, TRUE, u.catalog) /\ Selects(md, ref.schema, FALSE, u.schema)
          /\ Selects(md, ref.name, FALSE, u.name)
      BY Zenon DEF TablesAsked, TablesDescribed
    <2>2. /\ ReportedTable(u).catalog = u.catalog /\ ReportedTable(u).schema = u.schema
          /\ ReportedTable(u).name = u.name
          /\ u.catalog \in Names /\ u.schema \in Names /\ u.name \in Names
          /\ str(u.catalog) = u.catalog /\ str(u.schema) = u.schema /\ str(u.name) = u.name
      BY <2>1, ReportedAsIs
    <2>3. t.name # NoName /\ u.name # NoName
      BY <2>1 DEF WellListed, Given, NoName
    <2>4. fold_equal(t.name, u.name)
      BY <1>1, <2>1, <2>2, <2>3 DEF asked_as, catalog_name_matches
    <2>5. CASE ~md.folds
      <3>1. u.name = t.name
        <4>1. t.name.stem = u.name.stem
          BY <1>1, <2>2, <2>4, FoldedStems
        <4>2. t.name.case = u.name.case
          BY <1>1, <2>1, <2>3, <2>5 DEF Selects
        <4> QED BY <1>1, <2>2, <4>1, <4>2, SameName
      <3>2. u.catalog = t.catalog
        <4>1. CASE t.catalog = NoName
          BY <2>1, <4>1 DEF WellListed
        <4>2. CASE t.catalog # NoName
          <5>1. u.catalog.stem = t.catalog.stem /\ u.catalog.case = t.catalog.case
            BY <1>1, <2>1, <2>5, <4>2 DEF Selects
          <5> QED BY <1>1, <2>2, <5>1, SameName
        <4> QED BY <4>1, <4>2
      <3>3. u.schema = t.schema
        <4>1. CASE t.schema = NoName
          BY <2>1, <4>1 DEF WellListed
        <4>2. CASE t.schema # NoName
          <5>1. u.schema # NoName
            BY <2>1, <4>2 DEF WellListed
          <5>2. fold_equal(t.schema, u.schema)
            BY <1>1, <2>1, <2>2, <4>2, <5>1 DEF asked_as, catalog_name_matches
          <5>3. t.schema.stem = u.schema.stem
            BY <1>1, <2>2, <5>2, FoldedStems
          <5>4. u.schema.case = t.schema.case
            BY <1>1, <2>1, <2>5, <4>2 DEF Selects
          <5> QED BY <1>1, <2>2, <5>3, <5>4, SameName
        <4> QED BY <4>1, <4>2
      <3> QED BY <2>1, <3>1, <3>2, <3>3
              DEF WellListed, exact_catalog_table_matches, exact_catalog_namespace_matches
    <2>6. CASE md.folds
      <3>1. fold_equal(u.name, ref.name)
        BY <1>1, <2>4 DEF fold_equal
      <3>2. ReportedTable(u) = ReportedTable(t)
        BY <2>1, <2>6, <3>1 DEF Alone, ref
      <3> QED BY <2>1, <3>2, ReportedOnce
    <2>7. md.folds \in BOOLEAN
      BY DEF WellListed
    <2> QED BY <2>5, <2>6, <2>7
  <1> QED BY <1>2, <1>3, Zenon DEF ref
-----------------------------------------------------------------------------
(* The rows of tables, one after the other *)

\* A set of natural numbers that is not empty has a least one.
LEMMA LeastOf ==
  ASSUME NEW T \in SUBSET Nat, T # {}
  PROVE  \E x \in T : \A y \in T : x <= y
  <1>1. PICK x \in T : \A y \in T : ~(<<y, x>> \in OpToRel(<, Nat))
    BY NatLessThanWellFounded, WFMin, Zenon
  <1>2. \A y \in T : x <= y
    <2> SUFFICES ASSUME NEW y \in T, y < x PROVE FALSE
      OBVIOUS
    <2>1. <<y, x>> \in Nat \X Nat /\ <<y, x>>[1] < <<y, x>>[2]
      OBVIOUS
    <2>2. <<y, x>> \in OpToRel(<, Nat)
      BY <2>1, Zenon DEF OpToRel
    <2> QED BY <1>1, <2>2, Zenon
  <1> QED BY <1>2

LEMMA ListOfFinite ==
  ASSUME NEW S, IsFiniteSet(S)
  PROVE  Cardinality(S) \in Nat /\ SetToSeq(S) \in [1..Cardinality(S) -> S]
  <1>1. PICK n \in Nat : ExistsBijection(1..n, S)
    BY FS_NatBijection
  <1>2. Cardinality(S) = n
    BY <1>1, FS_CountingElements
  <1>3. PICK f \in Bijection(1..n, S) : TRUE
    BY <1>1 DEF ExistsBijection
  <1>4. f \in [1..n -> S] /\ IsInjective(f)
    BY <1>3 DEF Bijection, Injection, IsInjective
  <1> QED BY <1>2, <1>4, Zenon DEF SetToSeq

\* `f` holds the first elements of `seqs`, joined.
Joins(f, seqs, n) ==
  /\ DOMAIN f = 1..n
  /\ \A i \in 1..n : f[i] = IF i = 1 THEN seqs[i] ELSE f[i - 1] \o seqs[i]
Joined(f, seqs, n) == Joins(f, seqs, n) /\ f = [i \in 1..n |-> f[i]]

LEMMA JoinsExist ==
  ASSUME NEW seqs, NEW n \in Nat
  PROVE  \E f : Joined(f, seqs, n)
  <1> DEFINE T == {k \in 0..n : ~\E f : Joined(f, seqs, k)}
  <1> SUFFICES ASSUME T # {} PROVE FALSE
    <2>1. n \in 0..n
      OBVIOUS
    <2> QED BY <2>1, Zenon
  <1>1. T \in SUBSET Nat
    OBVIOUS
  <1>2. PICK k \in T : \A y \in T : k <= y
    BY <1>1, LeastOf, Zenon
  <1>3. k \in 0..n /\ ~\E f : Joined(f, seqs, k)
    OBVIOUS
  <1>4. k # 0
    <2>1. Joined([i \in 1..0 |-> 0], seqs, 0)
      BY DEF Joined, Joins
    <2> QED BY <1>3, <2>1
  <1>5. PICK f : Joined(f, seqs, k - 1)
    <2>1. k - 1 \in 0..n /\ ~(k <= k - 1)
      BY <1>3, <1>4
    <2> QED BY <1>2, <2>1, Zenon
  <1> HIDE DEF T
  <1> DEFINE last == IF k = 1 THEN seqs[k] ELSE f[k - 1] \o seqs[k]
             g == [i \in 1..k |-> IF i = k THEN last ELSE f[i]]
  <1>6. ASSUME NEW i \in 1..k PROVE g[i] = IF i = 1 THEN seqs[i] ELSE g[i - 1] \o seqs[i]
    <2>1. CASE i = k
      <3>1. g[i] = last
        BY <2>1
      <3>2. i # 1 => g[i - 1] = f[i - 1]
        BY <1>3, <1>4, <2>1
      <3> QED BY <2>1, <3>1, <3>2, Zenon
    <2>2. CASE i # k
      <3>1. g[i] = f[i] /\ i \in 1..(k - 1)
        BY <1>3, <2>2
      <3>2. i # 1 => g[i - 1] = f[i - 1]
        BY <1>3, <2>2
      <3>3. f[i] = IF i = 1 THEN seqs[i] ELSE f[i - 1] \o seqs[i]
        BY <1>5, <3>1, Zenon DEF Joined, Joins
      <3> QED BY <3>1, <3>2, <3>3, Zenon
    <2> QED BY <2>1, <2>2
  <1>7. DOMAIN g = 1..k /\ g = [i \in 1..k |-> g[i]]
    BY Zenon
  <1> HIDE DEF g
  <1>8. Joined(g, seqs, k)
    BY <1>6, <1>7, Zenon DEF Joined, Joins
  <1> QED BY <1>3, <1>8

\* FlattenSeq() joins its arguments.
LEMMA FlattenJoins ==
  ASSUME NEW seqs, Len(seqs) \in Nat \ {0}
  PROVE  \E f : Joins(f, seqs, Len(seqs)) /\ FlattenSeq(seqs) = f[Len(seqs)]
  <1> DEFINE n == Len(seqs)
             Is(f) == f = [i \in 1..n |-> IF i = 1 THEN seqs[i] ELSE f[i - 1] \o seqs[i]]
             h == CHOOSE f : Is(f)
  <1>1. FlattenSeq(seqs) = h[n]
    <2>1. n # 0
      OBVIOUS
    <2> QED BY <2>1, Zenon DEF FlattenSeq
  <1>2. n \in Nat
    OBVIOUS
  <1> HIDE DEF n
  <1>3. PICK f : Joined(f, seqs, n)
    BY <1>2, JoinsExist, Zenon
  <1>4. Is(f)
    BY <1>3, Zenon DEF Joined, Joins
  <1>5. Is(h)
    BY <1>4, Zenon
  <1> HIDE DEF h
  <1>6. Joins(h, seqs, n)
    BY <1>5, Zenon DEF Joins
  <1> QED BY <1>1, <1>6, Zenon DEF n

LEMMA FlattenIsSeq ==
  ASSUME NEW S, NEW n \in Nat, NEW seqs \in [1..n -> Seq(S)]
  PROVE  FlattenSeq(seqs) \in Seq(S)
  <1>1. Len(seqs) = n
    OBVIOUS
  <1>2. CASE n = 0
    <2>1. seqs \in Seq(S)
      BY <1>2
    <2>2. FlattenSeq(seqs) = seqs
      BY <1>1, <1>2, Zenon DEF FlattenSeq
    <2> QED BY <2>1, <2>2, Zenon
  <1>3. CASE n # 0
    <2>1. Len(seqs) \in Nat \ {0}
      BY <1>1, <1>3
    <2>2. PICK f : Joins(f, seqs, n) /\ FlattenSeq(seqs) = f[n]
      BY <1>1, <2>1, FlattenJoins, Zenon
    <2> DEFINE T == {k \in 1..n : f[k] \notin Seq(S)}
    <2>3. T = {}
      <3> SUFFICES ASSUME T # {} PROVE FALSE
        BY Zenon
      <3>1. T \in SUBSET Nat
        OBVIOUS
      <3>2. PICK k \in T : \A y \in T : k <= y
        BY <3>1, LeastOf, Zenon
      <3>3. k \in 1..n /\ f[k] \notin Seq(S) /\ seqs[k] \in Seq(S)
        OBVIOUS
      <3>4. f[k] = IF k = 1 THEN seqs[k] ELSE f[k - 1] \o seqs[k]
        BY <2>2, <3>3, Zenon DEF Joins
      <3>5. k # 1
        BY <3>3, <3>4, Zenon
      <3>6. k - 1 \in 1..n /\ ~(k <= k - 1)
        BY <3>3, <3>5
      <3>7. f[k - 1] \in Seq(S)
        BY <3>2, <3>6, Zenon
      <3> HIDE DEF T
      <3>8. f[k] = f[k - 1] \o seqs[k]
        BY <3>4, <3>5, Zenon
      <3>9. \A a, b \in Seq(S) : a \o b \in Seq(S)
        OBVIOUS
      <3> QED BY <3>3, <3>7, <3>8, <3>9, Zenon
    <2>4. n \in 1..n
      BY <1>3
    <2> QED BY <2>2, <2>3, <2>4, Zenon
  <1> QED BY <1>2, <1>3, Zenon

\* What is read for any tables of a catalog is a sequence of rows.
LEMMA RowsAreSeq ==
  ASSUME WellListed(md), NEW T \in SUBSET md.tables
  PROVE  RowsOf(T) \in Seq(CatalogRows)
  <1> DEFINE n == Cardinality(T)
             list == SetToSeq(T)
             rows == [i \in DOMAIN list |-> list[i].columns]
  <1>1. IsFiniteSet(T) /\ \A t \in T : t.columns \in Seq(CatalogRows)
    BY FS_Subset DEF WellListed
  <1>2. n \in Nat /\ list \in [1..n -> T]
    BY <1>1, ListOfFinite, Zenon
  <1>3. RowsOf(T) = FlattenSeq(rows)
    BY Zenon DEF RowsOf
  <1> HIDE DEF n, list
  <1>4. rows \in [1..n -> Seq(CatalogRows)]
    BY <1>1, <1>2
  <1> HIDE DEF rows
  <1> QED BY <1>2, <1>3, <1>4, FlattenIsSeq, Zenon

LEMMA RowsOfOne ==
  ASSUME NEW S, NEW t, t.columns \in Seq(S)
  PROVE  RowsOf({t}) = t.columns
  <1> DEFINE list == SetToSeq({t})
             rows == [i \in DOMAIN list |-> list[i].columns]
  <1>1. IsFiniteSet({t}) /\ Cardinality({t}) = 1
    BY FS_Singleton, Zenon
  <1>2. list \in [1..1 -> {t}]
    BY <1>1, ListOfFinite, Zenon
  <1>3. RowsOf({t}) = FlattenSeq(rows)
    BY Zenon DEF RowsOf
  <1> HIDE DEF list
  <1>4. rows \in [1..1 -> Seq(S)] /\ rows[1] = t.columns
    BY <1>2
  <1> HIDE DEF rows
  <1>5. Len(rows) = 1
    BY <1>4
  <1>6. PICK f : Joins(f, rows, 1) /\ FlattenSeq(rows) = f[1]
    <2>1. 1 \in Nat \ {0}
      OBVIOUS
    <2> QED BY <1>5, <2>1, FlattenJoins, Zenon
  <1>7. f[1] = rows[1]
    <2>1. 1 \in 1..1
      OBVIOUS
    <2> QED BY <1>6, <2>1, Zenon DEF Joins
  <1> QED BY <1>3, <1>4, <1>6, <1>7, Zenon
-----------------------------------------------------------------------------
(* Member names *)

\* `f` names the first `n` members of a struct, each with the earlier ones in use.
Named(f, columns, n) ==
  f = [i \in 1..n |-> MemberName(columns, i, {f[j] : j \in 1..i - 1})]

LEMMA NamesExist ==
  ASSUME NEW columns, NEW n \in Nat
  PROVE  \E f : Named(f, columns, n)
  <1> DEFINE T == {k \in 0..n : ~\E f : Named(f, columns, k)}
  <1> SUFFICES ASSUME T # {} PROVE FALSE
    <2>1. n \in 0..n
      OBVIOUS
    <2> QED BY <2>1, Zenon
  <1>1. T \in SUBSET Nat
    OBVIOUS
  <1>2. PICK k \in T : \A y \in T : k <= y
    BY <1>1, LeastOf, Zenon
  <1>3. k \in 0..n /\ ~\E f : Named(f, columns, k)
    OBVIOUS
  <1>4. k # 0
    <2>1. 1..0 = {}
      OBVIOUS
    <2>2. Named([i \in 1..0 |-> 0], columns, 0)
      BY <2>1 DEF Named
    <2> QED BY <1>3, <2>2, Zenon
  <1>5. PICK f : Named(f, columns, k - 1)
    <2>1. k - 1 \in 0..n /\ ~(k <= k - 1)
      BY <1>3, <1>4
    <2> QED BY <1>2, <2>1, Zenon
  <1> HIDE DEF T
  <1> DEFINE g == [i \in 1..k |-> MemberName(columns, i, {f[j] : j \in 1..i - 1})]
  <1>6. ASSUME NEW i \in 1..k PROVE {g[j] : j \in 1..i - 1} = {f[j] : j \in 1..i - 1}
    <2>1. ASSUME NEW j \in 1..i - 1 PROVE g[j] = f[j]
      <3>1. j \in 1..k /\ j \in 1..k - 1
        BY <1>3
      <3>2. f[j] = MemberName(columns, j, {f[l] : l \in 1..j - 1})
        BY <1>5, <3>1, Zenon DEF Named
      <3>3. g[j] = MemberName(columns, j, {f[l] : l \in 1..j - 1})
        BY <3>1, Zenon
      <3> QED BY <3>2, <3>3, Zenon
    <2> HIDE DEF g
    <2> QED BY <2>1, Zenon
  <1>7. g = [i \in 1..k |-> MemberName(columns, i, {g[j] : j \in 1..i - 1})]
    <2>1. \A i \in 1..k : MemberName(columns, i, {g[j] : j \in 1..i - 1})
                          = MemberName(columns, i, {f[j] : j \in 1..i - 1})
      <3> HIDE DEF g
      <3> QED BY <1>6, Zenon
    <2> QED BY <2>1, Zenon
  <1> HIDE DEF g
  <1>8. Named(g, columns, k)
    BY <1>7, Zenon DEF Named
  <1> QED BY <1>3, <1>8, Zenon

LEMMA MembersNamed ==
  ASSUME NEW columns, Len(columns) \in Nat
  PROVE  Named(MemberNames(columns), columns, Len(columns))
  <1> DEFINE n == Len(columns)
             Is(f) == f = [i \in 1..n |-> MemberName(columns, i, {f[j] : j \in 1..i - 1})]
             h == CHOOSE f : Is(f)
  <1>1. MemberNames(columns) = h
    BY Zenon DEF MemberNames
  <1>2. n \in Nat
    OBVIOUS
  <1> HIDE DEF n
  <1>3. PICK f : Named(f, columns, n)
    BY <1>2, NamesExist, Zenon
  <1>4. Is(f)
    BY <1>3, Zenon DEF Named
  <1>5. Is(h)
    BY <1>4, Zenon
  <1> HIDE DEF h
  <1> QED BY <1>1, <1>5, Zenon DEF Named, n

\* A renamed member meets no other one, where no column's own name ends in a
\* number (generator.cpp:255-262).
LEMMA MembersApart ==
  ASSUME NEW columns, Len(columns) \in Nat,
         \A i \in 1..Len(columns) : to_camel_case(columns[i].name).number = <<>>,
         NEW i \in 1..Len(columns), NEW j \in 1..Len(columns), j < i
  PROVE  MemberNames(columns)[j] # MemberNames(columns)[i]
  <1> DEFINE f == MemberNames(columns)
             Plain(k) == to_camel_case(columns[k].name)
             Used(k) == {f[l] : l \in 1..k - 1}
  <1>1. \A k \in 1..Len(columns) : f[k] = MemberName(columns, k, Used(k))
    BY MembersNamed, Zenon DEF Named
  <1> HIDE DEF f
  <1>2. f[j] \in Used(i)
    BY DEF f
  <1>3. ASSUME NEW k \in 1..Len(columns)
        PROVE  \/ f[k] = Plain(k) /\ f[k] \notin Used(k) /\ f[k].number = <<>>
               \/ f[k].number = <<k - 1>>
    <2>1. CASE Plain(k) \notin Used(k)
      BY <1>1, <2>1, Zenon DEF MemberName
    <2>2. CASE Plain(k) \in Used(k)
      <3>1. f[k] = [Plain(k) EXCEPT !.number = Append(@, k - 1)]
        BY <1>1, <2>2, Zenon DEF MemberName
      <3>2. "number" \in DOMAIN Plain(k) /\ Plain(k).number = <<>>
        BY DEF to_camel_case
      <3>3. Append(<<>>, k - 1) = <<k - 1>>
        OBVIOUS
      <3> HIDE DEF Plain, Used
      <3> QED BY <3>1, <3>2, <3>3
    <2> QED BY <2>1, <2>2
  <1> HIDE DEF Plain
  <1>4. CASE f[i] \notin Used(i)
    BY <1>2, <1>4, Zenon DEF f
  <1>5. CASE f[i].number = <<i - 1>>
    <2>1. f[j].number = <<>> \/ f[j].number = <<j - 1>>
      BY <1>3
    <2>2. <<i - 1>> # <<>> /\ <<i - 1>> # <<j - 1>>
      <3>1. Len(<<i - 1>>) = 1 /\ Len(<<>>) = 0 /\ <<i - 1>>[1] = i - 1 /\ <<j - 1>>[1] = j - 1
        OBVIOUS
      <3> QED BY <3>1
    <2> QED BY <1>5, <2>1, <2>2, Zenon DEF f
  <1> QED BY <1>3, <1>4, <1>5, Zenon
-----------------------------------------------------------------------------
(* Types and overrides *)

\* The default type of a column binds the type the database has
\* (generator.cpp default_cpp_type(), registry.hpp accepted_sql_types()).
LEMMA DefaultsBind ==
  ASSUME NEW code
  PROVE  LET type == sql_type_from_native(code)
         IN type = "other" \/ type \in accepted_sql_types(default_cpp_type(type))
  <1> DEFINE type == sql_type_from_native(code)
  <1>1. type \in {"boolean", "smallint", "integer", "bigint", "real", "double_precision", "decimal",
                  "character", "varchar", "longvarchar", "wchar", "wvarchar", "binary", "varbinary",
                  "date", "time", "timestamp", "guid", "other"}
    BY DEF sql_type_from_native
  <1> SUFFICES type = "other" \/ type \in accepted_sql_types(default_cpp_type(type))
    OBVIOUS
  <1> HIDE DEF type
  <1>2. CASE type \in {"boolean", "smallint", "integer", "bigint"}
    <2>1. /\ default_cpp_type("boolean") = "bool" /\ default_cpp_type("smallint") = "int16"
          /\ default_cpp_type("integer") = "int32" /\ default_cpp_type("bigint") = "int64"
      BY DEF default_cpp_type
    <2>2. /\ accepted_sql_types("bool") = {"boolean"} /\ accepted_sql_types("int16") = {"smallint"}
          /\ accepted_sql_types("int32") = {"integer"} /\ accepted_sql_types("int64") = {"bigint"}
      BY DEF accepted_sql_types
    <2> QED BY <1>2, <2>1, <2>2
  <1>3. CASE type \in {"real", "double_precision"}
    <2>1. default_cpp_type(type) = "double"
      BY <1>3 DEF default_cpp_type
    <2>2. accepted_sql_types("double") = {"real", "double_precision", "decimal"}
      BY DEF accepted_sql_types
    <2> QED BY <1>3, <2>1, <2>2
  <1>4. CASE type \in {"binary", "varbinary"}
    <2>1. default_cpp_type(type) = "bytes"
      BY <1>4 DEF default_cpp_type
    <2>2. accepted_sql_types("bytes") = {"binary", "varbinary"}
      BY DEF accepted_sql_types
    <2> QED BY <1>4, <2>1, <2>2
  <1>5. CASE type \in {"date", "time", "timestamp"}
    <2>1. default_cpp_type(type) = "timestamp"
      BY <1>5 DEF default_cpp_type
    <2>2. accepted_sql_types("timestamp") = {"date", "time", "timestamp"}
      BY DEF accepted_sql_types
    <2> QED BY <1>5, <2>1, <2>2
  <1>6. CASE type \in {"decimal", "character", "varchar", "longvarchar", "wchar", "wvarchar", "guid"}
    <2>1. default_cpp_type(type) = "string"
      BY <1>6 DEF default_cpp_type
    <2>2. accepted_sql_types("string")
            = {"character", "varchar", "longvarchar", "wchar", "wvarchar", "guid", "decimal"}
      BY DEF accepted_sql_types
    <2> QED BY <1>6, <2>1, <2>2
  <1> QED BY <1>1, <1>2, <1>3, <1>4, <1>5, <1>6

\* A column section that is kept sets a type or a converter.
ColumnKept(column) ==
  /\ DOMAIN column = {"cpp_type", "converter"}
  /\ column.cpp_type # NoValue \/ column.converter # NoValue
TableKept(table) ==
  /\ DOMAIN table = {"class", "skip", "columns"}
  /\ \A c \in DOMAIN table.columns : ColumnKept(table.columns[c])
ConfigKept(cfg) ==
  /\ DOMAIN cfg = {"types", "tables"}
  /\ \A t \in DOMAIN cfg.tables : TableKept(cfg.tables[t])

LEMMA PutKeeps ==
  ASSUME NEW map, NEW key, NEW entry, NEW k \in DOMAIN Put(map, key, entry)
  PROVE  \/ Put(map, key, entry)[k] = entry
         \/ k \in DOMAIN map /\ Put(map, key, entry)[k] = map[k]
  BY DEF Put

LEMMA TableIsKept ==
  ASSUME NEW cfg, ConfigKept(cfg), NEW t, NEW table, TableKept(table)
  PROVE  ConfigKept([cfg EXCEPT !.tables = Put(@, t, table)])
  <1> DEFINE new == [cfg EXCEPT !.tables = Put(@, t, table)]
             map == Put(cfg.tables, t, table)
  <1>1. DOMAIN new = {"types", "tables"} /\ new.tables = map
    BY DEF ConfigKept
  <1>2. \A k \in DOMAIN map : TableKept(map[k])
    <2> SUFFICES ASSUME NEW k \in DOMAIN map PROVE TableKept(map[k])
      OBVIOUS
    <2>1. map[k] = table \/ (k \in DOMAIN cfg.tables /\ map[k] = cfg.tables[k])
      BY PutKeeps
    <2> HIDE DEF map
    <2> QED BY <2>1, Zenon DEF ConfigKept
  <1> HIDE DEF new, map
  <1> QED BY <1>1, <1>2, Zenon DEF ConfigKept, new

\* A setting that is taken is kept as an override that says something
\* (config.cpp apply_setting()).
LEMMA SettingKept ==
  ASSUME NEW cfg, ConfigKept(cfg), NEW where, NEW line, Applies(where, line),
         line.kind = "text" => line.value # NoValue
  PROVE  ConfigKept(apply_setting(cfg, where, line))
  <1> DEFINE t == fold_lower(where.table)
             c == fold_lower(where.column)
             table == Entry(cfg.tables, t, NoTable)
             column == Entry(table.columns, c, NoColumn)
             new == [column EXCEPT ![line.key] = line.value]
  <1>1. TableKept(table)
    <2>1. TableKept(NoTable)
      BY DEF TableKept, NoTable
    <2> QED BY <2>1, Zenon DEF Entry, ConfigKept
  <1>2. CASE where.kind = "types"
    <2>1. apply_setting(cfg, where, line) = [cfg EXCEPT !.types = Put(@, line.key, line.value)]
      BY <1>2 DEF apply_setting
    <2>2. [cfg EXCEPT !.types = Put(@, line.key, line.value)].tables = cfg.tables
      BY DEF ConfigKept
    <2>3. DOMAIN [cfg EXCEPT !.types = Put(@, line.key, line.value)] = DOMAIN cfg
      OBVIOUS
    <2> QED BY <2>1, <2>2, <2>3, Zenon DEF ConfigKept
  <1>3. CASE where.kind = "table"
    <2>1. apply_setting(cfg, where, line)
            = [cfg EXCEPT !.tables = Put(@, t, [table EXCEPT ![line.key] = line.value])]
      BY <1>3 DEF apply_setting
    <2>2. line.key \in {"class", "skip"}
      BY <1>3 DEF Applies
    <2> HIDE DEF t, table
    <2>3. TableKept([table EXCEPT ![line.key] = line.value])
      BY <1>1, <2>2 DEF TableKept
    <2> QED BY <2>1, <2>3, TableIsKept
  <1>4. CASE where.kind = "column"
    <2>1. apply_setting(cfg, where, line)
            = [cfg EXCEPT !.tables = Put(@, t, [table EXCEPT !.columns = Put(@, c, new)])]
      BY <1>4 DEF apply_setting
    <2>2. line.key \in {"cpp_type", "converter"} /\ line.value # NoValue
      BY <1>4 DEF Applies
    <2>3. DOMAIN column = {"cpp_type", "converter"}
      BY <1>1 DEF TableKept, ColumnKept, Entry, NoColumn
    <2> HIDE DEF column
    <2>4. ColumnKept(new)
      BY <2>2, <2>3 DEF ColumnKept
    <2> HIDE DEF new, t, c, table
    <2> DEFINE put == [table EXCEPT !.columns = Put(@, c, new)]
    <2>5. DOMAIN put = {"class", "skip", "columns"} /\ put.columns = Put(table.columns, c, new)
      BY <1>1 DEF TableKept
    <2>6. \A k \in DOMAIN Put(table.columns, c, new) : ColumnKept(Put(table.columns, c, new)[k])
      <3> SUFFICES ASSUME NEW k \in DOMAIN Put(table.columns, c, new)
                   PROVE  ColumnKept(Put(table.columns, c, new)[k])
        OBVIOUS
      <3>1. \/ Put(table.columns, c, new)[k] = new
            \/ k \in DOMAIN table.columns /\ Put(table.columns, c, new)[k] = table.columns[k]
        BY PutKeeps
      <3> QED BY <1>1, <2>4, <3>1, Zenon DEF TableKept
    <2> HIDE DEF put
    <2>7. TableKept(put)
      BY <2>5, <2>6, Zenon DEF TableKept
    <2> QED BY <2>1, <2>7, TableIsKept DEF put
  <1>5. where.kind \in {"types", "table", "column"}
    BY DEF Applies
  <1> QED BY <1>2, <1>3, <1>4, <1>5
-----------------------------------------------------------------------------
(* The schema model and the structs made of it *)

\* list_tables() answers with tables of the catalog.
LEMMA ListedAreTables ==
  ASSUME NEW ref \in Listed
  PROVE  \E t \in md.tables : ref = ReportedTable(t)
  BY Zenon DEF Listed, read_tables, Answer, TablesAnswered

LEMMA ModelColumns ==
  ASSUME WellListed(md), NEW ref, NEW table, table = TableModel(ref)
  PROVE  /\ table.ref = ref
         /\ Len(table.columns) \in Nat /\ DOMAIN table.columns = 1..Len(table.columns)
  <1> DEFINE rows == ColumnRows(md, ref, FALSE)
  <1>1. TablesAsked(md, ref, FALSE) \in SUBSET md.tables
    BY Zenon DEF TablesAsked, TablesDescribed
  <1>2. rows \in Seq(CatalogRows)
    BY <1>1, RowsAreSeq, Zenon DEF ColumnRows
  <1>3. table.ref = ref /\ table.columns = [i \in DOMAIN rows |-> [rows[i] EXCEPT !.name = str(@)]]
    BY Zenon DEF TableModel, read_columns
  <1> HIDE DEF rows
  <1>4. Len(rows) \in Nat /\ DOMAIN rows = 1..Len(rows)
    BY <1>2
  <1>5. table.columns \in [1..Len(rows) -> {[rows[i] EXCEPT !.name = str(@)] : i \in DOMAIN rows}]
    BY <1>3, <1>4
  <1> QED BY <1>3, <1>4, <1>5

\* A table model with a table's own columns and references; `keys` are the names
\* of its key columns.
IsOf(table, t, keys) ==
  /\ Source(table.ref) = t
  /\ Len(t.columns) \in Nat /\ Len(table.columns) = Len(t.columns)
  /\ \A i \in 1..Len(t.columns) :
         /\ table.columns[i].name = str(t.columns[i].name)
         /\ table.columns[i].nullable = t.columns[i].nullable
         /\ table.columns[i].type_name = t.columns[i].type_name
         /\ table.key[i] = (table.columns[i].name \in keys)
  /\ table.unmatched = keys \ {table.columns[i].name : i \in DOMAIN table.columns}
  /\ table.references = Range(t.references)

\* The model of a table that is alone has that table's columns, keys and
\* references (schema_reader.cpp:66-133).
LEMMA TableRead ==
  ASSUME WellListed(md), NEW t \in md.tables, Alone(ReportedTable(t)),
         NEW table, table = TableModel(ReportedTable(t)),
         NEW keys, keys = {str(key) : key \in Range(t.keys)}
  PROVE  IsOf(table, t, keys)
  <1> DEFINE ref == ReportedTable(t)
             read == [i \in DOMAIN t.columns |-> [t.columns[i] EXCEPT !.name = str(@)]]
  <1>1. TablesAsked(md, ref, FALSE) = {t}
    BY AsksForItself, Zenon
  <1>2. t.columns \in Seq(CatalogRows)
    BY DEF WellListed
  <1>3. ColumnRows(md, ref, FALSE) = t.columns
    BY <1>1, <1>2, RowsOfOne, Zenon DEF ColumnRows
  <1>4. Described(md, ref) = {t}
    BY <1>1, Zenon DEF Described, TablesAsked
  <1>5. primary_key(md, ref) = keys /\ foreign_keys(md, ref) = Range(t.references)
    BY <1>4 DEF primary_key, foreign_keys
  <1>6. read_columns(ref) = read
    BY <1>3, Zenon DEF read_columns
  <1> HIDE DEF ref, read
  <1>7. /\ table.ref = ref /\ table.columns = read
        /\ table.key = [i \in DOMAIN read |-> read[i].name \in keys]
        /\ table.unmatched = keys \ {read[i].name : i \in DOMAIN read}
        /\ table.references = Range(t.references)
    <2>1. table = TableModel(ref)
      BY DEF ref
    <2>2. table = [ref |-> ref, columns |-> read,
                   key |-> [i \in DOMAIN read |-> read[i].name \in keys],
                   unmatched |-> keys \ {read[i].name : i \in DOMAIN read},
                   references |-> Range(t.references), indexes |-> indexes(md, ref)]
      BY <1>5, <1>6, <2>1, Zenon DEF TableModel, read_primary_keys
    <2> QED BY <2>2
  <1>8. Source(table.ref) = t
    <2>1. \A u \in md.tables : ReportedTable(u) = ref => u = t
      BY ReportedOnce, Zenon DEF ref
    <2>2. ReportedTable(t) = ref
      BY Zenon DEF ref
    <2> QED BY <1>7, <2>1, <2>2, Zenon DEF Source
  <1>9. Len(t.columns) \in Nat /\ DOMAIN t.columns = 1..Len(t.columns) /\ Len(read) = Len(t.columns)
        /\ DOMAIN read = 1..Len(t.columns)
    <2>1. Len(t.columns) \in Nat /\ DOMAIN t.columns = 1..Len(t.columns)
      BY <1>2
    <2>2. read \in [1..Len(t.columns) -> {[t.columns[i] EXCEPT !.name = str(@)] : i \in DOMAIN t.columns}]
      BY <2>1 DEF read
    <2> QED BY <2>1, <2>2
  <1>10. ASSUME NEW i \in 1..Len(t.columns)
         PROVE  /\ read[i].name = str(t.columns[i].name) /\ read[i].nullable = t.columns[i].nullable
                /\ read[i].type_name = t.columns[i].type_name
    <2>1. t.columns[i] \in CatalogRows
      BY <1>2
    <2>2. DOMAIN t.columns[i] = {"name", "type_name", "sized", "nullable"}
      BY <2>1 DEF CatalogRows
    <2>3. read[i] = [t.columns[i] EXCEPT !.name = str(@)]
      BY <1>9, Zenon DEF read
    <2> QED BY <2>2, <2>3
  <1>11. \A i \in 1..Len(t.columns) : table.key[i] = (read[i].name \in keys)
    BY <1>7, <1>9, Zenon
  <1>12. table.unmatched = keys \ {table.columns[i].name : i \in DOMAIN table.columns}
    <2>1. table.columns = read /\ table.unmatched = keys \ {read[i].name : i \in DOMAIN read}
      BY <1>7, Zenon
    <2> QED BY <2>1
  <1>13. \A i \in 1..Len(t.columns) :
                /\ table.columns[i].name = str(t.columns[i].name)
                /\ table.columns[i].nullable = t.columns[i].nullable
                /\ table.columns[i].type_name = t.columns[i].type_name
                /\ table.key[i] = (table.columns[i].name \in keys)
    <2>1. table.columns = read
      BY <1>7, Zenon
    <2> QED BY <1>10, <1>11, <2>1
  <1>14. Len(table.columns) = Len(t.columns)
    BY <1>7, <1>9, Zenon
  <1> QED BY <1>7, <1>8, <1>9, <1>12, <1>13, <1>14, Zenon DEF IsOf

\* Members that are the columns of a table model, in their order.
InOrder(members, table, n) ==
  /\ DOMAIN members = 1..n /\ Len(members) = n
  /\ \A i \in 1..n :
         /\ members[i].column = table.columns[i].name
         /\ members[i].optional = table.columns[i].nullable
         /\ members[i].key = table.key[i]
         /\ members[i].member = MemberNames(table.columns)[i]
         /\ members[i].cpp = MemberType(table.ref.name, table.columns[i]).cpp

\* emit_table() writes a member for each column (generator.cpp:225-266).
LEMMA MembersOf ==
  ASSUME NEW table, NEW n \in Nat, DOMAIN table.columns = 1..n,
         NEW members, members = emit_table(table).members
  PROVE  InOrder(members, table, n)
  <1>1. members = [i \in 1..n |-> Member(table, i)]
    BY Zenon DEF emit_table, build_members
  <1>2. members \in [1..n -> {Member(table, i) : i \in 1..n}]
    BY <1>1
  <1>3. ASSUME NEW i \in 1..n
        PROVE  /\ Member(table, i).column = table.columns[i].name
               /\ Member(table, i).optional = table.columns[i].nullable
               /\ Member(table, i).key = table.key[i]
               /\ Member(table, i).member = MemberNames(table.columns)[i]
               /\ Member(table, i).cpp = MemberType(table.ref.name, table.columns[i]).cpp
    BY Zenon DEF Member
  <1>4. \A i \in 1..n : members[i] = Member(table, i)
    BY <1>1, Zenon
  <1>5. DOMAIN members = 1..n /\ Len(members) = n
    BY <1>2
  <1>6. ASSUME NEW i \in 1..n
        PROVE  /\ members[i].column = table.columns[i].name
               /\ members[i].optional = table.columns[i].nullable
               /\ members[i].key = table.key[i]
               /\ members[i].member = MemberNames(table.columns)[i]
               /\ members[i].cpp = MemberType(table.ref.name, table.columns[i]).cpp
    BY <1>3, <1>4
  <1> QED BY <1>5, <1>6, Zenon DEF InOrder
-----------------------------------------------------------------------------
(* The inductive invariant *)

\* The model has the tables of the catalog as they were read, and who reads the
\* warnings hears of every key that was not placed.
ModelRead ==
  /\ \A table \in model : table = TableModel(table.ref) /\ \E t \in md.tables : table.ref = ReportedTable(t)
  /\ \A table \in model : \A key \in table.unmatched : <<table.ref, key>> \in warned

\* What check_config() has seen to.
SectionsFit ==
  \A key \in DOMAIN config.tables :
    /\ \E row \in Listed : fold_lower(row.name) = key
    /\ \A table \in model :
         (/\ fold_lower(table.ref.name) = key
          /\ \A other \in model : fold_lower(other.ref.name) = key => other.ref = table.ref)
         => \A c \in DOMAIN config.tables[key].columns :
              \E i \in DOMAIN table.columns : fold_lower(table.columns[i].name) = c

\* What generate_header() has seen to.
HeaderMade ==
  /\ \A struct \in header : \E table \in model : struct = emit_table(table)
  /\ \A s1, s2 \in header : s1 # s2 => s1.class # s2.class

\* What a run of uniorm-gen has established when it comes to each of its phases.
GenInv ==
  /\ md \in Catalogs /\ ConfigKept(config)
  /\ phase \in {"check", "generate", "written"} => ModelRead
  /\ phase \in {"generate", "written"} => SectionsFit
  /\ phase = "written" => HeaderMade

LEMMA ModelStays ==
  ASSUME md' = md, model' = model, warned' = warned, ModelRead
  PROVE  ModelRead'
  <1>1. \A ref : TableModel(ref)' = TableModel(ref)
    BY DEF TableModel, read_columns
  <1> QED BY <1>1 DEF ModelRead

LEMMA SectionsStay ==
  ASSUME md' = md, model' = model, config' = config, SectionsFit
  PROVE  SectionsFit'
  <1>1. Listed' = Listed
    BY DEF Listed
  <1> QED BY <1>1 DEF SectionsFit

LEMMA StructStays ==
  ASSUME config' = config, NEW table
  PROVE  emit_table(table)' = emit_table(table)
  <1>1. \A name : TableConfig(name)' = TableConfig(name)
    BY DEF TableConfig
  <1>2. \A name, column : ColumnConfig(name, column)' = ColumnConfig(name, column)
    BY <1>1 DEF ColumnConfig
  <1>3. \A row : find_type_override(row)' = find_type_override(row)
    BY DEF find_type_override
  <1>4. \A name, row : MemberType(name, row)' = MemberType(name, row)
    BY <1>2, <1>3, Zenon DEF MemberType
  <1>5. \A i : Member(table, i)' = Member(table, i)
    BY <1>4 DEF Member
  <1>6. build_members(table)' = build_members(table)
    BY <1>5 DEF build_members
  <1>7. emitted_class(table)' = emitted_class(table)
    BY <1>1 DEF emitted_class
  <1> QED BY <1>6, <1>7 DEF emit_table

LEMMA HeaderStays ==
  ASSUME config' = config, model' = model, header' = header, HeaderMade
  PROVE  HeaderMade'
  <1>1. \A table : emit_table(table)' = emit_table(table)
    BY StructStays
  <1> QED BY <1>1 DEF HeaderMade

\* read_schema() reads tables of the catalog (schema_reader.cpp:19-64).
LEMMA AsksForListed ==
  ASSUME \A want \in wanted : Hits(want) # {}
  PROVE  list_tables \subseteq Listed
  <1>1. \A want : Hits(want) \subseteq Listed
    BY DEF Hits
  <1>2. \A want \in wanted : (CHOOSE row \in Hits(want) : TRUE) \in Hits(want)
    OBVIOUS
  <1> QED BY <1>1, <1>2, Zenon DEF list_tables

LEMMA GenInvInit ==
  GenInit => GenInv
  <1> SUFFICES ASSUME GenInit PROVE GenInv
    OBVIOUS
  <1>1. ConfigKept(config)
    BY DEF GenInit, ConfigKept
  <1> QED BY <1>1 DEF GenInit, GenInv

LEMMA ParseKeeps ==
  ASSUME GenInv, NEW line \in Lines, ParseLine(line)
  PROVE  GenInv'
  <1>1. ConfigKept(config')
    <2>1. CASE config' = config
      BY <2>1 DEF GenInv
    <2>2. CASE Applies(section, line) /\ config' = apply_setting(config, section, line)
      <3>1. ConfigKept(config) /\ (line.kind = "text" => line.value # NoValue)
        BY GeneratorAssumption DEF GenInv
      <3> QED BY <2>2, <3>1, SettingKept
    <2> QED BY <2>1, <2>2 DEF ParseLine
  <1>2. phase' \in {"config", "failed"} /\ md' = md
    BY DEF ParseLine
  <1>3. ConfigKept(config)'
    BY <1>1 DEF ConfigKept, TableKept, ColumnKept
  <1> QED BY <1>2, <1>3 DEF GenInv

LEMMA ReadKeeps ==
  ASSUME GenInv, read_schema
  PROVE  GenInv'
  <1>1. md' = md /\ config' = config
    BY DEF read_schema
  <1>2. CASE phase' = "failed"
    BY <1>1, <1>2 DEF GenInv, ConfigKept, TableKept, ColumnKept
  <1>3. CASE phase' # "failed"
    <2>1. /\ phase' = "check" /\ model' = {TableModel(ref) : ref \in list_tables}
          /\ warned' = UNION {{<<table.ref, key>> : key \in table.unmatched} : table \in model'}
          /\ \A want \in wanted : Hits(want) # {}
      BY <1>3 DEF read_schema
    <2>2. \A ref : TableModel(ref)' = TableModel(ref) /\ TableModel(ref).ref = ref
      BY <1>1 DEF TableModel, read_columns
    <2>3. list_tables \subseteq Listed
      BY <2>1, AsksForListed
    <2>4. \A table \in model' : /\ table = TableModel(table.ref)'
                                /\ \E t \in md'.tables : table.ref = ReportedTable(t)
      BY <1>1, <2>1, <2>2, <2>3, ListedAreTables
    <2>5. \A table \in model' : \A key \in table.unmatched : <<table.ref, key>> \in warned'
      BY <2>1
    <2>6. ModelRead'
      BY <2>4, <2>5 DEF ModelRead
    <2> QED BY <1>1, <2>1, <2>6 DEF GenInv, ConfigKept, TableKept, ColumnKept
  <1> QED BY <1>2, <1>3

LEMMA CheckKeeps ==
  ASSUME GenInv, check_config
  PROVE  GenInv'
  <1>1. /\ md' = md /\ config' = config /\ model' = model /\ warned' = warned /\ phase = "check"
        /\ phase' = IF ConfigFits THEN "generate" ELSE "failed"
    BY DEF check_config
  <1>2. ModelRead /\ ConfigKept(config) /\ md \in Catalogs
    BY <1>1 DEF GenInv
  <1>3. ModelRead'
    BY <1>1, <1>2, ModelStays
  <1>4. ASSUME ConfigFits PROVE SectionsFit
    <2>1. \A key \in DOMAIN config.tables : \E row \in Listed : fold_lower(row.name) = key
      BY <1>4 DEF ConfigFits, ConfigTablesFit
    <2>2. ASSUME NEW key \in DOMAIN config.tables, NEW table \in model, fold_lower(table.ref.name) = key,
                 \A other \in model : fold_lower(other.ref.name) = key => other.ref = table.ref,
                 NEW c \in DOMAIN config.tables[key].columns
          PROVE  \E i \in DOMAIN table.columns : fold_lower(table.columns[i].name) = c
      <3> DEFINE read == {u \in model : fold_lower(u.ref.name) = key}
                 first == CHOOSE u \in read : TRUE
      <3>1. read # {} /\ first \in read
        BY <2>2
      <3>2. DOMAIN config.tables[key].columns \subseteq {fold_lower(row.name) : row \in Range(first.columns)}
        BY <1>4, <3>1, Zenon DEF ConfigFits
      <3>3. first \in model /\ fold_lower(first.ref.name) = key
        BY <3>1, Zenon
      <3> HIDE DEF first
      <3>4. first.ref = table.ref
        BY <2>2, <3>3, Zenon
      <3>5. first = TableModel(first.ref) /\ table = TableModel(table.ref)
        BY <1>2, <2>2, <3>3, Zenon DEF ModelRead
      <3>6. first = table
        BY <3>4, <3>5, Zenon
      <3>7. PICK row \in Range(table.columns) : fold_lower(row.name) = c
        BY <2>2, <3>2, <3>6
      <3> QED BY <3>7, Zenon DEF Range
    <2> QED BY <2>1, <2>2, Zenon DEF SectionsFit
  <1>5. ConfigFits => SectionsFit'
    BY <1>1, <1>4, SectionsStay
  <1> QED BY <1>1, <1>2, <1>3, <1>5 DEF GenInv, ConfigKept, TableKept, ColumnKept

LEMMA GenerateKeeps ==
  ASSUME GenInv, generate_header
  PROVE  GenInv'
  <1>1. /\ md' = md /\ config' = config /\ model' = model /\ warned' = warned /\ phase = "generate"
        /\ phase' \in {"written", "failed"}
    BY DEF generate_header
  <1>2. ModelRead /\ SectionsFit /\ ConfigKept(config) /\ md \in Catalogs
    BY <1>1 DEF GenInv
  <1>3. ModelRead' /\ SectionsFit'
    BY <1>1, <1>2, ModelStays, SectionsStay
  <1>4. ASSUME phase' = "written" PROVE HeaderMade'
    <2>1. check_class_names /\ header' = {emit_table(table) : table \in Emitted}
      BY <1>4 DEF generate_header
    <2>2. \A table : emit_table(table)' = emit_table(table)
      BY <1>1, StructStays
    <2>3. Emitted \subseteq model
      BY DEF Emitted
    <2>4. \A struct \in header' : \E table \in model' : struct = emit_table(table)'
      BY <1>1, <2>1, <2>2, <2>3
    <2>5. ASSUME NEW s1 \in header', NEW s2 \in header', s1 # s2 PROVE s1.class # s2.class
      <3>1. PICK t1 \in Emitted : s1 = emit_table(t1)
        BY <2>1
      <3>2. PICK t2 \in Emitted : s2 = emit_table(t2)
        BY <2>1
      <3>3. emitted_class(t1) # emitted_class(t2)
        BY <2>1, <2>5, <3>1, <3>2, Zenon DEF check_class_names
      <3>4. s1.class = emitted_class(t1) /\ s2.class = emitted_class(t2)
        BY <3>1, <3>2 DEF emit_table
      <3> QED BY <3>3, <3>4
    <2> QED BY <2>4, <2>5 DEF HeaderMade
  <1> QED BY <1>1, <1>2, <1>3, <1>4 DEF GenInv, ConfigKept, TableKept, ColumnKept

LEMMA GenInvStep ==
  GenInv /\ [GenNext]_genVars => GenInv'
  <1> SUFFICES ASSUME GenInv, [GenNext]_genVars PROVE GenInv'
    OBVIOUS
  <1>1. CASE UNCHANGED genVars
    <2>1. /\ phase' = phase /\ config' = config /\ md' = md /\ model' = model /\ header' = header
          /\ warned' = warned
      BY <1>1 DEF genVars
    <2>2. ModelRead => ModelRead'
      BY <2>1, ModelStays
    <2>3. SectionsFit => SectionsFit'
      BY <2>1, SectionsStay
    <2>4. HeaderMade => HeaderMade'
      BY <2>1, HeaderStays
    <2> QED BY <2>1, <2>2, <2>3, <2>4 DEF GenInv, ConfigKept, TableKept, ColumnKept
  <1>2. ASSUME NEW line \in Lines, ParseLine(line) PROVE GenInv'
    BY <1>2, ParseKeeps
  <1>3. CASE read_schema
    BY <1>3, ReadKeeps
  <1>4. CASE check_config
    BY <1>4, CheckKeeps
  <1>5. CASE generate_header
    BY <1>5, GenerateKeeps
  <1> QED BY <1>1, <1>2, <1>3, <1>4, <1>5 DEF GenNext
-----------------------------------------------------------------------------
(* What a written header says *)

\* A struct, the table model it was made of and the table of the catalog.
MadeOf(struct, table, t) ==
  /\ table \in model /\ t \in md.tables
  /\ table = TableModel(ReportedTable(t)) /\ table.ref = ReportedTable(t)
  /\ struct = emit_table(table) /\ struct.ref = table.ref
  /\ Len(table.columns) \in Nat /\ DOMAIN table.columns = 1..Len(table.columns)

LEMMA StructsMade ==
  ASSUME GenInv, Written, NEW struct \in header
  PROVE  WellListed(md) /\ \E table, t : MadeOf(struct, table, t)
  <1>1. WellListed(md) /\ ModelRead /\ HeaderMade
    BY GeneratorAssumption DEF GenInv, Written
  <1>2. PICK table \in model : struct = emit_table(table)
    BY <1>1 DEF HeaderMade
  <1>3. PICK t \in md.tables : table.ref = ReportedTable(t)
    BY <1>1 DEF ModelRead
  <1>4. table = TableModel(ReportedTable(t))
    BY <1>1, <1>3 DEF ModelRead
  <1>5. Len(table.columns) \in Nat /\ DOMAIN table.columns = 1..Len(table.columns)
    BY <1>1, <1>4, ModelColumns, Zenon
  <1>6. struct.ref = table.ref
    BY <1>2 DEF emit_table
  <1> QED BY <1>1, <1>2, <1>3, <1>4, <1>5, <1>6, Zenon DEF MadeOf

LEMMA DescribesTheTables ==
  GenInv => HeaderIsTheTables
  <1> SUFFICES ASSUME GenInv, Written, NEW struct \in header, Alone(struct.ref)
               PROVE  LET table == Source(struct.ref)
                          Marked == {struct.members[i].column :
                                       i \in {j \in DOMAIN struct.members : struct.members[j].key}}
                      IN /\ Len(struct.members) = Len(table.columns)
                         /\ \A i \in DOMAIN struct.members :
                                /\ struct.members[i].column = str(table.columns[i].name)
                                /\ struct.members[i].optional = table.columns[i].nullable
                         /\ \A key \in Range(table.keys) :
                                str(key) \in Marked \/ <<struct.ref, str(key)>> \in warned
                         /\ Marked \subseteq {str(key) : key \in Range(table.keys)}
                         /\ struct.references = Range(table.references)
    BY DEF HeaderIsTheTables
  <1>1. PICK table, t : WellListed(md) /\ MadeOf(struct, table, t)
    BY StructsMade
  <1> DEFINE keys == {str(key) : key \in Range(t.keys)}
             members == struct.members
             n == Len(t.columns)
  <1>2. /\ table \in model /\ t \in md.tables /\ struct.ref = ReportedTable(t)
        /\ table = TableModel(ReportedTable(t)) /\ struct = emit_table(table) /\ struct.ref = table.ref
        /\ DOMAIN table.columns = 1..Len(table.columns)
    BY <1>1, Zenon DEF MadeOf
  <1>3. /\ Source(table.ref) = t
        /\ n \in Nat /\ Len(table.columns) = n
        /\ \A i \in 1..n : /\ table.columns[i].name = str(t.columns[i].name)
                           /\ table.columns[i].nullable = t.columns[i].nullable
                           /\ table.key[i] = (table.columns[i].name \in keys)
        /\ table.unmatched = keys \ {table.columns[i].name : i \in DOMAIN table.columns}
        /\ table.references = Range(t.references)
    <2>1. WellListed(md) /\ t \in md.tables /\ Alone(ReportedTable(t))
      BY <1>1, <1>2, Zenon
    <2>2. IsOf(table, t, keys)
      BY <1>2, <2>1, TableRead, Zenon
    <2> QED BY <2>2, Zenon DEF IsOf
  <1> HIDE DEF keys, members, n
  <1>4. /\ DOMAIN members = 1..n /\ Len(members) = n
        /\ \A i \in 1..n : /\ members[i].column = table.columns[i].name
                           /\ members[i].optional = table.columns[i].nullable
                           /\ members[i].key = table.key[i]
    <2>1. members = emit_table(table).members /\ DOMAIN table.columns = 1..n
      BY <1>2, <1>3, Zenon DEF members
    <2>2. InOrder(members, table, n)
      BY <1>3, <2>1, MembersOf, Zenon
    <2> QED BY <2>2, Zenon DEF InOrder
  <1> DEFINE Marked == {members[i].column : i \in {j \in DOMAIN members : members[j].key}}
  <1>5. \A key \in Range(t.keys) : str(key) \in Marked \/ <<struct.ref, str(key)>> \in warned
    <2> SUFFICES ASSUME NEW key \in Range(t.keys), str(key) \notin Marked
                 PROVE  <<struct.ref, str(key)>> \in warned
      OBVIOUS
    <2>1. str(key) \in keys
      BY DEF keys
    <2>2. str(key) \notin {table.columns[i].name : i \in DOMAIN table.columns}
      <3> SUFFICES ASSUME NEW i \in DOMAIN table.columns, str(key) = table.columns[i].name
                   PROVE  str(key) \in Marked
        BY Zenon
      <3>1. i \in 1..n
        BY <1>2, <1>3, Zenon
      <3>2. table.key[i]
        BY <1>3, <2>1, <3>1, Zenon
      <3>3. i \in DOMAIN members /\ members[i].key /\ members[i].column = str(key)
        BY <1>4, <3>1, <3>2, Zenon
      <3> QED BY <3>3, Zenon
    <2>3. str(key) \in table.unmatched
      BY <1>3, <2>1, <2>2
    <2>4. ModelRead
      BY DEF GenInv, Written
    <2> QED BY <1>2, <2>3, <2>4 DEF ModelRead
  <1>6. Marked \subseteq keys
    <2> SUFFICES ASSUME NEW i \in DOMAIN members, members[i].key PROVE members[i].column \in keys
      BY Zenon
    <2>1. i \in 1..n /\ table.key[i] /\ members[i].column = table.columns[i].name
      BY <1>4, Zenon
    <2> QED BY <1>3, <2>1, Zenon
  <1>7. struct.references = Range(t.references)
    BY <1>2, <1>3 DEF emit_table
  <1>8. Source(struct.ref) = t
    BY <1>2, <1>3, Zenon
  <1>9. \A i \in DOMAIN members : /\ members[i].column = str(t.columns[i].name)
                                  /\ members[i].optional = t.columns[i].nullable
    BY <1>3, <1>4
  <1>10. Len(members) = Len(t.columns)
    BY <1>4, Zenon DEF n
  <1> QED BY <1>5, <1>6, <1>7, <1>8, <1>9, <1>10, Zenon DEF members, keys

LEMMA KeepsNamesApart ==
  GenInv => NamesDistinct
  <1> SUFFICES ASSUME GenInv, Written PROVE NamesDistinct
    BY DEF NamesDistinct
  <1>1. \A s1, s2 \in header : s1 # s2 => s1.class # s2.class
    BY DEF GenInv, Written, HeaderMade
  <1>2. ASSUME NEW struct \in header,
               \A i \in DOMAIN struct.members : to_camel_case(struct.members[i].column).number = <<>>,
               NEW i \in DOMAIN struct.members, NEW j \in DOMAIN struct.members, i # j
        PROVE  struct.members[i].member # struct.members[j].member
    <2>1. PICK table, t : MadeOf(struct, table, t)
      BY StructsMade
    <2> DEFINE members == struct.members
               n == Len(table.columns)
    <2>2. n \in Nat /\ DOMAIN table.columns = 1..n /\ members = emit_table(table).members
      BY <2>1, Zenon DEF MadeOf
    <2>3. i \in DOMAIN members /\ j \in DOMAIN members
          /\ \A k \in DOMAIN members : to_camel_case(members[k].column).number = <<>>
      BY <1>2, Zenon
    <2> HIDE DEF members, n
    <2>4. /\ DOMAIN members = 1..n
          /\ \A k \in 1..n : /\ members[k].column = table.columns[k].name
                             /\ members[k].member = MemberNames(table.columns)[k]
      <3>1. InOrder(members, table, n)
        BY <2>2, MembersOf, Zenon
      <3> QED BY <3>1, Zenon DEF InOrder
    <2>5. \A k \in 1..n : to_camel_case(table.columns[k].name).number = <<>>
      BY <2>3, <2>4
    <2>6. ASSUME NEW k \in 1..n, NEW l \in 1..n, l < k
          PROVE  MemberNames(table.columns)[l] # MemberNames(table.columns)[k]
      BY <2>2, <2>5, <2>6, MembersApart, Zenon DEF n
    <2>7. i \in 1..n /\ j \in 1..n /\ (i < j \/ j < i)
      BY <1>2, <2>2, <2>3, <2>4
    <2>8. MemberNames(table.columns)[i] # MemberNames(table.columns)[j]
      BY <2>6, <2>7, Zenon
    <2> QED BY <2>4, <2>7, <2>8, Zenon DEF members
  <1> QED BY <1>1, <1>2, Zenon DEF NamesDistinct

LEMMA Validates ==
  GenInv => HeaderValidates
  <1> SUFFICES ASSUME GenInv, Written, DOMAIN config.types = {}, NEW struct \in header, Alone(struct.ref),
                      fold_lower(struct.ref.name) \notin DOMAIN config.tables,
                      NEW i \in DOMAIN struct.members
               PROVE  LET type == sql_type_from_native(Source(struct.ref).columns[i].type_name)
                      IN type = "other" \/ type \in accepted_sql_types(struct.members[i].cpp)
    BY DEF HeaderValidates
  <1>1. PICK table, t : WellListed(md) /\ MadeOf(struct, table, t)
    BY StructsMade
  <1> DEFINE keys == {str(key) : key \in Range(t.keys)}
             members == struct.members
             n == Len(t.columns)
             row == table.columns[i]
  <1>2. /\ table \in model /\ t \in md.tables /\ struct.ref = ReportedTable(t)
        /\ table = TableModel(ReportedTable(t)) /\ struct = emit_table(table) /\ struct.ref = table.ref
        /\ DOMAIN table.columns = 1..Len(table.columns)
    BY <1>1, Zenon DEF MadeOf
  <1>3. /\ Source(table.ref) = t
        /\ n \in Nat /\ Len(table.columns) = n
        /\ \A j \in 1..n : table.columns[j].type_name = t.columns[j].type_name
    <2>1. WellListed(md) /\ t \in md.tables /\ Alone(ReportedTable(t))
      BY <1>1, <1>2, Zenon
    <2>2. IsOf(table, t, keys)
      BY <1>2, <2>1, TableRead, Zenon
    <2> QED BY <2>2, Zenon DEF IsOf
  <1> HIDE DEF keys, members, n
  <1>4. DOMAIN members = 1..n /\ \A j \in 1..n : members[j].cpp = MemberType(table.ref.name, table.columns[j]).cpp
    <2>1. members = emit_table(table).members /\ DOMAIN table.columns = 1..n
      BY <1>2, <1>3, Zenon DEF members
    <2>2. InOrder(members, table, n)
      BY <1>3, <2>1, MembersOf, Zenon
    <2> QED BY <2>2, Zenon DEF InOrder
  <1>5. i \in 1..n
    BY <1>4, Zenon DEF members
  <1>6. MemberType(table.ref.name, row).cpp = default_cpp_type(sql_type_from_native(row.type_name))
    <2>1. TableConfig(table.ref.name) = NoTable
      BY <1>2, Zenon DEF TableConfig, Entry
    <2>2. ColumnConfig(table.ref.name, row.name) = NoColumn
      BY <2>1 DEF ColumnConfig, Entry, NoTable
    <2>3. find_type_override(row) = NoValue
      BY DEF find_type_override, Entry
    <2> HIDE DEF row
    <2> QED BY <2>2, <2>3 DEF MemberType, NoColumn
  <1>7. row.type_name = Source(struct.ref).columns[i].type_name
    BY <1>2, <1>3, <1>5, Zenon
  <1>8. members[i].cpp = default_cpp_type(sql_type_from_native(row.type_name))
    BY <1>4, <1>5, <1>6, Zenon
  <1> HIDE DEF row
  <1> QED BY <1>7, <1>8, DefaultsBind, Zenon DEF members

LEMMA HeedsOverrides ==
  GenInv => OverridesHeeded
  <1> SUFFICES ASSUME GenInv, Written, NEW key \in DOMAIN config.tables PROVE
        /\ \E row \in Listed : fold_lower(row.name) = key
        /\ \A struct \in header :
               (/\ fold_lower(struct.ref.name) = key
                /\ \A table \in model : fold_lower(table.ref.name) = key => table.ref = struct.ref)
               => \A column \in DOMAIN config.tables[key].columns :
                     \E m \in Range(struct.members) :
                       /\ fold_lower(m.column) = column
                       /\ m.cpp \in {config.tables[key].columns[column].converter,
                                     config.tables[key].columns[column].cpp_type}
    BY DEF OverridesHeeded
  <1>1. SectionsFit /\ ConfigKept(config)
    BY DEF GenInv, Written
  <1>2. \E row \in Listed : fold_lower(row.name) = key
    BY <1>1 DEF SectionsFit
  <1>3. ASSUME NEW struct \in header, fold_lower(struct.ref.name) = key,
               \A table \in model : fold_lower(table.ref.name) = key => table.ref = struct.ref,
               NEW column \in DOMAIN config.tables[key].columns
        PROVE  \E m \in Range(struct.members) :
                 /\ fold_lower(m.column) = column
                 /\ m.cpp \in {config.tables[key].columns[column].converter,
                               config.tables[key].columns[column].cpp_type}
    <2>1. PICK table, t : MadeOf(struct, table, t)
      BY StructsMade
    <2> DEFINE members == struct.members
               n == Len(table.columns)
               entry == config.tables[key].columns[column]
    <2>2. /\ table \in model /\ n \in Nat /\ DOMAIN table.columns = 1..n
          /\ members = emit_table(table).members /\ struct.ref = table.ref
      BY <2>1, Zenon DEF MadeOf
    <2>3. PICK i \in DOMAIN table.columns : fold_lower(table.columns[i].name) = column
      BY <1>1, <1>3, <2>2 DEF SectionsFit
    <2>4. ColumnKept(entry)
      BY <1>1, <1>3 DEF ConfigKept, TableKept
    <2>5. ColumnConfig(table.ref.name, table.columns[i].name) = entry
      <3>1. TableConfig(table.ref.name) = config.tables[key]
        BY <1>3, <2>2, Zenon DEF TableConfig, Entry
      <3> QED BY <1>3, <2>3, <3>1, Zenon DEF ColumnConfig, Entry
    <2> HIDE DEF members, n, entry
    <2>6. MemberType(table.ref.name, table.columns[i]).cpp \in {entry.converter, entry.cpp_type}
      BY <2>4, <2>5 DEF MemberType, ColumnKept
    <2>7. InOrder(members, table, n)
      BY <2>2, MembersOf, Zenon
    <2>8. /\ i \in DOMAIN members /\ members[i].column = table.columns[i].name
          /\ members[i].cpp = MemberType(table.ref.name, table.columns[i]).cpp
      BY <2>2, <2>3, <2>7, Zenon DEF InOrder
    <2>9. /\ members[i] \in Range(members) /\ fold_lower(members[i].column) = column
          /\ members[i].cpp \in {entry.converter, entry.cpp_type}
      BY <2>3, <2>6, <2>8 DEF Range
    <2> QED BY <2>9, Zenon DEF members, entry
  <1> QED BY <1>2, <1>3

\* A header that uniorm-gen writes describes its own tables, compiles, passes
\* strict validation where no override touches it and heeds every override,
\* whatever the catalog, the request and the configuration
\* (schema_reader.cpp:66-133, generator.cpp:202-266, main.cpp:96-105).
THEOREM HeadersFit ==
  GenSpec => []HeaderFits
  <1>1. GenInv => HeaderFits
    BY DescribesTheTables, KeepsNamesApart, Validates, HeedsOverrides DEF HeaderFits
  <1> QED BY <1>1, GenInvInit, GenInvStep, PTL DEF GenSpec
=============================================================================
