---------------------------- MODULE QueryBuilder ----------------------------
(***************************************************************************)
(* The builders of statements: predicates (src/builder/expression.cpp),    *)
(* query<T>, update<T> and remove<T> (include/uniorm/builder/builder.hpp), *)
(* and the dynamic update_builder and remove_builder (src/orm.cpp).        *)
(*                                                                         *)
(* A statement is tokens and the values bound to its '?' in order.  A test *)
(* of a column is one token that says how many '?' it holds; what a server *)
(* reads of the tokens, with AND binding before OR, is the reference.      *)
(***************************************************************************)
EXTENDS Integers, Sequences, SequencesExt, FiniteSetsExt

CONSTANTS
  Fields,         \* mapped members, each with its column
  MaxCalls,       \* bound on the calls chained to one builder
  MaxWheres, MaxRange,
  RawClauses      \* clauses with an OR outside parentheses for the dynamic builders

VARIABLES builder, made
builderVars == <<builder, made>>

Typed == {"query", "update", "remove"}
Dynamic == {"dynamic update", "dynamic remove"}
NoLimit == -1

Token(kind, field, marks) == [kind |-> kind, field |-> field, marks |-> marks]
Sign(kind) == Token(kind, "none", 0)
Verbs == {"compare", "in", "null"}

\* Values are told apart by numbers: the how manieth of which call.
Numbered(first, n) == [i \in 1..n |-> first + i]
-----------------------------------------------------------------------------
(* Predicates: comparison(), like_expr(), in_list(), null_check() and their joints *)

Test(verb, field, values) == [k |-> verb, field |-> field, values |-> values, kids |-> <<>>]
Joint(k, kids) == [k |-> k, field |-> "none", values |-> <<>>, kids |-> kids]
EmptyPredicate == Joint("empty", <<>>)

\* The builders of expression.hpp: eq() to ge() and like(), in(), is_null(), && and ||.
Compare(field, first) == Test("compare", field, Numbered(first, 1))
In(field, first, n) == Test("in", field, Numbered(first, n))
IsNull(field) == Test("null", field, <<>>)
Both(k, p, q) == Joint(k, <<p, q>>)

\* The predicates of a where() call: tests, joints of two and one nested.
Tests(first) ==
  UNION {{Compare(f, first), In(f, first, 0), In(f, first, 2), IsNull(f)} : f \in Fields}
Predicates(first) ==
  Tests(first) \cup {EmptyPredicate}
    \cup UNION {{Both(k, Compare(f, first), t) : t \in {u \in Tests(first + 10) : u.field # f}} :
                   k \in {"AND", "OR"}, f \in Fields}
    \cup {Both("AND", Both("OR", In(f, first, 2), IsNull(f)), Compare(f, first + 10)) : f \in Fields}

\* Mutant: a joint stands without parentheses.
RECURSIVE ToSqlBare(_)
ToSqlBare(p) ==
  IF p.k \in Verbs
  THEN IF p.k = "in" /\ p.values = <<>> THEN [sql |-> <<Sign("1 = 0")>>, out |-> <<>>]
       ELSE [sql |-> <<Token(p.k, p.field, Len(p.values))>>, out |-> p.values]
  ELSE LET a == ToSqlBare(p.kids[1])
           b == ToSqlBare(p.kids[2])
       IN  [sql |-> a.sql \o <<Sign(p.k)>> \o b.sql, out |-> a.out \o b.out]

\* to_sql(): text and values; an empty predicate throws, see CanRender.
RECURSIVE to_sql(_)
to_sql(p) ==
  IF p.k \in Verbs
  THEN IF p.k = "in" /\ p.values = <<>> THEN [sql |-> <<Sign("1 = 0")>>, out |-> <<>>]
       ELSE [sql |-> <<Token(p.k, p.field, Len(p.values))>>, out |-> p.values]
  ELSE LET a == to_sql(p.kids[1])
           b == to_sql(p.kids[2])
       IN  [sql |-> <<Sign("(")>> \o a.sql \o <<Sign(p.k)>> \o b.sql \o <<Sign(")")>>, out |-> a.out \o b.out]

RECURSIVE CanRender(_)
CanRender(p) == p.k # "empty" /\ \A i \in 1..Len(p.kids) : CanRender(p.kids[i])

\* A clause of the dynamic builders is the caller's own text.
Clauses(first) ==
  LET test(f, n) == [sql |-> <<Token("compare", f, 1)>>, out |-> Numbered(first + n, 1)]
      both(k, f, g) == [sql |-> test(f, 0).sql \o <<Sign(k)>> \o test(g, 10).sql,
                        out |-> test(f, 0).out \o test(g, 10).out]
      closed(c) == [sql |-> <<Sign("(")>> \o c.sql \o <<Sign(")")>>, out |-> c.out]
  IN  {test(f, 0) : f \in Fields} \cup {both("AND", f, g) : f, g \in Fields}
        \cup {closed(both("OR", f, g)) : f, g \in Fields}
        \cup (IF RawClauses THEN {both("OR", f, g) : f, g \in Fields} ELSE {})
        \cup {[sql |-> <<>>, out |-> <<>>]}
-----------------------------------------------------------------------------
(* Chained calls *)

Unmade == [ok |-> TRUE, verb |-> "none", sets |-> <<>>, where |-> <<>>, bound |-> <<>>, order |-> <<>>, page |-> <<>>]

BuilderInit ==
  /\ builder \in [kind : Typed \cup Dynamic, calls : {0}, sets : {<<>>}, wheres : {<<>>}, orders : {<<>>},
                  limit : {NoLimit}, offset : {0}, ansi : BOOLEAN]
  /\ builder.kind # "query" => ~builder.ansi
  /\ made = Unmade

Chaining == made.verb = "none" /\ builder.calls < MaxCalls
Chained(b) == builder' = [b EXCEPT !.calls = @ + 1] /\ UNCHANGED made

Set(field) ==
  /\ Chaining /\ builder.kind \in {"update", "dynamic update"}
  /\ Chained([builder EXCEPT !.sets = Append(@, [field |-> field, value |-> 1000 + Len(@)])])

Where(p) ==
  /\ Chaining /\ builder.kind \in Typed /\ Len(builder.wheres) < MaxWheres
  /\ Chained([builder EXCEPT !.wheres = Append(@, p)])

\* A blank clause throws and leaves the builder alone.
WhereClause(c) ==
  /\ Chaining /\ builder.kind \in Dynamic /\ Len(builder.wheres) < MaxWheres
  /\ Chained(IF c.sql = <<>> THEN builder ELSE [builder EXCEPT !.wheres = Append(@, c)])

OrderBy(field) ==
  /\ Chaining /\ builder.kind = "query"
  /\ Chained([builder EXCEPT !.orders = Append(@, field)])

Limit(n) == Chaining /\ builder.kind = "query" /\ Chained([builder EXCEPT !.limit = n])
Offset(n) == Chaining /\ builder.kind = "query" /\ Chained([builder EXCEPT !.offset = n])
-----------------------------------------------------------------------------
(* Terminals *)

\* Clauses and values in the order of the calls.
Joined(parts) ==
  [sql |-> FlattenSeq([i \in 1..Len(parts) |-> IF i = 1 THEN parts[i].sql ELSE <<Sign("AND")>> \o parts[i].sql]),
   out |-> FlattenSeq([i \in 1..Len(parts) |-> parts[i].out])]

where_sql(b) == Joined([i \in 1..Len(b.wheres) |-> to_sql(b.wheres[i])])
render_where(b) == Joined(b.wheres)
WhereOf(b) == IF b.kind \in Typed THEN where_sql(b) ELSE render_where(b)

\* Mutant: the ANSI form leaves out an offset of zero.
PaginationShort(ansi, limit, offset) ==
  (IF ansi /\ offset > 0 THEN <<<<"OFFSET", offset>>>> ELSE <<>>)
    \o (IF limit = NoLimit THEN <<>> ELSE <<<<IF ansi THEN "FETCH" ELSE "LIMIT", limit>>>>)
    \o (IF ~ansi /\ offset > 0 THEN <<<<"OFFSET", offset>>>> ELSE <<>>)

pagination(ansi, limit, offset) ==
  (IF ansi /\ (offset > 0 \/ limit # NoLimit) THEN <<<<"OFFSET", offset>>>> ELSE <<>>)
    \o (IF limit = NoLimit THEN <<>> ELSE <<<<IF ansi THEN "FETCH" ELSE "LIMIT", limit>>>>)
    \o (IF ~ansi /\ offset > 0 THEN <<<<"OFFSET", offset>>>> ELSE <<>>)

Throws == [Unmade EXCEPT !.ok = FALSE, !.verb = "refused"]

RenderSelect(b, limit) ==
  LET w == WhereOf(b)
  IN  [Unmade EXCEPT !.verb = "select", !.where = w.sql, !.bound = w.out,
                     !.order = b.orders, !.page = pagination(b.ansi, limit, b.offset)]

RenderCount(b) ==
  LET w == WhereOf(b) IN [Unmade EXCEPT !.verb = "count", !.where = w.sql, !.bound = w.out]

\* Mutant: the values of the tests go before those of the assignments.
RenderUpdateSwapped(b) ==
  LET w == WhereOf(b)
  IN  [Unmade EXCEPT !.verb = "update", !.sets = [i \in 1..Len(b.sets) |-> b.sets[i].field], !.where = w.sql,
                     !.bound = w.out \o [i \in 1..Len(b.sets) |-> b.sets[i].value]]

RenderUpdate(b) ==
  LET w == WhereOf(b)
  IN  [Unmade EXCEPT !.verb = "update", !.sets = [i \in 1..Len(b.sets) |-> b.sets[i].field], !.where = w.sql,
                     !.bound = [i \in 1..Len(b.sets) |-> b.sets[i].value] \o w.out]

RenderDelete(b) ==
  LET w == WhereOf(b) IN [Unmade EXCEPT !.verb = "delete", !.where = w.sql, !.bound = w.out]

\* query<T>: all(), one() and count().
QueryTerminal(b, terminal) ==
  CASE terminal = "all" -> RenderSelect(b, b.limit)
    [] terminal = "one" -> [RenderSelect(b, 1) EXCEPT !.verb = "select one"]
    [] terminal = "count" -> RenderCount(b)

\* execute() of the four builders that change rows.
UpdateExecute(b) == IF b.sets = <<>> \/ b.wheres = <<>> THEN Throws ELSE RenderUpdate(b)
RemoveExecute(b) == IF b.wheres = <<>> THEN Throws ELSE RenderDelete(b)
DynamicUpdateExecute(b) == IF b.sets = <<>> \/ b.wheres = <<>> THEN Throws ELSE RenderUpdate(b)
DynamicRemoveExecute(b) == IF b.wheres = <<>> THEN Throws ELSE RenderDelete(b)

Rendered(terminal) ==
  CASE builder.kind \in Typed /\ \E i \in 1..Len(builder.wheres) : ~CanRender(builder.wheres[i]) -> Throws
    [] builder.kind = "query" -> QueryTerminal(builder, terminal)
    [] builder.kind = "update" -> UpdateExecute(builder)
    [] builder.kind = "remove" -> RemoveExecute(builder)
    [] builder.kind = "dynamic update" -> DynamicUpdateExecute(builder)
    [] builder.kind = "dynamic remove" -> DynamicRemoveExecute(builder)

Run(terminal) ==
  /\ made.verb = "none"
  /\ terminal \in {"all", "one", "count"} <=> builder.kind = "query"
  /\ made' = Rendered(terminal)
  /\ UNCHANGED builder

BuilderNext ==
  LET first == 100 * (Len(builder.wheres) + 1)
  IN  \/ \E f \in Fields : Set(f)
      \/ \E p \in Predicates(first) : Where(p)
      \/ \E c \in Clauses(first) : WhereClause(c)
      \/ \E f \in Fields : OrderBy(f)
      \/ \E n \in 0..MaxRange : Limit(n) \/ Offset(n)
      \/ \E terminal \in {"all", "one", "count", "execute"} : Run(terminal)

BuilderSpec == BuilderInit /\ [][BuilderNext]_builderVars
-----------------------------------------------------------------------------
(* What a server reads *)

\* The tests of a WHERE clause take the bound values in turn.
Atoms(toks, bound, from) ==
  [i \in 1..Len(toks) |->
     LET before == from + FoldSeq(LAMBDA t, sum : t.marks + sum, 0, SubSeq(toks, 1, i - 1))
     IN  [kind |-> toks[i].kind, field |-> toks[i].field, values |-> SubSeq(bound, before + 1, before + toks[i].marks)]]

KindAt(atoms, i) == IF i > Len(atoms) THEN "end" ELSE atoms[i].kind

\* OR of ANDs of tests and of parentheses: the truth and the place after it,
\* where the tests in Holds are true.
RECURSIVE ReadOr(_, _, _)
RECURSIVE ReadAnd(_, _, _)
ReadTest(atoms, i, Holds) ==
  IF KindAt(atoms, i) = "(" THEN LET r == ReadOr(atoms, i + 1, Holds) IN [v |-> r.v, next |-> r.next + 1]
  ELSE [v |-> atoms[i].kind # "1 = 0" /\ atoms[i] \in Holds, next |-> i + 1]
ReadAnd(atoms, i, Holds) ==
  LET a == ReadTest(atoms, i, Holds)
  IN  IF KindAt(atoms, a.next) # "AND" THEN a
      ELSE LET b == ReadAnd(atoms, a.next + 1, Holds) IN [v |-> a.v /\ b.v, next |-> b.next]
ReadOr(atoms, i, Holds) ==
  LET a == ReadAnd(atoms, i, Holds)
  IN  IF KindAt(atoms, a.next) # "OR" THEN a
      ELSE LET b == ReadOr(atoms, a.next + 1, Holds) IN [v |-> a.v \/ b.v, next |-> b.next]

\* What the calls meant.
RECURSIVE Meaning(_, _)
Meaning(p, Holds) ==
  CASE p.k = "in" /\ p.values = <<>> -> FALSE
    [] p.k \in Verbs /\ ~(p.k = "in" /\ p.values = <<>>) -> [kind |-> p.k, field |-> p.field, values |-> p.values] \in Holds
    [] p.k = "AND" -> Meaning(p.kids[1], Holds) /\ Meaning(p.kids[2], Holds)
    [] p.k = "OR" -> Meaning(p.kids[1], Holds) \/ Meaning(p.kids[2], Holds)

MeansOf(b, i, Holds) ==
  IF b.kind \in Typed THEN Meaning(b.wheres[i], Holds)
  ELSE ReadOr(Atoms(b.wheres[i].sql, b.wheres[i].out, 0), 1, Holds).v

Ran == made.verb \notin {"none", "refused"}

\* builder.hpp:29-32 "repeated where() calls accumulate and AND at execute()": the
\* rows a statement selects, changes or deletes are those that meet every clause
\* the builder was given, each tested against its own values; a change without a
\* clause is not made (expression.cpp:89-135, builder.hpp:216-352, orm.cpp:183-266).
SelectsWhatWasChained ==
  Ran =>
    LET atoms == Atoms(made.where, made.bound, Len(made.sets))
        tests == {atoms[i] : i \in {j \in 1..Len(atoms) : atoms[j].kind \in Verbs}}
    IN  /\ made.where = <<>> => made.verb \notin {"update", "delete"} /\ builder.wheres = <<>>
        /\ Len(made.bound) = Len(made.sets) + FoldSeq(LAMBDA t, sum : t.marks + sum, 0, made.where)
        /\ made.where # <<>> =>
             \A Holds \in SUBSET tests :
               ReadOr(atoms, 1, Holds).v <=> \A i \in 1..Len(builder.wheres) : MeansOf(builder, i, Holds)

\* An UPDATE assigns each column the value it was set to, in whatever order the
\* calls came (builder.hpp:279-300, orm.cpp:219-243).
AssignsWhatWasSet ==
  made.verb = "update" =>
    [i \in 1..Len(made.sets) |-> [field |-> made.sets[i], value |-> made.bound[i]]] = builder.sets

\* The rows a query answers are in the order asked for and the page asked for:
\* the last limit() and offset() hold, one() asks for one row whatever was
\* chained, and neither form has a FETCH without OFFSET or a word of the other
\* (builder.hpp:101-198, dialect.cpp:42-66).
PageAsAsked ==
  made.verb \in {"select", "select one"} =>
    LET of(word) == {made.page[i][2] : i \in {j \in 1..Len(made.page) : made.page[j][1] = word}}
        limit == IF made.verb = "select one" THEN 1 ELSE builder.limit
    IN  /\ made.order = builder.orders
        /\ of(IF builder.ansi THEN "FETCH" ELSE "LIMIT") = IF limit = NoLimit THEN {} ELSE {limit}
        /\ of(IF builder.ansi THEN "LIMIT" ELSE "FETCH") = {}
        /\ of("OFFSET") \cup {0} = {0, builder.offset}
        /\ of("FETCH") # {} => made.page[1][1] = "OFFSET"
=============================================================================
