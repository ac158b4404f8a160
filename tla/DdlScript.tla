----------------------------- MODULE DdlScript -----------------------------
(***************************************************************************)
(* The generator's reader of CREATE TABLE scripts                           *)
(* (src/tools/uniorm-gen/ddl_meta.cpp).  The scanner's characters are       *)
(* abstracted to tokens: a word, a punctuation mark, or a whole literal,    *)
(* with blanks and comments gone.  The grammar is kept production by        *)
(* production; one step reads a statement's head, a table item, a clause of *)
(* a column, or an ALTER action.  Names are already folded.                 *)
(***************************************************************************)
EXTENDS Integers, Sequences, FiniteSets, SequencesExt, TLC

CONSTANTS
    Statements,    \* [tokens |-> ..., makes |-> ...]: a statement and what it asks for
    MaxStatements

VARIABLES
    script,     \* the statements of this script
    text,       \* scanner::text_: their tokens
    pos,        \* scanner::pos_, in tokens
    mode,       \* the production the reader is in
    back,       \* where a finished column definition returns to
    slot,       \* reader::slot
    row,        \* the column_row being read
    tables,     \* ddl_snapshot::tables
    pending,    \* foreign keys that name no referenced columns
    notes       \* what the warning sink was told

ddlVars == <<script, text, pos, mode, back, slot, row, tables, pending, notes>>

(***************************************************************************)
(* The scanner.                                                             *)
(***************************************************************************)
End == "<end>"
Tok(i) == IF i \in DOMAIN text THEN text[i] ELSE End

Punctuation == {"(", ")", ",", ";", ".", "=", "[", "]"}
Literals == {"'x'", "7"}
IsWord(token) == token \notin Punctuation \cup Literals \cup {End}

Eat(i, token) == IF Tok(i) = token THEN i + 1 ELSE i
RECURSIVE EatAll(_, _)
EatAll(i, words) == IF words = <<>> THEN i ELSE EatAll(Eat(i, Head(words)), Tail(words))

RECURSIVE skip_item_from(_, _)
skip_item_from(i, depth) ==
    IF Tok(i) \in {End, ";"} \/ (depth = 0 /\ Tok(i) \in {",", ")"}) THEN i
    ELSE skip_item_from(i + 1, CASE Tok(i) = "(" -> depth + 1
                                 [] Tok(i) = ")" -> depth - 1
                                 [] OTHER -> depth)
skip_item(i) == skip_item_from(i, 0)

(* The token after a parenthesized list, 0 when it is never closed. *)
RECURSIVE skip_balanced_from(_, _)
skip_balanced_from(i, depth) ==
    IF depth = 0 THEN i
    ELSE IF Tok(i) = End THEN 0
    ELSE skip_balanced_from(i + 1, CASE Tok(i) = "(" -> depth + 1
                                     [] Tok(i) = ")" -> depth - 1
                                     [] OTHER -> depth)
skip_balanced(i) == skip_balanced_from(i + 1, 1)

(* Past the ';' that ends the statement: not one inside parentheses or
   between BEGIN and END. *)
RECURSIVE statement_end_from(_, _, _)
statement_end_from(i, depth, blocks) ==
    IF Tok(i) = End THEN i
    ELSE IF Tok(i) = ";" /\ depth = 0 /\ blocks = 0 THEN i + 1
    ELSE statement_end_from(i + 1,
             CASE Tok(i) = "(" -> depth + 1
               [] Tok(i) = ")" /\ depth # 0 -> depth - 1
               [] OTHER -> depth,
             CASE Tok(i) = "begin" -> blocks + 1
               [] Tok(i) = "end" /\ blocks # 0 -> blocks - 1
               [] OTHER -> blocks)
StatementEndFlat(i) ==
    LET ends == {j \in i .. Len(text) : Tok(j) = ";"}
    IN IF ends = {} THEN Len(text) + 1 ELSE 1 + CHOOSE j \in ends : \A k \in ends : j <= k
statement_end(i) == statement_end_from(i, 0, 0)

(* qualified(): the parts of a name and the token after them; no parts where
   the code throws. *)
RECURSIVE qualified_from(_, _)
qualified_from(i, parts) ==
    IF ~IsWord(Tok(i)) THEN [parts |-> <<>>, at |-> i]
    ELSE IF Tok(i + 1) = "." THEN qualified_from(i + 2, Append(parts, Tok(i)))
    ELSE [parts |-> Append(parts, Tok(i)), at |-> i + 1]
qualified(i) == qualified_from(i, <<>>)
table_name(i) == LET name == qualified(i)
                 IN IF Len(name.parts) > 3 THEN [name EXCEPT !.parts = <<>>] ELSE name

(* name_list() and index_columns(), whose terms may carry more than a name;
   at is 0 where the code throws. *)
RECURSIVE names_from(_, _, _)
names_from(i, names, terms) ==
    LET after == IF terms THEN skip_item(i + 1) ELSE i + 1 IN
    IF Tok(i) = ")" THEN [names |-> names, at |-> i + 1]
    ELSE IF ~IsWord(Tok(i)) THEN [names |-> names, at |-> 0]
    ELSE IF Tok(after) = "," THEN names_from(after + 1, Append(names, Tok(i)), terms)
    ELSE [names |-> Append(names, Tok(i)), at |-> IF Tok(after) = ")" THEN after + 1 ELSE 0]
name_list(i) == IF Tok(i) = "(" THEN names_from(i + 1, <<>>, FALSE) ELSE [names |-> <<>>, at |-> 0]
index_columns(i) == IF Tok(i) = "(" THEN names_from(i + 1, <<>>, TRUE) ELSE [names |-> <<>>, at |-> 0]

(* value(): a literal, a parenthesized tree, or a name with its call. *)
value(i) ==
    CASE Tok(i) \in Literals -> i + 1
      [] Tok(i) = "(" -> skip_balanced(i)
      [] IsWord(Tok(i)) -> LET name == qualified(i)
                           IN CASE name.parts = <<>> -> 0
                                [] name.parts # <<>> /\ Tok(name.at) = "(" -> skip_balanced(name.at)
                                [] OTHER -> name.at
      [] OTHER -> 0

(***************************************************************************)
(* Tables.  A name of two parts puts the first into the schema.             *)
(***************************************************************************)
fresh_table(parts) ==
    [catalog |-> IF Len(parts) = 3 THEN parts[1] ELSE "",
     schema |-> IF Len(parts) = 1 THEN "" ELSE parts[Len(parts) - 1],
     name |-> Last(parts), columns |-> <<>>, keys |-> <<>>, references |-> <<>>, indexes |-> <<>>]

SameTable(table, parts) ==
    /\ table.name = Last(parts)
    /\ (Len(parts) > 1 /\ (table.schema # "" \/ table.catalog # "")) =>
           parts[Len(parts) - 1] \in {table.schema, table.catalog}

(* The first table a name means, 0 for none. *)
find_table(parts) ==
    LET found == {i \in DOMAIN tables : SameTable(tables[i], parts)}
    IN IF found = {} THEN 0 ELSE CHOOSE i \in found : \A j \in found : i <= j

mark_key(table, column) ==
    IF column \in Range(table.keys) THEN table ELSE [table EXCEPT !.keys = Append(@, column)]
mark_keys(table, columns) == FoldSeq(LAMBDA column, t : mark_key(t, column), table, Reverse(columns))

apply_keys(table) ==
    [table EXCEPT !.columns = [i \in DOMAIN @ |->
        IF @[i].name \in Range(table.keys) THEN [@[i] EXCEPT !.nullable = FALSE] ELSE @[i]]]

AddIndex(table, columns, unique) ==
    [table EXCEPT !.indexes = Append(@, [columns |-> columns, unique |-> unique])]

(***************************************************************************)
(* Types: words that continue a known spelling belong to it.                *)
(***************************************************************************)
type_table ==
    (<<"int">> :> "integer") @@ (<<"serial">> :> "integer") @@ (<<"varchar">> :> "varchar")
    @@ (<<"double", "precision">> :> "double_precision") @@ (<<"timestamp">> :> "timestamp")
    @@ (<<"timestamp", "with", "time", "zone">> :> "timestamp")
known_type(phrase) == phrase \in DOMAIN type_table
type_continues(phrase) ==
    \E entry \in DOMAIN type_table : Len(entry) > Len(phrase) /\ SubSeq(entry, 1, Len(phrase)) = phrase
sql_type_of(phrase) ==
    CASE known_type(phrase) -> type_table[phrase]
      [] ~known_type(phrase) /\ known_type(<<Head(phrase)>>) -> type_table[<<Head(phrase)>>]
      [] OTHER -> "other"

RECURSIVE phrase_from(_, _)
phrase_from(i, phrase) ==
    LET next == Append(phrase, Tok(i)) IN
    IF IsWord(Tok(i)) /\ (known_type(next) \/ type_continues(next))
    THEN phrase_from(i + 1, next) ELSE [phrase |-> phrase, at |-> i]

RECURSIVE arguments_from(_), modifiers_from(_)
arguments_from(i) ==
    LET after == value(i) IN
    IF Tok(i) = ")" THEN i + 1
    ELSE IF after = 0 THEN 0
    ELSE IF Tok(after) = "," THEN arguments_from(after + 1)
    ELSE IF Tok(after) = ")" THEN after + 1 ELSE 0
read_arguments(i) == IF Tok(i) = "(" THEN arguments_from(i + 1) ELSE i
modifiers_from(i) == IF Tok(i) \in {"unsigned", "signed", "zerofill"} THEN modifiers_from(i + 1) ELSE i

(* read_type(): arguments stand before the tail of a phrase or after it; at
   is 0 where the code throws. *)
read_type(i) ==
    LET name == qualified(i)
        head == read_arguments(name.at)
        tail == phrase_from(head, <<Last(name.parts)>>)
        rest == IF head = name.at THEN read_arguments(tail.at) ELSE tail.at
        after == modifiers_from(rest)
    IN IF name.parts = <<>> \/ head = 0 THEN [phrase |-> <<>>, at |-> 0]
       ELSE [phrase |-> tail.phrase, at |-> IF rest = 0 \/ Tok(after) = "[" THEN 0 ELSE after]

NewRow == [name |-> "", type |-> "other", nullable |-> TRUE]

(***************************************************************************)
(* Steps.  Go names where the reader stands after one; a position of 0 is   *)
(* an error, which throws away everything read.                             *)
(***************************************************************************)
Go(i, next) == IF i = 0 THEN pos' = pos /\ mode' = "failed" ELSE pos' = i /\ mode' = next
Fail == Go(0, "failed")

InTable(table) == [tables EXCEPT ![slot] = table]

(* opens_a_key_list(): KEY, INDEX and UNIQUE may also name a column; up to
   two names may stand before the parenthesis that tells. *)
opens_a_key_list(i) ==
    /\ Tok(i) \in {"unique", "key", "index"}
    /\ \/ Tok(i + 1) = "("
       \/ IsWord(Tok(i + 1)) /\ Tok(i + 2) = "("
       \/ IsWord(Tok(i + 1)) /\ IsWord(Tok(i + 2)) /\ Tok(i + 3) = "("
constraint_lead(i) ==
    Tok(i) \in {"primary", "foreign", "check", "exclude", "fulltext", "spatial"} \/ opens_a_key_list(i)

(* Past CONSTRAINT and the name it may carry. *)
NamedConstraint(i) ==
    IF Tok(i) # "constraint" THEN i
    ELSE IF constraint_lead(i + 1) \/ ~IsWord(Tok(i + 1)) THEN i + 1 ELSE i + 2

(* read_references(): what stands after REFERENCES, for these local columns.
   It ends with the item, whatever else the item says. *)
References(i, local) ==
    LET target == table_name(Eat(i, "references"))
        listed == IF Tok(target.at) = "(" THEN name_list(target.at) ELSE [names |-> <<>>, at |-> target.at]
    IN [target |-> target.parts, columns |-> listed.names,
        at |-> IF target.parts = <<>> \/ listed.at = 0 THEN 0
               ELSE IF listed.names # <<>> /\ Len(listed.names) # Len(local) THEN 0
               ELSE skip_item(listed.at)]

read_references(found, local, next) ==
    /\ Go(found.at, next)
    /\ IF found.at # 0 /\ found.columns # <<>>
       THEN /\ tables' = [tables EXCEPT ![slot].references = @ \o
                  [k \in DOMAIN local |-> [table |-> Last(found.target), column |-> found.columns[k],
                                           local |-> local[k]]]]
            /\ UNCHANGED pending
       ELSE /\ pending' = IF found.at = 0 THEN pending
                          ELSE Append(pending, [owner |-> slot, target |-> found.target, local |-> local])
            /\ UNCHANGED tables

(* read_constraint(), at its leading word. *)
read_constraint(i, next) ==
    LET listed == name_list(i + 2)
        opened == IF Tok(i) = "unique" THEN EatAll(i + 1, <<"key", "index", "nulls", "not", "distinct">>) ELSE i + 1
        columns == index_columns(IF IsWord(Tok(opened)) THEN opened + 1 ELSE opened)
        local == IF Tok(i + 2) = "(" THEN listed ELSE [names |-> <<>>, at |-> i + 2]
    IN CASE Tok(i) = "primary" ->
              IF Tok(i + 1) # "key" \/ listed.at = 0 THEN Fail /\ UNCHANGED <<tables, pending, notes>>
              ELSE /\ Go(skip_item(listed.at), next)
                   /\ tables' = InTable(mark_keys(tables[slot], listed.names))
                   /\ UNCHANGED <<pending, notes>>
         [] Tok(i) \in {"unique", "key", "index"} ->
              IF columns.at = 0 THEN Fail /\ UNCHANGED <<tables, pending, notes>>
              ELSE /\ Go(skip_item(columns.at), next)
                   /\ tables' = InTable(AddIndex(tables[slot], columns.names, Tok(i) = "unique"))
                   /\ UNCHANGED <<pending, notes>>
         [] Tok(i) = "foreign" ->
              IF Tok(i + 1) # "key" \/ local.at = 0 THEN Fail /\ UNCHANGED <<tables, pending, notes>>
              ELSE read_references(References(local.at, local.names), local.names, next) /\ UNCHANGED notes
         [] Tok(i) \in {"check", "exclude", "fulltext", "spatial"} ->
              /\ Go(skip_item(IF Tok(i) = "check" /\ Tok(i + 1) = "(" THEN skip_balanced(i + 1) ELSE i + 1), next)
              /\ notes' = notes \cup {<<"constraint", tables[slot].name>>}
              /\ UNCHANGED <<tables, pending>>
         [] OTHER -> Fail /\ UNCHANGED <<tables, pending, notes>>

(* The head of read_column_def(): a name and a type. *)
ColumnHead(i, return) ==
    LET type == read_type(i + 1) IN
    /\ Go(IF IsWord(Tok(i)) THEN type.at ELSE 0, "clauses")
    /\ row' = IF type.at = 0 THEN row
              ELSE [name |-> Tok(i), type |-> sql_type_of(type.phrase), nullable |-> type.phrase # <<"serial">>]
    /\ back' = return
    /\ UNCHANGED <<tables, pending, notes>>

(* read_table_items(): one item, or the end of the list. *)
ItemEnds ==
    /\ mode = "separator" /\ Tok(pos) = ","
    /\ Go(pos + 1, "items")
    /\ UNCHANGED <<script, text, back, slot, row, tables, pending, notes>>

ItemsEnd ==
    /\ \/ mode = "separator" /\ Tok(pos) # ","
       \/ mode = "items" /\ Tok(pos) = ")"
    /\ IF Tok(pos) = ")"
       THEN Go(statement_end(pos + 1), "script") /\ tables' = InTable(apply_keys(tables[slot]))
       ELSE Fail /\ UNCHANGED tables
    /\ UNCHANGED <<script, text, back, slot, row, pending, notes>>

read_table_item ==
    LET i == NamedConstraint(pos) IN
    /\ mode = "items" /\ Tok(pos) # ")"
    /\ IF i # pos \/ constraint_lead(i)
       THEN read_constraint(i, "separator") /\ UNCHANGED <<row, back>>
       ELSE ColumnHead(pos, "separator")
    /\ UNCHANGED <<script, text, slot>>

(***************************************************************************)
(* read_column_def(): one clause of the column, or its end.                 *)
(***************************************************************************)
at_item_end(i) == Tok(i) \in {End, ",", ")", ";"}

Nullable(is) == row' = [row EXCEPT !.nullable = is] /\ UNCHANGED <<tables, pending, notes>>

(* Clauses read over: the token after each, 0 where the code throws. *)
PassedOver(i) ==
    CASE Tok(i) = "default" -> value(i + 1)
      [] Tok(i) \in {"comment", "storage", "compression", "srid"} -> value(i + 1)
      [] Tok(i) = "on" -> IF Tok(i + 1) = "update" THEN value(i + 2) ELSE 0
      [] Tok(i) \in {"constraint", "after"} -> IF IsWord(Tok(i + 1)) THEN i + 2 ELSE 0
      [] Tok(i) = "collate" -> LET name == IF Tok(i + 1) = "if" THEN Eat(i + 2, "exists") ELSE i + 1
                               IN IF IsWord(Tok(name)) THEN name + 1 ELSE 0
      [] Tok(i) = "character" -> IF Tok(i + 1) = "set" /\ IsWord(Tok(i + 2)) THEN i + 3 ELSE 0
      [] Tok(i) = "charset" -> IF IsWord(Tok(Eat(i + 1, "="))) THEN Eat(i + 1, "=") + 1 ELSE 0
      [] Tok(i) = "check" -> IF Tok(i + 1) = "(" THEN skip_balanced(i + 1) ELSE i + 1
      [] Tok(i) = "initially" -> EatAll(i + 1, <<"deferred", "immediate">>)
      [] Tok(i) \in {"auto_increment", "invisible", "visible", "mandatory", "deferrable", "first"} -> i + 1
      [] OTHER -> 0

(* read_generated(): [at, expression], past GENERATED or AS. *)
read_generated(i) ==
    LET led == IF Tok(i) = "always" THEN i + 1 ELSE EatAll(i, <<"by", "default">>)
        body == Eat(led, "as")
        expression == Tok(body) = "("
        rest == IF expression THEN skip_balanced(body)
                ELSE IF Tok(led) # "as" THEN led
                ELSE IF Tok(body) = "identity" THEN body + 1 ELSE 0
    IN [at |-> IF rest = 0 THEN 0 ELSE EatAll(rest, <<"stored", "virtual">>), expression |-> expression]

Clause ==
    LET i == pos
        generated == read_generated(i + 1)
    IN
    /\ mode = "clauses" /\ ~at_item_end(i)
    /\ CASE Tok(i) = "not" ->
              /\ Go(IF Tok(i + 1) \in {"null", "enforced"} THEN i + 2 ELSE 0, mode)
              /\ Nullable(row.nullable /\ Tok(i + 1) # "null")
         [] Tok(i) = "null" -> Go(i + 1, mode) /\ Nullable(TRUE)
         [] Tok(i) = "primary" ->
              /\ Go(IF Tok(i + 1) = "key" THEN i + 2 ELSE 0, mode)
              /\ row' = [row EXCEPT !.nullable = FALSE]
              /\ tables' = InTable(mark_key(tables[slot], row.name))
              /\ UNCHANGED <<pending, notes>>
         [] Tok(i) = "unique" ->
              /\ Go(EatAll(i + 1, <<"key", "index">>), mode)
              /\ tables' = InTable(AddIndex(tables[slot], <<row.name>>, TRUE))
              /\ UNCHANGED <<row, pending, notes>>
         [] Tok(i) = "references" ->
              read_references(References(i, <<row.name>>), <<row.name>>, mode) /\ UNCHANGED <<row, notes>>
         [] Tok(i) \in {"generated", "as"} ->
              /\ Go(generated.at, mode)
              /\ notes' = IF generated.expression THEN notes \cup {<<"generated", row.name>>} ELSE notes
              /\ UNCHANGED <<row, tables, pending>>
         [] OTHER -> Go(PassedOver(i), mode) /\ UNCHANGED <<row, tables, pending, notes>>
    /\ UNCHANGED <<script, text, back, slot>>

ColumnEnds ==
    /\ mode = "clauses" /\ at_item_end(pos)
    /\ tables' = InTable([tables[slot] EXCEPT !.columns = Append(@, row)])
    /\ row' = NewRow
    /\ Go(pos, back)
    /\ UNCHANGED <<script, text, back, slot, pending, notes>>

(***************************************************************************)
(* read_alter(): ADD actions are applied, any other is only reported.  A    *)
(* grouped ADD lists its columns in parentheses.                            *)
(***************************************************************************)
AlterAction ==
    LET i == Eat(pos + 1, "column")
        c == NamedConstraint(pos + 1)
    IN
    /\ mode = "actions" /\ Tok(pos) = "add"
    /\ IF i = pos + 1 /\ (constraint_lead(i) \/ Tok(i) = "constraint")
       THEN read_constraint(c, "added") /\ UNCHANGED <<row, back>>
       ELSE IF Tok(i) = "(" THEN ColumnHead(i + 1, "group") ELSE ColumnHead(i, "added")
    /\ UNCHANGED <<script, text, slot>>

GroupGoesOn ==
    /\ mode = "group"
    /\ IF Tok(pos) = "," THEN ColumnHead(pos + 1, "group")
       ELSE Go(IF Tok(pos) = ")" THEN pos + 1 ELSE 0, "added") /\ UNCHANGED <<back, row, tables, pending, notes>>
    /\ UNCHANGED <<script, text, slot>>

ActionAdded ==
    /\ mode = "added"
    /\ IF Tok(pos) = "," THEN Go(pos + 1, "actions") ELSE Go(pos, "reported")
    /\ UNCHANGED <<script, text, back, slot, row, tables, pending, notes>>

(* The first action that is no ADD sends the rest of the statement here. *)
ActionsReported ==
    /\ \/ mode = "reported"
       \/ mode = "actions" /\ Tok(pos) # "add"
    /\ LET after == skip_item(pos + 1) IN
       IF ~at_item_end(pos)
       THEN /\ notes' = notes \cup {<<"action", tables[slot].name>>}
            /\ Go(IF Tok(after) = "," THEN after + 1 ELSE after,
                  IF Tok(after) = "," THEN "reported" ELSE "altered")
       ELSE Go(pos, "altered") /\ UNCHANGED notes
    /\ UNCHANGED <<script, text, back, slot, row, tables, pending>>

AlterEnds ==
    /\ mode = "altered"
    /\ tables' = InTable(apply_keys(tables[slot]))
    /\ Go(statement_end(pos), "script")
    /\ UNCHANGED <<script, text, back, slot, row, pending, notes>>

(***************************************************************************)
(* parse_script(): the head of a statement.                                 *)
(***************************************************************************)
read_create_table(i) ==
    LET name == table_name(EatAll(i, <<"if", "not", "exists">>))
        found == find_table(name.parts)
    IN IF name.parts = <<>> THEN Fail /\ UNCHANGED <<slot, tables, notes>>
       ELSE /\ Go(IF Tok(name.at) = "(" THEN name.at + 1 ELSE 0, "items")
            /\ slot' = IF found = 0 THEN Len(tables) + 1 ELSE found
            /\ tables' = IF found = 0 THEN Append(tables, fresh_table(name.parts))
                         ELSE [tables EXCEPT ![found] = fresh_table(name.parts)]
            /\ notes' = IF found = 0 THEN notes ELSE notes \cup {<<"twice", Last(name.parts)>>}

read_create_index(i, unique) ==
    LET named == EatAll(i, <<"if", "not", "exists", "concurrently">>)
        name == table_name(named + 2)
        columns == index_columns(IF Tok(name.at) = "using" THEN name.at + 2 ELSE name.at)
        found == find_table(name.parts)
    IN /\ UNCHANGED slot
       /\ IF ~IsWord(Tok(named)) \/ Tok(named + 1) # "on" \/ name.parts = <<>> \/ columns.at = 0
          THEN Fail /\ UNCHANGED <<tables, notes>>
          ELSE /\ Go(statement_end(columns.at), "script")
               /\ tables' = IF found = 0 THEN tables
                            ELSE [tables EXCEPT ![found] = AddIndex(@, columns.names, unique)]
               /\ notes' = IF found = 0 THEN notes \cup {<<"index", Last(name.parts)>>} ELSE notes

Create ==
    LET i == EatAll(pos + 1, <<"or", "replace", "temp", "temporary", "global", "local", "unlogged">>)
        u == Eat(i, "unique")
    IN
    /\ mode = "script" /\ Tok(pos) = "create"
    /\ CASE Tok(i) = "table" -> read_create_table(i + 1)
         [] Tok(u) = "index" -> read_create_index(u + 1, u # i)
         [] Tok(u) \in {"database", "schema"} ->
              LET name == qualified(EatAll(u + 1, <<"if", "not", "exists">>))
              IN /\ Go(IF name.parts = <<>> THEN 0 ELSE statement_end(name.at), "script")
                 /\ UNCHANGED <<slot, tables, notes>>
         [] OTHER -> /\ Go(statement_end(u + 1), "script")
                     /\ notes' = notes \cup {<<"create", Tok(u)>>}
                     /\ UNCHANGED <<slot, tables>>
    /\ UNCHANGED <<script, text, back, row, pending>>

Alter ==
    LET name == table_name(EatAll(pos + 2, <<"if", "only", "exists">>))
        found == find_table(name.parts)
    IN
    /\ mode = "script" /\ Tok(pos) = "alter"
    /\ IF Tok(pos + 1) = "table" /\ name.parts = <<>> THEN Fail /\ UNCHANGED <<slot, notes>>
       ELSE IF Tok(pos + 1) # "table" \/ found = 0
       THEN /\ Go(statement_end(IF Tok(pos + 1) = "table" THEN name.at ELSE pos + 2), "script")
            /\ notes' = notes \cup {<<"alter", Tok(pos + 1)>>}
            /\ UNCHANGED slot
       ELSE Go(name.at, "actions") /\ slot' = found /\ UNCHANGED notes
    /\ UNCHANGED <<script, text, back, row, tables, pending>>

StandStill == pos
PastUnread == statement_end(pos + 1)

carries_no_schema == {"insert", "set", "begin", "commit", "drop"}

Use ==
    LET name == EatAll(pos + 1, <<"database">>) IN
    /\ mode = "script" /\ Tok(pos) = "use"
    /\ Go(IF IsWord(Tok(name)) THEN statement_end(name + 1) ELSE 0, "script")
    /\ UNCHANGED <<script, text, back, slot, row, tables, pending, notes>>

OtherStatement ==
    /\ mode = "script" /\ Tok(pos) \notin {End, "create", "alter", "use"}
    /\ IF Tok(pos) = ";" THEN Go(pos + 1, "script") /\ UNCHANGED notes
       ELSE /\ Go(PastUnread, "script")
            /\ notes' = IF Tok(pos) \in carries_no_schema THEN notes ELSE notes \cup {<<"statement", Tok(pos)>>}
    /\ UNCHANGED <<script, text, back, slot, row, tables, pending>>

(* A key that named no columns refers to its target's primary key, which any
   statement of the script may have declared. *)
Resolved(key) ==
    LET found == find_table(key.target)
        keys == IF found = 0 THEN <<>> ELSE tables[found].keys
    IN IF found = 0 \/ Len(keys) # Len(key.local) THEN <<>>
       ELSE [k \in DOMAIN key.local |-> [table |-> Last(key.target), column |-> keys[k], local |-> key.local[k]]]

KeysOf(t) ==
    FlattenSeq([k \in DOMAIN pending |-> IF pending[k].owner = t THEN Resolved(pending[k]) ELSE <<>>])
Unresolved == {k \in DOMAIN pending : Resolved(pending[k]) = <<>>}

ResolveQuietly ==
    /\ mode = "script" /\ Tok(pos) = End
    /\ mode' = "done"
    /\ tables' = [t \in DOMAIN tables |-> [tables[t] EXCEPT !.references = @ \o KeysOf(t)]]
    /\ UNCHANGED <<script, text, pos, back, slot, row, pending, notes>>

resolve_pending_keys ==
    /\ mode = "script" /\ Tok(pos) = End
    /\ mode' = "done"
    /\ tables' = [t \in DOMAIN tables |-> [tables[t] EXCEPT !.references = @ \o KeysOf(t)]]
    /\ notes' = notes \cup {<<"reference", pending[k].target>> : k \in Unresolved}
    /\ UNCHANGED <<script, text, pos, back, slot, row, pending>>

DdlInit ==
    /\ script \in {s \in UNION {[1 .. n -> Statements] : n \in 1 .. MaxStatements} : IsInjective(s)}
    /\ text = FlattenSeq([i \in DOMAIN script |-> script[i].tokens])
    /\ pos = 1 /\ mode = "script" /\ back = "separator" /\ slot = 0 /\ row = NewRow
    /\ tables = <<>> /\ pending = <<>> /\ notes = {}

DdlNext ==
    \/ ItemEnds \/ ItemsEnd \/ read_table_item
    \/ Clause \/ ColumnEnds
    \/ AlterAction \/ GroupGoesOn \/ ActionAdded \/ ActionsReported \/ AlterEnds
    \/ Create \/ Alter \/ Use \/ OtherStatement \/ resolve_pending_keys

DdlSpec == DdlInit /\ [][DdlNext]_ddlVars

(***************************************************************************)
(* What the script asks a database for: the reference the reading is        *)
(* compared with.  A statement's "makes" says what it means.                *)
(***************************************************************************)
MeansTable(table, makes) ==
    makes.kind # "none" /\ table.name = Last(makes.name)
    /\ (Len(makes.name) > 1 /\ table.schema # "" => table.schema = makes.name[1])

Grown(table, makes) ==
    [table EXCEPT !.columns = @ \o makes.columns, !.keys = @ \o makes.keys,
                  !.references = @ \o makes.references, !.indexes = @ \o makes.indexes]

Executed(makes, database) ==
    LET old == {i \in DOMAIN database : MeansTable(database[i], makes)} IN
    CASE makes.kind = "create" /\ old = {} -> Append(database, Grown(fresh_table(makes.name), makes))
      [] makes.kind = "create" /\ old # {} ->
           [i \in DOMAIN database |-> IF i \in old THEN Grown(fresh_table(makes.name), makes) ELSE database[i]]
      [] makes.kind = "alter" -> [i \in DOMAIN database |-> IF i \in old THEN Grown(database[i], makes) ELSE database[i]]
      [] OTHER -> database

Database == FoldSeq(LAMBDA statement, database : Executed(statement.makes, database), <<>>, Reverse(script))

(* The columns a reference without columns means are its target's key. *)
Named(reference) ==
    LET targets == {t \in Range(Database) : t.name = reference.table}
    IN IF reference.column # "" THEN {reference}
       ELSE {[reference EXCEPT !.column = Head(t.keys)] : t \in {x \in targets : Len(x.keys) = 1}}

Reported(table) == <<"action", table.name>> \in notes

(* A finished reading has the columns, with their types and nullability, the
   primary key and the indexes that the script's last definitions and its
   additions give each table: no statement swallows its neighbour, no clause
   the one after it.  A table with an ALTER action that was reported instead
   of applied is excepted.  (parse_script, read_column_def, apply_keys) *)
ColumnsAsDeclared ==
    mode = "done" =>
        /\ Len(tables) = Len(Database)
        /\ \A t \in DOMAIN tables :
               \/ Reported(tables[t])
               \/ LET meant == Database[t] IN
                  [tables[t] EXCEPT !.references = <<>>] =
                      [meant EXCEPT !.references = <<>>,
                                    !.columns = [c \in DOMAIN @ |-> [@[c] EXCEPT !.nullable =
                                        @ /\ meant.columns[c].name \notin Range(meant.keys)]]]

(* A finished reading has the foreign keys the script declares, those that
   name no columns pointing at the key their target ends up with, and one
   whose target is not there is warned about.
   (read_references, resolve_pending_keys) *)
ReferencesAsDeclared ==
    mode = "done" =>
        \A t \in DOMAIN Database :
            /\ Range(tables[t].references) = UNION {Named(r) : r \in Range(Database[t].references)}
            /\ \A r \in Range(Database[t].references) :
                   Named(r) = {} => \E n \in notes : n = <<"reference", <<r.table>>>>

(* The reader never stands still: a step consumes text or moves on to a later
   production, so no script keeps it for ever.  (parse_script, read_alter) *)
MovesForward ==
    \/ pos' > pos
    \/ /\ mode' \in {"failed", "done", "separator", "reported", "altered", "added", "group"}
       /\ mode' # mode
=============================================================================
