------------------------------- MODULE SqlText -------------------------------
(***************************************************************************)
(* Statement texts on their way to a server: how names are quoted          *)
(* (src/dialect.cpp), how the libpq and the Oracle backend number the '?'  *)
(* of a text (their sql_text.cpp), and how the Oracle backend tells a      *)
(* query.  A text is a sequence of characters; a keyword is one.           *)
(*                                                                         *)
(* An application puts its text together from the pieces SQL knows; what   *)
(* the server is to read of each piece is the reference.                   *)
(***************************************************************************)
EXTENDS Integers, Sequences, SequencesExt, FiniteSetsExt

CONSTANTS
  Chars,       \* characters of what is quoted or commented
  MaxPieces,
  MaxBody      \* characters of all of them together

VARIABLES driver, pieces
textVars == <<driver, pieces>>

Drivers == {"libpq", "oracle"}
At(t, i) == IF i \in 1..Len(t) THEN t[i] ELSE "end"
Pair(t, i, a, b) == At(t, i) = a /\ At(t, i + 1) = b
Refused == 0   \* where a scan throws "statement ends inside a quote or comment"

\* The first place from i on where P holds.
FirstFrom(t, i, P(_)) ==
  LET found == {j \in i..Len(t) : P(j)} IN IF found = {} THEN Refused ELSE Min(found)

\* quote_exact_identifier() with the quote of a dialect that quotes like this.
Quoted(name, quote) ==
  <<quote>> \o FlattenSeq([i \in 1..Len(name) |-> IF name[i] = quote THEN <<quote, quote>> ELSE <<name[i]>>])
            \o <<quote>>
-----------------------------------------------------------------------------
(* The scans: each gives the place after what starts at i *)

skip_line_comment(t, i) ==
  LET end == FirstFrom(t, i, LAMBDA j : t[j] = "\n") IN IF end = Refused THEN Len(t) + 1 ELSE end

\* Mutant: a comment of libpq ends at the first close.
SkipBlockFlat(t, i, depth) ==
  LET end == FirstFrom(t, i, LAMBDA j : Pair(t, j, "*", "/")) IN IF end = Refused THEN end ELSE end + 2

\* libpq's skip_block_comment(): comments nest.
RECURSIVE skip_block_nested(_, _, _)
skip_block_nested(t, i, depth) ==
  IF i + 1 > Len(t) THEN Refused
  ELSE IF Pair(t, i, "/", "*") THEN skip_block_nested(t, i + 2, depth + 1)
  ELSE IF Pair(t, i, "*", "/")
       THEN IF depth = 1 THEN i + 2 ELSE skip_block_nested(t, i + 2, depth - 1)
  ELSE skip_block_nested(t, i + 1, depth)

\* Oracle's ends at the first close.
skip_block_comment(t, i) ==
  LET end == FirstFrom(t, i + 2, LAMBDA j : Pair(t, j, "*", "/")) IN IF end = Refused THEN end ELSE end + 2

\* From the character after the opening quote.
RECURSIVE skip_doubled(_, _, _, _)
skip_doubled(t, i, quote, escapes) ==
  IF i > Len(t) THEN Refused
  ELSE IF (escapes /\ t[i] = "\\") \/ Pair(t, i, quote, quote) THEN skip_doubled(t, i + 2, quote, escapes)
  ELSE IF t[i] = quote THEN i + 1
  ELSE skip_doubled(t, i + 1, quote, escapes)

skip_doubled_quote(t, i, quote) == skip_doubled(t, i, quote, FALSE)

TagChars == {"a", "E", "q", "SELECT", "1"}

\* The length of the delimiter of a dollar-quoted body at i, or 0.
dollar_delimiter(t, i) ==
  LET close == FirstFrom(t, i + 1, LAMBDA j : t[j] \notin TagChars)
  IN  IF At(t, i + 1) = "$" THEN 2
      ELSE IF At(t, i + 1) \in TagChars \ {"1"} /\ close # Refused /\ At(t, close) = "$"
      THEN close + 1 - i ELSE 0

skip_dollar_quoted(t, i, len) ==
  LET end == FirstFrom(t, i + len, LAMBDA j : /\ j + len - 1 <= Len(t)
                                              /\ SubSeq(t, j, j + len - 1) = SubSeq(t, i, i + len - 1))
  IN  IF end = Refused THEN end ELSE end + len

alternate_closer(opener) == IF opener = "[" THEN "]" ELSE opener

skip_alternate_quoted(t, i) ==
  LET closer == alternate_closer(At(t, i + 2))
      end == FirstFrom(t, i + 3, LAMBDA j : Pair(t, j, closer, "'"))
  IN  IF end = Refused THEN end ELSE end + 2

leads_escape_string(t, i) == i = 1 \/ t[i - 1] \notin TagChars \cup {"$"}

\* The end of the construct that starts at i; i when none does.
LibpqConstruct(t, i) ==
  CASE Pair(t, i, "-", "-") -> skip_line_comment(t, i)
    [] Pair(t, i, "/", "*") -> skip_block_nested(t, i + 2, 1)
    [] t[i] \in {"'", "\""} -> skip_doubled(t, i + 1, t[i], FALSE)
    [] Pair(t, i, "E", "'") /\ leads_escape_string(t, i) -> skip_doubled(t, i + 2, "'", TRUE)
    [] t[i] = "$" /\ dollar_delimiter(t, i) > 0 -> skip_dollar_quoted(t, i, dollar_delimiter(t, i))
    [] OTHER -> i

OracleConstruct(t, i) ==
  CASE Pair(t, i, "-", "-") -> skip_line_comment(t, i)
    [] Pair(t, i, "/", "*") -> skip_block_comment(t, i)
    [] t[i] \in {"'", "\""} -> skip_doubled_quote(t, i + 1, t[i])
    [] Pair(t, i, "q", "'") -> skip_alternate_quoted(t, i)
    [] OTHER -> i

Copied(t) == [i \in 1..Len(t) |-> [char |-> t[i], number |-> 0]]
Marker(n) == <<[char |-> IF driver = "libpq" THEN "$" ELSE ":", number |-> n]>>

\* rewrite_placeholders() from i on, n markers met: the text, or a throw.
RECURSIVE rewrite_placeholders(_, _, _, _)
rewrite_placeholders(t, i, n, out) ==
  IF i > Len(t) THEN [ok |-> TRUE, out |-> out, count |-> n]
  ELSE LET end == IF driver = "libpq" THEN LibpqConstruct(t, i) ELSE OracleConstruct(t, i)
       IN  IF end = Refused THEN [ok |-> FALSE, out |-> <<>>, count |-> n]
           ELSE IF end > i THEN rewrite_placeholders(t, end, n, out \o Copied(SubSeq(t, i, end - 1)))
           ELSE IF driver = "libpq" /\ Pair(t, i, "?", "?")
                THEN rewrite_placeholders(t, i + 2, n, out \o Copied(<<"?">>))
           ELSE IF t[i] = "?" THEN rewrite_placeholders(t, i + 1, n + 1, out \o Marker(n + 1))
           ELSE rewrite_placeholders(t, i + 1, n, out \o Copied(<<t[i]>>))

\* Mutant: a comment is taken for what the text begins with.
RECURSIVE LeadsCommented(_, _)
LeadsCommented(t, i) ==
  IF At(t, i) \in {" ", "\n"} THEN LeadsCommented(t, i + 1)
  ELSE At(t, i) = "SELECT" /\ At(t, i + 1) \notin TagChars \ {"1"}

\* leads_with_query(): what comes after blanks and comments.
RECURSIVE leads_with_query(_, _)
leads_with_query(t, i) ==
  IF At(t, i) \in {" ", "\n"} THEN leads_with_query(t, i + 1)
  ELSE IF Pair(t, i, "-", "-") THEN leads_with_query(t, skip_line_comment(t, i))
  ELSE IF Pair(t, i, "/", "*") THEN leads_with_query(t, skip_block_comment(t, i))
  ELSE At(t, i) = "SELECT" /\ At(t, i + 1) \notin TagChars \ {"1"}
-----------------------------------------------------------------------------
(* Pieces, as the servers' grammars have them *)

Kinds ==
  [libpq |-> {"word", "mark", "doubled", "literal", "name", "line", "block", "nested", "escape", "body", "tagged"},
   oracle |-> {"word", "mark", "literal", "name", "line", "block", "bracket", "other"}]

\* What may stand in a piece of a kind.
Fits(kind, body) ==
  LET has == Range(body)
  IN  CASE kind \in {"mark", "doubled"} -> body = <<>>
        [] kind = "word" -> body # <<>> /\ has \subseteq TagChars \ {"1"}
        [] kind = "block" -> {"*", "/"} \cap has = {}
        [] kind = "nested" -> {"*", "/"} \cap has = {}
        [] kind = "body" -> "$" \notin has
        [] kind = "tagged" -> "a" \notin has
        [] OTHER -> TRUE

Escaped(body) ==
  FlattenSeq([i \in 1..Len(body) |-> IF body[i] \in {"'", "\\"} THEN <<"\\", body[i]>> ELSE <<body[i]>>])

Spelled(p) ==
  CASE p.kind = "word" -> p.body
    [] p.kind = "mark" -> <<"?">>
    [] p.kind = "doubled" -> <<"?", "?">>
    [] p.kind = "literal" -> Quoted(p.body, "'")
    [] p.kind = "name" -> Quoted(p.body, "\"")
    [] p.kind = "line" -> <<"-", "-">> \o p.body \o <<"\n">>
    [] p.kind = "block" -> <<"/", "*">> \o p.body \o <<"*", "/">>
    [] p.kind = "nested" -> <<"/", "*", "/", "*", "?", "*", "/">> \o p.body \o <<"*", "/">>
    [] p.kind = "escape" -> <<"E", "'">> \o Escaped(p.body) \o <<"'">>
    [] p.kind = "body" -> <<"$", "$">> \o p.body \o <<"$", "$">>
    [] p.kind = "tagged" -> <<"$", "a", "$">> \o p.body \o <<"$", "a", "$">>
    [] p.kind = "bracket" -> <<"q", "'", "[">> \o p.body \o <<"]", "'">>
    [] p.kind = "other" -> <<"q", "'", "!">> \o p.body \o <<"!", "'">>

Text(ps) == FlattenSeq([i \in 1..Len(ps) |-> Spelled(ps[i]) \o <<" ">>])

\* What the server is to read: the marks numbered, a doubled one once, and
\* everything else as it was written.
Meant(ps) ==
  FlattenSeq([i \in 1..Len(ps) |->
    (CASE ps[i].kind = "mark" -> Marker(Cardinality({j \in 1..i : ps[j].kind = "mark"}))
       [] ps[i].kind = "doubled" -> Copied(<<"?">>)
       [] OTHER -> Copied(Spelled(ps[i]))) \o Copied(<<" ">>)])

Size == FoldSeq(LAMBDA p, sum : Len(p.body) + sum, 0, pieces)

TextInit == driver \in Drivers /\ pieces = <<>>

Write(kind, body) ==
  /\ Len(pieces) < MaxPieces
  /\ Fits(kind, body)
  /\ pieces' = Append(pieces, [kind |-> kind, body |-> body])
  /\ UNCHANGED driver

TextNext ==
  \E kind \in Kinds[driver], body \in UNION {[1..n -> Chars] : n \in 0..(MaxBody - Size)} : Write(kind, body)

TextSpec == TextInit /\ [][TextNext]_textVars
-----------------------------------------------------------------------------
\* Every mark of a text is numbered in the order the core binds it, and what
\* stands in literals, names, comments and bodies is left alone, whatever it is:
\* a name out of quote_exact_identifier() above all (libpq/sql_text.cpp:145-198,
\* oracle_oci/sql_text.cpp:120-160, dialect.cpp:24-40).
MarksNumbered ==
  LET t == pieces \o <<[kind |-> "mark", body |-> <<>>]>>
      got == rewrite_placeholders(Text(t), 1, 0, <<>>)
  IN  /\ got.ok /\ got.out = Meant(t)
      /\ got.count = Cardinality({i \in 1..Len(t) : t[i].kind = "mark"})

\* Oracle: a text is a query when its first word is, whatever comments stand
\* before it (oracle_oci/sql_text.cpp:162-186).
QueryTold ==
  driver = "oracle" =>
    LET word == {i \in 1..Len(pieces) : pieces[i].kind \notin {"line", "block"}}
    IN  leads_with_query(Text(pieces), 1) <=>
          word # {} /\ LET p == pieces[Min(word)] IN p.kind = "word" /\ p.body = <<"SELECT">>
=============================================================================
