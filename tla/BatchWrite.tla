----------------------------- MODULE BatchWrite -----------------------------
(***************************************************************************)
(* Entity writes in batches (src/orm.cpp, from insert_impl() down) on one  *)
(* connection, with what the three backends make of them: the array-bound  *)
(* ODBC statement and its batch writer (backends/odbc), the row-by-row     *)
(* batches of libpq and Oracle.  An entity has a key column and one        *)
(* nullable text column; a text is its length.                             *)
(*                                                                         *)
(* Calls follow one another on one statement text, so that each finds the  *)
(* statement the one before it left in the cache.  A call is a few steps   *)
(* because the server may fail any of them.                                *)
(***************************************************************************)
EXTENDS Integers, Sequences, FiniteSetsExt

CONSTANTS
  Kinds,            \* of "odbc", "psqlodbc", "libpq", "oracle"
  MaxRows, MaxText, MaxChunk,
  MaxCalls,
  DefaultParamset,  \* orm::default_paramset_size
  MinStride,        \* the 65 bytes of element_size_for()
  NoStatement

ASSUME BatchAssumption ==
  /\ MaxRows \in Nat /\ MaxText \in Nat \ {0} /\ MaxChunk \in Nat
  /\ DefaultParamset \in Nat \ {0} /\ MinStride \in Nat

VARIABLES
  kind, op,   \* the backend; "insert", "update" or "delete"
  autocommit, \* connection::autocommit_
  line,       \* the connection is alive
  server,     \* see ServerType
  stmt,       \* the statement of the text, cached or in use; NoStatement when there is none
  call        \* the running call, see CallType

batchVars == <<kind, op, autocommit, line, server, stmt, call>>

Texts == 1..MaxText
Null == -1
Torn == -2    \* what a read or a write past a buffer leaves
Rows == [id : 0..MaxRows, text : Texts \cup {Null, Torn}]

ServerType ==
  [pending : Seq(Rows), durable : Seq(Rows), aborted : BOOLEAN]

CallType ==
  [pc : {"idle", "acquire", "write", "commit", "unwind"}, end : {"none", "returned", "thrown"},
   rows : Seq(Rows), hits : [1..MaxRows -> 0..1], single : BOOLEAN, auto : BOOLEAN, n : Nat,
   chunk : Nat, start : Nat, tally : Nat, sent : Seq(Rows)]

Columnar == kind \in {"odbc", "psqlodbc"}              \* capabilities::columnar_batch
RowcountTotals == kind = "odbc"                        \* array_rowcount_totals
InTransaction == call.auto /\ ~call.single             \* begin_batch() opened one
-----------------------------------------------------------------------------
(* The ODBC statement and its batch writer *)

Fresh == [slots |-> <<>>, stride |-> 0, sets |-> 1, batch |-> <<>>, parsed |-> TRUE]

\* Mutant: the array size stays with the cached statement.
ResetArrayKept(s) == [s EXCEPT !.slots = <<>>, !.batch = <<>>]

\* reset() on the way out of the cache.
ResetStatement(s) == [s EXCEPT !.slots = <<>>, !.sets = 1, !.batch = <<>>]

\* element_size_for() of a text column, after the scan for its longest value.
Stride(rows) == Max({MinStride} \cup {rows[i].text + 1 : i \in 1..Len(rows)})

\* write_to_param_buffer(): a NULL leaves the bytes of the slot as they are.
Staged(slot, row, stride) ==
  IF row.text = Null THEN [slot EXCEPT !.id = row.id, !.ind = Null]
  ELSE [id |-> row.id, data |-> IF row.text > stride THEN Torn ELSE row.text, ind |-> row.text]

\* add_column(): every indicator says NULL.
Blank(count) == [i \in 1..count |-> [id |-> 0, data |-> 0, ind |-> Null]]

\* The chunk of `count` rows after `start`, staged; its first one also sizes the
\* buffers, is bound by finish() and sets the array size.
StageChunk(s, rows, start, count, chunk) ==
  LET t == IF start = 0 THEN [s EXCEPT !.slots = Blank(count), !.stride = Stride(rows)] ELSE s
  IN  [t EXCEPT !.slots = [i \in 1..Len(t.slots) |->
                             IF i <= count THEN Staged(t.slots[i], rows[start + i], t.stride) ELSE t.slots[i]],
                !.sets = IF start = 0 \/ count # Min({chunk, Len(rows)}) THEN count ELSE @]

\* bind_parameter() for one row: the driver reads the caller's values.
BindOne(s, row) == [s EXCEPT !.slots = <<[id |-> row.id, data |-> row.text, ind |-> row.text]>>]

\* What SQLExecute takes from the bound arrays.
ParamSets(s) ==
  [i \in 1..s.sets |->
     IF i > Len(s.slots) THEN [id |-> 0, text |-> Torn]
     ELSE [id |-> s.slots[i].id, text |-> IF s.slots[i].ind = Null THEN Null ELSE s.slots[i].data]]
-----------------------------------------------------------------------------
(* What an execute() comes to: the parameter sets that ran, in order, whether *)
(* it returned, and the count it reports                                      *)

Hit(set) == IF op = "insert" THEN 1 ELSE IF set.id = 0 THEN 0 ELSE call.hits[set.id]
Total(sets) == LET sum[n \in 0..Len(sets)] == IF n = 0 THEN 0 ELSE sum[n - 1] + Hit(sets[n]) IN sum[Len(sets)]

\* SQLRowCount: psqlODBC reports one of the sets.
OdbcAffected(sets) == IF RowcountTotals THEN {Total(sets)} ELSE {Hit(sets[i]) : i \in 1..Len(sets)}

OdbcExecute(s) ==
  LET sets == ParamSets(s)
  IN  {[ran |-> sets, ok |-> TRUE, count |-> c] : c \in OdbcAffected(sets)}
      \cup {[ran |-> SubSeq(sets, 1, k), ok |-> FALSE, count |-> 0] : k \in 0..(Len(sets) - 1)}

\* run_batch() of Oracle and libpq, one execute per row, the batch swapped out
\* of the statement first.  It runs in a transaction, see RunReady.
OracleRunBatch(s) ==
  {[ran |-> SubSeq(s.batch, 1, k), ok |-> FALSE, count |-> 0] : k \in 0..(Len(s.batch) - 1)}
  \cup {[ran |-> s.batch, ok |-> TRUE, count |-> Total(s.batch)]}

LibpqRunBatch(s) ==
  IF s.parsed THEN OracleRunBatch(s) ELSE {[ran |-> <<>>, ok |-> FALSE, count |-> 0]}

\* run_ready(): a parse the session lost is made again and the row is run; in an
\* open transaction the answer has aborted it, and the second parse fails.
RunReady(s, row) ==
  {[ran |-> <<>>, ok |-> FALSE, count |-> 0]}
  \cup IF s.parsed \/ autocommit THEN {[ran |-> <<row>>, ok |-> TRUE, count |-> Total(<<row>>)]} ELSE {}

Single(s) == [id |-> s.slots[1].id, text |-> s.slots[1].data]
OracleExecute(s) ==
  IF s.batch # <<>> THEN OracleRunBatch(s)
  ELSE {[ran |-> <<>>, ok |-> FALSE, count |-> 0], [ran |-> <<Single(s)>>, ok |-> TRUE, count |-> Total(<<Single(s)>>)]}
LibpqExecute(s) == IF s.batch # <<>> THEN LibpqRunBatch(s) ELSE RunReady(s, Single(s))

ExecuteBound(s) ==
  CASE server.aborted -> {[ran |-> <<>>, ok |-> FALSE, count |-> 0]}
    [] ~server.aborted /\ Columnar -> OdbcExecute(s)
    [] ~server.aborted /\ kind = "oracle" -> OracleExecute(s)
    [] OTHER -> LibpqExecute(s)

\* The server keeps what ran: in the open transaction, or for good.
Applied(ran, ok) ==
  [server EXCEPT !.pending = IF autocommit THEN @ ELSE @ \o ran,
                 !.durable = IF autocommit THEN @ \o ran ELSE @,
                 !.aborted = @ \/ (kind = "libpq" /\ ~autocommit /\ ~ok)]
-----------------------------------------------------------------------------
(* The calls *)

Idle ==
  [pc |-> "idle", end |-> "none", rows |-> <<>>, hits |-> [i \in 1..MaxRows |-> 0], single |-> FALSE,
   auto |-> TRUE, n |-> 0, chunk |-> 1, start |-> 0, tally |-> 0, sent |-> <<>>]

BatchInit ==
  /\ kind \in Kinds /\ op \in {"insert", "update", "delete"} /\ autocommit \in BOOLEAN
  /\ line = TRUE /\ stmt = NoStatement
  /\ server = [pending |-> <<>>, durable |-> <<>>, aborted |-> FALSE]
  /\ call = Idle

\* The rows of a call, and how many rows on the server each one matches: texts
\* matter to the buffers, which an insert fills, and matches to the counts.
Inputs ==
  UNION {IF op = "insert" THEN {[texts |-> t, hits |-> [i \in 1..MaxRows |-> 1]] : t \in [1..n -> Texts \cup {Null}]}
         ELSE {[texts |-> [i \in 1..n |-> 1], hits |-> h] : h \in [1..MaxRows -> 0..1]} : n \in 0..MaxRows}

\* Mutant: a batch of any size goes to a driver that reports one set's count.
WriteChunkAny(size) == size

\* write_chunk(): an insert needs no totals.
WriteChunk(size) == IF op = "insert" \/ RowcountTotals THEN size ELSE 1

\* insert_impl(), update_batch_impl(), delete_batch_impl(), and the one-row
\* update_single_impl() and delete_single_impl() for `single`.
Start(input, size, single) ==
  /\ call.pc = "idle" /\ call.n < MaxCalls /\ line
  /\ single => Len(input.texts) = 1 /\ op # "insert"
  /\ LET rows == [i \in 1..Len(input.texts) |-> [id |-> i, text |-> input.texts[i]]]
         begun == [Idle EXCEPT !.rows = rows, !.hits = input.hits, !.single = single, !.auto = autocommit,
                               !.n = call.n + 1,
                               !.chunk = IF single THEN 1
                                         ELSE WriteChunk(IF size > 0 THEN size ELSE DefaultParamset)]
     IN  call' = IF rows = <<>> THEN [begun EXCEPT !.end = "returned"] ELSE [begun EXCEPT !.pc = "acquire"]
  /\ server' = [server EXCEPT !.pending = <<>>, !.durable = <<>>]
  /\ UNCHANGED <<kind, op, autocommit, line, stmt>>

\* Mutant: the rows go without a transaction.
AcquireBare ==
  /\ call.pc = "acquire"
  /\ \E parses \in IF stmt # NoStatement THEN {TRUE} ELSE IF server.aborted THEN {FALSE} ELSE BOOLEAN :
       /\ stmt' = IF stmt # NoStatement THEN ResetStatement(stmt) ELSE IF parses THEN Fresh ELSE NoStatement
       /\ call' = [call EXCEPT !.pc = IF parses THEN "write" ELSE "unwind"]
  /\ UNCHANGED <<kind, op, autocommit, line, server>>

\* begin_batch() and acquire_statement(): the text may not parse.
Acquire ==
  /\ call.pc = "acquire"
  /\ autocommit' = (autocommit /\ ~InTransaction)
  /\ \E parses \in IF stmt # NoStatement THEN {TRUE} ELSE IF server.aborted THEN {FALSE} ELSE BOOLEAN :
       /\ stmt' = IF stmt # NoStatement THEN ResetStatement(stmt) ELSE IF parses THEN Fresh ELSE NoStatement
       /\ call' = [call EXCEPT !.pc = IF parses THEN "write" ELSE "unwind"]
  /\ UNCHANGED <<kind, op, line, server>>

\* One turn of a batch loop: rows extracted or staged, bound, executed, tallied.
Bound(count) ==
  LET rows == SubSeq(call.rows, call.start + 1, call.start + count)
  IN  CASE call.single -> BindOne(stmt, call.rows[1])
        [] ~call.single /\ Columnar -> StageChunk(stmt, call.rows, call.start, count, call.chunk)
        [] OTHER -> [stmt EXCEPT !.batch = rows]

\* The executed statement: a batch was swapped out of it.
WriteOne ==
  /\ call.pc = "write"
  /\ LET count == Min({call.chunk, Len(call.rows) - call.start})
         bound == Bound(count)
     IN  \E r \in ExecuteBound(bound), dies \in BOOLEAN :
           /\ dies => ~r.ok
           /\ line' = ~dies
           /\ stmt' = IF r.ok THEN [bound EXCEPT !.batch = <<>>, !.parsed = TRUE] ELSE NoStatement
           /\ server' = LET s == Applied(r.ran, r.ok) IN IF dies THEN [s EXCEPT !.pending = <<>>] ELSE s
           /\ call' =
                [call EXCEPT
                   !.sent = @ \o r.ran,
                   !.start = @ + count,
                   !.tally = @ + (IF Columnar /\ op = "insert" THEN count ELSE r.count),
                   !.pc = CASE ~r.ok -> "unwind"
                            [] r.ok /\ call.start + count < Len(call.rows) -> "write"
                            [] OTHER -> "commit"]
  /\ UNCHANGED <<kind, op, autocommit>>

\* txn->commit(), which restores the mode; the line may break on either side of
\* the server's commit, and the server may refuse, which ends its transaction.
CommitBatch ==
  /\ call.pc = "commit" /\ InTransaction
  /\ \E kept, ok, dies \in BOOLEAN :
       /\ dies => ~ok
       /\ ok => kept
       /\ (~ok /\ kept) => dies
       /\ server' = [pending |-> <<>>, durable |-> IF kept THEN server.durable \o server.pending ELSE server.durable,
                     aborted |-> FALSE]
       /\ line' = ~dies /\ autocommit' = ok
       /\ call' = [call EXCEPT !.pc = IF ok THEN "idle" ELSE "unwind",
                               !.end = IF ok THEN "returned" ELSE @]
  /\ UNCHANGED <<kind, op, stmt>>

Return ==
  /\ call.pc = "commit" /\ ~InTransaction
  /\ call' = [call EXCEPT !.pc = "idle", !.end = "returned"]
  /\ UNCHANGED <<kind, op, autocommit, line, server, stmt>>

\* Mutant: nobody rolls back.
UnwindOpen ==
  /\ call.pc = "unwind"
  /\ call' = [call EXCEPT !.pc = "idle", !.end = "thrown"]
  /\ UNCHANGED <<kind, op, autocommit, line, server, stmt>>

\* The exception passes ~transaction(): rolled back and the mode restored,
\* unless the line is gone.
Unwind ==
  /\ call.pc = "unwind"
  /\ IF InTransaction /\ line
     THEN server' = [server EXCEPT !.pending = <<>>, !.aborted = FALSE] /\ autocommit' = TRUE
     ELSE UNCHANGED <<server, autocommit>>
  /\ call' = [call EXCEPT !.pc = "idle", !.end = "thrown"]
  /\ UNCHANGED <<kind, op, line, stmt>>

\* In manual mode the caller ends a transaction that is no good.
CallerRollback ==
  /\ call.pc = "idle" /\ ~autocommit /\ line /\ server.aborted
  /\ server' = [server EXCEPT !.pending = <<>>, !.aborted = FALSE]
  /\ UNCHANGED <<kind, op, autocommit, line, stmt, call>>

\* A session that does not keep its server connection loses its parses.
LoseParse ==
  /\ kind = "libpq" /\ stmt # NoStatement /\ stmt.parsed
  /\ stmt' = [stmt EXCEPT !.parsed = FALSE]
  /\ UNCHANGED <<kind, op, autocommit, line, server, call>>

BatchNext ==
  \/ \E input \in Inputs, size \in 0..MaxChunk, single \in BOOLEAN : Start(input, size, single)
  \/ Acquire \/ WriteOne \/ CommitBatch \/ Return \/ Unwind \/ CallerRollback \/ LoseParse

BatchSpec == BatchInit /\ [][BatchNext]_batchVars
-----------------------------------------------------------------------------
\* What runs on the server is what the call was given, each row once and in
\* order, whole, NULL where it is NULL: no set a cached statement's last use left
\* behind, no row of an earlier chunk (orm.cpp:581-674, odbc/statement.cpp:89-113,
\* libpq/statement.cpp:327-374).
SentAsGiven ==
  /\ Len(call.sent) <= Len(call.rows)
  /\ call.sent = SubSeq(call.rows, 1, Len(call.sent))

\* orm.cpp:676 "A sweep must not half-commit": on an autocommitting connection a
\* call that ended left all of its rows or none, all when it returned; in manual
\* mode it left nothing for good (orm.cpp:676-722).
NoHalfCommit ==
  call.pc = "idle" /\ call.n > 0 =>
    /\ server.durable \in {<<>>, call.rows}
    /\ (call.auto /\ call.end = "returned" => server.durable = call.rows)
    /\ (~call.auto => server.durable = <<>>)

\* The number a call returns is the number of rows it inserted, or that its
\* parameter sets matched, whatever a driver reports for an array
\* (orm.cpp:461-464, 646-669, 686-690).
CountIsTrue ==
  call.end = "returned" => call.tally = Total(call.rows)

\* A connection that lives is in the mode the call found it in, with no
\* transaction of the call's left open (orm.cpp:676-684, 718-722).
ModeGivenBack ==
  call.pc = "idle" /\ call.n > 0 /\ line =>
    autocommit = call.auto /\ (autocommit => server.pending = <<>> /\ ~server.aborted)

\* A batch is written as it was given, all of it or nothing, and leaves the
\* connection as it was (orm.cpp:581-722).
BatchWhole == SentAsGiven /\ NoHalfCommit /\ ModeGivenBack
=============================================================================
