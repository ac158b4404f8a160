----------------------------- MODULE ResultFetch -----------------------------
(***************************************************************************)
(* Reading a result set in blocks: result_set (src/result_set.cpp), the    *)
(* typed readers fetch_rows() and fetch_one() with their field bindings    *)
(* (include/uniorm/detail), and the fetching half of the three backends'   *)
(* statements.  A result has a key column and one wide nullable column, of *)
(* texts, bytes or LOBs; a value is the row it is from and its length.     *)
(*                                                                         *)
(* Readers follow one another on one statement text, so that each gets the *)
(* statement the one before it gave back.                                  *)
(***************************************************************************)
EXTENDS Integers, Sequences, FiniteSetsExt

CONSTANTS
  FetchKinds,     \* of "libpq", "oracle", "odbc"
  MaxResult,      \* rows of a result
  Arrays,         \* row array sizes
  SlotBytes,      \* bytes of the buffer slot of the wide column
  MaxReaders,
  LongInBlocks,   \* ODBC readers of several rows meet values longer than their slots
  Narrowing       \* an ODBC reader may bind fewer columns than the one before it

ASSUME FetchAssumption ==
  /\ FetchKinds \subseteq {"libpq", "oracle", "odbc"} /\ Arrays \subseteq Nat \ {0}
  /\ MaxResult \in Nat /\ SlotBytes \in Nat \ {0}

VARIABLES
  backend,   \* of the connection
  result,    \* [wide, lens]: what the query selects
  handle,    \* the statement, see HandleType
  reader     \* the one at work, see ReaderType

fetchVars == <<backend, result, handle, reader>>

Columns == {1, 2}
Nothing == -1       \* the length of NULL, null_indicator
NoTotal == -4       \* no_total
Lengths == {Nothing} \cup (SlotBytes - 1)..(SlotBytes + 1)
Values == [from : 0..MaxResult, len : Lengths \cup {0, 1}]
NullValue == [from |-> 0, len |-> Nothing]
NoValue == [from |-> 0, len |-> 0]

HandleType ==
  [array : Nat,                          \* row_array_size_, SQL_ATTR_ROW_ARRAY_SIZE
   bound : [Columns -> 0..MaxReaders],   \* whose buffers a column is fetched into; 0: nobody's
   cursor : 0..MaxResult,                \* rows fetched so far
   start : 0..MaxResult, fetched : Nat,  \* the block: block_start_, rows_fetched_
   spent : BOOLEAN,                      \* exhausted_: the cursor answered no data
   staged : Nat,                         \* rows of Oracle's staging
   wide : SUBSET Nat,                    \* wide_rows of the wide column's slot
   got : BOOLEAN,                        \* SQLGetData has read the column of this row
   wrong : SUBSET {"asked again", "owes no read", "foreign buffer", "short buffer",
                      "bound twice"}]

ReaderType ==
  [n : 0..MaxReaders, kind : {"none", "result_set", "rows", "one"}, cols : SUBSET Columns,
   array : Nat, row : Nat, pc : {"idle", "reading", "ended", "thrown"},
   ind : [Columns -> Seq(Int)], data : [Columns -> Seq(Values)],
   out : Seq([Columns -> Values])]

Cell(row, column) ==
  IF column = 1 THEN [from |-> row, len |-> 1]
  ELSE IF result.lens[row] = Nothing THEN NullValue
  ELSE [from |-> row, len |-> result.lens[row]]

\* The longest value a slot of the wide column holds whole: a text leaves room
\* for a terminator.
Limit(wide) == IF wide = "bytes" THEN SlotBytes ELSE SlotBytes - 1
-----------------------------------------------------------------------------
(* Statements *)

NewHandle ==
  [array |-> 1, bound |-> [c \in Columns |-> 0], cursor |-> 0, start |-> 0, fetched |-> 0,
   spent |-> FALSE, staged |-> 0, wide |-> {}, got |-> FALSE, wrong |-> {}]

\* reset(): libpq and Oracle drop their slots and keep the array size, ODBC sets
\* the size back and leaves the columns bound.
LibpqReset(h) == [NewHandle EXCEPT !.array = h.array, !.wrong = h.wrong]
OracleReset(h) == [NewHandle EXCEPT !.array = h.array, !.wrong = h.wrong]
OdbcReset(h) == [NewHandle EXCEPT !.bound = h.bound, !.wrong = h.wrong]

ResetHandle(h) ==
  CASE backend = "libpq" -> LibpqReset(h) [] backend = "oracle" -> OracleReset(h) [] OTHER -> OdbcReset(h)

\* The rows of a block that owe a read of their own.
OwesRead(len) == len # Nothing /\ (result.wide = "lob" \/ len > Limit(result.wide))

\* The indicator of a value that is put into a slot of the wide column: limit + 1
\* for what libpq and Oracle cut off, the driver's own for ODBC, and no length at
\* all for what stays behind a locator.
LibpqIndicators(len) == {IF len <= Limit(result.wide) THEN len ELSE Limit(result.wide) + 1}
OracleIndicators(len) ==
  {IF result.wide = "lob" THEN NoTotal ELSE IF len <= Limit(result.wide) THEN len ELSE Limit(result.wide) + 1}
OdbcIndicators(len) == IF len <= Limit(result.wide) THEN {len} ELSE {len, NoTotal}

Indicators(len) ==
  CASE len = Nothing -> {Nothing}
    [] len # Nothing /\ backend = "libpq" -> LibpqIndicators(len)
    [] len # Nothing /\ backend = "oracle" -> OracleIndicators(len)
    [] OTHER -> OdbcIndicators(len)

\* fetch(): the next block, empty at the end.
Advanced(h, n) == [h EXCEPT !.cursor = @ + n, !.start = h.cursor, !.fetched = n, !.got = FALSE]
Left(h) == Min({h.array, Len(result.lens) - h.cursor})

LibpqFetch(h) == Advanced(h, Left(h))

\* Mutant: the cursor is asked until it brings nothing.
OracleFetchOn(h) ==
  [Advanced(h, Left(h)) EXCEPT
      !.spent = @ \/ Left(h) < h.array,
      !.wide = {i \in 1..Left(h) : OwesRead(result.lens[h.cursor + i])},
      !.wrong = IF h.spent THEN @ \cup {"asked again"} ELSE @]

\* Oracle's cursor says that it is spent with the block it could not fill, and may
\* not be asked after that; materialize() notes the rows that owe a read.
OracleFetch(h) ==
  IF h.spent THEN [h EXCEPT !.fetched = 0]
  ELSE [Advanced(h, Left(h)) EXCEPT
           !.spent = Left(h) < h.array,
           !.wide = {i \in 1..Left(h) : OwesRead(result.lens[h.cursor + i])}]

OdbcFetch(h) == Advanced(h, Left(h))

Block(h) ==
  CASE backend = "libpq" -> LibpqFetch(h) [] backend = "oracle" -> OracleFetch(h) [] OTHER -> OdbcFetch(h)

\* materialize() and SQLFetch write into what is bound.
Checked(h) ==
  [h EXCEPT !.wrong = @ \cup (IF \E c \in Columns : h.bound[c] \notin {0, reader.n} THEN {"foreign buffer"} ELSE {})
                        \cup (IF h.fetched > reader.array \/ (backend = "oracle" /\ h.fetched > h.staged) THEN {"short buffer"} ELSE {})]

\* read_long_text(), read_long_bytes() of a row of the block.  SQLGetData goes by
\* the driver's row, which is the block's first, and gives it once.
LibpqReadLong(h, row) == [value |-> Cell(h.start + row, 2), h |-> h]
OracleReadLong(h, row) ==
  [value |-> Cell(h.start + row, 2),
   h |-> IF row \in h.wide THEN h ELSE [h EXCEPT !.wrong = @ \cup {"owes no read"}]]
OdbcReadLong(h, row) ==
  LET current == Cell(h.start + 1, 2)
  IN  [value |-> IF h.got \/ current.len = Nothing THEN NoValue ELSE current, h |-> [h EXCEPT !.got = TRUE]]

ReadLong(h, row) ==
  CASE backend = "libpq" -> LibpqReadLong(h, row)
    [] backend = "oracle" -> OracleReadLong(h, row)
    [] OTHER -> OdbcReadLong(h, row)

\* bind_column(): ODBC replaces a binding, the others refuse a second one; Oracle
\* makes staging for as many rows as the array has by then.
Twice(h, cols) == IF \E c \in cols : h.bound[c] # 0 THEN {"bound twice"} ELSE {}
OdbcBind(h, n, cols) == [h EXCEPT !.bound = [c \in Columns |-> IF c \in cols THEN n ELSE @[c]]]
LibpqBind(h, n, cols) == [OdbcBind(h, n, cols) EXCEPT !.wrong = @ \cup Twice(h, cols)]
OracleBind(h, n, cols) == [LibpqBind(h, n, cols) EXCEPT !.staged = h.array]

Bind(h, n, cols, array) ==
  LET sized == [h EXCEPT !.array = array] IN
  CASE backend = "libpq" -> LibpqBind(sized, n, cols)
    [] backend = "oracle" -> OracleBind(sized, n, cols)
    [] OTHER -> OdbcBind(sized, n, cols)
-----------------------------------------------------------------------------
(* Readers.  An application looks at each row of a result set once. *)

NoReader ==
  [n |-> 0, kind |-> "none", cols |-> {}, array |-> 1, row |-> 0, pc |-> "idle",
   ind |-> [c \in Columns |-> <<>>], data |-> [c \in Columns |-> <<>>], out |-> <<>>]

Results == [wide : {"text", "bytes", "lob"}, lens : UNION {[1..n -> Lengths] : n \in 0..MaxResult}]

FetchInit ==
  /\ backend \in FetchKinds /\ result \in Results
  /\ backend # "oracle" => result.wide # "lob"
  /\ handle = NewHandle /\ reader = NoReader

HasLong == \E i \in 1..Len(result.lens) : OwesRead(result.lens[i])

\* What block sizes and narrower readers a run lets ODBC have.
Allowed(cols, array) ==
  backend = "odbc" => (array > 1 => LongInBlocks \/ ~HasLong) /\ (Narrowing \/ cols = Columns)

\* The statement is acquired, executed and bound.
Open(kind, cols, array) ==
  /\ reader.pc = "idle" /\ reader.n < MaxReaders
  /\ Allowed(cols, array)
  /\ handle' = Bind(ResetHandle(handle), reader.n + 1, cols, array)
  /\ reader' = [NoReader EXCEPT !.n = reader.n + 1, !.kind = kind, !.cols = cols, !.array = array,
                   !.pc = "reading",
                   !.ind = [c \in Columns |-> [i \in 1..array |-> 0]],
                   !.data = [c \in Columns |-> [i \in 1..array |-> NoValue]]]
  /\ UNCHANGED <<backend, result>>

\* describe_and_bind(): every column of the result.
OpenResultSet(array) == Open("result_set", Columns, array)

\* entity_binding::bind(): the mapped columns, wherever they stand.
OpenEntity(kind, cols, array) == (kind = "one" => array = 1) /\ Open(kind, cols, array)

\* projection::bind(): the first columns, one per field.
OpenProjection(fields, array) == Open("rows", 1..fields, array)

\* What a slot holds of a value: its beginning, or nothing of a LOB.
InSlot(row, column) ==
  IF column = 1 \/ ~OwesRead(result.lens[row]) THEN Cell(row, column)
  ELSE IF result.wide = "lob" THEN NoValue
  ELSE [from |-> row, len |-> Limit(result.wide)]

\* The buffers of a block: the rows after its last keep what they had.
Filled(h, column, inds) ==
  [ind |-> [i \in 1..reader.array |-> IF i <= h.fetched THEN inds[i] ELSE reader.ind[column][i]],
   data |-> [i \in 1..reader.array |-> IF i <= h.fetched THEN InSlot(h.start + i, column) ELSE reader.data[column][i]]]

\* next() at the end of a block, and the loop of fetch_rows().  A result set may
\* be asked again after its end.
Fetch ==
  /\ reader.pc = "reading" \/ (reader.pc = "ended" /\ reader.kind = "result_set")
  /\ reader.pc = "reading" => reader.row = handle.fetched
  /\ LET h == Checked(Block(handle))
     IN  /\ handle' = h
         /\ IF h.fetched = 0 THEN reader' = [reader EXCEPT !.pc = "ended"]
            ELSE \E inds \in [1..h.fetched -> UNION {Indicators(len) : len \in Lengths}] :
                   /\ \A i \in 1..h.fetched : inds[i] \in Indicators(result.lens[h.start + i])
                   /\ LET key == Filled(h, 1, [i \in 1..h.fetched |-> 1])
                          wide == Filled(h, 2, inds)
                      IN  reader' = [reader EXCEPT !.row = 0, !.ind = <<key.ind, wide.ind>>,
                                                   !.data = <<key.data, wide.data>>]
  /\ UNCHANGED <<backend, result>>

\* A value the reader takes for cut off.
value_of_cut(ind) == ind < 0 \/ ind > Limit(result.wide)

\* Mutant: a text that fills its slot is taken for whole.
StringCutLate(ind) == ind = NoTotal \/ ind > SlotBytes

string_cut(ind) == ind = NoTotal \/ ind > SlotBytes - 1
binary_cut(ind) == ind = NoTotal \/ ind > SlotBytes

\* make_field_binding(): by the type of the field, which follows the column's.
field_cut(ind) == IF result.wide = "bytes" THEN binary_cut(ind) ELSE string_cut(ind)
CutOff(ind) == IF reader.kind = "result_set" THEN value_of_cut(ind) ELSE field_cut(ind)

\* The row at `row` of the block, and the statement after it was read.
RowAt(row) ==
  LET ind == reader.ind[2][row]
      null == 2 \in reader.cols /\ ind = Nothing
      cut == 2 \in reader.cols /\ ~null /\ CutOff(ind)
      long == ReadLong(handle, row)
  IN  [null |-> null,
       h |-> IF cut THEN long.h ELSE handle,
       values |-> [c \in Columns |->
                     CASE c \notin reader.cols -> NoValue
                       [] c \in reader.cols /\ c = 1 -> reader.data[1][row]
                       [] c \in reader.cols /\ c = 2 /\ null -> NullValue
                       [] c \in reader.cols /\ c = 2 /\ cut -> long.value
                       [] OTHER -> reader.data[2][row]]]

\* next() inside a block and current(): a NULL is a value of the row.
Current ==
  /\ reader.pc = "reading" /\ reader.kind = "result_set" /\ reader.row < handle.fetched
  /\ LET got == RowAt(reader.row + 1)
     IN  /\ handle' = got.h
         /\ reader' = [reader EXCEPT !.row = @ + 1, !.out = Append(@, got.values)]
  /\ UNCHANGED <<backend, result>>

\* fill_into() and take() of one row: an optional field is reset by NULL, which
\* stops any other field and the rows of its block with it.
Took(got) ==
  [reader EXCEPT !.row = @ + 1, !.out = Append(@, got.values), !.pc = IF reader.kind = "one" THEN "ended" ELSE @]
FillField(got) ==
  IF got.null THEN [reader EXCEPT !.out = SubSeq(@, 1, handle.start), !.pc = "thrown"] ELSE Took(got)
FillOptional(got) == Took(got)

FillInto(optional) ==
  /\ reader.pc = "reading" /\ reader.kind # "result_set" /\ reader.row < handle.fetched
  /\ LET got == RowAt(reader.row + 1)
     IN  /\ handle' = got.h
         /\ reader' = IF optional THEN FillOptional(got) ELSE FillField(got)
  /\ UNCHANGED <<backend, result>>

\* The reader goes, a result set at any time; its statement returns to the cache
\* unless an exception took it.
Close ==
  /\ reader.pc \in {"ended", "thrown"} \/ (reader.kind = "result_set" /\ reader.pc = "reading")
  /\ handle' = IF reader.pc = "thrown" THEN [NewHandle EXCEPT !.wrong = handle.wrong] ELSE handle
  /\ reader' = [NoReader EXCEPT !.n = reader.n]
  /\ UNCHANGED <<backend, result>>

FetchNext ==
  \/ \E array \in Arrays :
       \/ OpenResultSet(array)
       \/ \E kind \in {"rows", "one"}, cols \in (SUBSET Columns) \ {{}} : OpenEntity(kind, cols, array)
       \/ \E fields \in 1..2 : OpenProjection(fields, array)
  \/ Fetch \/ Current \/ Close
  \/ \E optional \in BOOLEAN : FillInto(optional)

FetchSpec == FetchInit /\ [][FetchNext]_fetchVars
-----------------------------------------------------------------------------
Stored(row) == [c \in Columns |-> IF c \in reader.cols THEN Cell(row, c) ELSE NoValue]

\* backend.hpp:170-176 "a read takes that row's value": a reader gets the rows of
\* the result in order, each with its own values, long ones whole, whatever the
\* block size, and the last fetch comes when it has them all
\* (result_set.cpp:166-254, fetch_rows.hpp:24-72, the backends' fetch() and
\* read_long_*()).
RowsAsStored ==
  /\ Len(reader.out) <= Len(result.lens)
  /\ \A i \in 1..Len(reader.out) : reader.out[i] = Stored(i)
  /\ reader.pc = "ended" /\ reader.kind # "one" => Len(reader.out) = Len(result.lens)

\* oracle_oci/statement.cpp:587 "Asking it again is an error", :870-876, and the
\* buffers of backend.hpp's reset(): no driver is asked for what it has not got,
\* and none writes into buffers that are too short or whose owner is gone.
DriverNotMisused == handle.wrong = {}

\* Rows are read as they are stored, without misusing a driver
\* (result_set.cpp:166-254, fetch_rows.hpp:24-72, oracle_oci/statement.cpp:587).
RowsRead == RowsAsStored /\ DriverNotMisused
=============================================================================
