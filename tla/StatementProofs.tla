--------------------------- MODULE StatementProofs ---------------------------
(***************************************************************************)
(* Theorems about what runs on one connection: readers of results, for     *)
(* every result, size of slots and blocks, and number of readers; then     *)
(* batches of entity writes, for every number of rows and calls and every  *)
(* size of texts, chunks and buffers.                                      *)
(***************************************************************************)
EXTENDS BatchWrite, ResultFetch, SequenceTheorems, WellFoundedInduction, TLAPS

USE FetchAssumption

Cells == [from : Nat, len : Int]

\* Nothing was ever done wrong; the buffers hold what BlockInv says.
FetchTyped ==
  /\ backend \in {"libpq", "oracle", "odbc"}
  /\ result \in [wide : {"text", "bytes", "lob"}, lens : Seq(Lengths)]
  /\ backend # "oracle" => result.wide # "lob"
  /\ handle \in [array : Nat, bound : [Columns -> Nat], cursor : Nat, start : Nat, fetched : Nat,
                 spent : BOOLEAN, staged : Nat, wide : SUBSET Nat, got : BOOLEAN, wrong : {{}}]
  /\ reader \in [n : Nat, kind : {"none", "result_set", "rows", "one"}, cols : SUBSET Columns,
                 array : Nat \ {0}, row : Nat, pc : {"idle", "reading", "ended", "thrown"},
                 ind : {reader.ind}, data : {reader.data}, out : Seq([Columns -> Cells])]

\* The rows a reader took are the first rows of the result.
OutInv ==
  /\ Len(reader.out) <= Len(result.lens)
  /\ \A i \in 1..Len(reader.out) : reader.out[i] = Stored(i)
  /\ reader.pc = "idle" => reader.out = <<>>

\* The buffers of a block hold the rows after `start`, and Oracle knows which of
\* them owe a read.
BlockInv ==
  \A i \in 1..handle.fetched :
    /\ reader.ind[2][i] \in Indicators(result.lens[handle.start + i])
    /\ reader.data[1][i] = Cell(handle.start + i, 1) /\ reader.data[2][i] = InSlot(handle.start + i, 2)
    /\ backend = "oracle" => (i \in handle.wide <=> OwesRead(result.lens[handle.start + i]))

\* The statement of a reader at work: its own buffers, long enough, and a cursor
\* as far as the rows it took and the block it looks at.
ServeInv ==
  reader.pc \in {"reading", "ended"} =>
    /\ handle.array = reader.array /\ \A c \in Columns : handle.bound[c] \in {0, reader.n}
    /\ handle.cursor <= Len(result.lens) /\ handle.fetched <= reader.array
    /\ backend = "oracle" => handle.staged = reader.array
    /\ backend = "oracle" /\ handle.spent => handle.cursor = Len(result.lens)
    /\ backend = "odbc" /\ reader.array > 1 => ~HasLong
    /\ handle.fetched > 0 => handle.start + handle.fetched = handle.cursor /\ BlockInv
    /\ reader.pc = "reading" =>
         /\ reader.row <= handle.fetched
         /\ Len(reader.out) = IF handle.fetched > 0 THEN handle.start + reader.row ELSE handle.cursor
         /\ handle.got => reader.row > 0
    /\ reader.pc = "ended" /\ reader.kind # "one" =>
         handle.cursor = Len(result.lens) /\ Len(reader.out) = Len(result.lens)

FetchInv == FetchTyped /\ OutInv /\ ServeInv
-----------------------------------------------------------------------------
(* Values and indicators *)

LEMMA LengthsAreInts == Lengths \subseteq Int /\ \A len \in Lengths : len # Nothing => len \in Nat
  BY DEF Lengths, Nothing

LEMMA CellTyped ==
  ASSUME FetchTyped, NEW k \in 1..Len(result.lens), NEW c \in Columns
  PROVE  result.lens[k] \in Lengths /\ Cell(k, c) \in Cells
  <1>1. result.lens \in Seq(Lengths) /\ Len(result.lens) \in Nat
    BY LenProperties DEF FetchTyped
  <1>2. result.lens[k] \in Lengths /\ result.lens[k] \in Int /\ k \in Nat
    <2>1. result.lens[k] \in Lengths
      BY <1>1, ElementOfSeq
    <2>2. k \in Nat
      BY <1>1
    <2>3. result.lens[k] \in Int
      BY <2>1, LengthsAreInts, Zenon
    <2> QED BY <2>1, <2>2, <2>3
  <1> QED BY <1>2 DEF Cell, Cells, NullValue, Nothing

LEMMA StoredTyped ==
  ASSUME FetchTyped, NEW k \in 1..Len(result.lens)
  PROVE  Stored(k) \in [Columns -> Cells]
  <1>1. \A c \in Columns : Cell(k, c) \in Cells
    BY CellTyped
  <1>2. NoValue \in Cells
    BY DEF NoValue, Cells
  <1> QED BY <1>1, <1>2 DEF Stored

\* A reader takes a value for cut off exactly when the backend keeps the rest of
\* it, whichever backend wrote the indicator and whichever binding reads it.
LEMMA CutWhenOwed ==
  ASSUME FetchTyped, NEW len \in Lengths, len # Nothing, NEW ind \in Indicators(len)
  PROVE  ind # Nothing /\ (CutOff(ind) <=> OwesRead(len))
  <1> DEFINE lim == Limit(result.wide)
  <1>1. len \in Nat /\ SlotBytes \in Nat \ {0}
    BY LengthsAreInts
  <1>2. /\ lim \in Nat /\ (result.wide = "bytes" => lim = SlotBytes)
        /\ result.wide # "bytes" => lim = SlotBytes - 1
    BY DEF Limit
  <1>3. backend # "oracle" => result.wide # "lob"
    BY DEF FetchTyped
  <1>4. CutOff(ind) <=> IF reader.kind = "result_set" THEN ind < 0 \/ ind > lim ELSE ind = NoTotal \/ ind > lim
    <2>1. CASE result.wide = "bytes"
      BY <1>2, <2>1 DEF CutOff, value_of_cut, field_cut, binary_cut
    <2>2. CASE result.wide # "bytes"
      BY <1>2, <2>2 DEF CutOff, value_of_cut, field_cut, string_cut
    <2> QED BY <2>1, <2>2
  <1>5. OwesRead(len) <=> (result.wide = "lob" \/ len > lim)
    BY DEF OwesRead
  <1>6. \/ ind = NoTotal /\ OwesRead(len)
        \/ ind = len /\ len <= lim /\ result.wide # "lob"
        \/ ind > lim /\ ind \in Nat /\ OwesRead(len)
    <2> HIDE DEF lim
    <2>1. CASE backend = "libpq"
      <3>1. ind = IF len <= lim THEN len ELSE lim + 1
        BY <2>1 DEF Indicators, LibpqIndicators, lim
      <3> QED BY <1>1, <1>2, <1>3, <1>5, <2>1, <3>1
    <2>2. CASE backend = "oracle"
      <3>1. ind = IF result.wide = "lob" THEN NoTotal ELSE IF len <= lim THEN len ELSE lim + 1
        BY <2>2 DEF Indicators, OracleIndicators, lim
      <3> QED BY <1>1, <1>2, <1>5, <3>1
    <2>3. CASE backend = "odbc"
      <3>1. ind \in IF len <= lim THEN {len} ELSE {len, NoTotal}
        BY <2>3 DEF Indicators, OdbcIndicators, lim
      <3> QED BY <1>1, <1>2, <1>3, <1>5, <2>3, <3>1
    <2> QED BY <2>1, <2>2, <2>3 DEF FetchTyped
  <1> HIDE DEF lim
  <1>7. CASE ind = NoTotal /\ OwesRead(len)
    BY <1>4, <1>7 DEF NoTotal, Nothing
  <1>8. CASE ind = len /\ len <= lim /\ result.wide # "lob"
    BY <1>1, <1>2, <1>4, <1>5, <1>8 DEF NoTotal, Nothing
  <1>9. CASE ind > lim /\ ind \in Nat /\ OwesRead(len)
    BY <1>2, <1>4, <1>9 DEF NoTotal, Nothing
  <1> QED BY <1>6, <1>7, <1>8, <1>9

\* A row of the block is read as it is stored; all a read changes is that
\* SQLGetData gave its value.
LEMMA RowIsStored ==
  ASSUME FetchInv, reader.pc = "reading", reader.row < handle.fetched
  PROVE  /\ handle.start + reader.row + 1 \in 1..Len(result.lens)
         /\ RowAt(reader.row + 1).values = Stored(handle.start + reader.row + 1)
         /\ RowAt(reader.row + 1).h \in {handle, [handle EXCEPT !.got = TRUE]}
         /\ Len(reader.out) = handle.start + reader.row
  <1> DEFINE row == reader.row + 1
             k == handle.start + row
             ind == reader.ind[2][row]
             len == result.lens[k]
             null == 2 \in reader.cols /\ ind = Nothing
             cut == 2 \in reader.cols /\ ~null /\ CutOff(ind)
             long == ReadLong(handle, row)
  <1>1. /\ handle.fetched \in Nat /\ handle.start \in Nat /\ handle.cursor \in Nat /\ reader.row \in Nat
        /\ reader.array \in Nat \ {0} /\ reader.cols \subseteq Columns
    BY DEF FetchInv, FetchTyped
  <1>2. /\ handle.start + handle.fetched = handle.cursor /\ handle.cursor <= Len(result.lens) /\ BlockInv
        /\ handle.fetched <= reader.array /\ Len(reader.out) = handle.start + reader.row
        /\ backend = "odbc" /\ reader.array > 1 => ~HasLong
        /\ handle.got => reader.row > 0
    BY <1>1 DEF FetchInv, ServeInv
  <1>3. Len(result.lens) \in Nat
    BY LenProperties DEF FetchInv, FetchTyped
  <1>4. row \in 1..handle.fetched /\ k \in 1..Len(result.lens) /\ k = (handle.start + reader.row) + 1
    BY <1>1, <1>2, <1>3
  <1>5. /\ ind \in Indicators(len)
        /\ reader.data[1][row] = Cell(k, 1) /\ reader.data[2][row] = InSlot(k, 2)
        /\ backend = "oracle" => (row \in handle.wide <=> OwesRead(len))
    BY <1>2, <1>4 DEF BlockInv
  <1>6. len \in Lengths
    BY <1>4, CellTyped DEF FetchInv, Columns
  <1> HIDE DEF row, k
  <1>7. len = Nothing => ind = Nothing
    BY <1>5 DEF Indicators
  <1>8. len # Nothing => ind # Nothing /\ (CutOff(ind) <=> OwesRead(len))
    BY <1>5, <1>6, CutWhenOwed DEF FetchInv
  <1>9. cut => /\ OwesRead(len) /\ len # Nothing /\ long.value = Cell(k, 2)
               /\ long.h \in {handle, [handle EXCEPT !.got = TRUE]}
    <2> SUFFICES ASSUME cut
                 PROVE  /\ OwesRead(len) /\ len # Nothing /\ long.value = Cell(k, 2)
                        /\ long.h \in {handle, [handle EXCEPT !.got = TRUE]}
      BY Zenon
    <2>1. len # Nothing /\ OwesRead(len)
      BY <1>7, <1>8
    <2>2. CASE backend = "libpq"
      <3>1. long = [value |-> Cell(k, 2), h |-> handle]
        BY <2>2 DEF ReadLong, LibpqReadLong, k
      <3> QED BY <2>1, <3>1
    <2>3. CASE backend = "oracle"
      <3>1. row \in handle.wide
        BY <1>5, <2>1, <2>3
      <3>2. long = [value |-> Cell(k, 2), h |-> handle]
        BY <2>3, <3>1 DEF ReadLong, OracleReadLong, k
      <3> QED BY <2>1, <3>2
    <2>4. CASE backend = "odbc"
      <3>1. HasLong
        BY <1>4, <2>1 DEF HasLong
      <3>2. reader.row = 0 /\ ~handle.got /\ handle.start + 1 = k
        BY <1>1, <1>2, <2>4, <3>1 DEF k, row
      <3>3. Cell(k, 2).len # Nothing
        BY <2>1 DEF Cell
      <3>4. long = [value |-> Cell(k, 2), h |-> [handle EXCEPT !.got = TRUE]]
        BY <2>4, <3>2, <3>3, Zenon DEF ReadLong, OdbcReadLong
      <3> QED BY <2>1, <3>4
    <2> QED BY <2>2, <2>3, <2>4 DEF FetchInv, FetchTyped
  <1>10. 2 \in reader.cols =>
           Cell(k, 2) = IF null THEN NullValue ELSE IF cut THEN long.value ELSE reader.data[2][row]
    <2> SUFFICES ASSUME 2 \in reader.cols
                 PROVE  Cell(k, 2) = IF null THEN NullValue ELSE IF cut THEN long.value ELSE reader.data[2][row]
      BY Zenon
    <2>1. CASE null
      BY <1>8, <2>1 DEF Cell
    <2>2. CASE cut
      BY <1>9, <2>2, Zenon
    <2>3. CASE ~null /\ ~cut
      <3>1. ~OwesRead(len)
        BY <1>7, <1>8, <2>3 DEF OwesRead
      <3>2. InSlot(k, 2) = Cell(k, 2)
        BY <3>1, Zenon DEF InSlot
      <3> QED BY <1>5, <2>3, <3>2, Zenon
    <2> QED BY <2>1, <2>2, <2>3, Zenon
  <1> DEFINE got == RowAt(row)
  <1>11. got.values = Stored(k)
    <2>1. got.values = [c \in Columns |->
                          CASE c \notin reader.cols -> NoValue
                            [] c \in reader.cols /\ c = 1 -> reader.data[1][row]
                            [] c \in reader.cols /\ c = 2 /\ null -> NullValue
                            [] c \in reader.cols /\ c = 2 /\ cut -> long.value
                            [] OTHER -> reader.data[2][row]]
      BY DEF RowAt
    <2> HIDE DEF got, null, cut, long, ind
    <2>2. got.values = [c \in Columns |-> got.values[c]]
      BY <2>1
    <2>3. got.values[1] = IF 1 \in reader.cols THEN Cell(k, 1) ELSE NoValue
      BY <1>5, <2>1 DEF Columns
    <2>4. got.values[2] = IF 2 \in reader.cols THEN Cell(k, 2) ELSE NoValue
      <3>1. cut => ~null
        BY Zenon DEF cut
      <3> QED BY <1>10, <2>1, <3>1 DEF Columns
    <2>5. \A c \in Columns : got.values[c] = IF c \in reader.cols THEN Cell(k, c) ELSE NoValue
      BY <2>3, <2>4 DEF Columns
    <2> QED BY <2>2, <2>5, Zenon DEF Stored
  <1>12. got.h \in {handle, [handle EXCEPT !.got = TRUE]}
    <2>1. got.h = IF cut THEN long.h ELSE handle
      BY DEF RowAt
    <2> HIDE DEF got, cut, long
    <2> QED BY <1>9, <2>1, Zenon
  <1> HIDE DEF got
  <1>13. k = handle.start + reader.row + 1 /\ got = RowAt(reader.row + 1)
    BY <1>1 DEF k, row, got
  <1> QED BY <1>2, <1>4, <1>11, <1>12, <1>13
-----------------------------------------------------------------------------
(* Every step keeps the invariant *)

\* The types of statements and of readers.
HandleTyped(h) ==
  h \in [array : Nat, bound : [Columns -> Nat], cursor : Nat, start : Nat, fetched : Nat,
         spent : BOOLEAN, staged : Nat, wide : SUBSET Nat, got : BOOLEAN, wrong : {{}}]

ReaderTyped(r) ==
  r \in [n : Nat, kind : {"none", "result_set", "rows", "one"}, cols : SUBSET Columns,
         array : Nat \ {0}, row : Nat, pc : {"idle", "reading", "ended", "thrown"},
         ind : {r.ind}, data : {r.data}, out : Seq([Columns -> Cells])]

LEMMA NewHandleTyped == HandleTyped(NewHandle)
  <1>1. [c \in Columns |-> 0] \in [Columns -> Nat]
    OBVIOUS
  <1> QED BY <1>1 DEF HandleTyped, NewHandle

LEMMA FetchInitInv == FetchInit => FetchInv
  <1> SUFFICES ASSUME FetchInit PROVE FetchInv
    OBVIOUS
  <1>1. /\ backend \in FetchKinds /\ result \in Results /\ (backend # "oracle" => result.wide # "lob")
        /\ handle = NewHandle /\ reader = NoReader
    BY DEF FetchInit
  <1>2. result \in [wide : {"text", "bytes", "lob"}, lens : Seq(Lengths)]
    <2>1. result.lens \in UNION {[1..n -> Lengths] : n \in 0..MaxResult}
      BY <1>1 DEF Results
    <2>2. PICK n \in 0..MaxResult : result.lens \in [1..n -> Lengths]
      BY <2>1
    <2>3. result.lens \in Seq(Lengths)
      BY <2>2
    <2> QED BY <1>1, <2>3 DEF Results
  <1>3. ReaderTyped(NoReader)
    BY DEF ReaderTyped, NoReader
  <1>4. FetchTyped
    BY <1>1, <1>2, <1>3, NewHandleTyped DEF FetchTyped, HandleTyped, ReaderTyped
  <1>5. OutInv
    <2>1. reader.out = <<>> /\ Len(result.lens) \in Nat
      BY <1>1, <1>2, LenProperties DEF NoReader
    <2> QED BY <2>1 DEF OutInv
  <1>6. ServeInv
    BY <1>1 DEF ServeInv, NoReader
  <1> QED BY <1>4, <1>5, <1>6 DEF FetchInv

\* What a reader's statement is once it is bound: reset() leaves no binding of an
\* earlier reader that this one does not replace.
LEMMA BindFresh ==
  ASSUME FetchTyped, NEW n \in Nat, NEW cols \in SUBSET Columns, NEW array \in Nat \ {0},
         backend = "odbc" => cols = Columns,
         NEW h, h = Bind(ResetHandle(handle), n, cols, array)
  PROVE  /\ HandleTyped(h) /\ h.array = array /\ \A c \in Columns : h.bound[c] \in {0, n}
         /\ h.cursor = 0 /\ h.fetched = 0 /\ ~h.spent /\ ~h.got
         /\ backend = "oracle" => h.staged = array
  <1> DEFINE old == IF backend = "odbc" THEN handle.bound ELSE [c \in Columns |-> 0]
             size == IF backend = "odbc" THEN 1 ELSE handle.array
             g == ResetHandle(handle)
             sized == [g EXCEPT !.array = array]
             bound == [c \in Columns |-> IF c \in cols THEN n ELSE old[c]]
             Afresh(r) == HandleTyped(r) /\ r.cursor = 0 /\ r.fetched = 0 /\ ~r.spent /\ ~r.got /\ r.wrong = {}
  <1>1. /\ old \in [Columns -> Nat] /\ size \in Nat
        /\ handle.wrong = {} /\ backend \in {"libpq", "oracle", "odbc"}
    <2>1. /\ handle.bound \in [Columns -> Nat] /\ handle.array \in Nat
          /\ handle.wrong = {} /\ backend \in {"libpq", "oracle", "odbc"}
      BY DEF FetchTyped
    <2> QED BY <2>1
  <1>2. g = [array |-> size, bound |-> old, cursor |-> 0, start |-> 0, fetched |-> 0,
             spent |-> FALSE, staged |-> 0, wide |-> {}, got |-> FALSE, wrong |-> {}]
    <2>1. CASE backend = "odbc"
      BY <1>1, <2>1, Zenon DEF ResetHandle, OdbcReset, NewHandle
    <2>2. CASE backend = "libpq"
      BY <1>1, <2>2, Zenon DEF ResetHandle, LibpqReset, NewHandle
    <2>3. CASE backend = "oracle"
      BY <1>1, <2>3, Zenon DEF ResetHandle, OracleReset, NewHandle
    <2> QED BY <1>1, <2>1, <2>2, <2>3
  <1>3. \A c \in Columns : backend # "odbc" => old[c] = 0
    OBVIOUS
  <1> HIDE DEF old, size, g
  <1>4. Afresh(g) /\ g.bound = old
    BY <1>1, <1>2 DEF HandleTyped
  <1>5. Afresh(sized) /\ sized.bound = old /\ sized.array = array
    BY <1>4 DEF HandleTyped
  <1>6. backend # "odbc" => Twice(sized, cols) = {}
    BY <1>3, <1>5, Zenon DEF Twice
  <1>7. bound \in [Columns -> Nat] /\ \A c \in Columns : bound[c] \in {0, n}
    <2>1. \A c \in Columns : bound[c] \in {0, n}
      BY <1>3
    <2> QED BY <2>1
  <1>8. h = CASE backend = "libpq" -> LibpqBind(sized, n, cols)
              [] backend = "oracle" -> OracleBind(sized, n, cols)
              [] OTHER -> OdbcBind(sized, n, cols)
    BY DEF Bind, g
  <1> HIDE DEF sized
  <1> DEFINE odbc == OdbcBind(sized, n, cols)
             libpq == LibpqBind(sized, n, cols)
  <1>9. Afresh(odbc) /\ odbc.bound = bound /\ odbc.array = array
    <2>1. odbc = [sized EXCEPT !.bound = bound]
      BY <1>5 DEF OdbcBind, HandleTyped
    <2> HIDE DEF odbc, bound
    <2> QED BY <1>5, <1>7, <2>1 DEF HandleTyped
  <1>10. backend # "odbc" => Afresh(libpq) /\ libpq.bound = bound /\ libpq.array = array
    <2>1. backend # "odbc" => libpq = [odbc EXCEPT !.wrong = @ \cup {}]
      BY <1>6 DEF LibpqBind
    <2> HIDE DEF odbc, libpq, bound
    <2> QED BY <1>9, <2>1 DEF HandleTyped
  <1>11. CASE backend = "odbc"
    <2>1. h = odbc
      BY <1>8, <1>11
    <2> HIDE DEF odbc
    <2> QED BY <1>7, <1>9, <1>11, <2>1
  <1>12. CASE backend = "libpq"
    <2>1. h = libpq
      BY <1>8, <1>12
    <2> HIDE DEF libpq
    <2> QED BY <1>7, <1>10, <1>12, <2>1
  <1>13. CASE backend = "oracle"
    <2>1. h = [libpq EXCEPT !.staged = array]
      BY <1>5, <1>8, <1>13 DEF OracleBind
    <2> HIDE DEF libpq, bound
    <2> QED BY <1>7, <1>10, <1>13, <2>1 DEF HandleTyped
  <1> QED BY <1>1, <1>11, <1>12, <1>13

LEMMA OpenInv ==
  ASSUME FetchInv, LongInBlocks = FALSE, Narrowing = FALSE,
         NEW how \in {"result_set", "rows", "one"}, NEW cols \in SUBSET Columns, NEW array \in Arrays,
         Open(how, cols, array)
  PROVE  FetchInv'
  <1> DEFINE n == reader.n + 1
             h == Bind(ResetHandle(handle), n, cols, array)
  <1>1. /\ handle' = h /\ UNCHANGED <<backend, result>>
        /\ backend = "odbc" => cols = Columns /\ (array > 1 => ~HasLong)
    BY DEF Open, Allowed
  <1>2. n \in Nat /\ array \in Nat \ {0}
    BY DEF FetchInv, FetchTyped
  <1>3. /\ reader'.n = n /\ reader'.kind = how /\ reader'.cols = cols /\ reader'.array = array
        /\ reader'.row = 0 /\ reader'.pc = "reading" /\ reader'.out = <<>>
        /\ reader' = [n |-> n, kind |-> how, cols |-> cols, array |-> array, row |-> 0, pc |-> "reading",
                      ind |-> reader'.ind, data |-> reader'.data, out |-> <<>>]
    BY Zenon DEF Open, NoReader
  <1> HIDE DEF n
  <1>4. /\ HandleTyped(h) /\ h.array = array /\ \A c \in Columns : h.bound[c] \in {0, n}
        /\ h.cursor = 0 /\ h.fetched = 0 /\ ~h.spent /\ ~h.got
        /\ backend = "oracle" => h.staged = array
    <2>1. FetchTyped /\ (backend = "odbc" => cols = Columns)
      BY <1>1 DEF FetchInv
    <2>2. h = Bind(ResetHandle(handle), n, cols, array)
      OBVIOUS
    <2> HIDE DEF h
    <2> QED BY <1>2, <2>1, <2>2, BindFresh
  <1> HIDE DEF h
  <1>5. FetchTyped'
    <2>1. <<>> \in Seq([Columns -> Cells]) /\ 0 \in Nat
      OBVIOUS
    <2>2. ReaderTyped(reader')
      BY <1>2, <1>3, <2>1, Zenon DEF ReaderTyped
    <2> QED BY <1>1, <1>4, <2>2, Zenon DEF FetchInv, FetchTyped, HandleTyped, ReaderTyped
  <1>6. Len(result.lens) \in Nat
    BY LenProperties DEF FetchInv, FetchTyped
  <1>7. OutInv'
    BY <1>1, <1>3, <1>6 DEF OutInv
  <1>8. ServeInv'
    <2>1. HasLong' <=> HasLong
      BY <1>1 DEF HasLong, OwesRead, Limit
    <2>2. Len(reader'.out) = 0
      BY <1>3
    <2> QED BY <1>1, <1>2, <1>3, <1>4, <1>6, <2>1, <2>2 DEF ServeInv
  <1> QED BY <1>5, <1>7, <1>8 DEF FetchInv

\* The size of a block: what is left, up to a whole array.
LEMMA LeftBounds ==
  ASSUME NEW h, h.array \in Nat \ {0}, h.cursor \in Nat, Len(result.lens) \in Nat, h.cursor <= Len(result.lens)
  PROVE  /\ Left(h) \in Nat /\ Left(h) <= h.array /\ h.cursor + Left(h) <= Len(result.lens)
         /\ Left(h) < h.array => h.cursor + Left(h) = Len(result.lens)
  <1> DEFINE a == h.array
             b == Len(result.lens) - h.cursor
             m == IF a <= b THEN a ELSE b
  <1>1. a \in Nat /\ b \in Nat
    OBVIOUS
  <1>2. Left(h) = Min({a, b})
    BY DEF Left
  <1> HIDE DEF a, b
  <1>3. m \in {a, b} /\ \A y \in {a, b} : m <= y
    BY <1>1
  <1>4. \A x \in {a, b} : (\A y \in {a, b} : x <= y) => x = m
    BY <1>1
  <1>5. Min({a, b}) = m
    BY <1>3, <1>4 DEF Min
  <1> QED BY <1>1, <1>2, <1>5 DEF a, b

\* What fetch() of each backend makes of a statement that serves a reader: the
\* block after the rows fetched so far, or the end when they were all.
LEMMA BlockAdvances ==
  ASSUME FetchInv, reader.pc \in {"reading", "ended"}, NEW h, h = Block(handle)
  PROVE  /\ HandleTyped(h) /\ h.array = handle.array /\ h.bound = handle.bound /\ h.staged = handle.staged
         /\ h.cursor <= Len(result.lens) /\ h.fetched <= h.array
         /\ backend = "oracle" /\ h.spent => h.cursor = Len(result.lens)
         /\ h.fetched = 0 => h.cursor = handle.cursor /\ h.cursor = Len(result.lens)
         /\ h.fetched > 0 => /\ h.start = handle.cursor /\ h.cursor = h.start + h.fetched /\ ~h.got
                             /\ backend = "oracle" =>
                                  h.wide = {i \in 1..h.fetched : OwesRead(result.lens[h.start + i])}
  <1> DEFINE n == Left(handle)
             wide == {i \in 1..n : OwesRead(result.lens[handle.cursor + i])}
             next == Advanced(handle, n)
  <1>1. HandleTyped(handle) /\ backend \in {"libpq", "oracle", "odbc"} /\ reader.array \in Nat \ {0}
    BY DEF FetchInv, FetchTyped, HandleTyped
  <1>2. Len(result.lens) \in Nat
    BY LenProperties DEF FetchInv, FetchTyped
  <1>3. /\ handle.array = reader.array /\ handle.cursor <= Len(result.lens) /\ handle.cursor \in Nat
        /\ backend = "oracle" /\ handle.spent => handle.cursor = Len(result.lens)
    BY <1>1 DEF FetchInv, ServeInv, HandleTyped
  <1>4. /\ n \in Nat /\ n <= handle.array /\ handle.cursor + n <= Len(result.lens)
        /\ n < handle.array => handle.cursor + n = Len(result.lens)
    BY <1>1, <1>2, <1>3, LeftBounds
  <1> HIDE DEF n
  <1>5. /\ HandleTyped(next) /\ next.array = handle.array /\ next.bound = handle.bound
        /\ next.staged = handle.staged /\ next.cursor = handle.cursor + n /\ next.start = handle.cursor
        /\ next.fetched = n /\ ~next.got
    <2>1. next = [handle EXCEPT !.cursor = @ + n, !.start = handle.cursor, !.fetched = n, !.got = FALSE]
      BY DEF Advanced
    <2>2. handle.cursor + n \in Nat
      BY <1>3, <1>4
    <2> HIDE DEF next
    <2>3. HandleTyped(next)
      BY <1>1, <1>3, <1>4, <2>1, <2>2, Zenon DEF HandleTyped
    <2>4. /\ next.array = handle.array /\ next.bound = handle.bound
          /\ next.staged = handle.staged /\ next.cursor = handle.cursor + n /\ next.start = handle.cursor
          /\ next.fetched = n /\ next.got = FALSE
      BY <1>1, <2>1, Zenon DEF HandleTyped
    <2> QED BY <2>3, <2>4, Zenon
  <1> HIDE DEF next
  <1>6. CASE backend # "oracle"
    <2>1. h = next
      BY <1>1, <1>6 DEF Block, LibpqFetch, OdbcFetch, next, n
    <2>2. /\ h.cursor <= Len(result.lens) /\ h.fetched <= h.array
          /\ h.fetched = 0 => h.cursor = handle.cursor /\ h.cursor = Len(result.lens)
          /\ h.fetched > 0 => h.start = handle.cursor /\ h.cursor = h.start + h.fetched
      BY <1>1, <1>2, <1>3, <1>4, <1>5, <2>1
    <2> QED BY <1>5, <1>6, <2>1, <2>2, Zenon
  <1>7. CASE backend = "oracle" /\ handle.spent
    <2>1. h = [handle EXCEPT !.fetched = 0]
      BY <1>7 DEF Block, OracleFetch
    <2>2. HandleTyped(h)
      BY <1>1, <2>1 DEF HandleTyped
    <2>3. /\ h.array = handle.array /\ h.bound = handle.bound /\ h.staged = handle.staged
          /\ h.cursor = handle.cursor /\ h.fetched = 0
      BY <1>1, <2>1 DEF HandleTyped
    <2>4. h.cursor = Len(result.lens) /\ h.cursor <= Len(result.lens)
      BY <1>3, <1>7, <2>3
    <2>5. h.fetched <= h.array /\ ~(h.fetched > 0)
      BY <2>2, <2>3 DEF HandleTyped
    <2> QED BY <2>2, <2>3, <2>4, <2>5, Zenon
  <1>8. CASE backend = "oracle" /\ ~handle.spent
    <2>1. h = [next EXCEPT !.spent = n < handle.array, !.wide = wide]
      BY <1>8 DEF Block, OracleFetch, next, n
    <2>2. wide \in SUBSET Nat /\ (n < handle.array) \in BOOLEAN
      OBVIOUS
    <2> HIDE DEF wide
    <2>3. HandleTyped(h) /\ h.array = handle.array /\ h.bound = handle.bound /\ h.staged = handle.staged
      BY <1>5, <2>1, <2>2, Zenon DEF HandleTyped
    <2>4. /\ h.cursor = handle.cursor + n /\ h.start = handle.cursor /\ h.fetched = n /\ ~h.got
          /\ h.wide = wide /\ (h.spent <=> n < handle.array)
      BY <1>5, <2>1, <2>2, Zenon DEF HandleTyped
    <2>5. /\ h.cursor <= Len(result.lens) /\ h.fetched <= h.array
          /\ h.fetched = 0 => h.cursor = handle.cursor /\ h.cursor = Len(result.lens)
          /\ h.fetched > 0 => h.start = handle.cursor /\ h.cursor = h.start + h.fetched
      BY <1>1, <1>2, <1>3, <1>4, <2>3, <2>4
    <2>6. h.spent => h.cursor = Len(result.lens)
      BY <1>4, <2>4, Zenon
    <2>7. h.wide = {i \in 1..h.fetched : OwesRead(result.lens[h.start + i])}
      BY <2>4, Zenon DEF wide
    <2> QED BY <1>8, <2>3, <2>4, <2>5, <2>6, <2>7, Zenon
  <1> QED BY <1>6, <1>7, <1>8

\* Nothing is wrong with the block: it fits the buffers, and they are the reader's.
LEMMA BlockIsClean ==
  ASSUME FetchInv, reader.pc \in {"reading", "ended"}, NEW h, h = Checked(Block(handle))
  PROVE  h = Block(handle)
  <1> DEFINE g == Block(handle)
  <1>1. HandleTyped(g) /\ g.bound = handle.bound /\ g.staged = handle.staged /\ g.fetched <= g.array /\ g.array = handle.array
    BY BlockAdvances
  <1>2. /\ handle.array = reader.array /\ \A c \in Columns : handle.bound[c] \in {0, reader.n}
        /\ backend = "oracle" => handle.staged = reader.array
    BY DEF FetchInv, ServeInv
  <1>3. h = [g EXCEPT !.wrong = @ \cup (IF \E c \in Columns : g.bound[c] \notin {0, reader.n} THEN {"foreign buffer"} ELSE {})
                                  \cup (IF g.fetched > reader.array \/ (backend = "oracle" /\ g.fetched > g.staged) THEN {"short buffer"} ELSE {})]
    BY Zenon DEF Checked
  <1> HIDE DEF g
  <1>4. g.array \in Nat /\ g.fetched \in Nat
    BY <1>1 DEF HandleTyped
  <1>5. /\ ~\E c \in Columns : g.bound[c] \notin {0, reader.n}
        /\ ~(g.fetched > reader.array \/ (backend = "oracle" /\ g.fetched > g.staged))
    BY <1>1, <1>2, <1>4
  <1>6. h = [g EXCEPT !.wrong = @ \cup {} \cup {}]
    BY <1>3, <1>5
  <1> QED BY <1>1, <1>6 DEF HandleTyped, g

LEMMA FetchStepInv ==
  ASSUME FetchInv, Fetch
  PROVE  FetchInv'
  <1> DEFINE h == Checked(Block(handle))
             N == Len(result.lens)
  <1>1. /\ reader.pc \in {"reading", "ended"} /\ (reader.pc = "ended" => reader.kind = "result_set")
        /\ reader.pc = "reading" => reader.row = handle.fetched
        /\ handle' = h /\ UNCHANGED <<backend, result>>
    BY Zenon DEF Fetch
  <1>2. \/ h.fetched = 0 /\ reader' = [reader EXCEPT !.pc = "ended"]
        \/ /\ h.fetched # 0
           /\ \E inds \in [1..h.fetched -> UNION {Indicators(len) : len \in Lengths}] :
                /\ \A i \in 1..h.fetched : inds[i] \in Indicators(result.lens[h.start + i])
                /\ reader' = [reader EXCEPT !.row = 0,
                                !.ind = <<Filled(h, 1, [i \in 1..h.fetched |-> 1]).ind, Filled(h, 2, inds).ind>>,
                                !.data = <<Filled(h, 1, [i \in 1..h.fetched |-> 1]).data, Filled(h, 2, inds).data>>]
    BY Zenon DEF Fetch
  <1>3. h = Block(handle)
    BY <1>1, BlockIsClean
  <1> HIDE DEF h
  <1>4. /\ HandleTyped(h) /\ h.array = handle.array /\ h.bound = handle.bound /\ h.staged = handle.staged
        /\ h.cursor <= N /\ h.fetched <= h.array
        /\ backend = "oracle" /\ h.spent => h.cursor = N
        /\ h.fetched = 0 => h.cursor = handle.cursor /\ h.cursor = N
        /\ h.fetched > 0 => /\ h.start = handle.cursor /\ h.cursor = h.start + h.fetched /\ ~h.got
                            /\ backend = "oracle" =>
                                 h.wide = {i \in 1..h.fetched : OwesRead(result.lens[h.start + i])}
    BY <1>1, <1>3, BlockAdvances
  <1>5. /\ handle.array = reader.array /\ \A c \in Columns : handle.bound[c] \in {0, reader.n}
        /\ backend = "oracle" => handle.staged = reader.array
        /\ backend = "odbc" /\ reader.array > 1 => ~HasLong
        /\ handle.fetched > 0 => handle.start + handle.fetched = handle.cursor
        /\ reader.pc = "reading" => Len(reader.out) = IF handle.fetched > 0 THEN handle.start + reader.row ELSE handle.cursor
        /\ reader.pc = "ended" /\ reader.kind # "one" => handle.cursor = N /\ Len(reader.out) = N
    BY <1>1 DEF FetchInv, ServeInv
  <1>6. /\ N \in Nat /\ Len(reader.out) \in Nat /\ handle.cursor \in Nat /\ handle.fetched \in Nat
        /\ h.cursor \in Nat /\ h.fetched \in Nat /\ h.start \in Nat /\ reader.array \in Nat \ {0}
    BY <1>4, LenProperties DEF FetchInv, FetchTyped, HandleTyped
  <1>7. Len(reader.out) = handle.cursor
    BY <1>1, <1>5
  <1>8. ReaderTyped(reader)
    BY DEF FetchInv, FetchTyped, ReaderTyped
  <1>9. (HasLong' <=> HasLong) /\ OutInv
    BY <1>1 DEF HasLong, OwesRead, Limit, FetchInv
  <1>10. ASSUME reader'.cols = reader.cols PROVE \A i : Stored(i)' = Stored(i)
    BY <1>1, <1>10 DEF Stored, Cell
  <1> HIDE DEF N
  <1>11. CASE h.fetched = 0 /\ reader' = [reader EXCEPT !.pc = "ended"]
    <2>1. /\ ReaderTyped(reader') /\ reader'.pc = "ended" /\ reader'.n = reader.n /\ reader'.kind = reader.kind
          /\ reader'.cols = reader.cols /\ reader'.array = reader.array /\ reader'.out = reader.out
      BY <1>8, <1>11 DEF ReaderTyped
    <2>2. FetchTyped'
      BY <1>1, <1>4, <2>1, Zenon DEF FetchInv, FetchTyped, HandleTyped, ReaderTyped
    <2>3. OutInv'
      BY <1>1, <1>9, <1>10, <2>1 DEF OutInv
    <2>4. ServeInv'
      BY <1>1, <1>4, <1>5, <1>6, <1>7, <1>9, <1>11, <2>1 DEF ServeInv, N
    <2> QED BY <2>2, <2>3, <2>4 DEF FetchInv
  <1>12. ASSUME h.fetched # 0,
                NEW inds \in [1..h.fetched -> UNION {Indicators(len) : len \in Lengths}],
                \A i \in 1..h.fetched : inds[i] \in Indicators(result.lens[h.start + i]),
                reader' = [reader EXCEPT !.row = 0,
                             !.ind = <<Filled(h, 1, [i \in 1..h.fetched |-> 1]).ind, Filled(h, 2, inds).ind>>,
                             !.data = <<Filled(h, 1, [i \in 1..h.fetched |-> 1]).data, Filled(h, 2, inds).data>>]
         PROVE  FetchInv'
    <2> DEFINE key == Filled(h, 1, [i \in 1..h.fetched |-> 1])
               wide == Filled(h, 2, inds)
    <2>1. /\ reader'.pc = reader.pc /\ reader'.n = reader.n /\ reader'.kind = reader.kind
          /\ reader'.cols = reader.cols /\ reader'.array = reader.array /\ reader'.out = reader.out
          /\ reader'.row = 0 /\ reader'.ind = <<key.ind, wide.ind>> /\ reader'.data = <<key.data, wide.data>>
      BY <1>8, <1>12 DEF ReaderTyped
    <2>2. reader' = [n |-> reader.n, kind |-> reader.kind, cols |-> reader.cols, array |-> reader.array,
                     row |-> 0, pc |-> reader.pc, ind |-> reader'.ind, data |-> reader'.data, out |-> reader.out]
      BY <1>8, <1>12, Zenon DEF ReaderTyped
    <2>3. reader.pc = "reading"
      BY <1>1, <1>4, <1>5, <1>6, <1>12
    <2>4. FetchTyped'
      <3>1. ReaderTyped(reader')
        BY <1>8, <2>2 DEF ReaderTyped
      <3> QED BY <1>1, <1>4, <3>1, Zenon DEF FetchInv, FetchTyped, HandleTyped, ReaderTyped
    <2>5. OutInv'
      BY <1>1, <1>9, <1>10, <2>1 DEF OutInv
    <2>6. BlockInv'
      <3> SUFFICES ASSUME NEW i \in 1..h.fetched
                   PROVE  (/\ reader.ind[2][i] \in Indicators(result.lens[handle.start + i])
                           /\ reader.data[1][i] = Cell(handle.start + i, 1)
                           /\ reader.data[2][i] = InSlot(handle.start + i, 2)
                           /\ backend = "oracle" => (i \in handle.wide <=> OwesRead(result.lens[handle.start + i])))'
        BY <1>1 DEF BlockInv
      <3>1. i \in 1..reader.array /\ i <= h.fetched
        BY <1>4, <1>5, <1>6
      <3>2. wide.ind[i] = inds[i] /\ wide.data[i] = InSlot(h.start + i, 2) /\ key.data[i] = InSlot(h.start + i, 1)
        BY <3>1 DEF Filled
      <3>3. InSlot(h.start + i, 1) = Cell(h.start + i, 1)
        BY DEF InSlot
      <3> HIDE DEF key, wide
      <3>4. reader'.ind[2] = wide.ind /\ reader'.data[1] = key.data /\ reader'.data[2] = wide.data
        BY <2>1
      <3>5. backend = "oracle" => (i \in h.wide <=> OwesRead(result.lens[h.start + i]))
        BY <1>4, <1>6, <1>12
      <3>6. Indicators(result.lens[handle.start + i])' = Indicators(result.lens[h.start + i])
        BY <1>1 DEF Indicators, LibpqIndicators, OracleIndicators, OdbcIndicators, Limit
      <3>7. Cell(handle.start + i, 1)' = Cell(h.start + i, 1)
        BY <1>1 DEF Cell
      <3>8. InSlot(handle.start + i, 2)' = InSlot(h.start + i, 2)
        BY <1>1 DEF InSlot, Cell, OwesRead, Limit
      <3>9. OwesRead(result.lens[handle.start + i])' <=> OwesRead(result.lens[h.start + i])
        BY <1>1 DEF OwesRead, Limit
      <3> QED BY <1>1, <1>12, <3>2, <3>3, <3>4, <3>5, <3>6, <3>7, <3>8, <3>9
    <2>7. ServeInv'
      BY <1>1, <1>4, <1>5, <1>6, <1>7, <1>9, <1>12, <2>1, <2>3, <2>6 DEF ServeInv, N
    <2> QED BY <2>4, <2>5, <2>7 DEF FetchInv
  <1> QED BY <1>2, <1>11, <1>12, Zenon

\* A row that is taken is the next one of the result, and the block serves on.
LEMMA TookInv ==
  ASSUME FetchInv, reader.pc = "reading", reader.row < handle.fetched,
         handle' = RowAt(reader.row + 1).h, reader' = Took(RowAt(reader.row + 1)),
         UNCHANGED <<backend, result>>
  PROVE  FetchInv'
  <1> DEFINE k == handle.start + reader.row + 1
             v == RowAt(reader.row + 1).values
             N == Len(result.lens)
             pc == IF reader.kind = "one" THEN "ended" ELSE reader.pc
  <1>1. k \in 1..N /\ v = Stored(k) /\ Len(reader.out) = handle.start + reader.row
    BY RowIsStored
  <1>2. handle' \in {handle, [handle EXCEPT !.got = TRUE]}
    BY RowIsStored
  <1>3. HandleTyped(handle) /\ ReaderTyped(reader)
    BY Zenon DEF FetchInv, FetchTyped, HandleTyped, ReaderTyped
  <1>4. /\ HandleTyped(handle') /\ handle'.array = handle.array /\ handle'.bound = handle.bound
        /\ handle'.cursor = handle.cursor /\ handle'.start = handle.start /\ handle'.fetched = handle.fetched
        /\ handle'.spent = handle.spent /\ handle'.staged = handle.staged /\ handle'.wide = handle.wide
    <2>1. CASE handle' = handle
      BY <1>3, <2>1, Zenon
    <2>2. CASE handle' = [handle EXCEPT !.got = TRUE]
      BY <1>3, <2>2, Zenon DEF HandleTyped
    <2> QED BY <1>2, <2>1, <2>2, Zenon
  <1>5. reader' = [reader EXCEPT !.row = @ + 1, !.out = Append(@, v), !.pc = pc]
    BY DEF Took
  <1>6. /\ handle.start \in Nat /\ reader.row \in Nat /\ handle.fetched \in Nat /\ handle.cursor \in Nat
        /\ N \in Nat /\ reader.array \in Nat \ {0} /\ reader.out \in Seq([Columns -> Cells])
    BY <1>3, LenProperties DEF HandleTyped, ReaderTyped, FetchInv, FetchTyped
  <1>7. v \in [Columns -> Cells]
    BY <1>1, StoredTyped DEF FetchInv
  <1>8. pc \in {"reading", "ended"} /\ (pc = "ended" => reader.kind = "one")
    OBVIOUS
  <1> HIDE DEF k, v, N, pc
  <1>9. /\ reader'.n = reader.n /\ reader'.kind = reader.kind /\ reader'.cols = reader.cols
        /\ reader'.array = reader.array /\ reader'.row = reader.row + 1 /\ reader'.pc = pc
        /\ reader'.ind = reader.ind /\ reader'.data = reader.data /\ reader'.out = Append(reader.out, v)
    BY <1>3, <1>5, Zenon DEF ReaderTyped
  <1>10. FetchTyped'
    <2>1. Append(reader.out, v) \in Seq([Columns -> Cells]) /\ reader.row + 1 \in Nat
      BY <1>6, <1>7
    <2>2. ReaderTyped(reader')
      BY <1>3, <1>5, <1>8, <1>9, <2>1, Zenon DEF ReaderTyped
    <2> QED BY <1>4, <2>2, Zenon DEF FetchInv, FetchTyped, HandleTyped, ReaderTyped
  <1>11. \A i : Stored(i)' = Stored(i)
    BY <1>9 DEF Stored, Cell
  <1>12. Len(reader'.out) = k /\ k = handle.start + reader.row + 1 /\ k = Len(reader.out) + 1
    BY <1>1, <1>6, <1>9 DEF k
  <1>13. OutInv'
    <2>1. \A i \in 1..k : reader'.out[i] = Stored(i)
      <3> SUFFICES ASSUME NEW i \in 1..k PROVE reader'.out[i] = Stored(i)
        OBVIOUS
      <3>1. CASE i = k
        BY <1>1, <1>6, <1>9, <1>12, <3>1
      <3>2. CASE i # k
        <4>1. i \in 1..Len(reader.out) /\ Len(reader.out) \in Nat
          BY <1>6, <1>12, <3>2
        <4>2. reader.out[i] = Stored(i)
          BY <4>1 DEF FetchInv, OutInv
        <4> QED BY <1>6, <1>9, <4>1, <4>2
      <3> QED BY <3>1, <3>2
    <2>2. k <= N
      BY <1>1, <1>6
    <2>3. reader'.pc # "idle"
      BY <1>8, <1>9
    <2> QED BY <1>11, <1>12, <2>1, <2>2, <2>3 DEF OutInv, N
  <1>14. ServeInv'
    <2>1. HasLong' <=> HasLong
      BY DEF HasLong, OwesRead, Limit
    <2>2. /\ handle.array = reader.array /\ \A c \in Columns : handle.bound[c] \in {0, reader.n}
          /\ handle.cursor <= N /\ handle.fetched <= reader.array
          /\ backend = "oracle" => handle.staged = reader.array
          /\ backend = "oracle" /\ handle.spent => handle.cursor = N
          /\ backend = "odbc" /\ reader.array > 1 => ~HasLong
          /\ handle.start + handle.fetched = handle.cursor /\ BlockInv
      BY <1>6 DEF FetchInv, ServeInv, N
    <2>3. BlockInv'
      <3> SUFFICES ASSUME NEW i \in 1..handle.fetched
                   PROVE  (/\ reader.ind[2][i] \in Indicators(result.lens[handle.start + i])
                           /\ reader.data[1][i] = Cell(handle.start + i, 1)
                           /\ reader.data[2][i] = InSlot(handle.start + i, 2)
                           /\ backend = "oracle" => (i \in handle.wide <=> OwesRead(result.lens[handle.start + i])))'
        BY <1>4 DEF BlockInv
      <3>1. Indicators(result.lens[handle.start + i])' = Indicators(result.lens[handle.start + i])
        BY <1>4, Zenon DEF Indicators, LibpqIndicators, OracleIndicators, OdbcIndicators, Limit
      <3>2. Cell(handle.start + i, 1)' = Cell(handle.start + i, 1)
        BY <1>4 DEF Cell
      <3>3. InSlot(handle.start + i, 2)' = InSlot(handle.start + i, 2)
        BY <1>4 DEF InSlot, Cell, OwesRead, Limit
      <3>4. OwesRead(result.lens[handle.start + i])' <=> OwesRead(result.lens[handle.start + i])
        BY <1>4 DEF OwesRead, Limit
      <3> QED BY <1>4, <1>9, <2>2, <3>1, <3>2, <3>3, <3>4 DEF BlockInv
    <2>4. reader'.row <= handle'.fetched /\ handle'.fetched > 0 /\ reader'.row > 0 /\ Len(reader'.out) = handle'.start + reader'.row
      BY <1>4, <1>6, <1>9, <1>12
    <2> QED BY <1>4, <1>6, <1>8, <1>9, <2>1, <2>2, <2>3, <2>4 DEF ServeInv, N
  <1> QED BY <1>10, <1>13, <1>14 DEF FetchInv

LEMMA CurrentInv ==
  ASSUME FetchInv, Current
  PROVE  FetchInv'
  <1> DEFINE got == RowAt(reader.row + 1)
  <1>1. /\ reader.pc = "reading" /\ reader.kind = "result_set" /\ reader.row < handle.fetched
        /\ handle' = got.h /\ reader' = [reader EXCEPT !.row = @ + 1, !.out = Append(@, got.values)]
        /\ UNCHANGED <<backend, result>>
    BY DEF Current
  <1>2. ReaderTyped(reader)
    BY DEF FetchInv, FetchTyped, ReaderTyped
  <1> HIDE DEF got
  <1>3. reader' = Took(got)
    BY <1>1, <1>2, Zenon DEF Took, ReaderTyped
  <1> QED BY <1>1, <1>3, TookInv DEF got

\* A NULL in a field that is not optional takes the rows of its block with it.
LEMMA ThrownInv ==
  ASSUME FetchInv, reader.pc = "reading", reader.row < handle.fetched,
         handle' = RowAt(reader.row + 1).h,
         reader' = [reader EXCEPT !.out = SubSeq(@, 1, handle.start), !.pc = "thrown"],
         UNCHANGED <<backend, result>>
  PROVE  FetchInv'
  <1> DEFINE cut == SubSeq(reader.out, 1, handle.start)
  <1>1. handle' \in {handle, [handle EXCEPT !.got = TRUE]} /\ Len(reader.out) = handle.start + reader.row
    BY RowIsStored
  <1>2. HandleTyped(handle) /\ ReaderTyped(reader)
    BY Zenon DEF FetchInv, FetchTyped, HandleTyped, ReaderTyped
  <1>3. HandleTyped(handle')
    BY <1>1, <1>2, Zenon DEF HandleTyped
  <1>4. handle.start \in Nat /\ reader.row \in Nat /\ reader.out \in Seq([Columns -> Cells]) /\ Len(reader.out) \in Nat
    BY <1>2, LenProperties DEF HandleTyped, ReaderTyped
  <1>5. \A i \in 1..handle.start : i \in 1..Len(reader.out) /\ reader.out[i] \in [Columns -> Cells]
    BY <1>1, <1>4, ElementOfSeq
  <1>6. /\ cut \in Seq([Columns -> Cells]) /\ Len(cut) = handle.start
        /\ \A i \in 1..handle.start : cut[i] = reader.out[i]
    BY <1>4, <1>5, SubSeqProperties
  <1> HIDE DEF cut
  <1>7. /\ reader'.out = cut /\ reader'.pc = "thrown" /\ reader'.cols = reader.cols /\ ReaderTyped(reader')
    BY <1>2, <1>6, Zenon DEF ReaderTyped, cut
  <1>8. FetchTyped'
    BY <1>3, <1>7, Zenon DEF FetchInv, FetchTyped, HandleTyped, ReaderTyped
  <1>9. OutInv'
    <2>1. \A i : Stored(i)' = Stored(i)
      BY <1>7 DEF Stored, Cell
    <2>2. /\ Len(reader.out) <= Len(result.lens) /\ Len(result.lens) \in Nat
          /\ \A i \in 1..Len(reader.out) : reader.out[i] = Stored(i)
      BY LenProperties DEF FetchInv, FetchTyped, OutInv
    <2>3. handle.start <= Len(result.lens)
      BY <1>1, <1>4, <2>2
    <2>4. \A i \in 1..handle.start : cut[i] = Stored(i)
      BY <1>5, <1>6, <2>2
    <2> QED BY <1>6, <1>7, <2>1, <2>3, <2>4 DEF OutInv
  <1>10. ServeInv'
    BY <1>7 DEF ServeInv
  <1> QED BY <1>8, <1>9, <1>10 DEF FetchInv

LEMMA FillIntoInv ==
  ASSUME FetchInv, NEW optional \in BOOLEAN, FillInto(optional)
  PROVE  FetchInv'
  <1> DEFINE got == RowAt(reader.row + 1)
  <1>1. /\ reader.pc = "reading" /\ reader.row < handle.fetched /\ handle' = got.h
        /\ UNCHANGED <<backend, result>>
        /\ reader' = IF optional THEN FillOptional(got) ELSE FillField(got)
    BY DEF FillInto
  <1> HIDE DEF got
  <1>2. \/ reader' = Took(got)
        \/ reader' = [reader EXCEPT !.out = SubSeq(@, 1, handle.start), !.pc = "thrown"]
    BY <1>1, Zenon DEF FillOptional, FillField
  <1>3. CASE reader' = Took(got)
    BY <1>1, <1>3, TookInv DEF got
  <1>4. CASE reader' = [reader EXCEPT !.out = SubSeq(@, 1, handle.start), !.pc = "thrown"]
    BY <1>1, <1>4, ThrownInv DEF got
  <1> QED BY <1>2, <1>3, <1>4

LEMMA CloseInv ==
  ASSUME FetchInv, Close
  PROVE  FetchInv'
  <1>1. /\ handle' = (IF reader.pc = "thrown" THEN [NewHandle EXCEPT !.wrong = handle.wrong] ELSE handle)
        /\ reader' = [NoReader EXCEPT !.n = reader.n] /\ UNCHANGED <<backend, result>>
    BY DEF Close
  <1>2. HandleTyped(handle) /\ reader.n \in Nat
    BY DEF FetchInv, FetchTyped, HandleTyped
  <1>3. HandleTyped(handle')
    <2>1. HandleTyped([NewHandle EXCEPT !.wrong = handle.wrong])
      BY <1>2, NewHandleTyped DEF HandleTyped
    <2> QED BY <1>1, <1>2, <2>1, Zenon
  <1>4. ReaderTyped(reader') /\ reader'.pc = "idle" /\ reader'.out = <<>>
    <2>1. ReaderTyped(NoReader) /\ NoReader.pc = "idle" /\ NoReader.out = <<>>
      BY DEF ReaderTyped, NoReader
    <2> QED BY <1>1, <1>2, <2>1 DEF ReaderTyped
  <1>5. FetchTyped'
    BY <1>1, <1>3, <1>4, Zenon DEF FetchInv, FetchTyped, HandleTyped, ReaderTyped
  <1>6. Len(result.lens) \in Nat
    BY LenProperties DEF FetchInv, FetchTyped
  <1>7. OutInv'
    BY <1>1, <1>4, <1>6 DEF OutInv
  <1>8. ServeInv'
    BY <1>4 DEF ServeInv
  <1> QED BY <1>5, <1>7, <1>8 DEF FetchInv

LEMMA FetchStillInv ==
  ASSUME FetchInv, UNCHANGED fetchVars
  PROVE  FetchInv'
  <1>1. FetchTyped'
    BY DEF FetchInv, FetchTyped, fetchVars
  <1>2. OutInv'
    BY DEF FetchInv, OutInv, Stored, Cell, fetchVars
  <1>3. ServeInv'
    <2>1. HasLong' <=> HasLong
      BY DEF HasLong, OwesRead, Limit, fetchVars
    <2>2. BlockInv' <=> BlockInv
      BY DEF BlockInv, Indicators, LibpqIndicators, OracleIndicators, OdbcIndicators, InSlot, Cell, OwesRead,
             Limit, fetchVars
    <2> QED BY <2>1, <2>2 DEF FetchInv, ServeInv, fetchVars
  <1> QED BY <1>1, <1>2, <1>3 DEF FetchInv

LEMMA FetchNextInv ==
  ASSUME FetchInv, FetchNext, LongInBlocks = FALSE, Narrowing = FALSE
  PROVE  FetchInv'
  <1>1. ASSUME NEW array \in Arrays, OpenResultSet(array) PROVE FetchInv'
    BY <1>1, OpenInv, Zenon DEF OpenResultSet
  <1>2. ASSUME NEW array \in Arrays, NEW how \in {"rows", "one"}, NEW cols \in (SUBSET Columns) \ {{}},
               OpenEntity(how, cols, array)
        PROVE  FetchInv'
    <2>1. how \in {"result_set", "rows", "one"} /\ cols \in SUBSET Columns
      OBVIOUS
    <2>2. Open(how, cols, array)
      BY <1>2 DEF OpenEntity
    <2> QED BY <2>1, <2>2, OpenInv, Zenon
  <1>3. ASSUME NEW array \in Arrays, NEW fields \in 1..2, OpenProjection(fields, array) PROVE FetchInv'
    <2>1. 1..fields \in SUBSET Columns
      BY DEF Columns
    <2> QED BY <1>3, <2>1, OpenInv, Zenon DEF OpenProjection
  <1>4. ASSUME NEW optional \in BOOLEAN, FillInto(optional) PROVE FetchInv'
    BY <1>4, FillIntoInv
  <1> QED BY <1>1, <1>2, <1>3, <1>4, FetchStepInv, CurrentInv, CloseInv DEF FetchNext

LEMMA FetchInvReads == FetchInv => RowsRead
  BY DEF FetchInv, FetchTyped, OutInv, ServeInv, RowsRead, RowsAsStored, DriverNotMisused

\* Whatever the backend, the block size, the columns a reader binds and the
\* readers before it on the statement, a reader gets the rows of the result in
\* order and whole, and no driver is misused (result_set.cpp:166-254,
\* fetch_rows.hpp:24-72, the backends' fetch(), reset() and read_long_*()).  The
\* hypotheses leave out two cases on ODBC: values longer than their slots in blocks
\* of several rows, which backend.hpp:174-176 makes depend on the driver, and a
\* reader that binds fewer columns than the one before it on the statement, which
\* reset() leaves bound (odbc/statement.cpp:92-95).
THEOREM ReadersGetRows ==
  ASSUME LongInBlocks = FALSE, Narrowing = FALSE
  PROVE  FetchSpec => []RowsRead
  <1>1. FetchInv /\ [FetchNext]_fetchVars => FetchInv'
    BY FetchNextInv, FetchStillInv, Zenon
  <1> QED BY <1>1, FetchInitInv, FetchInvReads, PTL DEF FetchSpec

HIDE FetchAssumption
-----------------------------------------------------------------------------
(* Batches of entity writes *)

USE BatchAssumption

Row == [id : Nat, text : Int]
Slot == [id : Nat, data : Int, ind : Int]

\* A sequence that is the beginning of another.
Begins(t, rows) == Len(t) <= Len(rows) /\ \A i \in 1..Len(t) : t[i] = rows[i]

Statements == [slots : Seq(Slot), stride : Int, sets : Nat, batch : Seq(Row), parsed : BOOLEAN]

\* The rows of the first chunk, for which the buffers are made.
FirstChunk == IF call.chunk <= Len(call.rows) THEN call.chunk ELSE Len(call.rows)

\* The count is whatever the backend reported, see CountInv.
WriteType ==
  /\ autocommit \in BOOLEAN /\ line \in BOOLEAN
  /\ server \in [pending : Seq(Row), durable : Seq(Row), aborted : BOOLEAN]
  /\ call \in [pc : {"idle", "acquire", "write", "commit", "unwind"},
               end : {"none", "returned", "thrown"}, rows : Seq(Row),
               hits : [1..MaxRows -> 0..1], single : BOOLEAN, auto : BOOLEAN,
               n : Nat, chunk : Nat \ {0}, start : Nat, tally : {call.tally}, sent : Seq(Row)]
  /\ stmt # NoStatement => stmt \in Statements

\* How far a call is: what was sent is what precedes `start`; the statement it
\* writes with is as reset() or the chunk before left it.
SentInv ==
  /\ Begins(call.sent, call.rows)
  /\ \A i \in 1..Len(call.rows) : call.rows[i].text <= MaxText
  /\ call.single => Len(call.rows) = 1 /\ call.chunk = 1
  /\ call.pc = "acquire" => call.start = 0 /\ call.sent = <<>> /\ call.rows # <<>>
  /\ call.pc = "commit" => call.sent = call.rows
  /\ call.pc = "write" =>
       /\ Len(call.sent) = call.start /\ call.start < Len(call.rows)
       /\ stmt \in Statements /\ stmt.batch = <<>>
       /\ call.start = 0 => stmt.sets = 1
       /\ call.start > 0 /\ kind \in {"odbc", "psqlodbc"} =>
            /\ stmt.sets = FirstChunk /\ Len(stmt.slots) = FirstChunk
            /\ \A i \in 1..Len(call.rows) : call.rows[i].text <= stmt.stride

\* Where the rows of a call are: for good when the connection commits by itself,
\* else in the open transaction.
KeptInv ==
  LET own == call.auto /\ ~call.single IN
  /\ call.pc \in {"acquire", "write", "commit"} => line
  /\ call.pc = "acquire" =>
       /\ autocommit = call.auto /\ server.durable = <<>> /\ server.pending = <<>>
       /\ autocommit => ~server.aborted
  /\ call.pc \in {"write", "commit"} =>
       /\ autocommit = (call.auto /\ call.single)
       /\ autocommit => server.durable = call.sent /\ server.pending = <<>> /\ ~server.aborted
       /\ ~autocommit => server.durable = <<>> /\ server.pending = call.sent
  /\ call.pc = "unwind" =>
       /\ server.durable \in {<<>>, call.rows}
       /\ ~call.auto => server.durable = <<>>
       /\ own => ~autocommit
       /\ ~own => /\ autocommit = call.auto
                  /\ autocommit => server.pending = <<>> /\ ~server.aborted
  /\ call.pc = "idle" /\ line /\ autocommit => ~server.aborted
  /\ NoHalfCommit /\ ModeGivenBack

WriteInv == WriteType /\ SentInv /\ KeptInv

\* Hit() and Total() of an operation and its matches, whatever the state.
HitOf(o, hits, set) == IF o = "insert" THEN 1 ELSE IF set.id = 0 THEN 0 ELSE hits[set.id]
TotalOf(o, hits, sets) ==
  LET sum[n \in 0..Len(sets)] == IF n = 0 THEN 0 ELSE sum[n - 1] + HitOf(o, hits, sets[n]) IN sum[Len(sets)]

\* The matches of the sets are numbers.
Counted(o, hits, s) == \A i \in 1..Len(s) : HitOf(o, hits, s[i]) \in Nat

\* The count of a call is that of the rows it has sent; a driver that reports one
\* set's count is sent one set.
CountInv ==
  /\ Counted(op, call.hits, call.rows)
  /\ op # "insert" /\ kind # "odbc" => call.chunk = 1
  /\ call.pc # "idle" => call.end = "none"
  /\ call.pc = "acquire" => call.tally = 0
  /\ call.pc \in {"write", "commit"} => call.tally = TotalOf(op, call.hits, call.sent)
  /\ call.end = "returned" => call.tally = TotalOf(op, call.hits, call.rows)
-----------------------------------------------------------------------------
(* Helpers of the community modules *)

LEMMA MinOfTwo ==
  ASSUME NEW a \in Int, NEW b \in Int
  PROVE  Min({a, b}) = IF a <= b THEN a ELSE b
  <1> DEFINE m == IF a <= b THEN a ELSE b
  <1>1. m \in {a, b} /\ \A y \in {a, b} : m <= y
    OBVIOUS
  <1>2. \A x \in {a, b} : (\A y \in {a, b} : x <= y) => x = m
    OBVIOUS
  <1> QED BY <1>1, <1>2 DEF Min

\* A set of natural numbers that is not empty has a least one.
LEMMA LeastOf ==
  ASSUME NEW T \in SUBSET Nat, T # {}
  PROVE  \E x \in T : \A y \in T : x <= y
  <1>1. PICK x \in T : \A y \in T : ~(<<y, x>> \in OpToRel(<, Nat))
    BY NatLessThanWellFounded, WFMin, Zenon
  <1>2. \A y \in T : x <= y
    <2> SUFFICES ASSUME NEW y \in T, y < x PROVE FALSE
      OBVIOUS
    <2>1. <<y, x>> \in Nat \X Nat /\ <<y, x>>[1] < <<y, x>>[2]
      OBVIOUS
    <2>2. <<y, x>> \in OpToRel(<, Nat)
      BY <2>1, Zenon DEF OpToRel
    <2> QED BY <1>1, <2>2, Zenon
  <1> QED BY <1>2

\* Numbers that are not empty and stay below a bound have a largest one.
LEMMA MaxOfBounded ==
  ASSUME NEW S \in SUBSET Int, NEW e \in S, NEW top \in Int, \A x \in S : x <= top
  PROVE  Max(S) \in S /\ \A y \in S : Max(S) >= y
  <1> DEFINE T == {n \in Nat : top - n \in S}
  <1>1. T \subseteq Nat /\ T # {}
    <2>1. top - e \in Nat /\ top - (top - e) = e
      OBVIOUS
    <2>2. top - e \in T
      BY <2>1
    <2> QED BY <2>2, Zenon
  <1>2. PICK x \in T : \A y \in T : x <= y
    BY <1>1, LeastOf, Zenon
  <1>3. top - x \in S /\ \A y \in S : top - x >= y
    <2>1. ASSUME NEW y \in S PROVE top - x >= y
      <3>1. top - y \in Nat /\ top - (top - y) = y
        OBVIOUS
      <3>2. top - y \in T
        BY <3>1
      <3>3. x \in Nat /\ y \in Int /\ x <= top - y
        BY <1>1, <1>2, <3>2, Zenon
      <3> HIDE DEF T
      <3> QED BY <3>3
    <2> QED BY <2>1
  <1> QED BY <1>3, Zenon DEF Max

\* The element size fits every text of the call.
LEMMA StrideFits ==
  ASSUME NEW rows \in Seq(Row), \A i \in 1..Len(rows) : rows[i].text <= MaxText
  PROVE  Stride(rows) \in Int /\ \A i \in 1..Len(rows) : rows[i].text <= Stride(rows)
  <1> DEFINE S == {MinStride} \cup {rows[i].text + 1 : i \in 1..Len(rows)}
             top == MaxText + 1 + MinStride
  <1>1. \A i \in 1..Len(rows) : rows[i].text \in Int
    <2> SUFFICES ASSUME NEW i \in 1..Len(rows) PROVE rows[i].text \in Int
      OBVIOUS
    <2>1. rows[i] \in Row
      BY ElementOfSeq
    <2> QED BY <2>1 DEF Row
  <1>2. S \in SUBSET Int /\ MinStride \in S /\ top \in Int /\ \A x \in S : x <= top
    BY <1>1
  <1>3. \A i \in 1..Len(rows) : rows[i].text + 1 \in S
    OBVIOUS
  <1>4. Stride(rows) = Max(S)
    BY DEF Stride
  <1> HIDE DEF S, top
  <1>5. Max(S) \in S /\ \A y \in S : Max(S) >= y
    BY <1>2, MaxOfBounded, Zenon
  <1>6. Max(S) \in Int
    BY <1>2, <1>5, Zenon
  <1> QED BY <1>1, <1>3, <1>4, <1>5, <1>6

\* A function on 1..n is a sequence of n elements.
LEMMA FunctionIsSeq ==
  ASSUME NEW S, NEW n \in Nat, NEW f \in [1..n -> S]
  PROVE  f \in Seq(S) /\ Len(f) = n
  OBVIOUS

LEMMA BeginsIsPrefix ==
  ASSUME NEW t \in Seq(Row), NEW rows \in Seq(Row), Begins(t, rows)
  PROVE  Len(t) <= Len(rows) /\ t = SubSeq(rows, 1, Len(t))
  BY DEF Begins
-----------------------------------------------------------------------------
(* The rows a call matched: sums of sequences *)

\* `f` holds the sums of the first elements of `w`.
Grows(f, w, n) == \A i \in 1..n : f[i] = f[i - 1] + w[i]
Sums(f, w, n) == f \in [0..n -> Nat] /\ f[0] = 0 /\ Grows(f, w, n)

LEMMA SumsExist ==
  ASSUME NEW n \in Nat, NEW w \in [1..n -> Nat]
  PROVE  \E f : Sums(f, w, n)
  <1> DEFINE T == {k \in 0..n : ~\E f : Sums(f, w, k)}
  <1> SUFFICES ASSUME T # {} PROVE FALSE
    <2>1. n \in 0..n
      OBVIOUS
    <2> QED BY <2>1, Zenon
  <1>1. T \in SUBSET Nat
    OBVIOUS
  <1>2. PICK k \in T : \A y \in T : k <= y
    BY <1>1, LeastOf, Zenon
  <1>3. k \in 0..n /\ ~\E f : Sums(f, w, k)
    OBVIOUS
  <1>4. k # 0
    <2>1. Sums([i \in 0..0 |-> 0], w, 0)
      BY DEF Sums, Grows
    <2> QED BY <1>3, <2>1
  <1>5. PICK f : Sums(f, w, k - 1)
    <2>1. k - 1 \in 0..n /\ ~(k <= k - 1)
      BY <1>3, <1>4
    <2> QED BY <1>2, <2>1, Zenon
  <1> DEFINE g == [i \in 0..k |-> IF i = k THEN f[k - 1] + w[k] ELSE f[i]]
  <1>6. Sums(g, w, k)
    <2> HIDE DEF T
    <2>1. f[k - 1] \in Nat /\ w[k] \in Nat /\ \A i \in 0..k : i # k => f[i] \in Nat
      BY <1>3, <1>4, <1>5 DEF Sums, Grows
    <2>2. g \in [0..k -> Nat]
      BY <2>1
    <2>3. g[0] = 0
      BY <1>3, <1>4, <1>5 DEF Sums, Grows
    <2>4. ASSUME NEW i \in 1..k PROVE g[i] = g[i - 1] + w[i]
      <3>1. CASE i = k
        <4>1. k - 1 \in 0..k /\ k - 1 # k /\ k \in 0..k
          BY <1>3, <1>4
        <4> QED BY <3>1, <4>1
      <3>2. CASE i # k
        <4>1. i \in 1..(k - 1) /\ i \in 0..k /\ i - 1 \in 0..k /\ i - 1 # k
          BY <1>3, <3>2
        <4>2. f[i] = f[i - 1] + w[i]
          BY <1>5, <4>1 DEF Sums, Grows
        <4> QED BY <3>2, <4>1, <4>2
      <3> QED BY <3>1, <3>2
    <2> QED BY <2>2, <2>3, <2>4, Zenon DEF Sums, Grows
  <1> QED BY <1>3, <1>6

\* Two sums that grow by the same elements keep their distance.
InStep(f, g, w, n, d) ==
  /\ n \in Nat /\ d \in Nat /\ w \in [1..n -> Nat] /\ g \in [0..n -> Nat] /\ f[0] = d + g[0]
  /\ Grows(f, w, n) /\ Grows(g, w, n)

LEMMA SumsInStep ==
  ASSUME NEW n, NEW d, NEW w, NEW f, NEW g, InStep(f, g, w, n, d)
  PROVE  f[n] = d + g[n]
  <1>0. /\ n \in Nat /\ d \in Nat /\ w \in [1..n -> Nat] /\ g \in [0..n -> Nat] /\ f[0] = d + g[0]
        /\ Grows(f, w, n) /\ Grows(g, w, n)
    BY DEF InStep
  <1> DEFINE T == {k \in 0..n : f[k] # d + g[k]}
  <1> SUFFICES ASSUME T # {} PROVE FALSE
    <2>1. n \in 0..n
      BY <1>0
    <2> QED BY <2>1, Zenon
  <1>1. T \in SUBSET Nat
    BY <1>0
  <1>2. PICK k \in T : \A y \in T : k <= y
    BY <1>1, LeastOf, Zenon
  <1>3. k \in 0..n /\ f[k] # d + g[k]
    BY Zenon
  <1>4. k \in 1..n
    <2>1. k # 0
      BY <1>0, <1>3, Zenon
    <2> QED BY <1>0, <1>3, <2>1
  <1>5. f[k - 1] = d + g[k - 1]
    <2>1. k - 1 \in 0..n /\ ~(k <= k - 1)
      BY <1>0, <1>4
    <2> QED BY <1>2, <2>1, Zenon
  <1> HIDE DEF T
  <1>6. f[k] = f[k - 1] + w[k] /\ g[k] = g[k - 1] + w[k]
    BY <1>0, <1>4, Zenon DEF Grows
  <1>7. g[k - 1] \in Nat /\ w[k] \in Nat
    BY <1>0, <1>4
  <1>8. f[k] = (d + g[k - 1]) + w[k]
    BY <1>5, <1>6, Zenon
  <1> QED BY <1>0, <1>3, <1>6, <1>7, <1>8

\* Total() is the last of the sums.
LEMMA TotalSums ==
  ASSUME NEW o, NEW hits, NEW s \in Seq(Row), Counted(o, hits, s)
  PROVE  \E f : /\ Sums(f, [i \in 1..Len(s) |-> HitOf(o, hits, s[i])], Len(s))
                /\ TotalOf(o, hits, s) = f[Len(s)]
  <1> DEFINE n == Len(s)
             w == [i \in 1..n |-> HitOf(o, hits, s[i])]
             Is(f) == f = [i \in 0..n |-> IF i = 0 THEN 0 ELSE f[i - 1] + HitOf(o, hits, s[i])]
             h == CHOOSE f : Is(f)
  <1>1. n \in Nat /\ w \in [1..n -> Nat]
    BY LenProperties DEF Counted
  <1>2. TotalOf(o, hits, s) = h[n]
    BY Zenon DEF TotalOf
  <1>3. \A i \in 1..n : w[i] = HitOf(o, hits, s[i])
    OBVIOUS
  <1> HIDE DEF n
  <1>4. PICK f : Sums(f, w, n)
    BY <1>1, SumsExist, Zenon
  <1>5. Is(f)
    <2> HIDE DEF w
    <2>1. f = [i \in 0..n |-> f[i]]
      BY <1>4 DEF Sums, Grows
    <2>2. \A i \in 0..n : f[i] = IF i = 0 THEN 0 ELSE f[i - 1] + HitOf(o, hits, s[i])
      BY <1>1, <1>3, <1>4 DEF Sums, Grows
    <2> QED BY <2>1, <2>2, Zenon
  <1>6. Is(h)
    BY <1>5, Zenon
  <1> HIDE DEF h
  <1>7. h[0] = 0 /\ \A i \in 1..n : h[i] = h[i - 1] + w[i]
    <2>1. \A i \in 0..n : h[i] = IF i = 0 THEN 0 ELSE h[i - 1] + HitOf(o, hits, s[i])
      BY <1>6, Zenon
    <2> QED BY <1>1, <1>3, <2>1
  <1> HIDE DEF w
  <1>8. h[n] = f[n]
    <2>1. /\ f \in [0..n -> Nat] /\ f[0] = 0 /\ f[n] \in Nat
          /\ Grows(h, w, n) /\ Grows(f, w, n)
      BY <1>1, <1>4, <1>7 DEF Sums, Grows
    <2>2. h[0] = 0 + f[0] /\ 0 \in Nat
      BY <1>7, <2>1
    <2>3. InStep(h, f, w, n, 0)
      BY <1>1, <2>1, <2>2, Zenon DEF InStep
    <2>4. h[n] = 0 + f[n]
      BY <2>3, SumsInStep, SMT
    <2> QED BY <2>1, <2>4
  <1> QED BY <1>2, <1>4, <1>8, Zenon DEF n, w

LEMMA TotalOfNone ==
  ASSUME NEW o, NEW hits
  PROVE  TotalOf(o, hits, <<>>) = 0
  <1>1. <<>> \in Seq(Row) /\ Counted(o, hits, <<>>) /\ Len(<<>>) = 0
    BY DEF Counted
  <1>2. PICK f : /\ Sums(f, [i \in 1..Len(<<>>) |-> HitOf(o, hits, <<>>[i])], Len(<<>>))
                 /\ TotalOf(o, hits, <<>>) = f[Len(<<>>)]
    BY <1>1, TotalSums, Zenon
  <1> QED BY <1>1, <1>2, Zenon DEF Sums

LEMMA TotalOfOne ==
  ASSUME NEW o, NEW hits, NEW row \in Row, HitOf(o, hits, row) \in Nat
  PROVE  TotalOf(o, hits, <<row>>) = HitOf(o, hits, row)
  <1> DEFINE s == <<row>>
  <1>1. s \in Seq(Row) /\ Len(s) = 1 /\ s[1] = row
    OBVIOUS
  <1> HIDE DEF s
  <1>2. Counted(o, hits, s)
    BY <1>1 DEF Counted
  <1>3. PICK f : /\ Sums(f, [i \in 1..Len(s) |-> HitOf(o, hits, s[i])], Len(s))
                 /\ TotalOf(o, hits, s) = f[Len(s)]
    BY <1>1, <1>2, TotalSums, Zenon
  <1>4. f[0] = 0 /\ f[1] = f[0] + HitOf(o, hits, s[1])
    BY <1>1, <1>3 DEF Sums, Grows
  <1> QED BY <1>1, <1>3, <1>4 DEF s

\* An insert counts its rows.
LEMMA TotalOfInsert ==
  ASSUME NEW hits, NEW s \in Seq(Row)
  PROVE  TotalOf("insert", hits, s) = Len(s)
  <1> DEFINE n == Len(s)
             w == [i \in 1..n |-> HitOf("insert", hits, s[i])]
             g == [i \in 0..n |-> i]
  <1>1. n \in Nat /\ Counted("insert", hits, s) /\ \A i \in 1..n : w[i] = 1
    BY LenProperties DEF Counted, HitOf
  <1>2. w \in [1..n -> Nat] /\ g \in [0..n -> Nat] /\ g[0] = 0 /\ g[n] = n
        /\ Grows(g, w, n)
    BY <1>1 DEF Grows
  <1>3. PICK f : Sums(f, w, n) /\ TotalOf("insert", hits, s) = f[n]
    BY <1>1, TotalSums
  <1> HIDE DEF n, w, g
  <1>4. f[0] = 0 + g[0] /\ 0 \in Nat /\ Grows(f, w, n)
    BY <1>1, <1>2, <1>3 DEF Sums, Grows
  <1>5. InStep(f, g, w, n, 0)
    BY <1>1, <1>2, <1>4, Zenon DEF InStep
  <1>6. f[n] = 0 + g[n]
    BY <1>5, SumsInStep, SMT
  <1> QED BY <1>1, <1>2, <1>3, <1>6 DEF n

LEMMA TotalOfConcat ==
  ASSUME NEW o, NEW hits, NEW s \in Seq(Row), NEW t \in Seq(Row),
         Counted(o, hits, s), Counted(o, hits, t)
  PROVE  /\ TotalOf(o, hits, s \o t) = TotalOf(o, hits, s) + TotalOf(o, hits, t)
         /\ TotalOf(o, hits, s) \in Nat
  <1> DEFINE m == Len(s)
             n == Len(t)
             all == s \o t
             W(q) == [i \in 1..Len(q) |-> HitOf(o, hits, q[i])]
  <1>1. /\ m \in Nat /\ n \in Nat /\ all \in Seq(Row) /\ Len(all) = m + n
        /\ \A i \in 1..m : all[i] = s[i]
        /\ \A i \in 1..n : all[m + i] = t[i]
    <2>1. m \in Nat /\ n \in Nat
      BY LenProperties
    <2>2. /\ all \in Seq(Row) /\ Len(all) = m + n
          /\ \A i \in 1..Len(all) : all[i] = IF i <= m THEN s[i] ELSE t[i - m]
      BY ConcatProperties
    <2> HIDE DEF m, n, all
    <2>3. ASSUME NEW i \in 1..n PROVE all[m + i] = t[i]
      <3>1. m + i \in 1..Len(all) /\ ~(m + i <= m) /\ (m + i) - m = i
        BY <2>1, <2>2
      <3> QED BY <2>2, <3>1
    <2>4. ASSUME NEW i \in 1..m PROVE all[i] = s[i]
      <3>1. i \in 1..Len(all) /\ i <= m
        BY <2>1, <2>2
      <3> QED BY <2>2, <3>1
    <2> QED BY <2>1, <2>2, <2>3, <2>4
  <1> HIDE DEF all
  <1>2. Counted(o, hits, all)
    <2> HIDE DEF m, n
    <2> SUFFICES ASSUME NEW i \in 1..Len(all) PROVE HitOf(o, hits, all[i]) \in Nat
      BY DEF Counted
    <2>1. CASE i <= m
      <3>1. i \in 1..m
        BY <1>1, <2>1
      <3> QED BY <1>1, <3>1 DEF Counted, m
    <2>2. CASE ~(i <= m)
      <3>1. i - m \in 1..n /\ m + (i - m) = i
        BY <1>1, <2>2
      <3> QED BY <1>1, <3>1, Zenon DEF Counted, n
    <2> QED BY <2>1, <2>2
  <1>3. PICK f : Sums(f, W(all), Len(all)) /\ TotalOf(o, hits, all) = f[Len(all)]
    BY <1>1, <1>2, TotalSums, Zenon
  <1>4. PICK g : Sums(g, W(s), m) /\ TotalOf(o, hits, s) = g[m]
    BY TotalSums
  <1>5. PICK h : Sums(h, W(t), n) /\ TotalOf(o, hits, t) = h[n]
    BY TotalSums, Zenon
  <1>6. /\ W(s) \in [1..m -> Nat] /\ W(t) \in [1..n -> Nat]
        /\ \A i \in 1..m : W(all)[i] = W(s)[i]
        /\ \A i \in 1..n : W(all)[m + i] = W(t)[i]
    BY <1>1 DEF Counted
  <1> HIDE DEF W, m, n
  <1>7. f[m] = g[m]
    <2>1. /\ g \in [0..m -> Nat] /\ f[0] = 0 + g[0] /\ g[m] \in Nat /\ 0 \in Nat
          /\ Grows(g, W(s), m)
      BY <1>1, <1>3, <1>4 DEF Sums, Grows
    <2>2. Grows(f, W(s), m)
      <3> SUFFICES ASSUME NEW i \in 1..m PROVE f[i] = f[i - 1] + W(s)[i]
        BY DEF Grows
      <3>1. i \in 1..Len(all)
        BY <1>1
      <3> QED BY <1>3, <1>6, <3>1, Zenon DEF Sums, Grows
    <2>3. InStep(f, g, W(s), m, 0)
      BY <1>1, <1>6, <2>1, <2>2, Zenon DEF InStep
    <2>4. f[m] = 0 + g[m]
      BY <2>3, SumsInStep, SMT
    <2> QED BY <2>1, <2>4
  <1>8. f[m + n] = g[m] + h[n]
    <2> DEFINE r == [i \in 0..n |-> f[m + i]]
    <2>1. g[m] \in Nat /\ h \in [0..n -> Nat] /\ h[0] = 0 /\ Grows(h, W(t), n)
      BY <1>1, <1>4, <1>5 DEF Sums, Grows
    <2>2. Grows(r, W(t), n)
      <3> SUFFICES ASSUME NEW i \in 1..n PROVE r[i] = r[i - 1] + W(t)[i]
        BY Zenon DEF Grows
      <3>1. m + i \in 1..Len(all) /\ (m + i) - 1 = m + (i - 1) /\ i \in 0..n /\ i - 1 \in 0..n
        BY <1>1
      <3>2. f[m + i] = f[(m + i) - 1] + W(all)[m + i]
        BY <1>3, <3>1, Zenon DEF Sums, Grows
      <3>3. r[i] = f[m + i] /\ r[i - 1] = f[m + (i - 1)]
        BY <3>1, Zenon
      <3> QED BY <1>6, <3>1, <3>2, <3>3, Zenon
    <2>3. r[0] = g[m] + h[0] /\ r[n] = f[m + n]
      <3>1. r[0] = f[m + 0] /\ r[n] = f[m + n] /\ m + 0 = m
        BY <1>1
      <3> QED BY <1>7, <2>1, <3>1
    <2> HIDE DEF r
    <2>4. InStep(r, h, W(t), n, g[m])
      BY <1>1, <1>6, <2>1, <2>2, <2>3, Zenon DEF InStep
    <2>5. r[n] = g[m] + h[n]
      BY <2>4, SumsInStep, SMT
    <2> QED BY <2>3, <2>5, Zenon
  <1>9. g[m] \in Nat
    BY <1>1, <1>4 DEF Sums, Grows
  <1> QED BY <1>1, <1>3, <1>4, <1>5, <1>8, <1>9 DEF all
-----------------------------------------------------------------------------
(* What an execute() of a chunk comes to *)

\* Rows from `start` on ran, in order: all `count` when the call returned.
Outcome(rows, start, count, r) ==
  /\ r.ok \in BOOLEAN
  /\ r.ran \in Seq(Row) /\ \A i \in 1..Len(r.ran) : r.ran[i] = rows[start + i]
  /\ r.ok => Len(r.ran) = count
  /\ ~r.ok => Len(r.ran) < count

\* The rows of a chunk.
Chunk(rows, start, count, c) ==
  c \in Seq(Row) /\ Len(c) = count /\ \A i \in 1..count : c[i] = rows[start + i]

LEMMA PartRuns ==
  ASSUME NEW rows, NEW start, NEW count \in Nat, NEW c, Chunk(rows, start, count, c),
         NEW r, NEW k \in 0..(Len(c) - 1), r = [ran |-> SubSeq(c, 1, k), ok |-> FALSE, count |-> 0]
  PROVE  Outcome(rows, start, count, r)
  <1>1. \A i \in 1..k : c[i] \in Row
    BY DEF Chunk
  <1>2. /\ SubSeq(c, 1, k) \in Seq(Row) /\ Len(SubSeq(c, 1, k)) = k
        /\ \A i \in 1..k : SubSeq(c, 1, k)[i] = c[i]
    BY <1>1, SubSeqProperties DEF Chunk
  <1> QED BY <1>2 DEF Outcome, Chunk

LEMMA NothingRuns ==
  ASSUME NEW rows, NEW start, NEW count \in Nat \ {0}, NEW r,
         r = [ran |-> <<>>, ok |-> FALSE, count |-> 0]
  PROVE  Outcome(rows, start, count, r)
  BY DEF Outcome

LEMMA AllRuns ==
  ASSUME NEW rows, NEW start, NEW count \in Nat, NEW c, Chunk(rows, start, count, c),
         NEW r, r.ran = c, r.ok = TRUE
  PROVE  Outcome(rows, start, count, r)
  BY Zenon DEF Outcome, Chunk

\* SQLExecute of arrays that hold a chunk.
LEMMA OdbcRuns ==
  ASSUME NEW rows, NEW start, NEW count \in Nat \ {0}, NEW x,
         Chunk(rows, start, count, ParamSets(x)), NEW r \in OdbcExecute(x)
  PROVE  Outcome(rows, start, count, r)
  <1> DEFINE c == ParamSets(x)
  <1>1. \/ r \in {[ran |-> c, ok |-> TRUE, count |-> a] : a \in OdbcAffected(c)}
        \/ r \in {[ran |-> SubSeq(c, 1, k), ok |-> FALSE, count |-> 0] : k \in 0..(Len(c) - 1)}
    BY Zenon DEF OdbcExecute
  <1> HIDE DEF c
  <1>2. CASE r \in {[ran |-> c, ok |-> TRUE, count |-> a] : a \in OdbcAffected(c)}
    <2>1. r.ran = c /\ r.ok = TRUE
      BY <1>2
    <2> QED BY <2>1, AllRuns, Zenon DEF c
  <1>3. CASE r \in {[ran |-> SubSeq(c, 1, k), ok |-> FALSE, count |-> 0] : k \in 0..(Len(c) - 1)}
    <2>1. PICK k \in 0..(Len(c) - 1) : r = [ran |-> SubSeq(c, 1, k), ok |-> FALSE, count |-> 0]
      BY <1>3
    <2> QED BY <2>1, PartRuns DEF c
  <1> QED BY <1>1, <1>2, <1>3

\* run_batch() of a chunk, row by row.
LEMMA BatchRuns ==
  ASSUME NEW rows, NEW start, NEW count \in Nat \ {0}, NEW x,
         Chunk(rows, start, count, x.batch),
         NEW r \in OracleRunBatch(x) \cup LibpqRunBatch(x)
  PROVE  Outcome(rows, start, count, r)
  <1> DEFINE c == x.batch
  <1>1. \/ r = [ran |-> <<>>, ok |-> FALSE, count |-> 0]
        \/ r = [ran |-> c, ok |-> TRUE, count |-> Total(c)]
        \/ r \in {[ran |-> SubSeq(c, 1, k), ok |-> FALSE, count |-> 0] : k \in 0..(Len(c) - 1)}
    BY Zenon DEF OracleRunBatch, LibpqRunBatch
  <1> HIDE DEF c
  <1>2. CASE r = [ran |-> <<>>, ok |-> FALSE, count |-> 0]
    BY <1>2, NothingRuns
  <1>3. CASE r = [ran |-> c, ok |-> TRUE, count |-> Total(c)]
    <2>1. r.ran = c /\ r.ok = TRUE
      BY <1>3
    <2> QED BY <2>1, AllRuns, Zenon DEF c
  <1>4. CASE r \in {[ran |-> SubSeq(c, 1, k), ok |-> FALSE, count |-> 0] : k \in 0..(Len(c) - 1)}
    <2>1. PICK k \in 0..(Len(c) - 1) : r = [ran |-> SubSeq(c, 1, k), ok |-> FALSE, count |-> 0]
      BY <1>4
    <2> QED BY <2>1, PartRuns DEF c
  <1> QED BY <1>1, <1>2, <1>3, <1>4

\* The rows a turn of the loop takes: not none, within the call, and as many as
\* the first turn took unless they are the last.
LEMMA TurnTakes ==
  ASSUME WriteInv, call.pc = "write", NEW count, count = Min({call.chunk, Len(call.rows) - call.start})
  PROVE  /\ count \in Nat \ {0} /\ call.start + count <= Len(call.rows) /\ count <= FirstChunk
         /\ call.start = 0 \/ call.start + count < Len(call.rows) => count = FirstChunk
         /\ Min({call.chunk, Len(call.rows)}) = FirstChunk
  <1>1. call.chunk \in Nat \ {0} /\ call.start \in Nat /\ Len(call.rows) \in Nat
    BY LenProperties DEF WriteInv, WriteType
  <1>2. call.start < Len(call.rows)
    BY DEF WriteInv, SentInv
  <1> DEFINE n == Len(call.rows)
  <1> HIDE DEF n
  <1>3. count = IF call.chunk <= n - call.start THEN call.chunk ELSE n - call.start
    BY <1>1, MinOfTwo DEF n
  <1>4. Min({call.chunk, n}) = IF call.chunk <= n THEN call.chunk ELSE n
    BY <1>1, MinOfTwo DEF n
  <1>5. FirstChunk = (IF call.chunk <= n THEN call.chunk ELSE n) /\ n \in Nat /\ call.start < n
    BY <1>1, <1>2 DEF FirstChunk, n
  <1>6. /\ count \in Nat \ {0} /\ call.start + count <= n /\ count <= FirstChunk
        /\ call.start = 0 \/ call.start + count < n => count = FirstChunk
    <2> DEFINE k == call.chunk
               s == call.start
    <2>1. k \in Nat \ {0} /\ s \in Nat /\ n \in Nat /\ s < n
      BY <1>1, <1>5
    <2>2. count = IF k <= n - s THEN k ELSE n - s
      BY <1>3, Zenon
    <2>3. FirstChunk = IF k <= n THEN k ELSE n
      BY <1>5
    <2> HIDE DEF k, s
    <2>4. /\ count \in Nat \ {0} /\ s + count <= n /\ count <= FirstChunk
          /\ s = 0 \/ s + count < n => count = FirstChunk
      BY <2>1, <2>2, <2>3
    <2> QED BY <2>4 DEF s
  <1> QED BY <1>4, <1>5, <1>6 DEF n

\* A row in its slot is what SQLExecute will read.
LEMMA StagedHolds ==
  ASSUME NEW slot \in Slot, NEW row \in Row, NEW stride \in Int, row.text <= stride
  PROVE  /\ Staged(slot, row, stride) \in Slot
         /\ Staged(slot, row, stride).id = row.id /\ Staged(slot, row, stride).ind = row.text
         /\ row.text # Null => Staged(slot, row, stride).data = row.text
  <1>1. CASE row.text = Null
    BY <1>1, Zenon DEF Staged, Slot, Row, Null
  <1>2. CASE row.text # Null
    <2>1. Staged(slot, row, stride) = [id |-> row.id, data |-> row.text, ind |-> row.text]
      BY <1>2 DEF Staged, Row
    <2> QED BY <2>1 DEF Slot, Row
  <1> QED BY <1>1, <1>2

\* The bound arrays of a turn hold its rows, in slots made for the first chunk.
LEMMA StagedIsChunk ==
  ASSUME WriteInv, call.pc = "write", Columnar, ~call.single,
         NEW count, count = Min({call.chunk, Len(call.rows) - call.start}),
         NEW b, b = StageChunk(stmt, call.rows, call.start, count, call.chunk)
  PROVE  /\ b \in Statements /\ b.batch = <<>> /\ b.sets = count /\ Len(b.slots) = FirstChunk
         /\ \A i \in 1..Len(call.rows) : call.rows[i].text <= b.stride
         /\ Chunk(call.rows, call.start, count, ParamSets(b))
  <1> DEFINE t == IF call.start = 0
                  THEN [stmt EXCEPT !.slots = Blank(count), !.stride = Stride(call.rows)] ELSE stmt
             slots == [i \in 1..Len(t.slots) |->
                         IF i <= count THEN Staged(t.slots[i], call.rows[call.start + i], t.stride) ELSE t.slots[i]]
             sets == IF call.start = 0 \/ count # Min({call.chunk, Len(call.rows)}) THEN count ELSE t.sets
  <1>1. b = [t EXCEPT !.slots = slots, !.sets = sets]
    BY Zenon DEF StageChunk
  <1>2. /\ count \in Nat \ {0} /\ call.start + count <= Len(call.rows) /\ count <= FirstChunk
        /\ call.start = 0 => count = FirstChunk
        /\ Min({call.chunk, Len(call.rows)}) = FirstChunk
    BY TurnTakes, Zenon
  <1>3. /\ call.rows \in Seq(Row) /\ call.start \in Nat /\ stmt \in Statements /\ stmt.batch = <<>>
        /\ \A i \in 1..Len(call.rows) : call.rows[i].text <= MaxText
        /\ call.start > 0 => /\ stmt.sets = FirstChunk /\ Len(stmt.slots) = FirstChunk
                             /\ \A i \in 1..Len(call.rows) : call.rows[i].text <= stmt.stride
    BY DEF WriteInv, WriteType, SentInv, Columnar
  <1>4. /\ t \in Statements /\ t.batch = <<>> /\ Len(t.slots) = FirstChunk
        /\ \A i \in 1..Len(call.rows) : call.rows[i].text <= t.stride
        /\ call.start # 0 => t.sets = FirstChunk
    <2>1. CASE call.start = 0
      <3>1. Stride(call.rows) \in Int /\ \A i \in 1..Len(call.rows) : call.rows[i].text <= Stride(call.rows)
        BY <1>3, StrideFits
      <3>2. \A i \in 1..count : [id |-> 0, data |-> 0, ind |-> Null] \in Slot
        BY DEF Slot, Null
      <3>3. Blank(count) \in Seq(Slot) /\ Len(Blank(count)) = count
        <4>1. Blank(count) \in [1..count -> Slot]
          BY <3>2, Zenon DEF Blank
        <4>2. count \in Nat
          BY <1>2
        <4> QED BY <4>1, <4>2, FunctionIsSeq, Zenon
      <3>4. t = [stmt EXCEPT !.slots = Blank(count), !.stride = Stride(call.rows)]
        BY <2>1
      <3> HIDE DEF t
      <3> QED BY <1>2, <1>3, <2>1, <3>1, <3>3, <3>4, Zenon DEF Statements
    <2>2. CASE call.start # 0
      BY <1>3, <2>2
    <2> QED BY <2>1, <2>2
  <1>5. sets = count
    BY <1>2, <1>4
  <1> HIDE DEF t, sets
  <1>6. \A i \in 1..count : /\ t.slots[i] \in Slot /\ call.rows[call.start + i] \in Row
                            /\ call.rows[call.start + i].text <= t.stride
    <2> TAKE i \in 1..count
    <2>1. t.slots \in Seq(Slot) /\ i \in 1..Len(t.slots)
      BY <1>2, <1>4, TurnTakes DEF Statements, FirstChunk
    <2>2. call.start + i \in 1..Len(call.rows)
      BY <1>2, <1>3
    <2> QED BY <1>3, <1>4, <2>1, <2>2, ElementOfSeq
  <1>7. t.stride \in Int /\ t.slots \in Seq(Slot)
    BY <1>4 DEF Statements
  <1>8. \A i \in 1..count : /\ slots[i] \in Slot
                            /\ slots[i].id = call.rows[call.start + i].id
                            /\ slots[i].ind = call.rows[call.start + i].text
                            /\ slots[i].ind # Null => slots[i].data = call.rows[call.start + i].text
    <2> SUFFICES ASSUME NEW i \in 1..count
                 PROVE  /\ slots[i] \in Slot
                        /\ slots[i].id = call.rows[call.start + i].id
                        /\ slots[i].ind = call.rows[call.start + i].text
                        /\ slots[i].ind # Null => slots[i].data = call.rows[call.start + i].text
      BY Zenon
    <2>1. slots[i] = Staged(t.slots[i], call.rows[call.start + i], t.stride)
      BY <1>2, <1>4, TurnTakes DEF FirstChunk
    <2> DEFINE slot == t.slots[i]
               row == call.rows[call.start + i]
    <2>2. slot \in Slot /\ row \in Row /\ row.text <= t.stride
      BY <1>6, Zenon
    <2>3. slots[i] = Staged(slot, row, t.stride)
      BY <2>1
    <2> HIDE DEF slots, slot, row
    <2>4. /\ Staged(slot, row, t.stride) \in Slot
          /\ Staged(slot, row, t.stride).id = row.id /\ Staged(slot, row, t.stride).ind = row.text
          /\ row.text # Null => Staged(slot, row, t.stride).data = row.text
      BY <1>7, <2>2, StagedHolds
    <2> QED BY <2>3, <2>4 DEF row
  <1>9. slots \in Seq(Slot) /\ Len(slots) = FirstChunk
    <2>1. \A i \in 1..Len(t.slots) : slots[i] \in Slot
      <3> SUFFICES ASSUME NEW i \in 1..Len(t.slots) PROVE slots[i] \in Slot
        BY Zenon
      <3>1. t.slots[i] \in Slot
        BY <1>7, ElementOfSeq
      <3>2. CASE i <= count
        <4> HIDE DEF slots
        <4>1. i \in 1..count
          BY <1>2, <3>2
        <4> QED BY <1>8, <4>1, Zenon
      <3>3. CASE ~(i <= count)
        BY <3>1, <3>3
      <3> QED BY <3>2, <3>3
    <2>2. Len(t.slots) \in Nat
      BY <1>7, LenProperties
    <2>3. slots = [i \in 1..Len(t.slots) |-> slots[i]]
      OBVIOUS
    <2> HIDE DEF slots
    <2>4. slots \in [1..Len(t.slots) -> Slot]
      BY <2>1, <2>3
    <2> QED BY <1>4, <2>2, <2>4, FunctionIsSeq
  <1> HIDE DEF slots
  <1>10. /\ b \in Statements /\ b.batch = <<>> /\ b.sets = count /\ b.slots = slots /\ b.stride = t.stride
    BY <1>1, <1>2, <1>4, <1>5, <1>9, Zenon DEF Statements
  <1>11. Chunk(call.rows, call.start, count, ParamSets(b))
    <2> DEFINE p == ParamSets(b)
    <2>1. ASSUME NEW i \in 1..count PROVE p[i] = call.rows[call.start + i]
      <3>1. i <= Len(b.slots)
        BY <1>2, <1>9, <1>10 DEF FirstChunk
      <3>2. p[i] = [id |-> slots[i].id, text |-> IF slots[i].ind = Null THEN Null ELSE slots[i].data]
        <4>1. p[i] = IF i > Len(b.slots) THEN [id |-> 0, text |-> Torn]
                     ELSE [id |-> b.slots[i].id, text |-> IF b.slots[i].ind = Null THEN Null ELSE b.slots[i].data]
          BY <1>10, Zenon DEF ParamSets
        <4>2. ~(i > Len(b.slots))
          BY <1>9, <1>10, <3>1, LenProperties
        <4> HIDE DEF p
        <4> QED BY <1>10, <4>1, <4>2
      <3> HIDE DEF p
      <3> QED BY <1>6, <1>8, <3>2, Zenon DEF Row
    <2>2. p = [i \in 1..count |-> p[i]]
      BY <1>10 DEF ParamSets
    <2> HIDE DEF p
    <2>3. \A i \in 1..count : p[i] \in Row
      BY <1>6, <2>1, Zenon
    <2>4. p \in Seq(Row) /\ Len(p) = count
      <3>1. p \in [1..count -> Row]
        BY <2>2, <2>3, Zenon
      <3>2. count \in Nat
        BY <1>2
      <3> QED BY <3>1, <3>2, FunctionIsSeq, Zenon
    <2> QED BY <2>1, <2>4, Zenon DEF Chunk, p
  <1> QED BY <1>4, <1>9, <1>10, <1>11, Zenon

\* `count` rows of a call after `start`.
LEMMA RowsTaken ==
  ASSUME NEW rows \in Seq(Row), NEW start \in Nat, NEW count \in Nat \ {0}, start + count <= Len(rows)
  PROVE  LET c == SubSeq(rows, start + 1, start + count)
         IN  c \in Seq(Row) /\ Len(c) = count /\ \A i \in 1..count : c[i] = rows[start + i]
  <1>1. Len(rows) \in Nat
    BY LenProperties
  <1> DEFINE m == start + 1
             n == start + count
             c == SubSeq(rows, m, n)
  <1>2. \A i \in m..n : rows[i] \in Row
    <2> TAKE i \in m..n
    <2>1. i \in 1..Len(rows)
      BY <1>1
    <2> QED BY <2>1, ElementOfSeq
  <1>3. m \in Int /\ n \in Int /\ m <= n /\ (n - m) + 1 = count
    OBVIOUS
  <1>4. \A i \in 1..count : (m + i) - 1 = start + i
    OBVIOUS
  <1> HIDE DEF m, n
  <1>5. /\ c \in Seq(Row) /\ Len(c) = (n - m) + 1
        /\ \A i \in 1..((n - m) + 1) : c[i] = rows[(m + i) - 1]
    BY <1>2, <1>3, SubSeqProperties
  <1> HIDE DEF c
  <1>6. Len(c) = count /\ \A i \in 1..count : c[i] = rows[start + i]
    BY <1>3, <1>4, <1>5, Zenon
  <1> QED BY <1>5, <1>6, Zenon DEF c, m, n

\* The statement a turn executes: it keeps its shape, its batch is empty once it
\* ran, and for an array it is ready for the next chunk.
LEMMA BoundKeeps ==
  ASSUME WriteInv, call.pc = "write",
         NEW count, count = Min({call.chunk, Len(call.rows) - call.start})
  PROVE  /\ Bound(count) \in Statements
         /\ Columnar /\ ~call.single =>
              /\ Bound(count).sets = count /\ Len(Bound(count).slots) = FirstChunk
              /\ \A i \in 1..Len(call.rows) : call.rows[i].text <= Bound(count).stride
  <1>1. /\ count \in Nat \ {0} /\ call.start + count <= Len(call.rows)
    BY TurnTakes, Zenon
  <1>2. stmt \in Statements /\ call.rows \in Seq(Row) /\ call.start \in Nat /\ call.single \in BOOLEAN
    BY DEF WriteInv, WriteType, SentInv
  <1>3. CASE call.single
    <2>1. Bound(count) = BindOne(stmt, call.rows[1])
      BY <1>3, Zenon DEF Bound
    <2>2. call.rows[1] \in Row
      BY <1>2, <1>1, ElementOfSeq
    <2>3. <<[id |-> call.rows[1].id, data |-> call.rows[1].text, ind |-> call.rows[1].text]>> \in Seq(Slot)
      BY <2>2 DEF Slot, Row
    <2> QED BY <1>2, <1>3, <2>1, <2>3, Zenon DEF BindOne, Statements
  <1>4. CASE ~call.single /\ Columnar
    <2>1. Bound(count) = StageChunk(stmt, call.rows, call.start, count, call.chunk)
      BY <1>4, Zenon DEF Bound
    <2> QED BY <1>4, <2>1, StagedIsChunk, Zenon
  <1>5. CASE ~call.single /\ ~Columnar
    <2> DEFINE rows == SubSeq(call.rows, call.start + 1, call.start + count)
    <2>1. Bound(count) = [stmt EXCEPT !.batch = rows]
      BY <1>5, Zenon DEF Bound
    <2>2. rows \in Seq(Row)
      BY <1>1, <1>2, RowsTaken, Zenon
    <2> HIDE DEF rows
    <2> QED BY <1>2, <1>5, <2>1, <2>2, Zenon DEF Statements
  <1> QED BY <1>2, <1>3, <1>4, <1>5, Zenon

\* One row bound by itself.
LEMMA SingleIsRow ==
  ASSUME WriteInv, call.pc = "write", call.single, NEW b, b = BindOne(stmt, call.rows[1])
  PROVE  /\ b.batch = <<>> /\ call.start = 0 /\ Single(b) = call.rows[1]
         /\ Chunk(call.rows, 0, 1, <<call.rows[1]>>)
         /\ ParamSets(b) = <<call.rows[1]>>
  <1>1. /\ stmt \in Statements /\ stmt.batch = <<>> /\ call.rows \in Seq(Row) /\ Len(call.rows) = 1
        /\ call.start = 0 /\ stmt.sets = 1
    BY DEF WriteInv, WriteType, SentInv
  <1> DEFINE row == call.rows[1]
             slot == [id |-> row.id, data |-> row.text, ind |-> row.text]
  <1>2. row \in Row
    BY <1>1, ElementOfSeq
  <1>3. b.batch = <<>> /\ b.sets = 1 /\ b.slots = <<slot>>
    BY <1>1 DEF BindOne, Statements
  <1> HIDE DEF row
  <1>4. row = [id |-> row.id, text |-> row.text]
    BY <1>2 DEF Row
  <1>5. Single(b) = row
    BY <1>3, <1>4 DEF Single
  <1>6. ParamSets(b) = <<row>>
    <2>1. Len(b.slots) = 1 /\ b.slots[1] = slot
      BY <1>3
    <2>2. ParamSets(b) = [i \in 1..1 |-> row]
      <3>1. ParamSets(b) = [i \in 1..1 |-> ParamSets(b)[i]]
        BY <1>3 DEF ParamSets
      <3>2. ParamSets(b)[1] = [id |-> slot.id, text |-> IF slot.ind = Null THEN Null ELSE slot.data]
        BY <1>3, <2>1 DEF ParamSets
      <3>3. ParamSets(b)[1] = row
        BY <1>4, <3>2
      <3> QED BY <3>1, <3>3
    <2> QED BY <2>2
  <1>7. Chunk(call.rows, 0, 1, <<row>>)
    BY <1>2 DEF Chunk, row
  <1> QED BY <1>1, <1>3, <1>5, <1>6, <1>7 DEF row

\* Whatever the backend, a turn runs its rows, or some of them and fails.
LEMMA TurnRuns ==
  ASSUME WriteInv, call.pc = "write",
         NEW count, count = Min({call.chunk, Len(call.rows) - call.start}),
         NEW r \in ExecuteBound(Bound(count))
  PROVE  Outcome(call.rows, call.start, count, r)
  <1>1. /\ count \in Nat \ {0} /\ call.start + count <= Len(call.rows)
    BY TurnTakes, Zenon
  <1>2. /\ stmt \in Statements /\ call.rows \in Seq(Row) /\ call.start \in Nat
        /\ call.single \in BOOLEAN /\ server.aborted \in BOOLEAN
    BY DEF WriteInv, WriteType, SentInv
  <1>3. CASE r = [ran |-> <<>>, ok |-> FALSE, count |-> 0]
    BY <1>1, <1>3, NothingRuns
  <1> DEFINE b == Bound(count)
  <1>4. \/ r = [ran |-> <<>>, ok |-> FALSE, count |-> 0]
        \/ Columnar /\ r \in OdbcExecute(b)
        \/ ~Columnar /\ r \in OracleExecute(b) \cup LibpqExecute(b)
    <2>1. ~(Columnar /\ kind = "oracle")
      BY DEF Columnar
    <2> QED BY <1>2, <2>1, Zenon DEF ExecuteBound
  <1>5. CASE call.single
    <2>1. b = BindOne(stmt, call.rows[1])
      BY <1>5, Zenon DEF Bound
    <2> HIDE DEF b
    <2>2. /\ b.batch = <<>> /\ call.start = 0 /\ Single(b) = call.rows[1]
          /\ Chunk(call.rows, 0, 1, <<call.rows[1]>>)
          /\ ParamSets(b) = <<call.rows[1]>>
      BY <1>5, <2>1, SingleIsRow
    <2>3. count = 1
      BY <1>1, <1>5, <2>2 DEF WriteInv, SentInv
    <2>4. CASE Columnar /\ r \in OdbcExecute(b)
      BY <1>1, <2>2, <2>3, <2>4, OdbcRuns
    <2>5. CASE r \in OracleExecute(b) \cup LibpqExecute(b)
      <3>1. \/ r = [ran |-> <<>>, ok |-> FALSE, count |-> 0]
            \/ r = [ran |-> <<Single(b)>>, ok |-> TRUE, count |-> Total(<<Single(b)>>)]
        BY <2>2, <2>5, Zenon DEF OracleExecute, LibpqExecute, RunReady
      <3>2. CASE r = [ran |-> <<Single(b)>>, ok |-> TRUE, count |-> Total(<<Single(b)>>)]
        <4>1. r.ran = <<call.rows[1]>> /\ r.ok = TRUE
          BY <2>2, <3>2
        <4> QED BY <2>2, <2>3, <4>1, AllRuns, Zenon
      <3> QED BY <1>3, <3>1, <3>2
    <2> QED BY <1>3, <1>4, <2>4, <2>5 DEF b
  <1>6. CASE ~call.single /\ Columnar
    <2>1. b = StageChunk(stmt, call.rows, call.start, count, call.chunk)
      BY <1>6, Zenon DEF Bound
    <2> HIDE DEF b
    <2>2. Chunk(call.rows, call.start, count, ParamSets(b))
      BY <1>6, <2>1, StagedIsChunk, Zenon
    <2>3. CASE r \in OdbcExecute(b)
      BY <1>1, <2>2, <2>3, OdbcRuns
    <2> QED BY <1>3, <1>4, <1>6, <2>3 DEF b
  <1>7. CASE ~call.single /\ ~Columnar
    <2> DEFINE c == SubSeq(call.rows, call.start + 1, call.start + count)
    <2>1. b = [stmt EXCEPT !.batch = c]
      BY <1>7, Zenon DEF Bound
    <2> HIDE DEF b
    <2>2. c \in Seq(Row) /\ Len(c) = count /\ \A i \in 1..count : c[i] = call.rows[call.start + i]
      BY <1>1, <1>2, RowsTaken, Zenon
    <2> HIDE DEF c
    <2>3. b.batch = c /\ c # <<>>
      BY <1>1, <1>2, <2>1, <2>2 DEF Statements
    <2>4. Chunk(call.rows, call.start, count, b.batch)
      BY <2>2, <2>3, Zenon DEF Chunk
    <2>5. CASE r \in OracleExecute(b) \cup LibpqExecute(b)
      <3>1. r \in OracleRunBatch(b) \cup LibpqRunBatch(b)
        BY <2>3, <2>5, Zenon DEF OracleExecute, LibpqExecute
      <3> QED BY <1>1, <2>4, <3>1, BatchRuns
    <2> QED BY <1>3, <1>4, <1>7, <2>5 DEF b
  <1> QED BY <1>2, <1>5, <1>6, <1>7
-----------------------------------------------------------------------------
(* Every step keeps the invariant *)

LEMMA BatchInitInv == BatchInit => WriteInv
  <1> SUFFICES ASSUME BatchInit PROVE WriteInv
    OBVIOUS
  <1>1. WriteType
    BY DEF BatchInit, Idle, WriteType
  <1>2. SentInv
    BY DEF BatchInit, Idle, SentInv, Begins
  <1>3. KeptInv
    BY DEF BatchInit, Idle, KeptInv, NoHalfCommit, ModeGivenBack
  <1> QED BY <1>1, <1>2, <1>3 DEF WriteInv

\* The texts and matches of a call.
LEMMA InputTyped ==
  ASSUME NEW input \in Inputs
  PROVE  /\ \E n \in 0..MaxRows : input.texts \in [1..n -> Int] /\ \A i \in 1..n : input.texts[i] <= MaxText
         /\ input.hits \in [1..MaxRows -> 0..1]
  <1>1. PICK n \in 0..MaxRows :
          input \in IF op = "insert"
                    THEN {[texts |-> t, hits |-> [i \in 1..MaxRows |-> 1]] : t \in [1..n -> Texts \cup {Null}]}
                    ELSE {[texts |-> [i \in 1..n |-> 1], hits |-> h] : h \in [1..MaxRows -> 0..1]}
    BY Zenon DEF Inputs
  <1>2. CASE op = "insert"
    <2>1. PICK t \in [1..n -> Texts \cup {Null}] : input = [texts |-> t, hits |-> [i \in 1..MaxRows |-> 1]]
      BY <1>1, <1>2
    <2>2. t \in [1..n -> Int] /\ \A i \in 1..n : t[i] <= MaxText
      BY DEF Texts, Null
    <2> QED BY <2>1, <2>2
  <1>3. CASE op # "insert"
    <2>1. PICK h \in [1..MaxRows -> 0..1] : input = [texts |-> [i \in 1..n |-> 1], hits |-> h]
      BY <1>1, <1>3
    <2> QED BY <2>1
  <1> QED BY <1>2, <1>3, Zenon

LEMMA StartInv ==
  ASSUME WriteInv, NEW input \in Inputs, NEW size \in 0..MaxChunk, NEW single \in BOOLEAN,
         Start(input, size, single)
  PROVE  WriteInv'
  <1> DEFINE rows == [i \in 1..Len(input.texts) |-> [id |-> i, text |-> input.texts[i]]]
             chunk == IF single THEN 1 ELSE WriteChunk(IF size > 0 THEN size ELSE DefaultParamset)
             c == call'
  <1>1. rows \in Seq(Row) /\ Len(rows) = Len(input.texts) /\ \A i \in 1..Len(rows) : rows[i].text <= MaxText
    <2>1. PICK n \in 0..MaxRows : input.texts \in [1..n -> Int] /\ \A i \in 1..n : input.texts[i] <= MaxText
      BY InputTyped, Zenon
    <2>2. n \in Nat /\ Len(input.texts) = n
      BY <2>1, FunctionIsSeq
    <2>3. rows \in [1..n -> Row] /\ \A i \in 1..n : rows[i].text <= MaxText
      BY <2>1, <2>2 DEF Row
    <2> HIDE DEF rows
    <2> QED BY <2>2, <2>3, FunctionIsSeq
  <1>2. chunk \in Nat \ {0} /\ (single => chunk = 1)
    BY DEF WriteChunk
  <1>3. /\ call.pc = "idle" /\ line /\ (single => Len(input.texts) = 1)
        /\ server' = [server EXCEPT !.pending = <<>>, !.durable = <<>>]
        /\ UNCHANGED <<kind, op, autocommit, line, stmt>>
    BY DEF Start
  <1>4. /\ c = [pc |-> IF rows = <<>> THEN "idle" ELSE "acquire",
                end |-> IF rows = <<>> THEN "returned" ELSE "none", rows |-> rows, hits |-> input.hits,
                single |-> single, auto |-> autocommit, n |-> call.n + 1, chunk |-> chunk,
                start |-> 0, tally |-> 0, sent |-> <<>>]
    BY Zenon DEF Start, Idle
  <1> HIDE DEF rows, chunk
  <1>5. /\ autocommit \in BOOLEAN /\ line \in BOOLEAN /\ call.n \in Nat
        /\ server \in [pending : Seq(Row), durable : Seq(Row), aborted : BOOLEAN]
        /\ stmt # NoStatement => stmt \in Statements
        /\ autocommit => ~server.aborted
    BY <1>3 DEF WriteInv, WriteType, KeptInv
  <1>6. server'.pending = <<>> /\ server'.durable = <<>> /\ server'.aborted = server.aborted
    BY <1>3, <1>5
  <1>7. WriteType'
    <2>1. server' \in [pending : Seq(Row), durable : Seq(Row), aborted : BOOLEAN]
      <3>1. <<>> \in Seq(Row)
        OBVIOUS
      <3> QED BY <1>3, <1>5, <3>1, Zenon
    <2>2. input.hits \in [1..MaxRows -> 0..1]
      BY InputTyped, Zenon
    <2> QED BY <1>1, <1>2, <1>3, <1>4, <1>5, <2>1, <2>2 DEF WriteType, Statements
  <1>8. SentInv'
    BY <1>1, <1>2, <1>3, <1>4 DEF SentInv, Begins
  <1>9. KeptInv'
    BY <1>3, <1>4, <1>5, <1>6 DEF KeptInv, NoHalfCommit, ModeGivenBack
  <1> QED BY <1>7, <1>8, <1>9 DEF WriteInv

LEMMA AcquireInv ==
  ASSUME WriteInv, Acquire
  PROVE  WriteInv'
  <1>1. /\ call.pc = "acquire" /\ autocommit' = (autocommit /\ ~InTransaction)
        /\ UNCHANGED <<kind, op, line, server>>
    BY DEF Acquire
  <1>2. PICK parses \in BOOLEAN :
          /\ stmt # NoStatement => parses
          /\ stmt' = IF stmt # NoStatement THEN ResetStatement(stmt) ELSE IF parses THEN Fresh ELSE NoStatement
          /\ call' = [call EXCEPT !.pc = IF parses THEN "write" ELSE "unwind"]
    BY Zenon DEF Acquire
  <1>3. WriteType /\ SentInv /\ KeptInv
    BY DEF WriteInv
  <1>4. Fresh \in Statements /\ Fresh.batch = <<>> /\ Fresh.sets = 1
    BY DEF Fresh, Statements
  <1>5. stmt # NoStatement => /\ ResetStatement(stmt) \in Statements
                              /\ ResetStatement(stmt).batch = <<>> /\ ResetStatement(stmt).sets = 1
    <2> SUFFICES ASSUME stmt # NoStatement
                 PROVE  /\ ResetStatement(stmt) \in Statements
                        /\ ResetStatement(stmt).batch = <<>> /\ ResetStatement(stmt).sets = 1
      OBVIOUS
    <2>1. stmt \in Statements
      BY <1>3 DEF WriteType
    <2>2. <<>> \in Seq(Slot) /\ <<>> \in Seq(Row) /\ 1 \in Nat
      OBVIOUS
    <2> QED BY <2>1, <2>2, Zenon DEF ResetStatement, Statements
  <1>6. /\ parses => stmt' \in Statements /\ stmt'.batch = <<>> /\ stmt'.sets = 1
        /\ stmt' # NoStatement => stmt' \in Statements
    BY <1>2, <1>4, <1>5
  <1>7. autocommit' \in BOOLEAN /\ autocommit' = (call.auto /\ call.single)
    BY <1>1, <1>3 DEF InTransaction, WriteType, KeptInv
  <1>8. WriteType'
    BY <1>1, <1>2, <1>3, <1>6, <1>7, Zenon DEF WriteType
  <1>9. SentInv'
    BY <1>1, <1>2, <1>3, <1>6 DEF SentInv, Begins, WriteType
  <1>10. KeptInv'
    <2>1. /\ line /\ autocommit = call.auto /\ server.durable = <<>> /\ server.pending = <<>>
          /\ autocommit => ~server.aborted
          /\ call.sent = <<>> /\ call.auto \in BOOLEAN /\ call.single \in BOOLEAN
      BY <1>1, <1>3 DEF KeptInv, SentInv, WriteType
    <2>2. /\ call'.pc = (IF parses THEN "write" ELSE "unwind") /\ call'.sent = call.sent
          /\ call'.auto = call.auto /\ call'.single = call.single
      BY <1>2, <1>3 DEF WriteType
    <2>3. CASE parses
      BY <1>1, <1>7, <2>1, <2>2, <2>3 DEF KeptInv, NoHalfCommit, ModeGivenBack
    <2>4. CASE ~parses
      BY <1>1, <1>7, <2>1, <2>2, <2>4 DEF KeptInv, NoHalfCommit, ModeGivenBack
    <2> QED BY <2>3, <2>4
  <1> QED BY <1>8, <1>9, <1>10 DEF WriteInv

\* What ran is appended to what was sent, and continues it.
LEMMA SentGrows ==
  ASSUME WriteInv, call.pc = "write", NEW count \in Nat, call.start + count <= Len(call.rows),
         NEW r, Outcome(call.rows, call.start, count, r)
  PROVE  /\ call.sent \o r.ran \in Seq(Row) /\ Begins(call.sent \o r.ran, call.rows)
         /\ r.ok => Len(call.sent \o r.ran) = call.start + count
  <1> DEFINE rows == call.rows
             sent == call.sent
  <1>0. /\ rows \in Seq(Row) /\ sent \in Seq(Row) /\ Begins(sent, rows) /\ call.start = Len(sent)
        /\ Len(sent) + count <= Len(rows) /\ Outcome(rows, Len(sent), count, r)
    BY DEF WriteInv, WriteType, SentInv
  <1> HIDE DEF rows, sent
  <1> DEFINE ran == r.ran
             all == sent \o ran
  <1>1. /\ ran \in Seq(Row) /\ Len(ran) \in Nat /\ Len(ran) <= count /\ (r.ok => Len(ran) = count)
        /\ \A i \in 1..Len(ran) : ran[i] = rows[Len(sent) + i]
    BY <1>0, LenProperties DEF Outcome
  <1> HIDE DEF ran
  <1>2. /\ all \in Seq(Row) /\ Len(all) = Len(sent) + Len(ran)
        /\ \A i \in 1..Len(all) : all[i] = IF i <= Len(sent) THEN sent[i] ELSE ran[i - Len(sent)]
    BY <1>0, <1>1, ConcatProperties
  <1>3. Len(sent) \in Nat /\ Len(rows) \in Nat
    BY <1>0, LenProperties
  <1> HIDE DEF all
  <1>4. \A i \in 1..Len(all) : all[i] = rows[i]
    <2> TAKE i \in 1..Len(all)
    <2>1. CASE i <= Len(sent)
      BY <1>0, <1>2, <1>3, <2>1 DEF Begins
    <2>2. CASE ~(i <= Len(sent))
      <3> DEFINE j == i - Len(sent)
      <3>1. j \in 1..Len(ran) /\ Len(sent) + j = i
        BY <1>1, <1>2, <1>3, <2>2
      <3>2. all[i] = ran[j]
        BY <1>2, <2>2
      <3> HIDE DEF j
      <3> QED BY <1>1, <3>1, <3>2
    <2> QED BY <2>1, <2>2
  <1>5. Len(all) <= Len(rows)
    BY <1>0, <1>1, <1>2, <1>3
  <1>6. r.ok => Len(all) = Len(sent) + count
    BY <1>1, <1>2, Zenon
  <1> QED BY <1>0, <1>2, <1>4, <1>5, <1>6, Zenon DEF Begins, all, ran, rows, sent

\* All rows sent are the rows.
LEMMA AllSent ==
  ASSUME NEW rows \in Seq(Row), NEW sent \in Seq(Row), Begins(sent, rows), Len(sent) = Len(rows)
  PROVE  sent = rows
  BY SeqEqual DEF Begins

LEMMA WriteOneInv ==
  ASSUME WriteInv, WriteOne
  PROVE  WriteInv'
  <1> DEFINE count == Min({call.chunk, Len(call.rows) - call.start})
             bound == Bound(count)
  <1>1. call.pc = "write" /\ UNCHANGED <<kind, op, autocommit>>
    BY DEF WriteOne
  <1>2. PICK r \in ExecuteBound(bound), dies \in BOOLEAN :
          /\ dies => ~r.ok
          /\ line' = ~dies
          /\ stmt' = IF r.ok THEN [bound EXCEPT !.batch = <<>>, !.parsed = TRUE] ELSE NoStatement
          /\ server' = LET s == Applied(r.ran, r.ok) IN IF dies THEN [s EXCEPT !.pending = <<>>] ELSE s
          /\ call' =
               [call EXCEPT
                  !.sent = @ \o r.ran,
                  !.start = @ + count,
                  !.tally = @ + (IF Columnar /\ op = "insert" THEN count ELSE r.count),
                  !.pc = CASE ~r.ok -> "unwind"
                           [] r.ok /\ call.start + count < Len(call.rows) -> "write"
                           [] OTHER -> "commit"]
    BY Zenon DEF WriteOne
  <1>3. WriteType /\ SentInv /\ KeptInv
    BY DEF WriteInv
  <1>4. /\ count \in Nat \ {0} /\ call.start + count <= Len(call.rows)
        /\ call.start + count < Len(call.rows) => count = FirstChunk
    BY <1>1, TurnTakes, Zenon
  <1>5. /\ bound \in Statements
        /\ Columnar /\ ~call.single =>
             /\ bound.sets = count /\ Len(bound.slots) = FirstChunk
             /\ \A i \in 1..Len(call.rows) : call.rows[i].text <= bound.stride
    BY <1>1, BoundKeeps, Zenon
  <1>6. Outcome(call.rows, call.start, count, r)
    BY <1>1, TurnRuns, Zenon
  <1>7. r.ok \in BOOLEAN
    BY <1>6 DEF Outcome
  <1> DEFINE sent == call.sent \o r.ran
             pc == IF ~r.ok THEN "unwind" ELSE IF call.start + count < Len(call.rows) THEN "write" ELSE "commit"
  <1> HIDE DEF count, bound
  <1>8. /\ call.rows \in Seq(Row) /\ call.sent \in Seq(Row) /\ call.start \in Nat /\ Len(call.sent) = call.start
        /\ call.auto \in BOOLEAN /\ call.single \in BOOLEAN /\ autocommit \in BOOLEAN
        /\ Begins(call.sent, call.rows)
    BY <1>1, <1>3 DEF WriteType, SentInv
  <1>9. sent \in Seq(Row) /\ Begins(sent, call.rows) /\ (r.ok => Len(sent) = call.start + count)
    BY <1>1, <1>4, <1>6, SentGrows, Zenon
  <1>10. /\ call'.sent = sent /\ call'.start = call.start + count /\ call'.pc = pc
         /\ call' = [call EXCEPT !.sent = sent, !.start = call.start + count, !.tally = call'.tally, !.pc = pc]
    <2>1. pc = CASE ~r.ok -> "unwind"
                 [] r.ok /\ call.start + count < Len(call.rows) -> "write"
                 [] OTHER -> "commit"
      BY <1>7
    <2> HIDE DEF sent, pc
    <2>2. call' = [call EXCEPT !.sent = sent, !.start = call.start + count,
                      !.tally = call.tally + (IF Columnar /\ op = "insert" THEN count ELSE r.count), !.pc = pc]
      BY <1>2, <1>3, <2>1 DEF WriteType, sent
    <2> QED BY <1>3, <2>2 DEF WriteType
  <1> HIDE DEF sent
  <1>11. /\ call'.rows = call.rows /\ call'.single = call.single /\ call'.auto = call.auto
         /\ call'.chunk = call.chunk
    BY <1>3, <1>10, Zenon DEF WriteType
  <1>12. r.ok => /\ stmt' \in Statements /\ stmt'.batch = <<>> /\ stmt'.sets = bound.sets
                 /\ stmt'.slots = bound.slots /\ stmt'.stride = bound.stride
    <2>1. <<>> \in Seq(Row)
      OBVIOUS
    <2> QED BY <1>2, <1>5, <2>1, Zenon DEF Statements
  <1>13. /\ server'.pending = IF dies THEN <<>> ELSE IF autocommit THEN server.pending ELSE server.pending \o r.ran
         /\ server'.durable = IF autocommit THEN server.durable \o r.ran ELSE server.durable
         /\ server'.aborted = (server.aborted \/ (kind = "libpq" /\ ~autocommit /\ ~r.ok))
         /\ server' = [pending |-> server'.pending, durable |-> server'.durable, aborted |-> server'.aborted]
    <2>1. server \in [pending : Seq(Row), durable : Seq(Row), aborted : BOOLEAN]
      BY <1>3 DEF WriteType
    <2>2. CASE dies
      BY <1>2, <2>1, <2>2, Zenon DEF Applied
    <2>3. CASE ~dies
      BY <1>2, <2>1, <2>3, Zenon DEF Applied
    <2> QED BY <2>2, <2>3
  <1>14. WriteType'
    <2>1. stmt' # NoStatement => stmt' \in Statements
      BY <1>2, <1>12
    <2>2. server' \in [pending : Seq(Row), durable : Seq(Row), aborted : BOOLEAN]
      <3>1. server.pending \in Seq(Row) /\ server.durable \in Seq(Row) /\ server.aborted \in BOOLEAN
        BY <1>3 DEF WriteType
      <3>2. r.ran \in Seq(Row)
        BY <1>6 DEF Outcome
      <3>3. server'.pending \in Seq(Row) /\ server'.durable \in Seq(Row)
        BY <1>13, <3>1, <3>2, ConcatProperties
      <3>4. server'.aborted \in BOOLEAN
        BY <1>13, <3>1
      <3> QED BY <1>13, <3>3, <3>4, Zenon
    <2>3. call.start + count \in Nat /\ pc \in {"idle", "acquire", "write", "commit", "unwind"}
      BY <1>4, <1>8
    <2> HIDE DEF pc
    <2> QED BY <1>1, <1>2, <1>3, <1>9, <1>10, <2>1, <2>2, <2>3, Zenon DEF WriteType
  <1>15. SentInv'
    <2>1. pc = "commit" => sent = call.rows
      BY <1>4, <1>7, <1>8, <1>9, AllSent
    <2>2. pc = "write" =>
            /\ Len(sent) = call.start + count /\ call.start + count < Len(call.rows)
            /\ stmt' \in Statements /\ stmt'.batch = <<>>
            /\ call.start + count # 0
            /\ kind \in {"odbc", "psqlodbc"} =>
                 /\ stmt'.sets = FirstChunk /\ Len(stmt'.slots) = FirstChunk
                 /\ \A i \in 1..Len(call.rows) : call.rows[i].text <= stmt'.stride
      <3> SUFFICES ASSUME pc = "write"
                   PROVE  /\ Len(sent) = call.start + count /\ call.start + count < Len(call.rows)
                          /\ stmt' \in Statements /\ stmt'.batch = <<>>
                          /\ call.start + count # 0
                          /\ kind \in {"odbc", "psqlodbc"} =>
                               /\ stmt'.sets = FirstChunk /\ Len(stmt'.slots) = FirstChunk
                               /\ \A i \in 1..Len(call.rows) : call.rows[i].text <= stmt'.stride
        OBVIOUS
      <3>1. r.ok /\ call.start + count < Len(call.rows)
        BY <1>7
      <3>2. ~call.single
        BY <1>3, <1>4, <1>8, <3>1 DEF SentInv
      <3>3. kind \in {"odbc", "psqlodbc"} => Columnar
        BY DEF Columnar
      <3>4. call.start + count # 0
        BY <1>4, <1>8
      <3> QED BY <1>4, <1>5, <1>9, <1>12, <3>1, <3>2, <3>3, <3>4
    <2>3. pc # "acquire"
      OBVIOUS
    <2>4. FirstChunk' = FirstChunk
      BY <1>11 DEF FirstChunk
    <2> HIDE DEF pc
    <2> QED BY <1>1, <1>3, <1>9, <1>10, <1>11, <2>1, <2>2, <2>3, <2>4 DEF SentInv
  <1>16. KeptInv'
    <2>1. /\ autocommit = (call.auto /\ call.single)
          /\ autocommit => server.durable = call.sent /\ server.pending = <<>> /\ ~server.aborted
          /\ ~autocommit => server.durable = <<>> /\ server.pending = call.sent
      BY <1>1, <1>3 DEF KeptInv
    <2>2. CASE r.ok
      <3>1. /\ autocommit => server'.durable = sent /\ server'.pending = <<>> /\ ~server'.aborted
            /\ ~autocommit => server'.durable = <<>> /\ server'.pending = sent
        BY <1>2, <1>7, <1>8, <1>13, <2>1, <2>2, Zenon DEF sent
      <3>2. pc \in {"write", "commit"} /\ line'
        BY <1>2, <2>2, Zenon
      <3> HIDE DEF pc
      <3> QED BY <1>1, <1>10, <1>11, <2>1, <3>1, <3>2 DEF KeptInv, NoHalfCommit, ModeGivenBack
    <2>3. CASE ~r.ok
      <3>1. autocommit => r.ran = <<>> /\ call.sent = <<>>
        <4> SUFFICES ASSUME autocommit PROVE r.ran = <<>> /\ call.sent = <<>>
          OBVIOUS
        <4>1. Len(call.rows) = 1 /\ Len(call.sent) = 0 /\ count = 1
          BY <1>3, <1>4, <1>8, <2>1 DEF SentInv
        <4>2. r.ran \in Seq(Row) /\ Len(r.ran) = 0
          BY <1>6, <2>3, <4>1, LenProperties DEF Outcome
        <4> QED BY <1>8, <4>1, <4>2, EmptySeq
      <3>2. server'.durable = <<>> /\ (autocommit => server'.pending = <<>> /\ ~server'.aborted)
        <4>1. CASE autocommit
          <5>1. <<>> \o <<>> = <<>>
            OBVIOUS
          <5> QED BY <1>13, <2>1, <3>1, <4>1, <5>1, Zenon
        <4>2. CASE ~autocommit
          BY <1>13, <2>1, <4>2, Zenon
        <4> QED BY <4>1, <4>2
      <3>3. pc = "unwind"
        BY <2>3
      <3> HIDE DEF pc
      <3> QED BY <1>1, <1>8, <1>10, <1>11, <2>1, <3>2, <3>3 DEF KeptInv, NoHalfCommit, ModeGivenBack
    <2> QED BY <1>7, <2>2, <2>3
  <1> QED BY <1>14, <1>15, <1>16 DEF WriteInv

\* A rollback leaves what is kept.
LEMMA RolledBack ==
  ASSUME NEW s \in [pending : Seq(Row), durable : Seq(Row), aborted : BOOLEAN],
         NEW t, t = [s EXCEPT !.pending = <<>>, !.aborted = FALSE]
  PROVE  /\ t \in [pending : Seq(Row), durable : Seq(Row), aborted : BOOLEAN]
         /\ t.durable = s.durable /\ t.pending = <<>> /\ t.aborted = FALSE
  <1>1. <<>> \in Seq(Row)
    OBVIOUS
  <1>2. t = [pending |-> <<>>, durable |-> s.durable, aborted |-> FALSE]
    BY Zenon
  <1>3. s.durable \in Seq(Row)
    OBVIOUS
  <1> QED BY <1>1, <1>2, <1>3, Zenon

LEMMA CommitBatchInv ==
  ASSUME WriteInv, CommitBatch
  PROVE  WriteInv'
  <1>1. call.pc = "commit" /\ call.auto /\ ~call.single /\ UNCHANGED <<kind, op, stmt>>
    BY DEF CommitBatch, InTransaction
  <1>2. PICK kept \in BOOLEAN, ok \in BOOLEAN, dies \in BOOLEAN :
          /\ dies => ~ok
          /\ ok => kept
          /\ server' = [pending |-> <<>>, durable |-> IF kept THEN server.durable \o server.pending ELSE server.durable,
                        aborted |-> FALSE]
          /\ line' = ~dies /\ autocommit' = ok
          /\ call' = [call EXCEPT !.pc = IF ok THEN "idle" ELSE "unwind",
                                  !.end = IF ok THEN "returned" ELSE @]
    BY Zenon DEF CommitBatch
  <1>3. WriteType /\ SentInv /\ KeptInv
    BY DEF WriteInv
  <1>4. call.rows \in Seq(Row) /\ server.durable = <<>> /\ server.pending = call.rows
    BY <1>1, <1>3 DEF WriteType, SentInv, KeptInv
  <1>5. server' = [pending |-> <<>>, durable |-> IF kept THEN call.rows ELSE <<>>, aborted |-> FALSE]
    <2>1. <<>> \o call.rows = call.rows
      BY <1>4
    <2> QED BY <1>2, <1>4, <2>1
  <1>6. /\ call'.pc = (IF ok THEN "idle" ELSE "unwind") /\ call'.end = (IF ok THEN "returned" ELSE call.end)
        /\ call'.rows = call.rows /\ call'.sent = call.sent /\ call'.single = call.single
        /\ call'.auto = call.auto /\ call'.chunk = call.chunk
    BY <1>2, <1>3 DEF WriteType
  <1>7. WriteType'
    <2>1. server' \in [pending : Seq(Row), durable : Seq(Row), aborted : BOOLEAN]
      BY <1>4, <1>5
    <2> QED BY <1>1, <1>2, <1>3, <2>1, Zenon DEF WriteType
  <1>8. SentInv'
    BY <1>3, <1>6 DEF SentInv
  <1>9. KeptInv'
    <2>1. /\ server'.pending = <<>> /\ server'.aborted = FALSE /\ server'.durable \in {<<>>, call.rows}
          /\ ok => server'.durable = call.rows
      <3>1. CASE kept
        BY <1>5, <3>1
      <3>2. CASE ~kept
        BY <1>2, <1>5, <3>2
      <3> QED BY <3>1, <3>2, Zenon
    <2>2. autocommit' = ok /\ call'.auto = TRUE /\ call'.single = FALSE
      BY <1>1, <1>2, <1>3, <1>6 DEF WriteType
    <2>3. CASE ok
      BY <1>6, <2>1, <2>2, <2>3, Zenon DEF KeptInv, NoHalfCommit, ModeGivenBack
    <2>4. CASE ~ok
      BY <1>6, <2>1, <2>2, <2>4 DEF KeptInv, NoHalfCommit, ModeGivenBack
    <2> QED BY <2>3, <2>4
  <1> QED BY <1>7, <1>8, <1>9 DEF WriteInv

LEMMA ReturnInv ==
  ASSUME WriteInv, Return
  PROVE  WriteInv'
  <1>1. /\ call.pc = "commit" /\ ~(call.auto /\ ~call.single)
        /\ call' = [call EXCEPT !.pc = "idle", !.end = "returned"]
        /\ UNCHANGED <<kind, op, autocommit, line, server, stmt>>
    BY DEF Return, InTransaction
  <1>2. WriteType /\ SentInv /\ KeptInv
    BY DEF WriteInv
  <1>3. /\ call'.pc = "idle" /\ call'.end = "returned"
        /\ call'.rows = call.rows /\ call'.sent = call.sent /\ call'.single = call.single
        /\ call'.auto = call.auto /\ call'.chunk = call.chunk
    BY <1>1, <1>2 DEF WriteType
  <1>4. WriteType'
    BY <1>1, <1>2, Zenon DEF WriteType
  <1>5. SentInv'
    BY <1>2, <1>3 DEF SentInv
  <1>6. KeptInv'
    <2>1. /\ autocommit \in BOOLEAN /\ call.auto \in BOOLEAN /\ autocommit = call.auto /\ call.sent = call.rows
          /\ autocommit => server.durable = call.sent /\ server.pending = <<>> /\ ~server.aborted
          /\ ~autocommit => server.durable = <<>>
      BY <1>1, <1>2 DEF WriteType, SentInv, KeptInv
    <2> QED BY <1>1, <1>3, <2>1 DEF KeptInv, NoHalfCommit, ModeGivenBack
  <1> QED BY <1>4, <1>5, <1>6 DEF WriteInv

LEMMA UnwindInv ==
  ASSUME WriteInv, Unwind
  PROVE  WriteInv'
  <1>1. /\ call.pc = "unwind" /\ call' = [call EXCEPT !.pc = "idle", !.end = "thrown"]
        /\ UNCHANGED <<kind, op, line, stmt>>
    BY DEF Unwind
  <1>2. \/ /\ call.auto /\ ~call.single /\ line /\ autocommit' = TRUE
           /\ server' = [server EXCEPT !.pending = <<>>, !.aborted = FALSE]
        \/ ~(call.auto /\ ~call.single /\ line) /\ UNCHANGED <<server, autocommit>>
    BY DEF Unwind, InTransaction
  <1>3. WriteType /\ SentInv /\ KeptInv
    BY DEF WriteInv
  <1>4. /\ call'.pc = "idle" /\ call'.end = "thrown"
        /\ call'.rows = call.rows /\ call'.sent = call.sent /\ call'.single = call.single
        /\ call'.auto = call.auto /\ call'.chunk = call.chunk
    BY <1>1, <1>3 DEF WriteType
  <1>5. /\ server \in [pending : Seq(Row), durable : Seq(Row), aborted : BOOLEAN]
        /\ autocommit \in BOOLEAN /\ line \in BOOLEAN /\ call.auto \in BOOLEAN /\ call.single \in BOOLEAN
        /\ server.durable \in {<<>>, call.rows} /\ (~call.auto => server.durable = <<>>)
        /\ call.auto /\ ~call.single => ~autocommit
        /\ ~(call.auto /\ ~call.single) =>
             autocommit = call.auto /\ (autocommit => server.pending = <<>> /\ ~server.aborted)
    BY <1>1, <1>3 DEF WriteType, KeptInv
  <1>6. SentInv'
    BY <1>3, <1>4 DEF SentInv
  <1>7. CASE call.auto /\ ~call.single /\ line /\ autocommit' = TRUE
             /\ server' = [server EXCEPT !.pending = <<>>, !.aborted = FALSE]
    <2>1. /\ server' \in [pending : Seq(Row), durable : Seq(Row), aborted : BOOLEAN]
          /\ server'.durable = server.durable /\ server'.pending = <<>> /\ server'.aborted = FALSE
      BY <1>5, <1>7, RolledBack, Zenon
    <2>2. WriteType'
      BY <1>1, <1>3, <1>7, <2>1, Zenon DEF WriteType
    <2>3. KeptInv'
      BY <1>1, <1>4, <1>5, <1>7, <2>1, Zenon DEF KeptInv, NoHalfCommit, ModeGivenBack
    <2> QED BY <1>6, <2>2, <2>3 DEF WriteInv
  <1>8. CASE ~(call.auto /\ ~call.single /\ line) /\ UNCHANGED <<server, autocommit>>
    <2>1. WriteType'
      BY <1>1, <1>3, <1>8, Zenon DEF WriteType
    <2>2. KeptInv'
      BY <1>1, <1>4, <1>5, <1>8 DEF KeptInv, NoHalfCommit, ModeGivenBack
    <2> QED BY <1>6, <2>1, <2>2 DEF WriteInv
  <1> QED BY <1>2, <1>7, <1>8, Zenon

LEMMA CallerRollbackInv ==
  ASSUME WriteInv, CallerRollback
  PROVE  WriteInv'
  <1>1. /\ call.pc = "idle" /\ ~autocommit /\ UNCHANGED <<kind, op, autocommit, line, stmt, call>>
        /\ server' = [server EXCEPT !.pending = <<>>, !.aborted = FALSE]
    BY DEF CallerRollback
  <1>2. WriteType /\ SentInv /\ KeptInv
    BY DEF WriteInv
  <1>3. /\ server' \in [pending : Seq(Row), durable : Seq(Row), aborted : BOOLEAN]
        /\ server'.durable = server.durable /\ server'.pending = <<>> /\ server'.aborted = FALSE
    <2>1. server \in [pending : Seq(Row), durable : Seq(Row), aborted : BOOLEAN]
      BY <1>2 DEF WriteType
    <2> QED BY <1>1, <2>1, RolledBack, Zenon
  <1>4. WriteType'
    BY <1>1, <1>2, <1>3 DEF WriteType
  <1>5. SentInv'
    BY <1>1, <1>2 DEF SentInv
  <1>6. KeptInv'
    BY <1>1, <1>2, <1>3 DEF KeptInv, NoHalfCommit, ModeGivenBack
  <1> QED BY <1>4, <1>5, <1>6 DEF WriteInv

LEMMA LoseParseInv ==
  ASSUME WriteInv, LoseParse
  PROVE  WriteInv'
  <1>1. /\ stmt # NoStatement /\ stmt' = [stmt EXCEPT !.parsed = FALSE]
        /\ UNCHANGED <<kind, op, autocommit, line, server, call>>
    BY DEF LoseParse
  <1>2. WriteType /\ SentInv /\ KeptInv
    BY DEF WriteInv
  <1>3. /\ stmt' \in Statements /\ stmt'.batch = stmt.batch /\ stmt'.sets = stmt.sets
        /\ stmt'.slots = stmt.slots /\ stmt'.stride = stmt.stride
    BY <1>1, <1>2, Zenon DEF WriteType, Statements
  <1>4. WriteType'
    BY <1>1, <1>2, <1>3 DEF WriteType
  <1>5. SentInv'
    <2>1. FirstChunk' = FirstChunk
      BY <1>1 DEF FirstChunk
    <2> QED BY <1>1, <1>2, <1>3, <2>1 DEF SentInv
  <1>6. KeptInv'
    BY <1>1, <1>2, Zenon DEF KeptInv, NoHalfCommit, ModeGivenBack
  <1> QED BY <1>4, <1>5, <1>6 DEF WriteInv

LEMMA BatchStillInv ==
  ASSUME WriteInv, UNCHANGED batchVars
  PROVE  WriteInv'
  <1>1. UNCHANGED <<kind, op, autocommit, line, server, stmt, call>>
    BY DEF batchVars
  <1>2. WriteType'
    BY <1>1, Zenon DEF WriteInv, WriteType
  <1>3. SentInv'
    BY <1>1, Zenon DEF WriteInv, SentInv, FirstChunk, Begins
  <1>4. KeptInv'
    BY <1>1, Zenon DEF WriteInv, KeptInv, NoHalfCommit, ModeGivenBack
  <1> QED BY <1>2, <1>3, <1>4 DEF WriteInv

LEMMA BatchNextInv ==
  ASSUME WriteInv, [BatchNext]_batchVars
  PROVE  WriteInv'
  <1>1. CASE BatchNext
    <2>1. ASSUME NEW input \in Inputs, NEW size \in 0..MaxChunk, NEW single \in BOOLEAN,
                 Start(input, size, single)
          PROVE  WriteInv'
      BY <2>1, StartInv
    <2> QED BY <1>1, <2>1, AcquireInv, WriteOneInv, CommitBatchInv, ReturnInv, UnwindInv,
               CallerRollbackInv, LoseParseInv, Zenon DEF BatchNext
  <1>2. CASE UNCHANGED batchVars
    BY <1>2, BatchStillInv
  <1> QED BY <1>1, <1>2

LEMMA BatchInvariant == BatchSpec => []WriteInv
  <1>1. WriteInv /\ [BatchNext]_batchVars => WriteInv'
    BY BatchNextInv
  <1> QED BY <1>1, BatchInitInv, PTL DEF BatchSpec

-----------------------------------------------------------------------------
(* The count a call returns *)

LEMMA TotalNow == ASSUME NEW s PROVE Total(s) = TotalOf(op, call.hits, s)
  BY DEF Total, TotalOf, Hit, HitOf

\* What an execute() that returned adds to the count.
LEMMA TurnCounts ==
  ASSUME WriteInv, CountInv, call.pc = "write",
         NEW count, count = Min({call.chunk, Len(call.rows) - call.start}),
         NEW r \in ExecuteBound(Bound(count)), r.ok
  PROVE  /\ (IF Columnar /\ op = "insert" THEN count ELSE r.count) = TotalOf(op, call.hits, r.ran)
         /\ Counted(op, call.hits, r.ran) /\ r.ran \in Seq(Row)
  <1>1. count \in Nat \ {0} /\ call.start + count <= Len(call.rows) /\ Outcome(call.rows, call.start, count, r)
    BY TurnTakes, TurnRuns, Zenon
  <1>2. r.ran \in Seq(Row) /\ Len(r.ran) = count
    BY <1>1 DEF Outcome
  <1>3. Counted(op, call.hits, r.ran)
    <2> SUFFICES ASSUME NEW i \in 1..Len(r.ran) PROVE HitOf(op, call.hits, r.ran[i]) \in Nat
      BY DEF Counted
    <2>1. call.start \in Nat /\ Len(call.rows) \in Nat
      BY LenProperties DEF WriteInv, WriteType
    <2>2. r.ran[i] = call.rows[call.start + i] /\ call.start + i \in 1..Len(call.rows)
      <3>1. r.ran[i] = call.rows[call.start + i]
        BY <1>1, Zenon DEF Outcome
      <3> QED BY <1>1, <1>2, <2>1, <3>1
    <2> QED BY <2>2, Zenon DEF CountInv, Counted
  <1> DEFINE b == Bound(count)
  <1>4. CASE op = "insert" /\ Columnar
    <2>1. TotalOf("insert", call.hits, r.ran) = Len(r.ran)
      BY <1>2, TotalOfInsert, Zenon
    <2> QED BY <1>2, <1>3, <1>4, <2>1, Zenon
  <1>5. CASE op # "insert" /\ Columnar
    <2>1. r.ran = ParamSets(b) /\ r.count \in OdbcAffected(ParamSets(b))
      <3>1. r \in OdbcExecute(b) \/ r = [ran |-> <<>>, ok |-> FALSE, count |-> 0]
        <4>1. server.aborted \in BOOLEAN /\ kind # "oracle"
          BY <1>5 DEF WriteInv, WriteType, Columnar
        <4> QED BY <1>5, <4>1, Zenon DEF ExecuteBound
      <3> DEFINE sets == ParamSets(b)
      <3>2. \/ \E c \in OdbcAffected(sets) : r = [ran |-> sets, ok |-> TRUE, count |-> c]
            \/ \E k \in 0..(Len(sets) - 1) : r = [ran |-> SubSeq(sets, 1, k), ok |-> FALSE, count |-> 0]
            \/ r = [ran |-> <<>>, ok |-> FALSE, count |-> 0]
        BY <3>1, Zenon DEF OdbcExecute
      <3> HIDE DEF sets
      <3>3. ASSUME NEW c \in OdbcAffected(sets), r = [ran |-> sets, ok |-> TRUE, count |-> c]
            PROVE  r.ran = sets /\ r.count \in OdbcAffected(sets)
        BY <3>3
      <3>4. ASSUME NEW k, r = [ran |-> SubSeq(sets, 1, k), ok |-> FALSE, count |-> 0]
            PROVE  FALSE
        BY <3>4
      <3>5. r # [ran |-> <<>>, ok |-> FALSE, count |-> 0]
        OBVIOUS
      <3> QED BY <3>2, <3>3, <3>4, <3>5, Zenon DEF sets
    <2> HIDE DEF b
    <2>2. CASE RowcountTotals
      <3>1. r.count = Total(r.ran)
        BY <2>1, <2>2, Zenon DEF OdbcAffected
      <3> QED BY <1>2, <1>3, <1>5, <3>1, TotalNow
    <2>3. CASE ~RowcountTotals
      <3>1. count = 1
        <4>1. call.chunk = 1 /\ Len(call.rows) \in Nat /\ call.start \in Nat
          BY <1>5, <2>3, LenProperties DEF CountInv, RowcountTotals, WriteInv, WriteType
        <4>2. count \in {call.chunk, Len(call.rows) - call.start}
              /\ count = IF call.chunk <= Len(call.rows) - call.start THEN call.chunk ELSE Len(call.rows) - call.start
          BY <4>1, MinOfTwo
        <4> QED BY <1>1, <4>1, <4>2
      <3>2. PICK i \in 1..Len(r.ran) : r.count = Hit(r.ran[i])
        BY <2>1, <2>3, Zenon DEF OdbcAffected
      <3>3. r.ran[1] \in Row /\ HitOf(op, call.hits, r.ran[1]) \in Nat /\ r.ran = <<r.ran[1]>>
        <4> DEFINE t == <<r.ran[1]>>
        <4>1. r.ran[1] \in Row /\ HitOf(op, call.hits, r.ran[1]) \in Nat
          <5>1. 1 \in 1..Len(r.ran)
            BY <1>2, <3>1
          <5> QED BY <1>2, <1>3, <5>1, ElementOfSeq, Zenon DEF Counted
        <4>2. t \in Seq(Row) /\ Len(t) = 1 /\ t[1] = r.ran[1]
          BY <4>1
        <4> HIDE DEF t
        <4>3. r.ran = t
          BY <1>2, <3>1, <4>2, SeqEqual
        <4> QED BY <4>1, <4>3 DEF t
      <3>4. r.count = HitOf(op, call.hits, r.ran[1])
        BY <1>2, <3>1, <3>2 DEF Hit, HitOf
      <3>5. TotalOf(op, call.hits, <<r.ran[1]>>) = HitOf(op, call.hits, r.ran[1])
        BY <3>3, TotalOfOne
      <3> QED BY <1>2, <1>3, <1>5, <3>3, <3>4, <3>5, Zenon
    <2> QED BY <2>2, <2>3
  <1>6. CASE ~Columnar
    <2>1. r \in OracleExecute(b) \cup LibpqExecute(b) \cup {[ran |-> <<>>, ok |-> FALSE, count |-> 0]}
      BY <1>6, Zenon DEF ExecuteBound
    <2> HIDE DEF b
    <2>2. \/ r = [ran |-> b.batch, ok |-> TRUE, count |-> Total(b.batch)]
          \/ r = [ran |-> <<Single(b)>>, ok |-> TRUE, count |-> Total(<<Single(b)>>)]
          \/ \E k \in 0..(Len(b.batch) - 1) : r = [ran |-> SubSeq(b.batch, 1, k), ok |-> FALSE, count |-> 0]
          \/ r = [ran |-> <<>>, ok |-> FALSE, count |-> 0]
      BY <2>1, Zenon DEF OracleExecute, LibpqExecute, OracleRunBatch, LibpqRunBatch, RunReady
    <2>3. r.count = Total(r.ran)
      BY <2>2
    <2> QED BY <1>2, <1>3, <1>6, <2>3, TotalNow
  <1> QED BY <1>2, <1>3, <1>4, <1>5, <1>6

LEMMA CountInit == BatchInit => CountInv
  <1> SUFFICES ASSUME BatchInit PROVE CountInv
    OBVIOUS
  <1>1. call.pc = "idle" /\ call.end = "none" /\ call.rows = <<>> /\ call.chunk = 1
    BY DEF BatchInit, Idle
  <1> QED BY <1>1 DEF CountInv, Counted

LEMMA CountStart ==
  ASSUME NEW input \in Inputs, NEW size \in 0..MaxChunk, NEW single \in BOOLEAN,
         Start(input, size, single)
  PROVE  CountInv'
  <1> DEFINE rows == [i \in 1..Len(input.texts) |-> [id |-> i, text |-> input.texts[i]]]
             chunk == IF single THEN 1 ELSE WriteChunk(IF size > 0 THEN size ELSE DefaultParamset)
  <1>1. PICK n \in 0..MaxRows : input.texts \in [1..n -> Int]
    BY InputTyped, Zenon
  <1>2. Len(input.texts) = n /\ input.hits \in [1..MaxRows -> 0..1]
    BY <1>1, InputTyped, FunctionIsSeq
  <1>3. /\ op' = op /\ kind' = kind
        /\ call' = [pc |-> IF rows = <<>> THEN "idle" ELSE "acquire",
                    end |-> IF rows = <<>> THEN "returned" ELSE "none", rows |-> rows, hits |-> input.hits,
                    single |-> single, auto |-> autocommit, n |-> call.n + 1, chunk |-> chunk,
                    start |-> 0, tally |-> 0, sent |-> <<>>]
    BY Zenon DEF Start, Idle
  <1>4. op # "insert" /\ kind # "odbc" => chunk = 1
    BY DEF WriteChunk, RowcountTotals
  <1>5. Counted(op, input.hits, rows)
    <2>1. Len(rows) = n /\ \A i \in 1..n : rows[i].id = i
      BY <1>2
    <2> HIDE DEF rows
    <2> SUFFICES ASSUME NEW i \in 1..n PROVE HitOf(op, input.hits, rows[i]) \in Nat
      BY <2>1 DEF Counted
    <2>2. rows[i].id = i /\ i # 0 /\ i \in 1..MaxRows
      BY <2>1
    <2>3. input.hits[i] \in Nat
      BY <1>2, <2>2
    <2> QED BY <2>2, <2>3 DEF HitOf
  <1>6. rows = <<>> => TotalOf(op, input.hits, rows) = 0
    BY TotalOfNone, Zenon
  <1> HIDE DEF rows, chunk
  <1>7. /\ call'.pc = (IF rows = <<>> THEN "idle" ELSE "acquire") /\ call'.tally = 0
        /\ call'.end = (IF rows = <<>> THEN "returned" ELSE "none")
        /\ call'.rows = rows /\ call'.hits = input.hits /\ call'.chunk = chunk
    BY <1>3
  <1> QED BY <1>3, <1>4, <1>5, <1>6, <1>7 DEF CountInv

LEMMA CountAcquire ==
  ASSUME WriteInv, CountInv, Acquire
  PROVE  CountInv'
  <1>1. call.pc = "acquire" /\ op' = op /\ kind' = kind
    BY DEF Acquire
  <1>2. PICK pc \in {"write", "unwind"} : call' = [call EXCEPT !.pc = pc]
    BY DEF Acquire
  <1>3. /\ call'.pc \in {"write", "unwind"} /\ call'.end = call.end /\ call'.tally = call.tally
        /\ call'.rows = call.rows /\ call'.hits = call.hits /\ call'.chunk = call.chunk
        /\ call'.sent = call.sent
    BY <1>2, Zenon DEF WriteInv, WriteType
  <1>4. call.tally = TotalOf(op, call.hits, call.sent)
    BY <1>1, TotalOfNone DEF CountInv, WriteInv, SentInv
  <1> QED BY <1>1, <1>3, <1>4 DEF CountInv

LEMMA CountWriteOne ==
  ASSUME WriteInv, CountInv, WriteOne
  PROVE  CountInv'
  <1> DEFINE count == Min({call.chunk, Len(call.rows) - call.start})
  <1>1. call.pc = "write" /\ op' = op /\ kind' = kind
    BY DEF WriteOne
  <1>2. PICK r \in ExecuteBound(Bound(count)) :
          call' =
            [call EXCEPT
               !.sent = @ \o r.ran,
               !.start = @ + count,
               !.tally = @ + (IF Columnar /\ op = "insert" THEN count ELSE r.count),
               !.pc = CASE ~r.ok -> "unwind"
                        [] r.ok /\ call.start + count < Len(call.rows) -> "write"
                        [] OTHER -> "commit"]
    BY Zenon DEF WriteOne
  <1> DEFINE add == IF Columnar /\ op = "insert" THEN count ELSE r.count
             pc == CASE ~r.ok -> "unwind"
                     [] r.ok /\ call.start + count < Len(call.rows) -> "write"
                     [] OTHER -> "commit"
  <1>3. r.ok \in BOOLEAN
    <2>1. Outcome(call.rows, call.start, count, r)
      BY <1>1, TurnRuns, Zenon
    <2> QED BY <2>1 DEF Outcome
  <1>4. r.ok => /\ add = TotalOf(op, call.hits, r.ran)
                /\ Counted(op, call.hits, r.ran) /\ r.ran \in Seq(Row)
    BY <1>1, TurnCounts, Zenon
  <1>5. (~r.ok => pc = "unwind") /\ pc \in {"unwind", "write", "commit"}
    BY <1>3
  <1> HIDE DEF count, pc, add
  <1>6. /\ call'.pc = pc /\ call'.end = call.end /\ call'.tally = call.tally + add
        /\ call'.rows = call.rows /\ call'.hits = call.hits /\ call'.chunk = call.chunk
        /\ call'.sent = call.sent \o r.ran
    BY <1>2, Zenon DEF WriteInv, WriteType, pc, add
  <1>7. r.ok => call.tally + add = TotalOf(op, call.hits, call.sent \o r.ran)
    <2> SUFFICES ASSUME r.ok PROVE call.tally + add = TotalOf(op, call.hits, call.sent \o r.ran)
      OBVIOUS
    <2>1. call.sent \in Seq(Row) /\ Counted(op, call.hits, call.sent)
      <3>1. /\ call.sent \in Seq(Row) /\ Begins(call.sent, call.rows)
            /\ Len(call.sent) \in Nat /\ Len(call.rows) \in Nat
        BY LenProperties DEF WriteInv, WriteType, SentInv
      <3>2. ASSUME NEW i \in 1..Len(call.sent) PROVE HitOf(op, call.hits, call.sent[i]) \in Nat
        <4>1. i \in 1..Len(call.rows) /\ call.sent[i] = call.rows[i]
          BY <3>1 DEF Begins
        <4> QED BY <4>1, Zenon DEF CountInv, Counted
      <3> QED BY <3>1, <3>2, Zenon DEF Counted
    <2>2. call.tally = TotalOf(op, call.hits, call.sent)
      BY <1>1 DEF CountInv
    <2>3. TotalOf(op, call.hits, call.sent \o r.ran)
            = TotalOf(op, call.hits, call.sent) + TotalOf(op, call.hits, r.ran)
      BY <1>4, <2>1, TotalOfConcat, Zenon
    <2> QED BY <1>4, <2>2, <2>3, Zenon
  <1> QED BY <1>1, <1>3, <1>5, <1>6, <1>7 DEF CountInv

\* The end of a call: its count is that of all its rows when it returns.
LEMMA CountEnds ==
  ASSUME WriteInv, CountInv, CommitBatch \/ Return \/ Unwind
  PROVE  CountInv'
  <1>1. op' = op /\ kind' = kind
    BY Zenon DEF CommitBatch, Return, Unwind
  <1>2. \E pc \in {"idle", "unwind"}, end \in {"none", "returned", "thrown"} :
          /\ call' = [call EXCEPT !.pc = pc, !.end = end]
          /\ pc # "idle" => end = "none"
          /\ end = "returned" => call.pc = "commit"
    <2>1. CASE CommitBatch
      <3>1. call.pc = "commit" /\ call.end = "none"
        BY <2>1, Zenon DEF CommitBatch, CountInv
      <3>2. PICK ok \in BOOLEAN : call' = [call EXCEPT !.pc = IF ok THEN "idle" ELSE "unwind",
                                                       !.end = IF ok THEN "returned" ELSE @]
        BY <2>1, Zenon DEF CommitBatch
      <3>3. CASE ok
        <4>1. call' = [call EXCEPT !.pc = "idle", !.end = "returned"]
          BY <3>2, <3>3
        <4> QED BY <3>1, <4>1
      <3>4. CASE ~ok
        <4>1. call' = [call EXCEPT !.pc = "unwind", !.end = "none"]
          BY <3>1, <3>2, <3>4
        <4> QED BY <4>1
      <3> QED BY <3>3, <3>4
    <2>2. CASE Return
      BY <2>2 DEF Return
    <2>3. CASE Unwind
      BY <2>3 DEF Unwind
    <2> QED BY <2>1, <2>2, <2>3
  <1>3. PICK pc \in {"idle", "unwind"}, end \in {"none", "returned", "thrown"} :
          /\ call' = [call EXCEPT !.pc = pc, !.end = end]
          /\ pc # "idle" => end = "none"
          /\ end = "returned" => call.pc = "commit"
    BY <1>2, Zenon
  <1>4. /\ call'.pc = pc /\ call'.end = end /\ call'.tally = call.tally
        /\ call'.rows = call.rows /\ call'.hits = call.hits /\ call'.chunk = call.chunk
    BY <1>3, Zenon DEF WriteInv, WriteType
  <1>5. end = "returned" => call.tally = TotalOf(op, call.hits, call.rows)
    BY <1>3 DEF CountInv, WriteInv, SentInv
  <1> QED BY <1>1, <1>3, <1>4, <1>5 DEF CountInv

LEMMA CountNext ==
  ASSUME WriteInv, CountInv, [BatchNext]_batchVars
  PROVE  CountInv'
  <1>1. ASSUME NEW input \in Inputs, NEW size \in 0..MaxChunk, NEW single \in BOOLEAN,
               Start(input, size, single)
        PROVE  CountInv'
    BY <1>1, CountStart
  <1>2. CASE CallerRollback \/ LoseParse \/ UNCHANGED batchVars
    <2>1. UNCHANGED <<kind, op, call>>
      BY <1>2 DEF CallerRollback, LoseParse, batchVars
    <2> QED BY <2>1, Zenon DEF CountInv
  <1> QED BY <1>1, <1>2, CountAcquire, CountWriteOne, CountEnds, Zenon DEF BatchNext

\* The count a call returns is that of the rows it inserted, or that its
\* parameter sets matched, on every backend and for every chunk size: totals where
\* the driver reports them, one set at a time where it does not, the rows
\* themselves for an insert (orm.cpp:461-464, 646-669, 686-690).
THEOREM CountsAreTrue == BatchSpec => []CountIsTrue
  <1>1. WriteInv /\ CountInv /\ [BatchNext]_batchVars => CountInv'
    BY CountNext
  <1>2. CountInv => CountIsTrue
    BY TotalNow, Zenon DEF CountInv, CountIsTrue
  <1> QED BY <1>1, <1>2, BatchInvariant, CountInit, PTL DEF BatchSpec

\* The server runs the rows of a call as they were given, each once, in order and
\* whole, on every backend; on an autocommitting connection a call that ended kept
\* all of its rows or none, all when it returned, and in manual mode none; and a
\* live connection is back in the mode the call found it in (orm.cpp:581-722,
\* odbc/statement.cpp:89-113, libpq/statement.cpp:327-374).
THEOREM BatchIsWhole == BatchSpec => []BatchWhole
  <1>1. WriteInv => BatchWhole
    <2> SUFFICES ASSUME WriteInv PROVE BatchWhole
      OBVIOUS
    <2>1. call.sent \in Seq(Row) /\ call.rows \in Seq(Row) /\ Begins(call.sent, call.rows)
      BY DEF WriteInv, WriteType, SentInv
    <2>2. SentAsGiven
      BY <2>1, BeginsIsPrefix DEF SentAsGiven
    <2>3. NoHalfCommit /\ ModeGivenBack
      BY DEF WriteInv, KeptInv
    <2> QED BY <2>2, <2>3 DEF BatchWhole
  <1> QED BY <1>1, BatchInvariant, PTL
=============================================================================
