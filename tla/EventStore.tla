------------------------------ MODULE EventStore ------------------------------
(***************************************************************************)
(* Recordsets and array results, event_store.go, over the array calls of   *)
(* tiledb-store/tiledb_store.go: how records become buffers, buffers cells *)
(* of an array, cells buffers again, and those records, rows and columns.  *)
(*                                                                         *)
(* One program and one array at one path; TileDB is external and does what *)
(* it is asked when that is valid. A record is a sequence of field values, *)
(* a string a sequence of bytes, a cell a sequence of attribute values.    *)
(***************************************************************************)
EXTENDS Integers, FiniteSets, Sequences, SequencesExt

CONSTANTS
  MaxDimension,      \* MAXDIMENSION, the largest index
  DefaultExtent,     \* defaultTileExtent
  Slices,            \* slices of records: their struct's fields and rows
  Grids,             \* inputs of PutSimpleArray: kind, dims, data and layout
  Ranges,            \* ranges of a read
  Indices,           \* row and column numbers asked for
  MaxCalls           \* bound

Bytes == 0 .. 255

\* 2^63 - 1 is no multiple of 256.
ASSUME SizesAssumption ==
  /\ MaxDimension \in Nat /\ DefaultExtent \in Nat \ {0} /\ MaxCalls \in Nat
  /\ MaxDimension % DefaultExtent # 0

\* No slice is as long as the largest index, a string has bytes, and the tags of a
\* struct differ: TileDB takes no two attributes of a name.
ASSUME SlicesAssumption ==
  \A s \in Slices :
    /\ Len(s.fields) \in Nat /\ DOMAIN s.fields = 1 .. Len(s.fields)
    /\ Len(s.rows) \in Nat /\ DOMAIN s.rows = 1 .. Len(s.rows)
    /\ Len(s.rows) + DefaultExtent <= MaxDimension
    /\ \A i, j \in DOMAIN s.fields : s.fields[i].tag = s.fields[j].tag => i = j \/ s.fields[i].tag = ""
    /\ \A i \in DOMAIN s.fields, r \in DOMAIN s.rows :
         s.fields[i].kind = "string" => s.rows[r][i] \in Seq(Bytes)

ASSUME GridsAssumption == \A g \in Grids : g.dims \in Seq(Int) /\ g.layout \in {"row", "column"}

\* A range is two numbers, of which 0 stands for the bound.
ASSUME RangesAssumption ==
  (\A r \in Ranges : r \in Seq(Int) /\ Len(r) = 2) /\ (\A i \in Indices : i \in Int)

VARIABLES
  rs,       \* the buffers of the recordset made last
  made,     \* whether there is one; else it is nil
  array,    \* the array at the path
  result,   \* the ArrayResult read last
  row,      \* its cursor
  got,      \* what the last call answered: operation, argument, status and value
  captured, \* history: the tagged fields of the records when rs was made
  stored,   \* history: the cells as they were meant
  shown,    \* history: stored when result was read
  calls

vars == <<rs, made, array, result, row, got, captured, stored, shown, calls>>

NoArray == [dims |-> <<>>, extents |-> <<>>, attrs |-> <<>>, sparse |-> FALSE, cells |-> <<>>]
NoResult == [range |-> <<>>, attrs |-> <<>>, data |-> <<>>, order |-> "row", size |-> 0]
Supported == {"int32", "float64", "string"}   \* Golang2AttrTypeMap, in part

Init ==
  /\ rs = <<>> /\ made = FALSE /\ array = NoArray /\ result = NoResult /\ row = 0
  /\ got = [op |-> "none", arg |-> 0, status |-> "nil", value |-> <<>>]
  /\ captured = <<>> /\ stored = <<>> /\ shown = <<>>
  /\ calls = 0

Answer(op, arg, status, value) ==
  /\ calls < MaxCalls /\ calls' = calls + 1
  /\ got' = [op |-> op, arg |-> arg, status |-> status, value |-> value]

(***************************************************************************)
(* Buffers                                                                 *)
(***************************************************************************)
Tagged(fields) == FlattenSeq([i \in DOMAIN fields |-> IF fields[i].tag = "" THEN <<>> ELSE <<i>>])
Column(s, i) == [r \in DOMAIN s.rows |-> s.rows[r][i]]

\* Mutant: the offset is not advanced.
OffsetsNotAdvanced(strings) == [i \in DOMAIN strings |-> 0]

Offsets(strings) == [i \in DOMAIN strings |-> Len(FlattenSeq(SubSeq(strings, 1, i - 1)))]

\* HandleStrings: strings become bytes and offsets.
Buffer(s, i) ==
  LET field == s.fields[i]
      strings == field.kind = "string"
  IN [attr |-> [name |-> field.tag, type |-> field.kind],
      data |-> IF strings THEN FlattenSeq(Column(s, i)) ELSE Column(s, i),
      offsets |-> IF strings THEN Offsets(Column(s, i)) ELSE <<>>]

\* NewEventStoreRecordset; its error is a nil recordset. The buffers are copies:
\* the caller may go on changing the slice.
NewRecordset(s) ==
  LET fields == Tagged(s.fields)
      supported == \A j \in DOMAIN fields : s.fields[fields[j]].kind \in Supported
  IN
  /\ Answer("new", 0, IF supported THEN "nil" ELSE "error", <<>>)
  /\ made' = supported
  /\ rs' = IF supported THEN [j \in DOMAIN fields |-> Buffer(s, fields[j])] ELSE <<>>
  /\ captured' = IF supported
       THEN [r \in DOMAIN s.rows |-> [j \in DOMAIN fields |-> s.rows[r][fields[j]]]] ELSE <<>>
  /\ UNCHANGED <<array, result, row, stored, shown>>

BufferLen(b) == IF b.offsets # <<>> THEN Len(b.offsets) ELSE Len(b.data)
Attrs(buffers) == [j \in DOMAIN buffers |-> buffers[j].attr]

(***************************************************************************)
(* Creating and writing arrays                                             *)
(***************************************************************************)
\* The products and the sums of the first numbers of s.
Products(s) == LET p[k \in 0 .. Len(s)] == IF k = 0 THEN 1 ELSE p[k - 1] * s[k] IN p
Sums(s) == LET p[k \in 0 .. Len(s)] == IF k = 0 THEN 0 ELSE p[k - 1] + s[k] IN p

Cells(dims) == Products(dims)[Len(dims)]
Domain(dims) ==
  {x \in [DOMAIN dims -> UNION {1 .. dims[i] : i \in DOMAIN dims}] : \A i \in DOMAIN dims : x[i] <= dims[i]}
Blank == <<>>   \* a cell nothing was written to

\* TileDB: a domain has an index, a tile lies in the domain, and whole tiles do not
\* pass the largest index.
ValidDimension(size, extent) ==
  /\ 1 <= size /\ 1 <= extent /\ extent <= size
  /\ ((size + extent - 1) \div extent) * extent <= MaxDimension
Created(dims, extents, attrs, sparse) ==
  [dims |-> dims, extents |-> extents, attrs |-> attrs, sparse |-> sparse,
   cells |-> [x \in Domain(dims) |-> Blank]]

RecordExtent(size) == IF DefaultExtent > size THEN size ELSE DefaultExtent

\* Create; without a tagged field there is no first buffer. A recordset's array is
\* dense; for a sparse one the caller changes the input before it passes it on.
CreateRecords(sparse) ==
  LET n == BufferLen(rs[1])
      size == IF n = 0 THEN MaxDimension ELSE n
      valid == array = NoArray /\ ValidDimension(size, RecordExtent(size))
  IN
  /\ \/ rs = <<>> /\ Answer("create", 0, "panic", <<>>) /\ UNCHANGED <<array, stored>>
     \/ rs # <<>> /\ ~valid /\ Answer("create", 0, "error", <<>>) /\ UNCHANGED <<array, stored>>
     \/ /\ rs # <<>> /\ valid /\ Answer("create", 0, "nil", <<>>)
        /\ array' = Created(<<size>>, <<RecordExtent(size)>>, Attrs(rs), sparse)
        /\ stored' = array'.cells
  /\ UNCHANGED <<rs, made, result, row, captured, shown>>

\* One attribute of a cell, as TileDB takes it from a buffer.
Item(b, i) ==
  IF b.attr.type # "string" THEN b.data[i]
  ELSE SubSeq(b.data, b.offsets[i] + 1, IF i = Len(b.offsets) THEN Len(b.data) ELSE b.offsets[i + 1])

\* Write: the buffers of the recordset, whatever slice it is given, to the cells
\* 1 to n; a dense query to a dense array, coordinates to a sparse one. Every
\* attribute of the array has its buffer, in any order.
BufferOf(attr) == CHOOSE j \in DOMAIN rs : rs[j].attr = attr
WriteRecords(sparse) ==
  LET n == BufferLen(rs[1])
      valid == /\ array # NoArray /\ array.sparse = sparse /\ ToSet(array.attrs) = ToSet(Attrs(rs))
               /\ Len(array.dims) = 1 /\ 1 <= n /\ n <= array.dims[1]
      InOrder(Of(_)) == [k \in DOMAIN array.attrs |-> Of(BufferOf(array.attrs[k]))]
      Updated(cells, Value(_)) == [x \in DOMAIN cells |-> IF x[1] <= n THEN Value(x[1]) ELSE cells[x]]
  IN
  /\ \/ rs = <<>> /\ Answer("write", 0, "panic", <<>>) /\ UNCHANGED <<array, stored>>
     \/ rs # <<>> /\ ~valid /\ Answer("write", 0, "error", <<>>) /\ UNCHANGED <<array, stored>>
     \/ /\ rs # <<>> /\ valid /\ Answer("write", 0, "nil", <<>>)
        /\ array' = [array EXCEPT !.cells = Updated(@, LAMBDA i : InOrder(LAMBDA j : Item(rs[j], i)))]
        /\ stored' = Updated(stored, LAMBDA i : InOrder(LAMBDA j : captured[i][j]))
  /\ UNCHANGED <<rs, made, result, row, captured, shown>>

\* Mutant: the default extent is taken for small arrays too.
DefaultSimpleExtent(dims) == DefaultExtent

\* determineTileExtent: the default extent, or the smallest dimension below it.
SimpleExtent(dims) == Min({DefaultExtent} \cup ToSet(dims))
SimpleAttrs(kind) == <<[name |-> "a", type |-> kind]>>

\* for i := 0; i <= len(input.Dims); i += 2: pairs it does not reach stay 0, 0.
SimpleRange(dims) ==
  [i \in 1 .. 2 * Len(dims) |->
    LET p == (i - 1) \div 2 IN
    IF 2 * p > Len(dims) THEN 0 ELSE IF i % 2 = 1 THEN 1 ELSE dims[p + 1]]

Within(range, dims) ==
  /\ Len(range) >= 2 * Len(dims)
  /\ \A i \in DOMAIN dims :
       1 <= range[2 * i - 1] /\ range[2 * i - 1] <= range[2 * i] /\ range[2 * i] <= dims[i]

\* The spans of a range from the dimension that changes fastest on: TileDB's layouts.
\* The k-th of them is that of dimension Nth(k), whose place among them is Nth again.
Span(range, i) == range[2 * i] - range[2 * i - 1] + 1
Nth(k, range, order) == IF order = "row" THEN (Len(range) \div 2) + 1 - k ELSE k
Spans(range, order) == [k \in 1 .. Len(range) \div 2 |-> Span(range, Nth(k, range, order))]

\* The place of cell x among those of a range, and the cell at a place.
Place(x, range, order) ==
  LET n == Len(range) \div 2
      steps == [k \in 1 .. n |-> LET i == Nth(k, range, order) IN
                 (x[i] - range[2 * i - 1]) * Products(Spans(range, order))[k - 1]]
  IN 1 + Sums(steps)[n]
CellAt(n, range, order) ==
  [i \in 1 .. Len(range) \div 2 |->
    range[2 * i - 1]
      + (((n - 1) \div Products(Spans(range, order))[Nth(i, range, order) - 1]) % Span(range, i))]

\* PutSimpleArray: create the array when there is none, then write all of it. It
\* stays when the write is refused; with no dimensions the range is not indexable.
PutSimpleArray(g) ==
  LET creatable == /\ g.kind \in Supported /\ g.dims # <<>>
                   /\ \A i \in DOMAIN g.dims : ValidDimension(g.dims[i], SimpleExtent(g.dims))
      extents == [i \in DOMAIN g.dims |-> SimpleExtent(g.dims)]
      a == IF array = NoArray THEN Created(g.dims, extents, SimpleAttrs(g.kind), FALSE) ELSE array
      meant == IF array = NoArray THEN a.cells ELSE stored
      writable == /\ a.attrs = SimpleAttrs(g.kind) /\ g.kind # "string" /\ ~a.sparse
                  /\ Len(g.dims) = Len(a.dims) /\ Within(SimpleRange(g.dims), a.dims)
                  /\ Len(g.data) = Cells(g.dims)
      Updated(cells) == [x \in DOMAIN cells |->
        IF \A i \in DOMAIN x : x[i] <= g.dims[i]
        THEN <<g.data[Place(x, SimpleRange(g.dims), g.layout)]>> ELSE cells[x]]
  IN
  /\ \/ array = NoArray /\ ~creatable /\ Answer("putSimple", g, "error", <<>>) /\ UNCHANGED <<array, stored>>
     \/ array # NoArray /\ g.dims = <<>> /\ Answer("putSimple", g, "panic", <<>>) /\ UNCHANGED <<array, stored>>
     \/ /\ array # NoArray \/ creatable
        /\ g.dims # <<>> /\ ~writable /\ Answer("putSimple", g, "error", <<>>)
        /\ array' = a /\ stored' = meant
     \/ /\ array # NoArray \/ creatable
        /\ g.dims # <<>> /\ writable /\ Answer("putSimple", g, "nil", <<>>)
        /\ array' = [a EXCEPT !.cells = Updated(@)] /\ stored' = Updated(meant)
  /\ UNCHANGED <<rs, made, result, row, captured, shown>>

(***************************************************************************)
(* Reading arrays                                                          *)
(***************************************************************************)
WholeDomain(dims) == [i \in 1 .. 2 * Len(dims) |-> IF i % 2 = 1 THEN 1 ELSE dims[i \div 2]]

\* getOpBufferRange: no range is the domain, a zero the domain's bound, which for
\* a zero past the domain is not there.
Indexable(range, dims) == \A i \in DOMAIN range : range[i] = 0 => i <= 2 * Len(dims)
OpRange(range, dims) ==
  IF range = <<>> THEN WholeDomain(dims)
  ELSE [i \in DOMAIN range |-> IF range[i] = 0 THEN WholeDomain(dims)[i] ELSE range[i]]

Unwritten(type) == IF type = "string" THEN <<>> ELSE -1   \* TileDB's fill values
Value(cell, j, type) == IF cell = Blank THEN Unwritten(type) ELSE cell[j]

\* How many cells a range has: of a sparse array those written, which are its first.
InRange(x, range) == \A i \in DOMAIN x : range[2 * i - 1] <= x[i] /\ x[i] <= range[2 * i]
Count(a, range) ==
  IF a.sparse THEN Cardinality({x \in DOMAIN a.cells : InRange(x, range) /\ a.cells[x] # Blank})
  ELSE Cells(Spans(range, "column"))

\* Mutant: the end of the last value is not appended.
VariableEndsAtOffsets(values, size) ==
  LET offsets == Offsets(values) IN
  [i \in DOMAIN values |-> (IF i < Len(values) THEN offsets[i + 1] ELSE 0) - offsets[i]]

\* handleVariableResults: the sizes of the values. "size" places for offsets were
\* estimated and Len(values) used; the rest is 0 and comes before the end of all.
VariableSizes(values, size) ==
  LET offsets == Offsets(values) \o [i \in 1 .. size - Len(values) |-> 0]
      ranges == Append(offsets, Len(FlattenSeq(values)))
  IN [i \in DOMAIN values |-> ranges[i + 1] - ranges[i]]
\* A size below 0 is one near 2^64 and cannot be made.
Makeable(values, size) == \A i \in DOMAIN values : VariableSizes(values, size)[i] >= 0
VariableResults(values, size) ==
  LET ends == Sums(VariableSizes(values, size))
  IN [i \in DOMAIN values |-> SubSeq(FlattenSeq(values), ends[i - 1] + 1, ends[i])]

\* createBuffer and what comes back in it: "size" elements were estimated.
Returned(values, type, size) ==
  IF type = "string" THEN VariableResults(values, size)
  ELSE values \o [i \in 1 .. size - Len(values) |-> 0]

AttrResultPosition(attr, attrs) == CHOOSE j \in DOMAIN attrs : attrs[j].name = attr

\* GetArray of the attributes of those names. A range with more bounds than the
\* domain is refused, or its rest is not looked at. The elements of a sparse
\* array are estimated, and may be fewer.
GetArray(op, names, range, order) ==
  LET a == array
      r == OpRange(range, a.dims)
      Attr(k) == AttrResultPosition(names[k], a.attrs)
      valid == /\ a # NoArray /\ names # <<>> /\ Within(r, a.dims)
               /\ \A k \in DOMAIN names : \E j \in DOMAIN a.attrs : a.attrs[j].name = names[k]
      used == SubSeq(r, 1, 2 * Len(a.dims))
      places == [n \in 1 .. Count(a, used) |-> CellAt(n, used, order)]
      Type(k) == a.attrs[Attr(k)].type
      Values(k) == [n \in DOMAIN places |-> Value(a.cells[places[n]], Attr(k), Type(k))]
      Makes(size) == \A k \in DOMAIN names : Type(k) = "string" => Makeable(Values(k), size)
      Fails(status) == Answer(op, 0, status, <<>>) /\ UNCHANGED <<result, row, shown>>
      Sizes == IF a.sparse THEN {Len(places), Len(places) + 1} \ {0} ELSE {Len(places)}
  IN
  /\ \/ a # NoArray /\ ~Indexable(range, a.dims) /\ Fails("panic")
     \/ a = NoArray /\ Fails("error")
     \/ /\ a # NoArray /\ Indexable(range, a.dims)
        /\ ~valid \/ Len(r) > 2 * Len(a.dims) \/ (a.sparse /\ places = <<>>)
        /\ Fails("error")
     \/ /\ a # NoArray /\ Indexable(range, a.dims) /\ valid
        /\ \E size \in Sizes :
             \/ ~Makes(size) /\ Fails("panic")
             \/ /\ Makes(size) /\ Answer(op, 0, "nil", <<>>)
                /\ result' = [range |-> r, attrs |-> [k \in DOMAIN names |-> a.attrs[Attr(k)]],
                              data |-> [k \in DOMAIN names |-> Returned(Values(k), Type(k), size)],
                              order |-> order, size |-> size]
                /\ row' = 0 /\ shown' = stored
  /\ UNCHANGED <<rs, made, array, captured, stored>>

ReadRecords(range) ==
  \/ made /\ GetArray("read", [j \in DOMAIN rs |-> rs[j].attr.name], range, "row")
  \/ /\ ~made /\ Answer("read", 0, "panic", <<>>)
     /\ UNCHANGED <<rs, made, array, result, row, captured, stored, shown>>

\* The rows come first in the range; either range may be left out.
SimpleBounds(x, y) ==
  IF x = <<>> /\ y = <<>> THEN <<>>
  ELSE (IF y = <<>> THEN <<0, 0>> ELSE y) \o (IF x = <<>> THEN <<0, 0>> ELSE x)
GetSimpleArray(x, y, order) == GetArray("getSimple", <<"a">>, SimpleBounds(x, y), order)

(***************************************************************************)
(* The result                                                              *)
(***************************************************************************)
Results(op, arg, works, value) ==
  /\ result # NoResult
  /\ Answer(op, arg, IF works THEN "nil" ELSE "panic", IF works THEN value ELSE <<>>)
  /\ UNCHANGED <<rs, made, array, result, captured, stored, shown>>

\* Each attribute of the result goes to the field with its tag.
Scan ==
  LET works == \A k \in DOMAIN result.data : row < Len(result.data[k]) IN
  /\ Results("scan", row, works, [k \in DOMAIN result.data |-> result.data[k][row + 1]])
  /\ row' = IF works THEN row + 1 ELSE row

Flat == result.data[1]

\* Mutant: the length of a row is the number of rows.
GetRowOfHeight(i) ==
  LET start == i * Span(result.range, 1)  end == start + Span(result.range, 1) IN
  /\ Results("row", i, 0 <= start /\ end <= Len(Flat), SubSeq(Flat, start + 1, end))
  /\ UNCHANGED row

\* A slice of the data; of a range of one dimension it panics.
GetRow(i) ==
  LET start == i * Span(result.range, 2)  end == start + Span(result.range, 2) IN
  /\ Results("row", i, Len(result.range) >= 4 /\ 0 <= start /\ end <= Len(Flat), SubSeq(Flat, start + 1, end))
  /\ UNCHANGED row

GetColumn(j) ==
  LET rows == Span(result.range, 1)
      At(i) == i * Span(result.range, 2) + j
      works == Len(result.range) >= 4 /\ \A i \in 0 .. rows - 1 : 0 <= At(i) /\ At(i) < Len(Flat)
  IN
  /\ Results("column", j, works, [i \in 1 .. rows |-> Flat[At(i - 1) + 1]])
  /\ UNCHANGED row

\* Size: the domain's buffer of a sparse array, else the cells of the range.
Size(ar) ==
  IF array.sparse THEN ar.size
  ELSE Cells(Spans(ar.range, "column"))

Next ==
  \/ \E s \in Slices : NewRecordset(s)
  \/ \E sparse \in BOOLEAN : CreateRecords(sparse) \/ WriteRecords(sparse)
  \/ \E r \in Ranges \cup {<<>>} : ReadRecords(r)
  \/ \E g \in Grids : PutSimpleArray(g)
  \/ \E x, y \in Ranges \cup {<<>>}, order \in {"row", "column"} : GetSimpleArray(x, y, order)
  \/ Scan \/ \E i \in Indices : GetRow(i) \/ GetColumn(i)

Spec == Init /\ [][Next]_vars

(***************************************************************************)
(* Properties                                                              *)
(***************************************************************************)
Answered(op, status) == got.op = op /\ got.status = status

\* What was meant for the cells of the result, and whether their number was
\* estimated right: always so for a dense array.
ShownCells == {x \in DOMAIN shown : Within(result.range, array.dims) /\ InRange(x, result.range)}
Exact == array.sparse => result.size = Cardinality({x \in ShownCells : shown[x] # Blank})
Meant(x) == [k \in DOMAIN result.attrs |->
  Value(shown[x], AttrResultPosition(result.attrs[k].name, array.attrs), result.attrs[k].type)]
OfItsArray == Len(result.range) = 2 * Len(array.dims)

\* The records scanned are those the slice held when the recordset was made: each
\* in its place, its strings whole, through buffers, offsets and ranges, whatever
\* becomes of the slice later and whichever records were overwritten. Size() says
\* how often Scan may be called, then it panics; of a sparse array it is an estimate.
ScanGivesRecords ==
  got.op = "scan" /\ OfItsArray /\ Exact =>
    /\ got.status = "nil" <=> got.arg < Size(result)
    /\ got.status = "nil" =>
         \E x \in ShownCells : Place(x, result.range, result.order) = got.arg + 1 /\ got.value = Meant(x)

\* GetRow and GetColumn of a two-dimensional result in row order give the cells of
\* that row or column of the range when it has one, and panic when not; a row of a
\* one-dimensional result always panics.
RowsAndColumns ==
  got.op \in {"row", "column"} /\ OfItsArray /\ result.order = "row" /\ Len(array.dims) <= 2 =>
    LET r == result.range
        Line(n) == IF got.op = "row" THEN <<r[1] + got.arg, r[3] + n - 1>> ELSE <<r[1] + n - 1, r[3] + got.arg>>
        length == IF got.op = "row" THEN Span(r, 2) ELSE Span(r, 1)
    IN IF Len(array.dims) = 2 /\ Line(1) \in ShownCells
       THEN got.status = "nil" /\ got.value = [n \in 1 .. length |-> Meant(Line(n))[1]]
       ELSE got.status = "panic"

\* A read only panics when the number of strings of a sparse array was estimated
\* too high, when a range of two dimensions is asked of an array of one, or of a nil
\* recordset.
ReadPanics ==
  got.op \in {"read", "getSimple"} /\ got.status = "panic" =>
    \/ array.sparse /\ \E j \in DOMAIN array.attrs : array.attrs[j].type = "string"
    \/ got.op = "getSimple" /\ Len(array.dims) = 1
    \/ got.op = "read" /\ ~made

\* What is well made can be stored: a recordset that has records creates its array,
\* whatever their number and types, and numbers of one or two dimensions ("a simple
\* store for storing one or two dimensions arrays") that whole tiles hold are put
\* unless the array there is another; in particular when there is none. Empty
\* recordsets, strings and three dimensions never are.
InputsStored ==
  /\ got.op = "create" /\ rs # <<>> =>
       /\ got.status = "error" /\ array = NoArray => captured = <<>>
       /\ got.status = "nil" => captured # <<>> /\ array.dims = <<Len(captured)>>
  /\ got.op = "putSimple" =>
       LET g == got.arg
           proper == /\ g.kind \in Supported \ {"string"} /\ Len(g.dims) \in 1 .. 2
                     /\ Len(g.data) = Cells(g.dims) /\ \A i \in DOMAIN g.dims : g.dims[i] >= 1
           tiled == \A i \in DOMAIN g.dims : g.dims[i] + DefaultExtent <= MaxDimension
       IN /\ got.status = "nil" => proper
          /\ proper /\ tiled /\ got.status # "nil" =>
               /\ array # NoArray
               /\ array.dims # g.dims \/ array.attrs # SimpleAttrs(g.kind) \/ array.sparse
=============================================================================
