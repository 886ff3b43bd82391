----------------------------- MODULE TileDbStore -----------------------------
(***************************************************************************)
(* The event store of tiledb-store/tiledb_store.go: plugins of one run that*)
(* connect to the same event database, keep attributes as metadata of its  *)
(* "/scalars" array and store simple arrays.                               *)
(*                                                                         *)
(* TileDB is external, as the code relies on it: creating an array that is *)
(* there fails; an array opened to read shows what was written before;     *)
(* metadata is staged in the array opened to write and written at once when*)
(* that is closed; one query writes all of its cells or none. Any call of  *)
(* it may fail. A cell holds the put that wrote it last.                   *)
(***************************************************************************)
EXTENDS Integers, Sequences, SequencesExt

CONSTANTS
  Clients,               \* the plugins, each with a TileDbEventStore
  Keys, Paths,           \* names of attributes and of arrays
  Chars,                 \* what strings are sequences of
  Requests,              \* the calls plugins make after Connect
  MaxCalls, MaxCrashes   \* bounds

ASSUME BoundsAssumption == MaxCalls \in Nat /\ MaxCrashes \in Nat
Positive == Nat \ {0}
\* An attribute's value is <<type, value>>. Arrays have any number of dimensions and
\* of cells in each; a put's value is its own.
ASSUME RequestsAssumption == \A r \in Requests :
  /\ r.op \in {"putMetadata", "getMetadata", "deleteMetadata", "putSimpleArray", "getSimpleArray"}
  /\ r.op \in {"putMetadata", "getMetadata", "deleteMetadata"} => "key" \in DOMAIN r /\ r.key \in Keys
  /\ r.op = "putMetadata" =>
       /\ r.value = <<r.value[1], r.value[2]>>
       /\ r.value[1] = "strings" => r.value[2] \in Seq(Seq(Chars))
  /\ r.op \in {"putSimpleArray", "getSimpleArray"} => r.path \in Paths
  /\ r.op = "putSimpleArray" =>
       /\ r.dims \in Seq(Positive) \ {<<>>} /\ r.value # "blank"
       /\ \A q \in Requests : q.op = "putSimpleArray" /\ q.value = r.value => q = r

Nothing == <<>>        \* an attribute, a key or an answer that has no value
Blank == "blank"       \* a cell no put has written
Invalid == [type |-> "none", dims |-> <<>>, cells |-> <<>>]  \* TILEDB_INVALID
NumericTypes == {"int32", "float64"}                 \* Golang2AttrTypeMap, but string
ArrayTypes == NumericTypes \cup {"string"}

VARIABLES
  pc, call,    \* pc[c], call[c]: the call of c under way, or its last
  answer,      \* answer[c]: status and data of the last call of c that returned
  connected,   \* connected[c]: Connect of c returned nil
  scalars,     \* whether the array of the attributes exists
  meta,        \* meta[k]: what is written under k's plain, data and offset key, each
               \* Nothing or a sequence of one; an attribute is <<type, value>>
  staged,      \* staged[c]: what closing the array c has open writes
  view,        \* view[c]: meta[k] or the array when c opened it
  arrays,      \* arrays[p]: type, dimensions and cells of a simple array
  faulty,      \* history: faulty[c]: a call of TileDB failed in the call of c
  given,       \* history: given[k]: the values some PutMetadata of k was given
  half,        \* history: the keys a PutMetadata of strings failed half way for
  seen,        \* history: seen[c]: meta[k] at the instants of c's call
  acked,       \* history: acked[p]: the put of p that returned nil last, undisturbed
  calls, crashes

clientVars == <<pc, call, answer, connected, staged, view>>
storeVars == <<scalars, meta, arrays>>
history == <<faulty, given, half, seen, acked>>
vars == <<clientVars, storeVars, history, calls, crashes>>

NoCall == [op |-> "none"]
NoMeta == [plain |-> Nothing, data |-> Nothing, offsets |-> Nothing]
NoAck == [dims |-> <<>>, value |-> Blank]
Init ==
  /\ pc = [c \in Clients |-> "idle"]
  /\ call = [c \in Clients |-> NoCall]
  /\ answer = [c \in Clients |-> [status |-> "none", data |-> Nothing]]
  /\ connected = [c \in Clients |-> FALSE]
  /\ scalars = FALSE
  /\ meta = [k \in Keys |-> NoMeta]
  /\ staged = [c \in Clients |-> NoMeta]
  /\ view = [c \in Clients |-> NoMeta]
  /\ arrays = [p \in Paths |-> Invalid]
  /\ faulty = [c \in Clients |-> FALSE]
  /\ given = [k \in Keys |-> {}] /\ half = {}
  /\ seen = [c \in Clients |-> {}]
  /\ acked = [p \in Paths |-> NoAck]
  /\ calls = 0 /\ crashes = 0

Goto(c, step) == pc' = [pc EXCEPT ![c] = step] /\ UNCHANGED answer
Returns(c, status, data) ==
  /\ pc' = [pc EXCEPT ![c] = "idle"]
  /\ answer' = [answer EXCEPT ![c] = [status |-> status, data |-> data]]
\* An error TileDB returned is returned.
Fault(c) == Returns(c, "error", Nothing) /\ faulty' = [faulty EXCEPT ![c] = TRUE]
\* An error of the code's own, or TileDB's refusal of what it was asked.
Refuse(c) == Returns(c, "error", Nothing) /\ UNCHANGED faulty

Begin(c, r, step) ==
  /\ pc[c] = "idle" /\ calls < MaxCalls
  /\ calls' = calls + 1
  /\ call' = [call EXCEPT ![c] = r]
  /\ faulty' = [faulty EXCEPT ![c] = FALSE]
  /\ Goto(c, step)
  /\ UNCHANGED <<connected, staged, view, storeVars, half, acked, crashes>>

(***************************************************************************)
(* Connect: createAttributeArray checks and creates                        *)
(***************************************************************************)
Connect(c) ==
  /\ ~connected[c] /\ Begin(c, [op |-> "connect"], "findScalars")
  /\ UNCHANGED <<given, seen>>

Connects(c) == Returns(c, "nil", Nothing) /\ connected' = [connected EXCEPT ![c] = TRUE]

\* Mutant: the check is inverted.
FindNoScalars(c) ==
  /\ pc[c] = "findScalars"
  /\ \/ scalars /\ Goto(c, "createScalars") /\ UNCHANGED <<connected, faulty>>
     \/ ~scalars /\ Refuse(c) /\ UNCHANGED connected
     \/ Fault(c) /\ UNCHANGED connected
  /\ UNCHANGED <<call, staged, view, storeVars, given, half, seen, acked, calls, crashes>>

FindScalars(c) ==
  /\ pc[c] = "findScalars"
  /\ \/ scalars /\ Connects(c) /\ UNCHANGED faulty
     \/ ~scalars /\ Goto(c, "createScalars") /\ UNCHANGED <<connected, faulty>>
     \/ Fault(c) /\ UNCHANGED connected
  /\ UNCHANGED <<call, staged, view, storeVars, given, half, seen, acked, calls, crashes>>

CreateScalars(c) ==
  /\ pc[c] = "createScalars"
  /\ \/ ~scalars /\ scalars' = TRUE /\ Connects(c) /\ UNCHANGED faulty
     \/ scalars /\ Refuse(c) /\ UNCHANGED <<connected, scalars>>
     \/ Fault(c) /\ UNCHANGED <<connected, scalars>>
  /\ UNCHANGED <<call, staged, view, meta, arrays, given, half, seen, acked, calls, crashes>>

(***************************************************************************)
(* Attributes                                                              *)
(***************************************************************************)
\* computeStringSliceMetadataComponents: the bytes of the strings one after the
\* other, and where each begins.
Bytes(strings) == FlattenSeq(strings)
Offsets(strings) == [i \in DOMAIN strings |-> Len(FlattenSeq(SubSeq(strings, 1, i - 1)))]

\* Slicing data at the offsets; a panic when one lies past the end or before the last.
HasStrings(m) == m.data # Nothing /\ m.offsets # Nothing
Ends(m) == Append(m.offsets[1], Len(m.data[1]))
Sliceable(m) ==
  \A i \in DOMAIN m.offsets[1] : Ends(m)[i] <= Ends(m)[i + 1] /\ Ends(m)[i + 1] <= Len(m.data[1])
Strings(m) == [i \in DOMAIN m.offsets[1] |-> SubSeq(m.data[1], Ends(m)[i] + 1, Ends(m)[i + 1])]

\* What a reader of that type finds.
Content(m, type) ==
  IF type = "strings" THEN (IF HasStrings(m) /\ Sliceable(m) THEN <<type, Strings(m)>> ELSE Nothing)
  ELSE IF m.plain # Nothing /\ m.plain[1][1] = type THEN m.plain[1] ELSE Nothing

PutMetadata(c, r) ==
  /\ connected[c] /\ r.op = "putMetadata" /\ Begin(c, r, "stage")
  /\ given' = [given EXCEPT ![r.key] = @ \cup {r.value}]
  /\ UNCHANGED seen

\* Opening, and one PutMetadata for a value or two for strings: when the second
\* fails the first stays staged. Empty metadata is refused.
Stage(c) ==
  LET r == call[c]
      type == r.value[1]  value == r.value[2]
      Stages(m) == staged' = [staged EXCEPT ![c] = m]
  IN
  /\ pc[c] = "stage"
  /\ \/ /\ type # "strings" /\ Stages([NoMeta EXCEPT !.plain = <<r.value>>])
        /\ Goto(c, "close") /\ UNCHANGED <<faulty, half>>
     \/ /\ type = "strings" /\ Bytes(value) # <<>>
        /\ \/ /\ Stages([NoMeta EXCEPT !.data = <<Bytes(value)>>, !.offsets = <<Offsets(value)>>])
              /\ Goto(c, "close") /\ UNCHANGED <<faulty, half>>
           \/ /\ Stages([NoMeta EXCEPT !.data = <<Bytes(value)>>])
              /\ Goto(c, "closeFailed") /\ half' = half \cup {r.key} /\ UNCHANGED faulty
     \/ type = "strings" /\ Bytes(value) = <<>> /\ Refuse(c) /\ UNCHANGED <<staged, half>>
     \/ Fault(c) /\ UNCHANGED <<staged, half>>
  /\ UNCHANGED <<call, connected, view, storeVars, given, seen, acked, calls, crashes>>

\* What is written over what.
Over(new, old) == [f \in DOMAIN old |-> IF new[f] = Nothing THEN old[f] ELSE new[f]]
Writes(k, m) ==
  /\ meta' = [meta EXCEPT ![k] = m]
  /\ seen' = [c \in Clients |-> IF pc[c] # "idle" /\ "key" \in DOMAIN call[c] /\ call[c].key = k
                                THEN seen[c] \cup {m} ELSE seen[c]]

\* Mutant: each key is written by itself.
CloseKeyByKey(c) ==
  LET k == call[c].key IN
  /\ pc[c] \in {"close", "closeFailed"}
  /\ IF staged[c].data # Nothing
     THEN /\ Writes(k, [meta[k] EXCEPT !.data = staged[c].data])
          /\ staged' = [staged EXCEPT ![c].data = Nothing]
          /\ UNCHANGED <<pc, answer>>
     ELSE /\ Writes(k, Over(staged[c], meta[k]))
          /\ staged' = [staged EXCEPT ![c] = NoMeta]
          /\ Returns(c, IF pc[c] = "close" THEN "nil" ELSE "error", Nothing)
  /\ UNCHANGED <<call, connected, view, scalars, arrays, faulty, given, half, acked, calls, crashes>>

\* The deferred Close, after a failure too; its own error is dropped.
Close(c) ==
  LET k == call[c].key IN
  /\ pc[c] \in {"close", "closeFailed"}
  /\ Writes(k, Over(staged[c], meta[k])) \/ UNCHANGED <<meta, seen>>
  /\ staged' = [staged EXCEPT ![c] = NoMeta]
  /\ Returns(c, IF pc[c] = "close" THEN "nil" ELSE "error", Nothing)
  /\ UNCHANGED <<call, connected, view, scalars, arrays, faulty, given, half, acked, calls, crashes>>

\* The plain key only: strings of that name stay.
DeleteMetadata(c, r) ==
  /\ connected[c] /\ r.op = "deleteMetadata" /\ Begin(c, r, "delete")
  /\ UNCHANGED <<given, seen>>
Delete(c) ==
  LET k == call[c].key IN
  /\ pc[c] = "delete"
  /\ \/ /\ Writes(k, [meta[k] EXCEPT !.plain = Nothing]) \/ UNCHANGED <<meta, seen>>
        /\ Returns(c, "nil", Nothing) /\ UNCHANGED faulty
     \/ Fault(c) /\ UNCHANGED <<meta, seen>>
  /\ UNCHANGED <<call, connected, staged, view, scalars, arrays, given, half, acked, calls, crashes>>

GetMetadata(c, r) ==
  /\ connected[c] /\ r.op = "getMetadata" /\ Begin(c, r, "openScalars")
  /\ seen' = [seen EXCEPT ![c] = {meta[r.key]}] /\ UNCHANGED given

\* Mutant: the array stays open from one call to the next.
OpenScalarsOnce(c) ==
  /\ pc[c] = "openScalars"
  /\ view' = IF "plain" \in DOMAIN view[c] /\ view[c] # NoMeta THEN view
             ELSE [view EXCEPT ![c] = meta[call[c].key]]
  /\ Goto(c, "decode")
  /\ UNCHANGED <<call, connected, staged, storeVars, faulty, given, half, seen, acked, calls, crashes>>

OpenScalars(c) ==
  /\ pc[c] = "openScalars"
  /\ \/ view' = [view EXCEPT ![c] = meta[call[c].key]] /\ Goto(c, "decode") /\ UNCHANGED faulty
     \/ Fault(c) /\ UNCHANGED view
  /\ UNCHANGED <<call, connected, staged, storeVars, given, half, seen, acked, calls, crashes>>

\* Strings that do not fit their offsets panic, and so may a plain attribute that
\* is not there: the name of the type of nil is asked for.
Decode(c) ==
  LET m == view[c]  type == call[c].type IN
  /\ pc[c] = "decode"
  /\ \/ Content(m, type) # Nothing /\ Returns(c, "nil", Content(m, type)) /\ UNCHANGED faulty
     \/ /\ type = "strings" /\ HasStrings(m) /\ ~Sliceable(m)
        /\ Returns(c, "panic", Nothing) /\ UNCHANGED faulty
     \/ type = "strings" /\ ~HasStrings(m) /\ Refuse(c)
     \/ type # "strings" /\ Content(m, type) = Nothing /\ Refuse(c)
     \/ type # "strings" /\ m.plain = Nothing /\ Returns(c, "panic", Nothing) /\ UNCHANGED faulty
     \/ Fault(c)
  /\ UNCHANGED <<call, connected, staged, view, storeVars, given, half, seen, acked, calls, crashes>>

(***************************************************************************)
(* Simple arrays                                                           *)
(***************************************************************************)
Domain(dims) ==
  {x \in [DOMAIN dims -> UNION {1 .. dims[i] : i \in DOMAIN dims}] : \A i \in DOMAIN dims : x[i] <= dims[i]}

PutSimpleArray(c, r) ==
  /\ connected[c] /\ r.op = "putSimpleArray" /\ Begin(c, r, "find")
  /\ UNCHANGED <<given, seen>>

Find(c) ==
  /\ pc[c] = "find"
  /\ \/ arrays[call[c].path] = Invalid /\ Goto(c, "create") /\ UNCHANGED faulty
     \/ arrays[call[c].path] # Invalid /\ Goto(c, "write") /\ UNCHANGED faulty
     \/ Fault(c)
  /\ UNCHANGED <<call, connected, staged, view, storeVars, given, half, seen, acked, calls, crashes>>

\* Mutant: an array that is there is created again.
CreateAnew(c) ==
  LET r == call[c] IN
  /\ pc[c] = "create"
  /\ \/ /\ r.type \in ArrayTypes
        /\ arrays' = [arrays EXCEPT ![r.path] =
             [type |-> r.type, dims |-> r.dims, cells |-> [x \in Domain(r.dims) |-> Blank]]]
        /\ Goto(c, "write") /\ UNCHANGED faulty
     \/ Fault(c) /\ UNCHANGED arrays
  /\ UNCHANGED <<call, connected, staged, view, scalars, meta, given, half, seen, acked, calls, crashes>>

\* createSimpleArray, with the type of the buffer's elements.
Create(c) ==
  LET r == call[c] IN
  /\ pc[c] = "create"
  /\ \/ /\ r.type \in ArrayTypes /\ arrays[r.path] = Invalid
        /\ arrays' = [arrays EXCEPT ![r.path] =
             [type |-> r.type, dims |-> r.dims, cells |-> [x \in Domain(r.dims) |-> Blank]]]
        /\ Goto(c, "write") /\ UNCHANGED faulty
     \/ (r.type \notin ArrayTypes \/ arrays[r.path] # Invalid) /\ Refuse(c) /\ UNCHANGED arrays
     \/ Fault(c) /\ UNCHANGED arrays
  /\ UNCHANGED <<call, connected, staged, view, scalars, meta, given, half, seen, acked, calls, crashes>>

\* PutArray over [1, dim] of each dimension, but for the last of three or more,
\* whose range stays [0, 0]. TileDB refuses another type, another number of
\* dimensions, a range outside the domain, and strings without offsets.
Fits(r, a) ==
  /\ r.type = a.type /\ r.type # "string" /\ Len(r.dims) = Len(a.dims) /\ Len(r.dims) <= 2
  /\ Domain(r.dims) \subseteq Domain(a.dims)

Written(r, rows) == [x \in DOMAIN arrays[r.path].cells |->
  IF x \in Domain(r.dims) /\ x[1] \in rows THEN r.value ELSE arrays[r.path].cells[x]]

\* Mutant: the rows are written one by one.
WriteRows(c) ==
  LET r == call[c] IN
  /\ pc[c] = "write"
  /\ \/ /\ Fits(r, arrays[r.path])
        /\ \E n \in {1, r.dims[1]} :
             /\ arrays' = [arrays EXCEPT ![r.path].cells = Written(r, 1 .. n)]
             /\ IF n = r.dims[1] THEN Returns(c, "nil", Nothing) /\ UNCHANGED faulty ELSE Fault(c)
        /\ acked' = [acked EXCEPT ![r.path] = NoAck]
     \/ ~Fits(r, arrays[r.path]) /\ Refuse(c) /\ UNCHANGED <<arrays, acked>>
  /\ UNCHANGED <<call, connected, staged, view, scalars, meta, given, half, seen, calls, crashes>>

\* A query that fails may have written its cells.
Write(c) ==
  LET r == call[c] IN
  /\ pc[c] = "write"
  /\ \/ /\ Fits(r, arrays[r.path])
        /\ arrays' = [arrays EXCEPT ![r.path].cells = Written(r, 1 .. r.dims[1])]
        /\ \/ /\ acked' = [acked EXCEPT ![r.path] = [dims |-> r.dims, value |-> r.value]]
              /\ Returns(c, "nil", Nothing) /\ UNCHANGED faulty
           \/ acked' = [acked EXCEPT ![r.path] = NoAck] /\ Fault(c)
     \/ ~Fits(r, arrays[r.path]) /\ Refuse(c) /\ UNCHANGED <<arrays, acked>>
     \/ Fault(c) /\ UNCHANGED <<arrays, acked>>
  /\ UNCHANGED <<call, connected, staged, view, scalars, meta, given, half, seen, calls, crashes>>

\* GetSimpleArray of the whole array; its answer is the view.
GetSimpleArray(c, r) ==
  /\ connected[c] /\ r.op = "getSimpleArray" /\ Begin(c, r, "openArray")
  /\ UNCHANGED <<given, seen>>

OpenArray(c) ==
  LET a == arrays[call[c].path] IN
  /\ pc[c] = "openArray"
  /\ \/ a # Invalid /\ view' = [view EXCEPT ![c] = a] /\ Goto(c, "query") /\ UNCHANGED faulty
     \/ a = Invalid /\ Refuse(c) /\ UNCHANGED view
     \/ Fault(c) /\ UNCHANGED view
  /\ UNCHANGED <<call, connected, staged, storeVars, given, half, seen, acked, calls, crashes>>

Query(c) ==
  /\ pc[c] = "query"
  /\ \/ Returns(c, "nil", Nothing) /\ UNCHANGED faulty
     \/ Fault(c)
  /\ UNCHANGED <<call, connected, staged, view, storeVars, given, half, seen, acked, calls, crashes>>

\* The plugin dies, with what it has staged, and starts again.
Crash(c) ==
  /\ crashes < MaxCrashes /\ crashes' = crashes + 1
  /\ connected[c] \/ pc[c] # "idle"
  /\ pc' = [pc EXCEPT ![c] = "idle"]
  /\ connected' = [connected EXCEPT ![c] = FALSE]
  /\ staged' = [staged EXCEPT ![c] = NoMeta]
  /\ answer' = [answer EXCEPT ![c] = [status |-> "none", data |-> Nothing]]
  /\ UNCHANGED <<call, view, storeVars, history, calls>>

Call(c, r) ==
  \/ PutMetadata(c, r) \/ GetMetadata(c, r) \/ DeleteMetadata(c, r)
  \/ PutSimpleArray(c, r) \/ GetSimpleArray(c, r)
Step(c) ==
  \/ FindScalars(c) \/ CreateScalars(c)
  \/ Stage(c) \/ Close(c) \/ Delete(c) \/ OpenScalars(c) \/ Decode(c)
  \/ Find(c) \/ Create(c) \/ Write(c) \/ OpenArray(c) \/ Query(c)
Next ==
  \E c \in Clients :
    Connect(c) \/ (\E r \in Requests : Call(c, r)) \/ Step(c) \/ Crash(c)

Spec == Init /\ [][Next]_vars

(***************************************************************************)
(* Properties                                                              *)
(***************************************************************************)
Returned(c, op, status) == pc[c] = "idle" /\ call[c].op = op /\ answer[c].status = status
PCs == {"idle", "findScalars", "createScalars", "stage", "close", "closeFailed", "delete", "openScalars",
        "decode", "find", "create", "write", "openArray", "query"}
IsArray(a) ==
  /\ DOMAIN a = {"type", "dims", "cells"} /\ a.type \in ArrayTypes
  /\ a.dims \in Seq(Positive) \ {<<>>} /\ DOMAIN a.cells = Domain(a.dims)

\* Types of the calls and the arrays, and that there is one of each.
TypeOK ==
  /\ pc \in [Clients -> PCs] /\ call \in [Clients -> Requests \cup {NoCall, [op |-> "connect"]}]
  /\ connected \in [Clients -> BOOLEAN] /\ faulty \in [Clients -> BOOLEAN] /\ scalars \in BOOLEAN
  /\ DOMAIN answer = Clients /\ DOMAIN staged = Clients /\ DOMAIN view = Clients /\ DOMAIN seen = Clients
  /\ DOMAIN meta = Keys /\ DOMAIN given = Keys /\ half \subseteq Keys
  /\ DOMAIN arrays = Paths /\ \A p \in Paths : arrays[p] = Invalid \/ IsArray(arrays[p])
  /\ DOMAIN acked = Paths /\ \A p \in Paths : acked[p].dims \in Seq(Positive)
  /\ calls \in 0 .. MaxCalls /\ crashes \in 0 .. MaxCrashes

\* Of plugins that race to create the attributes' array or a simple array the losers,
\* told so by an error, find it there when they try again; whoever connected has the
\* array its attributes go to.
LoserFindsIt ==
  \A c \in Clients :
    /\ connected[c] => scalars
    /\ Returned(c, "connect", "error") /\ ~faulty[c] => scalars
    /\ Returned(c, "putSimpleArray", "error") /\ ~faulty[c] /\ call[c].type \in ArrayTypes =>
         arrays[call[c].path] # Invalid

\* An attribute is read as it was at one instant of the call.
AttributeWasThere ==
  \A c \in Clients : Returned(c, "getMetadata", "nil") =>
    \E m \in seen[c] : answer[c].data = Content(m, call[c].type)

\* Strings come back whole, though they are kept under two keys: never the bytes
\* of one put cut at the offsets of another, and no panic, unless a put failed
\* between the two.
StringsAreWhole ==
  \A c \in Clients : call[c].op = "getMetadata" /\ call[c].key \notin half =>
    /\ Returned(c, "getMetadata", "nil") => answer[c].data \in given[call[c].key]
    /\ Returned(c, "getMetadata", "panic") => call[c].type # "strings"

\* An array whose PutSimpleArray returned nil keeps all of its cells until
\* another put of that path writes, also when others are creating it.
AckedArrayStays ==
  \A p \in Paths : acked[p] # NoAck =>
    /\ arrays[p] # Invalid /\ Domain(acked[p].dims) \subseteq Domain(arrays[p].dims)
    /\ \A x \in Domain(acked[p].dims) : arrays[p].cells[x] = acked[p].value

\* "We insert the entire array on a simple array put": of the puts with the
\* dimensions of the array a reader sees exactly one, or none yet, never a mix.
WholePut(p, dims) ==
  {r.value : r \in {q \in Requests : q.op = "putSimpleArray" /\ q.path = p /\ q.dims = dims}}
ArraysAreWhole ==
  \A c \in Clients : Returned(c, "getSimpleArray", "nil") =>
    LET a == view[c]
        whole == WholePut(call[c].path, a.dims) \cup {Blank}
    IN \A x, y \in DOMAIN a.cells :
         {a.cells[x], a.cells[y]} \subseteq whole => a.cells[x] = a.cells[y]
=============================================================================
