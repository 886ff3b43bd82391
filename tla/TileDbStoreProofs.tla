-------------------------- MODULE TileDbStoreProofs --------------------------
(***************************************************************************)
(* What an event database guarantees to any number of plugins that share   *)
(* it without locks, whatever calls of TileDB fail and whoever dies.       *)
(***************************************************************************)
EXTENDS TileDbStore, SequenceFacts, TLAPS

\* Which call a step belongs to; what is written to is there.
CallInv ==
  \A c \in Clients :
    /\ pc[c] \in {"findScalars", "createScalars"} => call[c].op = "connect"
    /\ pc[c] \in {"stage", "close", "closeFailed"} => call[c].op = "putMetadata"
    /\ pc[c] = "delete" => call[c].op = "deleteMetadata"
    /\ pc[c] \in {"openScalars", "decode"} => call[c].op = "getMetadata"
    /\ pc[c] \in {"find", "create", "write"} => call[c].op = "putSimpleArray"
    /\ pc[c] \in {"openArray", "query"} => call[c].op = "getSimpleArray"
    /\ pc[c] = "write" => arrays[call[c].path] # Invalid

TInv == TypeOK /\ CallInv

(***************************************************************************)
(* Types                                                                   *)
(***************************************************************************)
\* The initial states have their types.
LEMMA InitTInv == Init => TInv
<1> SUFFICES ASSUME Init PROVE TInv
  OBVIOUS
<1>1. calls \in 0 .. MaxCalls /\ crashes \in 0 .. MaxCrashes
  BY BoundsAssumption DEF Init
<1>2. \A p \in Paths : acked[p].dims \in Seq(Positive)
  <2>1. <<>> \in Seq(Positive)
    OBVIOUS
  <2>. QED BY <2>1 DEF Init, NoAck
<1>3. TypeOK
  BY <1>1, <1>2 DEF Init, TypeOK, PCs
<1>4. CallInv
  BY DEF Init, CallInv
<1>. QED BY <1>3, <1>4 DEF TInv

\* A call with an operation on a key or a path has one.
LEMMA Requested ==
  ASSUME TypeOK, NEW c \in Clients
  PROVE  /\ call[c].op \in {"putMetadata", "getMetadata", "deleteMetadata"} => "key" \in DOMAIN call[c] /\ call[c].key \in Keys
         /\ call[c].op \in {"putSimpleArray", "getSimpleArray"} => call[c].path \in Paths
         /\ call[c].op = "putSimpleArray" =>
              /\ call[c] \in Requests /\ call[c].dims \in Seq(Positive) \ {<<>>} /\ call[c].value # Blank
<1>1. call[c] \in Requests \/ call[c].op \in {"none", "connect"}
  BY DEF TypeOK, NoCall
<1>. QED BY <1>1, RequestsAssumption DEF Blank

\* A call that begins keeps TInv.
LEMMA BeginTInv ==
  ASSUME TInv, NEW c \in Clients, Connect(c) \/ \E r \in Requests : Call(c, r)
  PROVE  TInv'
<1>1. PICK r \in Requests \cup {[op |-> "connect"]}, step \in PCs :
        /\ Begin(c, r, step)
        /\ r.op = "connect" => step = "findScalars"
        /\ r.op = "putMetadata" => step = "stage"
        /\ r.op = "deleteMetadata" => step = "delete"
        /\ r.op = "getMetadata" => step = "openScalars"
        /\ r.op = "putSimpleArray" => step = "find"
        /\ r.op = "getSimpleArray" => step = "openArray"
        /\ r.op \in {"connect", "putMetadata", "deleteMetadata", "getMetadata", "putSimpleArray", "getSimpleArray"}
  BY DEF Connect, Call, PutMetadata, DeleteMetadata, GetMetadata, PutSimpleArray, GetSimpleArray, PCs
<1>2. /\ pc' = [pc EXCEPT ![c] = step] /\ call' = [call EXCEPT ![c] = r] /\ faulty' = [faulty EXCEPT ![c] = FALSE]
      /\ calls' \in 0 .. MaxCalls
      /\ UNCHANGED <<answer, connected, staged, view, storeVars, half, acked, crashes>>
  BY <1>1, BoundsAssumption DEF Begin, Goto, TInv, TypeOK
<1>3. DOMAIN given' = Keys /\ DOMAIN seen' = Clients
  BY DEF Connect, Call, PutMetadata, DeleteMetadata, GetMetadata, PutSimpleArray, GetSimpleArray, TInv, TypeOK
<1>4. TypeOK'
  BY <1>2, <1>3 DEF TInv, TypeOK, storeVars
<1>5. CallInv'
  <2> SUFFICES ASSUME NEW d \in Clients PROVE CallInv!(d)'
    BY DEF CallInv
  <2>. QED BY <1>1, <1>2 DEF TInv, TypeOK, CallInv, storeVars
<1>. QED BY <1>4, <1>5 DEF TInv

\* Where a call goes from one step to the next.
Moves(c) ==
  /\ pc' = [pc EXCEPT ![c] = pc'[c]] /\ call' = call
  /\ \/ pc'[c] = "idle"
     \/ pc[c] = "findScalars" /\ pc'[c] = "createScalars"
     \/ pc[c] = "stage" /\ pc'[c] \in {"close", "closeFailed"}
     \/ pc[c] = "openScalars" /\ pc'[c] = "decode"
     \/ pc[c] = "find" /\ pc'[c] = "create"
     \/ pc[c] \in {"find", "create"} /\ pc'[c] = "write" /\ arrays'[call[c].path] # Invalid
     \/ pc[c] = "openArray" /\ pc'[c] = "query"

\* An array that is there stays, and is one.
ArraysStay ==
  /\ DOMAIN arrays' = Paths
  /\ \A p \in Paths : IsArray(arrays'[p]) \/ arrays'[p] = arrays[p]

\* An array is not Invalid.
LEMMA ArrayIsThere == \A a : IsArray(a) => a # Invalid
BY DEF IsArray, ArrayTypes, NumericTypes, Invalid

\* A step of c within its call keeps CallInv.
LEMMA MovesKeepsCallInv ==
  ASSUME TInv, NEW c \in Clients, Moves(c), ArraysStay
  PROVE  CallInv'
<1> SUFFICES ASSUME NEW d \in Clients PROVE CallInv!(d)'
  BY DEF CallInv
<1>1. pc[d] = "write" => call[d].path \in Paths /\ arrays'[call[d].path] # Invalid
  BY Requested, ArrayIsThere DEF TInv, TypeOK, CallInv, ArraysStay
<1>2. CASE d = c
  BY <1>1, <1>2 DEF TInv, TypeOK, CallInv, Moves
<1>3. CASE d # c
  BY <1>1, <1>3 DEF TInv, TypeOK, CallInv, Moves
<1>. QED BY <1>2, <1>3

\* An array as createSimpleArray leaves it.
LEMMA Created ==
  ASSUME NEW type \in ArrayTypes, NEW dims \in Seq(Positive) \ {<<>>}
  PROVE  IsArray([type |-> type, dims |-> dims, cells |-> [x \in Domain(dims) |-> Blank]])
BY DEF IsArray

\* What the steps do to arrays.
LEMMA StepArraysStay ==
  ASSUME TInv, NEW c \in Clients, Step(c)
  PROVE  ArraysStay
<1>0. pc[c] \in {"find", "create", "write"} =>
        call[c].path \in Paths /\ call[c].dims \in Seq(Positive) \ {<<>>}
  BY Requested DEF TInv, CallInv
<1>1. CASE Create(c)
  BY <1>0, <1>1, Created DEF Create, TInv, TypeOK, ArraysStay
<1>2. CASE Write(c)
  <2>0. pc[c] = "write" /\ call[c].path \in Paths
    BY <1>0, <1>2 DEF Write
  <2>1. IsArray(arrays[call[c].path])
    BY <2>0 DEF TInv, TypeOK, CallInv
  <2>2. CASE arrays' = arrays
    BY <2>2 DEF TInv, TypeOK, ArraysStay
  <2>3. CASE arrays' = [arrays EXCEPT ![call[c].path].cells = Written(call[c], 1 .. call[c].dims[1])]
    <3>1. DOMAIN arrays' = Paths /\ \A p \in Paths \ {call[c].path} : arrays'[p] = arrays[p]
      BY <2>3 DEF TInv, TypeOK
    <3>2. arrays'[call[c].path] = [arrays[call[c].path] EXCEPT !.cells = Written(call[c], 1 .. call[c].dims[1])]
      BY <2>0, <2>3 DEF TInv, TypeOK
    <3>3. DOMAIN Written(call[c], 1 .. call[c].dims[1]) = DOMAIN arrays[call[c].path].cells
      BY DEF Written
    <3>4. IsArray(arrays'[call[c].path])
      BY <2>1, <3>2, <3>3 DEF IsArray
    <3>. QED BY <3>1, <3>4 DEF ArraysStay
  <2>. QED BY <1>2, <2>2, <2>3 DEF Write
<1>3. CASE arrays' = arrays
  BY <1>3 DEF ArraysStay, TInv, TypeOK
<1>. QED BY <1>1, <1>2, <1>3 DEF Step, FindScalars, CreateScalars, Stage, Close, Delete, OpenScalars, Decode,
       Find, OpenArray, Query, storeVars

\* The steps of a call keep CallInv.
LEMMA StepMoves ==
  ASSUME TInv, NEW c \in Clients, Step(c)
  PROVE  Moves(c)
<1>0. pc \in [Clients -> PCs]
  BY DEF TInv, TypeOK
<1>1. CASE FindScalars(c)
  BY <1>0, <1>1 DEF FindScalars, Goto, Connects, Refuse, Fault, Returns, storeVars, Moves
<1>2. CASE CreateScalars(c)
  BY <1>0, <1>2 DEF CreateScalars, Connects, Refuse, Fault, Returns, Moves
<1>3. CASE Stage(c)
  BY <1>0, <1>3 DEF Stage, Goto, Refuse, Fault, Returns, storeVars, Moves
<1>4. CASE Close(c)
  BY <1>0, <1>4 DEF Close, Writes, Returns, Moves
<1>5. CASE Delete(c)
  BY <1>0, <1>5 DEF Delete, Writes, Fault, Returns, Moves
<1>6. CASE OpenScalars(c)
  BY <1>0, <1>6 DEF OpenScalars, Goto, Fault, Returns, storeVars, Moves
<1>7. CASE Decode(c)
  BY <1>0, <1>7 DEF Decode, Refuse, Fault, Returns, storeVars, Moves
<1>8. CASE Find(c)
  BY <1>0, <1>8 DEF Find, Goto, Fault, Returns, storeVars, Moves
<1>9. CASE Create(c)
  <2>1. call[c].path \in Paths /\ call[c].dims \in Seq(Positive) \ {<<>>}
    BY <1>9, Requested DEF Create, TInv, CallInv
  <2>2. pc'[c] = "write" => arrays'[call[c].path] # Invalid
    BY <1>0, <1>9, <2>1, Created, ArrayIsThere DEF Create, Goto, Refuse, Fault, Returns, TInv, TypeOK
  <2>. QED BY <1>0, <1>9, <2>2 DEF Create, Goto, Refuse, Fault, Returns, Moves
<1>10. CASE Write(c)
  BY <1>0, <1>10 DEF Write, Refuse, Fault, Returns, Moves
<1>11. CASE OpenArray(c)
  BY <1>0, <1>11 DEF OpenArray, Goto, Refuse, Fault, Returns, storeVars, Moves
<1>12. CASE Query(c)
  BY <1>0, <1>12 DEF Query, Fault, Returns, storeVars, Moves
<1>. QED BY <1>1, <1>2, <1>3, <1>4, <1>5, <1>6, <1>7, <1>8, <1>9, <1>10, <1>11, <1>12 DEF Step

\* The types of what calls leave behind, the arrays' apart.
Shapes ==
  /\ connected \in [Clients -> BOOLEAN] /\ faulty \in [Clients -> BOOLEAN] /\ scalars \in BOOLEAN
  /\ DOMAIN answer = Clients /\ DOMAIN staged = Clients /\ DOMAIN view = Clients /\ DOMAIN seen = Clients
  /\ DOMAIN meta = Keys /\ DOMAIN given = Keys /\ half \subseteq Keys /\ DOMAIN acked = Paths
  /\ calls \in 0 .. MaxCalls /\ crashes \in 0 .. MaxCrashes

\* The steps of a call keep them.
LEMMA StepShapes ==
  ASSUME TInv, NEW c \in Clients, Step(c)
  PROVE  Shapes'
<1>0. Shapes
  BY DEF TInv, TypeOK, Shapes
<1>1. pc[c] = "stage" => call[c].key \in Keys
  BY Requested DEF TInv, CallInv
<1>2. CASE FindScalars(c)
  BY <1>0, <1>2 DEF FindScalars, Goto, Connects, Refuse, Fault, Returns, storeVars, Shapes
<1>3. CASE CreateScalars(c)
  BY <1>0, <1>3 DEF CreateScalars, Connects, Refuse, Fault, Returns, Shapes
<1>4. CASE Stage(c)
  BY <1>0, <1>1, <1>4 DEF Stage, Goto, Refuse, Fault, Returns, storeVars, Shapes
<1>5. CASE Close(c)
  BY <1>0, <1>5 DEF Close, Writes, Returns, Shapes
<1>6. CASE Delete(c)
  BY <1>0, <1>6 DEF Delete, Writes, Fault, Returns, Shapes
<1>7. CASE OpenScalars(c)
  BY <1>0, <1>7 DEF OpenScalars, Goto, Fault, Returns, storeVars, Shapes
<1>8. CASE Decode(c)
  BY <1>0, <1>8 DEF Decode, Refuse, Fault, Returns, storeVars, Shapes
<1>9. CASE Find(c)
  BY <1>0, <1>9 DEF Find, Goto, Fault, Returns, storeVars, Shapes
<1>10. CASE Create(c)
  BY <1>0, <1>10 DEF Create, Goto, Refuse, Fault, Returns, Shapes
<1>11. CASE Write(c)
  BY <1>0, <1>11 DEF Write, Refuse, Fault, Returns, Shapes
<1>12. CASE OpenArray(c)
  BY <1>0, <1>12 DEF OpenArray, Goto, Refuse, Fault, Returns, storeVars, Shapes
<1>13. CASE Query(c)
  BY <1>0, <1>13 DEF Query, Fault, Returns, storeVars, Shapes
<1>. QED BY <1>2, <1>3, <1>4, <1>5, <1>6, <1>7, <1>8, <1>9, <1>10, <1>11, <1>12, <1>13 DEF Step

\* The steps of a call keep TypeOK.
LEMMA StepTypeOK ==
  ASSUME TInv, NEW c \in Clients, Step(c)
  PROVE  TypeOK'
<1>1. Shapes' /\ ArraysStay /\ Moves(c)
  BY StepShapes, StepArraysStay, StepMoves
<1>2. pc' \in [Clients -> PCs] /\ call' = call
  BY <1>1 DEF Moves, PCs, TInv, TypeOK
<1>3. \A p \in Paths : arrays'[p] = Invalid \/ IsArray(arrays'[p])
  BY <1>1 DEF ArraysStay, TInv, TypeOK
<1>4. \A p \in Paths : acked'[p].dims \in Seq(Positive)
  <2>1. <<>> \in Seq(Positive)
    OBVIOUS
  <2>2. pc[c] = "write" => call[c].path \in Paths /\ call[c].dims \in Seq(Positive)
    BY Requested DEF TInv, CallInv
  <2>3. DOMAIN acked = Paths /\ \A p \in Paths : acked[p].dims \in Seq(Positive)
    BY DEF TInv, TypeOK
  <2>4. CASE Write(c)
    <3>1. \/ acked' = acked
          \/ acked' = [acked EXCEPT ![call[c].path] = NoAck]
          \/ acked' = [acked EXCEPT ![call[c].path] = [dims |-> call[c].dims, value |-> call[c].value]]
      BY <2>4 DEF Write
    <3>2. call[c].dims \in Seq(Positive) /\ NoAck.dims \in Seq(Positive)
      BY <2>1, <2>2, <2>4 DEF Write, NoAck
    <3>3. ASSUME NEW p \in Paths
          PROVE  \/ acked'[p] = acked[p] \/ acked'[p] = NoAck
                 \/ acked'[p] = [dims |-> call[c].dims, value |-> call[c].value]
      BY <2>3, <3>1
    <3>. QED BY <2>3, <3>2, <3>3
  <2>5. CASE acked' = acked
    BY <2>3, <2>5
  <2>. QED BY <2>4, <2>5 DEF Step, FindScalars, CreateScalars, Stage, Close, Delete, OpenScalars, Decode,
         Find, Create, OpenArray, Query
<1>. QED BY <1>1, <1>2, <1>3, <1>4 DEF Shapes, ArraysStay, TInv, TypeOK

\* A crash keeps TInv.
LEMMA CrashTInv ==
  ASSUME TInv, NEW c \in Clients, Crash(c)
  PROVE  TInv'
<1>1. TypeOK'
  BY BoundsAssumption DEF Crash, storeVars, history, TInv, TypeOK, PCs
<1>2. CallInv'
  BY DEF Crash, storeVars, TInv, TypeOK, CallInv
<1>. QED BY <1>1, <1>2 DEF TInv

\* Every step keeps TInv.
LEMMA NextTInv == TInv /\ [Next]_vars => TInv'
<1> SUFFICES ASSUME TInv, [Next]_vars PROVE TInv'
  OBVIOUS
<1>1. CASE Next
  <2>1. PICK c \in Clients : Connect(c) \/ (\E r \in Requests : Call(c, r)) \/ Step(c) \/ Crash(c)
    BY <1>1 DEF Next
  <2>2. Step(c) => TInv'
    BY StepTypeOK, StepMoves, StepArraysStay, MovesKeepsCallInv DEF TInv
  <2>. QED BY <2>1, <2>2, BeginTInv, CrashTInv
<1>2. CASE UNCHANGED vars
  BY <1>2 DEF vars, clientVars, storeVars, history, TInv, TypeOK, CallInv
<1>. QED BY <1>1, <1>2

\* Calls and arrays keep their types, each step belongs to a call of its operation,
\* and a put that gets to its write has an array to write to.
THEOREM TypeCorrect == Spec => [](TypeOK /\ CallInv)
BY InitTInv, NextTInv, PTL DEF Spec, TInv

(***************************************************************************)
(* Creation                                                                *)
(***************************************************************************)
\* What a call that begins changes.
LEMMA Begins ==
  ASSUME TInv, NEW c \in Clients, Connect(c) \/ \E r \in Requests : Call(c, r)
  PROVE  /\ pc[c] = "idle" /\ pc' = [pc EXCEPT ![c] = pc'[c]] /\ pc'[c] \notin {"idle", "decode", "query"}
         /\ call' = [call EXCEPT ![c] = call'[c]]
         /\ faulty' = [faulty EXCEPT ![c] = FALSE]
         /\ UNCHANGED <<answer, connected, staged, view, scalars, meta, arrays, half, acked, crashes>>
         /\ pc'[c] = "openScalars" =>
              call'[c].key \in Keys /\ seen' = [seen EXCEPT ![c] = {meta[call'[c].key]}]
         /\ pc'[c] # "openScalars" => seen' = seen
<1>1. PICK r \in Requests \cup {[op |-> "connect"]}, step \in PCs \ {"idle", "decode", "query"} :
        /\ Begin(c, r, step)
        /\ step = "openScalars" =>
             r \in Requests /\ r.op = "getMetadata" /\ seen' = [seen EXCEPT ![c] = {meta[r.key]}]
        /\ step # "openScalars" => seen' = seen
  BY DEF Connect, Call, PutMetadata, DeleteMetadata, GetMetadata, PutSimpleArray, GetSimpleArray, PCs
<1>2. step = "openScalars" => r.key \in Keys
  BY <1>1, RequestsAssumption
<1>3. pc'[c] = step /\ call'[c] = r
  BY <1>1 DEF Begin, Goto, TInv, TypeOK
<1>. QED BY <1>1, <1>2, <1>3 DEF Begin, Goto, storeVars

\* A call that begins keeps LoserFindsIt: it has not returned.
LEMMA BeginLoser ==
  ASSUME TInv, LoserFindsIt, NEW c \in Clients, Connect(c) \/ \E r \in Requests : Call(c, r)
  PROVE  LoserFindsIt'
<1> SUFFICES ASSUME NEW d \in Clients PROVE LoserFindsIt!(d)'
  BY DEF LoserFindsIt
<1>. QED BY Begins DEF LoserFindsIt, Returned, TInv, TypeOK

\* The array of the attributes and simple arrays stay.
LEMMA StepKeepsArrays ==
  ASSUME TInv, NEW c \in Clients, Step(c)
  PROVE  /\ scalars => scalars'
         /\ \A p \in Paths : arrays[p] # Invalid => arrays'[p] # Invalid
<1>1. scalars => scalars'
  BY DEF Step, FindScalars, CreateScalars, Stage, Close, Delete, OpenScalars, Decode, Find, Create, Write,
     OpenArray, Query, storeVars
<1>. QED BY <1>1, StepArraysStay, ArrayIsThere DEF ArraysStay

\* A step leaves the calls of others alone.
LEMMA StepOfOne ==
  ASSUME TInv, NEW c \in Clients, Step(c), NEW d \in Clients \ {c}
  PROVE  /\ connected'[d] = connected[d] /\ answer'[d] = answer[d]
         /\ faulty'[d] = faulty[d] /\ view'[d] = view[d]
<1>0. Shapes
  BY DEF TInv, TypeOK, Shapes
<1>1. CASE FindScalars(c)
  BY <1>0, <1>1 DEF FindScalars, Goto, Connects, Refuse, Fault, Returns, storeVars, Shapes
<1>2. CASE CreateScalars(c)
  BY <1>0, <1>2 DEF CreateScalars, Connects, Refuse, Fault, Returns, Shapes
<1>3. CASE Stage(c)
  BY <1>0, <1>3 DEF Stage, Goto, Refuse, Fault, Returns, storeVars, Shapes
<1>4. CASE Close(c)
  BY <1>0, <1>4 DEF Close, Writes, Returns, Shapes
<1>5. CASE Delete(c)
  BY <1>0, <1>5 DEF Delete, Writes, Fault, Returns, Shapes
<1>6. CASE OpenScalars(c)
  BY <1>0, <1>6 DEF OpenScalars, Goto, Fault, Returns, storeVars, Shapes
<1>7. CASE Decode(c)
  BY <1>0, <1>7 DEF Decode, Refuse, Fault, Returns, storeVars, Shapes
<1>8. CASE Find(c)
  BY <1>0, <1>8 DEF Find, Goto, Fault, Returns, storeVars, Shapes
<1>9. CASE Create(c)
  BY <1>0, <1>9 DEF Create, Goto, Refuse, Fault, Returns, Shapes
<1>10. CASE Write(c)
  BY <1>0, <1>10 DEF Write, Refuse, Fault, Returns, Shapes
<1>11. CASE OpenArray(c)
  BY <1>0, <1>11 DEF OpenArray, Goto, Refuse, Fault, Returns, storeVars, Shapes
<1>12. CASE Query(c)
  BY <1>0, <1>12 DEF Query, Fault, Returns, storeVars, Shapes
<1>. QED BY <1>1, <1>2, <1>3, <1>4, <1>5, <1>6, <1>7, <1>8, <1>9, <1>10, <1>11, <1>12 DEF Step

\* Who connects has the array.
LEMMA StepConnects ==
  ASSUME TInv, NEW c \in Clients, Step(c), connected'[c]
  PROVE  connected[c] \/ scalars'
<1>1. CASE FindScalars(c)
  BY <1>1 DEF FindScalars, storeVars
<1>2. CASE CreateScalars(c)
  BY <1>2 DEF CreateScalars
<1>3. CASE connected' = connected
  BY <1>3
<1>. QED BY <1>1, <1>2, <1>3 DEF Step, Stage, Close, Delete, OpenScalars, Decode, Find, Create, Write, OpenArray, Query

\* Who is refused finds what stood in its way.
LEMMA StepRefuses ==
  ASSUME TInv, NEW c \in Clients, Step(c), pc'[c] = "idle", answer'[c].status = "error", ~faulty'[c]
  PROVE  /\ call[c].op = "connect" => scalars'
         /\ call[c].op = "putSimpleArray" /\ call[c].type \in ArrayTypes => arrays'[call[c].path] # Invalid
<1>0. Shapes /\ pc \in [Clients -> PCs] /\ CallInv!(c)
  BY DEF TInv, TypeOK, CallInv, Shapes
<1>1. CASE FindScalars(c)
  BY <1>0, <1>1 DEF FindScalars, Goto, Connects, Refuse, Fault, Returns, storeVars, Shapes
<1>2. CASE CreateScalars(c)
  BY <1>0, <1>2 DEF CreateScalars, Connects, Refuse, Fault, Returns, Shapes
<1>3. CASE Stage(c)
  BY <1>0, <1>3 DEF Stage, Goto, Refuse, Fault, Returns, storeVars, Shapes
<1>4. CASE Close(c)
  BY <1>0, <1>4 DEF Close, Writes, Returns, Shapes
<1>5. CASE Delete(c)
  BY <1>0, <1>5 DEF Delete, Writes, Fault, Returns, Shapes
<1>6. CASE OpenScalars(c)
  BY <1>0, <1>6 DEF OpenScalars, Goto, Fault, Returns, storeVars, Shapes
<1>7. CASE Decode(c)
  BY <1>0, <1>7 DEF Decode, Refuse, Fault, Returns, storeVars, Shapes
<1>8. CASE Find(c)
  BY <1>0, <1>8 DEF Find, Goto, Fault, Returns, storeVars, Shapes
<1>9. CASE Create(c)
  BY <1>0, <1>9 DEF Create, Goto, Refuse, Fault, Returns, Shapes
<1>10. CASE Write(c)
  <2>1. arrays[call[c].path] # Invalid /\ call[c].path \in Paths
    BY <1>0, <1>10, Requested DEF Write, TInv
  <2>2. arrays'[call[c].path] # Invalid
    BY <1>10, <2>1, StepKeepsArrays DEF Step
  <2>. QED BY <1>0, <1>10, <2>2 DEF Write
<1>11. CASE OpenArray(c)
  BY <1>0, <1>11 DEF OpenArray, Goto, Refuse, Fault, Returns, storeVars, Shapes
<1>12. CASE Query(c)
  BY <1>0, <1>12 DEF Query, Fault, Returns, storeVars, Shapes
<1>. QED BY <1>1, <1>2, <1>3, <1>4, <1>5, <1>6, <1>7, <1>8, <1>9, <1>10, <1>11, <1>12 DEF Step

\* The steps of a call keep LoserFindsIt.
LEMMA StepLoser ==
  ASSUME TInv, LoserFindsIt, NEW c \in Clients, Step(c)
  PROVE  LoserFindsIt'
<1> SUFFICES ASSUME NEW d \in Clients PROVE LoserFindsIt!(d)'
  BY DEF LoserFindsIt
<1>1. DOMAIN pc = Clients /\ LoserFindsIt!(d)
  BY DEF TInv, TypeOK, LoserFindsIt
<1>2. pc' = [pc EXCEPT ![c] = pc'[c]] /\ call' = call
  BY StepMoves DEF Moves
<1>3. CASE d = c
  BY <1>1, <1>2, <1>3, StepConnects, StepRefuses, StepKeepsArrays DEF Returned
<1>4. CASE d # c
  <2>1. call[d].op = "putSimpleArray" => call[d].path \in Paths
    BY Requested DEF TInv
  <2>. QED BY <1>1, <1>2, <1>4, <2>1, StepOfOne, StepKeepsArrays DEF Returned
<1>. QED BY <1>3, <1>4

\* A crash keeps LoserFindsIt: nothing connected or returned is left of c.
LEMMA CrashLoser ==
  ASSUME TInv, LoserFindsIt, NEW c \in Clients, Crash(c)
  PROVE  LoserFindsIt'
<1> SUFFICES ASSUME NEW d \in Clients PROVE LoserFindsIt!(d)'
  BY DEF LoserFindsIt
<1>. QED BY DEF Crash, LoserFindsIt, Returned, storeVars, history, TInv, TypeOK

\* Plugins that race to create an array: an error not due to TileDB means that the
\* array is there now, and whoever connected has the array of the attributes.
THEOREM CreationRace == Spec => []LoserFindsIt
<1>1. Init => LoserFindsIt
  BY DEF Init, LoserFindsIt, Returned, NoCall
<1>2. TInv /\ LoserFindsIt /\ [Next]_vars => LoserFindsIt'
  <2> SUFFICES ASSUME TInv, LoserFindsIt, [Next]_vars PROVE LoserFindsIt'
    OBVIOUS
  <2>1. CASE Next
    BY <2>1, BeginLoser, StepLoser, CrashLoser DEF Next
  <2>2. CASE UNCHANGED vars
    BY <2>2 DEF vars, clientVars, storeVars, history, LoserFindsIt, Returned
  <2>. QED BY <2>1, <2>2
<1>. QED BY InitTInv, NextTInv, <1>1, <1>2, PTL DEF Spec

(***************************************************************************)
(* Attributes                                                              *)
(***************************************************************************)
\* What a call has met, up to its answer, was there at an instant of it.
SeenInv ==
  \A c \in Clients :
    /\ pc[c] = "openScalars" => meta[call[c].key] \in seen[c]
    /\ pc[c] = "decode" => view[c] \in seen[c]
    /\ AttributeWasThere!(c)

\* What a step writes those under way that read the attribute see; the rest stays.
LEMMA StepSeen ==
  ASSUME TInv, NEW c \in Clients, Step(c), NEW d \in Clients
  PROVE  /\ seen[d] \subseteq seen'[d]
         /\ pc[d] = "openScalars" =>
              meta'[call[d].key] = meta[call[d].key] \/ meta'[call[d].key] \in seen'[d]
<1>0. /\ pc[d] = "openScalars" => "key" \in DOMAIN call[d] /\ call[d].key \in Keys
      /\ pc[c] \in {"close", "closeFailed", "delete"} => call[c].key \in Keys
  BY Requested DEF TInv, CallInv
<1>1. ASSUME NEW m, Writes(call[c].key, m), pc[c] \in {"close", "closeFailed", "delete"}
      PROVE  /\ seen[d] \subseteq seen'[d]
             /\ pc[d] = "openScalars" =>
                  meta'[call[d].key] = meta[call[d].key] \/ meta'[call[d].key] \in seen'[d]
  BY <1>0, <1>1 DEF Writes, TInv, TypeOK
<1>2. CASE Close(c)
  BY <1>1, <1>2 DEF Close
<1>3. CASE Delete(c)
  BY <1>1, <1>3 DEF Delete
<1>4. CASE UNCHANGED <<meta, seen>>
  BY <1>4
<1>. QED BY <1>2, <1>3, <1>4 DEF Step, FindScalars, CreateScalars, Stage, OpenScalars, Decode, Find, Create,
       Write, OpenArray, Query, storeVars

\* The steps of a call keep SeenInv.
LEMMA StepSeenInv ==
  ASSUME TInv, SeenInv, NEW c \in Clients, Step(c)
  PROVE  SeenInv'
<1> SUFFICES ASSUME NEW d \in Clients PROVE SeenInv!(d)'
  BY DEF SeenInv
<1>0. Shapes /\ pc \in [Clients -> PCs] /\ CallInv!(c) /\ SeenInv!(d)
  BY DEF TInv, TypeOK, CallInv, Shapes, SeenInv
<1>1. Moves(c)
  BY StepMoves
<1>2. CASE d # c
  <2>1. pc'[d] = pc[d] /\ call'[d] = call[d]
    BY <1>0, <1>1, <1>2 DEF Moves
  <2>. QED BY <1>0, <1>2, <2>1, StepOfOne, StepSeen DEF Returned
<1>3. CASE d = c
  <2>1. pc'[c] # "openScalars"
    BY <1>0, <1>1 DEF Moves
  <2>2. pc'[c] = "decode" => view'[c] \in seen'[c]
    <3>1. pc'[c] = "decode" => OpenScalars(c)
      BY <1>0 DEF Step, FindScalars, CreateScalars, Stage, Close, Delete, Decode, Find, Create, Write, OpenArray,
         Query, Goto, Connects, Refuse, Fault, Returns
    <3>. QED BY <1>0, <1>3, <3>1 DEF OpenScalars, Goto, Fault, Returns, Shapes
  <2>3. Returned(c, "getMetadata", "nil")' =>
          \E m \in seen'[c] : answer'[c].data = Content(m, call[c].type)
    <3>1. Returned(c, "getMetadata", "nil")' => OpenScalars(c) \/ Decode(c)
      BY <1>0, <1>1 DEF Returned, Moves, Step, FindScalars, CreateScalars, Stage, Close, Delete, Find, Create, Write,
         OpenArray, Query
    <3>2. OpenScalars(c) => ~Returned(c, "getMetadata", "nil")'
      BY <1>0 DEF OpenScalars, Goto, Fault, Returns, Returned, Shapes
    <3>3. Decode(c) /\ Returned(c, "getMetadata", "nil")' => answer'[c].data = Content(view[c], call[c].type)
      BY <1>0 DEF Decode, Refuse, Fault, Returns, Returned, Shapes
    <3>. QED BY <1>0, <1>3, <3>1, <3>2, <3>3, StepSeen DEF Decode
  <2>. QED BY <1>1, <1>3, <2>1, <2>2, <2>3 DEF Moves
<1>. QED BY <1>2, <1>3

\* An attribute is read as it was at one instant of the call, whatever others put or
\* delete meanwhile.
THEOREM AttributesHold == Spec => []AttributeWasThere
<1>1. Init => SeenInv
  BY DEF Init, SeenInv, Returned, NoCall
<1>2. TInv /\ SeenInv /\ [Next]_vars => SeenInv'
  <2> SUFFICES ASSUME TInv, SeenInv, [Next]_vars PROVE SeenInv'
    OBVIOUS
  <2>1. CASE \E c \in Clients : Connect(c) \/ \E r \in Requests : Call(c, r)
    <3> SUFFICES ASSUME NEW d \in Clients PROVE SeenInv!(d)'
      BY DEF SeenInv
    <3>. QED BY <2>1, Begins DEF SeenInv, Returned, TInv, TypeOK
  <2>2. CASE \E c \in Clients : Step(c)
    BY <2>2, StepSeenInv
  <2>3. CASE \E c \in Clients : Crash(c)
    <3> SUFFICES ASSUME NEW d \in Clients PROVE SeenInv!(d)'
      BY DEF SeenInv
    <3>. QED BY <2>3 DEF Crash, SeenInv, Returned, storeVars, history, TInv, TypeOK
  <2>4. CASE UNCHANGED vars
    BY <2>4 DEF vars, clientVars, storeVars, history, SeenInv, Returned
  <2>. QED BY <2>1, <2>2, <2>3, <2>4 DEF Next
<1>3. SeenInv => AttributeWasThere
  BY DEF SeenInv, AttributeWasThere
<1>. QED BY InitTInv, NextTInv, <1>1, <1>2, <1>3, PTL DEF Spec

(***************************************************************************)
(* Strings                                                                 *)
(***************************************************************************)
IsValue(v) == v = <<v[1], v[2]>> /\ (v[1] = "strings" => v[2] \in Seq(Seq(Chars)))

\* What m holds comes whole from values: its plain value is one, and its data and
\* its offsets are those of one.
IsWhole(m, values) ==
  /\ DOMAIN m = DOMAIN NoMeta
  /\ m.plain = Nothing \/ \E v \in values : m.plain = <<v>>
  /\ \/ m.data = Nothing /\ m.offsets = Nothing
     \/ \E v \in values : v[1] = "strings" /\ m.data = <<Bytes(v[2])>> /\ m.offsets = <<Offsets(v[2])>>

\* What is written, staged and read of a key is whole, unless a put of strings has
\* failed between its two keys.
StringsInv ==
  /\ \A k \in Keys : (\A v \in given[k] : IsValue(v)) /\ (k \notin half => IsWhole(meta[k], given[k]))
  /\ \A c \in Clients :
       /\ pc[c] = "stage" => call[c].value \in given[call[c].key]
       /\ pc[c] = "close" => IsWhole(staged[c], given[call[c].key])
       /\ pc[c] = "closeFailed" => call[c].key \in half
       /\ pc[c] = "decode" /\ call[c].key \notin half => IsWhole(view[c], given[call[c].key])
       /\ StringsAreWhole!(c)

\* Strings kept as their bytes and offsets are read back as they were.
LEMMA ReadsBack ==
  ASSUME NEW s \in Seq(Seq(Chars)), NEW m, m.data = <<Bytes(s)>>, m.offsets = <<Offsets(s)>>
  PROVE  HasStrings(m) /\ Sliceable(m) /\ Strings(m) = s
<1>0. Len(s) \in Nat /\ DOMAIN s = 1 .. Len(s)
  OBVIOUS
<1>1. m.data[1] = FlattenSeq(s) /\ m.offsets[1] = Offsets(s) /\ HasStrings(m)
  BY DEF HasStrings, Nothing, Bytes
<1>2. /\ DOMAIN Offsets(s) = 1 .. Len(s) /\ \A i \in 1 .. Len(s) : Offsets(s)[i] = Start(s, i)
      /\ Offsets(s) = [i \in 1 .. Len(s) |-> Start(s, i)]
  BY <1>0 DEF Offsets, Start
<1>3. /\ Start(s, Len(s) + 1) = Len(FlattenSeq(s)) /\ Len(FlattenSeq(s)) \in Nat
      /\ \A i \in 1 .. Len(s) :
           /\ Start(s, i) \in Nat /\ Start(s, i + 1) = Start(s, i) + Len(s[i])
           /\ Start(s, i + 1) <= Len(FlattenSeq(s))
           /\ SubSeq(FlattenSeq(s), Start(s, i) + 1, Start(s, i + 1)) = s[i]
  BY FlattenCut, LenProperties
<1>4. \A i \in 1 .. Len(s) + 1 : Ends(m)[i] = Start(s, i)
  <2>1. Offsets(s) \in Seq(Nat) /\ Len(Offsets(s)) = Len(s)
    BY <1>0, <1>2, <1>3
  <2>2. \A i \in 1 .. Len(s) : Append(Offsets(s), Len(FlattenSeq(s)))[i] = Offsets(s)[i]
    BY <1>3, <2>1, AppendProperties
  <2>3. Append(Offsets(s), Len(FlattenSeq(s)))[Len(s) + 1] = Len(FlattenSeq(s))
    BY <1>3, <2>1, AppendProperties
  <2>4. Ends(m) = Append(Offsets(s), Len(FlattenSeq(s)))
    BY <1>1 DEF Ends
  <2>. QED BY <1>0, <1>2, <1>3, <2>2, <2>3, <2>4
<1>5. \A i \in 1 .. Len(s) : Len(s[i]) \in Nat
  BY ElementOfSeq, LenProperties
<1>6. \A i \in 1 .. Len(s) : Ends(m)[i] = Start(s, i) /\ Ends(m)[i + 1] = Start(s, i + 1)
  <2> SUFFICES ASSUME NEW i \in 1 .. Len(s)
               PROVE  Ends(m)[i] = Start(s, i) /\ Ends(m)[i + 1] = Start(s, i + 1)
    OBVIOUS
  <2>1. i \in 1 .. Len(s) + 1 /\ i + 1 \in 1 .. Len(s) + 1
    BY <1>0
  <2>. QED BY <1>4, <2>1
<1>7. Sliceable(m)
  <2>1. \A i \in 1 .. Len(s) : Start(s, i) <= Start(s, i + 1)
    BY <1>3, <1>5
  <2>. QED BY <1>1, <1>2, <1>3, <1>6, <2>1 DEF Sliceable
<1>8. Strings(m) = [i \in 1 .. Len(s) |-> s[i]]
  <2>1. \A i \in 1 .. Len(s) : SubSeq(m.data[1], Ends(m)[i] + 1, Ends(m)[i + 1]) = s[i]
    BY <1>1, <1>3, <1>6
  <2>. QED BY <1>1, <1>2, <2>1 DEF Strings
<1>. QED BY <1>0, <1>1, <1>7, <1>8

\* What is read of whole values is one of them.
LEMMA ReadsAValue ==
  ASSUME NEW m, NEW values, \A v \in values : IsValue(v), IsWhole(m, values), NEW type
  PROVE  /\ Content(m, type) # Nothing => Content(m, type) \in values
         /\ HasStrings(m) => Sliceable(m)
<1>1. HasStrings(m) => Sliceable(m) /\ <<"strings", Strings(m)>> \in values
  <2> SUFFICES ASSUME HasStrings(m) PROVE Sliceable(m) /\ <<"strings", Strings(m)>> \in values
    OBVIOUS
  <2>1. PICK v \in values : v[1] = "strings" /\ m.data = <<Bytes(v[2])>> /\ m.offsets = <<Offsets(v[2])>>
    BY DEF IsWhole, HasStrings
  <2>2. v = <<"strings", v[2]>> /\ v[2] \in Seq(Seq(Chars))
    BY <2>1 DEF IsValue
  <2>3. Sliceable(m) /\ Strings(m) = v[2]
    BY <2>1, <2>2, ReadsBack
  <2>. QED BY <2>2, <2>3
<1>2. m.plain # Nothing => m.plain[1] \in values
  BY DEF IsWhole, Nothing
<1>. QED BY <1>1, <1>2 DEF Content

\* What is whole stays so with more values, and without its plain one.
LEMMA WholeGrows ==
  ASSUME NEW m, NEW values, NEW more, IsWhole(m, values), values \subseteq more
  PROVE  IsWhole(m, more)
BY DEF IsWhole

\* Deleting the plain value leaves the strings.
LEMMA WholeWithoutPlain ==
  ASSUME NEW m, NEW values, IsWhole(m, values)
  PROVE  IsWhole([m EXCEPT !.plain = Nothing], values)
BY DEF IsWhole, NoMeta

\* A value staged under its keys.
LEMMA WholeStaged ==
  ASSUME NEW values, NEW v \in values
  PROVE  /\ v[1] # "strings" => IsWhole([NoMeta EXCEPT !.plain = <<v>>], values)
         /\ v[1] = "strings" =>
              IsWhole([NoMeta EXCEPT !.data = <<Bytes(v[2])>>, !.offsets = <<Offsets(v[2])>>], values)
BY DEF IsWhole, NoMeta

\* What is whole, written over what is.
LEMMA WholeOver ==
  ASSUME NEW m, NEW n, NEW values, IsWhole(m, values), IsWhole(n, values)
  PROVE  IsWhole(Over(m, n), values)
<1>1. /\ DOMAIN Over(m, n) = DOMAIN NoMeta
      /\ Over(m, n).plain = IF m.plain = Nothing THEN n.plain ELSE m.plain
      /\ Over(m, n).data = IF m.data = Nothing THEN n.data ELSE m.data
      /\ Over(m, n).offsets = IF m.offsets = Nothing THEN n.offsets ELSE m.offsets
  BY DEF IsWhole, Over, NoMeta
<1>2. m.data = Nothing <=> m.offsets = Nothing
  BY DEF IsWhole, Nothing
<1>. QED BY <1>1, <1>2 DEF IsWhole

\* A call that begins: its value is among those given.
LEMMA BeginStrings ==
  ASSUME TInv, StringsInv, NEW c \in Clients, Connect(c) \/ \E r \in Requests : Call(c, r)
  PROVE  StringsInv'
<1>1. /\ pc[c] = "idle" /\ pc' = [pc EXCEPT ![c] = pc'[c]] /\ pc'[c] \notin {"idle", "decode"}
      /\ call' = [call EXCEPT ![c] = call'[c]]
      /\ UNCHANGED <<answer, staged, view, meta, half>>
  BY Begins
<1>2. PICK r \in Requests \cup {[op |-> "connect"]} :
        /\ call'[c] = r /\ pc'[c] \notin {"close", "closeFailed"}
        /\ \/ given' = given /\ pc'[c] # "stage"
           \/ /\ r \in Requests /\ r.op = "putMetadata"
              /\ given' = [given EXCEPT ![r.key] = @ \cup {r.value}]
  BY DEF Connect, Call, PutMetadata, DeleteMetadata, GetMetadata, PutSimpleArray, GetSimpleArray, Begin, Goto,
         TInv, TypeOK
<1>3. r \in Requests /\ r.op = "putMetadata" => r.key \in Keys /\ IsValue(r.value)
  BY RequestsAssumption DEF IsValue
<1>4. \A k \in Keys : given[k] \subseteq given'[k] /\ \A v \in given'[k] : IsValue(v)
  BY <1>2, <1>3 DEF StringsInv, TInv, TypeOK
<1>5. pc'[c] = "stage" => r.key \in Keys /\ r.value \in given'[r.key]
  BY <1>2, <1>3 DEF TInv, TypeOK
<1>6. \A k \in Keys \ half : IsWhole(meta'[k], given'[k])
  BY <1>1, <1>4, WholeGrows DEF StringsInv
<1>7. ASSUME NEW d \in Clients
      PROVE  /\ pc'[d] = "stage" => call'[d].value \in given'[call'[d].key]
             /\ pc'[d] = "close" => IsWhole(staged'[d], given'[call'[d].key])
             /\ pc'[d] = "closeFailed" => call'[d].key \in half'
             /\ pc'[d] = "decode" /\ call'[d].key \notin half' => IsWhole(view'[d], given'[call'[d].key])
             /\ StringsAreWhole!(d)'
  <2>1. CASE d = c
    BY <1>1, <1>2, <1>5, <2>1 DEF Returned, TInv, TypeOK
  <2>2. CASE d # c
    <3>1. pc'[d] = pc[d] /\ call'[d] = call[d]
      BY <1>1, <2>2 DEF TInv, TypeOK
    <3>2. call[d].op \in {"putMetadata", "getMetadata"} => call[d].key \in Keys
      BY Requested DEF TInv
    <3>3. UNCHANGED <<answer, staged, view, half>>
      BY <1>1
    <3>4. /\ pc[d] = "stage" => call[d].key \in Keys /\ call[d].value \in given[call[d].key]
          /\ pc[d] = "close" => call[d].key \in Keys /\ IsWhole(staged[d], given[call[d].key])
          /\ pc[d] = "closeFailed" => call[d].key \in half
          /\ pc[d] = "decode" /\ call[d].key \notin half =>
               call[d].key \in Keys /\ IsWhole(view[d], given[call[d].key])
          /\ StringsAreWhole!(d)
      BY <3>2 DEF StringsInv, TInv, CallInv
    <3>5. /\ pc[d] = "stage" => call[d].value \in given'[call[d].key]
          /\ pc[d] = "close" => IsWhole(staged[d], given'[call[d].key])
          /\ pc[d] = "decode" /\ call[d].key \notin half => IsWhole(view[d], given'[call[d].key])
      BY <1>4, <3>4, WholeGrows
    <3>6. StringsAreWhole!(d)'
      BY <1>4, <3>1, <3>2, <3>3, <3>4 DEF Returned
    <3>. QED BY <3>1, <3>3, <3>4, <3>5, <3>6
  <2>. QED BY <2>1, <2>2
<1>. QED BY <1>1, <1>4, <1>6, <1>7 DEF StringsInv

\* What a step writes to a key is whole.
LEMMA StepWritesWhole ==
  ASSUME TInv, StringsInv, NEW c \in Clients, Step(c)
  PROVE  /\ given' = given /\ half \subseteq half'
         /\ \A k \in Keys \ half' : IsWhole(meta'[k], given[k])
<1>1. given' = given /\ half \subseteq half'
  BY DEF Step, FindScalars, CreateScalars, Stage, Close, Delete, OpenScalars, Decode, Find, Create, Write,
     OpenArray, Query, storeVars
<1>2. \A k \in Keys \ half' : IsWhole(meta[k], given[k])
  BY <1>1 DEF StringsInv
<1>3. DOMAIN meta = Keys /\ (pc[c] \in {"close", "closeFailed", "delete"} => call[c].key \in Keys)
  BY Requested DEF TInv, TypeOK, CallInv
<1>4. CASE meta' = meta
  BY <1>1, <1>2, <1>4
<1>5. CASE Close(c) /\ Writes(call[c].key, Over(staged[c], meta[call[c].key]))
  <2>1. \A k \in Keys : meta'[k] = IF k = call[c].key THEN Over(staged[c], meta[k]) ELSE meta[k]
    BY <1>3, <1>5 DEF Writes
  <2>2. call[c].key \notin half => IsWhole(staged[c], given[call[c].key])
    BY <1>5 DEF Close, StringsInv
  <2>3. ASSUME NEW k \in Keys \ half' PROVE IsWhole(meta'[k], given[k])
    <3>1. IsWhole(meta[k], given[k]) /\ k \notin half
      BY <1>1, <1>2, <2>3
    <3>2. k = call[c].key => IsWhole(Over(staged[c], meta[k]), given[k])
      BY <2>2, <3>1, WholeOver
    <3>. QED BY <2>1, <3>1, <3>2
  <2>. QED BY <1>1, <2>3
<1>6. CASE Delete(c) /\ Writes(call[c].key, [meta[call[c].key] EXCEPT !.plain = Nothing])
  <2>1. \A k \in Keys : meta'[k] = IF k = call[c].key THEN [meta[k] EXCEPT !.plain = Nothing] ELSE meta[k]
    BY <1>3, <1>6 DEF Writes, Delete
  <2>2. ASSUME NEW k \in Keys \ half' PROVE IsWhole(meta'[k], given[k])
    <3>1. IsWhole(meta[k], given[k])
      BY <1>2, <2>2
    <3>2. IsWhole([meta[k] EXCEPT !.plain = Nothing], given[k])
      BY <3>1, WholeWithoutPlain
    <3>. QED BY <2>1, <2>2, <3>1, <3>2
  <2>. QED BY <1>1, <2>2
<1>. QED BY <1>4, <1>5, <1>6 DEF Step, FindScalars, CreateScalars, Stage, Close, Delete, OpenScalars, Decode,
       Find, Create, Write, OpenArray, Query, storeVars

\* What a step stages and reads is whole, and so is its answer.
LEMMA StepStringsOwn ==
  ASSUME TInv, StringsInv, NEW c \in Clients, Step(c)
  PROVE  /\ pc'[c] = "close" => IsWhole(staged'[c], given[call[c].key])
         /\ pc'[c] = "closeFailed" => call[c].key \in half'
         /\ pc'[c] = "decode" /\ call[c].key \notin half' => IsWhole(view'[c], given[call[c].key])
         /\ StringsAreWhole!(c)'
<1>0. Shapes /\ pc \in [Clients -> PCs] /\ CallInv!(c) /\ Moves(c)
  BY StepMoves DEF TInv, TypeOK, CallInv, Shapes
<1>1. call[c].op \in {"putMetadata", "getMetadata"} => call[c].key \in Keys
  BY Requested DEF TInv
<1>2. half \subseteq half' /\ given' = given /\ call' = call
  BY <1>0, StepWritesWhole DEF Moves
<1>3. pc'[c] \in {"close", "closeFailed"} => Stage(c)
  BY <1>0 DEF Moves, Step, FindScalars, CreateScalars, Close, Delete, OpenScalars, Decode, Find, Create, Write,
     OpenArray, Query
<1>4. CASE Stage(c)
  <2> DEFINE v == call[c].value
  <2>1. v \in given[call[c].key]
    BY <1>4 DEF Stage, StringsInv
  <2>2. /\ v[1] # "strings" => IsWhole([NoMeta EXCEPT !.plain = <<v>>], given[call[c].key])
        /\ v[1] = "strings" =>
             IsWhole([NoMeta EXCEPT !.data = <<Bytes(v[2])>>, !.offsets = <<Offsets(v[2])>>], given[call[c].key])
    BY <2>1, WholeStaged
  <2>3. /\ pc'[c] = "close" =>
             \/ v[1] # "strings" /\ staged'[c] = [NoMeta EXCEPT !.plain = <<v>>]
             \/ v[1] = "strings" /\ staged'[c] = [NoMeta EXCEPT !.data = <<Bytes(v[2])>>, !.offsets = <<Offsets(v[2])>>]
        /\ pc'[c] = "closeFailed" => call[c].key \in half'
        /\ pc'[c] # "decode"
    BY <1>0, <1>4 DEF Stage, Goto, Refuse, Fault, Returns, Shapes
  <2>4. call[c].op # "getMetadata"
    BY <1>0, <1>4 DEF Stage
  <2>. QED BY <1>2, <2>2, <2>3, <2>4 DEF Returned
<1>5. CASE OpenScalars(c)
  <2>1. pc'[c] = "decode" => view'[c] = meta[call[c].key]
    BY <1>0, <1>5 DEF OpenScalars, Goto, Fault, Returns, Shapes
  <2>2. pc'[c] # "decode" => pc'[c] = "idle" /\ answer'[c].status = "error"
    BY <1>0, <1>5 DEF OpenScalars, Goto, Fault, Returns, Shapes
  <2>3. call[c].key \in Keys
    BY <1>0, <1>1, <1>5 DEF OpenScalars
  <2>4. call[c].key \notin half' => IsWhole(meta[call[c].key], given[call[c].key])
    BY <1>2, <2>3 DEF StringsInv
  <2>. QED BY <1>2, <1>3, <1>5, <2>1, <2>2, <2>4 DEF Returned, OpenScalars, Stage
<1>6. CASE Decode(c)
  <2>1. call[c].key \in Keys /\ pc'[c] = "idle"
    BY <1>0, <1>1, <1>6 DEF Decode, Refuse, Fault, Returns
  <2>2. SUFFICES ASSUME call[c].key \notin half' PROVE StringsAreWhole!(c)'
    BY <1>2, <2>1
  <2>3. IsWhole(view[c], given[call[c].key]) /\ \A v \in given[call[c].key] : IsValue(v)
    BY <1>2, <1>6, <2>1, <2>2 DEF Decode, StringsInv
  <2>4. /\ Content(view[c], call[c].type) # Nothing => Content(view[c], call[c].type) \in given[call[c].key]
        /\ HasStrings(view[c]) => Sliceable(view[c])
    BY <2>3, ReadsAValue
  <2>5. /\ answer'[c].status = "nil" =>
             Content(view[c], call[c].type) # Nothing /\ answer'[c].data = Content(view[c], call[c].type)
        /\ answer'[c].status = "panic" => call[c].type # "strings"
    BY <1>0, <1>6, <2>4 DEF Decode, Refuse, Fault, Returns, Shapes
  <2>. QED BY <1>2, <2>4, <2>5 DEF Returned
<1>7. CASE ~(Stage(c) \/ OpenScalars(c) \/ Decode(c))
  <2>1. pc[c] \notin {"openScalars", "decode"} /\ call[c].op # "getMetadata"
    BY <1>0, <1>7 DEF Step, FindScalars, CreateScalars, Close, Delete, Find, Create, Write, OpenArray, Query
  <2>2. pc'[c] # "decode"
    BY <1>0, <2>1 DEF Moves
  <2>. QED BY <1>2, <1>3, <1>7, <2>1, <2>2 DEF Returned
<1>. QED BY <1>4, <1>5, <1>6, <1>7

\* The steps of a call keep StringsInv.
LEMMA StepStrings ==
  ASSUME TInv, StringsInv, NEW c \in Clients, Step(c)
  PROVE  StringsInv'
<1>0. Shapes /\ pc \in [Clients -> PCs] /\ Moves(c)
  BY StepMoves DEF TInv, TypeOK, Shapes
<1>1. given' = given /\ half \subseteq half' /\ call' = call
  BY <1>0, StepWritesWhole DEF Moves
<1>2. \A k \in Keys : (\A v \in given'[k] : IsValue(v)) /\ (k \notin half' => IsWhole(meta'[k], given'[k]))
  BY <1>1, StepWritesWhole DEF StringsInv
<1>3. ASSUME NEW d \in Clients
      PROVE  /\ pc'[d] = "stage" => call[d].value \in given[call[d].key]
             /\ pc'[d] = "close" => IsWhole(staged'[d], given[call[d].key])
             /\ pc'[d] = "closeFailed" => call[d].key \in half'
             /\ pc'[d] = "decode" /\ call[d].key \notin half' => IsWhole(view'[d], given[call[d].key])
             /\ StringsAreWhole!(d)'
  <2>1. CASE d = c
    <3>1. pc'[c] # "stage"
      BY <1>0 DEF Moves
    <3>. QED BY <2>1, <3>1, StepStringsOwn
  <2>2. CASE d # c
    <3>1. pc'[d] = pc[d] /\ answer'[d] = answer[d] /\ view'[d] = view[d]
      BY <1>0, <2>2, StepOfOne DEF Moves
    <3>2. staged'[d] = staged[d]
      BY <1>0, <2>2 DEF Shapes, Step, FindScalars, CreateScalars, Stage, Close, Delete, OpenScalars, Decode, Find,
         Create, Write, OpenArray, Query
    <3>. QED BY <1>1, <3>1, <3>2 DEF StringsInv, Returned
  <2>. QED BY <2>1, <2>2
<1>. QED BY <1>1, <1>2, <1>3 DEF StringsInv

\* Strings come back whole though they are kept under two keys, whoever else puts,
\* deletes or dies: they are written together, and cut where they were joined.
THEOREM StringsHold == Spec => []StringsAreWhole
<1>1. Init => StringsInv
  <2>1. IsWhole(NoMeta, {})
    BY DEF IsWhole, NoMeta
  <2>. QED BY <2>1 DEF Init, StringsInv, Returned, NoCall
<1>2. TInv /\ StringsInv /\ [Next]_vars => StringsInv'
  <2> SUFFICES ASSUME TInv, StringsInv, [Next]_vars PROVE StringsInv'
    OBVIOUS
  <2>1. CASE \E c \in Clients : Connect(c) \/ \E r \in Requests : Call(c, r)
    BY <2>1, BeginStrings
  <2>2. CASE \E c \in Clients : Step(c)
    BY <2>2, StepStrings
  <2>3. CASE \E c \in Clients : Crash(c)
    <3>1. PICK c \in Clients : Crash(c)
      BY <2>3
    <3>2. UNCHANGED <<call, view, meta, given, half>>
      BY <3>1 DEF Crash, storeVars, history
    <3>3. ASSUME NEW d \in Clients
          PROVE  \/ pc'[d] = pc[d] /\ staged'[d] = staged[d] /\ answer'[d] = answer[d]
                 \/ pc'[d] = "idle" /\ answer'[d].status = "none"
      BY <3>1 DEF Crash, TInv, TypeOK
    <3>. QED BY <3>2, <3>3 DEF StringsInv, Returned
  <2>4. CASE UNCHANGED vars
    BY <2>4 DEF vars, clientVars, storeVars, history, StringsInv, Returned
  <2>. QED BY <2>1, <2>2, <2>3, <2>4 DEF Next
<1>3. StringsInv => StringsAreWhole
  BY DEF StringsInv, StringsAreWhole
<1>. QED BY InitTInv, NextTInv, <1>1, <1>2, <1>3, PTL DEF Spec

(***************************************************************************)
(* Simple arrays                                                           *)
(***************************************************************************)
\* The cells of a range begin in its first rows.
LEMMA FirstRows ==
  ASSUME NEW dims \in Seq(Positive) \ {<<>>}, NEW x \in Domain(dims)
  PROVE  x[1] \in 1 .. dims[1]
<1>1. 1 \in DOMAIN dims /\ \A i \in DOMAIN dims : dims[i] \in Nat
  BY DEF Positive
<1>2. x[1] \in UNION {1 .. dims[i] : i \in DOMAIN dims} /\ x[1] <= dims[1]
  BY <1>1 DEF Domain
<1>3. PICK i \in DOMAIN dims : x[1] \in 1 .. dims[i]
  BY <1>2
<1>. QED BY <1>1, <1>2, <1>3

\* A put that fits writes.
Puts(c) ==
  /\ pc[c] = "write" /\ Fits(call[c], arrays[call[c].path])
  /\ arrays' = [arrays EXCEPT ![call[c].path].cells = Written(call[c], 1 .. call[c].dims[1])]

\* What it writes.
LEMMA WriteCells ==
  ASSUME TInv, NEW c \in Clients, Puts(c)
  PROVE  LET r == call[c]  p == call[c].path IN
         /\ r \in Requests /\ r.op = "putSimpleArray" /\ p \in Paths /\ IsArray(arrays[p])
         /\ Domain(r.dims) \subseteq Domain(arrays[p].dims)
         /\ \A q \in Paths \ {p} : arrays'[q] = arrays[q]
         /\ arrays'[p].dims = arrays[p].dims /\ arrays'[p] # Invalid
         /\ DOMAIN arrays'[p].cells = Domain(arrays[p].dims)
         /\ \A x \in Domain(arrays[p].dims) :
              arrays'[p].cells[x] = IF x \in Domain(r.dims) THEN r.value ELSE arrays[p].cells[x]
<1> DEFINE r == call[c]
           p == call[c].path
<1>1. r \in Requests /\ r.op = "putSimpleArray" /\ p \in Paths /\ r.dims \in Seq(Positive) \ {<<>>}
  BY Requested DEF Puts, TInv, CallInv
<1>2. IsArray(arrays[p])
  BY <1>1 DEF Puts, TInv, TypeOK, CallInv
<1>3. /\ arrays' = [arrays EXCEPT ![p].cells = Written(r, 1 .. r.dims[1])]
      /\ Domain(r.dims) \subseteq Domain(arrays[p].dims)
  BY DEF Puts, Fits
<1>4. /\ \A q \in Paths \ {p} : arrays'[q] = arrays[q]
      /\ arrays'[p] = [arrays[p] EXCEPT !.cells = Written(r, 1 .. r.dims[1])]
  BY <1>1, <1>3 DEF TInv, TypeOK
<1>5. /\ arrays'[p].dims = arrays[p].dims /\ arrays'[p].cells = Written(r, 1 .. r.dims[1])
      /\ arrays'[p].type = arrays[p].type
  BY <1>2, <1>4 DEF IsArray
<1>6. DOMAIN arrays[p].cells = Domain(arrays[p].dims)
  BY <1>2 DEF IsArray
<1>7. \A x \in Domain(arrays[p].dims) :
        Written(r, 1 .. r.dims[1])[x] = IF x \in Domain(r.dims) THEN r.value ELSE arrays[p].cells[x]
  BY <1>1, <1>6, FirstRows DEF Written
<1>8. DOMAIN Written(r, 1 .. r.dims[1]) = Domain(arrays[p].dims)
  BY <1>6 DEF Written
<1>9. arrays'[p] # Invalid
  BY <1>2, <1>5 DEF IsArray, ArrayTypes, NumericTypes, Invalid
<1>. QED BY <1>1, <1>2, <1>3, <1>4, <1>5, <1>7, <1>8, <1>9

\* What creating an array changes.
LEMMA CreateCells ==
  ASSUME TInv, NEW c \in Clients, Create(c), arrays' # arrays
  PROVE  LET r == call[c]  p == call[c].path IN
         /\ p \in Paths /\ arrays[p] = Invalid
         /\ \A q \in Paths \ {p} : arrays'[q] = arrays[q]
         /\ arrays'[p] = [type |-> r.type, dims |-> r.dims, cells |-> [x \in Domain(r.dims) |-> Blank]]
BY Requested DEF Create, TInv, TypeOK, CallInv

\* Only these two change arrays, and only a put its acknowledgement.
LEMMA OthersLeaveArrays ==
  ASSUME NEW c \in Clients, Step(c)
  PROVE  /\ arrays' # arrays => Create(c) \/ Write(c)
         /\ acked' # acked => Write(c)
BY DEF Step, FindScalars, CreateScalars, Stage, Close, Delete, OpenScalars, Decode, Find, Create, OpenArray,
   Query, storeVars

\* The steps of a call keep AckedArrayStays.
LEMMA StepAcked ==
  ASSUME TInv, AckedArrayStays, NEW c \in Clients, Step(c)
  PROVE  AckedArrayStays'
<1> SUFFICES ASSUME NEW p \in Paths, acked'[p] # NoAck PROVE AckedArrayStays!(p)'
  BY DEF AckedArrayStays
<1>1. CASE acked' = acked /\ arrays' = arrays
  BY <1>1 DEF AckedArrayStays
<1>2. CASE Create(c) /\ arrays' # arrays
  <2>1. acked'[p] = acked[p] /\ arrays[p] # Invalid
    BY <1>2 DEF Create, AckedArrayStays
  <2>2. arrays'[p] = arrays[p]
    BY <1>2, <2>1, CreateCells
  <2>. QED BY <2>1, <2>2 DEF AckedArrayStays
<1>3. CASE Write(c)
  <2> DEFINE r == call[c]
  <2>0. DOMAIN acked = Paths /\ r.path \in Paths
    BY <1>3, Requested DEF Write, TInv, TypeOK, CallInv
  <2>1. \/ acked' = acked /\ arrays' = arrays
        \/ Puts(c) /\ acked' = [acked EXCEPT ![r.path] = NoAck]
        \/ Puts(c) /\ acked' = [acked EXCEPT ![r.path] = [dims |-> r.dims, value |-> r.value]]
    BY <1>3 DEF Write, Puts
  <2>2. CASE p # r.path /\ Puts(c)
    <3>1. acked'[p] = acked[p]
      BY <2>0, <2>1, <2>2
    <3>2. arrays'[p] = arrays[p]
      BY <2>2, WriteCells
    <3>. QED BY <3>1, <3>2 DEF AckedArrayStays
  <2>3. CASE p = r.path /\ Puts(c) /\ acked'[p] = [dims |-> r.dims, value |-> r.value]
    <3>1. /\ arrays'[p] # Invalid /\ arrays'[p].dims = arrays[p].dims
          /\ Domain(r.dims) \subseteq Domain(arrays[p].dims)
          /\ \A x \in Domain(r.dims) : arrays'[p].cells[x] = r.value
      BY <2>3, WriteCells
    <3>2. acked'[p].dims = r.dims /\ acked'[p].value = r.value
      BY <2>3
    <3>. QED BY <3>1, <3>2
  <2>. QED BY <1>1, <2>0, <2>1, <2>2, <2>3
<1>. QED BY <1>1, <1>2, <1>3, OthersLeaveArrays

\* An array put and acknowledged keeps all of its cells until the next put of its
\* path, whoever creates or puts elsewhere, and whoever dies.
THEOREM ArrayStays == Spec => []AckedArrayStays
<1>1. Init => AckedArrayStays
  BY DEF Init, AckedArrayStays
<1>2. TInv /\ AckedArrayStays /\ [Next]_vars => AckedArrayStays'
  <2> SUFFICES ASSUME TInv, AckedArrayStays, [Next]_vars PROVE AckedArrayStays'
    OBVIOUS
  <2>1. CASE \E c \in Clients : Step(c)
    BY <2>1, StepAcked
  <2>2. CASE UNCHANGED <<arrays, acked>>
    BY <2>2 DEF AckedArrayStays
  <2>. QED BY <2>1, <2>2, Begins DEF Next, Crash, vars, storeVars, history
<1>. QED BY InitTInv, NextTInv, <1>1, <1>2, PTL DEF Spec

\* No two cells of an array hold different puts of the whole array of p.
Whole(a, p) ==
  \A x, y \in DOMAIN a.cells :
    {a.cells[x], a.cells[y]} \subseteq WholePut(p, a.dims) \cup {Blank} => a.cells[x] = a.cells[y]

\* It is so of the arrays, and of what a reader opened.
WholeInv ==
  /\ \A p \in Paths : Whole(arrays[p], p)
  /\ \A c \in Clients :
       call[c].op = "getSimpleArray" /\ (pc[c] = "query" \/ Returned(c, "getSimpleArray", "nil")) =>
         Whole(view[c], call[c].path)

\* A put keeps an array whole: it writes all of it, or values that are no whole put's.
LEMMA PutsWhole ==
  ASSUME TInv, WholeInv, NEW c \in Clients, Puts(c)
  PROVE  Whole(arrays'[call[c].path], call[c].path)
<1> DEFINE r == call[c]
           p == call[c].path
           a == arrays[p]
           b == arrays'[p]
<1>1. /\ r \in Requests /\ r.op = "putSimpleArray" /\ p \in Paths /\ IsArray(a)
      /\ b.dims = a.dims /\ DOMAIN b.cells = Domain(a.dims) /\ DOMAIN a.cells = Domain(a.dims)
      /\ \A x \in Domain(a.dims) : b.cells[x] = IF x \in Domain(r.dims) THEN r.value ELSE a.cells[x]
  BY WriteCells DEF IsArray
<1>2. Whole(a, p)
  BY <1>1 DEF WholeInv
<1>3. CASE r.dims = a.dims
  BY <1>1, <1>3 DEF Whole
<1>4. CASE r.dims # a.dims
  <2>1. r.value \notin WholePut(p, a.dims) /\ r.value # Blank
    BY <1>1, <1>4, RequestsAssumption DEF WholePut, Blank
  <2> SUFFICES ASSUME NEW x \in DOMAIN b.cells, NEW y \in DOMAIN b.cells,
                      {b.cells[x], b.cells[y]} \subseteq WholePut(p, a.dims) \cup {Blank}
               PROVE  b.cells[x] = b.cells[y]
    BY <1>1 DEF Whole
  <2>2. b.cells[x] = a.cells[x] /\ b.cells[y] = a.cells[y]
    BY <1>1, <2>1
  <2>. QED BY <1>1, <1>2, <2>2 DEF Whole
<1>. QED BY <1>3, <1>4

\* The arrays stay whole.
LEMMA StepWhole ==
  ASSUME TInv, WholeInv, NEW c \in Clients, Step(c), NEW p \in Paths
  PROVE  Whole(arrays'[p], p)
<1>1. CASE arrays' = arrays
  BY <1>1 DEF WholeInv
<1>2. CASE Create(c) /\ arrays' # arrays
  <2>1. CASE p = call[c].path
    <3>1. arrays'[p] = [type |-> call[c].type, dims |-> call[c].dims, cells |-> [x \in Domain(call[c].dims) |-> Blank]]
      BY <1>2, <2>1, CreateCells
    <3>. QED BY <3>1 DEF Whole
  <2>2. CASE p # call[c].path
    <3>1. arrays'[p] = arrays[p]
      BY <1>2, <2>2, CreateCells
    <3>. QED BY <3>1 DEF WholeInv
  <2>. QED BY <2>1, <2>2
<1>3. CASE Write(c) /\ arrays' # arrays
  <2>0. Puts(c)
    BY <1>3 DEF Write, Puts
  <2>1. CASE p = call[c].path
    BY <2>0, <2>1, PutsWhole
  <2>2. CASE p # call[c].path
    <3>1. arrays'[p] = arrays[p]
      BY <2>0, <2>2, WriteCells
    <3>. QED BY <3>1 DEF WholeInv
  <2>. QED BY <2>1, <2>2
<1>. QED BY <1>1, <1>2, <1>3, OthersLeaveArrays

\* The steps of a call keep WholeInv.
LEMMA StepWholeInv ==
  ASSUME TInv, WholeInv, NEW c \in Clients, Step(c)
  PROVE  WholeInv'
<1>0. Shapes /\ pc \in [Clients -> PCs] /\ CallInv!(c)
  BY DEF TInv, TypeOK, CallInv, Shapes
<1>1. Moves(c)
  BY StepMoves
<1>2. ASSUME NEW d \in Clients, call'[d].op = "getSimpleArray", pc'[d] = "query" \/ Returned(d, "getSimpleArray", "nil")'
      PROVE  Whole(view'[d], call'[d].path)
  <2>1. CASE d # c
    <3>1. pc'[d] = pc[d] /\ call'[d] = call[d]
      BY <1>0, <1>1, <2>1 DEF Moves
    <3>2. view'[d] = view[d] /\ answer'[d] = answer[d]
      BY <2>1, StepOfOne
    <3>. QED BY <1>2, <3>1, <3>2 DEF WholeInv, Returned
  <2>2. CASE d = c
    <3>0. call' = call
      BY <1>1 DEF Moves
    <3>1. OpenArray(c) \/ Query(c)
      BY <1>0, <1>2, <2>2, <3>0 DEF Step, FindScalars, CreateScalars, Stage, Close, Delete, OpenScalars, Decode, Find,
         Create, Write
    <3>2. CASE OpenArray(c)
      <4>1. call[c].path \in Paths
        BY <1>2, <2>2, <3>0, Requested DEF TInv
      <4>2. pc'[c] = "query" => view'[c] = arrays[call[c].path]
        BY <1>0, <3>2 DEF OpenArray, Goto, Refuse, Fault, Returns, Shapes
      <4>3. ~Returned(c, "getSimpleArray", "nil")'
        BY <1>0, <3>2 DEF OpenArray, Goto, Refuse, Fault, Returns, Shapes, Returned
      <4>. QED BY <1>2, <2>2, <3>0, <4>1, <4>2, <4>3 DEF WholeInv
    <3>3. CASE Query(c)
      BY <1>2, <2>2, <3>0, <3>3 DEF Query, WholeInv
    <3>. QED BY <3>1, <3>2, <3>3
  <2>. QED BY <2>1, <2>2
<1>. QED BY <1>2, StepWhole DEF WholeInv

\* A reader never sees a mix of puts of the whole array, for every path, dimension and
\* number of plugins.
THEOREM NeverAMix == Spec => []ArraysAreWhole
<1>1. Init => WholeInv
  <2>1. DOMAIN <<>> = {}
    OBVIOUS
  <2>. QED BY <2>1 DEF Init, WholeInv, Whole, Invalid, NoCall
<1>2. TInv /\ WholeInv /\ [Next]_vars => WholeInv'
  <2> SUFFICES ASSUME TInv, WholeInv, [Next]_vars PROVE WholeInv'
    OBVIOUS
  <2>1. CASE \E c \in Clients : Connect(c) \/ \E r \in Requests : Call(c, r)
    <3>1. UNCHANGED <<arrays, view, answer>>
      BY <2>1, Begins
    <3>2. \A d \in Clients : \/ call'[d] = call[d] /\ pc'[d] = pc[d]
                             \/ pc'[d] \notin {"idle", "query"}
      BY <2>1, Begins DEF TInv, TypeOK
    <3>. QED BY <3>1, <3>2 DEF WholeInv, Returned, Whole
  <2>2. CASE \E c \in Clients : Step(c)
    BY <2>2, StepWholeInv
  <2>3. CASE \E c \in Clients : Crash(c)
    <3>1. UNCHANGED <<arrays, view, call>>
      BY <2>3 DEF Crash, storeVars
    <3>2. \A d \in Clients : \/ answer'[d] = answer[d] /\ pc'[d] = pc[d]
                             \/ pc'[d] = "idle" /\ answer'[d].status = "none"
      BY <2>3 DEF Crash, TInv, TypeOK
    <3>. QED BY <3>1, <3>2 DEF WholeInv, Returned, Whole
  <2>4. CASE UNCHANGED vars
    BY <2>4 DEF vars, clientVars, storeVars, WholeInv, Returned, Whole
  <2>. QED BY <2>1, <2>2, <2>3, <2>4 DEF Next
<1>3. TInv /\ WholeInv => ArraysAreWhole
  BY DEF WholeInv, ArraysAreWhole, Whole, Returned
<1>. QED BY InitTInv, NextTInv, <1>1, <1>2, <1>3, PTL DEF Spec

=============================================================================
