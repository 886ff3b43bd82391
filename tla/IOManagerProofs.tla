--------------------------- MODULE IOManagerProofs ---------------------------
(***************************************************************************)
(* What the answer of an IOManager call says of the files and objects, for *)
(* any stores, data sources, requests and contents, while other plugins    *)
(* change the objects between any two of its steps.                        *)
(***************************************************************************)
EXTENDS IOManager, TLAPS

InTodo(n) == \E i \in DOMAIN todo : todo[i] = n
Fetching == pc \in {"fetch", "create", "fill"}

\* What each step knows of the call it is part of.
PhaseInv ==
  /\ pc = "read" => req.op = "get"
  /\ pc = "open" => req.op \in {"get", "copy"} /\ (req.op = "copy" => FileAt(dest) \in Objects)
  /\ pc = "write" => req.op \in {"put", "copy"} /\ FileAt(dest) \in Objects
  /\ pc \in {"open", "read", "write", "stat"} => written = {}
  /\ pc = "open" => FileAt(src) \in Objects
  /\ pc = "stat" \/ Fetching =>
       req.op = "toLocal" /\ ToLocalAllowed(req) /\ src = Reads(req) /\ FileAt(src) \in Objects
  /\ Fetching => \A i \in DOMAIN todo : FileIn(src, todo[i]) \in Objects /\ (~walking => todo[i] = "")
  /\ pc \in {"create", "fill"} => todo # <<>>
  /\ pc = "upload" =>
       /\ req.op = "toRemote" /\ Addressed(req) /\ dest = Writes(req)
       /\ \A i \in DOMAIN todo : <<req.local, todo[i]>> \in LocalFiles
       /\ req.file # "" => todo \in {<<>>, <<req.file>>}

TInv == TypeOK /\ PhaseInv

\* Where nil means that the one object of the call has been written.
NilWrites ==
  Returned("put", "nil") \/ Returned("copy", "nil")
    \/ (Returned("toRemote", "nil") /\ req.file # "" /\ IsFileStore(StoreFor(req, ToRemoteTarget(req))))
  => FileAt(dest) \in written

\* An object a call has written holds what the call stored in it, until others
\* change it; only the upload of a directory writes more than one.
StoreInv ==
  /\ req.op # "toLocal" => written \subseteq Objects
  /\ req.op \in {"get", "put", "copy"} =>
       \A o \in written : o = FileAt(dest) /\ (o \in disturbed \/ remote[o] = Sent)
  /\ req.op = "toLocal" => written \subseteq LocalFiles
  /\ req.op = "toRemote" /\ req.file # "" =>
       /\ \A o \in written : o = FileAt(dest) /\ (o \in disturbed \/ remote[o] = Bytes(<<req.local, req.file>>))
       /\ pc = "upload" /\ todo = <<>> => FileAt(dest) \in written
  /\ req.op = "toRemote" /\ req.file = "" /\ pc = "idle" /\ result.status = "error" => written = {}
  /\ NilWrites

\* The walk of an upload: what is stored comes before what is left.
PrefixInv ==
  /\ pc = "upload" /\ req.file = "" =>
       /\ \A i \in DOMAIN todo : todo[i] \in LocalNames(req)
       /\ \A i, j \in DOMAIN todo : i < j => Before(todo[i], todo[j])
       /\ \A n \in LocalNames(req) : Uploaded(n) \in written \/ InTodo(n)
       /\ \A n \in LocalNames(req) : Uploaded(n) \in written => \A i \in DOMAIN todo : Before(n, todo[i])
  /\ UploadIsPrefix

\* Only the file being filled is truncated.
TruncatedInv ==
  req.op = "toLocal" =>
    /\ pc # "idle" => \A f \in written : local[f] = Partial => pc = "fill" /\ f = Target(Head(todo))
    /\ \A f, g \in written : local[f] = Partial /\ local[g] = Partial => f = g

\* An object CopyFileToLocal answers for: of its path, there now and not changed
\* since the call began.
Due(o) ==
  /\ FileIn(src, o[3]) = o /\ remote[o] # Missing /\ o \notin disturbed
  /\ o[3] = "" => ~walking
  /\ o[3] # "" => FileAt(src) \notin disturbed /\ remote[FileAt(src)] = Missing /\ src \notin Loose
\* Where it is to be found.
Landed(o) == <<req.local, IF o[3] = "" THEN src[2] ELSE o[3]>>

\* Such an object is on disk or still to be fetched, and what was read of the
\* object being fetched is its content, unless others changed it.
CompleteInv ==
  /\ Fetching =>
       /\ FileAt(src) \in disturbed \/ remote[FileAt(src)] # Missing \/ (walking /\ ~InTodo(""))
       /\ \A o \in Objects : Due(o) => InTodo(o[3]) \/ local[Target(o[3])] = remote[o]
  /\ pc \in {"create", "fill"} =>
       reader = remote[FileIn(src, Head(todo))] \/ FileIn(src, Head(todo)) \in disturbed
  /\ Returned("toLocal", "nil") =>
       FileAt(src) \in Objects /\ \A o \in Objects : Due(o) => local[Landed(o)] = remote[o]

(***************************************************************************)
(* Walks, places and contents                                              *)
(***************************************************************************)
\* What is left of a walk after its first name.
LEMMA TailFacts ==
  ASSUME NEW q \in Seq(Names), q # <<>>
  PROVE  /\ Head(q) \in Names /\ 1 \in DOMAIN q /\ Head(q) = q[1]
         /\ Tail(q) \in Seq(Names)
         /\ \A i \in DOMAIN Tail(q) : i \in Nat \ {0} /\ i + 1 \in DOMAIN q /\ Tail(q)[i] = q[i + 1]
         /\ \A i \in DOMAIN q : q[i] = Head(q) \/ \E j \in DOMAIN Tail(q) : Tail(q)[j] = q[i]
<1>1. Tail(q) \in Seq(Names) /\ Len(Tail(q)) = Len(q) - 1 /\ Len(q) \in Nat \ {0}
  OBVIOUS
<1>2. DOMAIN Tail(q) = 1 .. Len(q) - 1 /\ DOMAIN q = 1 .. Len(q)
  BY <1>1
<1>3. Head(q) \in Names /\ 1 \in DOMAIN q /\ Head(q) = q[1]
  BY <1>1, <1>2
<1>4. \A i \in DOMAIN Tail(q) : i \in Nat \ {0} /\ i + 1 \in DOMAIN q /\ Tail(q)[i] = q[i + 1]
  BY <1>1, <1>2
<1>5. ASSUME NEW i \in DOMAIN q, i # 1 PROVE \E j \in DOMAIN Tail(q) : Tail(q)[j] = q[i]
  <2>1. i - 1 \in DOMAIN Tail(q) /\ (i - 1) + 1 = i
    BY <1>1, <1>2, <1>5
  <2>2. Tail(q)[i - 1] = q[i]
    BY <1>4, <2>1
  <2>. QED BY <2>1, <2>2
<1>. QED BY <1>1, <1>3, <1>4, <1>5

\* A walk gives the names of its directory, each of them, in order.
LEMMA WalkFacts ==
  ASSUME NEW names \in SUBSET Names, NEW s \in Walks(names)
  PROVE  /\ s \in Seq(Names)
         /\ \A i \in DOMAIN s : s[i] \in names
         /\ \A n \in names : \E i \in DOMAIN s : s[i] = n
         /\ \A i, j \in DOMAIN s : i < j => Before(s[i], s[j])
<1>1. PICK k \in 0 .. Len(WalkOrder) : s \in [1 .. k -> names]
  BY DEF Walks
<1>2. k \in Nat
  BY <1>1, WalkAssumption
<1>3. s \in Seq(Names)
  BY <1>1, <1>2
<1>4. \A i \in DOMAIN s : s[i] \in names
  BY <1>1
<1>. QED BY <1>3, <1>4 DEF Walks

\* The order of a walk is strict.
LEMMA BeforeStrict ==
  ASSUME NEW a, NEW b, Before(a, b)
  PROVE  ~Before(b, a)
<1>1. \A i \in DOMAIN WalkOrder : i \in Nat
  BY WalkAssumption
<1>. QED BY <1>1, WalkAssumption DEF Before

\* A file within a place is known by its name.
LEMMA FileFacts ==
  ASSUME NEW place, NEW a, NEW b
  PROVE  /\ FileIn(place, a) = FileIn(place, b) => a = b
         /\ FileIn(place, a)[3] = a
         /\ FileAt(place) = FileIn(place, "")
BY DEF FileIn, FileAt

\* An object is no local file.
LEMMA ObjectsAreNotFiles == Objects \cap LocalFiles = {}
<1> SUFFICES ASSUME NEW o \in Objects, o \in LocalFiles PROVE FALSE
  OBVIOUS
<1>1. o = <<o[1], o[2], o[3]>> /\ o = <<o[1], o[2]>>
  BY ShapesAssumption
<1>. QED BY <1>1

\* The names of objects and files.
LEMMA NamesFacts ==
  /\ \A o \in Objects : o[3] \in Names
  /\ \A f \in LocalFiles : f[2] \in Names
  /\ \A d, n : <<d, n>> \in LocalFiles => n \in Names
BY DEF Names

\* Contents are neither missing nor partial, and no object is partial.
LEMMA ContentFacts ==
  /\ Missing \in Stored /\ Short \in Stored /\ Partial \notin Stored
  /\ Contents \subseteq Stored /\ Missing \notin Contents
  /\ Missing # Partial /\ Short # Missing
BY ContentsAssumption DEF Stored, Missing, Partial, Short

\* Where CopyFileToLocal writes what it fetches.
LEMMA TargetType ==
  ASSUME req \in Requests, req.op = "toLocal", ToLocalAllowed(req), src = Reads(req), NEW n,
         FileIn(src, n) \in Objects
  PROVE  Target(n) \in LocalFiles
<1>1. /\ <<req.local, src[2]>> \in LocalFiles /\ <<Above[req.local], src[2]>> \in LocalFiles
      /\ \A o \in Objects : FileIn(src, o[3]) = o =>
           IF src \in Loose THEN Stray[<<req.local, o>>] \in LocalFiles
           ELSE o[3] # "" => <<req.local, o[3]>> \in LocalFiles
  BY PlacesAssumption
<1>2. FileIn(src, n)[3] = n
  BY DEF FileIn
<1>3. IF src \in Loose THEN Stray[<<req.local, FileIn(src, n)>>] \in LocalFiles
      ELSE n # "" => <<req.local, n>> \in LocalFiles
  BY <1>1, <1>2
<1>. QED BY <1>1, <1>3 DEF Target

\* Where CopyFileToRemote writes what it uploads, and what.
LEMMA UploadedType ==
  ASSUME TypeOK, req.op = "toRemote", Addressed(req), dest = Writes(req), NEW n, <<req.local, n>> \in LocalFiles
  PROVE  Uploaded(n) \in Objects /\ Bytes(<<req.local, n>>) \in Stored
<1>1. Bytes(<<req.local, n>>) \in Stored
  BY ContentFacts DEF Bytes, TypeOK
<1>2. CASE req.file # ""
  BY <1>1, <1>2, PlacesAssumption DEF TypeOK, Uploaded, FileAt
<1>3. CASE req.file = ""
  <2>1. \A f \in LocalFiles : f[1] = req.local => FileIn(dest, f[2]) \in Objects
    BY <1>3, PlacesAssumption DEF TypeOK
  <2>2. <<req.local, n>>[1] = req.local /\ <<req.local, n>>[2] = n
    OBVIOUS
  <2>3. FileIn(dest, n) \in Objects
    BY <2>1, <2>2
  <2>. QED BY <1>1, <1>3, <2>3 DEF Uploaded
<1>. QED BY <1>2, <1>3

(***************************************************************************)
(* Types                                                                   *)
(***************************************************************************)
Result == [status : {"none", "nil", "error"}, data : Stored \cup {Partial}]

\* The initial states have their types.
LEMMA InitTInv == Init => TInv
<1> SUFFICES ASSUME Init PROVE TInv
  OBVIOUS
<1>1. req \in Requests
  BY RequestsAssumption DEF Init
<1>2. remote \in [Objects -> Stored] /\ local \in [LocalFiles -> Stored \cup {Partial}]
  BY ContentsAssumption DEF Init
<1>3. todo \in Seq(Names)
  <2>1. <<>> \in Seq(Names)
    OBVIOUS
  <2>. QED BY <2>1 DEF Init
<1>4. reader \in Stored /\ result \in [status : {"none", "nil", "error"}, data : Stored \cup {Partial}]
  BY ContentFacts DEF Init
<1>5. TypeOK
  <2>1. calls \in 0 .. MaxCalls /\ changes \in 0 .. MaxChanges
    <3>1. calls = 0 /\ changes = 0
      BY DEF Init
    <3>. QED BY <3>1, BoundsAssumption
  <2>2. pc \in PCs /\ walking \in BOOLEAN /\ disturbed \subseteq Objects /\ written \subseteq Objects \cup LocalFiles
    BY DEF Init, PCs
  <2>. QED BY <1>1, <1>2, <1>3, <1>4, <2>1, <2>2 DEF TypeOK
<1>6. PhaseInv
  BY DEF Init, PhaseInv, Fetching
<1>. QED BY <1>5, <1>6 DEF TInv

\* At first no call has answered anything.
LEMMA InitFacts == Init => written = {} /\ pc = "idle" /\ result.status = "none"
<1> SUFFICES ASSUME Init PROVE written = {} /\ pc = "idle" /\ result.status = "none"
  OBVIOUS
<1>1. written = {} /\ pc = "idle" /\ result = [status |-> "none", data |-> Missing]
  BY DEF Init
<1>. QED BY <1>1

\* What a call may leave as its result.
LEMMA ReturnsType ==
  ASSUME NEW e \in {"none", "nil", "error"}, Returns(e)
  PROVE  pc' = "idle" /\ result' \in Result
BY ContentFacts DEF Returns, Result

\* A call that begins.
LEMMA BeginTypes ==
  ASSUME TInv, NEW r \in Requests, Begin(r), pc' \in PCs, todo' \in Seq(Names), result' \in Result
  PROVE  TypeOK'
<1>1. calls' \in 0 .. MaxCalls
  BY BoundsAssumption DEF Begin, TInv, TypeOK
<1>. QED BY <1>1, ContentFacts DEF Begin, TInv, TypeOK, Result

\* A call that is turned down.
LEMMA RejectedTInv ==
  ASSUME TInv, NEW r \in Requests, Begin(r), Returns("error"), todo' = todo
  PROVE  TInv'
<1>1. pc' = "idle" /\ result' \in Result
  BY ReturnsType
<1>2. TypeOK'
  BY <1>1, BeginTypes DEF TInv, TypeOK, PCs
<1>3. PhaseInv'
  BY <1>1 DEF PhaseInv, Fetching
<1>. QED BY <1>2, <1>3 DEF TInv

\* A call that starts knows its places.
LEMMA CallTInv ==
  ASSUME TInv, NEW r \in Requests, Call(r)
  PROVE  TInv'
<1>1. result \in Result /\ todo \in Seq(Names)
  BY DEF TInv, TypeOK, Result
<1>2. CASE Get(r)
  <2>1. CASE Rejected(r, "get", GetAllowed(r))
    BY <2>1, RejectedTInv DEF Rejected
  <2>2. CASE Started(r, "get", GetAllowed(r), "open") /\ src' = Reads(r) /\ UNCHANGED <<dest, todo>>
    <3>1. /\ r.op = "get" /\ req' = r /\ pc' = "open" /\ written' = {} /\ UNCHANGED <<result, todo>>
          /\ FileAt(src') \in Objects
      BY <2>2, PlacesAssumption DEF Started, Begin
    <3>2. TypeOK'
      BY <1>1, <2>2, <3>1, BeginTypes DEF Started, PCs
    <3>3. PhaseInv'
      BY <3>1 DEF PhaseInv, Fetching, FileAt, FileIn
    <3>. QED BY <3>2, <3>3 DEF TInv
  <2>. QED BY <1>2, <2>1, <2>2 DEF Get
<1>3. CASE Put(r)
  <2>1. CASE Rejected(r, "put", PutAllowed(r))
    BY <2>1, RejectedTInv DEF Rejected
  <2>2. CASE Started(r, "put", PutAllowed(r), "write") /\ dest' = Writes(r) /\ UNCHANGED <<src, todo>>
    <3>1. /\ r.op = "put" /\ req' = r /\ pc' = "write" /\ written' = {} /\ UNCHANGED <<result, todo>>
          /\ FileAt(dest') \in Objects
      BY <2>2, PlacesAssumption DEF Started, Begin
    <3>2. TypeOK'
      BY <1>1, <2>2, <3>1, BeginTypes DEF Started, PCs
    <3>3. PhaseInv'
      BY <3>1 DEF PhaseInv, Fetching, FileAt, FileIn
    <3>. QED BY <3>2, <3>3 DEF TInv
  <2>. QED BY <1>3, <2>1, <2>2 DEF Put
<1>4. CASE Copy(r)
  <2>1. CASE Rejected(r, "copy", CopyAllowed(r))
    BY <2>1, RejectedTInv DEF Rejected
  <2>2. CASE Started(r, "copy", CopyAllowed(r), "open") /\ src' = Reads(r) /\ dest' = Writes(r) /\ UNCHANGED todo
    <3>1. /\ r.op = "copy" /\ req' = r /\ pc' = "open" /\ written' = {} /\ UNCHANGED <<result, todo>>
          /\ FileAt(src') \in Objects /\ FileAt(dest') \in Objects
      BY <2>2, PlacesAssumption DEF Started, Begin
    <3>2. TypeOK'
      BY <1>1, <2>2, <3>1, BeginTypes DEF Started, PCs
    <3>3. PhaseInv'
      BY <3>1 DEF PhaseInv, Fetching, FileAt, FileIn
    <3>. QED BY <3>2, <3>3 DEF TInv
  <2>. QED BY <1>4, <2>1, <2>2 DEF Copy
<1>5. CASE CopyFileToLocal(r)
  <2>1. CASE Rejected(r, "toLocal", ToLocalAllowed(r))
    BY <2>1, RejectedTInv DEF Rejected
  <2>2. CASE Started(r, "toLocal", ToLocalAllowed(r), "stat") /\ src' = Reads(r) /\ UNCHANGED <<dest, todo>>
    <3>1. /\ r.op = "toLocal" /\ req' = r /\ pc' = "stat" /\ written' = {} /\ UNCHANGED <<result, todo>>
          /\ FileAt(src') \in Objects /\ ToLocalAllowed(r)
      BY <2>2, PlacesAssumption DEF Started, Begin
    <3>2. TypeOK'
      BY <1>1, <2>2, <3>1, BeginTypes DEF Started, PCs
    <3>3. ToLocalAllowed(req)' /\ src' = Reads(req)'
      <4>1. ToLocalAllowed(req)' = ToLocalAllowed(r) /\ Reads(req)' = Reads(r)
        BY <3>1 DEF ToLocalAllowed, ToLocalSource, OnFileStore, HasStore, StoreFor, Reads, GetSource, CopySource, Given, Place
      <4>. QED BY <2>2, <3>1, <4>1
    <3>4. PhaseInv'
      BY <3>1, <3>3 DEF PhaseInv, Fetching, FileAt, FileIn
    <3>. QED BY <3>2, <3>4 DEF TInv
  <2>. QED BY <1>5, <2>1, <2>2 DEF CopyFileToLocal
<1>6. CASE CopyFileToRemote(r)
  <2>1. CASE Rejected(r, "toRemote", Addressed(r) /\ OnDisk(r))
    BY <2>1, RejectedTInv DEF Rejected
  <2>2. CASE /\ r.op = "toRemote" /\ Addressed(r) /\ MayExist(r) /\ Begin(r) /\ dest' = Writes(r)
             /\ todo' \in IF r.file # "" THEN {<<r.file>>} ELSE Walks(LocalNames(r))
             /\ UNCHANGED src
             /\ (pc' = "upload" /\ UNCHANGED result) \/ Returns("nil")
    <3>1. req' = r /\ written' = {} /\ pc' \in {"idle", "upload"} /\ result' \in Result
      BY <1>1, <2>2, ReturnsType DEF Begin
    <3>2. todo' \in Seq(Names) /\ (\A i \in DOMAIN todo' : <<r.local, todo'[i]>> \in LocalFiles)
          /\ (r.file # "" => todo' = <<r.file>>)
      <4>1. CASE r.file # ""
        <5>1. PICK f \in LocalFiles : f[1] = r.local /\ f[2] = r.file
          BY <2>2, <4>1 DEF MayExist, OnDisk
        <5>2. <<r.local, r.file>> \in LocalFiles
          BY <5>1, ShapesAssumption
        <5>3. r.file \in Names
          BY <5>2, NamesFacts
        <5>4. todo' = <<r.file>>
          BY <2>2, <4>1
        <5>. QED BY <5>2, <5>3, <5>4
      <4>2. CASE r.file = ""
        <5>1. LocalNames(r) \subseteq Names
          BY NamesFacts DEF LocalNames
        <5>2. \A n \in LocalNames(r) : <<r.local, n>> \in LocalFiles
          BY ShapesAssumption DEF LocalNames
        <5>3. todo' \in Walks(LocalNames(r))
          BY <2>2, <4>2
        <5>4. todo' \in Seq(Names) /\ \A i \in DOMAIN todo' : todo'[i] \in LocalNames(r)
          BY <5>1, <5>3, WalkFacts
        <5>. QED BY <4>2, <5>2, <5>4
      <4>. QED BY <4>1, <4>2
    <3>3. TypeOK'
      BY <2>2, <3>1, <3>2, BeginTypes DEF PCs
    <3>4. Addressed(req)' = Addressed(r) /\ Writes(req)' = Writes(r)
      BY <3>1 DEF Addressed, HasStore, ToRemoteTarget, Writes, PutSource, CopyDest, Place, StoreFor, Given
    <3>5. PhaseInv'
      <4>1. /\ pc' = "upload" => /\ req'.op = "toRemote" /\ Addressed(req)' /\ dest' = Writes(req)'
                                 /\ \A i \in DOMAIN todo' : <<req'.local, todo'[i]>> \in LocalFiles
                                 /\ req'.file # "" => todo' \in {<<>>, <<req'.file>>}
            /\ ~Fetching'
        BY <2>2, <3>1, <3>2, <3>4 DEF Fetching
      <4>. QED BY <3>1, <4>1 DEF PhaseInv
    <3>. QED BY <3>3, <3>5 DEF TInv
  <2>. QED BY <1>6, <2>1, <2>2 DEF CopyFileToRemote
<1>. QED BY <1>2, <1>3, <1>4, <1>5, <1>6 DEF Call

\* A step that ends the call and may change what is stored.
LEMMA ReturnTInv ==
  ASSUME TInv, pc' = "idle", result' \in Result, todo' \in Seq(Names), reader' = reader,
         UNCHANGED <<request, disturbed, changes>>, walking' \in BOOLEAN,
         remote' \in [Objects -> Stored], local' = local, written' \subseteq Objects \cup LocalFiles
  PROVE  TInv'
<1>1. TypeOK'
  BY DEF TInv, TypeOK, PCs, Result, request
<1>2. PhaseInv'
  BY DEF PhaseInv, Fetching
<1>. QED BY <1>1, <1>2 DEF TInv

\* The steps of Get, Put and Copy.
LEMMA StreamTInv ==
  ASSUME TInv, Open \/ Read \/ Write
  PROVE  TInv'
<1>0. /\ result \in Result /\ todo \in Seq(Names) /\ remote \in [Objects -> Stored] /\ reader \in Stored
      /\ req \in Requests
  BY DEF TInv, TypeOK, Result
<1>1. CASE Open
  <2>1. CASE remote[FileAt(src)] # Missing /\ reader' = remote[FileAt(src)] /\ UNCHANGED result
             /\ pc' = IF req.op = "get" THEN "read" ELSE "write"
    <3>1. reader' \in Stored /\ pc' \in {"read", "write"} /\ UNCHANGED <<request, walking, todo, world>>
      BY <1>0, <1>1, <2>1 DEF Open, TInv, PhaseInv
    <3>2. TypeOK'
      BY <2>1, <3>1 DEF TInv, TypeOK, PCs, request, world
    <3>3. PhaseInv'
      BY <1>1, <2>1, <3>1 DEF Open, TInv, PhaseInv, Fetching, request, world, FileAt, FileIn
    <3>. QED BY <3>2, <3>3 DEF TInv
  <2>2. CASE Returns("error") /\ UNCHANGED reader
    <3>1. pc' = "idle" /\ result' \in Result
      BY <2>2, ReturnsType
    <3>. QED BY <1>0, <1>1, <2>2, <3>1, ReturnTInv DEF Open, TInv, TypeOK, world
  <2>. QED BY <1>1, <2>1, <2>2 DEF Open
<1>2. CASE Read
  <2>1. result' \in Result
    BY <1>0, <1>2 DEF Read, Result
  <2>. QED BY <1>0, <1>2, <2>1, ReturnTInv DEF Read, TInv, TypeOK, world
<1>3. CASE Write
  <2>1. pc' = "idle" /\ result' \in Result
    BY <1>3, ReturnsType DEF Write
  <2>2. Sent \in Stored /\ FileAt(dest) \in Objects
    BY <1>0, <1>3, ContentFacts, RequestsAssumption DEF Write, Sent, TInv, PhaseInv
  <2>3. remote' \in [Objects -> Stored] /\ written' \subseteq Objects \cup LocalFiles
    BY <1>0, <1>3, <2>2 DEF Write, TInv, TypeOK
  <2>. QED BY <1>0, <1>3, <2>1, <2>3, ReturnTInv DEF Write, TInv, TypeOK
<1>. QED BY <1>1, <1>2, <1>3

\* A step of a fetch: what is left are objects of the path.
LEMMA FetchingTInv ==
  ASSUME TInv, req.op = "toLocal", ToLocalAllowed(req), src = Reads(req), FileAt(src) \in Objects,
         UNCHANGED <<request, result, remote, disturbed, changes>>,
         pc' \in {"fetch", "create", "fill"}, pc' = "fetch" \/ todo' # <<>>,
         walking' \in BOOLEAN, reader' \in Stored, todo' \in Seq(Names),
         local' \in [LocalFiles -> Stored \cup {Partial}], written' \subseteq Objects \cup LocalFiles,
         \A i \in DOMAIN todo' : FileIn(src, todo'[i]) \in Objects /\ (~walking' => todo'[i] = "")
  PROVE  TInv'
<1>1. TypeOK'
  BY DEF TInv, TypeOK, PCs, request
<1>2. ToLocalAllowed(req)' /\ src' = Reads(req)' /\ FileAt(src)' \in Objects /\ req' = req
  <2>1. req' = req /\ src' = src
    BY DEF request
  <2>2. ToLocalAllowed(req)' = ToLocalAllowed(req) /\ Reads(req)' = Reads(req) /\ FileAt(src)' = FileAt(src)
    BY <2>1
    DEF ToLocalAllowed, ToLocalSource, OnFileStore, HasStore, StoreFor, Reads, GetSource, CopySource, Given,
        Place, FileAt, FileIn
  <2>. QED BY <2>1, <2>2
<1>3. \A i \in DOMAIN todo' : FileIn(src', todo'[i]) \in Objects
  BY DEF request, FileIn
<1>4. PhaseInv'
  BY <1>2, <1>3 DEF PhaseInv, Fetching
<1>. QED BY <1>1, <1>4 DEF TInv

\* The steps of CopyFileToLocal.
LEMMA FetchStepTInv ==
  ASSUME TInv, Stat \/ Fetch \/ Create \/ Fill \/ WalkEnds
  PROVE  TInv'
<1>0. /\ result \in Result /\ todo \in Seq(Names) /\ remote \in [Objects -> Stored] /\ reader \in Stored
      /\ req \in Requests /\ local \in [LocalFiles -> Stored \cup {Partial}] /\ walking \in BOOLEAN
      /\ written \subseteq Objects \cup LocalFiles
  BY DEF TInv, TypeOK, Result
<1>1. /\ req.op = "toLocal" /\ ToLocalAllowed(req) /\ src = Reads(req) /\ FileAt(src) \in Objects
      /\ pc # "stat" => \A i \in DOMAIN todo : FileIn(src, todo[i]) \in Objects /\ (~walking => todo[i] = "")
  BY DEF Stat, Fetch, Create, Fill, WalkEnds, TInv, PhaseInv, Fetching
<1>2. todo # <<>> /\ pc # "stat" => Head(todo) \in Names /\ FileIn(src, Head(todo)) \in Objects
                      /\ Target(Head(todo)) \in LocalFiles
  BY <1>0, <1>1, TailFacts, TargetType
<1>3. ASSUME Returns("error") \/ Returns("nil"), UNCHANGED <<request, reader, world>>, todo' = todo, walking' \in BOOLEAN
      PROVE  TInv'
  <2>1. pc' = "idle" /\ result' \in Result
    BY <1>3, ReturnsType
  <2>. QED BY <1>0, <1>3, <2>1, ReturnTInv DEF world
<1>4. CASE Stat
  <2>1. CASE remote[FileAt(src)] # Missing /\ walking' = FALSE /\ todo' = <<"">> /\ pc' = "fetch" /\ UNCHANGED result
    <3>1. "" \in Names
      <4>1. FileAt(src)[3] = ""
        BY DEF FileAt, FileIn
      <4>. QED BY <1>1, <4>1, NamesFacts
    <3>2. todo' \in Seq(Names) /\ DOMAIN todo' = {1} /\ todo'[1] = ""
      <4> DEFINE n == ""
      <4>1. todo' = <<n>> /\ n \in Names
        BY <2>1, <3>1
      <4> HIDE DEF n
      <4>2. todo' \in Seq(Names) /\ DOMAIN todo' = {1} /\ todo'[1] = n
        BY <4>1
      <4>. QED BY <4>2 DEF n
    <3>3. FileIn(src, "") \in Objects
      BY <1>1 DEF FileAt
    <3>. QED BY <1>0, <1>1, <1>4, <2>1, <3>2, <3>3, FetchingTInv DEF Stat, world
  <2>2. CASE walking' = TRUE /\ todo' \in Walks(Under(src)) /\ pc' = "fetch" /\ UNCHANGED result
    <3>1. Under(src) \subseteq Names /\ \A n \in Under(src) : FileIn(src, n) \in Objects
      BY NamesFacts DEF Under
    <3>2. todo' \in Seq(Names) /\ \A i \in DOMAIN todo' : todo'[i] \in Under(src)
      BY <2>2, <3>1, WalkFacts
    <3>. QED BY <1>0, <1>1, <1>4, <2>2, <3>1, <3>2, FetchingTInv DEF Stat, world
  <2>3. CASE walking' = TRUE /\ Returns("error") /\ UNCHANGED todo
    BY <1>3, <1>4, <2>3 DEF Stat
  <2>. QED BY <1>4, <2>1, <2>2, <2>3 DEF Stat
<1>5. CASE Fetch
  <2>0. pc = "fetch" /\ todo # <<>> /\ UNCHANGED <<request, walking, todo, world>>
    BY <1>5 DEF Fetch
  <2>1. CASE reader' = remote[FileIn(src, Head(todo))] /\ pc' = "create" /\ UNCHANGED result
    <3>1. reader' \in Stored
      BY <1>0, <1>2, <2>0, <2>1
    <3>. QED BY <1>0, <1>1, <2>0, <2>1, <3>1, FetchingTInv DEF world
  <2>2. CASE Returns("error") /\ UNCHANGED reader
    BY <1>0, <1>3, <2>0, <2>2
  <2>. QED BY <1>5, <2>1, <2>2 DEF Fetch
<1>6. CASE Create
  <2>0. pc = "create" /\ todo # <<>> /\ UNCHANGED <<request, walking, todo, reader, remote, disturbed, changes>>
    BY <1>6 DEF Create, TInv, PhaseInv
  <2>1. CASE /\ local' = [local EXCEPT ![Target(Head(todo))] = Partial]
             /\ written' = written \cup {Target(Head(todo))}
             /\ pc' = "fill" /\ UNCHANGED result
    <3>1. local' \in [LocalFiles -> Stored \cup {Partial}] /\ written' \subseteq Objects \cup LocalFiles
      BY <1>0, <1>2, <2>0, <2>1
    <3>. QED BY <1>0, <1>1, <2>0, <2>1, <3>1, FetchingTInv
  <2>2. CASE Returns("error") /\ UNCHANGED <<local, written>>
    BY <1>0, <1>3, <2>0, <2>2 DEF world
  <2>. QED BY <1>6, <2>1, <2>2 DEF Create
<1>7. CASE Fill
  <2>0. pc = "fill" /\ todo # <<>> /\ UNCHANGED <<request, walking, reader, remote, disturbed, written, changes>>
    BY <1>7 DEF Fill, TInv, PhaseInv
  <2>1. CASE /\ local' = [local EXCEPT ![Target(Head(todo))] = reader]
             /\ todo' = Tail(todo) /\ pc' = "fetch" /\ UNCHANGED result
    <3>1. local' \in [LocalFiles -> Stored \cup {Partial}]
      BY <1>0, <1>2, <2>0, <2>1
    <3>2. todo' \in Seq(Names) /\ \A i \in DOMAIN todo' : i + 1 \in DOMAIN todo /\ todo'[i] = todo[i + 1]
      BY <1>0, <2>0, <2>1, TailFacts
    <3>. QED BY <1>0, <1>1, <2>0, <2>1, <3>1, <3>2, FetchingTInv
  <2>2. CASE Returns("error") /\ UNCHANGED <<local, todo>>
    BY <1>0, <1>3, <2>0, <2>2 DEF world
  <2>. QED BY <1>7, <2>1, <2>2 DEF Fill
<1>8. CASE WalkEnds
  BY <1>0, <1>3, <1>8 DEF WalkEnds
<1>. QED BY <1>4, <1>5, <1>6, <1>7, <1>8

\* The places of a call depend on its request only.
LEMMA SameRequest ==
  ASSUME UNCHANGED request
  PROVE  /\ req' = req /\ src' = src /\ dest' = dest
         /\ ToLocalAllowed(req)' = ToLocalAllowed(req) /\ Addressed(req)' = Addressed(req)
         /\ Reads(req)' = Reads(req) /\ Writes(req)' = Writes(req)
         /\ FileAt(src)' = FileAt(src) /\ FileAt(dest)' = FileAt(dest)
         /\ \A n : FileIn(src', n) = FileIn(src, n) /\ FileIn(dest', n) = FileIn(dest, n)
<1>1. req' = req /\ src' = src /\ dest' = dest
  BY DEF request
<1>. QED
  BY <1>1
  DEF ToLocalAllowed, ToLocalSource, OnFileStore, HasStore, StoreFor, Reads, GetSource, CopySource, Given,
      Place, FileAt, FileIn, Addressed, ToRemoteTarget, Writes, PutSource, CopyDest

\* The upload of a file or of a directory.
LEMMA UploadTInv ==
  ASSUME TInv, Upload \/ UploadEnds
  PROVE  TInv'
<1>0. /\ result \in Result /\ todo \in Seq(Names) /\ remote \in [Objects -> Stored]
      /\ written \subseteq Objects \cup LocalFiles /\ walking \in BOOLEAN
  BY DEF TInv, TypeOK, Result
<1>1. /\ pc = "upload" /\ req.op = "toRemote" /\ Addressed(req) /\ dest = Writes(req)
      /\ \A i \in DOMAIN todo : <<req.local, todo[i]>> \in LocalFiles
      /\ req.file # "" => todo \in {<<>>, <<req.file>>}
  BY DEF Upload, UploadEnds, TInv, PhaseInv
<1>2. CASE UploadEnds
  <2>1. pc' = "idle" /\ result' \in Result
    BY <1>2, ReturnsType DEF UploadEnds
  <2>. QED BY <1>0, <1>2, <2>1, ReturnTInv DEF UploadEnds, world
<1>3. CASE Upload
  <2>1. Uploaded(Head(todo)) \in Objects /\ Bytes(<<req.local, Head(todo)>>) \in Stored
    BY <1>0, <1>1, <1>3, TailFacts, UploadedType DEF Upload, TInv
  <2>2. /\ remote' \in [Objects -> Stored] /\ written' \subseteq Objects \cup LocalFiles
        /\ UNCHANGED <<request, walking, reader, local, disturbed, changes>>
    BY <1>0, <1>3, <2>1 DEF Upload
  <2>3. CASE UploadFails
    <3>1. pc' = "idle" /\ result' \in Result /\ todo' = todo
      BY <2>3, ReturnsType DEF UploadFails
    <3>. QED BY <1>0, <2>2, <3>1, ReturnTInv
  <2>4. CASE todo' = Tail(todo) /\ UNCHANGED <<pc, result>>
    <3>1. todo' \in Seq(Names) /\ \A i \in DOMAIN todo' : i + 1 \in DOMAIN todo /\ todo'[i] = todo[i + 1]
      BY <1>0, <1>3, <2>4, TailFacts DEF Upload
    <3>2. TypeOK'
      BY <2>2, <2>4, <3>1 DEF TInv, TypeOK, request
    <3>3. req.file # "" => todo' = <<>>
      <4>1. Tail(<<req.file>>) = <<>>
        OBVIOUS
      <4>. QED BY <1>1, <1>3, <2>4, <4>1 DEF Upload
    <3>4. PhaseInv'
      BY <1>1, <2>2, <2>4, <3>1, <3>3, SameRequest DEF PhaseInv, Fetching
    <3>. QED BY <3>2, <3>4 DEF TInv
  <2>. QED BY <1>3, <2>3, <2>4 DEF Upload
<1>. QED BY <1>2, <1>3

\* Another plugin's change.
LEMMA RemoteChangeTInv ==
  ASSUME TInv, NEW o \in Objects, NEW c \in Contents \cup {Missing}, RemoteChange(o, c)
  PROVE  TInv'
<1>1. /\ UNCHANGED <<pc, request, walking, todo, reader, result, local, written>>
      /\ remote' = [remote EXCEPT ![o] = c] /\ disturbed' = disturbed \cup {o} /\ c \in Stored
  BY ContentFacts DEF RemoteChange
<1>2. changes' \in 0 .. MaxChanges
  BY BoundsAssumption DEF RemoteChange, TInv, TypeOK
<1>3. TypeOK'
  BY <1>1, <1>2 DEF TInv, TypeOK, request
<1>4. PhaseInv'
  BY <1>1, SameRequest DEF TInv, PhaseInv, Fetching
<1>. QED BY <1>3, <1>4 DEF TInv

\* The inductive step.
LEMMA NextTInv == TInv /\ [Next]_vars => TInv'
<1> SUFFICES ASSUME TInv, [Next]_vars PROVE TInv'
  OBVIOUS
<1>1. ASSUME NEW r \in Requests, Call(r) PROVE TInv'
  BY <1>1, CallTInv
<1>2. CASE Step
  BY <1>2, StreamTInv, FetchStepTInv, UploadTInv DEF Step
<1>3. ASSUME NEW o \in Objects, NEW c \in Contents \cup {Missing}, RemoteChange(o, c) PROVE TInv'
  BY <1>3, RemoteChangeTInv
<1>4. CASE UNCHANGED vars
  <2>1. TypeOK'
    BY <1>4 DEF vars, TInv, TypeOK
  <2>2. PhaseInv'
    BY <1>4, SameRequest DEF vars, request, TInv, PhaseInv, Fetching
  <2>. QED BY <2>1, <2>2 DEF TInv
<1>. QED BY <1>1, <1>2, <1>3, <1>4 DEF Next

\* The types, and what each step of a call relies on: an object is never left
\* half written, and a step reads and writes only where its request says.
THEOREM TypesInductive == Spec => []TInv
<1>1. Init => TInv
  BY InitTInv
<1>2. TInv /\ [Next]_vars => TInv'
  BY NextTInv
<1>. QED BY <1>1, <1>2, PTL DEF Spec

\* Whatever the calls do, an object is whole; only local files are truncated.
THEOREM TypeCorrect == Spec => []TypeOK
<1>1. TInv => TypeOK
  BY DEF TInv
<1>. QED BY <1>1, TypesInductive, PTL

(***************************************************************************)
(* What an answer says of the store                                        *)
(***************************************************************************)
\* A step of a call that has written nothing.
LEMMA NothingWritten ==
  ASSUME written' = {},
         ~(pc' = "upload" /\ todo' = <<>> /\ req'.op = "toRemote" /\ req'.file # ""),
         NilWrites'
  PROVE  StoreInv'
<1>1. ~(req'.op = "toRemote" /\ req'.file # "" /\ pc' = "upload" /\ todo' = <<>>)
  OBVIOUS
<1>. QED BY <1>1 DEF StoreInv

\* What a return leaves.
LEMMA ReturnsStatus ==
  ASSUME NEW e, Returns(e)
  PROVE  pc' = "idle" /\ result'.status = e
BY DEF Returns

\* A call that begins.
LEMMA CallStoreInv ==
  ASSUME TInv, NEW r \in Requests, Call(r)
  PROVE  StoreInv'
<1>1. written' = {} /\ req' = r
  BY DEF Call, Get, Put, Copy, CopyFileToLocal, CopyFileToRemote, Rejected, Started, Begin
<1>2. CASE pc' \in {"open", "write", "stat"} \/ (pc' = "idle" /\ result'.status = "error")
  BY <1>1, <1>2, NothingWritten DEF NilWrites, Returned
<1>3. CASE /\ r.op = "toRemote" /\ todo' \in IF r.file # "" THEN {<<r.file>>} ELSE Walks(LocalNames(r))
           /\ \/ pc' = "upload"
              \/ pc' = "idle" /\ ~IsFileStore(StoreFor(r, ToRemoteTarget(r)))
  <2>1. NilWrites'
    <3>1. IsFileStore(StoreFor(req, ToRemoteTarget(req)))' = IsFileStore(StoreFor(r, ToRemoteTarget(r)))
      BY <1>1 DEF IsFileStore, StoreFor, ToRemoteTarget
    <3>. QED BY <1>1, <1>3, <3>1 DEF NilWrites, Returned
  <2>2. r.file # "" => todo' # <<>>
    <3>1. <<r.file>> # <<>>
      OBVIOUS
    <3>. QED BY <1>3, <3>1
  <2>. QED BY <1>1, <2>1, <2>2, NothingWritten
<1>4. \/ pc' \in {"open", "write", "stat"} \/ (pc' = "idle" /\ result'.status = "error")
      \/ /\ r.op = "toRemote" /\ todo' \in IF r.file # "" THEN {<<r.file>>} ELSE Walks(LocalNames(r))
         /\ \/ pc' = "upload"
            \/ pc' = "idle" /\ ~IsFileStore(StoreFor(r, ToRemoteTarget(r)))
  BY ReturnsStatus DEF Call, Get, Put, Copy, CopyFileToLocal, CopyFileToRemote, Rejected, Started
<1>. QED BY <1>2, <1>3, <1>4

\* Get, Put and Copy: one PutObject at most, of all they were given or had read.
LEMMA StreamStoreInv ==
  ASSUME TInv, StoreInv, Open \/ Read \/ Write
  PROVE  StoreInv'
<1>1. CASE Open \/ Read
  <2>1. /\ written' = {} /\ pc' # "upload" /\ req' = req
        /\ pc' = "idle" => result'.status = "error" \/ req.op = "get"
    <3>1. UNCHANGED <<request, world>> /\ written = {}
      BY <1>1 DEF Open, Read, TInv, PhaseInv
    <3>2. pc' # "upload" /\ (pc' = "idle" => result'.status = "error" \/ req.op = "get")
      BY <1>1, ReturnsStatus DEF Open, Read, TInv, PhaseInv
    <3>. QED BY <3>1, <3>2 DEF request, world
  <2>. QED BY <2>1, NothingWritten DEF NilWrites, Returned
<1>2. CASE Write
  <2>1. /\ req.op \in {"put", "copy"} /\ FileAt(dest) \in Objects /\ written = {} /\ pc' = "idle"
        /\ req' = req /\ FileAt(dest)' = FileAt(dest) /\ Sent' = Sent
    BY <1>2, SameRequest DEF Write, Returns, TInv, PhaseInv, Sent
  <2>2. CASE remote' = [remote EXCEPT ![FileAt(dest)] = Sent] /\ written' = {FileAt(dest)}
    <3>1. remote'[FileAt(dest)] = Sent
      BY <2>1, <2>2 DEF TInv, TypeOK
    <3>. QED BY <2>1, <2>2, <3>1 DEF StoreInv, NilWrites, Returned
  <2>3. CASE Returns("error") /\ UNCHANGED <<remote, written>>
    BY <2>1, <2>3, NothingWritten DEF NilWrites, Returned, Returns
  <2>. QED BY <1>2, <2>2, <2>3 DEF Write
<1>. QED BY <1>1, <1>2

\* CopyFileToLocal stores nothing.
LEMMA FetchStoreInv ==
  ASSUME TInv, StoreInv, Stat \/ Fetch \/ Create \/ Fill \/ WalkEnds
  PROVE  StoreInv'
<1>1. req' = req /\ req.op = "toLocal"
  BY DEF Stat, Fetch, Create, Fill, WalkEnds, request, TInv, PhaseInv, Fetching
<1>2. pc = "create" => Target(Head(todo)) \in LocalFiles
  <2> SUFFICES ASSUME pc = "create" PROVE Target(Head(todo)) \in LocalFiles
    OBVIOUS
  <2>1. /\ ToLocalAllowed(req) /\ src = Reads(req) /\ todo # <<>> /\ todo \in Seq(Names) /\ req \in Requests
        /\ \A i \in DOMAIN todo : FileIn(src, todo[i]) \in Objects
    BY DEF TInv, TypeOK, PhaseInv, Fetching
  <2>. QED BY <1>1, <2>1, TailFacts, TargetType
<1>3. written' \subseteq LocalFiles
  BY <1>1, <1>2 DEF Stat, Fetch, Create, Fill, WalkEnds, world, StoreInv
<1>. QED BY <1>1, <1>3 DEF StoreInv, NilWrites, Returned

\* The upload of one file is one PutObject; that of a directory returns no error.
LEMMA UploadStoreInv ==
  ASSUME TInv, StoreInv, Upload \/ UploadEnds
  PROVE  StoreInv'
<1>1. /\ req.op = "toRemote" /\ req' = req /\ FileAt(dest)' = FileAt(dest) /\ pc = "upload"
      /\ Bytes(<<req.local, req.file>>)' = Bytes(<<req.local, req.file>>)
      /\ disturbed' = disturbed
  BY SameRequest DEF Upload, UploadEnds, Bytes, world, TInv, PhaseInv
<1>0. Upload => /\ Uploaded(Head(todo)) \in Objects
                /\ written' \in {written, written \cup {Uploaded(Head(todo))}}
  <2> SUFFICES ASSUME Upload PROVE Uploaded(Head(todo)) \in Objects
    BY DEF Upload
  <2>1. todo \in Seq(Names) /\ todo # <<>>
    BY DEF Upload, TInv, TypeOK
  <2>2. <<req.local, Head(todo)>> \in LocalFiles /\ Addressed(req) /\ dest = Writes(req)
    BY <1>1, <2>1, TailFacts DEF TInv, PhaseInv
  <2>. QED BY <1>1, <2>2, UploadedType DEF TInv
<1>2. CASE UploadEnds
  <2>1. written' = written /\ remote' = remote /\ todo = <<>> /\ pc' = "idle" /\ result'.status = "nil"
    BY <1>2 DEF UploadEnds, Returns, world
  <2>. QED BY <1>1, <2>1 DEF StoreInv, NilWrites, Returned
<1>3. CASE Upload /\ req.file = ""
  <2>1. pc' = "idle" => result'.status = "nil"
    BY <1>1, <1>3, ReturnsStatus DEF Upload, UploadFails
  <2>. QED BY <1>0, <1>1, <1>3, <2>1 DEF StoreInv, NilWrites, Returned
<1>4. CASE Upload /\ req.file # ""
  <2>1. todo = <<req.file>> /\ Head(todo) = req.file /\ Uploaded(Head(todo)) = FileAt(dest)
    <3>1. todo # <<>> /\ todo \in {<<>>, <<req.file>>}
      BY <1>1, <1>4 DEF Upload, TInv, PhaseInv
    <3>2. todo = <<req.file>>
      BY <3>1
    <3>3. Head(todo) = req.file
      BY <3>2
    <3>. QED BY <1>4, <3>2, <3>3 DEF Uploaded, FileAt
  <2>2. FileAt(dest) \in Objects
    BY <1>1, <1>4, PlacesAssumption DEF TInv, TypeOK, PhaseInv
  <2>3. CASE remote' = [remote EXCEPT ![FileAt(dest)] = Bytes(<<req.local, req.file>>)]
             /\ written' = written \cup {FileAt(dest)}
    <3>1. remote'[FileAt(dest)] = Bytes(<<req.local, req.file>>)
      BY <2>2, <2>3 DEF TInv, TypeOK
    <3>2. written' = {FileAt(dest)}
      BY <1>1, <1>4, <2>3 DEF StoreInv
    <3>3. \A o \in written' : o = FileAt(dest)' /\ remote'[o] = Bytes(<<req.local, req.file>>)'
      BY <1>1, <3>1, <3>2
    <3>4. req'.op = "toRemote" /\ req'.file # "" /\ written' \subseteq Objects /\ FileAt(dest)' \in written'
      BY <1>1, <1>4, <2>2, <3>2
    <3>. QED BY <3>3, <3>4 DEF StoreInv, NilWrites, Returned
  <2>4. CASE UploadFails /\ UNCHANGED <<remote, written>>
    <3>1. pc' = "idle" /\ result'.status = "error"
      BY <1>4, <2>4, ReturnsStatus DEF UploadFails
    <3>. QED BY <1>1, <1>4, <2>4, <3>1 DEF StoreInv, NilWrites, Returned
  <2>. QED BY <1>4, <2>1, <2>3, <2>4 DEF Upload
<1>. QED BY <1>2, <1>3, <1>4

\* Another plugin's change is recorded.
LEMMA RemoteChangeStoreInv ==
  ASSUME TInv, StoreInv, NEW o \in Objects, NEW c \in Contents \cup {Missing}, RemoteChange(o, c)
  PROVE  StoreInv'
<1>1. /\ UNCHANGED <<pc, req, todo, result, written>> /\ FileAt(dest)' = FileAt(dest)
      /\ Sent' = Sent /\ Bytes(<<req.local, req.file>>)' = Bytes(<<req.local, req.file>>)
      /\ IsFileStore(StoreFor(req, ToRemoteTarget(req)))' = IsFileStore(StoreFor(req, ToRemoteTarget(req)))
  BY SameRequest DEF RemoteChange, Sent, Bytes, request, IsFileStore, StoreFor, ToRemoteTarget
<1>2. \A p \in Objects : p \in disturbed' \/ remote'[p] = remote[p]
  BY DEF RemoteChange, TInv, TypeOK
<1>3. disturbed \subseteq disturbed'
  BY DEF RemoteChange
<1>. QED BY <1>1, <1>2, <1>3 DEF StoreInv, NilWrites, Returned

\* The inductive step.
LEMMA NextStoreInv == TInv /\ StoreInv /\ [Next]_vars => StoreInv'
<1> SUFFICES ASSUME TInv, StoreInv, [Next]_vars PROVE StoreInv'
  OBVIOUS
<1>1. ASSUME NEW r \in Requests, Call(r) PROVE StoreInv'
  BY <1>1, CallStoreInv
<1>2. CASE Step
  BY <1>2, StreamStoreInv, FetchStoreInv, UploadStoreInv DEF Step
<1>3. ASSUME NEW o \in Objects, NEW c \in Contents \cup {Missing}, RemoteChange(o, c) PROVE StoreInv'
  BY <1>3, RemoteChangeStoreInv
<1>4. CASE UNCHANGED vars
  <2>1. /\ UNCHANGED <<pc, req, dest, todo, reader, result, remote, local, disturbed, written>>
    BY <1>4 DEF vars
  <2>2. /\ FileAt(dest)' = FileAt(dest) /\ Sent' = Sent
        /\ Bytes(<<req.local, req.file>>)' = Bytes(<<req.local, req.file>>)
        /\ IsFileStore(StoreFor(req, ToRemoteTarget(req)))' = IsFileStore(StoreFor(req, ToRemoteTarget(req)))
    BY <2>1 DEF FileAt, FileIn, Sent, Bytes, IsFileStore, StoreFor, ToRemoteTarget
  <2>. QED BY <2>1, <2>2 DEF StoreInv, NilWrites, Returned
<1>. QED BY <1>1, <1>2, <1>3, <1>4 DEF Next

\* The facts about what a call has written are an invariant.
LEMMA StoreInductive == Spec => []StoreInv
<1>1. Init => StoreInv
  BY InitFacts DEF StoreInv, NilWrites, Returned
<1>2. TInv /\ StoreInv /\ [Next]_vars => StoreInv'
  BY NextStoreInv
<1>. QED BY <1>1, <1>2, TypesInductive, PTL DEF Spec

\* A Put, Copy or upload of a file that returns nil has stored its content, for
\* any stores, sources and requests, unless another plugin has written it since.
THEOREM NilIsStored == Spec => []NilMeansStored
<1>1. StoreInv => NilMeansStored
  BY DEF StoreInv, NilWrites, NilMeansStored, Returned
<1>. QED BY <1>1, StoreInductive, PTL

\* A call that returns an error has changed no object but the one it was storing,
\* and that one holds its old content or all of the new.
THEOREM ErrorIsWhole == Spec => []ErrorLeavesWhole
<1>1. TInv /\ StoreInv => ErrorLeavesWhole
  <2> SUFFICES ASSUME TInv, StoreInv, pc = "idle", result.status = "error", NEW o \in written \cap Objects
               PROVE  o = FileAt(dest) /\ (o \in disturbed
                        \/ remote[o] = IF req.op = "toRemote" THEN Bytes(<<req.local, req.file>>) ELSE Sent)
    BY DEF ErrorLeavesWhole
  <2>1. req.op \in {"get", "put", "copy", "toLocal", "toRemote"}
    BY RequestsAssumption DEF TInv, TypeOK
  <2>2. req.op # "toLocal"
    BY ObjectsAreNotFiles DEF StoreInv
  <2>3. CASE req.op = "toRemote"
    BY <2>3 DEF StoreInv
  <2>4. CASE req.op \in {"get", "put", "copy"}
    BY <2>4 DEF StoreInv
  <2>. QED BY <2>1, <2>2, <2>3, <2>4
<1>. QED BY <1>1, StoreInductive, TypesInductive, PTL

(***************************************************************************)
(* The upload of a directory                                               *)
(***************************************************************************)
\* Steps of other calls.
LEMMA NoUploadPrefix ==
  ASSUME pc' # "upload" \/ req'.file # "",
         pc' = "idle" /\ req'.op = "toRemote" /\ req'.file = "" /\ result'.status = "nil" => written' = {}
  PROVE  PrefixInv'
BY DEF PrefixInv, UploadIsPrefix, Returned

\* An upload begins with everything left to store, in order.
LEMMA CallPrefix ==
  ASSUME TInv, NEW r \in Requests, Call(r)
  PROVE  PrefixInv'
<1>1. written' = {} /\ req' = r
  BY DEF Call, Get, Put, Copy, CopyFileToLocal, CopyFileToRemote, Rejected, Started, Begin
<1>2. CASE pc' # "upload" \/ r.file # ""
  BY <1>1, <1>2, NoUploadPrefix
<1>3. CASE pc' = "upload" /\ r.file = ""
  <2>1. Rejected(r, "toRemote", Addressed(r) /\ OnDisk(r)) => pc' = "idle"
    BY DEF Rejected, Returns
  <2>2. todo' \in Walks(LocalNames(r)) /\ local' = local
    BY <1>3, <2>1
    DEF Call, Get, Put, Copy, CopyFileToLocal, CopyFileToRemote, Rejected, Started, Returns, Begin
  <2>3. LocalNames(r) \subseteq Names
    BY NamesFacts DEF LocalNames
  <2>4. LocalNames(req)' = LocalNames(r)
    BY <1>1, <2>2 DEF LocalNames
  <2>5. /\ \A i \in DOMAIN todo' : todo'[i] \in LocalNames(r)
        /\ \A n \in LocalNames(r) : \E i \in DOMAIN todo' : todo'[i] = n
        /\ \A i, j \in DOMAIN todo' : i < j => Before(todo'[i], todo'[j])
    BY <2>2, <2>3, WalkFacts
  <2>. QED BY <1>1, <1>3, <2>4, <2>5 DEF PrefixInv, InTodo, UploadIsPrefix, Returned
<1>. QED BY <1>2, <1>3

\* The first of the walk is stored, or the walk stops there.
LEMMA UploadPrefix ==
  ASSUME TInv, PrefixInv, Upload \/ UploadEnds
  PROVE  PrefixInv'
<1>1. /\ req' = req /\ LocalNames(req)' = LocalNames(req) /\ pc = "upload" /\ todo \in Seq(Names)
      /\ \A n : Uploaded(n)' = Uploaded(n)
  BY SameRequest DEF Upload, UploadEnds, LocalNames, Uploaded, world, TInv, TypeOK
<1>2. CASE req.file # ""
  BY <1>1, <1>2, NoUploadPrefix
<1>3. CASE req.file = ""
  <2>0. /\ \A i \in DOMAIN todo : todo[i] \in LocalNames(req)
        /\ \A i, j \in DOMAIN todo : i < j => Before(todo[i], todo[j])
        /\ \A n \in LocalNames(req) : Uploaded(n) \in written \/ InTodo(n)
        /\ \A n \in LocalNames(req) : Uploaded(n) \in written => \A i \in DOMAIN todo : Before(n, todo[i])
    BY <1>1, <1>3 DEF PrefixInv
  <2>1. CASE UploadEnds
    <3>1. pc' = "idle" /\ todo = <<>> /\ written' = written
      BY <2>1 DEF UploadEnds, Returns, world
    <3>2. \A n \in LocalNames(req) : Uploaded(n) \in written
      BY <2>0, <3>1 DEF InTodo
    <3>. QED BY <1>1, <3>1, <3>2 DEF PrefixInv, UploadIsPrefix
  <2>2. CASE Upload
    <3> DEFINE h == Head(todo)
    <3>1. h \in LocalNames(req) /\ 1 \in DOMAIN todo /\ h = todo[1] /\ todo # <<>>
      BY <1>1, <2>0, <2>2, TailFacts DEF Upload
    <3>2. written' = written \/ written' = written \cup {Uploaded(h)}
      BY <2>2 DEF Upload
    <3>3. \A n \in LocalNames(req) : Uploaded(n) = Uploaded(h) => n = h
      BY <1>3, FileFacts DEF Uploaded
    <3>4. \A i \in DOMAIN todo : i = 1 \/ Before(h, todo[i])
      BY <1>1, <2>0, <3>1
    <3> HIDE DEF h
    <3>5. CASE todo' = Tail(todo) /\ written' = written \cup {Uploaded(h)} /\ UNCHANGED <<pc, result>>
      <4>1. /\ \A i \in DOMAIN todo' : i \in Nat \ {0} /\ i + 1 \in DOMAIN todo /\ todo'[i] = todo[i + 1]
            /\ \A i \in DOMAIN todo : todo[i] = h \/ \E j \in DOMAIN todo' : todo'[j] = todo[i]
        BY <1>1, <3>1, <3>5, TailFacts DEF h
      <4>2. \A i, j \in DOMAIN todo' : i < j => Before(todo'[i], todo'[j])
        <5> SUFFICES ASSUME NEW i \in DOMAIN todo', NEW j \in DOMAIN todo', i < j
                     PROVE  Before(todo'[i], todo'[j])
          OBVIOUS
        <5>1. i + 1 < j + 1
          BY <4>1
        <5>. QED BY <2>0, <4>1, <5>1
      <4>3. \A i \in DOMAIN todo' : Before(h, todo'[i])
        BY <3>4, <4>1
      <4>4. \A n \in LocalNames(req) : Uploaded(n) \in written' \/ InTodo(n)'
        BY <2>0, <3>5, <4>1 DEF InTodo
      <4>5. \A n \in LocalNames(req) : Uploaded(n) \in written' => \A i \in DOMAIN todo' : Before(n, todo'[i])
        BY <2>0, <3>3, <3>5, <4>1, <4>3
      <4>. QED BY <1>1, <1>3, <2>0, <3>5, <4>1, <4>2, <4>4, <4>5 DEF PrefixInv, UploadIsPrefix, Returned
    <3>6. CASE pc' = "idle"
      <4> SUFFICES ASSUME NEW a \in LocalNames(req), NEW b \in LocalNames(req), Before(a, b),
                          Uploaded(b) \in written', Uploaded(a) \notin written'
                   PROVE  FALSE
        BY <1>1, <3>6 DEF PrefixInv, UploadIsPrefix
      <4>1. PICK i \in DOMAIN todo : todo[i] = a
        BY <2>0, <3>2 DEF InTodo
      <4>2. CASE Uploaded(b) \in written
        BY <2>0, <4>1, <4>2, BeforeStrict
      <4>3. CASE Uploaded(b) = Uploaded(h)
        BY <3>1, <3>3, <3>4, <4>1, <4>3, BeforeStrict
      <4>. QED BY <3>2, <4>2, <4>3
    <3>. QED BY <2>2, <3>5, <3>6 DEF Upload, UploadFails, Returns, h
  <2>. QED BY <2>1, <2>2
<1>. QED BY <1>2, <1>3

\* Which call a step is part of.
LEMMA StepOp ==
  ASSUME TInv, Step
  PROVE  /\ req' = req
         /\ Open \/ Read \/ Write => req.op \in {"get", "put", "copy"} /\ pc' # "upload"
         /\ Stat \/ Fetch \/ Create \/ Fill \/ WalkEnds => req.op = "toLocal" /\ pc' # "upload"
         /\ Upload \/ UploadEnds => req.op = "toRemote"
<1>1. UNCHANGED request
  BY DEF Step, Open, Read, Write, Stat, Fetch, Create, Fill, WalkEnds, Upload, UploadEnds
<1>2. Open \/ Read \/ Write => req.op \in {"get", "put", "copy"} /\ pc' # "upload"
  BY DEF Open, Read, Write, Returns, TInv, PhaseInv
<1>3. Stat \/ Fetch \/ Create \/ Fill \/ WalkEnds => req.op = "toLocal" /\ pc' # "upload"
  BY DEF Stat, Fetch, Create, Fill, WalkEnds, Returns, TInv, PhaseInv, Fetching
<1>4. Upload \/ UploadEnds => req.op = "toRemote"
  BY DEF Upload, UploadEnds, TInv, PhaseInv
<1>. QED BY <1>1, <1>2, <1>3, <1>4 DEF request

\* Steps outside the call and its files.
LEMMA QuietPrefix ==
  ASSUME PrefixInv, UNCHANGED <<pc, req, dest, todo, result, written, local>>
  PROVE  PrefixInv'
<1>1. LocalNames(req)' = LocalNames(req) /\ (\A n : Uploaded(n)' = Uploaded(n) /\ InTodo(n)' = InTodo(n))
  BY DEF LocalNames, Uploaded, FileIn, InTodo
<1>. QED BY <1>1 DEF PrefixInv, UploadIsPrefix, Returned

\* The inductive step.
LEMMA NextPrefix == TInv /\ PrefixInv /\ [Next]_vars => PrefixInv'
<1> SUFFICES ASSUME TInv, PrefixInv, [Next]_vars PROVE PrefixInv'
  OBVIOUS
<1>1. ASSUME NEW r \in Requests, Call(r) PROVE PrefixInv'
  BY <1>1, CallPrefix
<1>2. CASE Open \/ Read \/ Write \/ Stat \/ Fetch \/ Create \/ Fill \/ WalkEnds
  <2>1. req' = req /\ req.op \in {"get", "put", "copy", "toLocal"} /\ pc' # "upload"
    BY <1>2, StepOp DEF Step
  <2>. QED BY <2>1, NoUploadPrefix
<1>3. CASE Upload \/ UploadEnds
  BY <1>3, UploadPrefix
<1>4. ASSUME NEW o \in Objects, NEW c \in Contents \cup {Missing}, RemoteChange(o, c) PROVE PrefixInv'
  BY <1>4, QuietPrefix DEF RemoteChange, request
<1>5. CASE UNCHANGED vars
  BY <1>5, QuietPrefix DEF vars
<1>. QED BY <1>1, <1>2, <1>3, <1>4, <1>5 DEF Next, Step

\* The upload of a directory stores a prefix of the walk, however long the walk
\* and wherever it stops.
THEOREM UploadStoresPrefix == Spec => []UploadIsPrefix
<1>1. Init => PrefixInv
  BY InitFacts DEF PrefixInv, UploadIsPrefix, Returned
<1>2. TInv /\ PrefixInv /\ [Next]_vars => PrefixInv'
  BY NextPrefix
<1>3. PrefixInv => UploadIsPrefix
  BY DEF PrefixInv
<1>. QED BY <1>1, <1>2, <1>3, TypesInductive, PTL DEF Spec

(***************************************************************************)
(* CopyFileToLocal                                                         *)
(***************************************************************************)
\* What is being fetched, and where to.
LEMMA HeadPlaces ==
  ASSUME TInv, Fetching, todo # <<>>
  PROVE  /\ FileIn(src, Head(todo)) \in Objects /\ Target(Head(todo)) \in LocalFiles
         /\ ~walking => Head(todo) = ""
<1>1. /\ req.op = "toLocal" /\ ToLocalAllowed(req) /\ src = Reads(req) /\ todo \in Seq(Names) /\ req \in Requests
      /\ \A i \in DOMAIN todo : FileIn(src, todo[i]) \in Objects /\ (~walking => todo[i] = "")
  BY DEF TInv, TypeOK, PhaseInv
<1>. QED BY <1>1, TailFacts, TargetType

\* A file is truncated when it is created and whole when it has been filled.
LEMMA FetchTruncated ==
  ASSUME TInv, TruncatedInv, Stat \/ Fetch \/ Create \/ Fill \/ WalkEnds
  PROVE  TruncatedInv'
<1>1. req' = req /\ req.op = "toLocal" /\ pc # "idle"
  BY StepOp DEF Step, Stat, Fetch, Create, Fill, WalkEnds
<1>2. \A f \in written : local[f] = Partial => pc = "fill" /\ f = Target(Head(todo))
  BY <1>1 DEF TruncatedInv
<1>3. CASE Stat
  <2>1. written' = {}
    BY <1>3 DEF Stat, TInv, PhaseInv, world
  <2>. QED BY <2>1 DEF TruncatedInv
<1>4. CASE Fetch \/ WalkEnds
  <2>1. pc # "fill" /\ UNCHANGED <<written, local>>
    BY <1>4 DEF Fetch, WalkEnds, world
  <2>. QED BY <1>2, <2>1 DEF TruncatedInv
<1>5. CASE Create
  <2> DEFINE t == Target(Head(todo))
  <2>1. CASE local' = [local EXCEPT ![t] = Partial] /\ written' = written \cup {t} /\ pc' = "fill"
    <3>1. Target(Head(todo))' = t
      BY <1>5 DEF Create, Target, request
    <3>2. \A f \in LocalFiles : f # t => local'[f] = local[f]
      BY <2>1 DEF TInv, TypeOK
    <3> HIDE DEF t
    <3>3. \A f \in written' : local'[f] = Partial => f = t
      <4> SUFFICES ASSUME NEW f \in written, local'[f] = Partial, f # t PROVE FALSE
        BY <2>1
      <4>1. local'[f] = local[f]
        BY <2>1 DEF TInv, TypeOK
      <4>. QED BY <1>2, <1>5, <4>1 DEF Create
    <3>. QED BY <2>1, <3>1, <3>3 DEF TruncatedInv
  <2>2. CASE UNCHANGED <<local, written>>
    BY <1>2, <1>5, <2>2 DEF Create, TruncatedInv
  <2>. QED BY <1>5, <2>1, <2>2 DEF Create
<1>6. CASE Fill
  <2> DEFINE t == Target(Head(todo))
  <2>1. CASE local' = [local EXCEPT ![t] = reader] /\ pc' = "fetch"
    <3>1. reader # Partial /\ written' = written
      BY <1>6, ContentFacts DEF Fill, TInv, TypeOK
    <3> HIDE DEF t
    <3>2. ASSUME NEW f \in written, local'[f] = Partial PROVE FALSE
      <4>1. CASE f # t
        <5>1. local'[f] = local[f]
          BY <2>1, <4>1 DEF TInv, TypeOK
        <5>. QED BY <1>2, <3>2, <4>1, <5>1 DEF t
      <4>2. CASE f = t
        <5>1. t \in LocalFiles
          BY <1>6, HeadPlaces DEF Fill, Fetching, TInv, PhaseInv, t
        <5>. QED BY <2>1, <3>1, <3>2, <4>2, <5>1 DEF TInv, TypeOK
      <4>. QED BY <4>1, <4>2
    <3>. QED BY <3>1, <3>2 DEF TruncatedInv
  <2>2. CASE Returns("error") /\ UNCHANGED <<local, todo>>
    <3>1. pc' = "idle" /\ written' = written
      BY <1>6, <2>2 DEF Fill, Returns
    <3>. QED BY <1>2, <2>2, <3>1 DEF TruncatedInv
  <2>. QED BY <1>6, <2>1, <2>2 DEF Fill
<1>. QED BY <1>3, <1>4, <1>5, <1>6

\* Steps outside the call and its files.
LEMMA QuietTruncated ==
  ASSUME TruncatedInv, UNCHANGED <<pc, req, src, walking, todo, written, local>>
  PROVE  TruncatedInv'
<1>1. Target(Head(todo))' = Target(Head(todo))
  BY DEF Target
<1>. QED BY <1>1 DEF TruncatedInv

\* The inductive step.
LEMMA NextTruncated == TInv /\ TruncatedInv /\ [Next]_vars => TruncatedInv'
<1> SUFFICES ASSUME TInv, TruncatedInv, [Next]_vars PROVE TruncatedInv'
  OBVIOUS
<1>1. ASSUME NEW r \in Requests, Call(r) PROVE TruncatedInv'
  <2>1. written' = {}
    BY <1>1 DEF Call, Get, Put, Copy, CopyFileToLocal, CopyFileToRemote, Rejected, Started, Begin
  <2>. QED BY <2>1 DEF TruncatedInv
<1>2. CASE Open \/ Read \/ Write \/ Upload \/ UploadEnds
  <2>1. req' = req /\ req.op # "toLocal"
    BY <1>2, StepOp DEF Step
  <2>. QED BY <2>1 DEF TruncatedInv
<1>3. CASE Stat \/ Fetch \/ Create \/ Fill \/ WalkEnds
  BY <1>3, FetchTruncated
<1>4. ASSUME NEW o \in Objects, NEW c \in Contents \cup {Missing}, RemoteChange(o, c) PROVE TruncatedInv'
  BY <1>4, QuietTruncated DEF RemoteChange, request
<1>5. CASE UNCHANGED vars
  BY <1>5, QuietTruncated DEF vars
<1>. QED BY <1>1, <1>2, <1>3, <1>4, <1>5 DEF Next, Step

\* Of all the files a failed CopyFileToLocal wrote one at most is truncated,
\* however many there are and whatever others do to the objects meanwhile.
THEOREM OneIsTruncated == Spec => []AtMostOneTruncated
<1>1. Init => TruncatedInv
  BY InitFacts DEF TruncatedInv
<1>2. TInv /\ TruncatedInv /\ [Next]_vars => TruncatedInv'
  BY NextTruncated
<1>3. TruncatedInv => AtMostOneTruncated
  BY DEF TruncatedInv, AtMostOneTruncated, Returned
<1>. QED BY <1>1, <1>2, <1>3, TypesInductive, PTL DEF Spec

\* A step outside CopyFileToLocal, or one that ends it with an error.
LEMMA NoFetch ==
  ASSUME ~Fetching', ~Returned("toLocal", "nil")'
  PROVE  CompleteInv'
BY DEF CompleteInv, Fetching

\* What has been delivered is not what is being fetched.
LEMMA DueTarget ==
  ASSUME TInv, CompleteInv, Fetching, todo # <<>>, NEW o \in Objects, Due(o), ~InTodo(o[3])
  PROVE  Target(o[3]) # Target(Head(todo))
<1>1. InTodo(Head(todo)) /\ o[3] # Head(todo)
  BY TailFacts DEF InTodo, TInv, TypeOK
<1>2. o[3] # "" /\ walking /\ Head(todo) # "" /\ src \notin Loose
  BY <1>1, HeadPlaces DEF Due, CompleteInv
<1>. QED BY <1>1, <1>2 DEF Target

\* What is due goes to its place below LocalPath.
LEMMA DueLanded ==
  ASSUME CompleteInv, Fetching, NEW o \in Objects, Due(o)
  PROVE  Target(o[3]) = Landed(o)
<1>1. CASE o[3] = ""
  BY <1>1 DEF Due, Target, Landed
<1>2. CASE o[3] # ""
  <2>1. walking /\ src \notin Loose
    BY <1>2 DEF Due, CompleteInv
  <2>. QED BY <1>2, <2>1 DEF Target, Landed
<1>. QED BY <1>1, <1>2

\* The path is an object, to be fetched alone, or the objects under it are listed.
LEMMA StatComplete ==
  ASSUME TInv, Stat
  PROVE  CompleteInv'
<1>1. /\ UNCHANGED <<request, world>> /\ FileAt(src) \in Objects
      /\ FileAt(src)' = FileAt(src) /\ \A n : FileIn(src', n) = FileIn(src, n)
  BY SameRequest DEF Stat, TInv, PhaseInv
<1>2. CASE remote[FileAt(src)] # Missing /\ todo' = <<"">> /\ pc' = "fetch"
  <2>1. InTodo("")'
    <3>1. 1 \in DOMAIN <<"">> /\ <<"">>[1] = ""
      OBVIOUS
    <3>. QED BY <1>2, <3>1 DEF InTodo
  <2>2. remote'[FileAt(src)'] # Missing
    BY <1>1, <1>2 DEF world
  <2>3. \A o \in Objects : Due(o)' => InTodo(o[3])'
    BY <2>1, <2>2 DEF Due
  <2>. QED BY <1>2, <2>2, <2>3 DEF CompleteInv, Fetching, Returned
<1>3. CASE walking' = TRUE /\ todo' \in Walks(Under(src)) /\ pc' = "fetch"
  <2>1. Under(src) \subseteq Names
    BY NamesFacts DEF Under
  <2>2. \A n : InTodo(n)' <=> n \in Under(src)
    BY <1>3, <2>1, WalkFacts DEF InTodo
  <2>3. "" \in Under(src) => remote[FileAt(src)] # Missing
    BY DEF Under, FileAt
  <2>4. \A o \in Objects : Due(o)' => o[3] \in Under(src)
    BY <1>1 DEF Due, Under, world
  <2>5. remote'[FileAt(src)'] # Missing \/ (walking' /\ ~InTodo("")')
    BY <1>1, <1>3, <2>2, <2>3 DEF world
  <2>. QED BY <1>3, <2>2, <2>4, <2>5 DEF CompleteInv, Fetching, Returned
<1>4. CASE Returns("error")
  BY <1>4, ReturnsStatus, NoFetch DEF Fetching, Returned
<1>. QED BY <1>2, <1>3, <1>4 DEF Stat

\* What is due stays delivered while another file is created and filled.
LEMMA FetchComplete ==
  ASSUME TInv, CompleteInv, Fetch \/ Create \/ Fill \/ WalkEnds
  PROVE  CompleteInv'
<1>0. /\ Fetching /\ FileAt(src) \in Objects /\ todo \in Seq(Names) /\ UNCHANGED <<request, walking, remote, disturbed>>
      /\ local \in [LocalFiles -> Stored \cup {Partial}]
  BY DEF Fetch, Create, Fill, WalkEnds, world, Fetching, TInv, TypeOK, PhaseInv
<1>1. /\ FileAt(src)' = FileAt(src) /\ (\A n : FileIn(src', n) = FileIn(src, n))
      /\ \A n : Target(n)' = Target(n)
  BY <1>0, SameRequest DEF Target, request
<1>2. \A o : Due(o)' <=> Due(o)
  BY <1>0, <1>1 DEF Due, request
<1>3. /\ FileAt(src) \in disturbed \/ remote[FileAt(src)] # Missing \/ (walking /\ ~InTodo(""))
      /\ \A o \in Objects : Due(o) => InTodo(o[3]) \/ local[Target(o[3])] = remote[o]
  BY <1>0 DEF CompleteInv
<1>4. ASSUME Returns("error") PROVE CompleteInv'
  BY <1>4, ReturnsStatus, NoFetch DEF Fetching, Returned
<1>5. CASE Fetch
  <2>1. CASE reader' = remote[FileIn(src, Head(todo))] /\ pc' = "create"
    <3>1. \A n : InTodo(n)' <=> InTodo(n)
      BY <1>5 DEF Fetch, InTodo
    <3>2. src' = src /\ todo' = todo /\ local' = local
      BY <1>0, <1>5 DEF Fetch, world, request
    <3>3. reader' = remote'[FileIn(src', Head(todo'))]
      BY <1>0, <2>1, <3>2
    <3>4. \/ FileAt(src)' \in disturbed' \/ remote'[FileAt(src)'] # Missing \/ (walking' /\ ~InTodo("")')
      BY <1>0, <1>1, <1>3, <3>1
    <3>5. \A o \in Objects : Due(o)' => InTodo(o[3])' \/ local'[Target(o[3])'] = remote'[o]
      BY <1>0, <1>1, <1>2, <1>3, <3>1, <3>2
    <3>. QED BY <2>1, <3>3, <3>4, <3>5 DEF CompleteInv, Returned
  <2>. QED BY <1>4, <1>5, <2>1 DEF Fetch
<1>6. CASE Create
  <2>1. CASE local' = [local EXCEPT ![Target(Head(todo))] = Partial] /\ pc' = "fill"
    <3>1. \A n : InTodo(n)' <=> InTodo(n)
      BY <1>6 DEF Create, InTodo
    <3>2. todo # <<>> /\ todo' = todo /\ reader' = reader
      BY <1>6 DEF Create, TInv, PhaseInv
    <3>3. ASSUME NEW o \in Objects, Due(o), ~InTodo(o[3]) PROVE local'[Target(o[3])] = remote[o]
      <4>1. Target(o[3]) # Target(Head(todo))
        BY <1>0, <3>2, <3>3, DueTarget
      <4>2. local[Target(o[3])] = remote[o] /\ Target(o[3]) \in LocalFiles
        <5>1. FileIn(src, o[3]) \in Objects
          BY <3>3 DEF Due
        <5>2. req \in Requests /\ req.op = "toLocal" /\ ToLocalAllowed(req) /\ src = Reads(req)
          BY <1>0 DEF TInv, TypeOK, PhaseInv
        <5>. QED BY <1>3, <3>3, <5>1, <5>2, TargetType
      <4>. QED BY <1>0, <2>1, <4>1, <4>2
    <3>4. reader = remote[FileIn(src, Head(todo))] \/ FileIn(src, Head(todo)) \in disturbed
      BY <1>6 DEF Create, CompleteInv
    <3>. QED
      BY <1>0, <1>1, <1>2, <1>3, <2>1, <3>1, <3>2, <3>3, <3>4 DEF CompleteInv, Fetching, Returned
  <2>. QED BY <1>4, <1>6, <2>1 DEF Create
<1>7. CASE Fill
  <2>1. CASE /\ local' = [local EXCEPT ![Target(Head(todo))] = reader]
             /\ todo' = Tail(todo) /\ pc' = "fetch"
    <3>1. todo # <<>> /\ Target(Head(todo)) \in LocalFiles
      BY <1>0, <1>7, HeadPlaces DEF Fill, TInv, PhaseInv
    <3>2. /\ \A n : InTodo(n)' => InTodo(n)
          /\ \A n : InTodo(n) => n = Head(todo) \/ InTodo(n)'
      BY <1>0, <2>1, <3>1, TailFacts DEF InTodo
    <3>3. reader = remote[FileIn(src, Head(todo))] \/ FileIn(src, Head(todo)) \in disturbed
      BY <1>7 DEF Fill, CompleteInv
    <3>4. ASSUME NEW o \in Objects, Due(o), ~InTodo(o[3])' PROVE local'[Target(o[3])] = remote[o]
      <4>1. CASE InTodo(o[3])
        <5>1. o[3] = Head(todo)
          BY <3>2, <3>4, <4>1
        <5>2. FileIn(src, Head(todo)) = o /\ o \notin disturbed
          BY <3>4, <5>1 DEF Due
        <5>. QED BY <1>0, <2>1, <3>1, <3>3, <5>1, <5>2
      <4>2. CASE ~InTodo(o[3])
        <5>1. Target(o[3]) # Target(Head(todo))
          BY <1>0, <3>1, <3>4, <4>2, DueTarget
        <5>2. FileIn(src, o[3]) \in Objects
          BY <3>4 DEF Due
        <5>3. req \in Requests /\ req.op = "toLocal" /\ ToLocalAllowed(req) /\ src = Reads(req)
          BY <1>0 DEF TInv, TypeOK, PhaseInv
        <5>4. Target(o[3]) \in LocalFiles
          BY <5>2, <5>3, TargetType
        <5>. QED BY <1>0, <1>3, <2>1, <3>4, <4>2, <5>1, <5>4
      <4>. QED BY <4>1, <4>2
    <3>. QED
      BY <1>0, <1>1, <1>2, <1>3, <2>1, <3>2, <3>4 DEF CompleteInv, Fetching, Returned
  <2>. QED BY <1>4, <1>7, <2>1 DEF Fill
<1>8. CASE WalkEnds
  <2>1. pc' = "idle" /\ todo = <<>> /\ local' = local
    BY <1>8 DEF WalkEnds, Returns, world
  <2>2. \A n : ~InTodo(n)
    BY <2>1 DEF InTodo
  <2>3. \A o : Landed(o)' = Landed(o)
    BY <1>0 DEF Landed, request
  <2>4. \A o \in Objects : Due(o) => local[Landed(o)] = remote[o]
    BY <1>0, <1>3, <2>2, DueLanded
  <2>. QED BY <1>0, <1>1, <1>2, <2>1, <2>3, <2>4 DEF CompleteInv, Fetching
<1>. QED BY <1>5, <1>6, <1>7, <1>8

\* Another plugin's change: the object is no longer due.
LEMMA RemoteChangeComplete ==
  ASSUME TInv, CompleteInv, NEW p \in Objects, NEW c \in Contents \cup {Missing}, RemoteChange(p, c)
  PROVE  CompleteInv'
<1>1. /\ UNCHANGED <<pc, request, walking, todo, reader, result, local>>
      /\ remote' = [remote EXCEPT ![p] = c] /\ disturbed' = disturbed \cup {p}
  BY DEF RemoteChange
<1>2. \A o \in Objects : o \in disturbed' \/ (o \notin disturbed /\ remote'[o] = remote[o])
  BY <1>1 DEF TInv, TypeOK
<1>3. /\ FileAt(src)' = FileAt(src) /\ (\A n : FileIn(src', n) = FileIn(src, n))
      /\ (\A n : Target(n)' = Target(n)) /\ \A n : InTodo(n)' <=> InTodo(n)
  BY <1>1, SameRequest DEF Target, request, InTodo
<1>4. FileAt(src) \in Objects => \A o \in Objects : Due(o)' => Due(o) /\ remote'[o] = remote[o]
  BY <1>1, <1>2, <1>3 DEF Due, request
<1>5. CASE Fetching
  <2>1. FileAt(src) \in Objects /\ ~Returned("toLocal", "nil")' /\ (Fetching' <=> Fetching)
    BY <1>1, <1>5 DEF TInv, PhaseInv, Fetching, Returned
  <2>2. pc \in {"create", "fill"} => FileIn(src, Head(todo)) \in Objects
    BY HeadPlaces DEF Fetching, TInv, PhaseInv
  <2>3. pc' \in {"create", "fill"} =>
          reader' = remote'[FileIn(src', Head(todo'))] \/ FileIn(src', Head(todo')) \in disturbed'
    BY <1>1, <1>2, <1>3, <2>2 DEF CompleteInv
  <2>4. \/ FileAt(src)' \in disturbed' \/ remote'[FileAt(src)'] # Missing \/ (walking' /\ ~InTodo("")')
    BY <1>1, <1>2, <1>3, <1>5, <2>1 DEF CompleteInv
  <2>5. \A o \in Objects : Due(o)' => InTodo(o[3])' \/ local'[Target(o[3])'] = remote'[o]
    BY <1>1, <1>3, <1>4, <1>5, <2>1 DEF CompleteInv
  <2>. QED BY <1>3, <2>1, <2>3, <2>4, <2>5 DEF CompleteInv
<1>6. CASE ~Fetching
  <2>1. ~Fetching' /\ (Returned("toLocal", "nil")' <=> Returned("toLocal", "nil"))
    BY <1>1, <1>6 DEF Fetching, Returned, request
  <2>2. \A o : Landed(o)' = Landed(o)
    BY <1>1 DEF Landed, request
  <2>. QED BY <1>1, <1>3, <1>4, <2>1, <2>2 DEF CompleteInv, Fetching
<1>. QED BY <1>5, <1>6

\* The inductive step.
LEMMA NextComplete == TInv /\ CompleteInv /\ [Next]_vars => CompleteInv'
<1> SUFFICES ASSUME TInv, CompleteInv, [Next]_vars PROVE CompleteInv'
  OBVIOUS
<1>1. ASSUME NEW r \in Requests, Call(r) PROVE CompleteInv'
  <2>1. CASE Returns("error")
    BY <2>1, ReturnsStatus, NoFetch DEF Fetching, Returned
  <2>2. CASE pc' \in {"open", "write", "stat", "upload"}
    BY <2>2, NoFetch DEF Fetching, Returned
  <2>3. CASE req'.op = "toRemote" /\ Returns("nil")
    BY <2>3, ReturnsStatus, NoFetch DEF Fetching, Returned
  <2>4. Returns("error") \/ pc' \in {"open", "write", "stat", "upload"} \/ (req'.op = "toRemote" /\ Returns("nil"))
    <3>1. CASE Get(r)
      BY <3>1 DEF Get, Rejected, Started
    <3>2. CASE Put(r)
      BY <3>2 DEF Put, Rejected, Started
    <3>3. CASE Copy(r)
      BY <3>3 DEF Copy, Rejected, Started
    <3>4. CASE CopyFileToLocal(r)
      BY <3>4 DEF CopyFileToLocal, Rejected, Started
    <3>5. CASE CopyFileToRemote(r)
      BY <3>5 DEF CopyFileToRemote, Rejected, Begin
    <3>. QED BY <1>1, <3>1, <3>2, <3>3, <3>4, <3>5 DEF Call
  <2>. QED BY <2>1, <2>2, <2>3, <2>4
<1>2. CASE Open \/ Read \/ Write \/ Upload \/ UploadEnds
  <2>1. req' = req /\ req.op # "toLocal"
    BY <1>2, StepOp DEF Step
  <2>2. pc' \notin {"fetch", "create", "fill"}
    BY <1>2, ReturnsStatus DEF Open, Read, Write, Upload, UploadEnds, UploadFails
  <2>. QED BY <2>1, <2>2, NoFetch DEF Fetching, Returned
<1>3. CASE Stat \/ Fetch \/ Create \/ Fill \/ WalkEnds
  BY <1>3, StatComplete, FetchComplete
<1>4. ASSUME NEW o \in Objects, NEW c \in Contents \cup {Missing}, RemoteChange(o, c) PROVE CompleteInv'
  BY <1>4, RemoteChangeComplete
<1>5. CASE UNCHANGED vars
  <2>1. UNCHANGED <<pc, req, src, walking, todo, reader, result, remote, local, disturbed>>
    BY <1>5 DEF vars
  <2>2. /\ FileAt(src)' = FileAt(src) /\ (\A n : FileIn(src', n) = FileIn(src, n))
        /\ (\A n : Target(n)' = Target(n)) /\ (\A n : InTodo(n)' <=> InTodo(n))
        /\ \A o : (Due(o)' <=> Due(o)) /\ Landed(o)' = Landed(o)
    BY <2>1 DEF Target, InTodo, Due, Landed, FileAt, FileIn
  <2>. QED BY <2>1, <2>2 DEF CompleteInv, Fetching, Returned
<1>. QED BY <1>1, <1>2, <1>3, <1>4, <1>5 DEF Next, Step

\* A CopyFileToLocal that returns nil has brought the object at the path, or every
\* object under it, to its place below LocalPath, wherever keys start with
\* root/path/: nothing the walk listed is skipped, and no file is left half copied.
THEOREM CopyIsComplete == Spec => []CopyToLocalComplete
<1>1. Init => CompleteInv
  BY InitFacts DEF CompleteInv, Fetching, Returned
<1>2. TInv /\ CompleteInv /\ [Next]_vars => CompleteInv'
  BY NextComplete
<1>3. CompleteInv => CopyToLocalComplete
  BY DEF CompleteInv, CopyToLocalComplete, Returned, Due, Landed
<1>. QED BY <1>1, <1>2, <1>3, TypesInductive, PTL DEF Spec
==============================================================================
