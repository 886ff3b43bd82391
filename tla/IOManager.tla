------------------------------ MODULE IOManager ------------------------------
(***************************************************************************)
(* payload.go: the IOManager of a payload or of one of its actions finds   *)
(* stores and data sources by name, climbing to its parent, and moves data *)
(* between them and the local disk: Get, Put, Copy, CopyFileToLocal,       *)
(* CopyFileToRemote. The plugin makes one call at a time, while other      *)
(* plugins change the same remote objects between any two of its steps.    *)
(*                                                                         *)
(* An object is <<root, path, name>>: name is "" for the file at path      *)
(* itself and the file's relative name when path is a directory (prefix).  *)
(* A local file is <<directory, name>>. The path of a key a data source    *)
(* does not have is "", as a Go map gives it.                              *)
(***************************************************************************)
EXTENDS Naturals, Sequences

CONSTANTS
  Scopes, Parent,           \* the IOManagers; Parent[s] = s for the payload's own
  Stores, Inputs, Outputs,  \* per scope, in order
  Requests,                 \* the calls a plugin makes
  Objects, LocalFiles,      \* the objects and local files there may be
  WalkOrder,                \* names in the order a walk of a directory gives them
  Above,                    \* Above[d]: the directory that holds d
  Loose,                    \* the <<root, path>> whose objects have keys that do not start with root/path/
  Stray,                    \* Stray[d, o]: where a walk from there puts o, for the local path d
  Contents,
  InitialRemote, InitialLocal,
  MaxCalls, MaxChanges      \* bounds: calls, changes by other plugins

Missing == "missing"
Partial == "partial"      \* of a local file: truncated, its copy not finished
Short == "short"          \* of an object: uploaded from such a file
Stored == Contents \cup {Short, Missing}
NoDataSource == [name |-> "", store |-> "", paths |-> [k \in {} |-> ""], dataKeys |-> {}]

VARIABLES
  pc, req,       \* the call under way, or the last one
  src, dest,     \* the <<root, path>> it reads and the one it writes
  walking,       \* CopyFileToLocal took its path for a directory
  todo,          \* names left to copy, the current one first
  reader,        \* content of the object being read
  result,        \* status of the last call ("none", "nil", "error") and Get's data
  remote, local, \* content of the objects and of the files on disk
  disturbed,     \* history: objects changed by others since the call began
  written,       \* history: objects and files the call has written
  calls, changes

vars == <<pc, req, src, dest, walking, todo, reader, result, remote, local,
          disturbed, written, calls, changes>>
request == <<req, src, dest, calls>>
world == <<remote, local, disturbed, written, changes>>

(***************************************************************************)
(* Lookup: the first of that name in the scope, else in its parent.        *)
(***************************************************************************)
Named(list, n) == \E i \in DOMAIN list : list[i].name = n
First(list, n) ==
  list[CHOOSE i \in DOMAIN list : list[i].name = n /\ \A j \in 1 .. (i - 1) : list[j].name # n]
Has(table, s, n) == Named(table[s], n) \/ Named(table[Parent[s]], n)
Find(table, s, n) ==
  IF Named(table[s], n) THEN First(table[s], n) ELSE First(table[Parent[s]], n)

\* A data source found in the parent still has its store looked up from the
\* scope of the call.
PathOf(ds, key) == IF key \in DOMAIN ds.paths THEN ds.paths[key] ELSE ""
HasStore(r, ds) == Has(Stores, r.scope, ds.store)
StoreFor(r, ds) == Find(Stores, r.scope, ds.store)
IsFileStore(store) == store.session = "file"
OnFileStore(r, ds) == HasStore(r, ds) /\ IsFileStore(StoreFor(r, ds))

\* GetReader takes the data source it is given, Put forgets it.
Given(r) == r.given # NoDataSource
GetSource(r) == IF Given(r) THEN r.given ELSE Find(Inputs, r.scope, r.ds)
PutSource(r) == IF Given(r) THEN NoDataSource ELSE Find(Outputs, r.scope, r.ds)
ToLocalSource(r) == Find(Inputs, r.scope, r.ds)
\* Copy looks for its source among the outputs.
CopySource(r) == Find(Outputs, r.scope, r.from)
CopyDest(r) == Find(Outputs, r.scope, r.ds)
\* CopyFileToRemote: the store and path of the input, or those of a data source.
ToRemoteTarget(r) ==
  IF r.store # "" THEN [store |-> r.store, path |-> r.path]
  ELSE LET ds == Find(Outputs, r.scope, r.ds) IN [store |-> ds.store, path |-> PathOf(ds, r.key)]

\* The early returns of each call.
GetAllowed(r) == (Given(r) \/ Has(Inputs, r.scope, r.ds)) /\ OnFileStore(r, GetSource(r))
PutAllowed(r) ==
  /\ Given(r) \/ Has(Outputs, r.scope, r.ds)
  /\ OnFileStore(r, PutSource(r))
  /\ r.key \in DOMAIN PutSource(r).paths
  /\ r.dataKey # "" => r.dataKey \in PutSource(r).dataKeys
CopyAllowed(r) ==
  /\ Has(Outputs, r.scope, r.from) /\ Has(Outputs, r.scope, r.ds)
  /\ OnFileStore(r, CopySource(r)) /\ OnFileStore(r, CopyDest(r))
ToLocalAllowed(r) ==
  /\ Has(Inputs, r.scope, r.ds)
  /\ r.key \in DOMAIN ToLocalSource(r).paths
  /\ OnFileStore(r, ToLocalSource(r))
OnDisk(r) == \E f \in LocalFiles : f[1] = r.local /\ (r.file # "" => f[2] = r.file) /\ local[f] # Missing
\* A directory without files may be there or not: a call may have made it and failed.
MayExist(r) == OnDisk(r) \/ r.file = ""
Addressed(r) ==
  /\ r.store # "" \/ Has(Outputs, r.scope, r.ds)
  /\ HasStore(r, ToRemoteTarget(r))

\* Where a call reads and writes.
Place(r, ds, path) == <<StoreFor(r, ds).root, path>>
FileIn(place, name) == <<place[1], place[2], name>>
FileAt(place) == FileIn(place, "")
Reads(r) ==
  CASE r.op = "get" -> Place(r, GetSource(r), PathOf(GetSource(r), r.key))
    [] r.op = "copy" -> Place(r, CopySource(r), PathOf(CopySource(r), r.fromKey))
    [] r.op = "toLocal" -> Place(r, ToLocalSource(r), PathOf(ToLocalSource(r), r.key))
Writes(r) ==
  CASE r.op = "put" -> Place(r, PutSource(r), PathOf(PutSource(r), r.key))
    [] r.op = "copy" -> Place(r, CopyDest(r), PathOf(CopyDest(r), r.key))
    [] r.op = "toRemote" -> Place(r, ToRemoteTarget(r), ToRemoteTarget(r).path)

(***************************************************************************)
(* The constants: every object and file a call can name is one there may   *)
(* be, and a walk lists each name once.                                    *)
(***************************************************************************)
Names == {o[3] : o \in Objects} \cup {f[2] : f \in LocalFiles}
ASSUME BoundsAssumption == MaxCalls \in Nat /\ MaxChanges \in Nat
ASSUME ShapesAssumption ==
  /\ \A o \in Objects : o = <<o[1], o[2], o[3]>>
  /\ \A f \in LocalFiles : f = <<f[1], f[2]>>
ASSUME WalkAssumption ==
  /\ WalkOrder \in Seq(Names)
  /\ \A n \in Names : \E i \in DOMAIN WalkOrder : WalkOrder[i] = n
  /\ \A i, j \in DOMAIN WalkOrder : WalkOrder[i] = WalkOrder[j] => i = j
ASSUME ContentsAssumption ==
  /\ Contents \cap {Missing, Partial, Short} = {}
  /\ InitialRemote \subseteq [Objects -> Stored]
  /\ InitialLocal \subseteq [LocalFiles -> Stored \cup {Partial}]
ASSUME RequestsAssumption ==
  /\ Requests # {}
  /\ \A r \in Requests : r.op \in {"get", "put", "copy", "toLocal", "toRemote"} /\ r.data \in Contents
ASSUME PlacesAssumption ==
  \A r \in Requests :
    /\ r.op = "get" /\ GetAllowed(r) => FileAt(Reads(r)) \in Objects
    /\ r.op = "put" /\ PutAllowed(r) => FileAt(Writes(r)) \in Objects
    /\ r.op = "copy" /\ CopyAllowed(r) => FileAt(Reads(r)) \in Objects /\ FileAt(Writes(r)) \in Objects
    /\ r.op = "toLocal" /\ ToLocalAllowed(r) =>
         /\ FileAt(Reads(r)) \in Objects
         /\ {<<r.local, Reads(r)[2]>>, <<Above[r.local], Reads(r)[2]>>} \subseteq LocalFiles
         /\ \A o \in Objects : FileIn(Reads(r), o[3]) = o =>
              IF Reads(r) \in Loose THEN Stray[<<r.local, o>>] \in LocalFiles
              ELSE o[3] # "" => <<r.local, o[3]>> \in LocalFiles
    /\ r.op = "toRemote" /\ Addressed(r) =>
         IF r.file # "" THEN FileAt(Writes(r)) \in Objects
         ELSE \A f \in LocalFiles : f[1] = r.local => FileIn(Writes(r), f[2]) \in Objects

(***************************************************************************)
(* The calls, step by step                                                 *)
(***************************************************************************)
Init ==
  /\ pc = "idle" /\ req = (CHOOSE r \in Requests : TRUE)
  /\ src = <<"", "">> /\ dest = <<"", "">>
  /\ walking = FALSE /\ todo = <<>>
  /\ reader = Missing /\ result = [status |-> "none", data |-> Missing]
  /\ remote \in InitialRemote /\ local \in InitialLocal
  /\ disturbed = {} /\ written = {}
  /\ calls = 0 /\ changes = 0

Returns(status) == pc' = "idle" /\ result' = [status |-> status, data |-> Missing]

Begin(r) ==
  /\ pc = "idle" /\ r \in Requests /\ calls < MaxCalls
  /\ req' = r /\ calls' = calls + 1
  /\ walking' = FALSE /\ reader' = Missing
  /\ disturbed' = {} /\ written' = {}
  /\ UNCHANGED <<remote, local, changes>>
Rejected(r, op, allowed) ==
  /\ r.op = op /\ ~allowed
  /\ Begin(r) /\ Returns("error")
  /\ UNCHANGED <<src, dest, todo>>
Started(r, op, allowed, step) ==
  /\ r.op = op /\ allowed
  /\ Begin(r)
  /\ pc' = step /\ UNCHANGED result

Get(r) ==
  \/ Rejected(r, "get", GetAllowed(r))
  \/ /\ Started(r, "get", GetAllowed(r), "open")
     /\ src' = Reads(r)
     /\ UNCHANGED <<dest, todo>>

Put(r) ==
  \/ Rejected(r, "put", PutAllowed(r))
  \/ /\ Started(r, "put", PutAllowed(r), "write")
     /\ dest' = Writes(r)
     /\ UNCHANGED <<src, todo>>

Copy(r) ==
  \/ Rejected(r, "copy", CopyAllowed(r))
  \/ /\ Started(r, "copy", CopyAllowed(r), "open")
     /\ src' = Reads(r) /\ dest' = Writes(r)
     /\ UNCHANGED todo

CopyFileToLocal(r) ==
  \/ Rejected(r, "toLocal", ToLocalAllowed(r))
  \/ /\ Started(r, "toLocal", ToLocalAllowed(r), "stat")
     /\ src' = Reads(r)
     /\ UNCHANGED <<dest, todo>>

\* A walk gives the names of a directory in order.
Before(a, b) == \E i, j \in DOMAIN WalkOrder : i < j /\ WalkOrder[i] = a /\ WalkOrder[j] = b
Walks(names) ==
  {s \in UNION {[1 .. k -> names] : k \in 0 .. Len(WalkOrder)} :
     /\ \A n \in names : \E i \in DOMAIN s : s[i] = n
     /\ \A i, j \in DOMAIN s : i < j => Before(s[i], s[j])}

\* Without a file store session there is nothing to do, and no error.
LocalNames(r) == {f[2] : f \in {g \in LocalFiles : g[1] = r.local /\ local[g] # Missing}}
CopyFileToRemote(r) ==
  LET session == IsFileStore(StoreFor(r, ToRemoteTarget(r))) IN
  \/ Rejected(r, "toRemote", Addressed(r) /\ OnDisk(r))
  \/ /\ r.op = "toRemote" /\ Addressed(r) /\ MayExist(r) /\ Begin(r)
     /\ dest' = Writes(r)
     /\ todo' \in IF r.file # "" THEN {<<r.file>>} ELSE Walks(LocalNames(r))
     /\ UNCHANGED src
     /\ \/ session /\ pc' = "upload" /\ UNCHANGED result
        \/ ~session /\ Returns("nil")

\* GetObject: an error, or the content the object has now.
Open ==
  /\ pc = "open"
  /\ \/ /\ remote[FileAt(src)] # Missing
        /\ reader' = remote[FileAt(src)]
        /\ pc' = IF req.op = "get" THEN "read" ELSE "write"
        /\ UNCHANGED result
     \/ Returns("error") /\ UNCHANGED reader
  /\ UNCHANGED <<request, walking, todo, world>>

\* Get ignores the error of reading: it may return part of the object.
Read ==
  /\ pc = "read"
  /\ pc' = "idle"
  /\ \E d \in {reader, Partial} : result' = [status |-> "nil", data |-> d]
  /\ UNCHANGED <<request, walking, todo, reader, world>>

\* PutObject stores the whole content or nothing. Its answer may get lost: an
\* error does not say that nothing was stored.
Sent == IF req.op = "put" THEN req.data ELSE reader

\* Mutant: the error of PutObject is dropped.
WriteIgnoringError ==
  /\ pc = "write"
  /\ \/ /\ remote' = [remote EXCEPT ![FileAt(dest)] = Sent]
        /\ written' = {FileAt(dest)}
     \/ UNCHANGED <<remote, written>>
  /\ Returns("nil")
  /\ UNCHANGED <<request, walking, todo, reader, local, disturbed, changes>>

\* Mutant: the content is stored as it is read.
WriteInPieces ==
  /\ pc = "write"
  /\ written' = {FileAt(dest)}
  /\ \/ /\ remote' = [remote EXCEPT ![FileAt(dest)] = Sent]
        /\ Returns("nil")
     \/ /\ remote' = [remote EXCEPT ![FileAt(dest)] = Partial]
        /\ Returns("error")
  /\ UNCHANGED <<request, walking, todo, reader, local, disturbed, changes>>

Write ==
  /\ pc = "write"
  /\ \/ /\ remote' = [remote EXCEPT ![FileAt(dest)] = Sent]
        /\ written' = {FileAt(dest)}
        /\ Returns("nil") \/ Returns("error")
     \/ Returns("error") /\ UNCHANGED <<remote, written>>
  /\ UNCHANGED <<request, walking, todo, reader, local, disturbed, changes>>

\* GetObjectInfo: any error, not only a missing object, means "a directory";
\* the walk then lists what is under the path.
Under(place) == {o[3] : o \in {p \in Objects : FileIn(place, p[3]) = p /\ remote[p] # Missing}}
Stat ==
  /\ pc = "stat"
  /\ \/ /\ remote[FileAt(src)] # Missing
        /\ walking' = FALSE /\ todo' = <<"">>
        /\ pc' = "fetch" /\ UNCHANGED result
     \/ /\ walking' = TRUE /\ todo' \in Walks(Under(src))
        /\ pc' = "fetch" /\ UNCHANGED result
     \/ walking' = TRUE /\ Returns("error") /\ UNCHANGED todo
  /\ UNCHANGED <<request, reader, world>>

\* copyToLocal: open the object, create the directory and truncate the file,
\* copy. A walked file goes to the directory part of its key with the first
\* root/path in it replaced by LocalPath, which for the object at the path itself
\* is the directory above LocalPath. With a root "" or "/", or a path "" or one that
\* ends in "/", that is not LocalPath/name: the key has no root/path and stays, a
\* later part of it is replaced, or no "/" is left after LocalPath.
Target(name) ==
  IF ~walking THEN <<req.local, src[2]>>
  ELSE IF src \in Loose THEN Stray[<<req.local, FileIn(src, name)>>]
  ELSE IF name = "" THEN <<Above[req.local], src[2]>> ELSE <<req.local, name>>
Fetch ==
  /\ pc = "fetch" /\ todo # <<>>
  /\ LET object == FileIn(src, Head(todo)) IN
     \/ remote[object] # Missing /\ reader' = remote[object] /\ pc' = "create" /\ UNCHANGED result
     \/ Returns("error") /\ UNCHANGED reader
  /\ UNCHANGED <<request, walking, todo, world>>

Create ==
  /\ pc = "create"
  /\ \/ /\ local' = [local EXCEPT ![Target(Head(todo))] = Partial]
        /\ written' = written \cup {Target(Head(todo))}
        /\ pc' = "fill" /\ UNCHANGED result
     \/ Returns("error") /\ UNCHANGED <<local, written>>
  /\ UNCHANGED <<request, walking, todo, reader, remote, disturbed, changes>>

\* Mutant: the error of the copy is dropped.
FillIgnoringError ==
  /\ pc = "fill"
  /\ \/ local' = [local EXCEPT ![Target(Head(todo))] = reader]
     \/ UNCHANGED local
  /\ todo' = Tail(todo)
  /\ pc' = "fetch"
  /\ UNCHANGED <<request, walking, reader, result, remote, disturbed, written, changes>>

\* Mutant: only the error of the last file ends the walk.
FillReturningLastError ==
  /\ pc = "fill"
  /\ \/ /\ local' = [local EXCEPT ![Target(Head(todo))] = reader]
        /\ todo' = Tail(todo)
        /\ pc' = "fetch" /\ UNCHANGED result
     \/ Len(todo) > 1 /\ todo' = Tail(todo) /\ pc' = "fetch" /\ UNCHANGED <<local, result>>
     \/ Len(todo) = 1 /\ Returns("error") /\ UNCHANGED <<local, todo>>
  /\ UNCHANGED <<request, walking, reader, remote, disturbed, written, changes>>

Fill ==
  /\ pc = "fill"
  /\ \/ /\ local' = [local EXCEPT ![Target(Head(todo))] = reader]
        /\ todo' = Tail(todo)
        /\ pc' = "fetch" /\ UNCHANGED result
     \/ Returns("error") /\ UNCHANGED <<local, todo>>
  /\ UNCHANGED <<request, walking, reader, remote, disturbed, written, changes>>

WalkEnds ==
  /\ pc = "fetch" /\ todo = <<>>
  /\ Returns("nil")
  /\ UNCHANGED <<request, walking, todo, reader, world>>

\* writeFileToRemote; in a directory the walk stops at the first error, and the
\* walk's error is dropped.
Uploaded(name) == FileIn(dest, IF req.file # "" THEN "" ELSE name)
Bytes(file) == IF local[file] = Partial THEN Short ELSE local[file]

\* Mutant: the walk goes on after a file that could not be stored.
UploadTheRest ==
  /\ pc = "upload" /\ todo # <<>>
  /\ \/ /\ remote' = [remote EXCEPT ![Uploaded(Head(todo))] = Bytes(<<req.local, Head(todo)>>)]
        /\ written' = written \cup {Uploaded(Head(todo))}
     \/ UNCHANGED <<remote, written>>
  /\ todo' = Tail(todo)
  /\ UNCHANGED <<pc, result, request, walking, reader, local, disturbed, changes>>

UploadFails == Returns(IF req.file # "" THEN "error" ELSE "nil") /\ UNCHANGED todo
Upload ==
  /\ pc = "upload" /\ todo # <<>>
  /\ \/ /\ remote' = [remote EXCEPT ![Uploaded(Head(todo))] = Bytes(<<req.local, Head(todo)>>)]
        /\ written' = written \cup {Uploaded(Head(todo))}
        /\ \/ todo' = Tail(todo) /\ UNCHANGED <<pc, result>>
           \/ UploadFails
     \/ UploadFails /\ UNCHANGED <<remote, written>>
  /\ UNCHANGED <<request, walking, reader, local, disturbed, changes>>

UploadEnds ==
  /\ pc = "upload" /\ todo = <<>>
  /\ Returns("nil")
  /\ UNCHANGED <<request, walking, todo, reader, world>>

(***************************************************************************)
(* Another plugin writes or deletes an object.                             *)
(***************************************************************************)
RemoteChange(o, c) ==
  /\ changes < MaxChanges /\ changes' = changes + 1
  /\ remote[o] # c
  /\ remote' = [remote EXCEPT ![o] = c]
  /\ disturbed' = disturbed \cup {o}
  /\ UNCHANGED <<pc, request, walking, todo, reader, result, local, written>>

Step ==
  Open \/ Read \/ Write \/ Stat \/ Fetch \/ Create \/ Fill \/ WalkEnds \/ Upload \/ UploadEnds
Call(r) == Get(r) \/ Put(r) \/ Copy(r) \/ CopyFileToLocal(r) \/ CopyFileToRemote(r)
Next ==
  \/ \E r \in Requests : Call(r)
  \/ Step
  \/ \E o \in Objects, c \in Contents \cup {Missing} : RemoteChange(o, c)

Spec == Init /\ [][Next]_vars

(***************************************************************************)
(* Properties                                                              *)
(***************************************************************************)
PCs == {"idle", "open", "read", "write", "stat", "fetch", "create", "fill", "upload"}

\* Types of the call's variables and of what is stored: only a local file is
\* ever partial, an object is whole.
TypeOK ==
  /\ pc \in PCs /\ req \in Requests /\ walking \in BOOLEAN
  /\ todo \in Seq(Names) /\ reader \in Stored
  /\ result \in [status : {"none", "nil", "error"}, data : Stored \cup {Partial}]
  /\ remote \in [Objects -> Stored] /\ local \in [LocalFiles -> Stored \cup {Partial}]
  /\ disturbed \subseteq Objects /\ written \subseteq Objects \cup LocalFiles
  /\ calls \in 0 .. MaxCalls /\ changes \in 0 .. MaxChanges

Returned(op, status) == pc = "idle" /\ result.status = status /\ req.op = op

\* CopyFileToLocal returns nil only when what is at the path, and nobody changed
\* meanwhile, is on disk below LocalPath with its content: the object at the path or,
\* if there is none, every object under it. Nil says nothing of an object at the path
\* that was taken for a directory, of the objects under a path where there is an
\* object too, and of a walk of a place whose keys do not start with root/path/.
CopyToLocalComplete ==
  Returned("toLocal", "nil") =>
    \A o \in Objects :
      /\ FileIn(src, o[3]) = o /\ remote[o] # Missing /\ o \notin disturbed
      /\ o[3] = "" => ~walking
      /\ o[3] # "" => FileAt(src) \notin disturbed /\ remote[FileAt(src)] = Missing /\ src \notin Loose
      => local[<<req.local, IF o[3] = "" THEN src[2] ELSE o[3]>>] = remote[o]

\* A CopyFileToLocal that fails leaves at most one file truncated: every other file
\* it wrote is whole.
AtMostOneTruncated ==
  Returned("toLocal", "error") =>
    \A f, g \in written : local[f] = Partial /\ local[g] = Partial => f = g

\* A Put, Copy or upload of one file to a file store that returns nil stored what
\* it was given or had read, unless someone else has written it since.
NilMeansStored ==
  /\ Returned("put", "nil") \/ Returned("copy", "nil") =>
       FileAt(dest) \in disturbed \/ remote[FileAt(dest)] = Sent
  /\ Returned("toRemote", "nil") /\ req.file # "" /\ IsFileStore(StoreFor(req, ToRemoteTarget(req))) =>
       FileAt(dest) \in disturbed \/ remote[FileAt(dest)] = Bytes(<<req.local, req.file>>)

\* A call that returns an error may be made again: it has changed no object but
\* the one it was storing, and that one has its old content or all of the new.
ErrorLeavesWhole ==
  pc = "idle" /\ result.status = "error" =>
    \A o \in written \cap Objects :
      o = FileAt(dest) /\ (o \in disturbed
        \/ remote[o] = IF req.op = "toRemote" THEN Bytes(<<req.local, req.file>>) ELSE Sent)

\* A directory upload that stops half way has stored a prefix of the walk, each
\* file whole; nothing after the failure is written.
UploadIsPrefix ==
  Returned("toRemote", "nil") /\ req.file = "" =>
    \A a, b \in LocalNames(req) :
      Before(a, b) /\ Uploaded(b) \in written => Uploaded(a) \in written
=============================================================================
