------------------------------- MODULE CcStore -------------------------------
(***************************************************************************)
(* The compute store, ccstore_s3.go and ccstore_fsb.go. The launcher (cloud*)
(* compute) sets the payload of a run; the plugins of the run, each with a *)
(* local directory of its own, read it and exchange objects through the    *)
(* remote root. A process may die between any two of its steps.            *)
(*                                                                         *)
(* kind says which implementation runs. Writing a file of the FSB store    *)
(* truncates it and then fills it; an S3 object changes at once or not at  *)
(* all. A file is Missing, Empty, Torn (cut short or mixed) or whole.      *)
(***************************************************************************)
EXTENDS Naturals

CONSTANTS
  Kinds,              \* the implementations a run may use: "FSB", "S3"
  Launcher, Plugins,  \* the processes
  Names,              \* object names
  Payloads, Contents, \* whole payload documents and whole objects
  MaxCalls, MaxCrashes \* bounds

ASSUME KindAssumption == Kinds \subseteq {"FSB", "S3"}
ASSUME BoundsAssumption == MaxCalls \in Nat /\ MaxCrashes \in Nat
ASSUME DistinctAssumption ==
  /\ Launcher \notin Plugins /\ "payload" \notin Names
  /\ {"missing", "empty", "torn"} \cap (Payloads \cup Contents) = {}

Missing == "missing"
Empty == "empty"
Torn == "torn"
Processes == Plugins \cup {Launcher}
Keys == Names \cup {"payload"}
Damaged == {Empty, Torn}

VARIABLES
  kind,    \* the implementation of this run, the same for all processes
  pc,      \* pc[p]: the step process p is at
  call,    \* call[p]: operation, key and data of the call in progress
  answer,  \* answer[p]: operation, status and data of the last call that returned
  remote,  \* the files of remoteRootPath: the run's objects and its payload
  local,   \* local[p]: the files of p's local directory
  fetched, \* fetched[p]: content of the source when PullObject opened it
  acked,   \* history: the payload whose SetPayload returned nil last, else Missing
  offered, \* history: the payloads some SetPayload was given
  seen,    \* seen[p]: contents the key of p's call had since it began
  kept,    \* history: kept[p]: p's local file when its call began
  calls, crashes

vars == <<kind, pc, call, answer, remote, local, fetched, acked, offered, seen, kept, calls, crashes>>

NoCall == [op |-> "none", key |-> "payload", data |-> Missing]
Init ==
  /\ kind \in Kinds
  /\ pc = [p \in Processes |-> "idle"]
  /\ call = [p \in Processes |-> NoCall]
  /\ answer = [p \in Processes |-> [op |-> "none", status |-> "none", data |-> Missing]]
  /\ remote = [k \in Keys |-> Missing]
  /\ local \in [Plugins -> [Names -> {Missing} \cup Contents]]
  /\ fetched = [p \in Plugins |-> Missing]
  /\ acked = Missing /\ offered = {}
  /\ seen = [p \in Processes |-> {}]
  /\ kept = [p \in Plugins |-> Missing]
  /\ calls = 0 /\ crashes = 0

\* What a read of the call's path finds. SourceRootPath is the remote root; below
\* any other there is nothing, as with a key that was never written.
Source(p) == remote[call[p].key]
Watch(k, c) == [p \in Processes |->
  IF call[p].key = k /\ pc[p] # "idle" THEN seen[p] \cup {c} ELSE seen[p]]

Return(p, status, data) ==
  /\ pc' = [pc EXCEPT ![p] = "idle"]
  /\ answer' = [answer EXCEPT ![p] = [op |-> call[p].op, status |-> status, data |-> data]]
Goto(p, step) == pc' = [pc EXCEPT ![p] = step] /\ UNCHANGED answer

\* A process makes a call; "step" is the first thing the implementation does.
Call(p, op, k, data, step) ==
  /\ pc[p] = "idle" /\ calls < MaxCalls
  /\ calls' = calls + 1
  /\ call' = [call EXCEPT ![p] = [op |-> op, key |-> k, data |-> data]]
  /\ seen' = [seen EXCEPT ![p] = {remote[k]}]
  /\ Goto(p, step)
  /\ UNCHANGED <<kind, remote, local, fetched, crashes>>

WriteStep == IF kind = "FSB" THEN "truncate" ELSE "put"
SetPayload(v) ==
  /\ Call(Launcher, "SetPayload", "payload", v, WriteStep)
  /\ offered' = offered \cup {v} /\ acked' = Missing
  /\ UNCHANGED kept
GetPayload(p) ==
  Call(p, "GetPayload", "payload", Missing, "decode") /\ UNCHANGED <<acked, offered, kept>>
\* ObjectState Memory; LocalDisk reads the local file first.
PutMemory(p, n, v) ==
  Call(p, "PutObject", n, v, WriteStep) /\ UNCHANGED <<acked, offered, kept>>
PutLocalDisk(p, n) ==
  /\ Call(p, "PutObject", n, local[p][n], IF local[p][n] = Missing THEN "fail" ELSE WriteStep)
  /\ UNCHANGED <<acked, offered, kept>>
PutRemoteDisk(p, n) ==
  Call(p, "PutObject", n, Missing, "fail") /\ UNCHANGED <<acked, offered, kept>>
GetObject(p, n) ==
  Call(p, "GetObject", n, Missing, "read") /\ UNCHANGED <<acked, offered, kept>>

\* FSB opens the source before it creates the destination, S3 creates first.
PullObject(p, n) ==
  /\ Call(p, "PullObject", n, Missing, IF kind = "FSB" THEN "open" ELSE "create")
  /\ kept' = [kept EXCEPT ![p] = local[p][n]]
  /\ UNCHANGED <<acked, offered>>

bookkeeping == <<kind, call, offered, kept, calls, crashes>>

\* An unsupported ObjectState, a local file that cannot be read, or a write that
\* did not end.
Fail(p) ==
  /\ pc[p] = "fail" /\ Return(p, "error", Missing)
  /\ UNCHANGED <<bookkeeping, remote, local, fetched, acked, seen>>

(***************************************************************************)
(* Writing a remote file                                                   *)
(***************************************************************************)
Leaves(k, c) == remote' = [remote EXCEPT ![k] = c] /\ seen' = Watch(k, c)

\* os.MkdirAll and os.WriteFile's open, which truncates.
Truncate(p) ==
  /\ pc[p] = "truncate"
  /\ \/ Leaves(call[p].key, Empty) /\ Goto(p, "fill")
     \/ Return(p, "error", Missing) /\ UNCHANGED <<remote, seen>>
  /\ UNCHANGED <<bookkeeping, local, fetched, acked>>

\* Mutant: a short write is not reported.
FillIgnoringError(p) ==
  /\ pc[p] = "fill"
  /\ Leaves(call[p].key, call[p].data) \/ Leaves(call[p].key, Torn)
  /\ Goto(p, "reply")
  /\ UNCHANGED <<bookkeeping, local, fetched, acked>>

\* One write of the whole data. Over a file another process has filled since, a
\* shorter text leaves the end of the longer one.
Fill(p) ==
  LET k == call[p].key IN
  /\ pc[p] = "fill"
  /\ \/ Leaves(k, call[p].data) /\ Goto(p, "reply")
     \/ remote[k] # Empty /\ Leaves(k, Torn) /\ Goto(p, "reply")
     \/ Leaves(k, Torn) /\ Goto(p, "fail")
  /\ UNCHANGED <<bookkeeping, local, fetched, acked>>

\* Mutant: the error of the object store is dropped.
PutIgnoringError(p) ==
  /\ pc[p] = "put"
  /\ Leaves(call[p].key, call[p].data) \/ UNCHANGED <<remote, seen>>
  /\ Goto(p, "reply")
  /\ UNCHANGED <<bookkeeping, local, fetched, acked>>

\* fs.PutObject: the object is stored at once, or not at all.
PutWhole(p) ==
  /\ pc[p] = "put"
  /\ \/ Leaves(call[p].key, call[p].data) /\ Goto(p, "reply")
     \/ Return(p, "error", Missing) /\ UNCHANGED <<remote, seen>>
  /\ UNCHANGED <<bookkeeping, local, fetched, acked>>

Acked(p) == IF p = Launcher THEN call[p].data ELSE acked

\* The answer of the file's close or of the object store, which may get lost:
\* an error does not say that nothing was written.
Reply(p) ==
  /\ pc[p] = "reply"
  /\ \/ Return(p, "nil", Missing) /\ acked' = Acked(p)
     \/ Return(p, "error", Missing) /\ UNCHANGED acked
  /\ UNCHANGED <<bookkeeping, remote, local, fetched, seen>>

(***************************************************************************)
(* Reading                                                                 *)
(***************************************************************************)
\* os.ReadFile reads a file in pieces: one rewritten meanwhile may come out as a
\* mix of what it held. An S3 object is read as it was at one instant.
MixOf(held) == IF kind = "FSB" /\ \E c, d \in held : c # d THEN {Torn} ELSE {}

\* Mutant: what was read is taken for a payload as it is.
DecodeAnything(p) ==
  /\ pc[p] = "decode"
  /\ Return(p, "nil", Source(p))
  /\ UNCHANGED <<bookkeeping, remote, local, fetched, acked, seen>>

\* A text cut short is not a JSON document; pieces of two documents may be one.
Decode(p) ==
  /\ pc[p] = "decode"
  /\ \/ \E d \in ({Source(p)} \cap Payloads) \cup MixOf(seen[p] \cap Payloads) : Return(p, "nil", d)
     \/ Return(p, "error", Missing)
  /\ UNCHANGED <<bookkeeping, remote, local, fetched, acked, seen>>

Read(p) ==
  /\ pc[p] = "read"
  /\ \/ \E d \in ({Source(p)} \ {Missing}) \cup MixOf(seen[p] \ {Missing}) : Return(p, "nil", d)
     \/ Return(p, "error", Missing)
  /\ UNCHANGED <<bookkeeping, remote, local, fetched, acked, seen>>

\* Mutant: the destination exists by the time the source cannot be opened.
OpenAfterCreate(p) ==
  /\ pc[p] = "open"
  /\ \/ /\ Source(p) # Missing
        /\ fetched' = [fetched EXCEPT ![p] = Source(p)]
        /\ Goto(p, IF kind = "FSB" THEN "create" ELSE "copy")
        /\ UNCHANGED local
     \/ /\ Return(p, "error", Missing) /\ UNCHANGED fetched
        /\ local' = [local EXCEPT ![p][call[p].key] = Empty]
  /\ UNCHANGED <<bookkeeping, remote, acked, seen>>

\* PullObject: os.Open or fs.GetObject of the source ...
Open(p) ==
  /\ pc[p] = "open"
  /\ \/ /\ Source(p) # Missing
        /\ fetched' = [fetched EXCEPT ![p] = Source(p)]
        /\ Goto(p, IF kind = "FSB" THEN "create" ELSE "copy")
     \/ Return(p, "error", Missing) /\ UNCHANGED fetched
  /\ UNCHANGED <<bookkeeping, remote, local, acked, seen>>

\* ... os.Create of the destination, which truncates it ...
Create(p) ==
  /\ pc[p] = "create"
  /\ \/ /\ local' = [local EXCEPT ![p][call[p].key] = Empty]
        /\ Goto(p, IF kind = "FSB" THEN "copy" ELSE "open")
     \/ Return(p, "error", Missing) /\ UNCHANGED local
  /\ UNCHANGED <<bookkeeping, remote, fetched, acked, seen>>

\* ... and io.Copy, piece by piece. The S3 store copies into a bufio.Writer it
\* never flushes; nothing stays in it because its ReadFrom hands the reader over
\* to the file. What is read of an S3 object is the object
\* asked for; a file is read as it is now, and one that has changed since it was
\* opened may come out as a mix.
Copied(p) ==
  IF kind = "S3" THEN {fetched[p]}
  ELSE {Source(p)} \cup (IF Source(p) = fetched[p] THEN {} ELSE {Torn})

\* Mutant: the error of the copy is dropped.
CopyIgnoringError(p) ==
  /\ pc[p] = "copy"
  /\ \E c \in Copied(p) \cup {Torn} : local' = [local EXCEPT ![p][call[p].key] = c]
  /\ Return(p, "nil", Missing)
  /\ UNCHANGED <<bookkeeping, remote, fetched, acked, seen>>

Copy(p) ==
  /\ pc[p] = "copy"
  /\ \/ /\ \E c \in Copied(p) : local' = [local EXCEPT ![p][call[p].key] = c]
        /\ Return(p, "nil", Missing)
     \/ /\ local' = [local EXCEPT ![p][call[p].key] = Torn]
        /\ Return(p, "error", Missing)
  /\ UNCHANGED <<bookkeeping, remote, fetched, acked, seen>>

\* The process dies where it is; it is started again with its files.
Crash(p) ==
  /\ crashes < MaxCrashes /\ crashes' = crashes + 1
  /\ pc[p] # "idle"
  /\ pc' = [pc EXCEPT ![p] = "idle"]
  /\ answer' = [answer EXCEPT ![p] = [op |-> "none", status |-> "none", data |-> Missing]]
  /\ UNCHANGED <<kind, call, remote, local, fetched, acked, offered, seen, kept, calls>>

Begin ==
  \/ \E v \in Payloads : SetPayload(v)
  \/ \E p \in Plugins : GetPayload(p)
  \/ \E p \in Plugins, n \in Names :
       \/ \E v \in Contents : PutMemory(p, n, v)
       \/ PutLocalDisk(p, n) \/ PutRemoteDisk(p, n)
       \/ GetObject(p, n) \/ PullObject(p, n)
Step(p) ==
  \/ Fail(p) \/ Truncate(p) \/ Fill(p) \/ PutWhole(p) \/ Reply(p)
  \/ Decode(p) \/ Read(p) \/ Open(p) \/ Create(p) \/ Copy(p)
Next == Begin \/ \E p \in Processes : Step(p) \/ Crash(p)

Spec == Init /\ [][Next]_vars

(***************************************************************************)
(* Properties                                                              *)
(***************************************************************************)
PCs == {"idle", "fail", "truncate", "fill", "put", "reply", "decode", "read", "open", "create", "copy"}
Operations == {"none", "SetPayload", "GetPayload", "PutObject", "GetObject", "PullObject"}
Data == Payloads \cup Contents \cup {Missing, Empty, Torn}

\* Types of the files, the calls and their answers.
TypeOK ==
  /\ kind \in Kinds
  /\ pc \in [Processes -> PCs]
  /\ call \in [Processes -> [op : Operations, key : Keys, data : Data]]
  /\ answer \in [Processes -> [op : Operations, status : {"none", "nil", "error"}, data : Data]]
  /\ remote \in [Keys -> Data] /\ local \in [Plugins -> [Names -> Data]]
  /\ fetched \in [Plugins -> Data]
  /\ acked \in Payloads \cup {Missing} /\ offered \subseteq Payloads
  /\ seen \in [Processes -> SUBSET Data] /\ kept \in [Plugins -> Data]
  /\ calls \in 0 .. MaxCalls /\ crashes \in 0 .. MaxCrashes

Answered(p, op, status) == pc[p] = "idle" /\ answer[p].op = op /\ answer[p].status = status

\* GetPayload gives a document SetPayload was given, or an error, also when the
\* launcher is writing the file or died writing it. A plugin starts from a payload
\* nobody set only in the file store, and only when the file held two payloads
\* while it was read: the read may put pieces of both together.
PayloadIsWhole ==
  \A p \in Plugins : Answered(p, "GetPayload", "nil") =>
    \/ answer[p].data \in offered
    \/ kind = "FSB" /\ \E c, d \in seen[p] \cap offered : c # d

\* A payload whose SetPayload returned nil stays in the store, readable, until
\* the next SetPayload begins, whatever the plugins do and whoever dies.
AckedPayloadStays == acked # Missing => remote["payload"] = acked

\* PullObject returns nil only with a content the object had during the call: no
\* remains of the file that was there, nothing cut short. Only from a file store,
\* and only when the object changed under the call, it may be a mix.
PulledWasThere ==
  \A p \in Plugins : Answered(p, "PullObject", "nil") =>
    LET found == seen[p] \ {Missing} IN
    \/ local[p][call[p].key] \in found
    \/ kind = "FSB" /\ \E c, d \in found : c # d

\* PullObject "copies it to the local directory if a file of that name is found
\* in the remote store": when there was none the local file is left alone.
PullMissingKeepsLocal ==
  \A p \in Plugins : Answered(p, "PullObject", "error") /\ seen[p] = {Missing} =>
    local[p][call[p].key] = kept[p]

\* The file store opens the source first, so there it holds.
FileStoreKeepsLocal == kind = "FSB" => PullMissingKeepsLocal

\* Seen from outside, both implementations are an object store whose puts and
\* gets act at one instant; only the files of the file store may be damaged.
Puts == {"SetPayload", "PutObject"}
Holds(p) ==
  IF pc[p] = "reply" THEN call[p].data
  ELSE IF pc[p] = "copy" \/ (kind = "FSB" /\ pc[p] = "create") THEN fetched[p]
  ELSE Missing
storeOp == [p \in Processes |->
  IF pc[p] = "idle" THEN [kind |-> "none", key |-> Missing, data |-> Missing]
  ELSE IF call[p].op \in Puts THEN [kind |-> "put", key |-> call[p].key, data |-> call[p].data]
  ELSE [kind |-> "get", key |-> call[p].key, data |-> Missing]]
storeGot == [p \in Processes |-> Holds(p)]
storeOutcome == [p \in Processes |->
  IF pc[p] # "idle" THEN [status |-> "none", data |-> Missing]
  ELSE [status |-> answer[p].status,
        data |-> IF Answered(p, "PullObject", "nil") THEN local[p][call[p].key] ELSE answer[p].data]]
Store == INSTANCE AbstractStore WITH
  Clients <- Processes, Values <- Data \ {Missing}, None <- Missing,
  atomic <- kind = "S3", object <- remote,
  op <- storeOp, got <- storeGot, outcome <- storeOutcome

\* A put whose answer is nil took effect once, whole, during the call; a get
\* answers with the object as it was at one instant of the call; nothing else
\* changes an object.
ImplementsStore == Store!Spec
=============================================================================
