---------------------------- MODULE CcStoreProofs ----------------------------
(***************************************************************************)
(* What both compute stores guarantee for any number of plugins, objects,  *)
(* calls and crashes: a payload is read whole and stays once acknowledged, *)
(* a pull that answers nil gave what was there.                            *)
(***************************************************************************)
EXTENDS CcStore, TLAPS

\* Which call a step belongs to: only the launcher sets payloads, only plugins
\* handle objects, and only something is ever written.
CallInv ==
  \A p \in Processes :
    /\ pc[p] \in {"truncate", "fill", "put", "reply"} => call[p].op \in Puts /\ call[p].data # Missing
    /\ pc[p] \in {"open", "create", "copy"} => call[p].op = "PullObject"
    /\ pc[p] = "decode" => call[p].op = "GetPayload"
    /\ pc[p] = "read" => call[p].op = "GetObject"
    /\ pc[p] = "fail" => call[p].op \in Puts
    /\ call[p].op \in {"PutObject", "GetObject", "PullObject"} => p \in Plugins /\ call[p].key \in Names
    /\ call[p].op = "SetPayload" => p = Launcher /\ call[p].key = "payload" /\ call[p].data \in offered
    /\ call[p].op = "GetPayload" => p \in Plugins /\ call[p].key = "payload"

TInv == TypeOK /\ CallInv

\* The payload's file on its way through a SetPayload: nobody but the launcher
\* writes it, so it is what the launcher's last step left.
PayloadInv ==
  /\ remote["payload"] \in offered \cup {Missing, Empty, Torn}
  /\ pc[Launcher] # "idle" => acked = Missing
  /\ pc[Launcher] = "fill" => remote["payload"] = Empty
  /\ pc[Launcher] = "reply" => remote["payload"] = call[Launcher].data
  /\ AckedPayloadStays

\* What a GetPayload met on its way, and what the last one answered.
SeenInv ==
  /\ \A p \in Processes : call[p].op = "GetPayload" => seen[p] \subseteq offered \cup {Missing, Empty, Torn}
  /\ PayloadIsWhole

\* A pull under way: what it met was there, and an object never goes away again.
PullInv ==
  /\ \A p \in Processes : pc[p] # "idle" => remote[call[p].key] \in seen[p]
  /\ \A p \in Plugins : pc[p] = "copy" \/ (kind = "FSB" /\ pc[p] = "create") =>
       /\ fetched[p] \in seen[p] \ {Missing}
       /\ remote[call[p].key] # Missing
  /\ \A p \in Plugins : kind = "FSB" /\ pc[p] = "open" => local[p][call[p].key] = kept[p]
  /\ PulledWasThere
  /\ FileStoreKeepsLocal

(***************************************************************************)
(* Types                                                                   *)
(***************************************************************************)
\* The launcher is a process, the payload a key, and no marker a whole content.
LEMMA Distinct ==
  /\ Launcher \in Processes /\ Plugins \subseteq Processes /\ Launcher \notin Plugins
  /\ "payload" \in Keys /\ Names \subseteq Keys /\ "payload" \notin Names
  /\ {Missing, Empty, Torn} \cap (Payloads \cup Contents) = {}
  /\ Missing # Empty /\ Missing # Torn
  /\ {Missing, Empty, Torn} \subseteq Data /\ Payloads \subseteq Data /\ Contents \subseteq Data
BY DistinctAssumption DEF Processes, Keys, Missing, Empty, Torn, Data

\* The initial states have their types.
LEMMA InitTInv == Init => TInv
<1> SUFFICES ASSUME Init PROVE TInv
  OBVIOUS
<1>1. call \in [Processes -> [op : Operations, key : Keys, data : Data]]
  BY Distinct DEF Init, NoCall, Operations
<1>2. answer \in [Processes -> [op : Operations, status : {"none", "nil", "error"}, data : Data]]
  BY Distinct DEF Init, Operations
<1>3. local \in [Plugins -> [Names -> Data]]
  BY Distinct DEF Init
<1>4. pc \in [Processes -> PCs] /\ remote \in [Keys -> Data] /\ fetched \in [Plugins -> Data]
      /\ seen \in [Processes -> SUBSET Data] /\ kept \in [Plugins -> Data]
  BY Distinct DEF Init, PCs
<1>5. calls \in 0 .. MaxCalls /\ crashes \in 0 .. MaxCrashes
  BY BoundsAssumption DEF Init
<1>6. TypeOK
  BY <1>1, <1>2, <1>3, <1>4, <1>5 DEF Init, TypeOK
<1>7. CallInv
  BY DEF Init, CallInv, NoCall
<1>. QED BY <1>6, <1>7 DEF TInv

\* What watching a file records is content.
LEMMA WatchType ==
  ASSUME TypeOK, NEW k \in Keys, NEW c \in Data
  PROVE  Watch(k, c) \in [Processes -> SUBSET Data]
BY DEF TypeOK, Watch

\* A call that begins keeps the types.
LEMMA CallType ==
  ASSUME TInv, NEW p \in Processes, NEW op \in Operations, NEW k \in Keys, NEW data \in Data, NEW step \in PCs,
         Call(p, op, k, data, step)
  PROVE  /\ pc' = [pc EXCEPT ![p] = step] /\ pc' \in [Processes -> PCs]
         /\ call' = [call EXCEPT ![p] = [op |-> op, key |-> k, data |-> data]]
         /\ call' \in [Processes -> [op : Operations, key : Keys, data : Data]]
         /\ seen' \in [Processes -> SUBSET Data]
         /\ calls' \in 0 .. MaxCalls
         /\ UNCHANGED <<kind, answer, remote, local, fetched, crashes>>
<1>1. remote[k] \in Data
  BY DEF TInv, TypeOK
<1>2. calls' \in 0 .. MaxCalls
  BY BoundsAssumption DEF TInv, TypeOK, Call
<1>. QED BY <1>1, <1>2 DEF TInv, TypeOK, Call, Goto

\* The calls that begin keep TInv.
LEMMA BeginTInv == TInv /\ Begin => TInv'
<1> SUFFICES ASSUME TInv, Begin PROVE TInv'
  OBVIOUS
<1> USE Distinct DEF TInv
<1>1. CASE \E v \in Payloads : SetPayload(v)
  <2>1. PICK v \in Payloads : SetPayload(v)
    BY <1>1
  <2>2. Call(Launcher, "SetPayload", "payload", v, WriteStep) /\ WriteStep \in {"truncate", "put"}
        /\ WriteStep \in PCs /\ "SetPayload" \in Operations /\ v \in Data /\ v # Missing
    BY <2>1 DEF SetPayload, WriteStep, PCs, Operations
  <2>3. TypeOK'
    BY <2>1, <2>2, CallType DEF SetPayload, TypeOK
  <2>4. CallInv'
    <3> SUFFICES ASSUME NEW p \in Processes PROVE CallInv!(p)'
      BY DEF CallInv
    <3>1. CASE p = Launcher
      BY <2>1, <2>2, <3>1, CallType DEF SetPayload, TypeOK, Puts
    <3>2. CASE p # Launcher
      BY <2>1, <2>2, <3>2, CallType DEF SetPayload, TypeOK, CallInv
    <3>. QED BY <3>1, <3>2
  <2>. QED BY <2>3, <2>4
<1>2. ASSUME NEW p \in Plugins, NEW op \in {"GetPayload", "PutObject", "GetObject", "PullObject"},
             NEW k \in Keys, NEW data \in Data, NEW step \in {"decode", "fail", "truncate", "put", "read", "open", "create"},
             Call(p, op, k, data, step), offered' = offered, acked' = acked, kept' \in [Plugins -> Data],
             IF op = "GetPayload" THEN k = "payload" /\ step = "decode" ELSE k \in Names,
             op = "PutObject" => step \in {"fail", "truncate", "put"} /\ (step # "fail" => data # Missing),
             op = "GetObject" => step = "read", op = "PullObject" => step \in {"open", "create"}
      PROVE TInv'
  <2>1. op \in Operations /\ step \in PCs /\ p \in Processes
    BY DEF Operations, PCs
  <2>2. TypeOK'
    BY <1>2, <2>1, CallType DEF TypeOK
  <2>3. CallInv'
    <3> SUFFICES ASSUME NEW q \in Processes PROVE CallInv!(q)'
      BY DEF CallInv
    <3>1. CASE q = p
      BY <1>2, <2>1, <3>1, CallType DEF TypeOK, Puts
    <3>2. CASE q # p
      BY <1>2, <2>1, <3>2, CallType DEF TypeOK, CallInv
    <3>. QED BY <3>1, <3>2
  <2>. QED BY <2>2, <2>3
<1>3. CASE \E p \in Plugins : GetPayload(p)
  BY <1>2, <1>3 DEF GetPayload, TypeOK
<1>4. ASSUME NEW p \in Plugins, NEW n \in Names, NEW v \in Contents, PutMemory(p, n, v) PROVE TInv'
  BY <1>2, <1>4 DEF PutMemory, TypeOK, WriteStep
<1>5. ASSUME NEW p \in Plugins, NEW n \in Names, PutLocalDisk(p, n) PROVE TInv'
  <2>1. local[p][n] \in Data
    BY DEF TypeOK
  <2>. QED BY <1>2, <1>5, <2>1 DEF PutLocalDisk, TypeOK, WriteStep
<1>6. ASSUME NEW p \in Plugins, NEW n \in Names, PutRemoteDisk(p, n) PROVE TInv'
  BY <1>2, <1>6 DEF PutRemoteDisk, TypeOK
<1>7. ASSUME NEW p \in Plugins, NEW n \in Names, GetObject(p, n) PROVE TInv'
  BY <1>2, <1>7 DEF GetObject, TypeOK
<1>8. ASSUME NEW p \in Plugins, NEW n \in Names, PullObject(p, n) PROVE TInv'
  <2>1. kept' \in [Plugins -> Data]
    BY <1>8 DEF PullObject, TypeOK
  <2>. QED BY <1>2, <1>8, <2>1 DEF PullObject
<1>. QED BY <1>1, <1>3, <1>4, <1>5, <1>6, <1>7, <1>8 DEF Begin

\* A step of a call goes on to a later step or returns, and leaves the call alone.
LEMMA ReturnType ==
  ASSUME TypeOK, NEW p \in Processes, NEW status \in {"nil", "error"}, NEW data \in Data,
         Return(p, status, data), call' = call
  PROVE  /\ pc' = [pc EXCEPT ![p] = "idle"] /\ pc' \in [Processes -> PCs]
         /\ answer' = [answer EXCEPT ![p] = [op |-> call[p].op, status |-> status, data |-> data]]
         /\ answer' \in [Processes -> [op : Operations, status : {"none", "nil", "error"}, data : Data]]
BY DEF TypeOK, Return, PCs

\* So it does when it goes on.
LEMMA GotoType ==
  ASSUME TypeOK, NEW p \in Processes, NEW step \in PCs, Goto(p, step)
  PROVE  /\ pc' = [pc EXCEPT ![p] = step] /\ pc' \in [Processes -> PCs] /\ answer' = answer
BY DEF TypeOK, Goto

\* A step of process p keeps TInv when its variables keep their types and the step
\* it goes on to belongs to the call.
LEMMA StepKeepsTInv ==
  ASSUME TInv, NEW p \in Processes, NEW step \in PCs, pc' = [pc EXCEPT ![p] = step],
         answer' \in [Processes -> [op : Operations, status : {"none", "nil", "error"}, data : Data]],
         remote' \in [Keys -> Data], local' \in [Plugins -> [Names -> Data]], fetched' \in [Plugins -> Data],
         acked' \in Payloads \cup {Missing}, seen' \in [Processes -> SUBSET Data],
         UNCHANGED bookkeeping,
         \/ step = "idle"
         \/ pc[p] \in {"truncate", "fill", "put", "reply"} /\ step \in {"truncate", "fill", "put", "reply", "fail"}
         \/ pc[p] \in {"open", "create", "copy"} /\ step \in {"open", "create", "copy"}
  PROVE  TInv'
<1>1. TypeOK'
  BY DEF TInv, TypeOK, bookkeeping
<1>2. CallInv'
  <2> SUFFICES ASSUME NEW q \in Processes PROVE CallInv!(q)'
    BY DEF CallInv
  <2>. QED BY DEF TInv, TypeOK, CallInv, bookkeeping
<1>. QED BY <1>1, <1>2 DEF TInv

\* The steps of a call keep TInv.
LEMMA StepTInv == ASSUME TInv, NEW p \in Processes, Step(p) PROVE TInv'
<1> USE Distinct DEF TInv
<1>0. TypeOK /\ CallInv
  OBVIOUS
<1>a. /\ call[p].key \in Keys /\ call[p].data \in Data /\ remote[call[p].key] \in Data
      /\ {"idle", "fill", "reply", "fail", "create", "copy", "open"} \subseteq PCs
  BY DEF TypeOK, PCs
<1>b. ASSUME NEW c \in Data, Leaves(call[p].key, c)
      PROVE  remote' \in [Keys -> Data] /\ seen' \in [Processes -> SUBSET Data]
  BY <1>0, <1>a, <1>b, WatchType DEF Leaves, TypeOK
<1>c. ASSUME NEW c \in Data, pc[p] \in {"open", "create", "copy"}
      PROVE [local EXCEPT ![p][call[p].key] = c] \in [Plugins -> [Names -> Data]]
            /\ [fetched EXCEPT ![p] = c] \in [Plugins -> Data]
  BY <1>c DEF TypeOK, CallInv
<1>1. ASSUME Fail(p) PROVE TInv'
  BY <1>1, <1>a, ReturnType, StepKeepsTInv DEF Fail, bookkeeping, TypeOK
<1>2. ASSUME Truncate(p) PROVE TInv'
  <2>1. CASE Leaves(call[p].key, Empty) /\ Goto(p, "fill")
    <3>1. pc' = [pc EXCEPT ![p] = "fill"] /\ answer' = answer
      BY <2>1, <1>0, <1>a, GotoType
    <3>2. remote' \in [Keys -> Data] /\ seen' \in [Processes -> SUBSET Data]
      BY <2>1, <1>a, <1>b
    <3>. QED BY <1>2, <1>a, <3>1, <3>2, StepKeepsTInv DEF Truncate, bookkeeping, TypeOK
  <2>2. CASE Return(p, "error", Missing) /\ UNCHANGED <<remote, seen>>
    BY <1>2, <2>2, <1>a, ReturnType, StepKeepsTInv DEF Truncate, bookkeeping, TypeOK
  <2>. QED BY <1>2, <2>1, <2>2 DEF Truncate
<1>3. ASSUME Fill(p) PROVE TInv'
  <2>1. PICK c \in {call[p].data, Torn}, step \in {"reply", "fail"} : Leaves(call[p].key, c) /\ Goto(p, step)
    BY <1>3 DEF Fill
  <2>2. remote' \in [Keys -> Data] /\ seen' \in [Processes -> SUBSET Data]
    BY <2>1, <1>a, <1>b
  <2>3. step \in PCs /\ pc' = [pc EXCEPT ![p] = step] /\ answer' = answer
    BY <2>1, <1>0, <1>a, GotoType
  <2>4. pc[p] = "fill" /\ UNCHANGED bookkeeping /\ UNCHANGED <<local, fetched, acked>>
    BY <1>3 DEF Fill
  <2>5. /\ answer' \in [Processes -> [op : Operations, status : {"none", "nil", "error"}, data : Data]]
        /\ local' \in [Plugins -> [Names -> Data]] /\ fetched' \in [Plugins -> Data]
        /\ acked' \in Payloads \cup {Missing}
    BY <2>3, <2>4 DEF TypeOK
  <2>. QED BY <2>1, <2>2, <2>3, <2>4, <2>5, StepKeepsTInv
<1>4. ASSUME PutWhole(p) PROVE TInv'
  <2>1. CASE Leaves(call[p].key, call[p].data) /\ Goto(p, "reply")
    <3>1. pc' = [pc EXCEPT ![p] = "reply"] /\ answer' = answer
      BY <2>1, <1>0, <1>a, GotoType
    <3>2. remote' \in [Keys -> Data] /\ seen' \in [Processes -> SUBSET Data]
      BY <2>1, <1>a, <1>b
    <3>. QED BY <1>4, <1>a, <3>1, <3>2, StepKeepsTInv DEF PutWhole, bookkeeping, TypeOK
  <2>2. CASE Return(p, "error", Missing) /\ UNCHANGED <<remote, seen>>
    BY <1>4, <2>2, <1>a, ReturnType, StepKeepsTInv DEF PutWhole, bookkeeping, TypeOK
  <2>. QED BY <1>4, <2>1, <2>2 DEF PutWhole
<1>5. ASSUME Reply(p) PROVE TInv'
  <2>1. p = Launcher => call[p].data \in offered
    BY <1>5 DEF Reply, CallInv, Puts
  <2>2. Acked(p) \in Payloads \cup {Missing}
    <3>1. CASE p = Launcher
      BY <2>1, <3>1 DEF Acked, TypeOK
    <3>2. CASE p # Launcher
      BY <3>2 DEF Acked, TypeOK
    <3>. QED BY <3>1, <3>2
  <2>3. acked' \in Payloads \cup {Missing}
    BY <1>5, <2>2 DEF Reply, TypeOK
  <2>4. PICK status \in {"nil", "error"} : Return(p, status, Missing)
    BY <1>5 DEF Reply
  <2>. QED BY <1>5, <1>a, <2>3, <2>4, ReturnType, StepKeepsTInv DEF Reply, bookkeeping, TypeOK
<1>6. ASSUME Decode(p) \/ Read(p) PROVE TInv'
  <2>1. /\ \E status \in {"nil", "error"}, d \in Data : Return(p, status, d)
        /\ UNCHANGED <<bookkeeping, remote, local, fetched, acked, seen>>
    BY <1>6, <1>a DEF Decode, Read, Source, MixOf
  <2>2. /\ pc' = [pc EXCEPT ![p] = "idle"]
        /\ answer' \in [Processes -> [op : Operations, status : {"none", "nil", "error"}, data : Data]]
    BY <1>0, <2>1, ReturnType DEF bookkeeping
  <2>. QED BY <2>1, <2>2, <1>a, StepKeepsTInv DEF TypeOK
<1>7. ASSUME Open(p) PROVE TInv'
  <2>1. fetched' \in [Plugins -> Data]
    BY <1>7, <1>a, <1>c DEF Open, Source, TypeOK
  <2>2. ASSUME NEW step \in {"create", "copy"}, Goto(p, step) PROVE TInv'
    <3>1. step \in PCs /\ pc' = [pc EXCEPT ![p] = step] /\ answer' = answer
      BY <2>2, <1>0, <1>a, GotoType
    <3>. QED BY <1>7, <2>1, <3>1, StepKeepsTInv DEF Open, bookkeeping, TypeOK
  <2>3. CASE Return(p, "error", Missing)
    <3>1. /\ pc' = [pc EXCEPT ![p] = "idle"]
          /\ answer' \in [Processes -> [op : Operations, status : {"none", "nil", "error"}, data : Data]]
      BY <1>7, <2>3, <1>0, <1>a, ReturnType DEF Open, bookkeeping
    <3>. QED BY <1>7, <2>1, <3>1, <1>a, StepKeepsTInv DEF Open, bookkeeping, TypeOK
  <2>. QED BY <1>7, <2>2, <2>3 DEF Open
<1>8. ASSUME Create(p) PROVE TInv'
  <2>1. local' \in [Plugins -> [Names -> Data]]
    <3>1. pc[p] = "create" /\ (local' = [local EXCEPT ![p][call[p].key] = Empty] \/ local' = local)
      BY <1>8 DEF Create
    <3>2. Empty \in Data
      OBVIOUS
    <3>. QED BY <3>1, <3>2, <1>c DEF TypeOK
  <2>2. ASSUME NEW step \in {"copy", "open"}, Goto(p, step) PROVE TInv'
    <3>1. step \in PCs /\ pc' = [pc EXCEPT ![p] = step] /\ answer' = answer
      BY <2>2, <1>0, <1>a, GotoType
    <3>. QED BY <1>8, <2>1, <3>1, StepKeepsTInv DEF Create, bookkeeping, TypeOK
  <2>3. CASE Return(p, "error", Missing)
    <3>1. /\ pc' = [pc EXCEPT ![p] = "idle"]
          /\ answer' \in [Processes -> [op : Operations, status : {"none", "nil", "error"}, data : Data]]
      BY <1>8, <2>3, <1>0, <1>a, ReturnType DEF Create, bookkeeping
    <3>. QED BY <1>8, <2>1, <3>1, <1>a, StepKeepsTInv DEF Create, bookkeeping, TypeOK
  <2>4. (IF kind = "FSB" THEN "copy" ELSE "open") \in {"copy", "open"}
    OBVIOUS
  <2>. QED BY <1>8, <2>2, <2>3, <2>4 DEF Create
<1>9. ASSUME Copy(p) PROVE TInv'
  <2>1. Copied(p) \subseteq Data
    BY <1>9, <1>a DEF Copy, Copied, Source, TypeOK, CallInv
  <2>2. local' \in [Plugins -> [Names -> Data]]
    BY <1>9, <2>1, <1>c DEF Copy
  <2>. QED BY <1>9, <2>2, <1>a, ReturnType, StepKeepsTInv DEF Copy, bookkeeping, TypeOK
<1>. QED BY <1>1, <1>2, <1>3, <1>4, <1>5, <1>6, <1>7, <1>8, <1>9 DEF Step

\* A crash keeps TInv.
LEMMA CrashTInv == ASSUME TInv, NEW p \in Processes, Crash(p) PROVE TInv'
<1>1. crashes' \in 0 .. MaxCrashes
  BY BoundsAssumption DEF TInv, TypeOK, Crash
<1>2. answer' \in [Processes -> [op : Operations, status : {"none", "nil", "error"}, data : Data]]
  BY Distinct DEF TInv, TypeOK, Crash, Operations
<1>3. TypeOK'
  BY <1>1, <1>2 DEF TInv, TypeOK, Crash, PCs
<1>4. CallInv'
  <2> SUFFICES ASSUME NEW q \in Processes PROVE CallInv!(q)'
    BY DEF CallInv
  <2>. QED BY DEF TInv, TypeOK, CallInv, Crash
<1>. QED BY <1>3, <1>4 DEF TInv

\* Every step keeps TInv.
LEMMA NextTInv == TInv /\ [Next]_vars => TInv'
<1> SUFFICES ASSUME TInv, [Next]_vars PROVE TInv'
  OBVIOUS
<1>1. CASE UNCHANGED vars
  <2>1. TypeOK'
    BY <1>1 DEF TInv, TypeOK, vars
  <2>2. CallInv'
    BY <1>1 DEF TInv, CallInv, vars
  <2>. QED BY <2>1, <2>2 DEF TInv
<1>. QED BY <1>1, BeginTInv, StepTInv, CrashTInv DEF Next

\* TInv is an invariant.
LEMMA TInvariant == Spec => []TInv
BY InitTInv, NextTInv, PTL DEF Spec

\* The variables of the launcher, the plugins and the store have their types.
THEOREM TypeCorrect == Spec => []TypeOK
BY TInvariant, PTL DEF TInv

(***************************************************************************)
(* The payload                                                             *)
(***************************************************************************)
\* Nothing has been set and nobody has read.
LEMMA InitPayload == Init => PayloadInv
BY Distinct DEF Init, PayloadInv, AckedPayloadStays

\* The launcher alone writes the payload, with what it was given.
LEMMA Writer ==
  ASSUME TInv, NEW p \in Processes, pc[p] \in {"truncate", "fill", "put", "reply"}
  PROVE  /\ call[p].key \in Keys
         /\ p = Launcher => call[p].key = "payload" /\ call[p].data \in offered /\ call[p].data \in Payloads
         /\ p # Launcher => call[p].key # "payload"
<1>1. p = Launcher => call[p].op = "SetPayload"
  BY Distinct DEF TInv, CallInv, Puts
<1>2. p # Launcher => call[p].op = "PutObject"
  BY DEF TInv, CallInv, Puts
<1>. QED BY <1>1, <1>2, Distinct DEF TInv, TypeOK, CallInv

\* A call that begins only matters when the launcher makes it.
LEMMA BeginPayload == TInv /\ PayloadInv /\ Begin => PayloadInv'
<1> SUFFICES ASSUME TInv, PayloadInv, Begin PROVE PayloadInv'
  OBVIOUS
<1> USE Distinct DEF TInv, PayloadInv, AckedPayloadStays
<1>1. ASSUME NEW v \in Payloads, SetPayload(v) PROVE PayloadInv'
  BY <1>1 DEF SetPayload, Call, Goto, WriteStep, TypeOK
<1>2. ASSUME NEW p \in Plugins, NEW op, NEW k, NEW data, NEW step,
             Call(p, op, k, data, step), offered' = offered, acked' = acked
      PROVE PayloadInv'
  BY <1>2 DEF Call, Goto, TypeOK
<1>. QED BY <1>1, <1>2 DEF Begin, GetPayload, PutMemory, PutLocalDisk, PutRemoteDisk, GetObject, PullObject

\* A step of a call, by what it does to the payload's file.
LEMMA StepPayload == ASSUME TInv, PayloadInv, NEW p \in Processes, Step(p) PROVE PayloadInv'
<1> USE Distinct DEF TInv, PayloadInv, AckedPayloadStays, bookkeeping
<1>a. pc[p] # "idle" /\ (p = Launcher => acked = Missing)
  BY DEF Step, Fail, Truncate, Fill, PutWhole, Reply, Decode, Read, Open, Create, Copy
<1>1. ASSUME Fail(p) \/ Read(p) \/ Open(p) \/ Create(p) \/ Copy(p) PROVE PayloadInv'
  <2>1. /\ UNCHANGED <<call, offered, remote, acked>>
        /\ \A q \in Processes : q # p => pc'[q] = pc[q] /\ answer'[q] = answer[q]
        /\ pc'[p] \notin {"fill", "reply"}
        /\ answer'[p] = answer[p] \/ (answer'[p].op = call[p].op /\ call[p].op # "GetPayload")
    BY <1>1 DEF Fail, Read, Open, Create, Copy, Return, Goto, TypeOK, CallInv, Puts
  <2>. QED BY <1>a, <2>1
<1>2. ASSUME Decode(p) PROVE PayloadInv'
  <2>1. call[p].key = "payload" /\ p \in Plugins
    BY <1>2 DEF Decode, CallInv
  <2>2. /\ UNCHANGED <<call, offered, remote, acked>>
        /\ pc'[p] = "idle" /\ \A q \in Processes : q # p => pc'[q] = pc[q]
    BY <1>2 DEF Decode, Return, TypeOK
  <2>. QED BY <2>1, <2>2
<1>3. ASSUME Truncate(p) \/ Fill(p) \/ PutWhole(p) PROVE PayloadInv'
  <2>1. PICK c \in {Empty, Torn, call[p].data}, step \in {"fill", "reply", "fail", "idle"} :
          /\ pc' = [pc EXCEPT ![p] = step]
          /\ remote' = remote \/ remote' = [remote EXCEPT ![call[p].key] = c]
          /\ step \in {"fill", "reply"} => remote' = [remote EXCEPT ![call[p].key] = c]
          /\ step = "fill" => c = Empty
          /\ step = "reply" /\ c # call[p].data => remote[call[p].key] # Empty /\ pc[p] = "fill"
    BY <1>3 DEF Truncate, Fill, PutWhole, Leaves, Return, Goto
  <2>2. /\ UNCHANGED <<call, offered, acked>>
        /\ \A q \in Processes : q # p => answer'[q] = answer[q]
        /\ answer'[p] = answer[p] \/ answer'[p].status = "error"
    BY <1>3 DEF Truncate, Fill, PutWhole, Return, Goto, TypeOK
  <2>3. pc[p] \in {"truncate", "fill", "put", "reply"}
    BY <1>3 DEF Truncate, Fill, PutWhole
  <2>4. CASE p = Launcher
    BY <1>a, <2>1, <2>2, <2>3, <2>4, Writer DEF TypeOK
  <2>5. CASE p # Launcher
    BY <1>a, <2>1, <2>2, <2>3, <2>5, Writer DEF TypeOK
  <2>. QED BY <2>4, <2>5
<1>4. ASSUME Reply(p) PROVE PayloadInv'
  <2>1. call[p].op # "GetPayload"
    BY <1>4 DEF Reply, CallInv, Puts
  <2>0. /\ UNCHANGED <<call, offered, remote>>
        /\ pc'[p] = "idle" /\ \A q \in Processes : q # p => pc'[q] = pc[q] /\ answer'[q] = answer[q]
        /\ answer'[p].op = call[p].op
        /\ acked' = acked \/ acked' = Acked(p)
    BY <1>4 DEF Reply, Return, TypeOK
  <2>2. CASE p = Launcher
    BY <1>4, <1>a, <2>0, <2>1, <2>2 DEF Reply, Acked
  <2>3. CASE p # Launcher
    BY <2>0, <2>1, <2>3 DEF Acked
  <2>. QED BY <2>2, <2>3
<1>. QED BY <1>1, <1>2, <1>3, <1>4 DEF Step

\* A crash leaves the store alone; the launcher's calls are not acknowledged.
LEMMA NextPayload == TInv /\ PayloadInv /\ [Next]_vars => PayloadInv'
<1> SUFFICES ASSUME TInv, PayloadInv, [Next]_vars PROVE PayloadInv'
  OBVIOUS
<1>1. CASE UNCHANGED vars
  BY <1>1 DEF PayloadInv, AckedPayloadStays, vars
<1>2. ASSUME NEW p \in Processes, Crash(p) PROVE PayloadInv'
  BY <1>2, Distinct DEF TInv, TypeOK, PayloadInv, AckedPayloadStays, Crash
<1>. QED BY <1>1, <1>2, BeginPayload, StepPayload DEF Next

\* PayloadInv is an invariant.
LEMMA PayloadInvariant == Spec => []PayloadInv
BY TInvariant, InitPayload, NextPayload, PTL DEF Spec

\* What one process has seen and answered.
SeenOf(p) ==
  /\ call[p].op = "GetPayload" => seen[p] \subseteq offered \cup {Missing, Empty, Torn}
  /\ p \in Plugins /\ Answered(p, "GetPayload", "nil") =>
       \/ answer[p].data \in offered
       \/ kind = "FSB" /\ \E c, d \in seen[p] \cap offered : c # d

\* SeenInv speaks of one process at a time, before a step and after it.
LEMMA SeenSplit == (SeenInv <=> \A p \in Processes : SeenOf(p)) /\ ((\A p \in Processes : SeenOf(p)') => SeenInv')
BY Distinct DEF SeenInv, SeenOf, PayloadIsWhole, Answered

\* Nobody has read.
LEMMA InitSeen == Init => SeenInv
BY Distinct DEF Init, SeenInv, NoCall, PayloadIsWhole, Answered

\* A process whose own steps these are not: what it watches may be written.
LEMMA OthersSeen ==
  ASSUME SeenInv, NEW q \in Processes, kind' = kind, pc'[q] = pc[q], call'[q] = call[q], answer'[q] = answer[q],
         offered \subseteq offered',
         \/ seen'[q] = seen[q]
         \/ pc[q] # "idle" /\ \E c \in offered \cup {Missing, Empty, Torn} : seen'[q] = seen[q] \cup {c}
         \/ pc[q] # "idle" /\ call[q].op # "GetPayload"
  PROVE  SeenOf(q)'
<1>1. SeenOf(q)
  BY SeenSplit
<1>. QED BY <1>1 DEF SeenOf, Answered

\* A GetPayload that begins finds what the file holds.
LEMMA BeginSeen == TInv /\ PayloadInv /\ SeenInv /\ Begin => SeenInv'
<1> SUFFICES ASSUME TInv, PayloadInv, SeenInv, Begin PROVE SeenInv'
  OBVIOUS
<1>1. ASSUME NEW p \in Processes, NEW op, NEW k, NEW data, NEW step, Call(p, op, k, data, step), step # "idle",
             offered \subseteq offered', op = "GetPayload" => k = "payload"
      PROVE SeenInv'
  <2> SUFFICES ASSUME NEW q \in Processes PROVE SeenOf(q)'
    BY SeenSplit
  <2>1. /\ kind' = kind /\ answer' = answer
        /\ pc'[p] = step /\ call'[p].op = op /\ seen'[p] = {remote[k]}
        /\ \A r \in Processes \ {p} : pc'[r] = pc[r] /\ call'[r] = call[r] /\ seen'[r] = seen[r]
    BY <1>1 DEF Call, Goto, TInv, TypeOK
  <2>2. CASE q = p
    BY <1>1, <2>1, <2>2 DEF SeenOf, Answered, PayloadInv
  <2>3. CASE q # p
    BY <1>1, <2>1, <2>3, OthersSeen
  <2>. QED BY <2>2, <2>3
<1>2. ASSUME NEW v \in Payloads, SetPayload(v) PROVE SeenInv'
  BY <1>1, <1>2, Distinct DEF SetPayload, WriteStep
<1>3. ASSUME NEW p \in Plugins, GetPayload(p) PROVE SeenInv'
  BY <1>1, <1>3, Distinct DEF GetPayload
<1>4. ASSUME NEW p \in Plugins, NEW n \in Names, NEW op \in {"PutObject", "GetObject", "PullObject"},
             NEW data, NEW step, Call(p, op, n, data, step), step # "idle", offered' = offered
      PROVE SeenInv'
  BY <1>1, <1>4, Distinct
<1>5. ASSUME NEW p \in Plugins, NEW n \in Names, NEW v \in Contents, PutMemory(p, n, v) PROVE SeenInv'
  BY <1>4, <1>5 DEF PutMemory, WriteStep
<1>6. ASSUME NEW p \in Plugins, NEW n \in Names, PutLocalDisk(p, n) PROVE SeenInv'
  BY <1>4, <1>6 DEF PutLocalDisk, WriteStep
<1>7. ASSUME NEW p \in Plugins, NEW n \in Names, PutRemoteDisk(p, n) \/ GetObject(p, n) PROVE SeenInv'
  BY <1>4, <1>7 DEF PutRemoteDisk, GetObject
<1>8. ASSUME NEW p \in Plugins, NEW n \in Names, PullObject(p, n) PROVE SeenInv'
  BY <1>4, <1>8 DEF PullObject
<1>. QED BY <1>2, <1>3, <1>5, <1>6, <1>7, <1>8 DEF Begin

\* A step of a call: only Decode answers a GetPayload, only the launcher writes
\* what it reads.
LEMMA StepSeen == ASSUME TInv, PayloadInv, SeenInv, NEW p \in Processes, Step(p) PROVE SeenInv'
<1> SUFFICES ASSUME NEW q \in Processes PROVE SeenOf(q)'
  BY SeenSplit
<1>1. /\ UNCHANGED <<kind, call, offered>>
      /\ \A r \in Processes \ {p} : pc'[r] = pc[r] /\ answer'[r] = answer[r]
  BY DEF Step, Fail, Truncate, Fill, PutWhole, Reply, Decode, Read, Open, Create, Copy, bookkeeping,
         Return, Goto, TInv, TypeOK
<1>2. SeenOf(q) /\ SeenOf(p)
  BY SeenSplit
<1>3. ASSUME Truncate(p) \/ Fill(p) \/ PutWhole(p) PROVE SeenOf(q)'
  <2>1. pc[p] \in {"truncate", "fill", "put"} /\ call[p].op \in Puts
    BY <1>3 DEF Truncate, Fill, PutWhole, TInv, CallInv
  <2>2. \/ seen' = seen
        \/ \E c \in {Empty, Torn, call[p].data} : Leaves(call[p].key, c)
    BY <1>3 DEF Truncate, Fill, PutWhole
  <2>3. CASE q = p
    <3>1. call[p].op # "GetPayload"
      BY <2>1 DEF Puts
    <3>2. pc'[p] = "idle" => answer'[p].status = "error"
      BY <1>3 DEF Truncate, Fill, PutWhole, Return, Goto, TInv, TypeOK
    <3>. QED BY <1>1, <2>3, <3>1, <3>2 DEF SeenOf, Answered
  <2>4. CASE q # p /\ seen' = seen
    BY <1>1, <2>4, OthersSeen
  <2>5. ASSUME q # p, NEW c \in {Empty, Torn, call[p].data}, Leaves(call[p].key, c) PROVE SeenOf(q)'
    <3>1. seen'[q] = IF call[q].key = call[p].key /\ pc[q] # "idle" THEN seen[q] \cup {c} ELSE seen[q]
      BY <2>5 DEF Leaves, Watch
    <3>2. call[q].op = "GetPayload" /\ call[q].key = call[p].key => c \in offered \cup {Missing, Empty, Torn}
      BY <2>1, <2>5, Writer DEF TInv, CallInv
    <3>. QED BY <1>1, <2>5, <3>1, <3>2, OthersSeen
  <2>. QED BY <2>2, <2>3, <2>4, <2>5
<1>4. ASSUME Decode(p) PROVE SeenOf(q)'
  <2>1. call[p].key = "payload" /\ call[p].op = "GetPayload" /\ p \in Plugins /\ seen' = seen
    BY <1>4 DEF Decode, TInv, CallInv
  <2>2. CASE q = p
    <3>1. seen[p] \cap Payloads \subseteq offered /\ {Source(p)} \cap Payloads \subseteq offered
      BY <1>2, <2>1, Distinct DEF SeenOf, Source, PayloadInv
    <3>2. ASSUME NEW d \in ({Source(p)} \cap Payloads) \cup MixOf(seen[p] \cap Payloads), Return(p, "nil", d)
          PROVE  SeenOf(p)'
      <4>1. answer'[p].data = d
        BY <3>2 DEF Return, TInv, TypeOK
      <4>2. d \in offered \/ (kind = "FSB" /\ \E b, c \in seen[p] \cap offered : b # c)
        BY <3>1, <3>2 DEF MixOf
      <4>. QED BY <1>1, <1>2, <2>1, <4>1, <4>2 DEF SeenOf
    <3>3. CASE Return(p, "error", Missing)
      <4>1. answer'[p].status = "error"
        BY <3>3 DEF Return, TInv, TypeOK
      <4>. QED BY <1>1, <1>2, <2>1, <4>1 DEF SeenOf, Answered
    <3>. QED BY <1>4, <2>2, <3>2, <3>3 DEF Decode
  <2>3. CASE q # p
    BY <1>1, <2>1, <2>3, OthersSeen
  <2>. QED BY <2>2, <2>3
<1>5. ASSUME Fail(p) \/ Reply(p) \/ Read(p) \/ Open(p) \/ Create(p) \/ Copy(p) PROVE SeenOf(q)'
  <2>1. seen' = seen /\ pc[p] # "idle"
    BY <1>5 DEF Fail, Reply, Read, Open, Create, Copy
  <2>2. call[p].op # "GetPayload" /\ (pc'[p] # "idle" \/ answer'[p].op = call[p].op)
    BY <1>5 DEF Fail, Reply, Read, Open, Create, Copy, Return, Goto, TInv, TypeOK, CallInv, Puts
  <2>3. CASE q = p
    BY <1>1, <2>2, <2>3 DEF SeenOf, Answered
  <2>4. CASE q # p
    BY <1>1, <2>1, <2>4, OthersSeen
  <2>. QED BY <2>3, <2>4
<1>. QED BY <1>3, <1>4, <1>5 DEF Step

\* A crash forgets the answer and leaves what was seen.
LEMMA NextSeen == TInv /\ PayloadInv /\ SeenInv /\ [Next]_vars => SeenInv'
<1> SUFFICES ASSUME TInv, PayloadInv, SeenInv, [Next]_vars PROVE SeenInv'
  OBVIOUS
<1>1. CASE UNCHANGED vars
  BY <1>1 DEF SeenInv, PayloadIsWhole, Answered, vars
<1>2. ASSUME NEW p \in Processes, Crash(p) PROVE SeenInv'
  <2> SUFFICES ASSUME NEW q \in Processes PROVE SeenOf(q)'
    BY SeenSplit
  <2>1. /\ UNCHANGED <<kind, call, offered, seen>> /\ answer'[p].op = "none"
        /\ \A r \in Processes \ {p} : pc'[r] = pc[r] /\ answer'[r] = answer[r]
    BY <1>2 DEF Crash, TInv, TypeOK
  <2>. QED BY <2>1, SeenSplit DEF SeenOf, Answered
<1>. QED BY <1>1, <1>2, BeginSeen, StepSeen DEF Next

\* GetPayload gives a document SetPayload was given, or an error, also while the
\* launcher writes it or after it died writing; only a file that held two payloads
\* while it was read may give a mix of both.
THEOREM PayloadWhole == Spec => []PayloadIsWhole
<1>1. SeenInv => PayloadIsWhole
  BY DEF SeenInv
<1>. QED BY <1>1, InitSeen, NextSeen, TInvariant, PayloadInvariant, PTL DEF Spec

\* A payload whose SetPayload returned nil stays, whatever the plugins do and
\* whoever dies.
THEOREM PayloadStays == Spec => []AckedPayloadStays
<1>1. PayloadInv => AckedPayloadStays
  BY DEF PayloadInv
<1>. QED BY <1>1, PayloadInvariant, PTL

(***************************************************************************)
(* Pulling                                                                 *)
(***************************************************************************)
\* Nothing is under way.
LEMMA InitPull == Init => PullInv
<1> SUFFICES ASSUME Init PROVE PullInv
  OBVIOUS
<1>1. \A p \in Processes : pc[p] = "idle" /\ answer[p].op = "none"
  BY DEF Init
<1>. QED BY <1>1, Distinct DEF PullInv, PulledWasThere, FileStoreKeepsLocal, PullMissingKeepsLocal, Answered

\* What PullInv says of one process, so that the others can be left alone.
PullInvOf(p) ==
  /\ pc[p] # "idle" => remote[call[p].key] \in seen[p]
  /\ p \in Plugins =>
       /\ pc[p] = "copy" \/ (kind = "FSB" /\ pc[p] = "create") =>
            fetched[p] \in seen[p] \ {Missing} /\ remote[call[p].key] # Missing
       /\ kind = "FSB" /\ pc[p] = "open" => local[p][call[p].key] = kept[p]
       /\ Answered(p, "PullObject", "nil") =>
            \/ local[p][call[p].key] \in seen[p] \ {Missing}
            \/ kind = "FSB" /\ \E c, d \in seen[p] \ {Missing} : c # d
       /\ kind = "FSB" /\ Answered(p, "PullObject", "error") /\ seen[p] = {Missing} =>
            local[p][call[p].key] = kept[p]

\* PullInv speaks of one process at a time.
LEMMA PullSplit == PullInv <=> \A p \in Processes : PullInvOf(p)
BY Distinct DEF PullInv, PullInvOf, PulledWasThere, FileStoreKeepsLocal, PullMissingKeepsLocal

\* After a step it is enough to look at each process.
LEMMA PullJoin == (\A p \in Processes : PullInvOf(p)') => PullInv'
BY Distinct DEF PullInv, PullInvOf, PulledWasThere, FileStoreKeepsLocal, PullMissingKeepsLocal, Answered

\* A process nothing happens to but that an object it watches may be written.
LEMMA OthersPull ==
  ASSUME TInv, NEW q \in Processes, PullInvOf(q), kind' = kind, pc'[q] = pc[q], call'[q] = call[q], answer'[q] = answer[q],
         q \in Plugins => fetched'[q] = fetched[q] /\ local'[q] = local[q] /\ kept'[q] = kept[q],
         \/ remote' = remote /\ seen'[q] = seen[q]
         \/ \E k \in Keys, c \in Data \ {Missing} : Leaves(k, c)
  PROVE  PullInvOf(q)'
<1>1. CASE remote' = remote /\ seen'[q] = seen[q]
  BY <1>1 DEF PullInvOf, Answered
<1>2. ASSUME NEW k \in Keys, NEW c \in Data \ {Missing}, Leaves(k, c) PROVE PullInvOf(q)'
  <2>1. pc[q] # "idle" => /\ seen[q] \subseteq seen'[q]
                          /\ remote'[call[q].key] = remote[call[q].key] \/ remote'[call[q].key] = c
                          /\ remote'[call[q].key] \in seen'[q]
    BY <1>2 DEF Leaves, Watch, TInv, TypeOK, PullInvOf
  <2>2. pc[q] = "idle" => seen'[q] = seen[q]
    BY <1>2 DEF Leaves, Watch
  <2>. QED BY <2>1, <2>2 DEF PullInvOf, Answered
<1>. QED BY <1>1, <1>2

\* A call that begins has the content it found in what it has seen.
LEMMA BeginPull == TInv /\ PullInv /\ Begin => PullInv'
<1> SUFFICES ASSUME TInv, PullInv, Begin PROVE PullInv'
  OBVIOUS
<1>1. ASSUME NEW p \in Processes, NEW op, NEW k \in Keys, NEW data, NEW step \in {"truncate", "put", "decode", "fail", "read", "open", "create"},
             Call(p, op, k, data, step),
             \A q \in Plugins \ {p} : kept'[q] = kept[q],
             kind = "FSB" => step # "create",
             step = "open" => p \in Plugins /\ kept'[p] = local[p][k]
      PROVE PullInv'
  <2> SUFFICES ASSUME NEW q \in Processes PROVE PullInvOf(q)'
    BY PullJoin
  <2>1. /\ UNCHANGED <<kind, answer, remote, local, fetched>>
        /\ pc'[p] = step /\ call'[p].key = k /\ seen'[p] = {remote[k]}
        /\ \A r \in Processes \ {p} : pc'[r] = pc[r] /\ call'[r] = call[r] /\ seen'[r] = seen[r]
    BY <1>1 DEF Call, Goto, TInv, TypeOK
  <2>2. CASE q = p
    BY <1>1, <2>1, <2>2 DEF PullInvOf, Answered
  <2>3. CASE q # p
    BY <1>1, <2>1, <2>3, PullSplit, OthersPull
  <2>. QED BY <2>2, <2>3
<1>2. ASSUME NEW v \in Payloads, SetPayload(v) PROVE PullInv'
  BY <1>1, <1>2, Distinct DEF SetPayload, WriteStep
<1>3. ASSUME NEW p \in Plugins, GetPayload(p) PROVE PullInv'
  BY <1>1, <1>3, Distinct DEF GetPayload
<1>4. ASSUME NEW p \in Plugins, NEW n \in Names,
             (\E v \in Contents : PutMemory(p, n, v)) \/ PutLocalDisk(p, n) \/ PutRemoteDisk(p, n) \/ GetObject(p, n)
      PROVE PullInv'
  <2>1. ASSUME NEW v \in Contents, PutMemory(p, n, v) PROVE PullInv'
    BY <1>1, <2>1, Distinct DEF PutMemory, WriteStep
  <2>2. ASSUME PutLocalDisk(p, n) PROVE PullInv'
    BY <1>1, <2>2, Distinct DEF PutLocalDisk, WriteStep
  <2>3. ASSUME PutRemoteDisk(p, n) PROVE PullInv'
    BY <1>1, <2>3, Distinct DEF PutRemoteDisk
  <2>4. ASSUME GetObject(p, n) PROVE PullInv'
    BY <1>1, <2>4, Distinct DEF GetObject
  <2>. QED BY <1>4, <2>1, <2>2, <2>3, <2>4
<1>5. ASSUME NEW p \in Plugins, NEW n \in Names, PullObject(p, n) PROVE PullInv'
  <2>1. \A q \in Plugins \ {p} : kept'[q] = kept[q]
    BY <1>5 DEF PullObject, TInv, TypeOK
  <2>2. kept'[p] = local[p][n]
    BY <1>5 DEF PullObject, TInv, TypeOK
  <2>. QED BY <1>1, <1>5, <2>1, <2>2, Distinct DEF PullObject
<1>. QED BY <1>2, <1>3, <1>4, <1>5 DEF Begin

\* The steps of a call, by what they do to p's pull.
LEMMA StepPull == ASSUME TInv, PullInv, NEW p \in Processes, Step(p) PROVE PullInv'
<1>a. \A q \in Processes : PullInvOf(q)
  BY PullSplit
<1>b. call[p].key \in Keys /\ (pc[p] \in {"open", "create", "copy"} => p \in Plugins /\ call[p].key \in Names)
  BY DEF TInv, TypeOK, CallInv
<1>c. UNCHANGED <<kind, call, kept>>
  BY DEF Step, Fail, Truncate, Fill, PutWhole, Reply, Decode, Read, Open, Create, Copy, bookkeeping
<1>1. ASSUME Fail(p) \/ Reply(p) \/ Decode(p) \/ Read(p) PROVE PullInv'
  <2> SUFFICES ASSUME NEW q \in Processes PROVE PullInvOf(q)'
    BY PullJoin
  <2>1. /\ UNCHANGED <<remote, local, fetched, seen>>
        /\ \A r \in Processes \ {p} : pc'[r] = pc[r] /\ answer'[r] = answer[r]
        /\ pc'[p] = "idle" /\ answer'[p].op # "PullObject"
    BY <1>1 DEF Fail, Reply, Decode, Read, Return, TInv, TypeOK, CallInv, Puts
  <2>2. CASE q = p
    BY <2>1, <2>2 DEF PullInvOf, Answered
  <2>3. CASE q # p
    BY <1>a, <1>c, <2>1, <2>3, OthersPull
  <2>. QED BY <2>2, <2>3
<1>2. ASSUME Truncate(p) \/ Fill(p) \/ PutWhole(p) PROVE PullInv'
  <2> SUFFICES ASSUME NEW q \in Processes PROVE PullInvOf(q)'
    BY PullJoin
  <2>1. /\ UNCHANGED <<local, fetched>>
        /\ \A r \in Processes \ {p} : pc'[r] = pc[r] /\ answer'[r] = answer[r]
        /\ pc'[p] \in {"idle", "fill", "reply", "fail"}
        /\ pc'[p] = "idle" => answer'[p].op # "PullObject"
    <3>1. pc[p] \in {"truncate", "fill", "put"} /\ UNCHANGED <<local, fetched>>
          /\ \/ Return(p, "error", Missing)
             \/ \E step \in {"fill", "reply", "fail"} : Goto(p, step)
      BY <1>2 DEF Truncate, Fill, PutWhole
    <3>2. call[p].op # "PullObject"
      BY <3>1 DEF TInv, CallInv, Puts
    <3>. QED BY <3>1, <3>2 DEF Return, Goto, TInv, TypeOK
  <2>2. \/ UNCHANGED <<remote, seen>>
        \/ \E c \in Data \ {Missing} : Leaves(call[p].key, c)
    BY <1>2, Distinct DEF Truncate, Fill, PutWhole, TInv, TypeOK, CallInv
  <2>3. CASE q = p
    <3>1. remote'[call[p].key] \in seen'[p]
      <4>1. pc[p] # "idle" /\ remote[call[p].key] \in seen[p]
        BY <1>2, <1>a DEF Truncate, Fill, PutWhole, PullInvOf
      <4>2. ASSUME NEW c \in Data, Leaves(call[p].key, c) PROVE remote'[call[p].key] \in seen'[p]
        BY <1>b, <4>1, <4>2 DEF Leaves, Watch, TInv, TypeOK
      <4>. QED BY <2>2, <4>1, <4>2
    <3>. QED BY <1>c, <2>1, <2>3, <3>1 DEF PullInvOf, Answered
  <2>4. CASE q # p
    BY <1>a, <1>b, <1>c, <2>1, <2>2, <2>4, OthersPull
  <2>. QED BY <2>3, <2>4
<1>3. ASSUME Open(p) \/ Create(p) \/ Copy(p) PROVE PullInv'
  <2> SUFFICES ASSUME NEW q \in Processes PROVE PullInvOf(q)'
    BY PullJoin
  <2>0. p \in Plugins /\ call[p].key \in Names /\ pc[p] # "idle" /\ call[p].op = "PullObject"
        /\ remote[call[p].key] \in seen[p]
    BY <1>3, <1>a, <1>b DEF Open, Create, Copy, TInv, CallInv, PullInvOf
  <2>1. /\ UNCHANGED <<remote, seen>>
        /\ \A r \in Processes \ {p} : pc'[r] = pc[r] /\ answer'[r] = answer[r]
        /\ \A r \in Plugins \ {p} : local'[r] = local[r] /\ fetched'[r] = fetched[r]
    BY <1>3 DEF Open, Create, Copy, Return, Goto, TInv, TypeOK
  <2>2. CASE q # p
    BY <1>a, <1>c, <2>1, <2>2, OthersPull
  <2>3. ASSUME Open(p) PROVE PullInvOf(p)'
    <3>1. \/ /\ remote[call[p].key] # Missing /\ fetched'[p] = remote[call[p].key]
             /\ pc'[p] = IF kind = "FSB" THEN "create" ELSE "copy"
          \/ pc'[p] = "idle" /\ answer'[p].status = "error"
      BY <2>0, <2>3 DEF Open, Source, Return, Goto, TInv, TypeOK
    <3>2. local' = local /\ pc[p] = "open"
      BY <2>3 DEF Open
    <3>. QED BY <1>a, <1>c, <2>0, <2>1, <3>1, <3>2 DEF PullInvOf, Answered
  <2>4. ASSUME Create(p) PROVE PullInvOf(p)'
    <3>1. \/ pc'[p] = IF kind = "FSB" THEN "copy" ELSE "open"
          \/ pc'[p] = "idle" /\ answer'[p].status = "error"
      BY <2>4 DEF Create, Return, Goto, TInv, TypeOK
    <3>2. fetched' = fetched /\ pc[p] = "create"
      BY <2>4 DEF Create
    <3>. QED BY <1>a, <1>c, <2>0, <2>1, <3>1, <3>2 DEF PullInvOf, Answered
  <2>5. ASSUME Copy(p) PROVE PullInvOf(p)'
    <3>1. /\ pc'[p] = "idle" /\ fetched[p] \in seen[p] \ {Missing} /\ remote[call[p].key] # Missing
          /\ answer'[p].status = "nil" => local'[p][call[p].key] \in Copied(p)
      BY <2>0, <2>5, <1>a DEF Copy, Return, TInv, TypeOK, PullInvOf
    <3>2. \A c \in Copied(p) : \/ c \in seen[p] \ {Missing}
                               \/ kind = "FSB" /\ remote[call[p].key] # fetched[p]
      <4>1. kind \in {"FSB", "S3"}
        BY KindAssumption DEF TInv, TypeOK
      <4>. QED BY <2>0, <3>1, <4>1 DEF Copied, Source
    <3>. QED BY <1>c, <2>0, <2>1, <3>1, <3>2 DEF PullInvOf, Answered
  <2>. QED BY <1>3, <2>2, <2>3, <2>4, <2>5
<1>. QED BY <1>1, <1>2, <1>3 DEF Step

\* A crash ends a call without an answer.
LEMMA NextPull == TInv /\ PullInv /\ [Next]_vars => PullInv'
<1> SUFFICES ASSUME TInv, PullInv, [Next]_vars PROVE PullInv'
  OBVIOUS
<1>1. CASE UNCHANGED vars
  BY <1>1 DEF PullInv, PulledWasThere, FileStoreKeepsLocal, PullMissingKeepsLocal, Answered, vars
<1>2. ASSUME NEW p \in Processes, Crash(p) PROVE PullInv'
  <2> SUFFICES ASSUME NEW q \in Processes PROVE PullInvOf(q)'
    BY PullJoin
  <2>1. /\ UNCHANGED <<kind, call, remote, local, fetched, seen, kept>>
        /\ \A r \in Processes \ {p} : pc'[r] = pc[r] /\ answer'[r] = answer[r]
        /\ pc'[p] = "idle" /\ answer'[p].op = "none"
    BY <1>2 DEF Crash, TInv, TypeOK
  <2>2. CASE q = p
    BY <2>1, <2>2 DEF PullInvOf, Answered
  <2>3. CASE q # p
    BY <2>1, <2>3, PullSplit, OthersPull
  <2>. QED BY <2>2, <2>3
<1>. QED BY <1>1, <1>2, BeginPull, StepPull DEF Next

\* PullInv is an invariant.
LEMMA PullInvariant == Spec => []PullInv
BY TInvariant, InitPull, NextPull, PTL DEF Spec

\* PullObject answers nil only with a content the object had during the call, or
\* from a file store with a mix when the object changed under the call.
THEOREM PulledHolds == Spec => []PulledWasThere
<1>1. PullInv => PulledWasThere
  BY DEF PullInv
<1>. QED BY <1>1, PullInvariant, PTL

\* The file store leaves the local file alone when there is nothing to pull.
THEOREM FileStoreKeeps == Spec => []FileStoreKeepsLocal
<1>1. PullInv => FileStoreKeepsLocal
  BY DEF PullInv
<1>. QED BY <1>1, PullInvariant, PTL

(***************************************************************************)
(* The abstract store: both compute stores implement it, step by step.     *)
(***************************************************************************)
\* Only the file store writes in two steps, and only plugins pull.
KindInv ==
  /\ kind \in {"FSB", "S3"}
  /\ \A p \in Processes : pc[p] \in {"truncate", "fill"} => kind = "FSB"
  /\ \A p \in Processes : answer[p].op = "PullObject" => p \in Plugins

\* It is an invariant.
LEMMA KindInvariant == Spec => []KindInv
<1>1. Init => KindInv
  BY KindAssumption DEF Init, KindInv
<1>2. TInv /\ KindInv /\ [Next]_vars => KindInv'
  <2> SUFFICES ASSUME TInv, KindInv, [Next]_vars PROVE KindInv'
    OBVIOUS
  <2>1. CASE UNCHANGED vars
    BY <2>1 DEF KindInv, vars
  <2>2. ASSUME Begin PROVE KindInv'
    BY <2>2 DEF Begin, SetPayload, GetPayload, PutMemory, PutLocalDisk, PutRemoteDisk, GetObject, PullObject,
      Call, Goto, WriteStep, KindInv, TInv, TypeOK
  <2>3. ASSUME NEW p \in Processes, Step(p) PROVE KindInv'
    <3>1. /\ kind' = kind /\ \A q \in Processes \ {p} : pc'[q] = pc[q] /\ answer'[q] = answer[q]
          /\ answer'[p] = answer[p] \/ answer'[p].op = call[p].op
          /\ pc'[p] \in {"truncate", "fill"} => pc[p] = "truncate"
      BY <2>3 DEF Step, Fail, Truncate, Fill, PutWhole, Reply, Decode, Read, Open, Create, Copy,
        Return, Goto, bookkeeping, TInv, TypeOK
    <3>. QED BY <3>1 DEF KindInv, TInv, CallInv
  <2>4. ASSUME NEW p \in Processes, Crash(p) PROVE KindInv'
    BY <2>4 DEF Crash, KindInv, TInv, TypeOK
  <2>. QED BY <2>1, <2>2, <2>3, <2>4 DEF Next
<1>. QED BY <1>1, <1>2, TInvariant, PTL DEF Spec

\* The initial states are those of an empty store nobody uses.
LEMMA InitStore == Init /\ KindInv => Store!Init
BY DEF Init, KindInv, Store!Init, Store!NoOp, Store!NoOutcome, storeOp, storeGot, storeOutcome, Holds, Answered

(***************************************************************************)
(* The mapping, process by process                                         *)
(***************************************************************************)
\* A step of p changes what is seen of p alone.
LEMMA OfOneProcess ==
  ASSUME TInv, KindInv, NEW p \in Processes, kind' = kind,
         \A q \in Processes \ {p} : pc'[q] = pc[q] /\ call'[q] = call[q] /\ answer'[q] = answer[q],
         \A q \in Plugins \ {p} : fetched'[q] = fetched[q] /\ local'[q] = local[q]
  PROVE  /\ storeOp' = [storeOp EXCEPT ![p] = storeOp'[p]]
         /\ storeGot' = [storeGot EXCEPT ![p] = storeGot'[p]]
         /\ storeOutcome' = [storeOutcome EXCEPT ![p] = storeOutcome'[p]]
<1>1. \A q \in Processes \ {p} : storeOp'[q] = storeOp[q]
  BY DEF storeOp
<1>2. \A q \in Processes \ {p} : storeGot'[q] = storeGot[q]
  BY DEF storeGot, Holds, TInv, CallInv
<1>3. \A q \in Processes \ {p} : storeOutcome'[q] = storeOutcome[q]
  BY DEF storeOutcome, Answered, KindInv
<1>4. /\ storeOp = [q \in Processes |-> storeOp[q]] /\ storeOp' = [q \in Processes |-> storeOp'[q]]
      /\ storeGot = [q \in Processes |-> storeGot[q]] /\ storeGot' = [q \in Processes |-> storeGot'[q]]
      /\ storeOutcome = [q \in Processes |-> storeOutcome[q]]
      /\ storeOutcome' = [q \in Processes |-> storeOutcome'[q]]
  BY DEF storeOp, storeGot, storeOutcome, Holds, Answered
<1>. QED BY <1>1, <1>2, <1>3, <1>4

\* A call that returns ends, with what is then seen as its outcome.
LEMMA ReturnStep ==
  ASSUME TInv, KindInv, NEW p \in Processes, NEW status, NEW data, pc[p] # "idle", Return(p, status, data),
         UNCHANGED <<kind, call, fetched>>,
         \A q \in Plugins \ {p} : local'[q] = local[q]
  PROVE  /\ Store!End(p, storeOutcome'[p])
         /\ storeOutcome'[p].status = status
         /\ storeOutcome'[p] = [status |-> status,
              data |-> IF call[p].op = "PullObject" /\ status = "nil" THEN local'[p][call[p].key] ELSE data]
<1>1. /\ pc'[p] = "idle" /\ answer'[p] = [op |-> call[p].op, status |-> status, data |-> data]
      /\ \A q \in Processes \ {p} : pc'[q] = pc[q] /\ answer'[q] = answer[q]
  BY DEF Return, TInv, TypeOK
<1>2. /\ storeOp' = [storeOp EXCEPT ![p] = storeOp'[p]]
      /\ storeGot' = [storeGot EXCEPT ![p] = storeGot'[p]]
      /\ storeOutcome' = [storeOutcome EXCEPT ![p] = storeOutcome'[p]]
  BY <1>1, OfOneProcess
<1>3. storeOp'[p] = Store!NoOp /\ storeGot'[p] = Missing
  BY <1>1 DEF storeOp, storeGot, Holds, Store!NoOp
<1>4. storeOutcome'[p] = [status |-> status,
        data |-> IF call[p].op = "PullObject" /\ status = "nil" THEN local'[p][call[p].key] ELSE data]
  BY <1>1 DEF storeOutcome, Answered
<1>. QED BY <1>2, <1>3, <1>4 DEF Store!End

\* One that returns an error fails.
LEMMA FailStep ==
  ASSUME TInv, KindInv, NEW p \in Processes, pc[p] # "idle", Return(p, "error", Missing),
         UNCHANGED <<kind, call, fetched, remote>>,
         \A q \in Plugins \ {p} : local'[q] = local[q]
  PROVE  Store!Next
<1>1. Store!End(p, [status |-> "error", data |-> Missing])
  BY ReturnStep
<1>2. storeOp[p] # Store!NoOp
  BY DEF storeOp, Store!NoOp
<1>. QED BY <1>1, <1>2 DEF Store!Next, Store!Fails

\* One that goes on may only hold something new.
LEMMA GotoStep ==
  ASSUME TInv, KindInv, NEW p \in Processes, NEW step, pc[p] # "idle", step # "idle", Goto(p, step),
         UNCHANGED <<kind, call>>,
         \A q \in Plugins \ {p} : fetched'[q] = fetched[q] /\ local'[q] = local[q]
  PROVE  /\ storeOp' = storeOp /\ storeOutcome' = storeOutcome
         /\ storeGot' = [storeGot EXCEPT ![p] = storeGot'[p]]
         /\ storeGot'[p] = IF step = "reply" THEN call[p].data
                           ELSE IF step = "copy" \/ (kind = "FSB" /\ step = "create") THEN fetched'[p]
                           ELSE Missing
<1>1. /\ pc'[p] = step /\ UNCHANGED answer
      /\ \A q \in Processes \ {p} : pc'[q] = pc[q] /\ answer'[q] = answer[q] /\ call'[q] = call[q]
  BY DEF Goto, TInv, TypeOK
<1>2. /\ storeOp' = [storeOp EXCEPT ![p] = storeOp'[p]]
      /\ storeGot' = [storeGot EXCEPT ![p] = storeGot'[p]]
      /\ storeOutcome' = [storeOutcome EXCEPT ![p] = storeOutcome'[p]]
  BY <1>1, OfOneProcess
<1>3. storeOp'[p] = storeOp[p] /\ storeOutcome'[p] = storeOutcome[p]
  BY <1>1 DEF storeOp, storeOutcome, Answered
<1>4. storeGot'[p] = IF step = "reply" THEN call[p].data
                     ELSE IF step = "copy" \/ (kind = "FSB" /\ step = "create") THEN fetched'[p]
                     ELSE Missing
  BY <1>1 DEF storeGot, Holds
<1>5. storeOp = [q \in Processes |-> storeOp[q]] /\ storeOutcome = [q \in Processes |-> storeOutcome[q]]
  BY DEF storeOp, storeOutcome, Answered
<1>. QED BY <1>2, <1>3, <1>4, <1>5

(***************************************************************************)
(* The steps of a call                                                     *)
(***************************************************************************)
\* Writing: an object is damaged on the way, or stored at once.
LEMMA WriteRefines ==
  ASSUME TInv, KindInv, NEW p \in Processes, Truncate(p) \/ Fill(p) \/ PutWhole(p)
  PROVE  Store!Next
<1> USE Distinct
<1>1. /\ UNCHANGED <<kind, call, local, fetched>> /\ pc[p] \in {"truncate", "fill", "put"}
      /\ storeGot[p] = Missing
      /\ storeOp[p] = [kind |-> "put", key |-> call[p].key, data |-> call[p].data] /\ call[p].data # Missing
  BY DEF Truncate, Fill, PutWhole, bookkeeping, storeGot, Holds, storeOp, TInv, CallInv
<1>2. CASE Return(p, "error", Missing) /\ UNCHANGED <<remote, seen>>
  BY <1>1, <1>2, FailStep
<1>3. ASSUME NEW step \in {"reply"}, Leaves(call[p].key, call[p].data), Goto(p, step) PROVE Store!Next
  <2>1. Store!Store(p)
    BY <1>1, <1>3, GotoStep DEF Leaves, Store!Store
  <2>. QED BY <2>1 DEF Store!Next
<1>4. ASSUME NEW d \in {Empty, Torn}, NEW step \in {"fill", "fail", "reply"},
             Leaves(call[p].key, d), Goto(p, step), kind = "FSB"
      PROVE Store!Next
  <2>1. /\ storeOp' = storeOp /\ storeOutcome' = storeOutcome
        /\ storeGot' = [storeGot EXCEPT ![p] = storeGot'[p]] /\ storeGot'[p] \in {Missing, call[p].data}
    BY <1>1, <1>4, GotoStep
  <2>2. /\ ~(kind = "S3") /\ storeOp[p].kind = "put" /\ d \in Damaged
        /\ remote' = [remote EXCEPT ![storeOp[p].key] = d]
        /\ \E g \in {Missing, storeOp[p].data} : storeGot' = [storeGot EXCEPT ![p] = g]
        /\ (kind = "S3")' = (kind = "S3")
    BY <1>1, <1>4, <2>1 DEF Leaves, Damaged
  <2>3. Store!Damage(p)
    BY <2>1, <2>2 DEF Store!Damage
  <2>. QED BY <2>3 DEF Store!Next
<1>5. pc[p] \in {"truncate", "fill"} => kind = "FSB"
  BY DEF KindInv
<1>6. \/ Return(p, "error", Missing) /\ UNCHANGED <<remote, seen>>
      \/ Leaves(call[p].key, call[p].data) /\ Goto(p, "reply")
      \/ /\ \E d \in {Empty, Torn}, step \in {"fill", "fail", "reply"} : Leaves(call[p].key, d) /\ Goto(p, step)
         /\ pc[p] \in {"truncate", "fill"}
  BY DEF Truncate, Fill, PutWhole
<1>. QED BY <1>2, <1>3, <1>4, <1>5, <1>6

\* The answer of a put that took effect.
LEMMA ReplyRefines == ASSUME TInv, KindInv, NEW p \in Processes, Reply(p) PROVE Store!Next
<1>1. /\ UNCHANGED <<kind, call, local, fetched, remote>> /\ pc[p] = "reply" /\ call[p].op \in Puts
      /\ storeGot[p] = call[p].data /\ call[p].data # Missing /\ storeOp[p].kind = "put"
  BY DEF Reply, bookkeeping, storeGot, Holds, storeOp, TInv, CallInv
<1>2. CASE Return(p, "error", Missing)
  BY <1>1, <1>2, FailStep
<1>3. CASE Return(p, "nil", Missing)
  <2>1. Store!End(p, [status |-> "nil", data |-> Missing])
    BY <1>1, <1>3, ReturnStep DEF Puts
  <2>2. Store!Stored(p)
    BY <1>1, <2>1 DEF Store!Stored
  <2>. QED BY <2>2 DEF Store!Next
<1>. QED BY <1>2, <1>3 DEF Reply

\* A get that answers with what the object is, or what it met, or in a file store
\* with something damaged.
LEMMA FoundStep ==
  ASSUME TInv, KindInv, NEW p \in Processes, NEW d \in Data \ {Missing}, pc[p] # "idle", call[p].op \notin Puts,
         Store!End(p, [status |-> "nil", data |-> d]), UNCHANGED <<kind, remote>>,
         \/ d \in {storeGot[p], remote[call[p].key]}
         \/ kind = "FSB" /\ d \in Damaged
  PROVE  Store!Next
<1>1. storeOp[p].kind = "get" /\ storeOp[p].key = call[p].key
  BY DEF storeOp
<1>2. Store!Found(p)
  BY <1>1 DEF Store!Found
<1>. QED BY <1>2 DEF Store!Next

\* Reading a payload or an object.
LEMMA ReadRefines == ASSUME TInv, KindInv, NEW p \in Processes, Decode(p) \/ Read(p) PROVE Store!Next
<1> USE Distinct
<1>1. /\ UNCHANGED <<kind, call, local, fetched, remote>> /\ pc[p] # "idle"
      /\ call[p].op \notin Puts /\ call[p].op # "PullObject" /\ remote[call[p].key] \in Data
  BY DEF Decode, Read, bookkeeping, TInv, TypeOK, CallInv, Puts
<1>2. CASE Return(p, "error", Missing)
  BY <1>1, <1>2, FailStep
<1>3. ASSUME NEW d \in Data \ {Missing}, Return(p, "nil", d), d = remote[call[p].key] \/ (kind = "FSB" /\ d = Torn)
      PROVE Store!Next
  <2>1. Store!End(p, [status |-> "nil", data |-> d])
    BY <1>1, <1>3, ReturnStep
  <2>. QED BY <1>1, <1>3, <2>1, FoundStep DEF Damaged
<1>4. \/ Return(p, "error", Missing)
      \/ \E d \in Data \ {Missing} : Return(p, "nil", d) /\ (d = remote[call[p].key] \/ (kind = "FSB" /\ d = Torn))
  BY <1>1 DEF Decode, Read, Source, MixOf
<1>. QED BY <1>2, <1>3, <1>4

\* Pulling: the object is met when it is opened, and answered with when it is
\* copied; making the local file is nobody else's business.
LEMMA PullRefines ==
  ASSUME TInv, KindInv, PullInv, NEW p \in Processes, Open(p) \/ Create(p) \/ Copy(p)
  PROVE  Store!Next \/ UNCHANGED Store!vars
<1> USE Distinct
<1>1. /\ UNCHANGED <<kind, call, remote>> /\ pc[p] # "idle" /\ p \in Plugins /\ call[p].key \in Names
      /\ call[p].op = "PullObject" /\ remote[call[p].key] \in Data
      /\ storeOp[p].kind = "get" /\ storeOp[p].key = call[p].key
      /\ \A q \in Plugins \ {p} : local'[q] = local[q] /\ fetched'[q] = fetched[q]
  BY DEF Open, Create, Copy, bookkeeping, TInv, TypeOK, CallInv, Puts, storeOp
<1>2. CASE Return(p, "error", Missing) /\ UNCHANGED fetched
  BY <1>1, <1>2, FailStep
<1>3. ASSUME Open(p), NEW step \in {"create", "copy"}, Goto(p, step),
             kind = "FSB" <=> step = "create", remote[call[p].key] # Missing, fetched'[p] = remote[call[p].key]
      PROVE Store!Next
  <2>1. /\ storeOp' = storeOp /\ storeOutcome' = storeOutcome
        /\ storeGot' = [storeGot EXCEPT ![p] = remote[call[p].key]]
    BY <1>1, <1>3, GotoStep
  <2>2. Store!Meet(p)
    BY <1>1, <1>3, <2>1 DEF Store!Meet
  <2>. QED BY <2>2 DEF Store!Next
<1>4. ASSUME Create(p), NEW step \in {"open", "copy"}, Goto(p, step), kind = "FSB" <=> step = "copy"
      PROVE UNCHANGED Store!vars
  <2>1. fetched' = fetched /\ pc[p] = "create"
    BY <1>4 DEF Create
  <2>2. storeGot[p] = IF kind = "FSB" THEN fetched[p] ELSE Missing
    BY <2>1 DEF storeGot, Holds
  <2>3. /\ storeOp' = storeOp /\ storeOutcome' = storeOutcome
        /\ storeGot' = [storeGot EXCEPT ![p] = storeGot[p]]
    BY <1>1, <1>4, <2>1, <2>2, GotoStep
  <2>4. storeGot = [q \in Processes |-> storeGot[q]]
    BY DEF storeGot
  <2>. QED BY <1>1, <2>3, <2>4 DEF Store!vars
<1>5. ASSUME Copy(p), NEW d \in Copied(p), local' = [local EXCEPT ![p][call[p].key] = d], Return(p, "nil", Missing)
      PROVE Store!Next
  <2>1. fetched' = fetched /\ pc[p] = "copy" /\ local'[p][call[p].key] = d /\ storeGot[p] = fetched[p]
    BY <1>1, <1>5 DEF Copy, TInv, TypeOK, storeGot, Holds
  <2>2. fetched[p] \in Data \ {Missing} /\ remote[call[p].key] # Missing
    BY <1>1, <2>1 DEF PullInv, TInv, TypeOK
  <2>3. Store!End(p, [status |-> "nil", data |-> d])
    BY <1>1, <1>5, <2>1, ReturnStep
  <2>4. d \in Data \ {Missing} /\ (d \in {fetched[p], remote[call[p].key]} \/ (kind = "FSB" /\ d \in Damaged))
    BY <1>1, <1>5, <2>2 DEF Copied, Source, Damaged, KindInv
  <2>. QED BY <1>1, <2>1, <2>3, <2>4, FoundStep DEF Puts
<1>6. CASE Open(p)
  <2>1. \/ /\ Goto(p, IF kind = "FSB" THEN "create" ELSE "copy")
           /\ remote[call[p].key] # Missing /\ fetched'[p] = remote[call[p].key]
        \/ Return(p, "error", Missing) /\ UNCHANGED fetched
    BY <1>1, <1>6 DEF Open, Source, TInv, TypeOK
  <2>2. (IF kind = "FSB" THEN "create" ELSE "copy") \in {"create", "copy"}
    OBVIOUS
  <2>. QED BY <1>2, <1>3, <1>6, <2>1, <2>2
<1>7. CASE Create(p)
  <2>1. \/ Goto(p, IF kind = "FSB" THEN "copy" ELSE "open")
        \/ Return(p, "error", Missing) /\ UNCHANGED fetched
    BY <1>7 DEF Create
  <2>2. (IF kind = "FSB" THEN "copy" ELSE "open") \in {"copy", "open"}
    OBVIOUS
  <2>. QED BY <1>2, <1>4, <1>7, <2>1, <2>2
<1>8. CASE Copy(p)
  BY <1>2, <1>5, <1>8 DEF Copy
<1>. QED BY <1>6, <1>7, <1>8

\* A call begins as a put of its data or as a get.
LEMMA BeginRefines == ASSUME TInv, KindInv, Begin PROVE Store!Next
<1> USE Distinct
<1>1. ASSUME NEW p \in Processes, NEW op \in Operations, NEW k \in Keys, NEW data \in Data,
             NEW step \in {"truncate", "put", "decode", "fail", "read", "open", "create"},
             Call(p, op, k, data, step), kind = "FSB" => step # "create", op \notin Puts => data = Missing
      PROVE Store!Next
  <2>1. /\ UNCHANGED <<kind, answer, remote, local, fetched>> /\ pc[p] = "idle"
        /\ pc'[p] = step /\ call'[p] = [op |-> op, key |-> k, data |-> data]
        /\ \A q \in Processes \ {p} : pc'[q] = pc[q] /\ call'[q] = call[q]
    BY <1>1 DEF Call, Goto, TInv, TypeOK
  <2>2. /\ storeOp' = [storeOp EXCEPT ![p] = storeOp'[p]]
        /\ storeGot' = [storeGot EXCEPT ![p] = storeGot'[p]]
        /\ storeOutcome' = [storeOutcome EXCEPT ![p] = storeOutcome'[p]]
    BY <2>1, OfOneProcess
  <2>3. storeOp[p] = Store!NoOp /\ storeGot[p] = Missing
    BY <2>1 DEF storeOp, storeGot, Holds, Store!NoOp
  <2>4. storeGot'[p] = Missing /\ storeOutcome'[p] = Store!NoOutcome
    BY <1>1, <2>1 DEF storeGot, Holds, storeOutcome, Answered, Store!NoOutcome
  <2>5. storeGot = [q \in Processes |-> storeGot[q]]
    BY DEF storeGot
  <2>6. storeGot' = storeGot
    BY <2>2, <2>3, <2>4, <2>5
  <2>7. CASE op \in Puts
    <3>1. storeOp'[p] = [kind |-> "put", key |-> k, data |-> data]
      BY <1>1, <2>1, <2>7 DEF storeOp
    <3>2. Store!Put(p, k, data)
      BY <2>1, <2>2, <2>3, <2>4, <2>6, <3>1 DEF Store!Put, Store!Begin
    <3>. QED BY <3>2 DEF Store!Next
  <2>8. CASE op \notin Puts
    <3>1. storeOp'[p] = [kind |-> "get", key |-> k, data |-> Missing]
      BY <1>1, <2>1, <2>8 DEF storeOp
    <3>2. Store!Get(p, k)
      BY <2>1, <2>2, <2>3, <2>4, <2>6, <3>1 DEF Store!Get, Store!Begin
    <3>. QED BY <3>2 DEF Store!Next
  <2>. QED BY <2>7, <2>8
<1>2. WriteStep \in {"truncate", "put"} /\ {"SetPayload", "GetPayload", "PutObject", "GetObject", "PullObject"} \subseteq Operations
  BY DEF WriteStep, Operations
<1>3. ASSUME NEW v \in Payloads, SetPayload(v) PROVE Store!Next
  BY <1>1, <1>2, <1>3 DEF SetPayload, Puts
<1>4. ASSUME NEW p \in Plugins, GetPayload(p) PROVE Store!Next
  BY <1>1, <1>2, <1>4 DEF GetPayload
<1>5. ASSUME NEW p \in Plugins, NEW n \in Names, NEW v \in Contents, PutMemory(p, n, v) PROVE Store!Next
  BY <1>1, <1>2, <1>5 DEF PutMemory, Puts
<1>6. ASSUME NEW p \in Plugins, NEW n \in Names, PutLocalDisk(p, n) PROVE Store!Next
  <2>1. local[p][n] \in Data
    BY DEF TInv, TypeOK
  <2>. QED BY <1>1, <1>2, <1>6, <2>1 DEF PutLocalDisk, Puts
<1>7. ASSUME NEW p \in Plugins, NEW n \in Names, PutRemoteDisk(p, n) PROVE Store!Next
  BY <1>1, <1>2, <1>7 DEF PutRemoteDisk
<1>8. ASSUME NEW p \in Plugins, NEW n \in Names, GetObject(p, n) PROVE Store!Next
  BY <1>1, <1>2, <1>8 DEF GetObject
<1>9. ASSUME NEW p \in Plugins, NEW n \in Names, PullObject(p, n) PROVE Store!Next
  BY <1>1, <1>2, <1>9 DEF PullObject
<1>. QED BY <1>3, <1>4, <1>5, <1>6, <1>7, <1>8, <1>9 DEF Begin

\* A crash ends a call without an outcome.
LEMMA CrashRefines == ASSUME TInv, KindInv, NEW p \in Processes, Crash(p) PROVE Store!Next
<1>1. /\ UNCHANGED <<kind, call, remote, local, fetched>> /\ pc[p] # "idle" /\ pc'[p] = "idle"
      /\ answer'[p] = [op |-> "none", status |-> "none", data |-> Missing]
      /\ \A q \in Processes \ {p} : pc'[q] = pc[q] /\ answer'[q] = answer[q]
  BY DEF Crash, TInv, TypeOK
<1>2. /\ storeOp' = [storeOp EXCEPT ![p] = storeOp'[p]]
      /\ storeGot' = [storeGot EXCEPT ![p] = storeGot'[p]]
      /\ storeOutcome' = [storeOutcome EXCEPT ![p] = storeOutcome'[p]]
  BY <1>1, OfOneProcess
<1>3. storeOp'[p] = Store!NoOp /\ storeGot'[p] = Missing /\ storeOutcome'[p] = Store!NoOutcome
  BY <1>1 DEF storeOp, storeGot, storeOutcome, Holds, Answered, Store!NoOp, Store!NoOutcome
<1>4. storeOp[p] # Store!NoOp
  BY <1>1 DEF storeOp, Store!NoOp
<1>5. Store!Dies(p)
  BY <1>1, <1>2, <1>3, <1>4 DEF Store!Dies, Store!End
<1>. QED BY <1>5 DEF Store!Next

\* Every step is a step of the abstract store, or one it does not see.
LEMMA NextRefines == TInv /\ KindInv /\ PullInv /\ [Next]_vars => [Store!Next]_(Store!vars)
<1> SUFFICES ASSUME TInv, KindInv, PullInv, [Next]_vars PROVE Store!Next \/ UNCHANGED Store!vars
  OBVIOUS
<1>1. CASE UNCHANGED vars
  BY <1>1 DEF vars, Store!vars, storeOp, storeGot, storeOutcome, Holds, Answered
<1>2. ASSUME NEW p \in Processes, Fail(p) PROVE Store!Next
  BY <1>2, FailStep DEF Fail, bookkeeping
<1>3. ASSUME NEW p \in Processes, Step(p) PROVE Store!Next \/ UNCHANGED Store!vars
  BY <1>2, <1>3, WriteRefines, ReplyRefines, ReadRefines, PullRefines DEF Step
<1>. QED BY <1>1, <1>3, BeginRefines, CrashRefines DEF Next

\* Both stores are an object store whose puts and gets act at one instant, but for
\* the damage the file store may do to what it writes.
THEOREM Implements == Spec => ImplementsStore
<1>1. Spec => Store!Init
  BY InitStore, KindInvariant, PTL DEF Spec
<1>. QED BY <1>1, NextRefines, TInvariant, KindInvariant, PullInvariant, PTL DEF Spec, ImplementsStore, Store!Spec

=============================================================================
