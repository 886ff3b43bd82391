------------------------- MODULE PluginManagerProofs -------------------------
(***************************************************************************)
(* What pluginmanager.go guarantees for every set of payload documents,    *)
(* whatever the number of levels and of stores: first InitPluginManager    *)
(* and RunActions (PluginManager), then substituteVariables (Substitution, *)
(* whose names begin with Pass where both modules have one).               *)
(***************************************************************************)
EXTENDS PluginManager, Substitution, SequenceFacts, TLAPS

\* The stores connectStores has passed.
Passed(s) == s[1] < level \/ (s[1] = level /\ s[2] < next)

\* How far the connection is: exactly the stores that were passed have a
\* session, the one Connect gives for them, and the actions of the levels that
\* were entered have their parent.
ConnectionInv ==
  /\ pc \in {"create", "fetch"} => payload = NoPayload
  /\ pc \in {"create", "fetch", "substitute"} => level = 0 /\ next = 1
  /\ parented = 1 .. level
  /\ \A s \in Slots(payload) : session[s] # "none" <=> Passed(s)
  /\ \A s \in Slots(payload) : session[s] # "none" =>
       /\ session[s] = Connected(StoreOf(s))
       /\ StoreOf(s).type = "S3" => StoreOf(s).root \in StringRoots
  /\ HandedOut => level = Len(payload.actions) /\ next > Len(Stores(payload, level))

IInv == TypeOK /\ ConnectionInv

(***************************************************************************)
(* Payloads                                                                *)
(***************************************************************************)
\* The stores of a level are a sequence of data stores.
LEMMA StoresType ==
  ASSUME NEW p \in Payload, NEW l \in Levels(p)
  PROVE  /\ Stores(p, l) \in Seq(DataStore)
         /\ Len(Stores(p, l)) \in Nat
         /\ \A i \in 1 .. Len(Stores(p, l)) : Stores(p, l)[i] \in DataStore
<1>1. CASE l = 0
  BY <1>1 DEF Payload, Stores
<1>2. CASE l # 0
  <2>1. l \in 1 .. Len(p.actions) /\ p.actions \in Seq(Action)
    BY <1>2 DEF Levels, Payload
  <2>2. p.actions[l] \in Action
    BY <2>1
  <2>3. p.actions[l].stores \in Seq(DataStore)
    BY <2>2 DEF Action
  <2>. QED BY <1>2, <2>3 DEF Stores
<1>. QED BY <1>1, <1>2

\* A slot is a level of the payload and the index of a store of that level.
LEMMA SlotsMember ==
  ASSUME NEW p \in Payload, NEW s
  PROVE  s \in Slots(p) <=> \E l \in Levels(p) : \E i \in 1 .. Len(Stores(p, l)) : s = <<l, i>>
BY DEF Slots

\* The two parts of a slot.
LEMMA SlotParts ==
  ASSUME NEW p \in Payload, NEW s \in Slots(p)
  PROVE  /\ s = <<s[1], s[2]>> /\ s[1] \in Levels(p) /\ s[1] \in Nat
         /\ s[2] \in 1 .. Len(Stores(p, s[1])) /\ s[2] \in Nat
         /\ Len(Stores(p, s[1])) \in Nat
<1>1. PICK l, i : l \in Levels(p) /\ i \in 1 .. Len(Stores(p, l)) /\ s = <<l, i>>
  BY SlotsMember
<1>2. Len(Stores(p, l)) \in Nat
  BY <1>1, StoresType
<1>3. l \in Nat
  BY <1>1 DEF Levels, Payload
<1>. QED BY <1>1, <1>2, <1>3

\* Substituting the payload's parameters changes no action and no store's place.
LEMMA SubstitutionKeepsSlots ==
  ASSUME NEW p \in Payload
  PROVE  /\ SubstitutedPayload(p) \in Payload
         /\ SubstitutedPayload(p).actions = p.actions
         /\ Levels(SubstitutedPayload(p)) = Levels(p)
         /\ \A l \in Levels(p) : Len(Stores(SubstitutedPayload(p), l)) = Len(Stores(p, l))
         /\ Slots(SubstitutedPayload(p)) = Slots(p)
<1> DEFINE q == SubstitutedPayload(p)
<1>1. \A ds \in DataStore : [ds EXCEPT !.root = SubstitutedRoot(@)] \in DataStore
  BY DEF DataStore, SubstitutedRoot, Roots
<1>2. p.stores \in Seq(DataStore)
  BY DEF Payload
<1>3. SubstitutedStores(p.stores) \in Seq(DataStore) /\ Len(SubstitutedStores(p.stores)) = Len(p.stores)
  <2>1. \A i \in 1 .. Len(p.stores) : p.stores[i] \in DataStore
    BY <1>2
  <2>2. SubstitutedStores(p.stores) \in [1 .. Len(p.stores) -> DataStore]
    BY <1>1, <1>2, <2>1 DEF SubstitutedStores
  <2>. QED BY <1>2, <2>2
<1>4. q \in Payload /\ q.actions = p.actions /\ q.stores = SubstitutedStores(p.stores)
  BY <1>3 DEF SubstitutedPayload, Payload
<1>5. Levels(q) = Levels(p)
  BY <1>4 DEF Levels
<1>6. \A l \in Levels(p) : Len(Stores(q, l)) = Len(Stores(p, l))
  BY <1>3, <1>4 DEF Stores
<1>7. Slots(q) = Slots(p)
  BY <1>5, <1>6 DEF Slots
<1>. QED BY <1>4, <1>5, <1>6, <1>7

(***************************************************************************)
(* Types                                                                   *)
(***************************************************************************)
\* The initial states have their types.
LEMMA InitTypeOK == Init => TypeOK
<1> SUFFICES ASSUME Init PROVE TypeOK
  OBVIOUS
<1>1. NoPayload \in Payload /\ Levels(NoPayload) = {0} /\ Stores(NoPayload, 0) = <<>>
  BY DEF NoPayload, Payload, MapOutcomes, Levels, Stores
<1>2. Slots(NoPayload) = {}
  BY <1>1, SlotsMember
<1>3. session \in [Slots(payload) -> Sessions]
  BY <1>2 DEF Init
<1>4. MaxCalls \in Nat
  BY CallsAssumption
<1>. QED BY <1>1, <1>3, <1>4 DEF Init, TypeOK, PCs, Reasons

\* One iteration of connectStores gives a session to a slot of the payload.
LEMMA ConnectStoreTypeOK == TypeOK /\ ConnectStore => TypeOK'
<1> SUFFICES ASSUME TypeOK, ConnectStore PROVE TypeOK'
  OBVIOUS
<1>1. payload \in Payload /\ level \in Levels(payload) /\ Len(Stores(payload, level)) \in Nat
  BY StoresType DEF TypeOK
<1>2. next' \in 1 .. (Len(Stores(payload, level)) + 1)
  BY <1>1 DEF ConnectStore, TypeOK
<1>3. session' \in [Slots(payload) -> Sessions]
  BY DEF ConnectStore, TypeOK, Connected, Sessions
<1>4. pc' \in PCs /\ err' \in Reasons
  BY DEF ConnectStore, InitFails, TypeOK, PCs, Reasons
<1>5. payload' = payload /\ level' = level
  BY DEF ConnectStore
<1>. QED BY <1>2, <1>3, <1>4, <1>5 DEF ConnectStore, TypeOK, runVars

\* Going on to the next action starts at the first of its stores.
LEMMA SetParentTypeOK == TypeOK /\ SetParent => TypeOK'
<1> SUFFICES ASSUME TypeOK, SetParent PROVE TypeOK'
  OBVIOUS
<1>1. payload \in Payload /\ Len(payload.actions) \in Nat /\ level \in 0 .. Len(payload.actions)
  BY DEF TypeOK, Payload, Levels
<1>2. level' \in Levels(payload) /\ level' = level + 1
  BY <1>1 DEF SetParent, Levels
<1>3. Len(Stores(payload, level')) \in Nat
  BY <1>1, <1>2, StoresType
<1>4. next' \in 1 .. (Len(Stores(payload, level')) + 1)
  BY <1>3 DEF SetParent
<1>5. parented' \subseteq 1 .. level'
  BY <1>1, <1>2 DEF SetParent, TypeOK
<1>. QED BY <1>2, <1>4, <1>5 DEF SetParent, TypeOK, runVars

\* The payload that is read, with a session slot for each of its stores.
LEMMA GetPayloadTypeOK == TypeOK /\ ConnectionInv /\ GetPayload => TypeOK'
<1> SUFFICES ASSUME TypeOK, ConnectionInv, GetPayload PROVE TypeOK'
  OBVIOUS
<1>1. CASE UNCHANGED <<payload, session>>
  BY <1>1 DEF GetPayload, InitFails, TypeOK, PCs, Reasons, runVars
<1>2. ASSUME NEW p \in Payloads, payload' = p, session' = [s \in Slots(p) |-> "none"],
             pc' = "substitute", UNCHANGED err
      PROVE  TypeOK'
  <2>1. p \in Payload
    BY PayloadsAssumption
  <2>2. level = 0 /\ next = 1
    BY DEF GetPayload, ConnectionInv
  <2>3. 0 \in Levels(p)
    BY <2>1 DEF Payload, Levels
  <2>4. Len(Stores(p, 0)) \in Nat
    BY <2>1, <2>3, StoresType
  <2>5. level' \in Levels(payload') /\ next' \in 1 .. (Len(Stores(payload', level')) + 1)
    BY <1>2, <2>2, <2>3, <2>4 DEF GetPayload
  <2>6. session' \in [Slots(payload') -> Sessions]
    BY <1>2 DEF Sessions
  <2>. QED BY <1>2, <2>1, <2>5, <2>6 DEF GetPayload, TypeOK, PCs, runVars
<1>. QED BY <1>1, <1>2 DEF GetPayload

\* Substitution leaves every store at its slot.
LEMMA SubstituteTypeOK == TypeOK /\ SubstituteVariables => TypeOK'
<1> SUFFICES ASSUME TypeOK, SubstituteVariables PROVE TypeOK'
  OBVIOUS
<1>1. payload \in Payload /\ level \in Levels(payload)
  BY DEF TypeOK
<1>2. CASE payload' = payload
  BY <1>2 DEF SubstituteVariables, InitFails, Crash, TypeOK, PCs, Reasons, initVars, runVars
<1>3. CASE payload' = SubstitutedPayload(payload) /\ pc' = "connect" /\ UNCHANGED err
  <2>1. /\ payload' \in Payload
        /\ Levels(payload') = Levels(payload)
        /\ Len(Stores(payload', level)) = Len(Stores(payload, level))
        /\ Slots(payload') = Slots(payload)
    BY <1>1, <1>3, SubstitutionKeepsSlots
  <2>. QED BY <1>3, <2>1 DEF SubstituteVariables, TypeOK, PCs, initVars, runVars
<1>. QED BY <1>2, <1>3 DEF SubstituteVariables

\* The steps of RunActions keep the record of the actions well formed.
LEMMA RunStepTypeOK == TypeOK /\ RunStep => TypeOK'
<1> SUFFICES ASSUME TypeOK, RunStep PROVE TypeOK'
  OBVIOUS
<1>1. /\ payload' = payload /\ UNCHANGED initVars /\ registry' = registry /\ calls' = calls
      /\ pc' \in PCs /\ err' \in Reasons
  BY DEF RunStep, SkipAction, InstantiationPanics, RunnerSucceeds, RunnerFails, RunnerPanics,
         RunReturns, Advance, Crash, TypeOK, PCs, Reasons, runVars
<1>2. CASE UNCHANGED <<cursor, runs>>
  BY <1>1, <1>2 DEF TypeOK, initVars
<1>3. ASSUME AtAction, NEW outcome \in RunOutcomes, Advance(outcome) PROVE TypeOK'
  <2>1. payload.actions \in Seq(Action) /\ cursor \in 1 .. Len(payload.actions)
    BY <1>3 DEF AtAction, TypeOK, Payload
  <2>2. Runner \in Prototypes \cup {NoRunner}
    <3>1. payload.actions[cursor] \in Action
      BY <2>1
    <3>2. payload.actions[cursor].name \in Names
      BY <3>1 DEF Action
    <3>. QED BY <3>2 DEF Runner, TypeOK
  <2>3. [outcome |-> outcome, runner |-> Runner] \in RunRecord
    BY <2>2 DEF RunRecord
  <2>4. runs' \in Seq(RunRecord) /\ cursor' \in Nat \ {0}
    BY <1>3, <2>3 DEF Advance, TypeOK
  <2>. QED BY <1>1, <2>4 DEF TypeOK, initVars
<1>4. UNCHANGED <<cursor, runs>> \/ (AtAction /\ \E outcome \in RunOutcomes : Advance(outcome))
  BY DEF RunStep, SkipAction, InstantiationPanics, RunnerSucceeds, RunnerFails, RunnerPanics,
         RunReturns, RunOutcomes, runVars
<1>. QED BY <1>2, <1>3, <1>4

\* Every step keeps the types.
LEMMA NextTypeOK == TypeOK /\ ConnectionInv /\ [Next]_vars => TypeOK'
<1> SUFFICES ASSUME TypeOK, ConnectionInv, [Next]_vars PROVE TypeOK'
  OBVIOUS
<1>1. CASE NewCcStore
  BY <1>1 DEF NewCcStore, InitFails, TypeOK, PCs, Reasons, initVars, runVars
<1>2. CASE InitReturns
  BY <1>2 DEF InitReturns, TypeOK, PCs, initVars, runVars
<1>3. CASE RunActions
  <2>1. calls' \in 0 .. MaxCalls
    BY <1>3, CallsAssumption DEF RunActions, TypeOK
  <2>2. runs' \in Seq(RunRecord) /\ cursor' \in Nat \ {0} /\ pc' \in PCs /\ err' \in Reasons
    BY <1>3 DEF RunActions, PCs, Reasons
  <2>. QED BY <1>3, <2>1, <2>2 DEF RunActions, TypeOK, initVars
<1>4. ASSUME NEW n \in Names, NEW r \in Prototypes, RegisterAction(n, r) PROVE TypeOK'
  BY <1>4 DEF RegisterAction, TypeOK, initVars, runVars
<1>5. CASE UNCHANGED vars
  BY <1>5 DEF vars, TypeOK
<1>. QED
  BY <1>1, <1>2, <1>3, <1>4, <1>5, GetPayloadTypeOK, SubstituteTypeOK, ConnectStoreTypeOK,
     SetParentTypeOK, RunStepTypeOK DEF Next, InitStep

(***************************************************************************)
(* The connection of the stores                                            *)
(***************************************************************************)
\* Before any store is read nothing is connected.
LEMMA InitConnectionInv == Init => ConnectionInv
<1> SUFFICES ASSUME Init PROVE ConnectionInv
  OBVIOUS
<1>1. NoPayload \in Payload /\ Levels(NoPayload) = {0} /\ Stores(NoPayload, 0) = <<>>
  BY DEF NoPayload, Payload, MapOutcomes, Levels, Stores
<1>2. Slots(payload) = {}
  BY <1>1, SlotsMember DEF Init
<1>. QED BY <1>2 DEF Init, ConnectionInv, HandedOut

\* A payload that was just read has no session, and connectStores has passed
\* none of its stores.
LEMMA GetPayloadConnectionInv == IInv /\ GetPayload => ConnectionInv'
<1> SUFFICES ASSUME IInv, GetPayload PROVE ConnectionInv'
  OBVIOUS
<1>1. level' = 0 /\ next' = 1 /\ parented' = 1 .. 0
  BY DEF GetPayload, IInv, ConnectionInv
<1>2. CASE InitFails("payload") /\ UNCHANGED <<payload, session>>
  BY <1>2 DEF GetPayload, InitFails, IInv, ConnectionInv, HandedOut, Passed, StoreOf, Stores, Slots, Levels
<1>3. ASSUME NEW p \in Payloads, payload' = p, session' = [s \in Slots(p) |-> "none"],
             pc' = "substitute"
      PROVE  ConnectionInv'
  <2>1. ASSUME NEW s \in Slots(p) PROVE ~Passed(s)' /\ session'[s] = "none"
    <3>1. s[1] \in Nat /\ s[2] \in 1 .. Len(Stores(p, s[1])) /\ s[2] \in Nat
      BY PayloadsAssumption, SlotParts
    <3>. QED BY <1>1, <1>3, <3>1 DEF Passed
  <2>. QED BY <1>1, <1>3, <2>1 DEF ConnectionInv, HandedOut
<1>. QED BY <1>2, <1>3 DEF GetPayload

\* Substitution comes before the first connection.
LEMMA SubstituteConnectionInv == IInv /\ SubstituteVariables => ConnectionInv'
<1> SUFFICES ASSUME IInv, SubstituteVariables PROVE ConnectionInv'
  OBVIOUS
<1>1. /\ level' = 0 /\ next' = 1 /\ level = 0 /\ next = 1
      /\ parented' = 1 .. level' /\ session' = session
      /\ pc' \in {"failed", "crashed", "connect"}
  BY DEF SubstituteVariables, IInv, ConnectionInv, InitFails, Crash, initVars
<1>2. Slots(payload') = Slots(payload)
  BY SubstitutionKeepsSlots DEF SubstituteVariables, IInv, TypeOK
<1>3. ASSUME NEW s \in Slots(payload) PROVE ~Passed(s) /\ ~Passed(s)' /\ session[s] = "none"
  <2>1. s[1] \in Nat /\ s[2] \in 1 .. Len(Stores(payload, s[1])) /\ s[2] \in Nat
    BY SlotParts DEF IInv, TypeOK
  <2>2. ~Passed(s) /\ ~Passed(s)'
    BY <1>1, <2>1 DEF Passed
  <2>. QED BY <2>2 DEF IInv, ConnectionInv
<1>. QED BY <1>1, <1>2, <1>3 DEF ConnectionInv, HandedOut

\* Connecting a store passes that store and no other.
LEMMA ConnectStoreConnectionInv == IInv /\ ConnectStore => ConnectionInv'
<1> SUFFICES ASSUME IInv, ConnectStore PROVE ConnectionInv'
  OBVIOUS
<1> DEFINE here == <<level, next>>
           ds == Stores(payload, level)[next]
<1>1. /\ payload' = payload /\ level' = level /\ parented' = parented
      /\ pc = "connect" /\ pc' \in {"connect", "failed"}
      /\ parented = 1 .. level
  BY DEF ConnectStore, InitFails, IInv, ConnectionInv
<1>2. CASE UNCHANGED <<session, next>>
  BY <1>1, <1>2 DEF IInv, ConnectionInv, HandedOut, Passed, StoreOf, Stores, Slots, Levels
<1>3. CASE /\ ds.type \in RegisteredTypes /\ Connectable(ds)
           /\ session' = [session EXCEPT ![here] = Connected(ds)]
           /\ next' = next + 1
  <2>1. level \in Nat /\ next \in Nat /\ level \in Levels(payload) /\ payload \in Payload
    BY DEF IInv, TypeOK, Levels, Payload
  <2>2. here \in Slots(payload)
    BY <2>1, StoresType, SlotsMember DEF ConnectStore, IInv, TypeOK
  <2>3. ASSUME NEW s \in Slots(payload)
        PROVE  Passed(s)' <=> (s = here \/ Passed(s))
    <3>1. s = <<s[1], s[2]>> /\ s[1] \in Nat /\ s[2] \in Nat
      BY <2>1, SlotParts
    <3>. QED BY <1>1, <1>3, <2>1, <3>1 DEF Passed
  <2>4. Connected(ds) # "none" /\ (ds.type = "S3" => ds.root \in StringRoots) /\ StoreOf(here) = ds
    BY <1>3 DEF Connected, Connectable, StoreOf
  <2>5. ASSUME NEW s \in Slots(payload)
        PROVE  session'[s] = IF s = here THEN Connected(ds) ELSE session[s]
    BY <1>3, <2>2 DEF IInv, TypeOK
  <2>6. \A s : StoreOf(s)' = StoreOf(s)
    BY <1>1 DEF StoreOf
  <2>. QED BY <1>1, <2>3, <2>4, <2>5, <2>6 DEF IInv, ConnectionInv, HandedOut
<1>. QED BY <1>2, <1>3 DEF ConnectStore

\* When every store of a level is passed, so is the level.
LEMMA SetParentConnectionInv == IInv /\ SetParent => ConnectionInv'
<1> SUFFICES ASSUME IInv, SetParent PROVE ConnectionInv'
  OBVIOUS
<1>1. level \in Nat /\ next \in Nat /\ level \in Levels(payload) /\ payload \in Payload
  BY DEF IInv, TypeOK, Levels, Payload
<1>2. ASSUME NEW s \in Slots(payload) PROVE Passed(s)' <=> Passed(s)
  <2>1. /\ s[1] \in Nat /\ s[2] \in 1 .. Len(Stores(payload, s[1])) /\ s[2] \in Nat
        /\ Len(Stores(payload, s[1])) \in Nat
    BY <1>1, SlotParts
  <2>2. next > Len(Stores(payload, level)) /\ level' = level + 1 /\ next' = 1
    BY DEF SetParent
  <2>3. CASE s[1] = level
    BY <1>1, <2>1, <2>2, <2>3 DEF Passed
  <2>4. CASE s[1] # level
    BY <1>1, <2>1, <2>2, <2>4 DEF Passed
  <2>. QED BY <2>3, <2>4
<1>3. parented' = 1 .. level'
  BY <1>1 DEF SetParent, IInv, ConnectionInv
<1>4. pc' = "connect" /\ payload' = payload /\ session' = session
  BY DEF SetParent
<1>5. \A s : StoreOf(s)' = StoreOf(s)
  BY <1>4 DEF StoreOf
<1>. QED BY <1>2, <1>3, <1>4, <1>5 DEF IInv, ConnectionInv, HandedOut

\* Nothing after the connection touches it.
LEMMA OtherConnectionInv ==
  ASSUME IInv, UNCHANGED <<payload, initVars>>,
         pc \in {"create", "fetch"} => pc' \in {"create", "fetch", "failed"},
         HandedOut' => HandedOut \/ InitReturns,
         pc' \in {"create", "fetch", "substitute"} => pc \in {"create", "fetch", "substitute"},
         pc' \in {"create", "fetch"} => pc \in {"create", "fetch"}
  PROVE  ConnectionInv'
<1>1. \A s : Passed(s)' = Passed(s) /\ StoreOf(s)' = StoreOf(s)
  BY DEF Passed, StoreOf, initVars
<1>2. HandedOut' => level = Len(payload.actions) /\ next > Len(Stores(payload, level))
  BY DEF IInv, ConnectionInv, InitReturns
<1>. QED BY <1>1, <1>2 DEF IInv, ConnectionInv, initVars

\* The inductive step.
LEMMA NextIInv == IInv /\ [Next]_vars => IInv'
<1> SUFFICES ASSUME IInv, [Next]_vars PROVE IInv'
  OBVIOUS
<1>1. TypeOK'
  BY NextTypeOK DEF IInv
<1>2. CASE GetPayload
  BY <1>1, <1>2, GetPayloadConnectionInv DEF IInv
<1>3. CASE SubstituteVariables
  BY <1>1, <1>3, SubstituteConnectionInv DEF IInv
<1>4. CASE ConnectStore
  BY <1>1, <1>4, ConnectStoreConnectionInv DEF IInv
<1>5. CASE SetParent
  BY <1>1, <1>5, SetParentConnectionInv DEF IInv
<1>6. CASE NewCcStore
  BY <1>1, <1>6, OtherConnectionInv DEF IInv, NewCcStore, InitFails, HandedOut
<1>7. CASE InitReturns
  BY <1>1, <1>7, OtherConnectionInv DEF IInv, InitReturns, HandedOut
<1>8. CASE RunStep
  BY <1>1, <1>8, OtherConnectionInv
     DEF IInv, RunStep, SkipAction, InstantiationPanics, RunnerSucceeds, RunnerFails, RunnerPanics,
         RunReturns, AtAction, Crash, HandedOut
<1>9. CASE RunActions
  BY <1>1, <1>9, OtherConnectionInv DEF IInv, RunActions, HandedOut
<1>10. ASSUME NEW n \in Names, NEW r \in Prototypes, RegisterAction(n, r) PROVE IInv'
  BY <1>1, <1>10, OtherConnectionInv DEF IInv, RegisterAction, HandedOut
<1>11. CASE UNCHANGED vars
  BY <1>1, <1>11, OtherConnectionInv DEF IInv, vars, initVars, HandedOut
<1>. QED
  BY <1>2, <1>3, <1>4, <1>5, <1>6, <1>7, <1>8, <1>9, <1>10, <1>11 DEF Next, InitStep

\* The invariant is inductive.
THEOREM ConnectionInductive == Spec => []IInv
<1>1. Init => IInv
  BY InitTypeOK, InitConnectionInv DEF IInv
<1>2. IInv /\ [Next]_vars => IInv'
  BY NextIInv
<1>. QED BY <1>1, <1>2, PTL DEF Spec

\* InitPluginManager and RunActions keep every variable within its type.
THEOREM TypeCorrect == Spec => []TypeOK
<1>1. IInv => TypeOK
  BY DEF IInv
<1>. QED BY <1>1, ConnectionInductive, PTL

\* A manager that InitPluginManager hands out has the session of every store
\* and the parent of every action, for any payload.
THEOREM HandedOutConnected == Spec => []ReadyMeansConnected
<1>1. IInv => ReadyMeansConnected
  <2> SUFFICES ASSUME IInv, HandedOut PROVE ReadyMeansConnected
    BY DEF ReadyMeansConnected
  <2>1. /\ level = Len(payload.actions) /\ next > Len(Stores(payload, level))
        /\ parented = 1 .. level /\ payload \in Payload /\ level \in Levels(payload) /\ level \in Nat
    BY DEF IInv, ConnectionInv, TypeOK, Levels, Payload
  <2>2. ASSUME NEW s \in Slots(payload) PROVE Passed(s)
    <3>1. /\ s[1] \in Levels(payload) /\ s[1] \in Nat
          /\ s[2] \in 1 .. Len(Stores(payload, s[1])) /\ s[2] \in Nat
          /\ Len(Stores(payload, s[1])) \in Nat
      BY <2>1, SlotParts
    <3>2. s[1] <= level /\ next \in Nat
      BY <2>1, <3>1 DEF IInv, TypeOK, Levels
    <3>3. CASE s[1] = level
      BY <2>1, <3>1, <3>2, <3>3 DEF Passed
    <3>4. CASE s[1] # level
      BY <2>1, <3>1, <3>2, <3>4 DEF Passed
    <3>. QED BY <3>3, <3>4
  <2>. QED BY <2>1, <2>2 DEF IInv, ConnectionInv, ReadyMeansConnected
<1>. QED BY <1>1, ConnectionInductive, PTL

\* connectStores never leaves a gap: a connected store has every store before it
\* connected and, in an action, the action's parent set.
THEOREM InOrder == Spec => []ConnectedInOrder
<1>1. IInv => ConnectedInOrder
  <2> SUFFICES ASSUME IInv, NEW t \in Slots(payload), session[t] # "none"
               PROVE  /\ \A s \in Slots(payload) : Precedes(s, t) => session[s] # "none"
                      /\ t[1] > 0 => t[1] \in parented
    BY DEF ConnectedInOrder
  <2>1. /\ t[1] \in Nat /\ t[2] \in Nat /\ level \in Nat /\ next \in Nat
        /\ Passed(t) /\ parented = 1 .. level
    BY SlotParts DEF IInv, ConnectionInv, TypeOK, Levels, Payload
  <2>2. t[1] > 0 => t[1] \in parented
    BY <2>1 DEF Passed
  <2>3. ASSUME NEW s \in Slots(payload), Precedes(s, t) PROVE session[s] # "none"
    <3>1. s[1] \in Nat /\ s[2] \in Nat
      BY SlotParts DEF IInv, TypeOK
    <3>2. Passed(s)
      BY <2>1, <2>3, <3>1 DEF Passed, Precedes
    <3>. QED BY <3>2 DEF IInv, ConnectionInv
  <2>. QED BY <2>2, <2>3
<1>. QED BY <1>1, ConnectionInductive, PTL

(***************************************************************************)
(* The substitution                                                        *)
(***************************************************************************)
\* The sources of a level are a sequence of outcomes.
LEMMA SourcesType ==
  ASSUME NEW p \in Payload, NEW l \in Levels(p)
  PROVE  /\ Sources(p, l) \in Seq(Outcomes) /\ Len(Sources(p, l)) \in Nat
         /\ Attributes(p, l) \in MapOutcomes
<1>1. CASE l = 0
  BY <1>1 DEF Payload, Sources, Attributes
<1>2. CASE l # 0
  <2>1. l \in 1 .. Len(p.actions) /\ p.actions \in Seq(Action)
    BY <1>2 DEF Levels, Payload
  <2>2. p.actions[l] \in Action
    BY <2>1
  <2>3. p.actions[l].sources \in Seq(Outcomes) /\ p.actions[l].attributes \in MapOutcomes
    BY <2>2 DEF Action
  <2>. QED BY <1>2, <2>3 DEF Sources, Attributes
<1>. QED BY <1>1, <1>2

\* What is substituted of a level: its maps, then its sources.
LEMMA SubstitutionsType ==
  ASSUME NEW p \in Payload, NEW l \in Levels(p)
  PROVE  /\ Substitutions(p, l) \in Seq(Outcomes)
         /\ DOMAIN Substitutions(p, l) = 1 .. Len(Substitutions(p, l)) /\ Len(Substitutions(p, l)) \in Nat
         /\ \A i \in DOMAIN Substitutions(p, l) : Substitutions(p, l)[i] \in Outcomes
         /\ 1 \in DOMAIN Substitutions(p, l)
         /\ Substitutions(p, l)[1] = IF MapsPanic(p, l) THEN "panic" ELSE "ok"
         /\ \A i \in DOMAIN Sources(p, l) :
              i + 1 \in DOMAIN Substitutions(p, l) /\ Substitutions(p, l)[i + 1] = Sources(p, l)[i]
<1> DEFINE s == Sources(p, l)
           m == IF MapsPanic(p, l) THEN "panic" ELSE "ok"
<1>1. s \in Seq(Outcomes)
  BY SourcesType
<1>2. m \in Outcomes
  BY DEF Outcomes
<1>3. Substitutions(p, l) = <<m>> \o s
  BY DEF Substitutions
<1> HIDE DEF s, m
<1> DEFINE t == <<m>> \o s
<1>4. t \in Seq(Outcomes)
  BY <1>1, <1>2
<1>5. t[1] = m /\ Len(t) = Len(s) + 1 /\ Len(s) \in Nat /\ DOMAIN s = 1 .. Len(s)
  BY <1>1
<1>6. ASSUME NEW i \in DOMAIN s PROVE i + 1 \in 1 .. Len(t) /\ t[i + 1] = s[i]
  BY <1>1, <1>5
<1>7. DOMAIN t = 1 .. Len(t) /\ Len(t) \in Nat /\ \A i \in DOMAIN t : t[i] \in Outcomes
  BY <1>4, LenProperties, ElementOfSeq
<1>8. 1 \in DOMAIN t
  BY <1>5, <1>7
<1> HIDE DEF t
<1>. QED BY <1>3, <1>4, <1>5, <1>6, <1>7, <1>8 DEF s, m, t

\* When something of a document faults, one fault is the first the pass meets:
\* the first such of the first level that has one.
LEMMA SomeFaultIsFirst ==
  ASSUME NEW p \in Payload, NEW l \in Levels(p), NEW i \in DOMAIN Substitutions(p, l), Substitutions(p, l)[i] # "ok"
  PROVE  FirstFault(p, "error") \/ FirstFault(p, "panic")
<1> DEFINE Bad(m) == {j \in DOMAIN Substitutions(p, m) : Substitutions(p, m)[j] # "ok"}
           levels == {m \in Levels(p) : Bad(m) # {}}
<1>1. Levels(p) \subseteq Nat /\ Len(p.actions) \in Nat
  BY DEF Levels, Payload
<1>2. PICK m \in levels : \A n \in levels : m <= n
  <2>1. l \in levels /\ levels \in SUBSET Nat
    BY <1>1
  <2> HIDE DEF levels
  <2>. QED BY <2>1, Least
<1>3. m \in Levels(p) /\ m \in Nat /\ Bad(m) # {}
  BY <1>1
<1>4. PICK j \in Bad(m) : \A k \in Bad(m) : j <= k
  <2>1. Bad(m) \in SUBSET Nat
    BY <1>3, SubstitutionsType
  <2> HIDE DEF Bad
  <2>. QED BY <1>3, <2>1, Least
<1>5. j \in DOMAIN Substitutions(p, m) /\ Substitutions(p, m)[j] \in {"error", "panic"} /\ j \in Nat
  BY <1>3, <1>4, SubstitutionsType DEF Outcomes
<1>6. AllBefore(p, m, j)
  <2>1. ASSUME NEW n \in 0 .. (m - 1), NEW k \in DOMAIN Substitutions(p, n) PROVE Substitutions(p, n)[k] = "ok"
    <3>1. n \in Levels(p) /\ ~(m <= n)
      BY <1>1, <1>3 DEF Levels
    <3>. QED BY <1>2, <2>1, <3>1
  <2>2. ASSUME NEW k \in 1 .. (j - 1) PROVE Substitutions(p, m)[k] = "ok"
    <3>1. k \in DOMAIN Substitutions(p, m) /\ ~(j <= k)
      BY <1>3, <1>5, SubstitutionsType
    <3>. QED BY <1>4, <3>1
  <2>. QED BY <2>1, <2>2 DEF AllBefore
<1>. QED BY <1>3, <1>5, <1>6 DEF FirstFault

\* Once the substitution has returned without an error, every attribute and every
\* source has been resolved and no root of the payload's own stores is a reference.
Resolves(p) ==
  /\ \A l \in Levels(p) :
       /\ Attributes(p, l) = "ok"
       /\ \A i \in DOMAIN Sources(p, l) : Sources(p, l)[i] = "ok"
  /\ \A i \in DOMAIN p.stores : p.stores[i].root \notin {"template", "outOfRange"}
SubstitutedInv == pc \in {"connect", "ready", "run"} => Resolves(payload)

\* The pass that returns without an error has met no fault, and what it leaves of
\* the payload is resolved.
LEMMA PassResolves ==
  ASSUME NEW p \in Payload, ~FirstFault(p, "error"), ~FirstFault(p, "panic")
  PROVE  Resolves(SubstitutedPayload(p))
<1> DEFINE q == SubstitutedPayload(p)
<1>1. q.stores = SubstitutedStores(p.stores) /\ q.actions = p.actions /\ q.sources = p.sources
      /\ q.attributes = p.attributes
  BY DEF SubstitutedPayload, Payload
<1>2. ASSUME NEW l \in Levels(p)
      PROVE  ~MapsPanic(p, l) /\ \A i \in DOMAIN Sources(p, l) : Sources(p, l)[i] = "ok"
  <2>1. ASSUME NEW i \in DOMAIN Substitutions(p, l) PROVE Substitutions(p, l)[i] = "ok"
    BY <2>1, SomeFaultIsFirst
  <2>2. 1 \in DOMAIN Substitutions(p, l) /\ Substitutions(p, l)[1] = IF MapsPanic(p, l) THEN "panic" ELSE "ok"
    BY SubstitutionsType
  <2>3. "panic" # "ok"
    OBVIOUS
  <2>4. ~MapsPanic(p, l)
    <3>1. Substitutions(p, l)[1] = "ok"
      BY <2>1, <2>2
    <3>. QED BY <2>2, <2>3, <3>1
  <2>. QED BY <2>1, <2>4, SubstitutionsType
<1>3. 0 \in Levels(p)
  BY DEF Levels, Payload
<1>4. \A i \in DOMAIN q.stores : q.stores[i].root \notin {"template", "outOfRange"}
  <2>1. p.stores \in Seq(DataStore)
    BY DEF Payload
  <2>2. ASSUME NEW i \in DOMAIN p.stores PROVE SubstitutedStores(p.stores)[i].root \notin {"template", "outOfRange"}
    <3>1. p.stores[i] \in DataStore
      BY <2>1
    <3>2. SubstitutedStores(p.stores)[i].root = SubstitutedRoot(p.stores[i].root)
      BY <3>1 DEF SubstitutedStores, DataStore
    <3>3. p.stores[i].root # "outOfRange"
      BY <1>2, <1>3 DEF MapsPanic
    <3>. QED BY <3>2, <3>3 DEF SubstitutedRoot
  <2>. QED BY <1>1, <2>2 DEF SubstitutedStores
<1>5. ASSUME NEW l \in Levels(q)
      PROVE  Attributes(q, l) = "ok" /\ \A i \in DOMAIN Sources(q, l) : Sources(q, l)[i] = "ok"
  <2>1. l \in Levels(p) /\ Sources(q, l) = Sources(p, l) /\ Attributes(q, l) = Attributes(p, l)
    BY <1>1 DEF Levels, Sources, Attributes
  <2>2. Attributes(p, l) \in MapOutcomes /\ Attributes(p, l) # "panic"
    BY <1>2, <2>1, SourcesType DEF MapsPanic
  <2>. QED BY <1>2, <2>1, <2>2 DEF MapOutcomes
<1>. QED BY <1>4, <1>5 DEF Resolves

\* Every step keeps what the substitution has resolved.
LEMMA NextSubstitutedInv == TypeOK /\ SubstitutedInv /\ [Next]_vars => SubstitutedInv'
<1> SUFFICES ASSUME TypeOK, SubstitutedInv, [Next]_vars PROVE SubstitutedInv'
  OBVIOUS
<1>1. CASE SubstituteVariables
  <2>1. payload \in Payload
    BY DEF TypeOK
  <2>. QED BY <1>1, <2>1, PassResolves DEF SubstituteVariables, SubstitutedInv, InitFails, Crash
<1>2. CASE NewCcStore \/ GetPayload
  BY <1>2 DEF NewCcStore, GetPayload, InitFails, SubstitutedInv
<1>3. CASE ConnectStore \/ SetParent \/ InitReturns
  BY <1>3 DEF ConnectStore, SetParent, InitReturns, InitFails, SubstitutedInv
<1>4. CASE RunStep
  BY <1>4 DEF RunStep, SkipAction, InstantiationPanics, RunnerSucceeds, RunnerFails, RunnerPanics,
              RunReturns, AtAction, Crash, SubstitutedInv
<1>5. CASE RunActions \/ UNCHANGED vars
  BY <1>5 DEF RunActions, vars, SubstitutedInv
<1>6. ASSUME NEW n \in Names, NEW r \in Prototypes, RegisterAction(n, r) PROVE SubstitutedInv'
  BY <1>6 DEF RegisterAction, SubstitutedInv
<1>. QED BY <1>1, <1>2, <1>3, <1>4, <1>5, <1>6 DEF Next, InitStep

\* No manager is handed out when a data source or an attribute of the payload or
\* of any of its actions failed to substitute: substituteVariables returns, or
\* panics, at the first of them.
THEOREM HandedOutSubstituted == Spec => []ReadyMeansSubstituted
<1>1. Init => SubstitutedInv
  BY DEF Init, SubstitutedInv
<1>2. TypeOK /\ SubstitutedInv /\ [Next]_vars => SubstitutedInv'
  BY NextSubstitutedInv
<1>3. SubstitutedInv => ReadyMeansSubstituted
  BY DEF SubstitutedInv, Resolves, ReadyMeansSubstituted, HandedOut
<1>. QED BY <1>1, <1>2, <1>3, TypeCorrect, PTL DEF Spec

(***************************************************************************)
(* RunActions                                                              *)
(***************************************************************************)
\* Nothing has run before the first call, and during a call every action before
\* the cursor has its record.
RunInv ==
  /\ pc \in {"create", "fetch", "substitute", "connect"} => calls = 0
  /\ calls = 0 => runs = <<>> /\ pc # "run" /\ err # "run"
  /\ pc = "run" => err = "none" /\ Len(runs) = cursor - 1 /\ cursor <= Len(payload.actions) + 1
  /\ RunOutcome

LInv == TypeOK /\ RunInv

\* What a step of the loop over the actions does: it records one action, and a
\* stopping error is the last thing it does.
LEMMA LoopStep ==
  ASSUME TypeOK, AtAction,
         NEW outcome \in {"skipped", "ok", "continued", "stopped"}, Advance(outcome)
  PROVE  /\ Len(runs') = Len(runs) + 1 /\ Len(runs) \in Nat
         /\ runs'[Len(runs')] = [outcome |-> outcome, runner |-> Runner]
         /\ \A i \in DOMAIN runs : runs'[i] = runs[i]
         /\ DOMAIN runs = 1 .. Len(runs) /\ DOMAIN runs' = 1 .. Len(runs')
         /\ SubSeq(runs', 1, Len(runs)) = runs
<1> DEFINE record == [outcome |-> outcome, runner |-> Runner]
<1>1. Runner \in Prototypes \cup {NoRunner}
  <2>1. payload.actions \in Seq(Action) /\ cursor \in 1 .. Len(payload.actions)
    BY DEF AtAction, TypeOK, Payload
  <2>2. payload.actions[cursor] \in Action
    BY <2>1
  <2>3. payload.actions[cursor].name \in Names
    BY <2>2 DEF Action
  <2>. QED BY <2>3 DEF Runner, TypeOK
<1>2. record \in RunRecord
  BY <1>1 DEF RunRecord, RunOutcomes
<1>3. runs \in Seq(RunRecord) /\ runs' = Append(runs, record)
  BY DEF Advance, TypeOK
<1> HIDE DEF record
<1>4. /\ runs' \in Seq(RunRecord)
      /\ Len(runs') = Len(runs) + 1 /\ Len(runs) \in Nat
      /\ runs'[Len(runs')] = record
      /\ \A i \in 1 .. Len(runs) : runs'[i] = runs[i]
      /\ DOMAIN runs = 1 .. Len(runs) /\ DOMAIN runs' = 1 .. Len(runs')
  BY <1>2, <1>3
<1>5. SubSeq(runs', 1, Len(runs)) = runs
  BY <1>3, <1>4
<1>. QED BY <1>4, <1>5 DEF record

\* A recorded action that does not stop the loop keeps the invariant.
LEMMA AdvanceRunInv ==
  ASSUME LInv, AtAction, UNCHANGED <<pc, err, payload, calls>>,
         NEW outcome \in {"skipped", "ok", "continued"}, Advance(outcome),
         outcome = "skipped" <=> Runner = NoRunner,
         outcome = "continued" => Runner.setsFlag
  PROVE  RunInv'
<1>1. /\ Len(runs') = Len(runs) + 1 /\ Len(runs) \in Nat
      /\ runs'[Len(runs')] = [outcome |-> outcome, runner |-> Runner]
      /\ \A i \in DOMAIN runs : runs'[i] = runs[i]
      /\ DOMAIN runs = 1 .. Len(runs) /\ DOMAIN runs' = 1 .. Len(runs')
  BY LoopStep DEF LInv
<1>2. cursor' = cursor + 1 /\ cursor \in Nat /\ cursor <= Len(payload.actions) /\ pc = "run"
  BY DEF Advance, AtAction, LInv, TypeOK
<1>3. Len(payload.actions) \in Nat
  BY DEF LInv, TypeOK, Payload
<1>4. err = "none" /\ calls # 0 /\ Len(runs') = cursor' - 1 /\ cursor' <= Len(payload.actions) + 1
  BY <1>1, <1>2, <1>3 DEF LInv, RunInv
<1>5. ASSUME NEW i \in DOMAIN runs'
      PROVE  /\ runs'[i].outcome # "stopped"
             /\ runs'[i].outcome = "continued" => runs'[i].runner.setsFlag
             /\ runs'[i].outcome = "skipped" <=> runs'[i].runner = NoRunner
  <2>1. CASE i \in DOMAIN runs
    BY <1>1, <1>4, <2>1 DEF LInv, RunInv, RunOutcome
  <2>2. CASE i = Len(runs')
    BY <1>1, <2>2
  <2>. QED BY <1>1, <2>1, <2>2
<1>. QED BY <1>2, <1>4, <1>5 DEF RunInv, RunOutcome

\* So does the error that stops it.
LEMMA StopRunInv ==
  ASSUME LInv, AtAction, UNCHANGED <<payload, calls>>, Advance("stopped"),
         pc' = "ready", err' = "run", Runner # NoRunner
  PROVE  RunInv'
<1>1. /\ Len(runs') = Len(runs) + 1 /\ Len(runs) \in Nat
      /\ runs'[Len(runs')] = [outcome |-> "stopped", runner |-> Runner]
      /\ \A i \in DOMAIN runs : runs'[i] = runs[i]
      /\ DOMAIN runs = 1 .. Len(runs) /\ DOMAIN runs' = 1 .. Len(runs')
  BY LoopStep DEF LInv
<1>2. err = "none" /\ calls # 0 /\ pc = "run"
  BY DEF LInv, RunInv, AtAction
<1>3. ASSUME NEW i \in DOMAIN runs'
      PROVE  /\ runs'[i].outcome = "stopped" => i = Len(runs')
             /\ runs'[i].outcome = "continued" => runs'[i].runner.setsFlag
             /\ runs'[i].outcome = "skipped" <=> runs'[i].runner = NoRunner
  <2>1. CASE i \in DOMAIN runs
    BY <1>1, <1>2, <2>1 DEF LInv, RunInv, RunOutcome
  <2>2. CASE i = Len(runs')
    BY <1>1, <2>2
  <2>. QED BY <1>1, <2>1, <2>2
<1>. QED BY <1>1, <1>2, <1>3 DEF RunInv, RunOutcome

\* The inductive step.
LEMMA NextRunInv == LInv /\ [Next]_vars => RunInv'
<1> SUFFICES ASSUME LInv, [Next]_vars PROVE RunInv'
  OBVIOUS
<1>1. CASE InitStep
  <2>1. calls = 0 /\ calls' = 0 /\ runs = <<>> /\ runs' = <<>> /\ err # "run"
    BY <1>1 DEF LInv, RunInv, InitStep, NewCcStore, GetPayload, SubstituteVariables, ConnectStore,
                SetParent, InitReturns, runVars
  <2>2. pc' # "run" /\ err' # "run"
    BY <1>1, <2>1 DEF InitStep, NewCcStore, GetPayload, SubstituteVariables, ConnectStore,
                      SetParent, InitReturns, InitFails, Crash
  <2>. QED BY <2>1, <2>2 DEF RunInv, RunOutcome
<1>2. CASE SkipAction
  BY <1>2, AdvanceRunInv DEF SkipAction
<1>3. CASE RunnerSucceeds
  BY <1>3, AdvanceRunInv DEF RunnerSucceeds
<1>4. CASE RunnerFails
  <2>1. CASE Crash("no flag field") /\ UNCHANGED <<cursor, runs>>
    BY <1>4, <2>1 DEF RunnerFails, Crash, AtAction, LInv, RunInv, RunOutcome
  <2>2. CASE InstanceFlag(Runner) /\ Advance("continued") /\ UNCHANGED <<pc, err>>
    BY <1>4, <2>2, AdvanceRunInv DEF RunnerFails, InstanceFlag
  <2>3. CASE Advance("stopped") /\ pc' = "ready" /\ err' = "run"
    BY <1>4, <2>3, StopRunInv DEF RunnerFails
  <2>. QED BY <1>4, <2>1, <2>2, <2>3 DEF RunnerFails
<1>5. CASE InstantiationPanics \/ RunnerPanics
  BY <1>5 DEF InstantiationPanics, RunnerPanics, Crash, AtAction, runVars, LInv, RunInv, RunOutcome
<1>6. CASE RunReturns
  <2>1. Len(payload.actions) \in Nat /\ Len(runs) \in Nat /\ cursor \in Nat
    BY DEF LInv, TypeOK, Payload
  <2>2. Len(runs) = Len(payload.actions)
    BY <1>6, <2>1 DEF RunReturns, LInv, RunInv
  <2>. QED BY <1>6, <2>2 DEF RunReturns, runVars, LInv, RunInv, RunOutcome
<1>7. CASE RunActions
  <2>1. calls' # 0 /\ Len(runs') = 0 /\ DOMAIN runs' = {} /\ Len(payload.actions) \in Nat
    BY <1>7 DEF RunActions, LInv, TypeOK, Payload
  <2>. QED BY <1>7, <2>1 DEF RunActions, RunInv, RunOutcome
<1>8. ASSUME NEW n \in Names, NEW r \in Prototypes, RegisterAction(n, r) PROVE RunInv'
  BY <1>8 DEF RegisterAction, runVars, LInv, RunInv, RunOutcome
<1>9. CASE UNCHANGED vars
  BY <1>9 DEF vars, LInv, RunInv, RunOutcome
<1>. QED
  BY <1>1, <1>2, <1>3, <1>4, <1>5, <1>6, <1>7, <1>8, <1>9 DEF Next, RunStep

\* What RunActions answers is the truth about the actions, for any payload and
\* any runners registered at any time.
THEOREM RunOutcomeHolds == Spec => []RunOutcome
<1>1. Init => RunInv
  BY DEF Init, RunInv, RunOutcome
<1>2. TypeOK /\ RunInv /\ [Next]_vars => RunInv'
  BY NextRunInv DEF LInv
<1>3. RunInv => RunOutcome
  BY DEF RunInv
<1>. QED BY <1>1, <1>2, <1>3, TypeCorrect, PTL DEF Spec

\* RunActions takes the actions one by one in the order of the payload.
THEOREM RunsInOrderHolds == Spec => RunsInOrder
<1> DEFINE InOrderStep ==
      runs' # runs =>
        \/ runs' = <<>> /\ pc = "ready"
        \/ /\ pc = "run" /\ Len(runs') = Len(runs) + 1
           /\ SubSeq(runs', 1, Len(runs)) = runs
           /\ runs'[Len(runs')].runner = registry[payload.actions[Len(runs')].name]
<1>1. ASSUME TypeOK, RunInv, [Next]_vars PROVE InOrderStep
  <2>1. \/ UNCHANGED runs
        \/ RunActions
        \/ AtAction /\ \E outcome \in RunOutcomes : Advance(outcome)
    BY <1>1 DEF Next, InitStep, NewCcStore, GetPayload, SubstituteVariables, ConnectStore, SetParent,
                InitReturns, RunStep, SkipAction, InstantiationPanics, RunnerSucceeds, RunnerFails,
                RunnerPanics, RunReturns, RunOutcomes, RegisterAction, runVars, vars
  <2>2. CASE RunActions
    BY <2>2 DEF RunActions
  <2>3. ASSUME AtAction, NEW outcome \in RunOutcomes, Advance(outcome) PROVE InOrderStep
    <3>1. /\ Len(runs') = Len(runs) + 1 /\ Len(runs) \in Nat
          /\ runs'[Len(runs')] = [outcome |-> outcome, runner |-> Runner]
          /\ SubSeq(runs', 1, Len(runs)) = runs
      BY <1>1, <2>3, LoopStep DEF RunOutcomes
    <3>2. pc = "run" /\ Len(runs) = cursor - 1 /\ cursor \in Nat
      BY <1>1, <2>3 DEF AtAction, RunInv, TypeOK
    <3>3. Len(runs') = cursor
      BY <3>1, <3>2
    <3>. QED BY <3>1, <3>2, <3>3 DEF Runner
  <2>. QED BY <2>1, <2>2, <2>3
<1>2. TypeOK /\ RunInv /\ [Next]_vars => [InOrderStep]_vars
  BY <1>1
<1>3. Init => RunInv
  BY DEF Init, RunInv, RunOutcome
<1>4. TypeOK /\ RunInv /\ [Next]_vars => RunInv'
  BY NextRunInv DEF LInv
<1>. QED BY <1>2, <1>3, <1>4, TypeCorrect, PTL DEF Spec, RunsInOrder

(***************************************************************************)
(* substituteVariables: texts                                              *)
(***************************************************************************)
\* The elements of a sequence.
LEMMA RangeMeans ==
  ASSUME NEW C, NEW s \in Seq(C)
  PROVE  /\ Len(s) \in Nat /\ DOMAIN s = 1 .. Len(s)
         /\ \A t : t \in RangeOf(s) <=> \E i \in 1 .. Len(s) : s[i] = t
         /\ \A i \in 1 .. Len(s) : s[i] \in C
         /\ RangeOf(s) \subseteq C
BY DEF RangeOf

\* A sequence of one element.
LEMMA Single ==
  ASSUME NEW C, NEW x \in C
  PROVE  <<x>> \in Seq(C) /\ Len(<<x>>) = 1 /\ <<x>>[1] = x /\ RangeOf(<<x>>) = {x}
BY DEF RangeOf

\* What flattening mixes are the elements of the parts.
LEMMA FlattenRange ==
  ASSUME NEW C, NEW s \in Seq(Seq(C))
  PROVE  /\ FlattenSeq(s) \in Seq(C)
         /\ \A t : t \in RangeOf(FlattenSeq(s)) <=> \E i \in 1 .. Len(s) : t \in RangeOf(s[i])
<1> DEFINE flat == FlattenSeq(s)
<1>1. /\ flat \in Seq(C)
      /\ \A i \in 1 .. Len(s) : \A p \in 1 .. Len(s[i]) :
           Start(s, i) + p \in 1 .. Len(flat) /\ flat[Start(s, i) + p] = s[i][p]
      /\ \A q \in 1 .. Len(flat) : \E i \in 1 .. Len(s) : \E p \in 1 .. Len(s[i]) :
           q = Start(s, i) + p /\ flat[q] = s[i][p]
  BY FlattenParts
<1>2. \A t : t \in RangeOf(flat) <=> \E q \in 1 .. Len(flat) : flat[q] = t
  BY <1>1, RangeMeans
<1>3. ASSUME NEW i \in 1 .. Len(s)
      PROVE  \A t : t \in RangeOf(s[i]) <=> \E p \in 1 .. Len(s[i]) : s[i][p] = t
  <2>1. s[i] \in Seq(C)
    BY ElementOfSeq
  <2>. QED BY <2>1, RangeMeans
<1> HIDE DEF flat
<1>4. ASSUME NEW t, t \in RangeOf(flat) PROVE \E i \in 1 .. Len(s) : t \in RangeOf(s[i])
  <2>1. PICK q \in 1 .. Len(flat) : flat[q] = t
    BY <1>2, <1>4, Zenon
  <2>2. PICK i \in 1 .. Len(s) : \E p \in 1 .. Len(s[i]) : flat[q] = s[i][p]
    BY <1>1, Zenon
  <2>3. t \in RangeOf(s[i])
    BY <1>3, <2>1, <2>2, Zenon
  <2>. QED BY <2>3
<1>5. ASSUME NEW t, NEW i \in 1 .. Len(s), t \in RangeOf(s[i]) PROVE t \in RangeOf(flat)
  <2>1. PICK p \in 1 .. Len(s[i]) : s[i][p] = t
    BY <1>3, <1>5, Zenon
  <2>. QED BY <1>1, <1>2, <2>1, Zenon
<1>. QED BY <1>1, <1>4, <1>5 DEF flat

\* Replacing a token by a text leaves the other tokens and adds those of the text.
LEMMA ReplacedMeans ==
  ASSUME NEW text \in Texts, NEW token, NEW by \in Texts
  PROVE  /\ Replaced(text, token, by) \in Texts
         /\ \A t : t \in RangeOf(Replaced(text, token, by)) <=>
                     \/ t \in RangeOf(text) /\ t # token
                     \/ token \in RangeOf(text) /\ t \in RangeOf(by)
<1> DEFINE part(i) == IF text[i] = token THEN by ELSE <<text[i]>>
           parts == [i \in DOMAIN text |-> part(i)]
<1>1. Len(text) \in Nat /\ DOMAIN text = 1 .. Len(text) /\ \A i \in 1 .. Len(text) : text[i] \in STRING
  BY RangeMeans DEF Texts
<1>2. \A t : t \in RangeOf(text) <=> \E i \in 1 .. Len(text) : text[i] = t
  BY RangeMeans DEF Texts
<1>3. parts \in Seq(Seq(STRING)) /\ Len(parts) = Len(text) /\ \A i \in 1 .. Len(text) : parts[i] = part(i)
  <2>1. \A i \in 1 .. Len(text) : part(i) \in Seq(STRING)
    <3>1. \A i \in 1 .. Len(text) : <<text[i]>> \in Seq(STRING)
      BY <1>1, Single
    <3>. QED BY <3>1 DEF Texts
  <2> HIDE DEF part
  <2>. QED BY <1>1, <2>1
<1>4. \A t, i : i \in 1 .. Len(text) =>
        (t \in RangeOf(part(i)) <=> (text[i] # token /\ t = text[i]) \/ (text[i] = token /\ t \in RangeOf(by)))
  BY DEF RangeOf
<1>5. Replaced(text, token, by) = FlattenSeq(parts)
  BY Zenon DEF Replaced
<1> HIDE DEF parts, part
<1>6. /\ FlattenSeq(parts) \in Texts
      /\ \A t : t \in RangeOf(FlattenSeq(parts)) <=> \E i \in 1 .. Len(text) : t \in RangeOf(part(i))
  BY <1>3, FlattenRange DEF Texts
<1>. QED BY <1>2, <1>4, <1>5, <1>6

\* The matches of a text are the references in it.
LEMMA MatchesMean ==
  ASSUME NEW text \in Texts
  PROVE  Matches(text) \in Seq(DOMAIN Reference) /\ RangeOf(Matches(text)) = RangeOf(text) \cap DOMAIN Reference
<1> DEFINE part(i) == IF text[i] \in DOMAIN Reference THEN <<text[i]>> ELSE <<>>
           parts == [i \in DOMAIN text |-> part(i)]
<1>1. Len(text) \in Nat /\ DOMAIN text = 1 .. Len(text)
  BY RangeMeans DEF Texts
<1>2. \A t : t \in RangeOf(text) <=> \E i \in 1 .. Len(text) : text[i] = t
  BY RangeMeans DEF Texts
<1>3. parts \in Seq(Seq(DOMAIN Reference)) /\ Len(parts) = Len(text) /\ \A i \in 1 .. Len(text) : parts[i] = part(i)
  <2>1. \A i \in 1 .. Len(text) : part(i) \in Seq(DOMAIN Reference)
    <3>1. \A x \in DOMAIN Reference : <<x>> \in Seq(DOMAIN Reference)
      BY Single
    <3>2. <<>> \in Seq(DOMAIN Reference)
      OBVIOUS
    <3>. QED BY <3>1, <3>2
  <2> HIDE DEF part
  <2>. QED BY <1>1, <2>1
<1>4. \A t, i : i \in 1 .. Len(text) => (t \in RangeOf(part(i)) <=> text[i] \in DOMAIN Reference /\ t = text[i])
  BY DEF RangeOf
<1>5. Matches(text) = FlattenSeq(parts)
  BY Zenon DEF Matches
<1> HIDE DEF parts, part
<1>6. /\ FlattenSeq(parts) \in Seq(DOMAIN Reference)
      /\ \A t : t \in RangeOf(FlattenSeq(parts)) <=> \E i \in 1 .. Len(text) : t \in RangeOf(part(i))
  BY <1>3, FlattenRange
<1>. QED BY <1>2, <1>4, <1>5, <1>6

\* An element before a sequence.
LEMMA Preceded ==
  ASSUME NEW C, NEW c \in C, NEW x \in Seq(C)
  PROVE  <<c>> \o x \in Seq(C) /\ \A t \in RangeOf(<<c>> \o x) : t = c \/ t \in RangeOf(x)
<1> DEFINE y == <<c>> \o x
<1>1. <<c>> \in Seq(C) /\ Len(<<c>>) = 1 /\ <<c>>[1] = c
  BY Single
<1>2. Len(x) \in Nat /\ \A t : t \in RangeOf(x) <=> \E q \in 1 .. Len(x) : x[q] = t
  BY RangeMeans
<1>3. y \in Seq(C) /\ Len(y) = 1 + Len(x) /\ \A q \in 1 .. 1 + Len(x) : y[q] = IF q <= 1 THEN c ELSE x[q - 1]
  <2> DEFINE e == <<c>>
  <2>1. e \in Seq(C) /\ Len(e) = 1 /\ e[1] = c
    BY <1>1
  <2> HIDE DEF e
  <2>2. /\ e \o x \in Seq(C) /\ Len(e \o x) = 1 + Len(x)
        /\ \A q \in 1 .. 1 + Len(x) : (e \o x)[q] = IF q <= 1 THEN e[q] ELSE x[q - 1]
    <3>1. /\ e \o x \in Seq(C) /\ Len(e \o x) = Len(e) + Len(x)
          /\ \A q \in 1 .. Len(e) + Len(x) : (e \o x)[q] = IF q <= Len(e) THEN e[q] ELSE x[q - Len(e)]
      BY <2>1, ConcatProperties
    <3>. QED BY <2>1, <3>1
  <2>. QED BY <1>2, <2>1, <2>2 DEF e
<1>4. \A t : t \in RangeOf(y) <=> \E q \in 1 .. 1 + Len(x) : y[q] = t
  BY <1>3, RangeMeans
<1> HIDE DEF y
<1>5. ASSUME NEW t \in RangeOf(y) PROVE t = c \/ t \in RangeOf(x)
  <2>1. PICK q \in 1 .. 1 + Len(x) : y[q] = t
    BY <1>4
  <2>2. q > 1 => q - 1 \in 1 .. Len(x)
    BY <1>2
  <2>. QED BY <1>2, <1>3, <2>1, <2>2
<1>. QED BY <1>3, <1>5 DEF y

\* A csv text has the tokens of its parts, and commas.
LEMMA CsvMeans ==
  ASSUME NEW parts \in Seq(Texts)
  PROVE  /\ Csv(parts) \in Texts
         /\ \A t \in RangeOf(Csv(parts)) : t = "," \/ \E x \in RangeOf(parts) : t \in RangeOf(x)
<1> DEFINE part(i) == IF i = 1 THEN parts[i] ELSE <<",">> \o parts[i]
           all == [i \in DOMAIN parts |-> part(i)]
<1>1. Len(parts) \in Nat /\ DOMAIN parts = 1 .. Len(parts) /\ \A i \in 1 .. Len(parts) : parts[i] \in Texts
  BY RangeMeans
<1>2. ASSUME NEW i \in 1 .. Len(parts)
      PROVE  part(i) \in Seq(STRING) /\ \A t \in RangeOf(part(i)) : t = "," \/ t \in RangeOf(parts[i])
  <2> DEFINE x == parts[i]
  <2>1. x \in Seq(STRING)
    BY <1>1 DEF Texts
  <2> HIDE DEF x
  <2>2. <<",">> \o x \in Seq(STRING) /\ \A t \in RangeOf(<<",">> \o x) : t = "," \/ t \in RangeOf(x)
    <3>1. "," \in STRING
      BY ReferenceAssumption
    <3>. QED BY <2>1, <3>1, Preceded
  <2>. QED BY <2>1, <2>2 DEF x
<1>3. all \in Seq(Seq(STRING)) /\ Len(all) = Len(parts) /\ \A i \in 1 .. Len(parts) : all[i] = part(i)
  <2>1. \A i \in 1 .. Len(parts) : part(i) \in Seq(STRING)
    BY <1>2
  <2> HIDE DEF part
  <2>. QED BY <1>1, <2>1
<1>4. Csv(parts) = FlattenSeq(all)
  BY Zenon DEF Csv
<1> HIDE DEF all, part
<1>5. /\ FlattenSeq(all) \in Texts
      /\ \A t : t \in RangeOf(FlattenSeq(all)) <=> \E i \in 1 .. Len(parts) : t \in RangeOf(part(i))
  BY <1>3, FlattenRange DEF Texts
<1>6. \A i \in 1 .. Len(parts) : parts[i] \in RangeOf(parts)
  BY <1>1, RangeMeans
<1>. QED BY <1>2, <1>4, <1>5, <1>6

(***************************************************************************)
(* Values and outputs                                                      *)
(***************************************************************************)
\* The outputs of parameterSubstitute, and how it may end.
Outputs == {o \in UNION {[S -> Texts] : S \in SUBSET Keys} : IsFiniteSet(DOMAIN o)}
Expansions == [tag : {"ok", "error", "panic"}, out : Outputs]

\* The maps of a payload, and the scopes, which may refer to such maps.
ValidMap(m) == IsFiniteSet(DOMAIN m) /\ \A k \in DOMAIN m : k \in Keys /\ m[k] \in Value
ValidScope(h, scope) ==
  \A name \in DOMAIN scope :
    scope[name] \in Value /\ (scope[name].kind = "map" => ValidMap(h[scope[name].ref]))

\* The image of a finite set is finite.
LEMMA ImageFinite ==
  ASSUME NEW S, IsFiniteSet(S), NEW f, DOMAIN f = S
  PROVE  IsFiniteSet({f[x] : x \in S})
<1> DEFINE T == {f[x] : x \in S}
           g == [x \in S |-> f[x]]
<1>1. g \in Surjection(S, T)
  BY DEF Surjection
<1>. QED BY <1>1, FS_Surjection

\* A sequence has finitely many elements.
LEMMA RangeFinite ==
  ASSUME NEW C, NEW s \in Seq(C)
  PROVE  IsFiniteSet(RangeOf(s))
<1>1. Len(s) \in Nat /\ DOMAIN s = 1 .. Len(s)
  BY RangeMeans
<1>2. IsFiniteSet(1 .. Len(s))
  BY <1>1, FS_Interval
<1>. QED BY <1>1, <1>2, ImageFinite DEF RangeOf

\* What is in an output.
LEMMA OutputMeans ==
  ASSUME NEW o
  PROVE  o \in Outputs <=> /\ o = [k \in DOMAIN o |-> o[k]] /\ IsFiniteSet(DOMAIN o)
                           /\ DOMAIN o \subseteq Keys /\ \A k \in DOMAIN o : o[k] \in Texts
<1>1. ASSUME o \in Outputs
      PROVE  /\ o = [k \in DOMAIN o |-> o[k]] /\ IsFiniteSet(DOMAIN o)
             /\ DOMAIN o \subseteq Keys /\ \A k \in DOMAIN o : o[k] \in Texts
  <2>1. PICK S \in SUBSET Keys : o \in [S -> Texts]
    BY <1>1 DEF Outputs
  <2>2. IsFiniteSet(DOMAIN o)
    BY <1>1 DEF Outputs
  <2>. QED BY <2>1, <2>2
<1>2. ASSUME o = [k \in DOMAIN o |-> o[k]], IsFiniteSet(DOMAIN o),
             DOMAIN o \subseteq Keys, \A k \in DOMAIN o : o[k] \in Texts
      PROVE  o \in Outputs
  <2>1. o \in [DOMAIN o -> Texts] /\ DOMAIN o \in SUBSET Keys
    BY <1>2
  <2>. QED BY <1>2, <2>1 DEF Outputs
<1>. QED BY <1>1, <1>2

\* The kinds of values; what is shown of one is a text, and a list has texts.
LEMMA ValueMeans ==
  ASSUME NEW v \in Value
  PROVE  /\ v.kind \in {"string", "scalar", "slice", "map"}
         /\ v.kind \in {"string", "scalar"} => v.text \in Texts /\ v = [kind |-> v.kind, text |-> v.text]
         /\ v.kind = "slice" => v.elems \in Seq(Element) /\ ElementTexts(v) \in Seq(Texts)
         /\ v.kind = "map" => v.ref \in Place
         /\ Shown(v) \in Texts
<1>1. CASE v \in [kind : {"string", "scalar"}, text : Texts]
  BY <1>1 DEF Shown
<1>2. CASE v \in [kind : {"slice"}, elems : Seq(Element)]
  <2>1. v.kind = "slice" /\ v.elems \in Seq(Element)
    BY <1>2
  <2>2. Len(v.elems) \in Nat /\ DOMAIN v.elems = 1 .. Len(v.elems) /\ \A i \in 1 .. Len(v.elems) : v.elems[i] \in Element
    BY <2>1, RangeMeans
  <2>3. \A i \in 1 .. Len(v.elems) : v.elems[i].text \in Texts
    BY <2>2 DEF Element
  <2>4. ElementTexts(v) \in Seq(Texts)
    BY <2>2, <2>3 DEF ElementTexts
  <2>5. Shown(v) = <<"%v">>
    BY <2>1 DEF Shown
  <2>6. <<"%v">> \in Texts
    BY ReferenceAssumption, Single DEF Texts
  <2>. QED BY <2>1, <2>4, <2>5, <2>6
<1>3. CASE v \in [kind : {"map"}, ref : Place]
  <2>1. v.kind = "map" /\ v.ref \in Place
    BY <1>3
  <2>5. Shown(v) = <<"%v">>
    BY <2>1 DEF Shown
  <2>6. <<"%v">> \in Texts
    BY ReferenceAssumption, Single DEF Texts
  <2>. QED BY <2>1, <2>5, <2>6
<1>. QED BY <1>1, <1>2, <1>3 DEF Value

\* Where an entry of a new output comes from: an entry of the old one, with the token
\* replaced by a text, under its key or under that key and a value.
From(y, line, out, token, by) ==
  \E o \in DOMAIN out :
    line = Replaced(out[o], token, by) /\ (y = o \/ \E t \in Texts : y = Join(o, t))

\* Replacing in every line.
LEMMA EverywhereMeans ==
  ASSUME NEW out \in Outputs, NEW token, NEW by \in Texts
  PROVE  /\ Everywhere(out, token, by) \in Outputs
         /\ \A y \in DOMAIN Everywhere(out, token, by) : From(y, Everywhere(out, token, by)[y], out, token, by)
<1>1. /\ IsFiniteSet(DOMAIN out) /\ DOMAIN out \subseteq Keys /\ \A k \in DOMAIN out : out[k] \in Texts
  BY OutputMeans
<1>2. \A k \in DOMAIN out : Replaced(out[k], token, by) \in Texts
  BY <1>1, ReplacedMeans
<1> DEFINE e == Everywhere(out, token, by)
<1>3. e = [k \in DOMAIN out |-> Replaced(out[k], token, by)]
  BY Zenon DEF Everywhere
<1> HIDE DEF e
<1>4. DOMAIN e = DOMAIN out /\ \A k \in DOMAIN out : e[k] = Replaced(out[k], token, by)
  BY <1>3
<1>5. e \in Outputs
  BY <1>1, <1>2, <1>3, <1>4, OutputMeans
<1>. QED BY <1>4, <1>5 DEF e, From

\* A key and the dash.
LEMMA Dashed ==
  ASSUME NEW o \in Keys
  PROVE  /\ o \in Seq(STRING) /\ Len(o) \in Nat
         /\ o \o <<"-">> \in Seq(STRING) /\ Len(o \o <<"-">>) = Len(o) + 1
         /\ (o \o <<"-">>)[Len(o) + 1] = "-" /\ \A i \in 1 .. Len(o) : (o \o <<"-">>)[i] = o[i]
<1> DEFINE dash == <<"-">>
           a == o \o dash
<1>1. dash \in Seq(STRING) /\ Len(dash) = 1 /\ dash[1] = "-"
  BY ReferenceAssumption, Single
<1>2. o \in Seq(STRING) /\ Len(o) \in Nat
  BY DEF Keys, Texts
<1> HIDE DEF dash
<1>3. /\ a \in Seq(STRING) /\ Len(a) = Len(o) + 1
      /\ \A i \in 1 .. Len(o) + 1 : a[i] = IF i <= Len(o) THEN o[i] ELSE dash[i - Len(o)]
  <2>1. /\ a \in Seq(STRING) /\ Len(a) = Len(o) + Len(dash)
        /\ \A i \in 1 .. Len(o) + Len(dash) : a[i] = IF i <= Len(o) THEN o[i] ELSE dash[i - Len(o)]
    BY <1>1, <1>2, ConcatProperties
  <2>. QED BY <1>1, <2>1
<1>4. a[Len(o) + 1] = "-" /\ \A i \in 1 .. Len(o) : a[i] = o[i]
  <2> HIDE DEF a
  <2>1. Len(o) + 1 \in 1 .. Len(o) + 1 /\ ~(Len(o) + 1 <= Len(o)) /\ (Len(o) + 1) - Len(o) = 1
    BY <1>2
  <2>2. a[Len(o) + 1] = dash[1]
    BY <1>3, <2>1
  <2>3. \A i \in 1 .. Len(o) : i \in 1 .. Len(o) + 1 /\ i <= Len(o)
    BY <1>2
  <2>. QED BY <1>1, <1>3, <2>2, <2>3
<1>. QED BY <1>2, <1>3, <1>4 DEF a, dash

\* A key joined to a value is a key, and begins with it and the dash.
LEMMA KeyJoined ==
  ASSUME NEW o \in Keys, NEW t \in Texts
  PROVE  /\ Join(o, t) \in Keys /\ Len(o) \in Nat /\ Len(t) \in Nat /\ Len(Join(o, t)) = Len(o) + 1 + Len(t)
         /\ Join(o, t)[Len(o) + 1] = "-" /\ \A i \in 1 .. Len(o) : Join(o, t)[i] = o[i]
<1> DEFINE a == o \o <<"-">>
           j == a \o t
<1>2. t \in Seq(STRING) /\ Len(t) \in Nat
  BY DEF Texts
<1>3. /\ Len(o) \in Nat /\ a \in Seq(STRING) /\ Len(a) = Len(o) + 1
      /\ a[Len(o) + 1] = "-" /\ \A i \in 1 .. Len(o) : a[i] = o[i]
  BY Dashed
<1> HIDE DEF a
<1>5. /\ j \in Seq(STRING) /\ Len(j) = Len(a) + Len(t)
      /\ \A i \in 1 .. Len(a) + Len(t) : j[i] = IF i <= Len(a) THEN a[i] ELSE t[i - Len(a)]
  <2>1. a \in Seq(STRING) /\ t \in Seq(STRING)
    BY <1>2, <1>3
  <2>. QED BY <2>1, ConcatProperties
<1>6. \A i \in 1 .. Len(o) + 1 : j[i] = a[i]
  <2> HIDE DEF j
  <2>1. \A i \in 1 .. Len(o) + 1 : i \in 1 .. Len(a) + Len(t) /\ i <= Len(a)
    <3>1. Len(o) \in Nat /\ Len(t) \in Nat /\ Len(a) = Len(o) + 1
      BY <1>2, <1>3
    <3>. QED BY <3>1
  <2>. QED BY <1>5, <2>1
<1>7. Join(o, t) = j
  BY DEF Join, j, a
<1> HIDE DEF j
<1>8. Len(o) + 1 \in 1 .. Len(o) + 1 /\ \A i \in 1 .. Len(o) : i \in 1 .. Len(o) + 1
  <2>1. Len(o) \in Nat
    BY <1>3
  <2>. QED BY <2>1
<1>9. j[Len(o) + 1] = "-" /\ \A i \in 1 .. Len(o) : j[i] = o[i]
  BY <1>3, <1>6, <1>8
<1>. QED BY <1>2, <1>3, <1>5, <1>7, <1>9 DEF Keys, Texts

\* Inflating.
LEMMA InflateMeans ==
  ASSUME NEW out \in Outputs, NEW token, NEW T \in SUBSET Texts, IsFiniteSet(T), NEW e \in Inflations(out, token, T)
  PROVE  e \in Outputs /\ \A y \in DOMAIN e : \E by \in T : From(y, e[y], out, token, by)
<1>1. /\ IsFiniteSet(DOMAIN out) /\ DOMAIN out \subseteq Keys /\ \A k \in DOMAIN out : out[k] \in Texts
  BY OutputMeans
<1> DEFINE D == {Join(o, t) : o \in DOMAIN out, t \in T}
           L == {Replaced(out[o], token, t) : o \in DOMAIN out, t \in T}
           P == (DOMAIN out) \X T
           f == [p \in P |-> Join(p[1], p[2])]
<1>2. /\ e \in [D -> L]
      /\ \A y \in D : \E p \in P : Join(p[1], p[2]) = y /\ e[y] = Replaced(out[p[1]], token, p[2])
  BY DEF Inflations
<1>3. IsFiniteSet(D)
  <2>1. IsFiniteSet(P)
    BY <1>1, FS_Product
  <2>2. D = {f[p] : p \in P}
    <3>1. ASSUME NEW d \in D PROVE d \in {f[p] : p \in P}
      <4>1. PICK o \in DOMAIN out, t \in T : d = Join(o, t)
        OBVIOUS
      <4>2. <<o, t>> \in P /\ f[<<o, t>>] = Join(o, t)
        OBVIOUS
      <4>. QED BY <4>1, <4>2
    <3>2. \A p \in P : f[p] \in D
      OBVIOUS
    <3> HIDE DEF f, P, D
    <3>. QED BY <3>1, <3>2
  <2>3. DOMAIN f = P
    OBVIOUS
  <2> HIDE DEF D, P, f
  <2>. QED BY <2>1, <2>2, <2>3, ImageFinite
<1>4. ASSUME NEW y \in D
      PROVE  /\ y \in Keys /\ e[y] \in Texts
             /\ \E by \in T : From(y, e[y], out, token, by)
  <2>1. PICK p \in P : Join(p[1], p[2]) = y /\ e[y] = Replaced(out[p[1]], token, p[2])
    BY <1>2
  <2> DEFINE o == p[1]
             t == p[2]
  <2>2. o \in DOMAIN out /\ t \in T
    OBVIOUS
  <2>3. y = Join(o, t) /\ e[y] = Replaced(out[o], token, t)
    BY <2>1
  <2> HIDE DEF o, t, D, L, P
  <2>4. o \in Keys /\ t \in Texts /\ out[o] \in Texts
    BY <1>1, <2>2
  <2>5. y \in Keys
    BY <2>3, <2>4, KeyJoined
  <2>6. e[y] \in Texts
    BY <2>3, <2>4, ReplacedMeans
  <2>7. From(y, e[y], out, token, t)
    BY <2>2, <2>3, <2>4 DEF From
  <2>. QED BY <2>2, <2>5, <2>6, <2>7
<1>5. DOMAIN e = D /\ e = [k \in D |-> e[k]]
  BY <1>2
<1>6. e \in Outputs
  <2> HIDE DEF D
  <2>. QED BY <1>3, <1>4, <1>5, OutputMeans
<1> HIDE DEF D
<1>. QED BY <1>4, <1>5, <1>6

(***************************************************************************)
(* One reference                                                           *)
(***************************************************************************)
\* The text a reference was replaced by has the tokens of what the reference may become.
OfTexts(by, texts) == \A t \in RangeOf(by) : t = "," \/ \E x \in texts : t \in RangeOf(x)

\* The result of replacing a token in every line of out by one of these texts.
Replaces(r, out, token, texts) ==
  /\ r \in Expansions
  /\ r.tag # "ok" => r.out = <<>>
  /\ \A y \in DOMAIN r.out : \E by \in Texts : From(y, r.out[y], out, token, by) /\ OfTexts(by, texts)

\* No output, and the results without one.
LEMMA FailedMeans ==
  ASSUME NEW tag \in {"error", "panic"}, NEW out, NEW token, NEW texts
  PROVE  Replaces(Failed(tag), out, token, texts) /\ Failed(tag).tag = tag
<1>1. <<>> \in Outputs
  <2>1. DOMAIN <<>> = {} /\ IsFiniteSet({})
    BY FS_EmptySet
  <2>2. <<>> = [k \in {} |-> <<>>[k]]
    OBVIOUS
  <2>. QED BY <2>1, <2>2, OutputMeans
<1>2. Failed(tag) = [tag |-> tag, out |-> <<>>]
  BY DEF Failed
<1>3. DOMAIN <<>> = {}
  OBVIOUS
<1>. QED BY <1>1, <1>2, <1>3 DEF Replaces, Expansions

\* A text among them, in every line.
LEMMA EverywhereReplaces ==
  ASSUME NEW out \in Outputs, NEW token, NEW texts, NEW by \in Texts, OfTexts(by, texts)
  PROVE  Replaces(Done(Everywhere(out, token, by)), out, token, texts)
<1> DEFINE e == Everywhere(out, token, by)
<1>1. e \in Outputs /\ \A y \in DOMAIN e : From(y, e[y], out, token, by)
  BY EverywhereMeans
<1> HIDE DEF e
<1>2. Done(e) = [tag |-> "ok", out |-> e]
  BY DEF Done
<1>. QED BY <1>1, <1>2 DEF Replaces, Expansions, e

\* One line for each of them.
LEMMA InflateReplaces ==
  ASSUME NEW out \in Outputs, NEW token, NEW texts \in SUBSET Texts, IsFiniteSet(texts),
         NEW r \in Inflated(out, token, texts)
  PROVE  Replaces(r, out, token, texts) /\ r.tag = "ok"
<1>1. PICK e \in Inflations(out, token, texts) : r = Done(e)
  BY DEF Inflated
<1>2. e \in Outputs /\ \A y \in DOMAIN e : \E by \in texts : From(y, e[y], out, token, by)
  BY InflateMeans
<1>3. Done(e) = [tag |-> "ok", out |-> e]
  BY DEF Done
<1>4. \A by \in texts : OfTexts(by, texts)
  BY DEF OfTexts
<1>. QED BY <1>1, <1>2, <1>3, <1>4 DEF Replaces, Expansions

\* An index or a key.
LEMMA LookupReplaces ==
  ASSUME NEW out \in Outputs, NEW token, NEW texts, NEW there \in BOOLEAN, NEW by,
         there => by \in Texts /\ OfTexts(by, texts), NEW r \in Lookup(out, token, there, by)
  PROVE  Replaces(r, out, token, texts) /\ r.tag # "error"
<1>1. CASE there
  <2>1. r = Done(Everywhere(out, token, by))
    BY <1>1 DEF Lookup
  <2>2. Done(Everywhere(out, token, by)).tag = "ok"
    BY DEF Done
  <2>. QED BY <1>1, <2>1, <2>2, EverywhereReplaces
<1>2. CASE ~there /\ DOMAIN out = {}
  <2>1. r = [tag |-> "ok", out |-> out]
    BY <1>2 DEF Lookup, Done
  <2>. QED BY <1>2, <2>1 DEF Replaces, Expansions
<1>3. CASE ~there /\ DOMAIN out # {}
  <2>1. r = Failed("panic")
    BY <1>3 DEF Lookup
  <2>. QED BY <2>1, FailedMeans
<1>. QED BY <1>1, <1>2, <1>3

\* A list.
LEMMA InsertSliceReplaces ==
  ASSUME NEW out \in Outputs, NEW token, NEW ev, ev.sel \in {"none", "all", "index", "key"}, ev.index \in Nat,
         NEW parts \in Seq(Texts), NEW r \in InsertSlice(out, token, ev, parts)
  PROVE  Replaces(r, out, token, RangeOf(parts)) /\ r.tag # "error"
<1>0. Len(parts) \in Nat /\ RangeOf(parts) \subseteq Texts /\ \A i \in 1 .. Len(parts) : parts[i] \in RangeOf(parts)
  BY RangeMeans
<1>1. CASE ev.sel \in {"all", "key"}
  <2>1. r \in Inflated(out, token, RangeOf(parts))
    BY <1>1 DEF InsertSlice
  <2>2. IsFiniteSet(RangeOf(parts))
    BY RangeFinite
  <2>3. Replaces(r, out, token, RangeOf(parts)) /\ r.tag = "ok"
    BY <1>0, <2>1, <2>2, InflateReplaces
  <2>. QED BY <2>3
<1>2. CASE ev.sel = "index"
  <2> DEFINE there == ev.index < Len(parts)
             by == IF ev.index < Len(parts) THEN parts[ev.index + 1] ELSE <<>>
  <2>1. r \in Lookup(out, token, there, by)
    BY <1>2 DEF InsertSlice
  <2>2. there => by \in RangeOf(parts)
    BY <1>0
  <2>3. there => by \in Texts /\ OfTexts(by, RangeOf(parts))
    BY <1>0, <2>2 DEF OfTexts
  <2>4. there \in BOOLEAN
    OBVIOUS
  <2> HIDE DEF there, by
  <2>. QED BY <2>1, <2>3, <2>4, LookupReplaces
<1>3. CASE ev.sel = "none"
  <2>1. r = Done(Everywhere(out, token, Csv(parts)))
    BY <1>3 DEF InsertSlice
  <2>2. Done(Everywhere(out, token, Csv(parts))).tag = "ok"
    BY DEF Done
  <2>3. Csv(parts) \in Texts /\ OfTexts(Csv(parts), RangeOf(parts))
    BY CsvMeans DEF OfTexts
  <2>. QED BY <2>1, <2>2, <2>3, EverywhereReplaces
<1>. QED BY <1>1, <1>2, <1>3

\* A map.
LEMMA InsertMapReplaces ==
  ASSUME NEW out \in Outputs, NEW token, NEW ev, NEW entries, ValidMap(entries),
         NEW r \in InsertMap(out, token, ev, entries)
  PROVE  Replaces(r, out, token, {Shown(entries[k]) : k \in DOMAIN entries}) /\ r.tag # "error"
<1> DEFINE f == [k \in DOMAIN entries |-> Shown(entries[k])]
           texts == {Shown(entries[k]) : k \in DOMAIN entries}
<1>1. IsFiniteSet(DOMAIN entries) /\ \A k \in DOMAIN entries : entries[k] \in Value
  BY DEF ValidMap
<1>2. \A k \in DOMAIN entries : Shown(entries[k]) \in Texts
  BY <1>1, ValueMeans
<1>3. texts \in SUBSET Texts
  BY <1>2
<1>4. IsFiniteSet(texts)
  <2>1. DOMAIN f = DOMAIN entries /\ texts = {f[k] : k \in DOMAIN entries}
    OBVIOUS
  <2> HIDE DEF f, texts
  <2>. QED BY <1>1, <2>1, ImageFinite
<1>5. CASE ev.sel \in {"all", "index"}
  <2>1. r \in Inflated(out, token, texts)
    BY <1>5 DEF InsertMap
  <2> HIDE DEF texts
  <2>2. Replaces(r, out, token, texts) /\ r.tag = "ok"
    BY <1>3, <1>4, <2>1, InflateReplaces
  <2>. QED BY <2>2 DEF texts
<1>6. CASE ev.sel \notin {"all", "index"}
  <2> DEFINE there == ev.sel = "key" /\ ev.key \in DOMAIN entries
             by == IF there THEN Shown(entries[ev.key]) ELSE <<>>
  <2>1. r \in Lookup(out, token, there, by)
    BY <1>6 DEF InsertMap
  <2>2. there => by \in texts
    OBVIOUS
  <2>3. there => by \in Texts /\ OfTexts(by, texts)
    BY <1>3, <2>2 DEF OfTexts
  <2>4. there \in BOOLEAN
    OBVIOUS
  <2> HIDE DEF there, by, texts
  <2>5. Replaces(r, out, token, texts) /\ r.tag # "error"
    BY <2>1, <2>3, <2>4, LookupReplaces
  <2>. QED BY <2>5 DEF texts
<1>. QED BY <1>5, <1>6

\* Any reference that is replaced.
LEMMA InsertReplaces ==
  ASSUME NEW out \in Outputs, NEW token \in DOMAIN Reference, NEW h, NEW scope, ValidScope(h, scope),
         Reference[token].type \in ValidAutoSubstitution, NEW r \in Insert(out, token, Reference[token], h, scope)
  PROVE  LET ev == Reference[token]
         IN  /\ Replaces(r, out, token, Replacements(ev, h, scope))
             /\ r.tag = "error" <=> ev.type = "ATTR" /\ ev.name \notin DOMAIN scope
<1> DEFINE ev == Reference[token]
           v == scope[ev.name]
<1>1. /\ ev.sel \in {"none", "all", "index", "key"} /\ ev.index \in Nat
      /\ ev.type = "ENV" => Env[ev.name] \in Seq(Texts)
  BY ReferenceAssumption
<1>2. ev.type \in {"ATTR", "ENV"}
  BY DEF ValidAutoSubstitution
<1>3. CASE ev.type = "ENV"
  <2>1. r \in InsertSlice(out, token, ev, Env[ev.name])
    BY <1>3 DEF Insert
  <2>2. Replacements(ev, h, scope) = RangeOf(Env[ev.name])
    BY <1>3 DEF Replacements
  <2> HIDE DEF ev
  <2>3. Replaces(r, out, token, RangeOf(Env[ev.name])) /\ r.tag # "error"
    BY <1>1, <1>3, <2>1, InsertSliceReplaces
  <2>. QED BY <1>3, <2>2, <2>3 DEF ev
<1>4. CASE ev.type = "ATTR" /\ ev.name \notin DOMAIN scope
  <2>1. r = Failed("error")
    BY <1>4 DEF Insert
  <2>. QED BY <1>4, <2>1, FailedMeans
<1>5. CASE ev.type = "ATTR" /\ ev.name \in DOMAIN scope
  <2>1. v \in Value /\ (v.kind = "map" => ValidMap(h[v.ref]))
    BY <1>5 DEF ValidScope
  <2>2. CASE v.kind = "slice"
    <3>1. r \in InsertSlice(out, token, ev, ElementTexts(v))
      BY <1>5, <2>2 DEF Insert
    <3>2. Replacements(ev, h, scope) = RangeOf(ElementTexts(v))
      BY <1>5, <2>2 DEF Replacements
    <3>3. ElementTexts(v) \in Seq(Texts)
      BY <2>1, <2>2, ValueMeans
    <3>4. Replaces(r, out, token, Replacements(ev, h, scope)) /\ r.tag # "error"
      <4> HIDE DEF ev, v
      <4>. QED BY <1>1, <3>1, <3>2, <3>3, InsertSliceReplaces
    <3>. QED BY <1>5, <3>4
  <2>3. CASE v.kind = "map"
    <3>1. r \in InsertMap(out, token, ev, h[v.ref])
      BY <1>5, <2>3 DEF Insert
    <3>2. Replacements(ev, h, scope) = {Shown(h[v.ref][k]) : k \in DOMAIN h[v.ref]}
      BY <1>5, <2>3 DEF Replacements
    <3>4. Replaces(r, out, token, Replacements(ev, h, scope)) /\ r.tag # "error"
      <4> HIDE DEF ev, v
      <4>. QED BY <2>1, <2>3, <3>1, <3>2, InsertMapReplaces
    <3>. QED BY <1>5, <3>4
  <2>4. CASE v.kind \notin {"slice", "map"}
    <3>1. r = Done(Everywhere(out, token, v.text))
      BY <1>5, <2>4 DEF Insert
    <3>2. Replacements(ev, h, scope) = {v.text}
      BY <1>5, <2>4 DEF Replacements
    <3>3. v.text \in Texts
      BY <2>1, <2>4, ValueMeans
    <3>4. OfTexts(v.text, {v.text})
      BY DEF OfTexts
    <3>5. Replaces(r, out, token, Replacements(ev, h, scope))
      <4> HIDE DEF ev, v
      <4>. QED BY <3>1, <3>2, <3>3, <3>4, EverywhereReplaces
    <3>6. r.tag = "ok"
      BY <3>1 DEF Done
    <3>. QED BY <1>5, <3>5, <3>6
  <2>. QED BY <2>2, <2>3, <2>4
<1>. QED BY <1>2, <1>3, <1>4, <1>5

(***************************************************************************)
(* All references of a text                                                *)
(***************************************************************************)
\* What the i-th match makes of the result so far.
StepOf(before, token, h, scope, attrSub) ==
  IF before.tag # "ok" \/ Skipped(Reference[token], attrSub) THEN {before}
  ELSE Insert(before.out, token, Reference[token], h, scope)
StepsOf(results, token, h, scope, attrSub) == UNION {StepOf(b, token, h, scope, attrSub) : b \in results}
Base(key, text) == Done([k \in {key} |-> text])

\* The references in a text that are replaced, and whether one has no attribute.
Left(text, attrSub) == {t \in RangeOf(text) : t \in DOMAIN Reference /\ ~Skipped(Reference[t], attrSub)}
NotThere(token, scope) == Reference[token].type = "ATTR" /\ Reference[token].name \notin DOMAIN scope
Missing(text, scope, attrSub) == \E t \in Left(text, attrSub) : NotThere(t, scope)

\* No reference is replaced by a text with such references.
Closed(h, scope, attrSub) ==
  \A t \in DOMAIN Reference : ~Skipped(Reference[t], attrSub) =>
    \A x \in Replacements(Reference[t], h, scope) : Left(x, attrSub) = {}

\* A step ends with results.
LEMMA StepType ==
  ASSUME NEW before \in Expansions, NEW token \in DOMAIN Reference, NEW h, NEW scope, ValidScope(h, scope), NEW attrSub \in BOOLEAN
  PROVE  StepOf(before, token, h, scope, attrSub) \in SUBSET Expansions
<1>1. CASE before.tag # "ok" \/ Skipped(Reference[token], attrSub)
  BY <1>1 DEF StepOf
<1>2. CASE ~(before.tag # "ok" \/ Skipped(Reference[token], attrSub))
  <2>1. Reference[token].type \in ValidAutoSubstitution
    BY <1>2 DEF Skipped
  <2>2. before.out \in Outputs
    BY DEF Expansions
  <2>3. StepOf(before, token, h, scope, attrSub) = Insert(before.out, token, Reference[token], h, scope)
    BY <1>2 DEF StepOf
  <2>4. ASSUME NEW r \in Insert(before.out, token, Reference[token], h, scope) PROVE r \in Expansions
    <3>1. Replaces(r, before.out, token, Replacements(Reference[token], h, scope))
      BY <2>1, <2>2, InsertReplaces
    <3>. QED BY <3>1 DEF Replaces
  <2>. QED BY <2>3, <2>4
<1>. QED BY <1>1, <1>2

\* The template is the first output.
LEMMA BaseType ==
  ASSUME NEW key \in Keys, NEW text \in Texts
  PROVE  /\ Base(key, text) \in Expansions /\ Base(key, text).tag = "ok"
         /\ DOMAIN Base(key, text).out = {key} /\ Base(key, text).out[key] = text
<1> DEFINE o == [k \in {key} |-> text]
<1>1. Base(key, text) = [tag |-> "ok", out |-> o]
  BY DEF Base, Done
<1>2. DOMAIN o = {key} /\ o[key] = text /\ IsFiniteSet({key})
  BY FS_Singleton
<1>3. o \in Outputs
  BY <1>2, OutputMeans
<1> HIDE DEF o
<1>. QED BY <1>1, <1>2, <1>3 DEF Expansions

\* The results after each of the matches.
Steps(p, m, base, h, scope, attrSub) ==
  /\ p \in [0 .. Len(m) -> SUBSET Expansions] /\ p[0] = {base}
  /\ \A i \in 1 .. Len(m) : p[i] = StepsOf(p[i - 1], m[i], h, scope, attrSub)

\* Expand goes from one match to the next.
LEMMA ExpandMade ==
  ASSUME NEW key \in Keys, NEW text \in Texts, NEW h, NEW scope, ValidScope(h, scope), NEW attrSub \in BOOLEAN
  PROVE  \E p : /\ Steps(p, Matches(text), Base(key, text), h, scope, attrSub)
                /\ Expand(key, text, h, scope, attrSub) = p[Len(Matches(text))]
<1> DEFINE m == Matches(text)
           N == Len(m)
           base == {Base(key, text)}
           step == [i \in 1 .. N |-> [c \in SUBSET Expansions |-> StepsOf(c, m[i], h, scope, attrSub)]]
           Made(f) == f = [i \in 0 .. N |->
             IF i = 0 THEN {Done([k \in {key} |-> text])}
             ELSE LET ev == Reference[m[i]] IN
                  UNION {IF before.tag # "ok" \/ Skipped(ev, attrSub) THEN {before}
                         ELSE Insert(before.out, m[i], ev, h, scope) : before \in f[i - 1]}]
<1>1. m \in Seq(DOMAIN Reference) /\ N \in Nat /\ \A i \in 1 .. N : m[i] \in DOMAIN Reference
  BY MatchesMean
<1>2. base \in SUBSET Expansions
  BY BaseType
<1> HIDE DEF m, base
<1>3. step \in [1 .. N -> [SUBSET Expansions -> SUBSET Expansions]]
  <2>1. ASSUME NEW i \in 1 .. N, NEW c \in SUBSET Expansions
        PROVE  StepsOf(c, m[i], h, scope, attrSub) \in SUBSET Expansions
    <3>1. \A b \in c : StepOf(b, m[i], h, scope, attrSub) \in SUBSET Expansions
      BY <1>1, StepType
    <3>. QED BY <3>1 DEF StepsOf
  <2>. QED BY <2>1
<1>4. \A i \in 1 .. N, c \in SUBSET Expansions : step[i][c] = StepsOf(c, m[i], h, scope, attrSub)
  OBVIOUS
<1>5. PICK p \in [0 .. N -> SUBSET Expansions] : Follows(p, base, step, N)
  <2> HIDE DEF step, N
  <2>. QED BY <1>1, <1>2, <1>3, Recursion
<1>6. p[0] = base /\ \A i \in 1 .. N : p[i - 1] \in SUBSET Expansions /\ p[i] = StepsOf(p[i - 1], m[i], h, scope, attrSub)
  <2>1. \A i \in 1 .. N : i - 1 \in 0 .. N
    BY <1>1
  <2> HIDE DEF step
  <2>. QED BY <1>4, <1>5, <2>1 DEF Follows
<1>7. Made(p)
  <2>1. \A i \in 0 .. N : i # 0 => i \in 1 .. N
    BY <1>1
  <2>2. p = [i \in 0 .. N |-> IF i = 0 THEN base ELSE StepsOf(p[i - 1], m[i], h, scope, attrSub)]
    BY <1>5, <1>6, <2>1
  <2>. QED BY <2>2 DEF StepsOf, StepOf, base, Base
<1> DEFINE after == CHOOSE f : Made(f)
<1>8. Made(after)
  <2> HIDE DEF Made
  <2>. QED BY <1>7
<1>9. Expand(key, text, h, scope, attrSub) = after[N]
  BY Zenon DEF Expand, m
<1> HIDE DEF after
<1>10. /\ DOMAIN after = 0 .. N /\ after[0] = base
       /\ \A i \in 1 .. N : after[i] = StepsOf(after[i - 1], m[i], h, scope, attrSub)
  <2>1. after = [i \in 0 .. N |-> IF i = 0 THEN base ELSE StepsOf(after[i - 1], m[i], h, scope, attrSub)]
    BY <1>8 DEF StepsOf, StepOf, base, Base
  <2> HIDE DEF Made
  <2>2. 0 \in 0 .. N /\ \A i \in 1 .. N : i \in 0 .. N /\ i # 0
    BY <1>1
  <2>. QED BY <2>1, <2>2
<1> HIDE DEF Made
<1> DEFINE S == {n \in Nat : n <= N => after[n] = p[n]}
<1>11. N \in S
  <2>1. 0 \in S
    BY <1>6, <1>10
  <2>2. ASSUME NEW n \in S PROVE n + 1 \in S
    <3> SUFFICES ASSUME n + 1 <= N PROVE after[n + 1] = p[n + 1]
      OBVIOUS
    <3>1. n + 1 \in 1 .. N /\ (n + 1) - 1 = n /\ after[n] = p[n]
      BY <1>1
    <3> HIDE DEF N
    <3>. QED BY <1>6, <1>10, <3>1
  <2>3. S \in SUBSET Nat
    OBVIOUS
  <2> HIDE DEF S
  <2>4. S = Nat
    BY <2>1, <2>2, <2>3, Induction
  <2>. QED BY <1>1, <2>4
<1>12. after[N] = p[N]
  BY <1>1, <1>11
<1>. QED BY <1>5, <1>6, <1>9, <1>12 DEF m, base, Steps

\* What a text keeps when it is plain.
LEMMA ReplacedLeft ==
  ASSUME NEW text \in Texts, NEW token \in DOMAIN Reference, NEW by \in Texts, NEW attrSub \in BOOLEAN, NEW h, NEW scope,
         ~Skipped(Reference[token], attrSub), OfTexts(by, Replacements(Reference[token], h, scope)),
         Closed(h, scope, attrSub)
  PROVE  Left(Replaced(text, token, by), attrSub) \subseteq Left(text, attrSub) \ {token}
<1> SUFFICES ASSUME NEW t \in Left(Replaced(text, token, by), attrSub)
             PROVE  t \in Left(text, attrSub) /\ t # token
  OBVIOUS
<1>1. t \in RangeOf(Replaced(text, token, by)) /\ t \in DOMAIN Reference /\ ~Skipped(Reference[t], attrSub)
  BY DEF Left
<1>2. CASE t \in RangeOf(text) /\ t # token
  BY <1>1, <1>2 DEF Left
<1>3. CASE t \in RangeOf(by)
  <2>1. t # ","
    BY <1>1, ReferenceAssumption
  <2>2. PICK x \in Replacements(Reference[token], h, scope) : t \in RangeOf(x)
    BY <1>3, <2>1 DEF OfTexts
  <2>3. Left(x, attrSub) = {}
    BY DEF Closed
  <2>. QED BY <1>1, <2>2, <2>3 DEF Left
<1>. QED BY <1>1, <1>2, <1>3, ReplacedMeans

\* What begins with a key and the dash.
LEMMA AddedMeans ==
  ASSUME NEW k \in Keys, NEW y \in Keys
  PROVE  Added(y, k) <=> Len(k) + 1 <= Len(y) /\ y[Len(k) + 1] = "-" /\ \A i \in 1 .. Len(k) : y[i] = k[i]
<1> DEFINE a == k \o <<"-">>
           L == Len(k)
<1>1. /\ L \in Nat /\ a \in Seq(STRING) /\ Len(a) = L + 1
      /\ a[L + 1] = "-" /\ \A i \in 1 .. L : a[i] = k[i]
  BY Dashed
<1>2. y \in Seq(STRING) /\ Len(y) \in Nat
  BY DEF Keys, Texts
<1>3. Added(y, k) <=> Len(a) <= Len(y) /\ SubSeq(a, 1, Len(a)) = SubSeq(y, 1, Len(a))
  BY DEF Added, IsPrefix
<1>4. \A i \in 1 .. L + 1 : i \in 1 .. L \/ i = L + 1
  BY <1>1
<1>5. L + 1 \in 1 .. L + 1 /\ \A i \in 1 .. L : i \in 1 .. L + 1
  BY <1>1
<1> HIDE DEF a, L
<1>6. ASSUME L + 1 <= Len(y)
      PROVE  /\ SubSeq(a, 1, L + 1) \in Seq(STRING) /\ Len(SubSeq(a, 1, L + 1)) = L + 1
             /\ SubSeq(y, 1, L + 1) \in Seq(STRING) /\ Len(SubSeq(y, 1, L + 1)) = L + 1
             /\ \A i \in 1 .. L + 1 : SubSeq(a, 1, L + 1)[i] = a[i]
             /\ \A i \in 1 .. L + 1 : SubSeq(y, 1, L + 1)[i] = y[i]
  <2>1. L + 1 \in 0 .. Len(y) /\ L + 1 \in 0 .. Len(a)
    BY <1>1, <1>2, <1>6
  <2>. QED BY <1>1, <1>2, <2>1, SubSeqProperties
<1>7. ASSUME Added(y, k) PROVE L + 1 <= Len(y) /\ y[L + 1] = "-" /\ \A i \in 1 .. L : y[i] = k[i]
  <2>1. L + 1 <= Len(y) /\ SubSeq(a, 1, L + 1) = SubSeq(y, 1, L + 1)
    BY <1>1, <1>3, <1>7
  <2>2. \A i \in 1 .. L + 1 : y[i] = a[i]
    BY <1>6, <2>1
  <2>. QED BY <1>1, <1>5, <2>1, <2>2
<1>8. ASSUME L + 1 <= Len(y), y[L + 1] = "-", \A i \in 1 .. L : y[i] = k[i] PROVE Added(y, k)
  <2>1. \A i \in 1 .. L + 1 : y[i] = a[i]
    BY <1>1, <1>4, <1>8
  <2>2. SubSeq(a, 1, L + 1) = SubSeq(y, 1, L + 1)
    BY <1>6, <1>8, <2>1, SeqEqual
  <2>. QED BY <1>1, <1>3, <1>8, <2>2
<1>. QED BY <1>7, <1>8 DEF L

\* A key extends itself, and what is joined to an extension is one.
LEMMA ExtendsMore ==
  ASSUME NEW k \in Keys
  PROVE  /\ Extends(k, k)
         /\ \A o \in Keys, t \in Texts : Extends(o, k) => Extends(Join(o, t), k)
<1>1. ASSUME NEW o \in Keys, NEW t \in Texts, Extends(o, k) PROVE Extends(Join(o, t), k)
  <2> DEFINE j == Join(o, t)
             L == Len(k)
             M == Len(o)
  <2>1. /\ j \in Keys /\ M \in Nat /\ Len(t) \in Nat /\ Len(j) = M + 1 + Len(t)
        /\ j[M + 1] = "-" /\ \A i \in 1 .. M : j[i] = o[i]
    BY KeyJoined
  <2>0. L \in Nat
    BY Dashed
  <2>2. Added(j, k) <=> L + 1 <= Len(j) /\ j[L + 1] = "-" /\ \A i \in 1 .. L : j[i] = k[i]
    BY <2>1, AddedMeans
  <2>3. CASE o = k
    <3>1. M = L
      BY <2>3
    <3> HIDE DEF j, L, M
    <3>2. L + 1 <= Len(j)
      BY <2>0, <2>1, <3>1
    <3>. QED BY <2>1, <2>2, <2>3, <3>1, <3>2 DEF Extends, j
  <2>4. CASE Added(o, k)
    <3>1. L + 1 <= M /\ o[L + 1] = "-" /\ \A i \in 1 .. L : o[i] = k[i]
      BY <2>4, AddedMeans
    <3> HIDE DEF j, L, M
    <3>2. L + 1 <= Len(j) /\ L + 1 \in 1 .. M /\ \A i \in 1 .. L : i \in 1 .. M
      BY <2>0, <2>1, <3>1
    <3>. QED BY <2>1, <2>2, <3>1, <3>2 DEF Extends, j
  <2>. QED BY <1>1, <2>3, <2>4 DEF Extends
<1>. QED BY <1>1 DEF Extends

\* What n steps have done.
StepsInv(r, n, m, key, h, scope, attrSub) ==
  /\ r \in Expansions
  /\ r.tag # "ok" => r.out = <<>>
  /\ \A y \in DOMAIN r.out : Extends(y, key)
  /\ r.tag = "ok" => \A i \in 1 .. n : ~Skipped(Reference[m[i]], attrSub) => ~NotThere(m[i], scope)
  /\ r.tag = "error" => \E i \in 1 .. n : ~Skipped(Reference[m[i]], attrSub) /\ NotThere(m[i], scope)
  /\ Closed(h, scope, attrSub) => \A y \in DOMAIN r.out : \A t \in Left(r.out[y], attrSub) :
       \E i \in 1 .. Len(m) : i > n /\ t = m[i]

\* One more step.
LEMMA StepKeeps ==
  ASSUME NEW m \in Seq(DOMAIN Reference), NEW n \in Nat, n + 1 <= Len(m), NEW key \in Keys,
         NEW h, NEW scope, ValidScope(h, scope), NEW attrSub \in BOOLEAN, NEW b, StepsInv(b, n, m, key, h, scope, attrSub),
         NEW r \in StepOf(b, m[n + 1], h, scope, attrSub)
  PROVE  StepsInv(r, n + 1, m, key, h, scope, attrSub)
<1> DEFINE token == m[n + 1]
           ev == Reference[token]
<1>1. /\ Len(m) \in Nat /\ n + 1 \in 1 .. Len(m) /\ token \in DOMAIN Reference
      /\ \A i \in 1 .. n + 1 : i \in 1 .. n \/ i = n + 1
      /\ \A i \in 1 .. n : i \in 1 .. n + 1
      /\ \A i \in 1 .. Len(m) : i > n => i > n + 1 \/ i = n + 1
  <2>1. Len(m) \in Nat /\ n + 1 \in 1 .. Len(m)
    OBVIOUS
  <2>. QED BY <2>1
<1>2. b \in Expansions
  BY DEF StepsInv
<1>3. r \in StepOf(b, token, h, scope, attrSub) /\ r \in Expansions
  BY <1>1, <1>2, StepType
<1> HIDE DEF token
<1>4. CASE b.tag # "ok"
  <2>1. r = b
    BY <1>3, <1>4 DEF StepOf
  <2>2. b.out = <<>> /\ DOMAIN <<>> = {}
    BY <1>4 DEF StepsInv
  <2>. QED BY <1>1, <1>4, <2>1, <2>2 DEF StepsInv, token
<1>5. CASE b.tag = "ok" /\ Skipped(ev, attrSub)
  <2>1. r = b
    BY <1>3, <1>5 DEF StepOf
  <2>2. ASSUME Closed(h, scope, attrSub), NEW y \in DOMAIN b.out, NEW t \in Left(b.out[y], attrSub)
        PROVE  \E i \in 1 .. Len(m) : i > n + 1 /\ t = m[i]
    <3>1. PICK i \in 1 .. Len(m) : i > n /\ t = m[i]
      BY <2>2 DEF StepsInv
    <3>2. ~Skipped(Reference[t], attrSub)
      BY DEF Left
    <3>3. i # n + 1
      BY <1>5, <3>1, <3>2 DEF token
    <3>. QED BY <1>1, <3>1, <3>3
  <2>3. ASSUME NEW i \in 1 .. n + 1, ~Skipped(Reference[m[i]], attrSub) PROVE ~NotThere(m[i], scope)
    BY <1>1, <1>5, <2>3 DEF StepsInv, token
  <2>. QED BY <1>5, <2>1, <2>2, <2>3, <1>2 DEF StepsInv, token
<1>6. CASE b.tag = "ok" /\ ~Skipped(ev, attrSub)
  <2>1. r \in Insert(b.out, token, ev, h, scope) /\ b.out \in Outputs /\ ev.type \in ValidAutoSubstitution
    BY <1>2, <1>3, <1>6 DEF StepOf, Skipped, Expansions
  <2>2. /\ Replaces(r, b.out, token, Replacements(ev, h, scope))
        /\ r.tag = "error" <=> NotThere(token, scope)
    BY <1>1, <2>1, InsertReplaces DEF NotThere
  <2>3. r.tag # "ok" => r.out = <<>>
    BY <2>2 DEF Replaces
  <2>8. \A y \in DOMAIN b.out : Extends(y, key)
    BY Zenon DEF StepsInv
  <2>4. ASSUME NEW y \in DOMAIN r.out
        PROVE  /\ Extends(y, key)
               /\ Closed(h, scope, attrSub) => \A t \in Left(r.out[y], attrSub) : \E i \in 1 .. Len(m) : i > n + 1 /\ t = m[i]
    <3>1. PICK by \in Texts : From(y, r.out[y], b.out, token, by) /\ OfTexts(by, Replacements(ev, h, scope))
      BY <2>2, <2>4 DEF Replaces
    <3>2. PICK o \in DOMAIN b.out : r.out[y] = Replaced(b.out[o], token, by) /\ (y = o \/ \E t \in Texts : y = Join(o, t))
      BY <3>1 DEF From
    <3>3. o \in Keys /\ b.out[o] \in Texts
      BY <2>1, OutputMeans
    <3>4. Extends(o, key)
      BY <2>8
    <3>5. Extends(y, key)
      <4>1. \A t \in Texts : Extends(Join(o, t), key)
        BY <3>3, <3>4, ExtendsMore
      <4>. QED BY <3>2, <3>4, <4>1
    <3>6. ASSUME Closed(h, scope, attrSub), NEW t \in Left(r.out[y], attrSub)
          PROVE  \E i \in 1 .. Len(m) : i > n + 1 /\ t = m[i]
      <4>1. t \in Left(b.out[o], attrSub) /\ t # token
        BY <1>1, <1>6, <3>1, <3>2, <3>3, <3>6, ReplacedLeft
      <4>2. PICK i \in 1 .. Len(m) : i > n /\ t = m[i]
        BY <3>6, <4>1 DEF StepsInv
      <4>3. i # n + 1
        BY <4>1, <4>2 DEF token
      <4>. QED BY <1>1, <4>2, <4>3
    <3>. QED BY <3>5, <3>6
  <2>5. ASSUME r.tag = "ok", NEW i \in 1 .. n + 1, ~Skipped(Reference[m[i]], attrSub) PROVE ~NotThere(m[i], scope)
    <3>1. CASE i \in 1 .. n
      BY <1>6, <2>5, <3>1 DEF StepsInv
    <3>2. CASE i = n + 1
      BY <2>2, <2>5, <3>2 DEF token
    <3>. QED BY <1>1, <3>1, <3>2
  <2>6. ASSUME r.tag = "error" PROVE \E i \in 1 .. n + 1 : ~Skipped(Reference[m[i]], attrSub) /\ NotThere(m[i], scope)
    <3>1. n + 1 \in 1 .. n + 1
      OBVIOUS
    <3>. QED BY <1>6, <2>2, <2>6, <3>1 DEF token
  <2>7. StepsInv(r, n + 1, m, key, h, scope, attrSub)
    BY <1>3, <2>3, <2>4, <2>5, <2>6 DEF StepsInv
  <2>. QED BY <2>7 DEF token
<1>. QED BY <1>4, <1>5, <1>6

\* The results of parameterSubstitute: lines under extensions of the key; an error when an
\* attribute is missing; and no reference left in them when the attributes hold none.
LEMMA ExpandMeans ==
  ASSUME NEW key \in Keys, NEW text \in Texts, NEW h, NEW scope, ValidScope(h, scope), NEW attrSub \in BOOLEAN,
         NEW r \in Expand(key, text, h, scope, attrSub)
  PROVE  /\ r \in Expansions
         /\ r.tag # "ok" => r.out = <<>>
         /\ \A y \in DOMAIN r.out : y \in Keys /\ Extends(y, key) /\ r.out[y] \in Texts
         /\ r.tag = "ok" => ~Missing(text, scope, attrSub)
         /\ r.tag = "error" => Missing(text, scope, attrSub)
         /\ Closed(h, scope, attrSub) => \A y \in DOMAIN r.out : Left(r.out[y], attrSub) = {}
<1> DEFINE m == Matches(text)
           N == Len(m)
           base == Base(key, text)
<1>0. PICK p : Steps(p, m, base, h, scope, attrSub) /\ Expand(key, text, h, scope, attrSub) = p[N]
  BY ExpandMade
<1>1. /\ p[0] = {base} /\ r \in p[N]
      /\ \A i \in 1 .. N : p[i] = StepsOf(p[i - 1], m[i], h, scope, attrSub)
  BY <1>0 DEF Steps
<1>2. /\ m \in Seq(DOMAIN Reference) /\ N \in Nat
      /\ \A t : t \in RangeOf(text) /\ t \in DOMAIN Reference <=> \E i \in 1 .. N : m[i] = t
  <2>1. m \in Seq(DOMAIN Reference) /\ RangeOf(m) = RangeOf(text) \cap DOMAIN Reference
    BY MatchesMean
  <2> HIDE DEF m
  <2>2. N \in Nat /\ \A t : t \in RangeOf(m) <=> \E i \in 1 .. N : m[i] = t
    BY <2>1, RangeMeans
  <2>. QED BY <2>1, <2>2
<1> DEFINE S == {n \in Nat : n <= N => \A x \in p[n] : StepsInv(x, n, m, key, h, scope, attrSub)}
<1>3. 0 \in S
  <2>1. /\ base \in Expansions /\ base.tag = "ok" /\ DOMAIN base.out = {key} /\ base.out[key] = text
    BY BaseType
  <2>2. Extends(key, key)
    BY ExtendsMore
  <2>3. ASSUME NEW t \in Left(text, attrSub) PROVE \E i \in 1 .. N : i > 0 /\ t = m[i]
    <3>1. PICK i \in 1 .. N : m[i] = t
      BY <1>2 DEF Left
    <3>. QED BY <1>2, <3>1
  <2> HIDE DEF base, m
  <2>4. StepsInv(base, 0, m, key, h, scope, attrSub)
    BY <2>1, <2>2, <2>3 DEF StepsInv
  <2>. QED BY <1>1, <2>4
<1>4. ASSUME NEW n \in S PROVE n + 1 \in S
  <2> SUFFICES ASSUME n + 1 <= N, NEW x \in p[n + 1] PROVE StepsInv(x, n + 1, m, key, h, scope, attrSub)
    OBVIOUS
  <2>1. n \in Nat /\ n + 1 \in 1 .. N /\ (n + 1) - 1 = n /\ \A z \in p[n] : StepsInv(z, n, m, key, h, scope, attrSub)
    BY <1>2
  <2> HIDE DEF m
  <2>2. p[n + 1] = StepsOf(p[n], m[n + 1], h, scope, attrSub)
    BY <1>1, <2>1
  <2>3. PICK z \in p[n] : x \in StepOf(z, m[n + 1], h, scope, attrSub)
    BY <2>2 DEF StepsOf
  <2>. QED BY <1>2, <2>1, <2>3, StepKeeps
<1>5. StepsInv(r, N, m, key, h, scope, attrSub)
  <2>1. S \in SUBSET Nat
    OBVIOUS
  <2> HIDE DEF S
  <2>2. S = Nat
    BY <1>3, <1>4, <2>1, Induction
  <2>3. N \in S
    BY <1>2, <2>2
  <2>. QED BY <1>1, <1>2, <2>3 DEF S
<1> HIDE DEF m
<1>6. r \in Expansions /\ r.out \in Outputs
  BY <1>5 DEF StepsInv, Expansions
<1>7. \A y \in DOMAIN r.out : y \in Keys /\ Extends(y, key) /\ r.out[y] \in Texts
  BY <1>5, <1>6, OutputMeans DEF StepsInv
<1>8. ASSUME r.tag = "ok" PROVE ~Missing(text, scope, attrSub)
  <2> SUFFICES ASSUME NEW t \in Left(text, attrSub) PROVE ~NotThere(t, scope)
    BY DEF Missing
  <2>1. PICK i \in 1 .. N : m[i] = t
    BY <1>2 DEF Left
  <2>. QED BY <1>5, <1>8, <2>1 DEF StepsInv, Left
<1>9. ASSUME r.tag = "error" PROVE Missing(text, scope, attrSub)
  <2>1. PICK i \in 1 .. N : ~Skipped(Reference[m[i]], attrSub) /\ NotThere(m[i], scope)
    BY <1>5, <1>9 DEF StepsInv
  <2>2. m[i] \in RangeOf(text) /\ m[i] \in DOMAIN Reference
    BY <1>2
  <2>. QED BY <2>1, <2>2 DEF Missing, Left
<1>10. ASSUME Closed(h, scope, attrSub), NEW y \in DOMAIN r.out PROVE Left(r.out[y], attrSub) = {}
  <2>1. \A i \in 1 .. N : ~(i > N)
    BY <1>2
  <2>. QED BY <1>5, <1>10, <2>1 DEF StepsInv
<1>11. r.tag # "ok" => r.out = <<>>
  BY <1>5 DEF StepsInv
<1>. QED BY <1>6, <1>7, <1>8, <1>9, <1>10, <1>11

\* A text without references to replace stays as it is.
LEMMA ExpandPlain ==
  ASSUME NEW key \in Keys, NEW text \in Texts, NEW h, NEW scope, ValidScope(h, scope), NEW attrSub \in BOOLEAN,
         Left(text, attrSub) = {}
  PROVE  Expand(key, text, h, scope, attrSub) = {Base(key, text)}
<1> DEFINE m == Matches(text)
           N == Len(m)
           base == Base(key, text)
           r == Expand(key, text, h, scope, attrSub)
<1>0. PICK p : Steps(p, m, base, h, scope, attrSub) /\ r = p[N]
  BY ExpandMade
<1>1. /\ p[0] = {base} /\ r = p[N]
      /\ \A i \in 1 .. N : p[i] = StepsOf(p[i - 1], m[i], h, scope, attrSub)
  BY <1>0 DEF Steps
<1>2. /\ N \in Nat /\ \A i \in 1 .. N : Skipped(Reference[m[i]], attrSub)
  <2>1. m \in Seq(DOMAIN Reference) /\ RangeOf(m) = RangeOf(text) \cap DOMAIN Reference
    BY MatchesMean
  <2> HIDE DEF m
  <2>2. N \in Nat /\ \A i \in 1 .. N : m[i] \in RangeOf(m)
    BY <2>1, RangeMeans
  <2>. QED BY <2>1, <2>2 DEF Left
<1> HIDE DEF r, m, base
<1> DEFINE S == {n \in Nat : n <= N => p[n] = {base}}
<1>3. 0 \in S
  BY <1>1
<1>4. ASSUME NEW n \in S PROVE n + 1 \in S
  <2> SUFFICES ASSUME n + 1 <= N PROVE p[n + 1] = {base}
    OBVIOUS
  <2>1. n + 1 \in 1 .. N /\ (n + 1) - 1 = n /\ p[n] = {base}
    BY <1>2
  <2>2. p[n + 1] = StepsOf(p[n], m[n + 1], h, scope, attrSub) /\ Skipped(Reference[m[n + 1]], attrSub)
    BY <1>1, <1>2, <2>1
  <2>3. \A b \in p[n] : StepOf(b, m[n + 1], h, scope, attrSub) = {b}
    BY <2>2 DEF StepOf
  <2>. QED BY <2>1, <2>2, <2>3 DEF StepsOf
<1>5. N \in S
  <2>1. S \in SUBSET Nat
    OBVIOUS
  <2> HIDE DEF S
  <2>2. S = Nat
    BY <1>3, <1>4, <2>1, Induction
  <2>. QED BY <1>2, <2>2
<1>. QED BY <1>1, <1>2, <1>5 DEF r, base

(***************************************************************************)
(* The invariant                                                           *)
(***************************************************************************)
\* The map n is the value of an entry of the map m.
Child(d, m, n) == \E k \in DOMAIN d.heap[m] : d.heap[m][k].kind = "map" /\ d.heap[m][k].ref = n

\* The maps keep their places, and an entry that is a map stays what it was.
PassType ==
  /\ document \in Documents /\ job \in 1 .. Len(Jobs) + 1
  /\ status \in {"running", "done", "error", "panic"} /\ (status = "done" => job = Len(Jobs) + 1)
  /\ DOMAIN heap = DOMAIN document.heap /\ \A m \in DOMAIN heap : ValidMap(heap[m])
  /\ \A m \in DOMAIN heap : \A k \in DOMAIN heap[m] :
       heap[m][k].kind = "map" => k \in DOMAIN document.heap[m] /\ heap[m][k] = document.heap[m][k]
  /\ \A j \in DOMAIN Jobs : Jobs[j].kind = "paths" =>
       \A m \in {Jobs[j].map, Jobs[j].into} : \A k \in DOMAIN heap[m] : heap[m][k].kind = "string"
  /\ DOMAIN names = DOMAIN document.names /\ \A j \in DOMAIN Jobs : ~IsLoop(j) => names[Jobs[j].ds] \in Texts
  /\ stack \in Seq([map : DOMAIN heap, pending : SUBSET Keys])

\* The loops under way go down from the map of the part that is being rewritten.
PassStack ==
  /\ stack # <<>> => job <= Len(Jobs) /\ IsLoop(job) /\ stack[1].map = Current.map
  /\ Len(stack) > 1 => Current.kind = "map"
  /\ \A i \in 1 .. Len(stack) : stack[i].pending \subseteq DOMAIN heap[stack[i].map]
  /\ \A i \in 1 .. Len(stack) : i > 1 => Child(document, stack[i - 1].map, stack[i].map)
  /\ \A i, j \in 1 .. Len(stack) : stack[i].map = stack[j].map => i = j

\* Parts to come are as they were in the document.
Untouched(m) == heap[m] = document.heap[m]
PassFresh ==
  \A j \in DOMAIN Jobs : IsLoop(j) /\ (job < j \/ (job = j /\ stack = <<>>)) => \A m \in MapsOf(j) : Untouched(m)

\* The names so far.
PassNames ==
  \A j \in DOMAIN Jobs : Jobs[j].kind = "name" =>
    /\ job <= j => names[Jobs[j].ds] = document.names[Jobs[j].ds]
    /\ j < job => /\ ~Unknown(document.names[Jobs[j].ds], ScopeOf(heap, Jobs[j].scope))
                  /\ Settled(heap, Jobs[j].scope) => Automatic(names[Jobs[j].ds]) = {}

\* The paths so far.
Original(m, k) == k \in DOMAIN document.heap[m] /\ heap[m][k] = document.heap[m][k]
PathsDone(j, m) ==
  /\ Apart(m) => \A k \in DOMAIN document.heap[m] : ~Unknown(document.heap[m][k].text, ScopeOf(heap, Jobs[j].scope))
  /\ Settled(heap, Jobs[j].scope) /\ Jobs[j].into = m => Resolved(m)
PathsUnderWay(j, m, pending) ==
  /\ \A x \in DOMAIN heap[m] : \E k \in DOMAIN document.heap[m] : Extends(x, k)
  /\ \A k \in pending : Original(m, k) \/ (Settled(heap, Jobs[j].scope) => Automatic(heap[m][k].text) = {})
  /\ Apart(m) => \A k \in DOMAIN document.heap[m] :
       (k \in pending /\ Original(m, k)) \/ ~Unknown(document.heap[m][k].text, ScopeOf(heap, Jobs[j].scope))
  /\ Settled(heap, Jobs[j].scope) /\ Jobs[j].into = m =>
       \A k \in DOMAIN heap[m] \ pending : Automatic(heap[m][k].text) = {}
PassPaths ==
  \A j \in DOMAIN Jobs : Jobs[j].kind = "paths" =>
    /\ j < job => PathsDone(j, Jobs[j].map)
    /\ j = job /\ stack # <<>> => PathsUnderWay(j, Jobs[j].map, stack[1].pending)

\* Why the pass stopped.
PassError ==
  status = "error" /\ Settled(heap, Current.scope) =>
    Current.kind = "name" \/ \E t \in Templates(job) : Unknown(t, ScopeOf(heap, Current.scope))

PassInv == PassType /\ PassStack /\ PassFresh /\ PassNames /\ PassPaths /\ PassError

\* An entry of the document that is still in the map, alone.
Kept(f, d, k) == k \in DOMAIN f /\ f[k] = d[k] /\ \A x \in DOMAIN f : Extends(x, k) => x = k
Plain(v, attrSub) == v.kind = "string" /\ Left(v.text, attrSub) = {}

\* Of the entries in d a loop has made f: each is as wanted or still to be visited, and
\* what else is to be visited stays as it is.
Seen(f, d, pending, want, attrSub) ==
  /\ \A x \in DOMAIN f : \E k \in DOMAIN d : Extends(x, k)
  /\ \A k \in DOMAIN d : LinesFrom(f, k) \in want[k] \/ (k \in pending /\ Kept(f, d, k))
  /\ \A x \in pending : (x \in DOMAIN d /\ Kept(f, d, x)) \/ Plain(f[x], attrSub)
Wanted(d, h, j) == [k \in DOMAIN d |-> EntryOutcomes(k, d[k], h, ScopeOf(h, Jobs[j].scope), Jobs[j].attrSub)]
Visiting(h, m, j, pending) ==
  Seen(h[m], document.heap[m], pending, Wanted(document.heap[m], h, j), Jobs[j].attrSub)

\* A part whose result does not depend on the order.
Orderly(h, j) ==
  /\ IsLoop(j) /\ Jobs[j].into = Jobs[j].map /\ \A m \in MapsOf(j) : Apart(m)
  /\ Closed(h, ScopeOf(h, Jobs[j].scope), Jobs[j].attrSub)

\* A map inside the one that the part is in: not yet visited, being visited, or done.
HoldsMap(m, k) == document.heap[m][k].kind = "map"
Inside(loops, n) == Len(loops) > 1 /\ loops[2].map = n
InsideSeen(h, loops, j, n, toCome) ==
  /\ toCome => ~Inside(loops, n) /\ h[n] = document.heap[n]
  /\ ~toCome => Visiting(h, n, j, IF Inside(loops, n) THEN loops[2].pending ELSE {})
UnderWay(h, loops, j) ==
  /\ Visiting(h, Jobs[j].map, j, loops[1].pending)
  /\ \A k \in DOMAIN document.heap[Jobs[j].map] : HoldsMap(Jobs[j].map, k) =>
       InsideSeen(h, loops, j, document.heap[Jobs[j].map][k].ref, k \in loops[1].pending)

\* Every map of a part that is done, and what is done of the part under way.
OrderAt(h, loops, i, j) ==
  Orderly(h, j) =>
    /\ j < i => \A m \in MapsOf(j) : RewrittenAgain(m) \/ Visiting(h, m, j, {})
    /\ j = i /\ loops # <<>> => UnderWay(h, loops, j)
PassOrder == \A j \in DOMAIN Jobs : OrderAt(heap, stack, job, j)

(***************************************************************************)
(* The parts of a payload                                                  *)
(***************************************************************************)
Scopes == 0 .. Len(Parts.actions)
Job == {r \in [kind : {"map"}, map : Place, into : Place, attrSub : BOOLEAN, scope : {0}] : r.into = r.map}
       \cup [kind : {"name"}, ds : Place, scope : Scopes]
       \cup [kind : {"paths"}, map : Place, into : Place, attrSub : {TRUE}, scope : Scopes]
\* The parts that see the attributes of one level.
JobsIn(scope) == {r \in Job : r.scope = scope /\ (r.kind # "name" => r.attrSub = TRUE)}

\* The kinds of parts.
LEMMA JobMeans ==
  ASSUME NEW r \in Job
  PROVE  /\ r.kind \in {"map", "name", "paths"}
         /\ r.kind = "map" => r.into = r.map /\ r.scope = 0
         /\ r.kind # "name" => r.map \in Place /\ r.into \in Place /\ r.attrSub \in BOOLEAN
         /\ r.kind = "paths" => r.attrSub = TRUE
         /\ r.kind = "name" => r.ds \in Place
<1>1. CASE r \in {x \in [kind : {"map"}, map : Place, into : Place, attrSub : BOOLEAN, scope : {0}] : x.into = x.map}
  BY <1>1
<1>2. CASE r \in [kind : {"name"}, ds : Place, scope : Scopes]
  BY <1>2
<1>3. CASE r \in [kind : {"paths"}, map : Place, into : Place, attrSub : {TRUE}, scope : Scopes]
  BY <1>3
<1>. QED BY <1>1, <1>2, <1>3 DEF Job

\* The maps of attributes and parameters, the names and the paths are parts.
LEMMA JobMade ==
  ASSUME NEW scope \in Scopes
  PROVE  /\ \A m \in Place, b \in BOOLEAN :
              MapJob(m, b) \in Job /\ MapJob(m, b).scope = 0 /\ MapJob(m, b).attrSub = b /\ MapJob(m, b).kind = "map"
         /\ \A ds \in Place : NameJob(ds, scope) \in JobsIn(scope)
         /\ \A m \in Place, n \in Place : PathJob(m, n, scope) \in JobsIn(scope)
<1>1. ASSUME NEW m \in Place, NEW b \in BOOLEAN
      PROVE  MapJob(m, b) \in Job /\ MapJob(m, b).scope = 0 /\ MapJob(m, b).attrSub = b /\ MapJob(m, b).kind = "map"
  BY DEF MapJob, Job
<1>2. ASSUME NEW ds \in Place PROVE NameJob(ds, scope) \in JobsIn(scope)
  BY DEF NameJob, Job, JobsIn
<1>3. ASSUME NEW m \in Place, NEW n \in Place PROVE PathJob(m, n, scope) \in JobsIn(scope)
  BY DEF PathJob, Job, JobsIn
<1>. QED BY <1>1, <1>2, <1>3

\* Three elements.
LEMMA Triple ==
  ASSUME NEW C, NEW x \in C, NEW y \in C, NEW z \in C
  PROVE  <<x, y, z>> \in Seq(C)
OBVIOUS

\* The parts of the data sources of one level.
LEMMA SourceJobsMean ==
  ASSUME NEW list \in Seq(Source), NEW scope \in Scopes
  PROVE  SourceJobs(list, scope) \in Seq(JobsIn(scope))
<1> DEFINE part(i) == <<NameJob(list[i].id, scope), PathJob(list[i].paths, list[i].paths, scope),
                        PathJob(list[i].dataPaths, list[i].paths, scope)>>
           parts == [i \in DOMAIN list |-> part(i)]
<1>1. Len(list) \in Nat /\ DOMAIN list = 1 .. Len(list) /\ \A i \in 1 .. Len(list) : list[i] \in Source
  BY RangeMeans
<1>2. ASSUME NEW i \in 1 .. Len(list) PROVE part(i) \in Seq(JobsIn(scope))
  <2>1. list[i].id \in Place /\ list[i].paths \in Place /\ list[i].dataPaths \in Place
    BY <1>1 DEF Source
  <2>. QED BY <2>1, JobMade, Triple
<1>3. parts \in Seq(Seq(JobsIn(scope)))
  <2> HIDE DEF part
  <2>. QED BY <1>1, <1>2
<1>. QED BY <1>3, FlattenRange DEF SourceJobs

\* One sequence after another.
LEMMA Joined ==
  ASSUME NEW C, NEW x \in Seq(C), NEW y \in Seq(C)
  PROVE  /\ x \o y \in Seq(C) /\ Len(x) \in Nat /\ Len(y) \in Nat /\ Len(x \o y) = Len(x) + Len(y)
         /\ \A p \in 1 .. Len(x) : (x \o y)[p] = x[p]
         /\ \A p \in 1 .. Len(y) : (x \o y)[Len(x) + p] = y[p]
<1>1. Len(x) \in Nat /\ Len(y) \in Nat
  OBVIOUS
<1>2. /\ x \o y \in Seq(C) /\ Len(x \o y) = Len(x) + Len(y)
      /\ \A i \in 1 .. Len(x) + Len(y) : (x \o y)[i] = IF i <= Len(x) THEN x[i] ELSE y[i - Len(x)]
  BY ConcatProperties
<1>3. ASSUME NEW p \in 1 .. Len(x) PROVE (x \o y)[p] = x[p]
  <2>1. p \in 1 .. Len(x) + Len(y) /\ p <= Len(x)
    BY <1>1
  <2>. QED BY <1>2, <2>1
<1>4. ASSUME NEW p \in 1 .. Len(y) PROVE (x \o y)[Len(x) + p] = y[p]
  <2>1. Len(x) + p \in 1 .. Len(x) + Len(y) /\ ~(Len(x) + p <= Len(x)) /\ (Len(x) + p) - Len(x) = p
    BY <1>1
  <2>. QED BY <1>2, <2>1
<1>. QED BY <1>1, <1>2, <1>3, <1>4

\* An element before a sequence.
LEMMA JoinedAfter ==
  ASSUME NEW C, NEW c \in C, NEW D, D \subseteq C, NEW y \in Seq(D)
  PROVE  /\ <<c>> \o y \in Seq(C) /\ Len(y) \in Nat /\ Len(<<c>> \o y) = 1 + Len(y) /\ (<<c>> \o y)[1] = c
         /\ \A p \in 1 .. 1 + Len(y) : p > 1 => (<<c>> \o y)[p] \in D
<1> DEFINE x == <<c>>
<1>1. x \in Seq(C) /\ Len(x) = 1 /\ x[1] = c
  BY Single
<1>2. y \in Seq(C) /\ Len(y) \in Nat /\ \A p \in 1 .. Len(y) : y[p] \in D
  BY RangeMeans
<1> HIDE DEF x
<1>3. /\ x \o y \in Seq(C) /\ Len(x \o y) = Len(x) + Len(y)
      /\ \A p \in 1 .. Len(x) : (x \o y)[p] = x[p]
      /\ \A p \in 1 .. Len(y) : (x \o y)[Len(x) + p] = y[p]
  <2>1. x \in Seq(C) /\ y \in Seq(C)
    BY <1>1, <1>2
  <2>. QED BY <2>1, Joined
<1>4. (x \o y)[1] = c
  <2>1. 1 \in 1 .. Len(x)
    BY <1>1
  <2>. QED BY <1>1, <1>3, <2>1
<1>5. ASSUME NEW p \in 1 .. 1 + Len(y), p > 1 PROVE (x \o y)[p] \in D
  <2>1. p - 1 \in 1 .. Len(y) /\ Len(x) + (p - 1) = p
    BY <1>1, <1>2, <1>5
  <2>. QED BY <1>2, <1>3, <2>1
<1>. QED BY <1>1, <1>2, <1>3, <1>4, <1>5 DEF x

\* The parts of an action: its attributes first.
LEMMA ActionJobsMean ==
  ASSUME NEW i \in 1 .. Len(Parts.actions)
  PROVE  /\ ActionJobs(i) \in Seq(Job) /\ Len(ActionJobs(i)) \in Nat \ {0}
         /\ Parts.actions[i].attributes \in Place
         /\ ActionJobs(i)[1] = MapJob(Parts.actions[i].attributes, TRUE)
         /\ \A p \in 1 .. Len(ActionJobs(i)) : p > 1 => ActionJobs(i)[p] \in JobsIn(i)
<1> DEFINE a == Parts.actions[i]
           c == MapJob(a.attributes, TRUE)
           x == SourceJobs(a.inputs, i)
           y == SourceJobs(a.outputs, i)
<1>1. a \in Level /\ i \in Scopes
  <2>1. Parts.actions \in Seq(Level) /\ Len(Parts.actions) \in Nat
    BY PartsAssumption
  <2>. QED BY <2>1, RangeMeans DEF Scopes
<1>2. a.attributes \in Place /\ a.inputs \in Seq(Source) /\ a.outputs \in Seq(Source)
  BY <1>1 DEF Level
<1>3. c \in Job
  BY <1>1, <1>2, JobMade
<1>4. x \in Seq(JobsIn(i)) /\ y \in Seq(JobsIn(i)) /\ JobsIn(i) \subseteq Job
  BY <1>1, <1>2, SourceJobsMean DEF JobsIn
<1>5. ActionJobs(i) = (<<c>> \o x) \o y
  BY DEF ActionJobs
<1> HIDE DEF c, x, y
<1>6. <<c>> \in Seq(Job) /\ x \in Seq(Job) /\ y \in Seq(Job) /\ x \o y \in Seq(JobsIn(i))
  BY <1>3, <1>4, Single, Joined
<1>7. ActionJobs(i) = <<c>> \o (x \o y)
  BY <1>5, <1>6, ConcatAssociative
<1> DEFINE z == x \o y
<1> HIDE DEF z
<1>8. /\ <<c>> \o z \in Seq(Job) /\ Len(z) \in Nat /\ Len(<<c>> \o z) = 1 + Len(z) /\ (<<c>> \o z)[1] = c
      /\ \A p \in 1 .. 1 + Len(z) : p > 1 => (<<c>> \o z)[p] \in JobsIn(i)
  BY <1>3, <1>4, <1>6, JoinedAfter DEF z
<1>9. Len(<<c>> \o z) \in Nat \ {0}
  BY <1>8
<1>. QED BY <1>2, <1>7, <1>8, <1>9 DEF c, z

\* The first part is the payload's attributes, which may not refer to attributes. All
\* others may, and an action's attributes come before its data sources.
LEMMA JobsMean ==
  /\ Jobs \in Seq(Job) /\ Len(Jobs) \in Nat \ {0} /\ DOMAIN Jobs = 1 .. Len(Jobs)
  /\ Parts.attributes \in Place /\ Jobs[1] = MapJob(Parts.attributes, FALSE)
  /\ \A j \in 1 .. Len(Jobs) : j > 1 /\ Jobs[j].kind # "name" => Jobs[j].attrSub = TRUE
  /\ \A j \in 1 .. Len(Jobs) : Jobs[j].scope # 0 =>
       \E i \in 1 .. Len(Jobs) : i < j /\ Jobs[i] = MapJob(Parts.actions[Jobs[j].scope].attributes, TRUE)
<1> DEFINE f == MapJob(Parts.attributes, FALSE)
           b == [i \in DOMAIN Parts.stores |-> MapJob(Parts.stores[i], TRUE)]
           c == SourceJobs(Parts.inputs, 0)
           d == SourceJobs(Parts.outputs, 0)
           parts == [i \in DOMAIN Parts.actions |-> ActionJobs(i)]
           e == FlattenSeq(parts)
           t == (b \o c) \o d
           u == <<f>> \o t
<1>1. /\ Parts.attributes \in Place /\ Parts.stores \in Seq(Place)
      /\ Parts.inputs \in Seq(Source) /\ Parts.outputs \in Seq(Source) /\ Parts.actions \in Seq(Level)
  BY PartsAssumption
<1>2. 0 \in Scopes /\ JobsIn(0) \subseteq Job
  BY <1>1 DEF Scopes, JobsIn
<1>3. f \in Job /\ f.scope = 0
  BY <1>1, <1>2, JobMade
<1>4. b \in Seq(JobsIn(0))
  <2>1. /\ DOMAIN Parts.stores = 1 .. Len(Parts.stores) /\ Len(Parts.stores) \in Nat
        /\ \A i \in 1 .. Len(Parts.stores) : Parts.stores[i] \in Place
    BY <1>1, RangeMeans
  <2>2. \A i \in 1 .. Len(Parts.stores) : MapJob(Parts.stores[i], TRUE) \in JobsIn(0)
    BY <1>2, <2>1, JobMade DEF JobsIn
  <2>3. b \in [1 .. Len(Parts.stores) -> JobsIn(0)]
    BY <2>1, <2>2
  <2> HIDE DEF b
  <2>. QED BY <2>1, <2>3, SeqDef
<1>5. c \in Seq(JobsIn(0)) /\ d \in Seq(JobsIn(0))
  BY <1>1, <1>2, SourceJobsMean
<1>6. /\ parts \in Seq(Seq(Job)) /\ Len(parts) = Len(Parts.actions)
      /\ \A i \in 1 .. Len(parts) : parts[i] = ActionJobs(i) /\ i \in 1 .. Len(Parts.actions)
  <2>1. DOMAIN Parts.actions = 1 .. Len(Parts.actions) /\ Len(Parts.actions) \in Nat
    BY <1>1, RangeMeans
  <2>2. \A i \in 1 .. Len(Parts.actions) : ActionJobs(i) \in Seq(Job)
    BY ActionJobsMean
  <2>. QED BY <2>1, <2>2
<1> HIDE DEF parts
<1>7. /\ e \in Seq(Job)
      /\ \A i \in 1 .. Len(parts) : \A p \in 1 .. Len(parts[i]) :
           Start(parts, i) + p \in 1 .. Len(e) /\ e[Start(parts, i) + p] = parts[i][p]
      /\ \A q \in 1 .. Len(e) : \E i \in 1 .. Len(parts) : \E p \in 1 .. Len(parts[i]) :
           q = Start(parts, i) + p /\ e[q] = parts[i][p]
      /\ \A i \in 1 .. Len(parts) : Start(parts, i) \in Nat
  <2>1. \A i \in 1 .. Len(parts) : Start(parts, i) \in Nat
    BY <1>6, FlattenCut
  <2>. QED BY <1>6, <2>1, FlattenParts
<1>8. Jobs = (((<<f>> \o b) \o c) \o d) \o e
  BY DEF Jobs, parts
<1> HIDE DEF f, b, c, d, e
<1>9. <<f>> \in Seq(Job) /\ b \in Seq(Job) /\ c \in Seq(Job) /\ d \in Seq(Job) /\ b \o c \in Seq(JobsIn(0))
  BY <1>2, <1>3, <1>4, <1>5, Single, Joined
<1>10. t \in Seq(JobsIn(0))
  <2> HIDE DEF t
  <2>. QED BY <1>5, <1>9, Joined DEF t
<1>11. Jobs = u \o e
  <2>1. b \o c \in Seq(Job)
    BY <1>2, <1>9
  <2>2. ((<<f>> \o b) \o c) = <<f>> \o (b \o c)
    BY <1>9, ConcatAssociative
  <2>3. (<<f>> \o (b \o c)) \o d = <<f>> \o ((b \o c) \o d)
    BY <1>9, <2>1, ConcatAssociative
  <2>. QED BY <1>8, <2>2, <2>3
<1> HIDE DEF t
<1>12. /\ u \in Seq(Job) /\ Len(t) \in Nat /\ Len(u) = 1 + Len(t) /\ u[1] = f
       /\ \A p \in 1 .. 1 + Len(t) : p > 1 => u[p] \in JobsIn(0)
  BY <1>2, <1>3, <1>10, JoinedAfter
<1> HIDE DEF u
<1>13. /\ Jobs \in Seq(Job) /\ Len(u) \in Nat /\ Len(e) \in Nat /\ Len(Jobs) = Len(u) + Len(e)
       /\ \A p \in 1 .. Len(u) : Jobs[p] = u[p]
       /\ \A p \in 1 .. Len(e) : Jobs[Len(u) + p] = e[p]
  <2>1. u \in Seq(Job) /\ e \in Seq(Job)
    BY <1>7, <1>12
  <2>2. /\ u \o e \in Seq(Job) /\ Len(u) \in Nat /\ Len(e) \in Nat /\ Len(u \o e) = Len(u) + Len(e)
        /\ \A p \in 1 .. Len(u) : (u \o e)[p] = u[p]
        /\ \A p \in 1 .. Len(e) : (u \o e)[Len(u) + p] = e[p]
    BY <2>1, Joined
  <2>. QED BY <1>11, <2>2
<1>14. Len(u) >= 1 /\ 1 \in 1 .. Len(u)
  BY <1>12
<1>15. Jobs[1] = f /\ Len(Jobs) \in Nat \ {0} /\ DOMAIN Jobs = 1 .. Len(Jobs)
  <2>1. Len(Jobs) \in Nat \ {0}
    BY <1>13, <1>14
  <2>. QED BY <1>12, <1>13, <1>14, <2>1, RangeMeans
<1>16. ASSUME NEW j \in 1 .. Len(Jobs), j > 1
       PROVE  /\ Jobs[j].kind # "name" => Jobs[j].attrSub = TRUE
              /\ Jobs[j].scope # 0 =>
                   \E i \in 1 .. Len(Jobs) : i < j /\ Jobs[i] = MapJob(Parts.actions[Jobs[j].scope].attributes, TRUE)
  <2>1. CASE j <= Len(u)
    <3>1. j \in 1 .. Len(u) /\ j \in 1 .. 1 + Len(t)
      BY <1>12, <1>13, <2>1
    <3>2. Jobs[j] \in JobsIn(0)
      BY <1>12, <1>13, <1>16, <3>1
    <3>. QED BY <3>2 DEF JobsIn
  <2>2. CASE ~(j <= Len(u))
    <3> DEFINE r == j - Len(u)
    <3>1. r \in 1 .. Len(e) /\ j = Len(u) + r
      BY <1>13, <2>2
    <3> HIDE DEF r
    <3>2. PICK i \in 1 .. Len(parts) : \E p \in 1 .. Len(parts[i]) : r = Start(parts, i) + p /\ e[r] = parts[i][p]
      BY <1>7, <3>1
    <3>3. PICK p \in 1 .. Len(parts[i]) : r = Start(parts, i) + p /\ e[r] = parts[i][p]
      BY <3>2
    <3>4. parts[i] = ActionJobs(i) /\ i \in 1 .. Len(Parts.actions) /\ Start(parts, i) \in Nat
      BY <1>6, <1>7
    <3>5. /\ Len(ActionJobs(i)) \in Nat \ {0} /\ Parts.actions[i].attributes \in Place
          /\ ActionJobs(i)[1] = MapJob(Parts.actions[i].attributes, TRUE)
          /\ \A x \in 1 .. Len(ActionJobs(i)) : x > 1 => ActionJobs(i)[x] \in JobsIn(i)
      BY <3>4, ActionJobsMean
    <3>6. Jobs[j] = ActionJobs(i)[p] /\ p \in 1 .. Len(ActionJobs(i)) /\ p >= 1
      BY <1>13, <3>1, <3>3, <3>4, <3>5
    <3>7. CASE p = 1
      <4>1. /\ MapJob(Parts.actions[i].attributes, TRUE).scope = 0
            /\ MapJob(Parts.actions[i].attributes, TRUE).attrSub = TRUE
        BY <1>2, <3>5, JobMade
      <4>. QED BY <3>5, <3>6, <3>7, <4>1
    <3>8. CASE p # 1
      <4>1. Jobs[j].scope = i /\ (Jobs[j].kind # "name" => Jobs[j].attrSub = TRUE)
        <5>1. p > 1
          BY <3>5, <3>6, <3>8
        <5>. QED BY <3>5, <3>6, <5>1 DEF JobsIn
      <4> DEFINE s == Start(parts, i) + 1
                 q == Len(u) + s
      <4>2. s \in 1 .. Len(e) /\ e[s] = ActionJobs(i)[1]
        <5>1. 1 \in 1 .. Len(parts[i])
          BY <3>4, <3>5
        <5>2. s \in 1 .. Len(e) /\ e[s] = parts[i][1]
          BY <1>7, <5>1
        <5>. QED BY <3>4, <5>2
      <4>3. q \in 1 .. Len(Jobs) /\ q < j
        <5>1. s < r /\ s \in Nat /\ s > 0
          BY <3>3, <3>4, <3>5, <3>6, <3>8
        <5> HIDE DEF s
        <5>. QED BY <1>13, <3>1, <4>2, <5>1
      <4>4. Jobs[q] = MapJob(Parts.actions[i].attributes, TRUE)
        <5> HIDE DEF s
        <5>. QED BY <1>13, <3>5, <4>2
      <4> HIDE DEF q
      <4>. QED BY <4>1, <4>3, <4>4
    <3>. QED BY <3>7, <3>8
  <2>. QED BY <2>1, <2>2
<1>17. \A j \in 1 .. Len(Jobs) : j > 1 \/ j = 1
  BY <1>15
<1>. QED BY <1>1, <1>3, <1>13, <1>15, <1>16, <1>17 DEF f

(***************************************************************************)
(* What the invariant says of a state                                      *)
(***************************************************************************)
\* The parts of a payload are parts.
LEMMA JobAt ==
  ASSUME NEW j \in DOMAIN Jobs
  PROVE  /\ Jobs[j] \in Job /\ j \in 1 .. Len(Jobs) /\ (IsLoop(j) <=> Jobs[j].kind # "name")
         /\ Jobs[j].kind \in {"map", "name", "paths"}
         /\ Jobs[j].kind = "map" => Jobs[j].into = Jobs[j].map /\ Jobs[j].scope = 0
         /\ Jobs[j].kind # "name" => Jobs[j].attrSub \in BOOLEAN
         /\ Jobs[j].kind = "paths" => Jobs[j].attrSub = TRUE
<1>1. Jobs \in Seq(Job) /\ DOMAIN Jobs = 1 .. Len(Jobs)
  BY JobsMean
<1>2. Jobs[j] \in Job /\ j \in 1 .. Len(Jobs)
  BY <1>1, RangeMeans
<1>. QED BY <1>2, JobMeans DEF IsLoop

\* The maps of a document: nested ones have one place, which is no part's.
LEMMA DocumentMeans ==
  ASSUME document \in Documents
  PROVE  /\ \A m \in DOMAIN document.heap : ValidMap(document.heap[m])
         /\ \A m \in DOMAIN document.heap : \A n : Child(document, m, n) =>
              /\ n \in DOMAIN document.heap
              /\ \A l \in DOMAIN document.heap : Child(document, l, n) => l = m
              /\ \A j \in DOMAIN Jobs : IsLoop(j) => n # Jobs[j].map /\ n # Jobs[j].into
         /\ \A m \in DOMAIN document.heap : \A k, l \in DOMAIN document.heap[m] :
              /\ document.heap[m][k].kind = "map" /\ document.heap[m][l].kind = "map"
              /\ document.heap[m][k].ref = document.heap[m][l].ref
              => k = l
         /\ \A j \in DOMAIN Jobs : IsLoop(j) => Jobs[j].map \in DOMAIN document.heap /\ Jobs[j].into \in DOMAIN document.heap
         /\ \A j \in DOMAIN Jobs : Jobs[j].kind = "paths" =>
              \A m \in {Jobs[j].map, Jobs[j].into} : \A k \in DOMAIN document.heap[m] : document.heap[m][k].kind = "string"
         /\ \A j \in DOMAIN Jobs : ~IsLoop(j) => Jobs[j].ds \in DOMAIN document.names /\ document.names[Jobs[j].ds] \in Texts
<1> DEFINE d == document
           Nested(m, k) == k \in DOMAIN d.heap[m] /\ d.heap[m][k].kind = "map"
<1>1. /\ \A m \in DOMAIN d.heap :
           /\ IsFiniteSet(DOMAIN d.heap[m])
           /\ \A k \in DOMAIN d.heap[m] : k \in Keys /\ d.heap[m][k] \in Value
           /\ \A k \in DOMAIN d.heap[m] : Nested(m, k) =>
                /\ d.heap[m][k].ref \in DOMAIN d.heap
                /\ \A n \in DOMAIN d.heap : \A l \in DOMAIN d.heap[n] :
                     Nested(n, l) /\ d.heap[n][l].ref = d.heap[m][k].ref => n = m /\ l = k
                /\ \A j \in DOMAIN Jobs : IsLoop(j) => d.heap[m][k].ref \notin {Jobs[j].map, Jobs[j].into}
      /\ \A j \in DOMAIN Jobs :
           IF ~IsLoop(j) THEN Jobs[j].ds \in DOMAIN d.names /\ d.names[Jobs[j].ds] \in Texts
           ELSE /\ {Jobs[j].map, Jobs[j].into} \subseteq DOMAIN d.heap
                /\ Jobs[j].kind = "paths" =>
                     \A m \in {Jobs[j].map, Jobs[j].into} : \A k \in DOMAIN d.heap[m] : d.heap[m][k].kind = "string"
  BY DocumentsAssumption
<1>2. \A m \in DOMAIN d.heap : ValidMap(d.heap[m])
  BY <1>1 DEF ValidMap
<1>3. ASSUME NEW m \in DOMAIN d.heap, NEW n, Child(document, m, n)
      PROVE  /\ n \in DOMAIN d.heap
             /\ \A l \in DOMAIN d.heap : Child(document, l, n) => l = m
             /\ \A j \in DOMAIN Jobs : IsLoop(j) => n # Jobs[j].map /\ n # Jobs[j].into
  <2>1. PICK k \in DOMAIN d.heap[m] : Nested(m, k) /\ d.heap[m][k].ref = n
    BY <1>3 DEF Child
  <2>2. ASSUME NEW l \in DOMAIN d.heap, Child(document, l, n) PROVE l = m
    <3>1. PICK x \in DOMAIN d.heap[l] : Nested(l, x) /\ d.heap[l][x].ref = n
      BY <2>2 DEF Child
    <3>. QED BY <1>1, <2>1, <3>1
  <2>. QED BY <1>1, <2>1, <2>2
<1>4. ASSUME NEW m \in DOMAIN d.heap, NEW k \in DOMAIN d.heap[m], NEW l \in DOMAIN d.heap[m],
             d.heap[m][k].kind = "map", d.heap[m][l].kind = "map", d.heap[m][k].ref = d.heap[m][l].ref
      PROVE  k = l
  BY <1>1, <1>4
<1>5. ASSUME NEW j \in DOMAIN Jobs, Jobs[j].kind = "paths" PROVE IsLoop(j)
  BY <1>5 DEF IsLoop
<1>6. \A j \in DOMAIN Jobs : IsLoop(j) => Jobs[j].map \in DOMAIN d.heap /\ Jobs[j].into \in DOMAIN d.heap
  BY <1>1
<1>7. \A j \in DOMAIN Jobs : Jobs[j].kind = "paths" =>
        \A m \in {Jobs[j].map, Jobs[j].into} : \A k \in DOMAIN d.heap[m] : d.heap[m][k].kind = "string"
  BY <1>1, <1>5
<1>8. \A j \in DOMAIN Jobs : ~IsLoop(j) => Jobs[j].ds \in DOMAIN d.names /\ d.names[Jobs[j].ds] \in Texts
  BY <1>1
<1>. QED BY <1>2, <1>3, <1>4, <1>6, <1>7, <1>8

\* Where the attributes are that a part sees.
AttributesOf(s) == {Parts.attributes} \cup (IF s = 0 THEN {} ELSE {Parts.actions[s].attributes})

\* They are rewritten by earlier parts.
LEMMA AttributesBefore ==
  ASSUME NEW j \in DOMAIN Jobs, NEW m \in AttributesOf(Jobs[j].scope)
  PROVE  \E i \in DOMAIN Jobs : /\ IsLoop(i) /\ Jobs[i].map = m /\ Jobs[i].kind = "map" /\ Jobs[i].into = m
                                /\ (i < j \/ (i = j /\ j = 1))
<1>1. /\ Len(Jobs) \in Nat \ {0} /\ DOMAIN Jobs = 1 .. Len(Jobs) /\ j \in 1 .. Len(Jobs)
      /\ Jobs[1] = MapJob(Parts.attributes, FALSE)
      /\ Jobs[j].scope # 0 =>
           \E i \in 1 .. Len(Jobs) : i < j /\ Jobs[i] = MapJob(Parts.actions[Jobs[j].scope].attributes, TRUE)
  BY JobsMean
<1>2. CASE m = Parts.attributes
  <2>1. 1 \in DOMAIN Jobs /\ (1 < j \/ 1 = j)
    BY <1>1
  <2>2. Jobs[1].map = m /\ Jobs[1].kind = "map" /\ Jobs[1].into = m
    BY <1>1, <1>2 DEF MapJob
  <2>. QED BY <2>1, <2>2 DEF IsLoop
<1>3. CASE Jobs[j].scope # 0 /\ m = Parts.actions[Jobs[j].scope].attributes
  <2>1. PICK i \in 1 .. Len(Jobs) : i < j /\ Jobs[i] = MapJob(Parts.actions[Jobs[j].scope].attributes, TRUE)
    BY <1>1, <1>3
  <2>2. Jobs[i].map = m /\ Jobs[i].kind = "map" /\ Jobs[i].into = m
    BY <1>3, <2>1 DEF MapJob
  <2>. QED BY <1>1, <2>1, <2>2 DEF IsLoop
<1>. QED BY <1>2, <1>3 DEF AttributesOf

\* An attribute comes from one of these maps.
LEMMA ScopeEntries ==
  ASSUME NEW h, NEW s
  PROVE  \A k \in DOMAIN ScopeOf(h, s) : \E m \in AttributesOf(s) : k \in DOMAIN h[m] /\ ScopeOf(h, s)[k] = h[m][k]
<1>1. CASE s = 0
  <2>1. ScopeOf(h, s) = h[Parts.attributes]
    BY <1>1 DEF ScopeOf
  <2>. QED BY <2>1 DEF AttributesOf
<1>2. CASE s # 0
  <2> DEFINE f == h[Parts.attributes]
             g == h[Parts.actions[s].attributes]
  <2>1. ScopeOf(h, s) = Overlay(f, g)
    BY <1>2 DEF ScopeOf
  <2>2. Overlay(f, g) = [k \in DOMAIN f \cup DOMAIN g |-> IF k \in DOMAIN g THEN g[k] ELSE f[k]]
    BY DEF Overlay
  <2> HIDE DEF f, g
  <2>3. ASSUME NEW k \in DOMAIN Overlay(f, g)
        PROVE  \/ k \in DOMAIN g /\ Overlay(f, g)[k] = g[k]
               \/ k \in DOMAIN f /\ Overlay(f, g)[k] = f[k]
    BY <2>2
  <2>. QED BY <1>2, <2>1, <2>3 DEF f, g, AttributesOf
<1>. QED BY <1>1, <1>2

\* What a part sees is made of values, and of maps that are in the heap.
LEMMA ScopeMeans ==
  ASSUME PassType, NEW j \in DOMAIN Jobs
  PROVE  ValidScope(heap, ScopeOf(heap, Jobs[j].scope))
<1>1. /\ document \in Documents /\ DOMAIN heap = DOMAIN document.heap /\ \A m \in DOMAIN heap : ValidMap(heap[m])
      /\ \A m \in DOMAIN heap : \A k \in DOMAIN heap[m] :
           heap[m][k].kind = "map" => k \in DOMAIN document.heap[m] /\ heap[m][k] = document.heap[m][k]
  BY DEF PassType
<1> DEFINE scope == ScopeOf(heap, Jobs[j].scope)
<1> SUFFICES ASSUME NEW k \in DOMAIN scope
             PROVE  scope[k] \in Value /\ (scope[k].kind = "map" => ValidMap(heap[scope[k].ref]))
  BY DEF ValidScope
<1>2. PICK m \in AttributesOf(Jobs[j].scope) : k \in DOMAIN heap[m] /\ scope[k] = heap[m][k]
  BY ScopeEntries
<1>3. m \in DOMAIN heap
  <2>1. PICK i \in DOMAIN Jobs : IsLoop(i) /\ Jobs[i].map = m
    BY AttributesBefore
  <2>2. Jobs[i].map \in DOMAIN document.heap
    BY <1>1, <2>1, DocumentMeans
  <2>. QED BY <1>1, <2>1, <2>2
<1>4. scope[k] \in Value
  BY <1>1, <1>2, <1>3 DEF ValidMap
<1>5. ASSUME scope[k].kind = "map" PROVE ValidMap(heap[scope[k].ref])
  <2>1. k \in DOMAIN document.heap[m] /\ heap[m][k] = document.heap[m][k]
    BY <1>1, <1>2, <1>3, <1>5
  <2>2. Child(document, m, scope[k].ref)
    BY <1>2, <1>5, <2>1 DEF Child
  <2>. QED BY <1>1, <1>3, <2>2, DocumentMeans
<1>. QED BY <1>4, <1>5

\* The innermost loop is the last one.
LEMMA LastMeans ==
  ASSUME NEW C, NEW s \in Seq(C), s # <<>>
  PROVE  /\ Len(s) \in Nat \ {0} /\ Last(s) = s[Len(s)] /\ Last(s) \in C
         /\ Front(s) \in Seq(C) /\ Len(Front(s)) = Len(s) - 1
         /\ \A i \in 1 .. Len(s) - 1 : Front(s)[i] = s[i]
         /\ \A x \in C : LET t == Append(Front(s), x) IN
              /\ t \in Seq(C) /\ Len(t) = Len(s) /\ t[Len(s)] = x /\ t # <<>>
              /\ \A i \in 1 .. Len(s) : i # Len(s) => t[i] = s[i]
<1>1. Len(s) \in Nat \ {0} /\ \A i \in 1 .. Len(s) : s[i] \in C
  BY EmptySeq, RangeMeans
<1>2. Last(s) = s[Len(s)] /\ Last(s) \in C
  BY <1>1 DEF Last
<1> DEFINE f == Front(s)
           n == Len(s) - 1
<1>3. n \in Nat /\ 1 .. n \subseteq 1 .. Len(s) /\ Len(s) = n + 1
  BY <1>1
<1>4. f = SubSeq(s, 1, n)
  BY DEF Front
<1>5. f \in Seq(C) /\ Len(f) = n /\ \A i \in 1 .. n : f[i] = s[i]
  <2> HIDE DEF f, n
  <2>. QED BY <1>3, <1>4, SubSeqProperties
<1> HIDE DEF f
<1>6. ASSUME NEW x \in C
      PROVE  /\ Append(f, x) \in Seq(C) /\ Len(Append(f, x)) = Len(s) /\ Append(f, x)[Len(s)] = x /\ Append(f, x) # <<>>
             /\ \A i \in 1 .. Len(s) : i # Len(s) => Append(f, x)[i] = s[i]
  <2>1. /\ Append(f, x) \in Seq(C) /\ Len(Append(f, x)) = Len(f) + 1
        /\ Append(f, x)[Len(f) + 1] = x /\ \A i \in 1 .. Len(f) : Append(f, x)[i] = f[i]
    BY <1>5, AppendProperties
  <2>2. Append(f, x) # <<>>
    BY <1>3, <1>5, <2>1
  <2> HIDE DEF n
  <2>. QED BY <1>3, <1>5, <2>1, <2>2
<1>. QED BY <1>1, <1>2, <1>5, <1>6 DEF f

(***************************************************************************)
(* Slices                                                                  *)
(***************************************************************************)
\* An order of a finite set has all its elements.
LEMMA OrderMeans ==
  ASSUME NEW S, IsFiniteSet(S), NEW s \in SetToSeqs(S)
  PROVE  s \in Seq(S) /\ RangeOf(s) = S
<1> DEFINE n == Cardinality(S)
           D == 1 .. n
<1>1. n \in Nat
  BY FS_CardinalityType
<1>2. s \in [D -> S] /\ \A i, j \in D : i # j => s[i] # s[j]
  BY DEF SetToSeqs
<1> HIDE DEF n
<1>3. s \in Injection(D, S)
  BY <1>2 DEF Injection, IsInjective
<1>4. Cardinality(D) = n
  BY <1>1, FS_Interval
<1>5. s \in Surjection(D, S)
  BY <1>3, <1>4, FS_Injection DEF n
<1>6. \A x \in S : \E i \in D : s[i] = x
  BY <1>5 DEF Surjection
<1>7. s \in Seq(S)
  BY <1>1, <1>2, SeqDef
<1>8. DOMAIN s = D
  BY <1>2
<1> HIDE DEF D
<1>. QED BY <1>2, <1>6, <1>7, <1>8 DEF RangeOf

\* A string of a slice becomes the lines of a result, in some order; other elements stay.
TextsOf(e, h, scope, attrSub) ==
  IF ~e.str THEN {<<e>>}
  ELSE UNION {{[i \in DOMAIN s |-> [str |-> TRUE, text |-> r.out[s[i]]]] : s \in SetToSeqs(DOMAIN r.out)} :
              r \in Expand(<<>>, e.text, h, scope, attrSub)}

\* The elements that come of one.
LEMMA TextsMean ==
  ASSUME NEW e \in Element, NEW h, NEW scope, ValidScope(h, scope), NEW attrSub \in BOOLEAN,
         NEW q \in TextsOf(e, h, scope, attrSub)
  PROVE  q \in Seq(Element)
<1>1. e.str \in BOOLEAN /\ e.text \in Texts /\ <<>> \in Keys
  BY EmptySeq DEF Element, Keys, Texts
<1>2. CASE ~e.str
  <2>1. q = <<e>>
    BY <1>2 DEF TextsOf
  <2>. QED BY <2>1, Single
<1>3. CASE e.str
  <2>1. PICK r \in Expand(<<>>, e.text, h, scope, attrSub) :
          q \in {[i \in DOMAIN s |-> [str |-> TRUE, text |-> r.out[s[i]]]] : s \in SetToSeqs(DOMAIN r.out)}
    BY <1>3 DEF TextsOf
  <2>0. r.out \in Outputs
    BY <1>1, ExpandMeans DEF Expansions
  <2>2. IsFiniteSet(DOMAIN r.out) /\ \A y \in DOMAIN r.out : r.out[y] \in Texts
    BY <2>0, OutputMeans
  <2>4. PICK s \in SetToSeqs(DOMAIN r.out) : q = [i \in DOMAIN s |-> [str |-> TRUE, text |-> r.out[s[i]]]]
    BY <2>1
  <2>5. s \in Seq(DOMAIN r.out) /\ RangeOf(s) = DOMAIN r.out
    BY <2>2, OrderMeans
  <2>6. /\ Len(s) \in Nat /\ DOMAIN s = 1 .. Len(s) /\ \A i \in 1 .. Len(s) : s[i] \in DOMAIN r.out
        /\ \A t : t \in RangeOf(s) <=> \E i \in 1 .. Len(s) : s[i] = t
    BY <2>5, RangeMeans
  <2>7. \A i \in 1 .. Len(s) : [str |-> TRUE, text |-> r.out[s[i]]] \in Element
    BY <2>2, <2>6 DEF Element
  <2>8. q \in [1 .. Len(s) -> Element]
    BY <2>4, <2>6, <2>7
  <2>. QED BY <2>6, <2>8, SeqDef
<1>. QED BY <1>1, <1>2, <1>3

\* What a slice becomes.
LEMMA SliceMeans ==
  ASSUME NEW elems \in Seq(Element), NEW h, NEW scope, ValidScope(h, scope), NEW attrSub \in BOOLEAN,
         NEW s \in SliceOutcomes(elems, h, scope, attrSub)
  PROVE  s \in Seq(Element)
<1> DEFINE T(i) == TextsOf(elems[i], h, scope, attrSub)
           Possible == [DOMAIN elems -> UNION {T(i) : i \in DOMAIN elems}]
           Chosen == {q \in Possible : \A i \in DOMAIN elems : q[i] \in T(i)}
<1>1. s \in {FlattenSeq(p) : p \in Chosen}
  BY Zenon DEF SliceOutcomes, TextsOf
<1>2. Len(elems) \in Nat /\ DOMAIN elems = 1 .. Len(elems) /\ \A i \in 1 .. Len(elems) : elems[i] \in Element
  BY RangeMeans
<1> HIDE DEF T
<1>3. PICK p \in Chosen : s = FlattenSeq(p)
  BY <1>1
<1>4. \A i \in 1 .. Len(elems) : p[i] \in T(i)
  BY <1>2, <1>3
<1>5. p \in Possible
  BY <1>3
<1>6. DOMAIN p = 1 .. Len(elems) /\ p = [i \in 1 .. Len(elems) |-> p[i]]
  BY <1>2, <1>5
<1> HIDE DEF Possible, Chosen
<1>7. ASSUME NEW i \in 1 .. Len(elems)
      PROVE  p[i] \in Seq(Element)
  BY <1>2, <1>4, TextsMean DEF T
<1>8. p \in [1 .. Len(elems) -> Seq(Element)]
  BY <1>6, <1>7
<1>9. p \in Seq(Seq(Element)) /\ Len(p) = Len(elems)
  <2>1. p \in Seq(Seq(Element))
    BY <1>2, <1>8, SeqDef
  <2>. QED BY <1>2, <1>6, <2>1, RangeMeans
<1>. QED BY <1>3, <1>9, FlattenRange

(***************************************************************************)
(* What a visit changes                                                    *)
(***************************************************************************)
\* Rewriting an entry of a map.
LEMMA RewriteMeans ==
  ASSUME NEW m \in DOMAIN heap, NEW k, NEW out, Rewrite(m, k, out)
  PROVE  /\ DOMAIN heap' = DOMAIN heap /\ \A n \in DOMAIN heap : n # m => heap'[n] = heap[n]
         /\ DOMAIN heap'[m] = (DOMAIN heap[m] \ {k}) \cup DOMAIN out
         /\ \A x \in DOMAIN out : heap'[m][x] = Text(out[x])
         /\ \A x \in DOMAIN heap[m] : x # k /\ x \notin DOMAIN out => heap'[m][x] = heap[m][x]
         /\ \E p : /\ Remaining(p) /\ Top.pending \ {k} \subseteq p
                   /\ IF m = Top.map THEN p \subseteq (Top.pending \ {k}) \cup (DOMAIN out \ (DOMAIN heap[m] \ {k}))
                      ELSE p = Top.pending \ {k}
<1> DEFINE rest == [x \in DOMAIN heap[m] \ {k} |-> heap[m][x]]
           lines == [x \in DOMAIN out |-> Text(out[x])]
           f == Overlay(rest, lines)
           added == DOMAIN out \ DOMAIN rest
<1>1. heap' = [heap EXCEPT ![m] = f]
  BY Zenon DEF Rewrite
<1>2. DOMAIN rest = DOMAIN heap[m] \ {k} /\ \A x \in DOMAIN heap[m] \ {k} : rest[x] = heap[m][x]
  OBVIOUS
<1>3. DOMAIN lines = DOMAIN out /\ \A x \in DOMAIN out : lines[x] = Text(out[x])
  OBVIOUS
<1>4. \/ m = Top.map /\ \E again \in SUBSET added : Remaining((Top.pending \ {k}) \cup again)
      \/ m # Top.map /\ Remaining(Top.pending \ {k})
  BY Zenon DEF Rewrite
<1> HIDE DEF rest, lines
<1>5. DOMAIN f = DOMAIN rest \cup DOMAIN lines /\ \A x \in DOMAIN f : f[x] = IF x \in DOMAIN lines THEN lines[x] ELSE rest[x]
  BY DEF Overlay
<1> HIDE DEF f
<1>6. DOMAIN heap' = DOMAIN heap /\ heap'[m] = f /\ \A n \in DOMAIN heap : n # m => heap'[n] = heap[n]
  BY <1>1
<1>7. CASE m = Top.map
  <2>1. PICK again \in SUBSET added : Remaining((Top.pending \ {k}) \cup again)
    BY <1>4, <1>7
  <2> DEFINE p == (Top.pending \ {k}) \cup again
  <2>2. p \subseteq (Top.pending \ {k}) \cup (DOMAIN out \ (DOMAIN heap[m] \ {k})) /\ Top.pending \ {k} \subseteq p
    BY <1>2, <2>1
  <2> HIDE DEF p
  <2>3. Remaining(p)
    BY <2>1 DEF p
  <2>. QED BY <1>2, <1>3, <1>5, <1>6, <1>7, <2>2, <2>3
<1>8. CASE m # Top.map
  <2>1. Remaining(Top.pending \ {k})
    BY <1>4, <1>8
  <2>. QED BY <1>2, <1>3, <1>5, <1>6, <1>8, <2>1
<1>. QED BY <1>7, <1>8

\* A visit rewrites one map with valid values, adds no map to it, and leaves keys
\* of the innermost loop's map to be visited.
Changes(m, p) ==
  /\ DOMAIN heap' = DOMAIN heap /\ \A n \in DOMAIN heap : n # m => heap'[n] = heap[n]
  /\ ValidMap(heap'[m])
  /\ \A x \in DOMAIN heap'[m] : heap'[m][x].kind = "map" => x \in DOMAIN heap[m] /\ heap'[m][x] = heap[m][x]
  /\ (\A x \in DOMAIN heap[m] : heap[m][x].kind = "string") => \A x \in DOMAIN heap'[m] : heap'[m][x].kind = "string"
  /\ p \subseteq DOMAIN heap'[Top.map] /\ Remaining(p)
  /\ UNCHANGED <<names, job, status>>

\* The innermost loop, and its part.
LEMMA TopMeans ==
  ASSUME PassType, PassStack, stack # <<>>
  PROVE  /\ Top \in [map : DOMAIN heap, pending : SUBSET Keys] /\ Top = stack[Len(stack)]
         /\ Top.map \in DOMAIN heap /\ Top.pending \subseteq Keys /\ Top.pending \subseteq DOMAIN heap[Top.map]
         /\ job \in DOMAIN Jobs /\ IsLoop(job) /\ Current = Jobs[job] /\ stack[1].map = Current.map
         /\ Current.map \in DOMAIN heap /\ Current.into \in DOMAIN heap
         /\ Current.kind = "paths" => Len(stack) = 1 /\ Top = stack[1] /\ Top.map = Current.map
<1>1. stack \in Seq([map : DOMAIN heap, pending : SUBSET Keys]) /\ document \in Documents /\ DOMAIN heap = DOMAIN document.heap
  BY DEF PassType
<1>2. Len(stack) \in Nat \ {0} /\ Top = stack[Len(stack)] /\ Top \in [map : DOMAIN heap, pending : SUBSET Keys]
  BY <1>1, LastMeans DEF Top
<1>3. Top.pending \subseteq DOMAIN heap[Top.map]
  BY <1>2 DEF PassStack
<1>4. job \in DOMAIN Jobs /\ IsLoop(job) /\ Current = Jobs[job] /\ stack[1].map = Current.map
  BY JobsMean DEF PassType, PassStack, Current
<1>5. Current.map \in DOMAIN heap /\ Current.into \in DOMAIN heap
  BY <1>1, <1>4, DocumentMeans
<1>6. Current.kind = "paths" => Len(stack) = 1
  <2>1. Len(stack) > 1 => Current.kind = "map"
    BY DEF PassStack
  <2> DEFINE n == Len(stack)
  <2>2. n \in Nat \ {0}
    BY <1>2
  <2> HIDE DEF n
  <2>3. n > 1 \/ n = 1
    BY <2>2
  <2>. QED BY <2>1, <2>3 DEF n
<1>. QED BY <1>2, <1>3, <1>4, <1>5, <1>6

\* So does writing the lines of an output.
LEMMA RewriteChanges ==
  ASSUME PassType, PassStack, stack # <<>>, NEW m \in DOMAIN heap, NEW k, NEW out \in Outputs,
         Rewrite(m, k, out), UNCHANGED <<names, job, status>>
  PROVE  \E p : Changes(m, p)
<1>1. /\ DOMAIN heap' = DOMAIN heap /\ \A n \in DOMAIN heap : n # m => heap'[n] = heap[n]
      /\ DOMAIN heap'[m] = (DOMAIN heap[m] \ {k}) \cup DOMAIN out
      /\ \A x \in DOMAIN out : heap'[m][x] = Text(out[x])
      /\ \A x \in DOMAIN heap[m] : x # k /\ x \notin DOMAIN out => heap'[m][x] = heap[m][x]
  BY RewriteMeans
<1>2. PICK p : /\ Remaining(p) /\ Top.pending \ {k} \subseteq p
               /\ IF m = Top.map THEN p \subseteq (Top.pending \ {k}) \cup (DOMAIN out \ (DOMAIN heap[m] \ {k}))
                  ELSE p = Top.pending \ {k}
  BY RewriteMeans
<1>3. IsFiniteSet(DOMAIN out) /\ DOMAIN out \subseteq Keys /\ \A x \in DOMAIN out : out[x] \in Texts
  BY OutputMeans
<1>4. IsFiniteSet(DOMAIN heap[m]) /\ \A x \in DOMAIN heap[m] : x \in Keys /\ heap[m][x] \in Value
  BY DEF PassType, ValidMap
<1>5. \A x \in DOMAIN out : Text(out[x]) \in Value /\ Text(out[x]).kind = "string"
  BY <1>3 DEF Text, Value
<1>6. \A x \in DOMAIN heap'[m] : x \in DOMAIN out \/ (x \in DOMAIN heap[m] /\ x # k /\ x \notin DOMAIN out)
  BY <1>1
<1>7. IsFiniteSet(DOMAIN heap'[m])
  <2>1. IsFiniteSet(DOMAIN heap[m] \ {k})
    BY <1>4, FS_Subset
  <2>2. IsFiniteSet((DOMAIN heap[m] \ {k}) \cup DOMAIN out)
    BY <1>3, <2>1, FS_Union, Zenon
  <2>. QED BY <1>1, <2>2
<1>8. ValidMap(heap'[m])
  BY <1>1, <1>3, <1>4, <1>5, <1>6, <1>7 DEF ValidMap
<1>9. p \subseteq DOMAIN heap'[Top.map]
  <2>1. Top.pending \subseteq DOMAIN heap[Top.map] /\ Top.map \in DOMAIN heap
    BY TopMeans
  <2>2. CASE m = Top.map
    BY <1>1, <1>2, <2>1, <2>2
  <2>3. CASE m # Top.map
    BY <1>1, <1>2, <2>1, <2>3
  <2>. QED BY <2>2, <2>3
<1>10. \A x \in DOMAIN heap'[m] : heap'[m][x].kind = "map" => x \in DOMAIN heap[m] /\ heap'[m][x] = heap[m][x]
  BY <1>1, <1>5, <1>6
<1>11. (\A x \in DOMAIN heap[m] : heap[m][x].kind = "string") => \A x \in DOMAIN heap'[m] : heap'[m][x].kind = "string"
  BY <1>1, <1>5, <1>6
<1>. QED BY <1>1, <1>2, <1>8, <1>9, <1>10, <1>11 DEF Changes

\* A loop that only goes on.
LEMMA SkipChanges ==
  ASSUME PassType, PassStack, stack # <<>>, NEW k, Remaining(Top.pending \ {k}), UNCHANGED <<heap, names, job, status>>
  PROVE  Changes(Top.map, Top.pending \ {k})
<1>1. Top.pending \subseteq DOMAIN heap[Top.map] /\ Top.map \in DOMAIN heap
  BY TopMeans
<1>2. ValidMap(heap'[Top.map])
  BY <1>1 DEF PassType
<1>. QED BY <1>1, <1>2 DEF Changes

(***************************************************************************)
(* Visits                                                                  *)
(***************************************************************************)
\* The next loop starts in the map that is the value of an entry.
Pushes(k) ==
  /\ heap[Top.map][k].kind = "map"
  /\ stack' = Append(Append(Front(stack), [Top EXCEPT !.pending = @ \ {k}]),
                     [map |-> heap[Top.map][k].ref, pending |-> DOMAIN heap[heap[Top.map][k].ref]])
  /\ UNCHANGED <<heap, names, job, status>>
MapResults(k) == Expand(k, heap[Top.map][k].text, heap, ScopeOf(heap, 0), Current.attrSub)
PathResults(k) == Expand(k, heap[Top.map][k].text, heap, ScopeOf(heap, Current.scope), TRUE)

\* A visited entry and what the reference substitution makes of it.
LEMMA VisitedEntry ==
  ASSUME PassType, PassStack, stack # <<>>, NEW k \in Top.pending
  PROVE  /\ k \in Keys /\ k \in DOMAIN heap[Top.map] /\ heap[Top.map][k] \in Value
         /\ ValidScope(heap, ScopeOf(heap, Current.scope)) /\ Current.attrSub \in BOOLEAN
         /\ Current.kind = "map" => Current.scope = 0 /\ Current.into = Current.map
         /\ Current.kind = "paths" => Current.attrSub = TRUE /\ heap[Top.map][k].kind = "string"
         /\ heap[Top.map][k].kind = "string" => heap[Top.map][k].text \in Texts
<1>1. /\ k \in Keys /\ k \in DOMAIN heap[Top.map] /\ Top.map \in DOMAIN heap
      /\ job \in DOMAIN Jobs /\ IsLoop(job) /\ Current = Jobs[job]
      /\ Current.kind = "paths" => Top.map = Current.map
  BY TopMeans
<1>2. heap[Top.map][k] \in Value
  BY <1>1 DEF PassType, ValidMap
<1>3. ValidScope(heap, ScopeOf(heap, Current.scope))
  BY <1>1, ScopeMeans
<1>4. /\ Current.attrSub \in BOOLEAN /\ (Current.kind = "map" => Current.scope = 0 /\ Current.into = Current.map)
      /\ Current.kind = "paths" => Current.attrSub = TRUE
  BY <1>1, JobAt
<1>5. Current.kind = "paths" => heap[Top.map][k].kind = "string"
  BY <1>1 DEF PassType
<1>6. heap[Top.map][k].kind = "string" => heap[Top.map][k].text \in Texts
  BY <1>2, ValueMeans
<1>. QED BY <1>1, <1>2, <1>3, <1>4, <1>5, <1>6

\* The cases of a visit to an entry of a map.
LEMMA VisitMapMeans ==
  ASSUME PassType, PassStack, stack # <<>>, NEW k \in Top.pending, VisitMap(k)
  PROVE  /\ Current.kind = "map" /\ status = "running"
         /\ LET v == heap[Top.map][k]
                scope == ScopeOf(heap, 0)
            IN  \/ /\ v.kind = "string" /\ \E r \in MapResults(k) : r.tag = "ok" /\ Rewrite(Top.map, k, r.out)
                   /\ UNCHANGED <<names, job, status>>
                \/ /\ v.kind = "scalar" \/ (v.kind = "string" /\ \E r \in MapResults(k) : r.tag = "error")
                   /\ Remaining(Top.pending \ {k}) /\ UNCHANGED <<heap, names, job, status>>
                \/ Pushes(k)
                \/ /\ v.kind = "slice"
                   /\ \E s \in SliceOutcomes(v.elems, heap, scope, Current.attrSub) :
                        heap' = [heap EXCEPT ![Top.map][k] = [kind |-> "slice", elems |-> s]]
                   /\ Remaining(Top.pending \ {k}) /\ UNCHANGED <<names, job, status>>
                \/ Stop("panic")
<1> DEFINE v == heap[Top.map][k]
<1>1. Current.kind = "map" /\ status = "running"
  BY Zenon DEF VisitMap, Looping
<1>2. CASE v.kind = "string"
  <2>1. PICK r \in MapResults(k) :
         (CASE r.tag = "ok" -> Rewrite(Top.map, k, r.out) /\ UNCHANGED <<names, job, status>>
          [] r.tag = "error" -> Remaining(Top.pending \ {k}) /\ UNCHANGED <<heap, names, job, status, revisits>>
          [] r.tag = "panic" -> Stop("panic"))
    BY <1>2, Zenon DEF VisitMap, MapResults
  <2>2. r.tag \in {"ok", "error", "panic"}
    <3>1. /\ k \in Keys /\ v.text \in Texts /\ ValidScope(heap, ScopeOf(heap, 0)) /\ Current.attrSub \in BOOLEAN
      BY <1>1, <1>2, VisitedEntry
    <3>. QED BY <3>1, ExpandMeans DEF MapResults, Expansions
  <2>3. CASE r.tag = "ok"
    BY <1>1, <1>2, <2>1, <2>3, Zenon
  <2>4. CASE r.tag = "error"
    <3>1. Remaining(Top.pending \ {k}) /\ UNCHANGED <<heap, names, job, status, revisits>>
      BY <2>1, <2>4, Zenon
    <3>. QED BY <1>1, <1>2, <2>4, <3>1
  <2>5. CASE r.tag = "panic"
    BY <1>1, <2>1, <2>5, Zenon
  <2>. QED BY <2>2, <2>3, <2>4, <2>5
<1>3. CASE v.kind # "string"
  <2>1. \/ /\ v.kind = "map"
           /\ stack' = Append(Append(Front(stack), [Top EXCEPT !.pending = @ \ {k}]),
                              [map |-> v.ref, pending |-> DOMAIN heap[v.ref]])
           /\ UNCHANGED <<heap, names, job, status, revisits>>
        \/ /\ v.kind = "slice"
           /\ \E s \in SliceOutcomes(v.elems, heap, ScopeOf(heap, 0), Current.attrSub) :
                heap' = [heap EXCEPT ![Top.map][k] = [kind |-> "slice", elems |-> s]]
           /\ Remaining(Top.pending \ {k})
           /\ UNCHANGED <<names, job, status, revisits>>
        \/ Stop("panic")
        \/ v.kind = "scalar" /\ Remaining(Top.pending \ {k}) /\ UNCHANGED <<heap, names, job, status, revisits>>
    BY <1>3, Zenon DEF VisitMap
  <2>. QED BY <1>1, <2>1 DEF Pushes
<1>. QED BY <1>2, <1>3

\* The cases of a visit to a path.
LEMMA VisitPathMeans ==
  ASSUME PassType, PassStack, stack # <<>>, NEW k \in Top.pending, VisitPath(k)
  PROVE  /\ Current.kind = "paths" /\ status = "running"
         /\ \/ /\ \E r \in PathResults(k) : r.tag = "ok" /\ Rewrite(Current.into, k, r.out)
               /\ UNCHANGED <<names, job, status>>
            \/ (\E r \in PathResults(k) : r.tag = "error") /\ Stop("error")
            \/ Stop("panic")
<1>1. Current.kind = "paths" /\ status = "running"
  BY Zenon DEF VisitPath, Looping
<1>3. PICK r \in PathResults(k) :
      (CASE r.tag # "ok" -> Stop(r.tag)
        [] r.tag = "ok" /\ Current.into \in document.absent /\ DOMAIN r.out # {} -> Stop("panic")
        [] OTHER -> Rewrite(Current.into, k, r.out) /\ UNCHANGED <<names, job, status>>)
  BY Zenon DEF VisitPath, PathResults
<1>2. r.tag \in {"ok", "error", "panic"}
  <2>1. /\ k \in Keys /\ heap[Top.map][k].text \in Texts /\ ValidScope(heap, ScopeOf(heap, Current.scope))
        /\ TRUE \in BOOLEAN
    BY <1>1, VisitedEntry
  <2>2. r \in Expansions
    BY <2>1, ExpandMeans DEF PathResults
  <2>. QED BY <2>2 DEF Expansions
<1>4. CASE r.tag # "ok"
  <2>1. Stop(r.tag)
    BY <1>3, <1>4, Zenon
  <2>. QED BY <1>1, <1>2, <1>4, <2>1
<1>5. CASE r.tag = "ok" /\ Current.into \in document.absent /\ DOMAIN r.out # {}
  <2>1. Stop("panic")
    BY <1>3, <1>5, Zenon
  <2>. QED BY <1>1, <1>2, <2>1
<1>6. CASE r.tag = "ok" /\ ~(Current.into \in document.absent /\ DOMAIN r.out # {})
  <2>1. Rewrite(Current.into, k, r.out) /\ UNCHANGED <<names, job, status>>
    BY <1>3, <1>6, Zenon
  <2>. QED BY <1>1, <1>2, <1>6, <2>1
<1>. QED BY <1>4, <1>5, <1>6

\* A visit goes down, stops the pass, or changes one map.
LEMMA VisitChanges ==
  ASSUME PassType, PassStack, stack # <<>>, NEW k \in Top.pending, Visit(k)
  PROVE  /\ status = "running"
         /\ \/ Current.kind = "map" /\ Pushes(k)
            \/ \E tag \in {"error", "panic"} : Stop(tag)
            \/ \E m, p : /\ Changes(m, p) /\ k \in Top.pending
                         /\ (Current.kind = "map" /\ m = Top.map) \/ (Current.kind = "paths" /\ m = Current.into)
<1>0. /\ Top.map \in DOMAIN heap /\ Current.into \in DOMAIN heap
      /\ k \in Keys /\ k \in DOMAIN heap[Top.map] /\ heap[Top.map][k] \in Value
  BY TopMeans, VisitedEntry
<1>1. CASE VisitMap(k)
  <2> DEFINE v == heap[Top.map][k]
  <2>1. Current.kind = "map" /\ status = "running"
    BY <1>1, VisitMapMeans
  <2>2. CASE /\ v.kind = "string" /\ \E r \in MapResults(k) : r.tag = "ok" /\ Rewrite(Top.map, k, r.out)
             /\ UNCHANGED <<names, job, status>>
    <3>0. PICK r \in MapResults(k) : r.tag = "ok" /\ Rewrite(Top.map, k, r.out)
      BY <2>2
    <3>1. r.out \in Outputs
      <4>1. k \in Keys /\ v.text \in Texts /\ ValidScope(heap, ScopeOf(heap, 0)) /\ Current.attrSub \in BOOLEAN
        BY <2>1, <2>2, VisitedEntry
      <4>. QED BY <4>1, ExpandMeans DEF MapResults, Expansions
    <3>2. \E p : Changes(Top.map, p)
      <4> DEFINE o == r.out
      <4>1. Rewrite(Top.map, k, o) /\ o \in Outputs /\ UNCHANGED <<names, job, status>>
        BY <2>2, <3>0, <3>1
      <4> HIDE DEF o
      <4>. QED BY <1>0, <4>1, RewriteChanges
    <3>. QED BY <2>1, <3>2
  <2>3. CASE Remaining(Top.pending \ {k}) /\ UNCHANGED <<heap, names, job, status>>
    BY <2>1, <2>3, SkipChanges
  <2>4. CASE Pushes(k)
    BY <2>1, <2>4
  <2>5. CASE /\ v.kind = "slice"
             /\ \E s \in SliceOutcomes(v.elems, heap, ScopeOf(heap, 0), Current.attrSub) :
                  heap' = [heap EXCEPT ![Top.map][k] = [kind |-> "slice", elems |-> s]]
             /\ Remaining(Top.pending \ {k}) /\ UNCHANGED <<names, job, status>>
    <3>1. PICK s \in SliceOutcomes(v.elems, heap, ScopeOf(heap, 0), Current.attrSub) :
            heap' = [heap EXCEPT ![Top.map][k] = [kind |-> "slice", elems |-> s]]
      BY <2>5
    <3>2. s \in Seq(Element)
      <4>1. v.elems \in Seq(Element) /\ ValidScope(heap, ScopeOf(heap, 0)) /\ Current.attrSub \in BOOLEAN
        BY <1>0, <2>1, <2>5, VisitedEntry, ValueMeans
      <4>. QED BY <4>1, SliceMeans
    <3> DEFINE x == [kind |-> "slice", elems |-> s]
    <3>3. x \in Value /\ x.kind = "slice"
      BY <3>2 DEF Value
    <3> HIDE DEF x
    <3>4. /\ DOMAIN heap' = DOMAIN heap /\ \A n \in DOMAIN heap : n # Top.map => heap'[n] = heap[n]
          /\ DOMAIN heap'[Top.map] = DOMAIN heap[Top.map]
          /\ \A y \in DOMAIN heap[Top.map] : heap'[Top.map][y] = IF y = k THEN x ELSE heap[Top.map][y]
      BY <1>0, <3>1 DEF x
    <3>5. IsFiniteSet(DOMAIN heap[Top.map]) /\ \A y \in DOMAIN heap[Top.map] : y \in Keys /\ heap[Top.map][y] \in Value
      BY <1>0 DEF PassType, ValidMap
    <3>6. ValidMap(heap'[Top.map])
      BY <3>3, <3>4, <3>5 DEF ValidMap
    <3>7. Top.pending \ {k} \subseteq DOMAIN heap'[Top.map]
      BY <3>4, TopMeans
    <3>8. ~ \A y \in DOMAIN heap[Top.map] : heap[Top.map][y].kind = "string"
      BY <1>0, <2>5
    <3>9. \A y \in DOMAIN heap'[Top.map] : heap'[Top.map][y].kind = "map" =>
            y \in DOMAIN heap[Top.map] /\ heap'[Top.map][y] = heap[Top.map][y]
      BY <3>3, <3>4
    <3>10. Changes(Top.map, Top.pending \ {k})
      BY <2>5, <3>4, <3>6, <3>7, <3>8, <3>9, Zenon DEF Changes
    <3>. QED BY <2>1, <3>10
  <2>6. CASE Stop("panic")
    BY <2>1, <2>6
  <2> HIDE DEF v
  <2>. QED BY <1>1, <2>2, <2>3, <2>4, <2>5, <2>6, VisitMapMeans DEF v
<1>2. CASE VisitPath(k)
  <2>1. /\ Current.kind = "paths" /\ status = "running"
        /\ \/ /\ \E r \in PathResults(k) : Rewrite(Current.into, k, r.out)
              /\ UNCHANGED <<names, job, status>>
           \/ Stop("error") \/ Stop("panic")
    BY <1>2, VisitPathMeans
  <2>2. CASE (\E r \in PathResults(k) : Rewrite(Current.into, k, r.out)) /\ UNCHANGED <<names, job, status>>
    <3>0. PICK r \in PathResults(k) : Rewrite(Current.into, k, r.out)
      BY <2>2
    <3> DEFINE o == r.out
    <3>1. o \in Outputs
      BY <2>1, VisitedEntry, ExpandMeans DEF PathResults, Expansions
    <3>2. Rewrite(Current.into, k, o) /\ UNCHANGED <<names, job, status>>
      BY <2>2, <3>0
    <3> HIDE DEF o
    <3>3. \E p : Changes(Current.into, p)
      BY <1>0, <3>1, <3>2, RewriteChanges
    <3>. QED BY <2>1, <3>3
  <2>. QED BY <2>1, <2>2
<1>. QED BY <1>1, <1>2 DEF Visit

\* The name of a data source, substituted.
NameKey == <<"name">>
NameResults == Expand(NameKey, names[Current.ds], heap, ScopeOf(heap, Current.scope), TRUE)
Named ==
  /\ Between /\ Current.kind = "name"
  /\ \E r \in NameResults : /\ r.tag = "ok" /\ NameKey \in DOMAIN r.out
                            /\ names' = [names EXCEPT ![Current.ds] = r.out[NameKey]]
  /\ job' = job + 1 /\ UNCHANGED <<heap, stack, status>>

\* The steps of the pass.
LEMMA StepCases ==
  ASSUME PassType, PassStack, [PassNext]_passVars
  PROVE  /\ document' = document
         /\ \/ UNCHANGED passVars \/ Named \/ StartLoop \/ EndLoop \/ Finish
            \/ status = "running" /\ \E tag \in {"error", "panic"} : Stop(tag)
            \/ /\ status = "running" /\ stack # <<>> /\ Current.kind = "map"
               /\ \E k \in Top.pending : Pushes(k)
            \/ /\ status = "running" /\ stack # <<>>
               /\ \E m, p : /\ Changes(m, p)
                            /\ (Current.kind = "map" /\ m = Top.map) \/ (Current.kind = "paths" /\ m = Current.into)
<1>1. document' = document
  BY DEF PassNext, passVars
<1>2. CASE UNCHANGED passVars
  BY <1>1, <1>2
<1>3. CASE SubstituteName
  <2>1. status = "running" /\ (Named \/ \E tag \in {"error", "panic"} : Stop(tag))
    <3>1. Between /\ Current.kind = "name"
      BY <1>3, Zenon DEF SubstituteName
    <3>4. PICK r \in NameResults :
             IF r.tag = "ok" /\ NameKey \in DOMAIN r.out
             THEN /\ names' = [names EXCEPT ![Current.ds] = r.out[NameKey]]
                  /\ job' = job + 1
                  /\ UNCHANGED <<heap, stack, status, revisits>>
             ELSE Stop(IF r.tag = "panic" THEN "panic" ELSE "error")
      BY <1>3, Zenon DEF SubstituteName, NameResults, NameKey
    <3>2. CASE r.tag = "ok" /\ NameKey \in DOMAIN r.out
      BY <3>1, <3>2, <3>4 DEF Named, Between
    <3>3. CASE ~(r.tag = "ok" /\ NameKey \in DOMAIN r.out)
      BY <3>1, <3>3, <3>4 DEF Between
    <3>. QED BY <3>2, <3>3
  <2>. QED BY <1>1, <2>1
<1>4. CASE stack # <<>> /\ \E k \in Top.pending : Visit(k)
  <2>1. PICK k \in Top.pending : Visit(k)
    BY <1>4
  <2>. QED BY <1>1, <1>4, <2>1, VisitChanges
<1>5. CASE StartLoop \/ EndLoop \/ Finish
  BY <1>1, <1>5
<1>. QED BY <1>2, <1>3, <1>4, <1>5 DEF PassNext

(***************************************************************************)
(* Types and loops                                                         *)
(***************************************************************************)
LoopsOf(h) == [map : DOMAIN h, pending : SUBSET Keys]

\* The innermost loop goes on with other keys.
LEMMA RemainingMeans ==
  ASSUME PassType, stack # <<>>, NEW p \in SUBSET Keys, Remaining(p)
  PROVE  /\ stack' \in Seq(LoopsOf(heap)) /\ Len(stack') = Len(stack) /\ stack' # <<>> /\ Len(stack) \in Nat \ {0}
         /\ stack'[Len(stack)] = [map |-> Top.map, pending |-> p]
         /\ \A i \in 1 .. Len(stack) : i # Len(stack) => stack'[i] = stack[i]
         /\ \A i \in 1 .. Len(stack) : stack'[i].map = stack[i].map
<1> DEFINE L == LoopsOf(heap)
           x == [map |-> Top.map, pending |-> p]
<1>1. stack \in Seq(L)
  BY DEF PassType, LoopsOf
<1>2. Top \in L /\ Top = stack[Len(stack)] /\ Len(stack) \in Nat \ {0}
  BY <1>1, LastMeans DEF Top
<1>3. x \in L /\ [Top EXCEPT !.pending = p] = x /\ x.map = Top.map
  BY <1>2 DEF LoopsOf
<1>4. stack' = Append(Front(stack), x)
  BY <1>3 DEF Remaining
<1> HIDE DEF L, x
<1>5. /\ stack' \in Seq(L) /\ Len(stack') = Len(stack) /\ stack'[Len(stack)] = x /\ stack' # <<>>
      /\ \A i \in 1 .. Len(stack) : i # Len(stack) => stack'[i] = stack[i]
  BY <1>1, <1>3, <1>4, LastMeans
<1>. QED BY <1>2, <1>3, <1>5 DEF L, x

\* The next loop starts inside.
LEMMA PushMeans ==
  ASSUME PassType, PassStack, stack # <<>>, NEW k \in Top.pending, Pushes(k)
  PROVE  LET n == heap[Top.map][k].ref IN
         /\ Child(document, Top.map, n) /\ n \in DOMAIN heap
         /\ stack' \in Seq(LoopsOf(heap)) /\ Len(stack) \in Nat \ {0} /\ Len(stack') = Len(stack) + 1 /\ stack' # <<>>
         /\ stack'[Len(stack) + 1] = [map |-> n, pending |-> DOMAIN heap[n]]
         /\ stack'[Len(stack)] = [map |-> Top.map, pending |-> Top.pending \ {k}]
         /\ \A i \in 1 .. Len(stack) : i # Len(stack) => stack'[i] = stack[i]
         /\ \A i \in 1 .. Len(stack) : stack'[i].map = stack[i].map
<1> DEFINE L == LoopsOf(heap)
           n == heap[Top.map][k].ref
           x == [map |-> Top.map, pending |-> Top.pending \ {k}]
           y == [map |-> n, pending |-> DOMAIN heap[n]]
           t == Append(Front(stack), x)
<1>1. stack \in Seq(L)
  BY DEF PassType, LoopsOf
<1>2. Top \in L /\ Top = stack[Len(stack)] /\ Len(stack) \in Nat \ {0} /\ Top.map \in DOMAIN heap /\ k \in DOMAIN heap[Top.map]
  BY TopMeans, VisitedEntry, LastMeans, <1>1 DEF LoopsOf
<1>3. Child(document, Top.map, n) /\ n \in DOMAIN heap
  <2>1. heap[Top.map][k].kind = "map"
    BY DEF Pushes
  <2>2. k \in DOMAIN document.heap[Top.map] /\ heap[Top.map][k] = document.heap[Top.map][k]
    BY <1>2, <2>1 DEF PassType
  <2>3. Child(document, Top.map, n)
    BY <2>1, <2>2 DEF Child
  <2>. QED BY <1>2, <2>3, DocumentMeans DEF PassType
<1>4. x \in L /\ [Top EXCEPT !.pending = @ \ {k}] = x /\ x.map = Top.map
  <2> DEFINE q == Top.pending \ {k}
  <2>1. Top \in [map : DOMAIN heap, pending : SUBSET Keys]
    BY <1>2 DEF LoopsOf
  <2>2. q \in SUBSET Keys
    BY <2>1
  <2> HIDE DEF q
  <2>3. [Top EXCEPT !.pending = q] = [map |-> Top.map, pending |-> q]
    BY <2>1
  <2>4. [map |-> Top.map, pending |-> q] \in L
    BY <2>1, <2>2 DEF LoopsOf
  <2>. QED BY <2>3, <2>4 DEF q
<1>5. y \in L
  <2>1. DOMAIN heap[n] \subseteq Keys
    BY <1>3 DEF PassType, ValidMap
  <2>. QED BY <1>3, <2>1 DEF LoopsOf
<1>6. stack' = Append(t, y)
  BY <1>4, Zenon DEF Pushes
<1> HIDE DEF x, y, L
<1>7. /\ t \in Seq(L) /\ Len(t) = Len(stack) /\ t[Len(stack)] = x
      /\ \A i \in 1 .. Len(stack) : i # Len(stack) => t[i] = stack[i]
  BY <1>1, <1>4, LastMeans
<1> HIDE DEF t
<1>8. /\ stack' \in Seq(L) /\ Len(stack') = Len(t) + 1 /\ stack'[Len(t) + 1] = y
      /\ \A i \in 1 .. Len(t) : stack'[i] = t[i]
  BY <1>5, <1>6, <1>7, AppendProperties
<1>9. stack' # <<>>
  <2>1. Len(stack') # 0
    BY <1>2, <1>7, <1>8
  <2>. QED BY <2>1
<1>10. /\ \A i \in 1 .. Len(stack) : i # Len(stack) => stack'[i] = stack[i]
       /\ stack'[Len(stack)] = x
  BY <1>2, <1>7, <1>8
<1>11. \A i \in 1 .. Len(stack) : stack'[i].map = stack[i].map
  BY <1>2, <1>4, <1>10
<1>. QED BY <1>2, <1>3, <1>7, <1>8, <1>9, <1>10, <1>11 DEF L, x, y, n

\* The innermost loop ends.
LEMMA EndMeans ==
  ASSUME PassType, PassStack, EndLoop
  PROVE  /\ stack # <<>> /\ stack' \in Seq(LoopsOf(heap)) /\ Len(stack) \in Nat \ {0} /\ Len(stack') = Len(stack) - 1
         /\ \A i \in 1 .. Len(stack) - 1 : stack'[i] = stack[i]
         /\ job' = IF stack' = <<>> THEN job + 1 ELSE job
         /\ Top.pending = {} /\ status = "running" /\ UNCHANGED <<heap, names, status>>
<1> DEFINE L == LoopsOf(heap)
<1>1. stack \in Seq(L)
  BY DEF PassType, LoopsOf
<1>2. stack # <<>> /\ stack' = Front(stack) /\ job' = IF Len(stack) = 1 THEN job + 1 ELSE job
  BY DEF EndLoop
<1> HIDE DEF L
<1>3. /\ stack' \in Seq(L) /\ Len(stack') = Len(stack) - 1 /\ Len(stack) \in Nat \ {0}
      /\ \A i \in 1 .. Len(stack) - 1 : stack'[i] = stack[i]
  BY <1>1, <1>2, LastMeans
<1>4. stack' = <<>> <=> Len(stack) = 1
  <2>1. stack' = <<>> <=> Len(stack') = 0
    BY <1>3, EmptySeq
  <2>. QED BY <1>3, <2>1
<1>. QED BY <1>2, <1>3, <1>4 DEF EndLoop, L

\* A loop starts.
LEMMA StartMeans ==
  ASSUME PassType, StartLoop
  PROVE  /\ stack = <<>> /\ job \in DOMAIN Jobs /\ IsLoop(job) /\ Current.map \in DOMAIN heap
         /\ stack' \in Seq(LoopsOf(heap)) /\ Len(stack') = 1 /\ stack' # <<>>
         /\ stack'[1] = [map |-> Current.map, pending |-> DOMAIN heap[Current.map]]
         /\ status = "running" /\ UNCHANGED <<heap, names, job, status>>
<1> DEFINE x == [map |-> Current.map, pending |-> DOMAIN heap[Current.map]]
<1>1. stack' = <<x>> /\ stack = <<>> /\ job <= Len(Jobs) /\ Current.kind # "name" /\ status = "running"
      /\ UNCHANGED <<heap, names, job, status>>
  BY DEF StartLoop, Between
<1>2. job \in DOMAIN Jobs /\ IsLoop(job)
  BY <1>1, JobsMean DEF PassType, IsLoop, Current
<1>3. Current.map \in DOMAIN heap
  BY <1>2, DocumentMeans DEF PassType, Current
<1>4. x \in LoopsOf(heap)
  <2>1. DOMAIN heap[Current.map] \subseteq Keys
    BY <1>3 DEF PassType, ValidMap
  <2>. QED BY <1>3, <2>1 DEF LoopsOf
<1> HIDE DEF x
<1>5. stack' \in Seq(LoopsOf(heap)) /\ Len(stack') = 1 /\ stack'[1] = x
  BY <1>1, <1>4, Single
<1>6. stack' # <<>>
  <2>1. Len(<<>>) = 0
    OBVIOUS
  <2>. QED BY <1>5, <2>1
<1>. QED BY <1>1, <1>2, <1>3, <1>5, <1>6 DEF x

\* A step that leaves the heap and the names alone.
LEMMA SameHeap ==
  ASSUME PassType, UNCHANGED <<document, heap, names>>, job' \in 1 .. Len(Jobs) + 1,
         status' \in {"running", "done", "error", "panic"}, status' = "done" => job' = Len(Jobs) + 1,
         stack' \in Seq(LoopsOf(heap))
  PROVE  PassType'
BY DEF PassType, LoopsOf

\* One map is rewritten.
LEMMA ChangeKeepsType ==
  ASSUME PassType, PassStack, stack # <<>>, document' = document, NEW m \in DOMAIN heap, NEW p, Changes(m, p),
         (Current.kind = "map" /\ m = Top.map) \/ (Current.kind = "paths" /\ m = Current.into)
  PROVE  PassType' /\ PassStack'
<1>1. /\ DOMAIN heap' = DOMAIN heap /\ \A n \in DOMAIN heap : n # m => heap'[n] = heap[n]
      /\ ValidMap(heap'[m])
      /\ \A x \in DOMAIN heap'[m] : heap'[m][x].kind = "map" => x \in DOMAIN heap[m] /\ heap'[m][x] = heap[m][x]
      /\ (\A x \in DOMAIN heap[m] : heap[m][x].kind = "string") => \A x \in DOMAIN heap'[m] : heap'[m][x].kind = "string"
      /\ p \subseteq DOMAIN heap'[Top.map] /\ Remaining(p)
      /\ UNCHANGED <<names, job, status>>
  BY DEF Changes
<1>2. /\ document \in Documents /\ job \in 1 .. Len(Jobs) + 1
      /\ status \in {"running", "done", "error", "panic"} /\ (status = "done" => job = Len(Jobs) + 1)
      /\ DOMAIN heap = DOMAIN document.heap /\ \A n \in DOMAIN heap : ValidMap(heap[n])
      /\ \A n \in DOMAIN heap : \A k \in DOMAIN heap[n] :
           heap[n][k].kind = "map" => k \in DOMAIN document.heap[n] /\ heap[n][k] = document.heap[n][k]
      /\ \A j \in DOMAIN Jobs : Jobs[j].kind = "paths" =>
           \A n \in {Jobs[j].map, Jobs[j].into} : \A k \in DOMAIN heap[n] : heap[n][k].kind = "string"
      /\ DOMAIN names = DOMAIN document.names /\ \A j \in DOMAIN Jobs : ~IsLoop(j) => names[Jobs[j].ds] \in Texts
      /\ stack \in Seq([map : DOMAIN heap, pending : SUBSET Keys])
  BY DEF PassType
<1>3. Top.map \in DOMAIN heap /\ job \in DOMAIN Jobs /\ Current = Jobs[job] /\ Top = stack[Len(stack)]
  BY TopMeans
<1>4. \A n \in DOMAIN heap : ValidMap(heap'[n])
  BY <1>1, <1>2
<1>5. p \in SUBSET Keys
  BY <1>1, <1>3, <1>4 DEF ValidMap
<1>6. /\ stack' \in Seq(LoopsOf(heap)) /\ Len(stack') = Len(stack) /\ stack' # <<>> /\ Len(stack) \in Nat \ {0}
      /\ stack'[Len(stack)] = [map |-> Top.map, pending |-> p]
      /\ \A i \in 1 .. Len(stack) : i # Len(stack) => stack'[i] = stack[i]
      /\ \A i \in 1 .. Len(stack) : stack'[i].map = stack[i].map
  BY <1>1, <1>5, RemainingMeans
<1>7. \A j \in DOMAIN Jobs : Jobs[j].kind = "paths" => Jobs[j].map \in DOMAIN heap /\ Jobs[j].into \in DOMAIN heap
  BY <1>2, DocumentMeans, JobAt
<1>8. PassType'
  <2>1. \A n \in DOMAIN heap' : \A k \in DOMAIN heap'[n] :
          heap'[n][k].kind = "map" => k \in DOMAIN document.heap[n] /\ heap'[n][k] = document.heap[n][k]
    BY <1>1, <1>2
  <2>2. ASSUME NEW j \in DOMAIN Jobs, Jobs[j].kind = "paths", NEW n \in {Jobs[j].map, Jobs[j].into}, NEW k \in DOMAIN heap'[n]
        PROVE  heap'[n][k].kind = "string"
    <3>1. n \in DOMAIN heap /\ \A x \in DOMAIN heap[n] : heap[n][x].kind = "string"
      BY <1>2, <1>7, <2>2
    <3>. QED BY <1>1, <2>2, <3>1
  <2>3. stack' \in Seq([map : DOMAIN heap', pending : SUBSET Keys])
    BY <1>1, <1>6 DEF LoopsOf
  <2>. QED BY <1>1, <1>2, <1>4, <2>1, <2>2, <2>3 DEF PassType
<1>9. PassStack'
  <2>1. /\ job <= Len(Jobs) /\ IsLoop(job) /\ stack[1].map = Current.map /\ (Len(stack) > 1 => Current.kind = "map")
        /\ \A i \in 1 .. Len(stack) : stack[i].pending \subseteq DOMAIN heap[stack[i].map]
        /\ \A i \in 1 .. Len(stack) : i > 1 => Child(document, stack[i - 1].map, stack[i].map)
        /\ \A i, j \in 1 .. Len(stack) : stack[i].map = stack[j].map => i = j
    BY DEF PassStack
  <2>2. \A i \in 1 .. Len(stack) : stack[i].map \in DOMAIN heap
    <3>1. \A i \in 1 .. Len(stack) : stack[i] \in [map : DOMAIN heap, pending : SUBSET Keys]
      BY <1>2, RangeMeans
    <3>. QED BY <3>1
  <2>3. 1 \in 1 .. Len(stack) /\ \A i \in 1 .. Len(stack) : i > 1 => i - 1 \in 1 .. Len(stack)
    BY <1>6
  <2>4. ASSUME NEW i \in 1 .. Len(stack) PROVE stack'[i].pending \subseteq DOMAIN heap'[stack'[i].map]
    <3>1. CASE i = Len(stack)
      BY <1>1, <1>6, <3>1
    <3>2. CASE i # Len(stack)
      <4>1. stack[i].map # Top.map /\ stack'[i] = stack[i]
        BY <1>3, <1>6, <2>1, <3>2
      <4>2. stack[i].map # m
        <5>1. CASE Current.kind = "map" /\ m = Top.map
          BY <4>1, <5>1
        <5>2. CASE Current.kind = "paths" /\ m = Current.into
          BY <1>6, <3>2, <5>2, TopMeans
        <5>. QED BY <5>1, <5>2
      <4>. QED BY <1>1, <2>1, <2>2, <4>1, <4>2
    <3>. QED BY <3>1, <3>2
  <2>5. \A i \in 1 .. Len(stack) : i > 1 => Child(document, stack'[i - 1].map, stack'[i].map)
    BY <1>6, <2>1, <2>3
  <2>6. \A i, j \in 1 .. Len(stack) : stack'[i].map = stack'[j].map => i = j
    BY <1>6, <2>1
  <2>7. Current' = Current /\ job' = job /\ stack'[1].map = stack[1].map /\ Len(stack') = Len(stack)
    BY <1>1, <1>6, <2>3 DEF Current
  <2>. QED BY <2>1, <2>4, <2>5, <2>6, <2>7 DEF PassStack
<1>. QED BY <1>8, <1>9

\* The map that is gone into is none of those that are being gone through.
LEMMA PushedApart ==
  ASSUME PassType, PassStack, stack # <<>>, NEW n, Child(document, Top.map, n)
  PROVE  \A i \in 1 .. Len(stack) : stack[i].map # n
<1>1. /\ document \in Documents /\ DOMAIN heap = DOMAIN document.heap
      /\ stack \in Seq([map : DOMAIN heap, pending : SUBSET Keys])
  BY DEF PassType
<1>2. /\ Top.map \in DOMAIN heap /\ Top = stack[Len(stack)] /\ Len(stack) \in Nat \ {0}
      /\ job \in DOMAIN Jobs /\ IsLoop(job) /\ Current = Jobs[job] /\ stack[1].map = Current.map
  BY <1>1, TopMeans, LastMeans
<1>3. /\ \A i \in 1 .. Len(stack) : i > 1 => Child(document, stack[i - 1].map, stack[i].map)
      /\ \A i, j \in 1 .. Len(stack) : stack[i].map = stack[j].map => i = j
  BY DEF PassStack
<1>4. \A i \in 1 .. Len(stack) : stack[i] \in [map : DOMAIN heap, pending : SUBSET Keys]
  BY <1>1, RangeMeans
<1>5. n # Jobs[job].map /\ \A l \in DOMAIN heap : Child(document, l, n) => l = Top.map
  BY <1>1, <1>2, DocumentMeans
<1> SUFFICES ASSUME NEW i \in 1 .. Len(stack), stack[i].map = n PROVE FALSE
  OBVIOUS
<1>6. i # 1
  BY <1>2, <1>5
<1>7. i - 1 \in 1 .. Len(stack) /\ i > 1 /\ Len(stack) \in 1 .. Len(stack) /\ i - 1 # Len(stack)
  BY <1>2, <1>6
<1>8. Child(document, stack[i - 1].map, n) /\ stack[i - 1].map \in DOMAIN heap
  BY <1>3, <1>4, <1>7
<1>9. stack[i - 1].map = stack[Len(stack)].map
  BY <1>2, <1>5, <1>8
<1>. QED BY <1>3, <1>7, <1>9

\* A name is substituted under a key of its own.
LEMMA NameKeyMeans == NameKey \in Keys
<1>0. "name" \in STRING
  BY ReferenceAssumption
<1>1. <<"name">> \in Keys
  BY <1>0, Single DEF Keys, Texts
<1>. QED BY <1>1 DEF NameKey

\* Every step keeps the types and the loops.
LEMMA TypeStep ==
  ASSUME PassType, PassStack, [PassNext]_passVars
  PROVE  PassType' /\ PassStack'
<1>0. /\ document \in Documents /\ job \in 1 .. Len(Jobs) + 1 /\ Len(Jobs) \in Nat /\ DOMAIN Jobs = 1 .. Len(Jobs)
      /\ status \in {"running", "done", "error", "panic"} /\ (status = "done" => job = Len(Jobs) + 1)
      /\ stack \in Seq(LoopsOf(heap))
  BY JobsMean DEF PassType, LoopsOf
<1>1. document' = document
  BY StepCases
<1>2. CASE UNCHANGED passVars
  <2>1. /\ heap' = heap /\ names' = names /\ job' = job /\ stack' = stack /\ status' = status
    BY <1>2 DEF passVars
  <2>2. PassType'
    BY <1>0, <1>1, <2>1, SameHeap
  <2>. QED BY <1>1, <2>1, <2>2 DEF PassStack, Current
<1>3. CASE Named
  <2>1. /\ status = "running" /\ stack = <<>> /\ job <= Len(Jobs) /\ Current.kind = "name"
        /\ job' = job + 1 /\ heap' = heap /\ stack' = stack /\ status' = status
    BY <1>3 DEF Named, Between
  <2>7. PICK r \in NameResults : NameKey \in DOMAIN r.out /\ names' = [names EXCEPT ![Current.ds] = r.out[NameKey]]
    BY <1>3 DEF Named
  <2>2. job \in DOMAIN Jobs /\ Current = Jobs[job] /\ ~IsLoop(job) /\ job' \in 1 .. Len(Jobs) + 1
    BY <1>0, <2>1 DEF Current, IsLoop
  <2>3. r.out[NameKey] \in Texts
    <3>1. names[Current.ds] \in Texts /\ NameKey \in Keys /\ ValidScope(heap, ScopeOf(heap, Current.scope))
      <4>1. NameKey \in Keys
        BY NameKeyMeans
      <4>. QED BY <2>2, <4>1, ScopeMeans DEF PassType
    <3>. QED BY <2>7, <3>1, ExpandMeans DEF NameResults
  <2>4. /\ DOMAIN names' = DOMAIN document.names
        /\ \A j \in DOMAIN Jobs : ~IsLoop(j) => names'[Jobs[j].ds] \in Texts
    <3>1. DOMAIN names = DOMAIN document.names /\ \A j \in DOMAIN Jobs : ~IsLoop(j) => names[Jobs[j].ds] \in Texts
      BY DEF PassType
    <3>2. \A j \in DOMAIN Jobs : ~IsLoop(j) => Jobs[j].ds \in DOMAIN names
      BY <1>0, <3>1, DocumentMeans
    <3>. QED BY <2>7, <2>3, <3>1, <3>2
  <2>5. PassType'
    BY <1>0, <1>1, <2>1, <2>2, <2>4 DEF PassType
  <2>6. PassStack'
    <3>1. Len(stack) = 0
      BY <2>1
    <3>. QED BY <2>1, <3>1 DEF PassStack
  <2>. QED BY <2>5, <2>6
<1>4. CASE StartLoop
  <2>1. /\ stack = <<>> /\ job \in DOMAIN Jobs /\ IsLoop(job) /\ Current.map \in DOMAIN heap
        /\ stack' \in Seq(LoopsOf(heap)) /\ Len(stack') = 1 /\ stack' # <<>>
        /\ stack'[1] = [map |-> Current.map, pending |-> DOMAIN heap[Current.map]]
        /\ UNCHANGED <<heap, names, job, status>>
    BY <1>4, StartMeans
  <2>2. PassType'
    BY <1>0, <1>1, <2>1, SameHeap
  <2>3. Current' = Current /\ job <= Len(Jobs) /\ \A i \in 1 .. Len(stack') : i = 1
    BY <1>0, <2>1 DEF Current
  <2>4. ~(Len(stack') > 1) /\ stack'[1].map = Current.map /\ stack'[1].pending \subseteq DOMAIN heap'[stack'[1].map]
    BY <2>1
  <2>. QED BY <2>1, <2>2, <2>3, <2>4 DEF PassStack
<1>5. CASE EndLoop
  <2>1. /\ stack # <<>> /\ stack' \in Seq(LoopsOf(heap)) /\ Len(stack) \in Nat \ {0} /\ Len(stack') = Len(stack) - 1
        /\ \A i \in 1 .. Len(stack) - 1 : stack'[i] = stack[i]
        /\ job' = IF stack' = <<>> THEN job + 1 ELSE job
        /\ status = "running" /\ UNCHANGED <<heap, names, status>>
    BY <1>5, EndMeans
  <2>2. job \in DOMAIN Jobs
    BY <2>1, TopMeans
  <2>3. job' \in 1 .. Len(Jobs) + 1
    BY <1>0, <2>1, <2>2
  <2>4. PassType'
    BY <1>0, <1>1, <2>1, <2>3, SameHeap
  <2>5. /\ job <= Len(Jobs) /\ IsLoop(job) /\ stack[1].map = Current.map /\ (Len(stack) > 1 => Current.kind = "map")
        /\ \A i \in 1 .. Len(stack) : stack[i].pending \subseteq DOMAIN heap[stack[i].map]
        /\ \A i \in 1 .. Len(stack) : i > 1 => Child(document, stack[i - 1].map, stack[i].map)
        /\ \A i, j \in 1 .. Len(stack) : stack[i].map = stack[j].map => i = j
    BY <2>1 DEF PassStack
  <2>6. stack' # <<>> => Len(stack') > 0
    BY <2>1, EmptySeq
  <2>7. /\ \A i \in 1 .. Len(stack') : i \in 1 .. Len(stack) /\ stack'[i] = stack[i]
        /\ \A i \in 1 .. Len(stack') : i > 1 => i - 1 \in 1 .. Len(stack')
        /\ Len(stack') > 1 => Len(stack) > 1 /\ Len(stack') > 0
        /\ Len(stack') > 0 => 1 \in 1 .. Len(stack')
    BY <2>1
  <2>8. Len(stack') > 0 => stack' # <<>> /\ job' = job /\ Current' = Current
    BY <2>1 DEF Current
  <2>9. \A i \in 1 .. Len(stack') : i > 1 => Child(document', stack'[i - 1].map, stack'[i].map)
    BY <1>1, <2>5, <2>7
  <2>10. \A i \in 1 .. Len(stack') : stack'[i].pending \subseteq DOMAIN heap'[stack'[i].map]
    BY <2>1, <2>5, <2>7
  <2>11. \A i, j \in 1 .. Len(stack') : stack'[i].map = stack'[j].map => i = j
    BY <2>5, <2>7
  <2>12. stack' # <<>> => job' <= Len(Jobs) /\ IsLoop(job)' /\ stack'[1].map = Current'.map
    BY <2>5, <2>6, <2>7, <2>8 DEF IsLoop
  <2>13. Len(stack') > 1 => Current'.kind = "map"
    BY <2>5, <2>7, <2>8
  <2>. QED BY <2>4, <2>9, <2>10, <2>11, <2>12, <2>13 DEF PassStack
<1>6. CASE Finish
  <2>1. job > Len(Jobs) /\ status' = "done" /\ UNCHANGED <<heap, names, job, stack>>
    BY <1>6 DEF Finish
  <2>2. job' = Len(Jobs) + 1 /\ job' \in 1 .. Len(Jobs) + 1
    BY <1>0, <2>1
  <2>3. PassType'
    BY <1>0, <1>1, <2>1, <2>2, SameHeap
  <2>. QED BY <1>1, <2>1, <2>3 DEF PassStack, Current
<1>7. CASE status = "running" /\ \E tag \in {"error", "panic"} : Stop(tag)
  <2>1. status' \in {"error", "panic"} /\ UNCHANGED <<heap, names, job, stack>>
    BY <1>7 DEF Stop
  <2>2. PassType'
    BY <1>0, <1>1, <2>1, SameHeap
  <2>. QED BY <1>1, <2>1, <2>2 DEF PassStack, Current
<1>8. CASE status = "running" /\ stack # <<>> /\ Current.kind = "map" /\ \E k \in Top.pending : Pushes(k)
  <2>1. PICK k \in Top.pending : Pushes(k)
    BY <1>8
  <2> DEFINE n == heap[Top.map][k].ref
  <2>2. /\ Child(document, Top.map, n) /\ n \in DOMAIN heap
        /\ stack' \in Seq(LoopsOf(heap)) /\ Len(stack) \in Nat \ {0} /\ Len(stack') = Len(stack) + 1 /\ stack' # <<>>
        /\ stack'[Len(stack) + 1] = [map |-> n, pending |-> DOMAIN heap[n]]
        /\ stack'[Len(stack)] = [map |-> Top.map, pending |-> Top.pending \ {k}]
        /\ \A i \in 1 .. Len(stack) : i # Len(stack) => stack'[i] = stack[i]
        /\ \A i \in 1 .. Len(stack) : stack'[i].map = stack[i].map
    BY <1>8, <2>1, PushMeans
  <2> HIDE DEF n
  <2>3. UNCHANGED <<heap, names, job, status>>
    BY <2>1 DEF Pushes
  <2>4. PassType'
    BY <1>0, <1>1, <2>2, <2>3, SameHeap
  <2>5. /\ job <= Len(Jobs) /\ IsLoop(job) /\ stack[1].map = Current.map
        /\ \A i \in 1 .. Len(stack) : stack[i].pending \subseteq DOMAIN heap[stack[i].map]
        /\ \A i \in 1 .. Len(stack) : i > 1 => Child(document, stack[i - 1].map, stack[i].map)
        /\ \A i, j \in 1 .. Len(stack) : stack[i].map = stack[j].map => i = j
    BY <1>8 DEF PassStack
  <2>6. Top = stack[Len(stack)] /\ Top.pending \subseteq DOMAIN heap[Top.map]
    BY <1>8, TopMeans
  <2>7. \A i \in 1 .. Len(stack) : stack[i].map # n
    BY <1>8, <2>2, PushedApart
  <2> DEFINE z == Len(stack)
  <2>8. /\ \A i \in 1 .. z + 1 : (i \in 1 .. z /\ i # z + 1) \/ i = z + 1
        /\ \A i \in 1 .. z + 1 : i > 1 => i - 1 \in 1 .. z
        /\ 1 \in 1 .. z /\ z \in 1 .. z /\ (z + 1) - 1 = z
    <3>1. z \in Nat \ {0}
      BY <2>2
    <3> HIDE DEF z
    <3>. QED BY <3>1
  <2>9. Len(stack') = z + 1 /\ stack'[z + 1].map = n /\ stack'[z + 1].pending = DOMAIN heap[n]
    BY <2>2
  <2> HIDE DEF z
  <2>10. \A i \in 1 .. z : stack'[i].pending \subseteq DOMAIN heap[stack'[i].map]
    <3> SUFFICES ASSUME NEW i \in 1 .. z PROVE stack'[i].pending \subseteq DOMAIN heap[stack'[i].map]
      OBVIOUS
    <3>1. CASE i = z
      BY <2>2, <2>6, <3>1 DEF z
    <3>2. CASE i # z
      BY <2>2, <2>5, <3>2 DEF z
    <3>. QED BY <3>1, <3>2
  <2>11. \A i \in 1 .. Len(stack') : stack'[i].pending \subseteq DOMAIN heap'[stack'[i].map]
    BY <2>3, <2>8, <2>9, <2>10
  <2>12. \A i \in 1 .. z : stack'[i].map = stack[i].map
    BY <2>2 DEF z
  <2>13. \A i \in 1 .. z : i > 1 => Child(document, stack'[i - 1].map, stack'[i].map)
    <3>1. \A i \in 1 .. z : i > 1 => i \in 1 .. z + 1 /\ i - 1 \in 1 .. z
      BY <2>8
    <3>. QED BY <2>5, <2>12, <3>1 DEF z
  <2>14. Child(document, stack'[z].map, n)
    BY <2>2, <2>6, <2>8, <2>12 DEF z
  <2>15. \A i \in 1 .. Len(stack') : i > 1 => Child(document', stack'[i - 1].map, stack'[i].map)
    BY <1>1, <2>8, <2>9, <2>13, <2>14
  <2>16. \A i, j \in 1 .. Len(stack') : stack'[i].map = stack'[j].map => i = j
    <3>1. \A i, j \in 1 .. z : stack'[i].map = stack'[j].map => i = j
      BY <2>5, <2>12 DEF z
    <3>2. \A i \in 1 .. z : stack'[i].map # n
      BY <2>7, <2>12 DEF z
    <3>. QED BY <2>8, <2>9, <3>1, <3>2
  <2>17. job' <= Len(Jobs) /\ IsLoop(job)' /\ stack'[1].map = Current'.map /\ Current'.kind = "map"
    BY <1>8, <2>3, <2>5, <2>8, <2>12 DEF Current, IsLoop
  <2>. QED BY <2>4, <2>11, <2>15, <2>16, <2>17 DEF PassStack
<1>9. CASE /\ status = "running" /\ stack # <<>>
           /\ \E m, p : /\ Changes(m, p)
                        /\ (Current.kind = "map" /\ m = Top.map) \/ (Current.kind = "paths" /\ m = Current.into)
  <2>1. PICK m, p : /\ Changes(m, p)
                    /\ (Current.kind = "map" /\ m = Top.map) \/ (Current.kind = "paths" /\ m = Current.into)
    BY <1>9
  <2>2. m \in DOMAIN heap
    BY <1>9, <2>1, TopMeans
  <2>. QED BY <1>1, <1>9, <2>1, <2>2, ChangeKeepsType
<1>. QED BY <1>2, <1>3, <1>4, <1>5, <1>6, <1>7, <1>8, <1>9, StepCases

(***************************************************************************)
(* Frames: what the loop of one part leaves to the others                  *)
(***************************************************************************)
\* The map that the innermost loop may rewrite.
Rewritable(m) == (Current.kind = "map" /\ m = Top.map) \/ (Current.kind = "paths" /\ m = Current.into)
ChangesOnly(m) == DOMAIN heap' = DOMAIN heap /\ \A n \in DOMAIN heap : n # m => heap'[n] = heap[n]
\* The maps that a scope refers to are the same in two heaps.
SameRefs(h, g, scope) ==
  \A name \in DOMAIN scope : scope[name].kind = "map" => g[scope[name].ref] = h[scope[name].ref]

\* The loops of two parts: only those of one data source go into one map.
LEMMA PartsMean ==
  ASSUME NEW i \in DOMAIN Jobs, NEW j \in DOMAIN Jobs, i < j
  PROVE  /\ ~IsLoop(i) /\ ~IsLoop(j) => Jobs[i].ds # Jobs[j].ds
         /\ IsLoop(i) /\ IsLoop(j) =>
              /\ Jobs[i].into # Jobs[j].map
              /\ Jobs[j].into \in {Jobs[i].map, Jobs[i].into} =>
                   i = j - 1 /\ Jobs[i].kind = "paths" /\ Jobs[j].kind = "paths" /\ Jobs[i].scope = Jobs[j].scope
BY PartsAssumption

\* A loop goes through its map and the maps inside.
LEMMA MapsOfMeans ==
  ASSUME document \in Documents, NEW j \in DOMAIN Jobs, IsLoop(j)
  PROVE  /\ Jobs[j].map \in MapsOf(j) /\ MapsOf(j) \subseteq DOMAIN document.heap
         /\ \A m : m \in MapsOf(j) <=> m = Jobs[j].map \/ Child(document, Jobs[j].map, m)
<1>1. \A m : m \in MapsOf(j) <=> m = Jobs[j].map \/ Child(document, Jobs[j].map, m)
  BY DEF MapsOf, Child
<1>2. Jobs[j].map \in DOMAIN document.heap
  BY DocumentMeans
<1>3. \A m : Child(document, Jobs[j].map, m) => m \in DOMAIN document.heap
  BY <1>2, DocumentMeans
<1>. QED BY <1>1, <1>2, <1>3

\* The map of a part, or one inside, is rewritten by a loop that goes into that map, or
\* that goes through all of these.
LEMMA WrittenMeans ==
  ASSUME PassType, PassStack, stack # <<>>, NEW m, Rewritable(m), NEW j \in DOMAIN Jobs, IsLoop(j), m \in MapsOf(j)
  PROVE  \/ m = Jobs[j].map /\ Current.into = m
         \/ Current.kind = "map" /\ Current.map = Jobs[j].map /\ Current.into = Jobs[j].map /\ Child(document, Jobs[j].map, m)
<1>1. /\ document \in Documents /\ DOMAIN heap = DOMAIN document.heap
      /\ stack \in Seq([map : DOMAIN heap, pending : SUBSET Keys])
  BY DEF PassType
<1>2. /\ Top.map \in DOMAIN heap /\ Top = stack[Len(stack)] /\ Len(stack) \in Nat \ {0}
      /\ job \in DOMAIN Jobs /\ IsLoop(job) /\ Current = Jobs[job] /\ stack[1].map = Current.map
  BY <1>1, TopMeans, LastMeans
<1>3. /\ \A i \in 1 .. Len(stack) : i > 1 => Child(document, stack[i - 1].map, stack[i].map)
  BY DEF PassStack
<1>4. \A i \in 1 .. Len(stack) : stack[i].map \in DOMAIN heap
  <2>1. \A i \in 1 .. Len(stack) : stack[i] \in [map : DOMAIN heap, pending : SUBSET Keys]
    BY <1>1, RangeMeans
  <2>. QED BY <2>1
<1>5. Current.kind = "map" => Current.into = Current.map
  BY <1>2, JobAt
<1>6. Jobs[j].map \in DOMAIN document.heap /\ (m = Jobs[j].map \/ Child(document, Jobs[j].map, m))
  BY <1>1, MapsOfMeans, DocumentMeans
<1>7. \A n : Child(document, Jobs[j].map, n) => n # Jobs[job].map /\ n # Jobs[job].into
  BY <1>1, <1>2, <1>6, DocumentMeans
<1>8. CASE Current.kind = "paths" /\ m = Current.into
  BY <1>2, <1>6, <1>7, <1>8
<1>9. CASE Current.kind = "map" /\ m = Top.map
  <2>1. CASE Len(stack) = 1
    BY <1>2, <1>5, <1>6, <1>7, <1>9, <2>1
  <2>2. CASE Len(stack) # 1
    <3> DEFINE n == Len(stack)
    <3>0. n \in Nat \ {0} /\ n # 1
      BY <1>2, <2>2
    <3>1. n \in 1 .. n /\ n > 1 /\ n - 1 \in 1 .. n
      <4> HIDE DEF n
      <4>. QED BY <3>0
    <3>2. Child(document, stack[n - 1].map, m) /\ stack[n - 1].map \in DOMAIN heap
      BY <1>2, <1>3, <1>4, <1>9, <3>1
    <3> HIDE DEF n
    <3>3. m # Jobs[j].map
      BY <1>1, <3>2, DocumentMeans
    <3>4. stack[n - 1].map = Jobs[j].map
      BY <1>1, <1>6, <3>2, <3>3, DocumentMeans
    <3>5. n - 1 = 1
      <4> SUFFICES ASSUME n - 1 # 1 PROVE FALSE
        OBVIOUS
      <4> DEFINE q == n - 1
      <4>1. q \in 1 .. n /\ q > 1 /\ q - 1 \in 1 .. n
        BY <3>0, <3>1
      <4> HIDE DEF q
      <4>2. Child(document, stack[q - 1].map, stack[q].map) /\ stack[q - 1].map \in DOMAIN heap
        BY <1>3, <1>4, <4>1 DEF n
      <4>. QED BY <1>1, <3>4, <4>2, DocumentMeans DEF q
    <3>. QED BY <1>2, <1>5, <1>6, <1>9, <3>3, <3>4, <3>5
  <2>. QED BY <2>1, <2>2
<1>. QED BY <1>8, <1>9 DEF Rewritable

\* The attributes that a part sees are never rewritten while that part, or a later one,
\* is; the first part is that of the payload's attributes.
LEMMA ScopeSame ==
  ASSUME PassType, PassStack, stack # <<>>, NEW m, Rewritable(m), ChangesOnly(m), NEW j \in DOMAIN Jobs, j <= job, 1 < job
  PROVE  /\ ScopeOf(heap', Jobs[j].scope) = ScopeOf(heap, Jobs[j].scope)
         /\ SameRefs(heap, heap', ScopeOf(heap, Jobs[j].scope))
<1> DEFINE s == Jobs[j].scope
<1>1. /\ document \in Documents /\ DOMAIN heap = DOMAIN document.heap
      /\ \A n \in DOMAIN heap : \A k \in DOMAIN heap[n] :
           heap[n][k].kind = "map" => k \in DOMAIN document.heap[n] /\ heap[n][k] = document.heap[n][k]
  BY DEF PassType
<1>2. job \in DOMAIN Jobs /\ IsLoop(job) /\ Current = Jobs[job] /\ DOMAIN Jobs = 1 .. Len(Jobs) /\ Len(Jobs) \in Nat
  BY TopMeans, JobsMean
<1>3. ASSUME NEW a \in AttributesOf(s)
      PROVE  /\ a \in DOMAIN heap /\ heap'[a] = heap[a]
             /\ \A n : Child(document, a, n) => heap'[n] = heap[n]
  <2>1. PICK i \in DOMAIN Jobs : IsLoop(i) /\ Jobs[i].map = a /\ Jobs[i].kind = "map" /\ Jobs[i].into = a
                                 /\ (i < j \/ (i = j /\ j = 1))
    BY AttributesBefore
  <2>2. i < job
    BY <1>2, <2>1
  <2>3. Jobs[i].into # Jobs[job].map /\ Jobs[job].into # a
    BY <1>2, <2>1, <2>2, PartsMean
  <2>4. m \notin MapsOf(i)
    BY <1>2, <2>1, <2>3, WrittenMeans
  <2>5. \A n : n = a \/ Child(document, a, n) => n \in DOMAIN heap /\ n # m
    BY <1>1, <2>1, <2>4, MapsOfMeans
  <2>. QED BY <2>5 DEF ChangesOnly
<1>4. ScopeOf(heap', s) = ScopeOf(heap, s)
  <2>1. CASE s = 0
    BY <1>3, <2>1 DEF ScopeOf, AttributesOf
  <2>2. CASE s # 0
    <3>1. Parts.attributes \in AttributesOf(s) /\ Parts.actions[s].attributes \in AttributesOf(s)
      BY <2>2 DEF AttributesOf
    <3>2. heap'[Parts.attributes] = heap[Parts.attributes] /\ heap'[Parts.actions[s].attributes] = heap[Parts.actions[s].attributes]
      BY <1>3, <3>1
    <3>. QED BY <2>2, <3>2 DEF ScopeOf
  <2>. QED BY <2>1, <2>2
<1>5. ASSUME NEW k \in DOMAIN ScopeOf(heap, s), ScopeOf(heap, s)[k].kind = "map"
      PROVE  heap'[ScopeOf(heap, s)[k].ref] = heap[ScopeOf(heap, s)[k].ref]
  <2>1. PICK a \in AttributesOf(s) : k \in DOMAIN heap[a] /\ ScopeOf(heap, s)[k] = heap[a][k]
    BY ScopeEntries
  <2>2. Child(document, a, ScopeOf(heap, s)[k].ref)
    BY <1>1, <1>3, <1>5, <2>1 DEF Child
  <2>. QED BY <1>3, <2>2
<1>. QED BY <1>4, <1>5 DEF SameRefs

\* What references become depends on the scope and the maps it refers to.
LEMMA SameReplacements ==
  ASSUME NEW h, NEW g, NEW scope, SameRefs(h, g, scope), NEW ev
  PROVE  Replacements(ev, g, scope) = Replacements(ev, h, scope)
<1>1. CASE ev.type = "ATTR" /\ ev.name \in DOMAIN scope /\ scope[ev.name].kind = "map"
  <2>1. g[scope[ev.name].ref] = h[scope[ev.name].ref]
    BY <1>1 DEF SameRefs
  <2>. QED BY <1>1, <2>1 DEF Replacements
<1>2. CASE ~(ev.type = "ATTR" /\ ev.name \in DOMAIN scope /\ scope[ev.name].kind = "map")
  BY <1>2 DEF Replacements
<1>. QED BY <1>1, <1>2

\* So does whether they hold references in turn.
LEMMA SameClosed ==
  ASSUME NEW h, NEW g, NEW s, ScopeOf(g, s) = ScopeOf(h, s), SameRefs(h, g, ScopeOf(h, s))
  PROVE  /\ Settled(g, s) <=> Settled(h, s)
         /\ \A attrSub \in BOOLEAN : Closed(g, ScopeOf(g, s), attrSub) <=> Closed(h, ScopeOf(h, s), attrSub)
<1>1. \A t \in DOMAIN Reference : Replacements(Reference[t], g, ScopeOf(g, s)) = Replacements(Reference[t], h, ScopeOf(h, s))
  BY SameReplacements
<1>. QED BY <1>1 DEF Settled, Closed

(***************************************************************************)
(* References that are left, references that are unknown                   *)
(***************************************************************************)
\* A text holds references to replace, or unknown attributes, if it has such a token.
LEMMA AutomaticMeans ==
  ASSUME NEW text, NEW scope
  PROVE  /\ Automatic(text) = {} <=> Left(text, TRUE) = {}
         /\ Unknown(text, scope) <=> Missing(text, scope, TRUE)
<1>1. \A t \in DOMAIN Reference : Skipped(Reference[t], TRUE) <=> Reference[t].type \notin {"ATTR", "ENV"}
  BY DEF Skipped, ValidAutoSubstitution
<1>2. Automatic(text) = {} <=> Left(text, TRUE) = {}
  BY <1>1 DEF Automatic, Left, RangeOf, ValidAutoSubstitution
<1>3. Unknown(text, scope) <=> Missing(text, scope, TRUE)
  BY <1>1 DEF Unknown, Missing, Left, RangeOf, NotThere
<1>. QED BY <1>2, <1>3

\* When the attributes hold no references, nothing that is put into a text does.
LEMMA SettledMeans ==
  ASSUME NEW h, NEW s, Settled(h, s)
  PROVE  Closed(h, ScopeOf(h, s), TRUE)
<1> SUFFICES ASSUME NEW t \in DOMAIN Reference, NEW x \in Replacements(Reference[t], h, ScopeOf(h, s))
             PROVE  Left(x, TRUE) = {}
  BY DEF Closed
<1>1. Automatic(x) = {}
  BY DEF Settled
<1>. QED BY <1>1, AutomaticMeans

(***************************************************************************)
(* The steps, with what they write and why they stop                       *)
(***************************************************************************)
PathRewritten(k, r) == r.tag = "ok" /\ Rewrite(Current.into, k, r.out) /\ UNCHANGED <<names, job, status>>
PathVisited(k) == \E r \in PathResults(k) : PathRewritten(k, r)
\* An error is a name that cannot be had, or a path that names an unknown attribute.
Refused == Current.kind = "name" \/ (Current.kind = "paths" /\ stack # <<>> /\ \E k \in Top.pending : \E r \in PathResults(k) : r.tag = "error")

\* The steps of the pass, with their causes.
LEMMA StepKinds ==
  ASSUME PassType, PassStack, [PassNext]_passVars
  PROVE  /\ document' = document
         /\ \/ UNCHANGED passVars \/ Named \/ StartLoop \/ EndLoop \/ Finish
            \/ status = "running" /\ Stop("panic")
            \/ status = "running" /\ Stop("error") /\ Refused
            \/ /\ status = "running" /\ stack # <<>> /\ Current.kind = "map"
               /\ (\E k \in Top.pending : Pushes(k)) \/ (\E p : Changes(Top.map, p))
            \/ /\ status = "running" /\ stack # <<>> /\ Current.kind = "paths"
               /\ \E k \in Top.pending : PathVisited(k)
<1>1. document' = document
  BY DEF PassNext, passVars
<1>2. CASE UNCHANGED passVars
  BY <1>1, <1>2
<1>3. CASE SubstituteName
  <2>1. Between /\ Current.kind = "name"
    BY <1>3, Zenon DEF SubstituteName
  <2>4. PICK r \in NameResults :
           IF r.tag = "ok" /\ NameKey \in DOMAIN r.out
           THEN /\ names' = [names EXCEPT ![Current.ds] = r.out[NameKey]]
                /\ job' = job + 1
                /\ UNCHANGED <<heap, stack, status, revisits>>
           ELSE Stop(IF r.tag = "panic" THEN "panic" ELSE "error")
    BY <1>3, Zenon DEF SubstituteName, NameResults, NameKey
  <2>2. CASE r.tag = "ok" /\ NameKey \in DOMAIN r.out
    <3>1. Named
      BY <2>1, <2>2, <2>4 DEF Named, Between
    <3>. QED BY <1>1, <3>1
  <2>3. CASE ~(r.tag = "ok" /\ NameKey \in DOMAIN r.out)
    BY <1>1, <2>1, <2>3, <2>4 DEF Between, Refused
  <2>. QED BY <2>2, <2>3
<1>4. CASE stack # <<>> /\ \E k \in Top.pending : Visit(k)
  <2>1. PICK k \in Top.pending : Visit(k)
    BY <1>4
  <2>2. CASE VisitMap(k)
    <3>1. Current.kind = "map" /\ status = "running"
      BY <1>4, <2>1, <2>2, VisitMapMeans
    <3>2. Pushes(k) \/ Stop("panic") \/ Stop("error") \/ \E p : Changes(Top.map, p)
      BY <1>4, <2>1, <3>1, VisitChanges
    <3>3. status' # "error"
      BY <1>4, <2>1, <2>2, <3>1, VisitMapMeans DEF Stop, Pushes
    <3>4. ~Stop("error")
      BY <3>3 DEF Stop
    <3>. QED BY <1>1, <1>4, <2>1, <3>1, <3>2, <3>4
  <2>3. CASE VisitPath(k)
    <3>1. /\ Current.kind = "paths" /\ status = "running"
          /\ PathVisited(k) \/ ((\E r \in PathResults(k) : r.tag = "error") /\ Stop("error")) \/ Stop("panic")
      BY <1>4, <2>1, <2>3, VisitPathMeans DEF PathVisited, PathRewritten
    <3>. QED BY <1>1, <1>4, <2>1, <3>1 DEF Refused
  <2>. QED BY <2>1, <2>2, <2>3 DEF Visit
<1>5. CASE StartLoop \/ EndLoop \/ Finish
  BY <1>1, <1>5
<1>. QED BY <1>2, <1>3, <1>4, <1>5 DEF PassNext

\* What a visit to a path changes.
LEMMA PathChanges ==
  ASSUME PassType, PassStack, stack # <<>>, Current.kind = "paths", NEW k \in Top.pending,
         NEW r \in PathResults(k), PathRewritten(k, r)
  PROVE  /\ \E p : Changes(Current.into, p)
         /\ k \in Keys /\ k \in DOMAIN heap[Top.map] /\ heap[Top.map][k].text \in Texts
         /\ ValidScope(heap, ScopeOf(heap, Current.scope))
<1>1. Current.into \in DOMAIN heap
  BY TopMeans
<1>2. /\ k \in Keys /\ k \in DOMAIN heap[Top.map] /\ heap[Top.map][k].text \in Texts
      /\ ValidScope(heap, ScopeOf(heap, Current.scope))
  BY VisitedEntry
<1> DEFINE o == r.out
<1>3. o \in Outputs
  <2>1. TRUE \in BOOLEAN
    OBVIOUS
  <2> DEFINE text == heap[Top.map][k].text
             scope == ScopeOf(heap, Current.scope)
  <2>2. k \in Keys /\ text \in Texts /\ ValidScope(heap, scope) /\ r \in Expand(k, text, heap, scope, TRUE)
    BY <1>2 DEF PathResults
  <2> HIDE DEF text, scope
  <2>3. r \in Expansions
    BY <2>1, <2>2, ExpandMeans
  <2>. QED BY <2>3 DEF Expansions
<1>4. Rewrite(Current.into, k, o) /\ UNCHANGED <<names, job, status>>
  BY DEF PathRewritten
<1> HIDE DEF o
<1>5. \E p : Changes(Current.into, p)
  BY <1>1, <1>3, <1>4, RewriteChanges
<1>. QED BY <1>2, <1>5

(***************************************************************************)
(* Parts to come, and names                                                *)
(***************************************************************************)
\* The parts to come are left alone.
LEMMA FreshStep ==
  ASSUME PassType, PassStack, PassFresh, [PassNext]_passVars
  PROVE  PassFresh'
<1>0. /\ document \in Documents /\ job \in 1 .. Len(Jobs) + 1 /\ Len(Jobs) \in Nat /\ DOMAIN Jobs = 1 .. Len(Jobs)
      /\ DOMAIN heap = DOMAIN document.heap
  BY JobsMean DEF PassType
<1>1. document' = document
  BY StepCases
<1> SUFFICES ASSUME NEW j \in DOMAIN Jobs, IsLoop(j), job' < j \/ (job' = j /\ stack' = <<>>), NEW m \in MapsOf(j)
             PROVE  heap'[m] = document.heap[m]
  BY <1>1 DEF PassFresh, Untouched, MapsOf
<1>2. ASSUME job < j \/ (job = j /\ stack = <<>>) PROVE heap[m] = document.heap[m]
  BY <1>2 DEF PassFresh, Untouched
<1>3. CASE heap' = heap /\ ((job' = job /\ stack' = stack) \/ job' = job + 1)
  BY <1>0, <1>2, <1>3
<1>4. CASE UNCHANGED passVars \/ Named \/ Finish \/ \E tag \in {"error", "panic"} : Stop(tag)
  BY <1>3, <1>4 DEF passVars, Named, Finish, Stop
<1>5. CASE StartLoop
  BY <1>0, <1>2, <1>5, StartMeans
<1>6. CASE EndLoop
  <2>1. heap' = heap /\ job' = IF stack' = <<>> THEN job + 1 ELSE job
    BY <1>6, EndMeans
  <2>. QED BY <1>0, <1>2, <2>1
<1>7. ASSUME NEW k \in Top.pending, Pushes(k), stack # <<>> PROVE heap'[m] = document.heap[m]
  <2>1. stack' # <<>> /\ heap' = heap /\ job' = job
    BY <1>7, PushMeans DEF Pushes
  <2>. QED BY <1>0, <1>2, <2>1
<1>8. ASSUME NEW w, NEW p, Changes(w, p), Rewritable(w), stack # <<>> PROVE heap'[m] = document.heap[m]
  <2>1. DOMAIN heap' = DOMAIN heap /\ (\A n \in DOMAIN heap : n # w => heap'[n] = heap[n]) /\ job' = job
        /\ p \subseteq DOMAIN heap'[Top.map] /\ Remaining(p) /\ ValidMap(heap'[w])
    BY <1>8 DEF Changes
  <2>2. Top.map \in DOMAIN heap /\ job \in DOMAIN Jobs /\ IsLoop(job) /\ Current = Jobs[job]
    BY <1>8, TopMeans
  <2>3. stack' # <<>>
    <3>1. p \in SUBSET Keys
      <4>1. ValidMap(heap'[Top.map])
        BY <2>1, <2>2 DEF PassType
      <4>. QED BY <2>1, <4>1 DEF ValidMap
    <3>. QED BY <1>8, <2>1, <3>1, RemainingMeans
  <2>4. job < j
    BY <1>0, <2>1, <2>3
  <2>5. Jobs[job].into # Jobs[j].map
    BY <2>2, <2>4, PartsMean
  <2>6. w \notin MapsOf(j)
    BY <1>8, <2>2, <2>5, WrittenMeans
  <2>7. m \in DOMAIN heap
    BY <1>0, MapsOfMeans
  <2>. QED BY <1>2, <2>1, <2>4, <2>6, <2>7
<1>. QED BY <1>4, <1>5, <1>6, <1>7, <1>8, StepCases DEF Rewritable

\* The scope of a part that is done, or under way, after a change of one map.
LEMMA ScopeKept ==
  ASSUME PassType, PassStack, stack # <<>>, NEW m, NEW p, Rewritable(m), Changes(m, p), NEW j \in DOMAIN Jobs, j <= job, 1 < job
  PROVE  /\ ScopeOf(heap', Jobs[j].scope) = ScopeOf(heap, Jobs[j].scope)
         /\ Settled(heap', Jobs[j].scope) <=> Settled(heap, Jobs[j].scope)
         /\ \A attrSub \in BOOLEAN : Closed(heap', ScopeOf(heap', Jobs[j].scope), attrSub) <=>
                                     Closed(heap, ScopeOf(heap, Jobs[j].scope), attrSub)
<1>1. ChangesOnly(m)
  BY DEF Changes, ChangesOnly
<1>2. ScopeOf(heap', Jobs[j].scope) = ScopeOf(heap, Jobs[j].scope) /\ SameRefs(heap, heap', ScopeOf(heap, Jobs[j].scope))
  BY <1>1, ScopeSame
<1>. QED BY <1>2, SameClosed

\* The names that are done know their attributes and hold no references.
LEMMA NamesStep ==
  ASSUME PassType, PassStack, PassNames, [PassNext]_passVars
  PROVE  PassNames'
<1>0. /\ document \in Documents /\ job \in 1 .. Len(Jobs) + 1 /\ Len(Jobs) \in Nat /\ DOMAIN Jobs = 1 .. Len(Jobs)
      /\ DOMAIN names = DOMAIN document.names /\ \A j \in DOMAIN Jobs : ~IsLoop(j) => names[Jobs[j].ds] \in Texts
  BY JobsMean DEF PassType
<1>1. document' = document
  BY StepCases
<1> DEFINE Known(j, h) == ~Unknown(document.names[Jobs[j].ds], ScopeOf(h, Jobs[j].scope))
           NameDone(j, h, n) == Settled(h, Jobs[j].scope) => Automatic(n[Jobs[j].ds]) = {}
<1> SUFFICES ASSUME NEW j \in DOMAIN Jobs, Jobs[j].kind = "name"
             PROVE  /\ job' <= j => names'[Jobs[j].ds] = document.names[Jobs[j].ds]
                    /\ j < job' => Known(j, heap') /\ NameDone(j, heap', names')
  BY <1>1, Zenon DEF PassNames
<1>2. /\ job <= j => names[Jobs[j].ds] = document.names[Jobs[j].ds]
      /\ j < job => Known(j, heap) /\ NameDone(j, heap, names)
  BY DEF PassNames
<1>3. ~IsLoop(j)
  BY DEF IsLoop
<1> HIDE DEF Known, NameDone
<1>4. CASE heap' = heap /\ names' = names /\ (job' = job \/ (job' = job + 1 /\ IsLoop(job)))
  BY <1>0, <1>2, <1>3, <1>4
<1>5. CASE UNCHANGED passVars \/ Finish \/ \E tag \in {"error", "panic"} : Stop(tag)
  BY <1>4, <1>5 DEF passVars, Finish, Stop
<1>6. CASE StartLoop
  BY <1>4, <1>6, StartMeans
<1>7. CASE EndLoop
  <2>1. heap' = heap /\ names' = names /\ job' = (IF stack' = <<>> THEN job + 1 ELSE job) /\ stack # <<>>
    BY <1>7, EndMeans
  <2>2. IsLoop(job)
    BY <2>1, TopMeans
  <2>. QED BY <1>4, <2>1, <2>2
<1>8. ASSUME NEW k \in Top.pending, Pushes(k) PROVE heap' = heap /\ names' = names /\ job' = job
  BY <1>8 DEF Pushes
<1>9. CASE Named
  <2>0. PICK r \in NameResults : r.tag = "ok" /\ NameKey \in DOMAIN r.out
                                  /\ names' = [names EXCEPT ![Current.ds] = r.out[NameKey]]
    BY <1>9 DEF Named
  <2>1. /\ job <= Len(Jobs) /\ Current = Jobs[job] /\ Jobs[job].kind = "name" /\ r.tag = "ok"
        /\ NameKey \in DOMAIN r.out /\ names' = [names EXCEPT ![Jobs[job].ds] = r.out[NameKey]]
        /\ job' = job + 1 /\ heap' = heap
    BY <1>9, <2>0 DEF Named, Between, Current
  <2>2. job \in DOMAIN Jobs /\ ~IsLoop(job)
    BY <1>0, <2>1 DEF IsLoop
  <2>3. CASE j # job
    <3>1. Jobs[j].ds # Jobs[job].ds
      BY <1>0, <1>3, <2>2, <2>3, PartsMean
    <3>2. names'[Jobs[j].ds] = names[Jobs[j].ds]
      BY <1>0, <1>3, <2>1, <2>2, <3>1, DocumentMeans
    <3>3. NameDone(j, heap, names) => NameDone(j, heap', names')
      BY <2>1, <3>2 DEF NameDone
    <3>. QED BY <1>0, <1>2, <2>1, <2>2, <2>3, <3>2, <3>3
  <2>4. CASE j = job
    <3> DEFINE text == names[Jobs[j].ds]
               scope == ScopeOf(heap, Jobs[j].scope)
    <3>1. text \in Texts /\ text = document.names[Jobs[j].ds] /\ Jobs[j].ds \in DOMAIN names
      BY <1>0, <1>2, <1>3, <2>4, DocumentMeans
    <3>2. ValidScope(heap, scope) /\ NameKey \in Keys /\ TRUE \in BOOLEAN
      BY ScopeMeans, NameKeyMeans
    <3>3. r \in Expand(NameKey, text, heap, scope, TRUE)
      BY <2>0, <2>1, <2>4 DEF NameResults
    <3> HIDE DEF text, scope
    <3>4. /\ ~Missing(text, scope, TRUE)
          /\ Closed(heap, scope, TRUE) => Left(r.out[NameKey], TRUE) = {}
      <4>1. text \in Texts /\ r.tag = "ok" /\ NameKey \in DOMAIN r.out
        BY <2>1, <3>1
      <4>. QED BY <3>2, <3>3, <4>1, ExpandMeans
    <3>5. Known(j, heap')
      BY <2>1, <3>1, <3>4, AutomaticMeans DEF Known, scope
    <3>6. names'[Jobs[j].ds] = r.out[NameKey]
      BY <2>1, <2>4, <3>1
    <3>7. NameDone(j, heap', names')
      BY <2>1, <3>4, <3>6, AutomaticMeans, SettledMeans DEF NameDone, scope
    <3>. QED BY <1>0, <2>1, <2>4, <3>5, <3>7
  <2>. QED BY <2>3, <2>4
<1>10. ASSUME NEW w, NEW p, Changes(w, p), Rewritable(w), stack # <<>>
       PROVE  /\ job' <= j => names'[Jobs[j].ds] = document.names[Jobs[j].ds]
              /\ j < job' => Known(j, heap') /\ NameDone(j, heap', names')
  <2>1. names' = names /\ job' = job
    BY <1>10 DEF Changes
  <2>2. CASE j < job
    <3>1. /\ ScopeOf(heap', Jobs[j].scope) = ScopeOf(heap, Jobs[j].scope)
          /\ Settled(heap', Jobs[j].scope) <=> Settled(heap, Jobs[j].scope)
      BY <1>0, <1>10, <2>2, ScopeKept
    <3>. QED BY <1>0, <1>2, <2>1, <2>2, <3>1 DEF Known, NameDone
  <2>. QED BY <1>0, <1>2, <2>1, <2>2
<1>. QED BY <1>4, <1>5, <1>6, <1>7, <1>8, <1>9, <1>10, StepCases DEF Rewritable

(***************************************************************************)
(* Paths                                                                   *)
(***************************************************************************)
\* Extending is an order.
LEMMA ExtendsMeans ==
  ASSUME NEW x \in Keys, NEW y \in Keys
  PROVE  /\ Extends(y, x) /\ Extends(x, y) => x = y
         /\ \A z \in Keys : Extends(z, y) /\ Extends(y, x) => Extends(z, x)
         /\ Extends(y, x) /\ x # y => Added(y, x)
<1>1. Len(x) \in Nat /\ Len(y) \in Nat
  BY DEF Keys, Texts
<1>2. ASSUME Extends(y, x), Extends(x, y) PROVE x = y
  <2> SUFFICES ASSUME Added(y, x), Added(x, y) PROVE FALSE
    BY <1>2 DEF Extends
  <2>1. Len(x) + 1 <= Len(y) /\ Len(y) + 1 <= Len(x)
    BY AddedMeans
  <2>. QED BY <1>1, <2>1
<1>3. ASSUME NEW z \in Keys, Extends(z, y), Extends(y, x) PROVE Extends(z, x)
  <2> SUFFICES ASSUME Added(z, y), Added(y, x) PROVE Added(z, x)
    BY <1>3 DEF Extends
  <2>1. Len(y) + 1 <= Len(z) /\ \A i \in 1 .. Len(y) : z[i] = y[i]
    BY AddedMeans
  <2>2. Len(x) + 1 <= Len(y) /\ y[Len(x) + 1] = "-" /\ \A i \in 1 .. Len(x) : y[i] = x[i]
    BY AddedMeans
  <2>3. Len(z) \in Nat
    BY DEF Keys, Texts
  <2> DEFINE a == Len(x)
             b == Len(y)
             c == Len(z)
  <2> HIDE DEF a, b, c
  <2>4. a \in Nat /\ b \in Nat /\ c \in Nat /\ a + 1 <= b /\ b + 1 <= c
    BY <1>1, <2>1, <2>2, <2>3 DEF a, b, c
  <2>5. a + 1 \in 1 .. b /\ a + 1 <= c /\ \A i \in 1 .. a : i \in 1 .. b
    BY <2>4
  <2>6. a + 1 <= c /\ z[a + 1] = "-" /\ \A i \in 1 .. a : z[i] = x[i]
    BY <2>1, <2>2, <2>5 DEF a, b
  <2>. QED BY <2>6, AddedMeans DEF a, c
<1>4. Extends(y, x) /\ x # y => Added(y, x)
  BY DEF Extends
<1>. QED BY <1>2, <1>3, <1>4

\* The first part goes through the payload's attributes.
LEMMA PathsLater ==
  ASSUME NEW j \in DOMAIN Jobs, Jobs[j].kind = "paths"
  PROVE  j \in Nat /\ 1 < j /\ IsLoop(j)
<1>1. Jobs[1].kind = "map" /\ DOMAIN Jobs = 1 .. Len(Jobs) /\ Len(Jobs) \in Nat
  BY JobsMean DEF MapJob
<1>. QED BY <1>1 DEF IsLoop

\* What a visit to a path leaves.
LEMMA PathVisitMeans ==
  ASSUME PassType, PassStack, stack # <<>>, Current.kind = "paths", NEW k \in Top.pending,
         NEW r \in PathResults(k), PathRewritten(k, r)
  PROVE  LET m == Current.map
             w == Current.into
             o == r.out
         IN
         /\ m \in DOMAIN heap /\ w \in DOMAIN heap /\ k \in DOMAIN heap[m] /\ k \in stack[1].pending /\ Rewritable(w)
         /\ ~Unknown(heap[m][k].text, ScopeOf(heap, Current.scope))
         /\ k \in Keys /\ \A y \in DOMAIN o : y \in Keys /\ Extends(y, k)
         /\ Settled(heap, Current.scope) => \A y \in DOMAIN o : Automatic(o[y]) = {}
         /\ \A n \in DOMAIN heap : n # w => heap'[n] = heap[n]
         /\ DOMAIN heap'[w] = (DOMAIN heap[w] \ {k}) \cup DOMAIN o
         /\ \A x \in DOMAIN o : heap'[w][x].text = o[x]
         /\ \A x \in DOMAIN heap[w] : x # k /\ x \notin DOMAIN o => heap'[w][x] = heap[w][x]
         /\ stack' # <<>> /\ job' = job /\ stack[1].pending \ {k} \subseteq stack'[1].pending
         /\ IF m = w THEN stack'[1].pending \subseteq (stack[1].pending \ {k}) \cup (DOMAIN o \ (DOMAIN heap[m] \ {k}))
                     ELSE stack'[1].pending = stack[1].pending \ {k}
<1> DEFINE m == Current.map
           w == Current.into
           o == r.out
           scope == ScopeOf(heap, Current.scope)
           text == heap[m][k].text
<1>1. /\ m \in DOMAIN heap /\ w \in DOMAIN heap /\ Len(stack) = 1 /\ Top = stack[1] /\ Top.map = m
      /\ Top.pending \subseteq Keys
  BY TopMeans
<1>2. k \in Keys /\ k \in DOMAIN heap[m] /\ text \in Texts /\ ValidScope(heap, scope)
  BY <1>1, PathChanges
<1>3. r \in Expand(k, text, heap, scope, TRUE) /\ TRUE \in BOOLEAN
  BY <1>1 DEF PathResults
<1>4. r.tag = "ok" /\ Rewrite(w, k, o) /\ UNCHANGED <<names, job, status>>
  BY DEF PathRewritten
<1>5. \E p : Changes(w, p)
  BY PathChanges
<1> HIDE DEF text, scope
<1>6. /\ \A y \in DOMAIN o : y \in Keys /\ Extends(y, k)
      /\ ~Missing(text, scope, TRUE)
      /\ Closed(heap, scope, TRUE) => \A y \in DOMAIN o : Left(o[y], TRUE) = {}
  BY <1>2, <1>3, <1>4, ExpandMeans
<1>7. ~Unknown(text, scope)
  BY <1>6, AutomaticMeans
<1>8. Settled(heap, Current.scope) => \A y \in DOMAIN o : Automatic(o[y]) = {}
  BY <1>6, AutomaticMeans, SettledMeans DEF scope
<1> HIDE DEF o, m, w
<1>9. /\ DOMAIN heap' = DOMAIN heap /\ \A n \in DOMAIN heap : n # w => heap'[n] = heap[n]
      /\ DOMAIN heap'[w] = (DOMAIN heap[w] \ {k}) \cup DOMAIN o
      /\ \A x \in DOMAIN o : heap'[w][x] = Text(o[x])
      /\ \A x \in DOMAIN heap[w] : x # k /\ x \notin DOMAIN o => heap'[w][x] = heap[w][x]
      /\ \E p : /\ Remaining(p) /\ Top.pending \ {k} \subseteq p
                /\ IF w = Top.map THEN p \subseteq (Top.pending \ {k}) \cup (DOMAIN o \ (DOMAIN heap[w] \ {k}))
                   ELSE p = Top.pending \ {k}
  BY <1>1, <1>4, RewriteMeans
<1>10. PICK p : /\ Remaining(p) /\ Top.pending \ {k} \subseteq p
                /\ IF w = Top.map THEN p \subseteq (Top.pending \ {k}) \cup (DOMAIN o \ (DOMAIN heap[w] \ {k}))
                   ELSE p = Top.pending \ {k}
  BY <1>9
<1>11. p \in SUBSET Keys
  BY <1>1, <1>6, <1>10
<1>12. stack' # <<>> /\ stack'[1] = [map |-> Top.map, pending |-> p]
  BY <1>1, <1>10, <1>11, RemainingMeans
<1>13. ASSUME NEW x \in DOMAIN o PROVE heap'[w][x].text = o[x]
  <2>1. heap'[w][x] = Text(o[x])
    BY <1>9
  <2>. QED BY <2>1 DEF Text
<1>14. Rewritable(w)
  BY DEF Rewritable, w
<1>15. IF m = w THEN stack'[1].pending \subseteq (stack[1].pending \ {k}) \cup (DOMAIN o \ (DOMAIN heap[m] \ {k}))
       ELSE stack'[1].pending = stack[1].pending \ {k}
  BY <1>1, <1>10, <1>12
<1>16. /\ m \in DOMAIN heap /\ w \in DOMAIN heap /\ k \in DOMAIN heap[m] /\ k \in stack[1].pending
       /\ job' = job /\ stack[1].pending \ {k} \subseteq stack'[1].pending
  BY <1>1, <1>2, <1>4, <1>10, <1>12
<1>17. /\ \A y \in DOMAIN o : y \in Keys /\ Extends(y, k)
       /\ \A n \in DOMAIN heap : n # w => heap'[n] = heap[n]
       /\ DOMAIN heap'[w] = (DOMAIN heap[w] \ {k}) \cup DOMAIN o
       /\ \A x \in DOMAIN heap[w] : x # k /\ x \notin DOMAIN o => heap'[w][x] = heap[w][x]
  BY <1>6, <1>9, Zenon
<1>18. ~Unknown(heap[m][k].text, ScopeOf(heap, Current.scope)) /\ k \in Keys /\ stack' # <<>>
  BY <1>2, <1>7, <1>12, Zenon DEF text, scope
<1>. QED BY <1>8, <1>13, <1>14, <1>15, <1>16, <1>17, <1>18, Zenon DEF m, w, o

\* What is known of paths that are done is kept when they are.
LEMMA DoneKept ==
  ASSUME NEW j \in DOMAIN Jobs, PathsDone(j, Jobs[j].map), document' = document,
         ScopeOf(heap', Jobs[j].scope) = ScopeOf(heap, Jobs[j].scope),
         Settled(heap', Jobs[j].scope) <=> Settled(heap, Jobs[j].scope),
         Settled(heap, Jobs[j].scope) /\ Jobs[j].into = Jobs[j].map /\ Resolved(Jobs[j].map) =>
           \A x \in DOMAIN heap'[Jobs[j].map] : Automatic(heap'[Jobs[j].map][x].text) = {}
  PROVE  PathsDone(j, Jobs[j].map)'
<1>1. Apart(Jobs[j].map)' <=> Apart(Jobs[j].map)
  BY DEF Apart
<1>. QED BY <1>1 DEF PathsDone, Resolved

\* What is to be known of paths after a step.
UnderWayAfter(j, m, new) ==
  /\ \A x \in DOMAIN heap'[m] : \E l \in DOMAIN document.heap[m] : Extends(x, l)
  /\ \A l \in new : \/ l \in DOMAIN document.heap[m] /\ heap'[m][l] = document.heap[m][l]
                    \/ Settled(heap', Jobs[j].scope) => Automatic(heap'[m][l].text) = {}
  /\ Apart(m) => \A l \in DOMAIN document.heap[m] :
       \/ l \in new /\ heap'[m][l] = document.heap[m][l]
       \/ ~Unknown(document.heap[m][l].text, ScopeOf(heap', Jobs[j].scope))
  /\ Settled(heap', Jobs[j].scope) /\ Jobs[j].into = m =>
       \A l \in DOMAIN heap'[m] \ new : Automatic(heap'[m][l].text) = {}

\* This is it.
LEMMA UnderWayNext ==
  ASSUME NEW j \in DOMAIN Jobs, NEW m, document' = document, UnderWayAfter(j, m, stack'[1].pending)
  PROVE  PathsUnderWay(j, m, stack[1].pending)'
<1>1. Apart(m)' <=> Apart(m)
  BY DEF Apart
<1>. QED BY <1>1 DEF PathsUnderWay, Original, UnderWayAfter

\* A visit keeps what is known of the paths.
LEMMA PathVisitKeeps ==
  ASSUME PassType, PassStack, PassPaths, stack # <<>>, Current.kind = "paths", NEW k \in Top.pending,
         NEW r \in PathResults(k), PathRewritten(k, r), document' = document
  PROVE  PassPaths'
<1> DEFINE m == Current.map
           w == Current.into
           o == r.out
           s == Current.scope
<1>0. /\ job \in DOMAIN Jobs /\ IsLoop(job) /\ Current = Jobs[job] /\ Jobs[job].kind = "paths" /\ 1 < job
      /\ DOMAIN Jobs \subseteq Nat /\ document \in Documents
      /\ \A n \in DOMAIN heap : \A x \in DOMAIN heap[n] : x \in Keys
      /\ \A x \in DOMAIN document.heap[m] : x \in Keys
  <2>1. job \in DOMAIN Jobs /\ Current = Jobs[job] /\ IsLoop(job) /\ document \in Documents
    BY TopMeans DEF PassType
  <2>2. DOMAIN Jobs \subseteq Nat /\ 1 < job
    BY <2>1, PathsLater, JobsMean
  <2>3. \A n \in DOMAIN heap : \A x \in DOMAIN heap[n] : x \in Keys
    BY DEF PassType, ValidMap
  <2>4. \A x \in DOMAIN document.heap[m] : x \in Keys
    <3>1. m \in DOMAIN document.heap /\ ValidMap(document.heap[m])
      BY <2>1, DocumentMeans
    <3>. QED BY <3>1 DEF ValidMap
  <2>. QED BY <2>1, <2>2, <2>3, <2>4
<1>1. /\ m \in DOMAIN heap /\ w \in DOMAIN heap /\ k \in DOMAIN heap[m] /\ k \in stack[1].pending /\ Rewritable(w)
      /\ ~Unknown(heap[m][k].text, ScopeOf(heap, s))
      /\ k \in Keys /\ \A y \in DOMAIN o : y \in Keys /\ Extends(y, k)
      /\ Settled(heap, s) => \A y \in DOMAIN o : Automatic(o[y]) = {}
      /\ \A n \in DOMAIN heap : n # w => heap'[n] = heap[n]
      /\ DOMAIN heap'[w] = (DOMAIN heap[w] \ {k}) \cup DOMAIN o
      /\ \A x \in DOMAIN o : heap'[w][x].text = o[x]
      /\ \A x \in DOMAIN heap[w] : x # k /\ x \notin DOMAIN o => heap'[w][x] = heap[w][x]
      /\ stack' # <<>> /\ job' = job /\ stack[1].pending \ {k} \subseteq stack'[1].pending
      /\ IF m = w THEN stack'[1].pending \subseteq (stack[1].pending \ {k}) \cup (DOMAIN o \ (DOMAIN heap[m] \ {k}))
                  ELSE stack'[1].pending = stack[1].pending \ {k}
  BY PathVisitMeans, Zenon
<1> HIDE DEF o
<1>2. ASSUME NEW j \in DOMAIN Jobs, j <= job
      PROVE  /\ ScopeOf(heap', Jobs[j].scope) = ScopeOf(heap, Jobs[j].scope)
             /\ Settled(heap', Jobs[j].scope) <=> Settled(heap, Jobs[j].scope)
  <2>1. PICK p : Changes(w, p)
    BY PathChanges
  <2>. QED BY <1>0, <1>1, <1>2, <2>1, ScopeKept
<1>3. ASSUME NEW j \in DOMAIN Jobs, Jobs[j].kind = "paths", j < job
      PROVE  PathsDone(j, Jobs[j].map)'
  <2> DEFINE n == Jobs[j].map
  <2>1. PathsDone(j, n)
    BY <1>3 DEF PassPaths
  <2>2. n \in DOMAIN heap
    <3>1. IsLoop(j)
      BY <1>3 DEF IsLoop
    <3>. QED BY <1>0, <3>1, DocumentMeans DEF PassType
  <2>3. ASSUME Settled(heap, Jobs[j].scope), Resolved(n), NEW x \in DOMAIN heap'[n]
        PROVE  Automatic(heap'[n][x].text) = {}
    <3>1. CASE n # w
      BY <1>1, <2>2, <2>3, <3>1 DEF Resolved
    <3>2. CASE n = w
      <4>1. Jobs[j].scope = s
        <5>1. IsLoop(j) /\ Jobs[job].into \in {Jobs[j].map, Jobs[j].into}
          BY <1>0, <1>3, <3>2 DEF IsLoop
        <5>. QED BY <1>0, <1>3, <5>1, PartsMean
      <4>2. CASE x \in DOMAIN o
        BY <1>1, <2>3, <3>2, <4>1, <4>2
      <4>3. CASE x \notin DOMAIN o
        <5>1. x \in DOMAIN heap[w] /\ x # k
          BY <1>1, <2>3, <3>2, <4>3
        <5>. QED BY <1>1, <2>3, <3>2, <4>3, <5>1 DEF Resolved
      <4>. QED BY <4>2, <4>3
    <3>. QED BY <3>1, <3>2
  <2> HIDE DEF n
  <2>4. /\ ScopeOf(heap', Jobs[j].scope) = ScopeOf(heap, Jobs[j].scope)
        /\ Settled(heap', Jobs[j].scope) <=> Settled(heap, Jobs[j].scope)
    BY <1>0, <1>2, <1>3
  <2>. QED BY <2>1, <2>3, <2>4, DoneKept DEF n
<1>4. PathsUnderWay(job, m, stack[1].pending)
  BY <1>0 DEF PassPaths
<1> DEFINE old == stack[1].pending
           new == stack'[1].pending
           scope == ScopeOf(heap, s)
           ok(h, x) == Automatic(h[m][x].text) = {}
<1>5. /\ \A x \in DOMAIN heap[m] : \E l \in DOMAIN document.heap[m] : Extends(x, l)
      /\ \A l \in old : Original(m, l) \/ (Settled(heap, s) => ok(heap, l))
      /\ Apart(m) => \A l \in DOMAIN document.heap[m] :
           (l \in old /\ Original(m, l)) \/ ~Unknown(document.heap[m][l].text, scope)
      /\ Settled(heap, s) /\ w = m => \A l \in DOMAIN heap[m] \ old : ok(heap, l)
  BY <1>0, <1>4 DEF PathsUnderWay
<1>6. old \subseteq DOMAIN heap[m]
  BY TopMeans
<1>7. ASSUME NEW x \in DOMAIN heap'[m] PROVE \E l \in DOMAIN document.heap[m] : Extends(x, l)
  <2>1. CASE x \in DOMAIN heap[m]
    BY <1>5, <2>1
  <2>2. CASE x \notin DOMAIN heap[m]
    <3>1. x \in DOMAIN o
      BY <1>1, <1>7, <2>2
    <3>2. PICK l \in DOMAIN document.heap[m] : Extends(k, l)
      BY <1>1, <1>5
    <3>3. x \in Keys /\ Extends(x, k) /\ l \in Keys /\ k \in Keys
      BY <1>0, <1>1, <3>1, <3>2
    <3>. QED BY <3>2, <3>3, ExtendsMeans
  <2>. QED BY <2>1, <2>2
<1>8. \A x \in DOMAIN heap[m] : x # k /\ (x \notin DOMAIN o \/ w # m) => x \in DOMAIN heap'[m] /\ heap'[m][x] = heap[m][x]
  BY <1>1
<1>9. ASSUME NEW l \in new PROVE (l \in DOMAIN document.heap[m] /\ heap'[m][l] = document.heap[m][l]) \/ (Settled(heap, s) => ok(heap', l))
  <2>1. CASE w = m /\ l \in DOMAIN o
    BY <1>1, <2>1
  <2>2. CASE ~(w = m /\ l \in DOMAIN o)
    <3>1. l \in old /\ l # k
      BY <1>1, <1>9, <2>2
    <3>2. heap'[m][l] = heap[m][l]
      BY <1>6, <1>8, <2>2, <3>1
    <3>. QED BY <1>5, <3>1, <3>2 DEF Original
  <2>. QED BY <2>1, <2>2
<1>10. ASSUME Apart(m), NEW l \in DOMAIN document.heap[m], Unknown(document.heap[m][l].text, scope)
       PROVE  l \in new /\ heap'[m][l] = document.heap[m][l]
  <2>1. l \in old /\ heap[m][l] = document.heap[m][l]
    BY <1>5, <1>10 DEF Original
  <2>2. l # k
    BY <1>1, <1>10, <2>1
  <2>3. l \notin DOMAIN o
    <3> SUFFICES ASSUME l \in DOMAIN o PROVE FALSE
      OBVIOUS
    <3>1. PICK x \in DOMAIN document.heap[m] : Extends(k, x)
      BY <1>1, <1>5
    <3>2. l \in Keys /\ Extends(l, k) /\ x \in Keys /\ k \in Keys
      BY <1>0, <1>1, <3>1
    <3>3. Extends(l, x)
      BY <3>1, <3>2, ExtendsMeans
    <3>4. ~Added(l, x)
      BY <1>10, <3>1 DEF Apart
    <3>5. x = l
      BY <3>2, <3>3, <3>4, ExtendsMeans
    <3>. QED BY <2>2, <3>1, <3>2, <3>5, ExtendsMeans
  <2>. QED BY <1>1, <1>6, <1>8, <2>1, <2>2, <2>3
<1>11. ASSUME Settled(heap, s), w = m, NEW l \in DOMAIN heap'[m] \ new PROVE ok(heap', l)
  <2>1. CASE l \in DOMAIN o
    BY <1>1, <1>11, <2>1
  <2>2. CASE l \notin DOMAIN o
    <3>1. l \in DOMAIN heap[m] /\ l # k
      BY <1>1, <1>11, <2>2
    <3>2. l \notin old
      BY <1>1, <1>11, <3>1
    <3>. QED BY <1>5, <1>8, <1>11, <2>2, <3>1, <3>2
  <2>. QED BY <2>1, <2>2
<1>12. ScopeOf(heap', s) = scope /\ (Settled(heap', s) <=> Settled(heap, s))
  BY <1>0, <1>2
<1>13. ASSUME NEW j \in DOMAIN Jobs, j = job PROVE PathsUnderWay(j, Jobs[j].map, stack[1].pending)'
  <2> DEFINE d == document.heap[m]
             Known(x) == ~Unknown(d[x].text, scope)
             Same(x) == x \in DOMAIN d /\ heap'[m][x] = d[x]
  <2>1. /\ \A x \in DOMAIN heap'[m] : \E l \in DOMAIN d : Extends(x, l)
        /\ \A l \in new : Same(l) \/ (Settled(heap', s) => ok(heap', l))
        /\ Apart(m) => \A l \in DOMAIN d : (l \in new /\ Same(l)) \/ Known(l)
        /\ Settled(heap', s) /\ w = m => \A l \in DOMAIN heap'[m] \ new : ok(heap', l)
    <3> HIDE DEF new, old, scope, ok
    <3>1. \A l \in new : Same(l) \/ (Settled(heap', s) => ok(heap', l))
      BY <1>9, <1>12
    <3>2. Apart(m) => \A l \in DOMAIN d : (l \in new /\ Same(l)) \/ Known(l)
      BY <1>10
    <3>3. Settled(heap', s) /\ w = m => \A l \in DOMAIN heap'[m] \ new : ok(heap', l)
      BY <1>11, <1>12
    <3>. QED BY <1>7, <3>1, <3>2, <3>3
  <2> HIDE DEF ok
  <2>2. ASSUME NEW i \in DOMAIN Jobs, i = job, NEW q, q = m, NEW p, p = new
        PROVE  PathsUnderWay(i, q, stack[1].pending)'
    <3>1. Jobs[i].scope = s /\ Jobs[i].into = w
      BY <1>0, <2>2
    <3> HIDE DEF m, w, new, old, scope, s
    <3>2. /\ \A x \in DOMAIN heap'[q] : \E l \in DOMAIN document.heap[q] : Extends(x, l)
          /\ \A l \in p : \/ l \in DOMAIN document.heap[q] /\ heap'[q][l] = document.heap[q][l]
                          \/ Settled(heap', Jobs[i].scope) => Automatic(heap'[q][l].text) = {}
          /\ Settled(heap', Jobs[i].scope) /\ Jobs[i].into = q =>
               \A l \in DOMAIN heap'[q] \ p : Automatic(heap'[q][l].text) = {}
      BY <2>1, <2>2, <3>1 DEF ok
    <3>3. Apart(q) => \A l \in DOMAIN document.heap[q] :
            \/ l \in p /\ heap'[q][l] = document.heap[q][l]
            \/ ~Unknown(document.heap[q][l].text, ScopeOf(heap', Jobs[i].scope))
      BY <1>12, <2>1, <2>2, <3>1
    <3>4. stack'[1].pending = p
      BY <2>2 DEF new
    <3>5. UnderWayAfter(i, q, stack'[1].pending)
      BY <3>2, <3>3, <3>4, Zenon DEF UnderWayAfter
    <3>. QED BY <3>5, UnderWayNext
  <2>. QED BY <1>0, <1>13, <2>2
<1>14. ASSUME NEW j \in DOMAIN Jobs, Jobs[j].kind = "paths"
       PROVE  (/\ j < job => PathsDone(j, Jobs[j].map)
               /\ j = job /\ stack # <<>> => PathsUnderWay(j, Jobs[j].map, stack[1].pending))'
  <2>1. job' = job
    BY <1>1
  <2>2. CASE j < job
    BY <1>0, <1>3, <1>14, <2>1, <2>2
  <2>3. CASE j = job
    BY <1>0, <1>13, <1>14, <2>1, <2>3
  <2>. QED BY <1>0, <2>1, <2>2, <2>3
<1>. QED BY <1>14 DEF PassPaths

\* Every step keeps what is known of the paths.
LEMMA PathsStep ==
  ASSUME PassType, PassStack, PassFresh, PassPaths, [PassNext]_passVars
  PROVE  PassPaths'
<1>0. /\ document \in Documents /\ job \in 1 .. Len(Jobs) + 1 /\ Len(Jobs) \in Nat /\ DOMAIN Jobs = 1 .. Len(Jobs)
      /\ document' = document /\ DOMAIN heap = DOMAIN document.heap
  BY JobsMean, StepKinds DEF PassType
<1>1. ASSUME NEW j \in DOMAIN Jobs, Jobs[j].kind = "paths" PROVE 1 < j /\ IsLoop(j) /\ Jobs[j].map \in DOMAIN heap
  BY <1>0, <1>1, PathsLater, DocumentMeans
<1>2. ASSUME NEW j \in DOMAIN Jobs, Jobs[j].kind = "paths", j < job, heap' = heap PROVE PathsDone(j, Jobs[j].map)'
  <2>1. PathsDone(j, Jobs[j].map)
    BY <1>2 DEF PassPaths
  <2>. QED BY <1>0, <1>2, <2>1, DoneKept DEF Resolved
<1>3. CASE heap' = heap /\ ((job' = job /\ (stack' = stack \/ Jobs[job].kind = "map")) \/ (job' = job + 1 /\ stack' = <<>> /\ Jobs[job].kind \in {"map", "name"}))
  <2> SUFFICES ASSUME NEW j \in DOMAIN Jobs, Jobs[j].kind = "paths"
               PROVE  /\ j < job' => PathsDone(j, Jobs[j].map)'
                      /\ j = job' /\ stack' # <<>> => PathsUnderWay(j, Jobs[j].map, stack[1].pending)'
    BY DEF PassPaths
  <2>1. j < job' => PathsDone(j, Jobs[j].map)'
    BY <1>0, <1>2, <1>3
  <2>2. ASSUME j = job', stack' # <<>> PROVE PathsUnderWay(j, Jobs[j].map, stack[1].pending)'
    <3>1. heap' = heap /\ job' = job /\ stack' = stack
      BY <1>3, <2>2
    <3>2. PathsUnderWay(j, Jobs[j].map, stack[1].pending)
      BY <2>2, <3>1 DEF PassPaths
    <3>3. UnderWayAfter(j, Jobs[j].map, stack'[1].pending)
      BY <3>1, <3>2 DEF PathsUnderWay, UnderWayAfter, Original
    <3>. QED BY <1>0, <3>3, UnderWayNext
  <2>. QED BY <2>1, <2>2
<1>4. CASE UNCHANGED passVars \/ Finish \/ Stop("panic") \/ Stop("error")
  BY <1>3, <1>4 DEF passVars, Finish, Stop
<1>5. CASE Named
  BY <1>0, <1>3, <1>5 DEF Named, Between, Current
<1>6. CASE Current.kind = "map" /\ stack # <<>> /\ \E k \in Top.pending : Pushes(k)
  BY <1>3, <1>6 DEF Pushes, Current
<1>7. CASE StartLoop
  <2>1. /\ job \in DOMAIN Jobs /\ stack'[1] = [map |-> Jobs[job].map, pending |-> DOMAIN heap[Jobs[job].map]]
        /\ heap' = heap /\ job' = job /\ stack = <<>>
    BY <1>7, StartMeans DEF Current
  <2> SUFFICES ASSUME NEW j \in DOMAIN Jobs, Jobs[j].kind = "paths"
               PROVE  /\ j < job' => PathsDone(j, Jobs[j].map)'
                      /\ j = job' /\ stack' # <<>> => PathsUnderWay(j, Jobs[j].map, stack[1].pending)'
    BY DEF PassPaths
  <2>2. j < job' => PathsDone(j, Jobs[j].map)'
    BY <1>0, <1>2, <2>1
  <2>3. ASSUME j = job' PROVE PathsUnderWay(j, Jobs[j].map, stack[1].pending)'
    <3> DEFINE m == Jobs[j].map
    <3>1. m \in MapsOf(j) /\ IsLoop(j)
      BY <1>0, <1>1, MapsOfMeans
    <3>2. heap[m] = document.heap[m] /\ heap'[m] = document.heap[m] /\ stack'[1].pending = DOMAIN document.heap[m]
      BY <2>1, <2>3, <3>1 DEF PassFresh, Untouched
    <3>3. ASSUME NEW x \in DOMAIN document.heap[m] PROVE Extends(x, x)
      <4>1. x \in Keys
        BY <1>0, <1>1, <3>3, DocumentMeans DEF ValidMap
      <4>. QED BY <4>1, ExtendsMore
    <3> HIDE DEF m
    <3>4. UnderWayAfter(j, m, stack'[1].pending)
      BY <3>2, <3>3 DEF UnderWayAfter
    <3>. QED BY <1>0, <3>4, UnderWayNext DEF m
  <2>. QED BY <2>2, <2>3
<1>8. CASE EndLoop
  <2>1. /\ stack # <<>> /\ heap' = heap /\ job' = (IF stack' = <<>> THEN job + 1 ELSE job) /\ Top.pending = {}
        /\ Len(stack) \in Nat \ {0} /\ Len(stack') = Len(stack) - 1 /\ stack' \in Seq(LoopsOf(heap))
    BY <1>8, EndMeans
  <2>2. job \in DOMAIN Jobs /\ Current = Jobs[job] /\ IsLoop(job) /\ (Current.kind = "paths" => Len(stack) = 1 /\ Top = stack[1])
    BY <2>1, TopMeans
  <2>3. CASE Jobs[job].kind = "map"
    BY <1>3, <2>1, <2>3
  <2>4. CASE Jobs[job].kind = "paths"
    <3>1. stack' = <<>> /\ job' = job + 1 /\ stack[1].pending = {}
      <4>0. stack[1].pending = {} /\ Len(stack) = 1
        BY <2>1, <2>2, <2>4
      <4>1. Len(stack') = 0 /\ stack[1].pending = {}
        BY <2>1, <4>0
      <4>2. stack' = <<>>
        BY <2>1, <4>1, EmptySeq
      <4>. QED BY <2>1, <4>1, <4>2
    <3> SUFFICES ASSUME NEW j \in DOMAIN Jobs, Jobs[j].kind = "paths", j < job'
                 PROVE  PathsDone(j, Jobs[j].map)'
      BY <3>1 DEF PassPaths
    <3>2. CASE j = job
      <4>1. PathsUnderWay(j, Jobs[j].map, {})
        BY <2>1, <3>1, <3>2 DEF PassPaths
      <4>2. PathsDone(j, Jobs[j].map)
        BY <4>1 DEF PathsUnderWay, PathsDone, Resolved
      <4>. QED BY <1>0, <2>1, <4>2, DoneKept DEF Resolved
    <3>3. CASE j # job
      <4>1. j < job
        BY <1>0, <3>1, <3>3
      <4>. QED BY <1>2, <2>1, <4>1
    <3>. QED BY <3>2, <3>3
  <2>. QED BY <2>2, <2>3, <2>4, JobAt DEF IsLoop
<1>9. ASSUME stack # <<>>, Current.kind = "map", NEW p, Changes(Top.map, p) PROVE PassPaths'
  <2>1. /\ job' = job /\ DOMAIN heap' = DOMAIN heap /\ \A n \in DOMAIN heap : n # Top.map => heap'[n] = heap[n]
    BY <1>9 DEF Changes
  <2>2. job \in DOMAIN Jobs /\ Current = Jobs[job] /\ IsLoop(job) /\ Rewritable(Top.map) /\ Jobs[job].kind = "map"
        /\ Jobs[job].into = Jobs[job].map
    BY <1>9, TopMeans, JobAt DEF Rewritable
  <2> SUFFICES ASSUME NEW j \in DOMAIN Jobs, Jobs[j].kind = "paths", j < job
               PROVE  PathsDone(j, Jobs[j].map)'
    BY <2>1, <2>2 DEF PassPaths
  <2>3. Top.map # Jobs[j].map
    <3> SUFFICES ASSUME Top.map = Jobs[j].map PROVE FALSE
      OBVIOUS
    <3>1. IsLoop(j) /\ Jobs[j].map \in MapsOf(j)
      BY <1>0, <1>1, MapsOfMeans
    <3>2. Jobs[job].into = Jobs[j].map
      BY <1>9, <2>2, <3>1, WrittenMeans
    <3>. QED BY <2>2, <3>1, <3>2, PartsMean
  <2>4. heap'[Jobs[j].map] = heap[Jobs[j].map]
    BY <1>1, <2>1, <2>3
  <2>5. /\ ScopeOf(heap', Jobs[j].scope) = ScopeOf(heap, Jobs[j].scope)
        /\ Settled(heap', Jobs[j].scope) <=> Settled(heap, Jobs[j].scope)
    <3>1. 1 < job /\ j <= job
      BY <1>0, <1>1
    <3>. QED BY <1>9, <2>2, <3>1, ScopeKept
  <2>6. PathsDone(j, Jobs[j].map)
    BY DEF PassPaths
  <2>. QED BY <1>0, <2>4, <2>5, <2>6, DoneKept DEF Resolved
<1>10. CASE stack # <<>> /\ Current.kind = "paths" /\ \E k \in Top.pending : PathVisited(k)
  <2>1. PICK k \in Top.pending : PathVisited(k)
    BY <1>10
  <2>2. PICK r \in PathResults(k) : PathRewritten(k, r)
    BY <2>1 DEF PathVisited
  <2>. QED BY <1>0, <1>10, <2>2, PathVisitKeeps
<1>. QED BY <1>4, <1>5, <1>6, <1>7, <1>8, <1>9, <1>10, StepKinds

\* An error has a cause.
LEMMA ErrorStep ==
  ASSUME PassType, PassStack, PassPaths, PassError, [PassNext]_passVars
  PROVE  PassError'
<1>0. document' = document
  BY StepKinds
<1> DEFINE Cause == Current.kind = "name" \/ \E t \in Templates(job) : Unknown(t, ScopeOf(heap, Current.scope))
<1>1. CASE status' # "error"
  BY <1>1 DEF PassError
<1>2. CASE UNCHANGED passVars
  BY <1>0, <1>2 DEF PassError, passVars, Current, Templates
<1>3. CASE Stop("error") /\ Refused
  <2>1. heap' = heap /\ job' = job
    BY <1>3 DEF Stop
  <2>2. Cause' <=> Cause
    BY <1>0, <2>1 DEF Current, Templates
  <2>3. ASSUME Settled(heap, Current.scope), Current.kind # "name" PROVE Cause
    <3>1. Current.kind = "paths" /\ stack # <<>>
      BY <1>3, <2>3 DEF Refused
    <3>0. PICK k \in Top.pending : \E r \in PathResults(k) : r.tag = "error"
      BY <1>3, <2>3 DEF Refused
    <3>2. PICK r \in PathResults(k) : r.tag = "error"
      BY <3>0
    <3> DEFINE m == Current.map
               text == heap[m][k].text
               scope == ScopeOf(heap, Current.scope)
    <3>3. job \in DOMAIN Jobs /\ Current = Jobs[job] /\ Top.map = m /\ Top = stack[1]
      BY <3>1, TopMeans
    <3>4. k \in Keys /\ text \in Texts /\ ValidScope(heap, scope)
      BY <3>1, <3>3, VisitedEntry
    <3>5. r \in Expand(k, text, heap, scope, TRUE) /\ TRUE \in BOOLEAN
      BY <3>3 DEF PathResults
    <3> HIDE DEF text, scope
    <3>6. Missing(text, scope, TRUE)
      BY <3>2, <3>4, <3>5, ExpandMeans
    <3>7. Unknown(text, scope)
      BY <3>6, AutomaticMeans
    <3>8. Automatic(text) # {}
      BY <3>6, AutomaticMeans DEF Missing
    <3>9. PathsUnderWay(job, m, Top.pending)
      BY <3>1, <3>3 DEF PassPaths
    <3>10. Original(m, k)
      BY <2>3, <3>3, <3>8, <3>9 DEF PathsUnderWay, text
    <3>11. text \in Templates(job)
      BY <3>1, <3>3, <3>10 DEF Templates, Original, text
    <3>. QED BY <3>7, <3>11 DEF scope
  <2>4. Settled(heap, Current.scope)' => Settled(heap, Current.scope)
    BY <2>1 DEF Current
  <2>. QED BY <2>2, <2>3, <2>4 DEF PassError
<1>4. CASE status' = status /\ status = "running"
  BY <1>1, <1>4
<1>5. CASE Named \/ StartLoop \/ EndLoop
  BY <1>4, <1>5 DEF Named, StartLoop, Between, EndLoop
<1>6. CASE Finish \/ Stop("panic")
  BY <1>1, <1>6 DEF Finish, Stop
<1>7. ASSUME status = "running", NEW k \in Top.pending, Pushes(k) \/ PathVisited(k) PROVE PassError'
  BY <1>4, <1>7 DEF Pushes, PathVisited, PathRewritten
<1>8. ASSUME status = "running", NEW p, Changes(Top.map, p) PROVE PassError'
  BY <1>4, <1>8 DEF Changes
<1>. QED BY <1>2, <1>3, <1>5, <1>6, <1>7, <1>8, StepKinds

(***************************************************************************)
(* Theorems                                                                *)
(***************************************************************************)
\* The invariant holds when the pass begins.
LEMMA PassInvInit == PassInit => PassInv
<1> SUFFICES ASSUME PassInit PROVE PassInv
  OBVIOUS
<1>1. /\ document \in Documents /\ heap = document.heap /\ names = document.names
      /\ job = 1 /\ stack = <<>> /\ status = "running"
  BY DEF PassInit
<1>2. Len(Jobs) \in Nat \ {0} /\ DOMAIN Jobs = 1 .. Len(Jobs) /\ 1 \in 1 .. Len(Jobs) + 1
  BY JobsMean
<1>3. PassType
  <2>1. /\ DOMAIN heap = DOMAIN document.heap /\ \A m \in DOMAIN heap : ValidMap(heap[m])
        /\ \A j \in DOMAIN Jobs : Jobs[j].kind = "paths" =>
             \A m \in {Jobs[j].map, Jobs[j].into} : \A k \in DOMAIN heap[m] : heap[m][k].kind = "string"
        /\ DOMAIN names = DOMAIN document.names /\ \A j \in DOMAIN Jobs : ~IsLoop(j) => names[Jobs[j].ds] \in Texts
    BY <1>1, DocumentMeans
  <2>2. stack \in Seq([map : DOMAIN heap, pending : SUBSET Keys])
    BY <1>1
  <2>3. \A m \in DOMAIN heap : \A k \in DOMAIN heap[m] :
          heap[m][k].kind = "map" => k \in DOMAIN document.heap[m] /\ heap[m][k] = document.heap[m][k]
    BY <1>1
  <2>. QED BY <1>1, <1>2, <2>1, <2>2, <2>3 DEF PassType
<1>4. PassStack
  BY <1>1 DEF PassStack
<1>5. PassFresh
  BY <1>1 DEF PassFresh, Untouched
<1>6. PassNames
  BY <1>1, <1>2 DEF PassNames
<1>7. PassPaths
  BY <1>1, <1>2 DEF PassPaths
<1>8. PassError
  BY <1>1 DEF PassError
<1>. QED BY <1>3, <1>4, <1>5, <1>6, <1>7, <1>8 DEF PassInv

\* Every step of the pass keeps the invariant: the maps keep their places, the loops under
\* way go down from the part being rewritten, parts to come are as in the document, and
\* the names and paths that are done know their attributes and hold no references.
LEMMA PassInvStep == PassInv /\ [PassNext]_passVars => PassInv'
BY TypeStep, FreshStep, NamesStep, PathsStep, ErrorStep DEF PassInv

\* The invariant holds throughout the pass of substituteVariables.
THEOREM PassInvariant == PassSpec => []PassInv
BY PassInvInit, PassInvStep, PTL DEF PassSpec

\* When substituteVariables is done, no name and no path of a data source, those of the
\* actions included, has a reference left in it, if the attributes it sees hold none.
THEOREM SourcesAreResolved == PassSpec => []SourcesResolved
<1>1. PassInv => SourcesResolved
  <2> SUFFICES ASSUME PassInv, status = "done", NEW j \in DOMAIN Jobs, Settled(heap, Jobs[j].scope)
               PROVE  /\ Jobs[j].kind = "name" => Automatic(names[Jobs[j].ds]) = {}
                      /\ Jobs[j].kind = "paths" /\ Jobs[j].into = Jobs[j].map => Resolved(Jobs[j].map)
    BY DEF SourcesResolved
  <2>1. j < job
    BY JobsMean DEF PassInv, PassType
  <2>2. Jobs[j].kind = "name" => Automatic(names[Jobs[j].ds]) = {}
    BY <2>1 DEF PassInv, PassNames
  <2>3. Jobs[j].kind = "paths" => PathsDone(j, Jobs[j].map)
    BY <2>1 DEF PassInv, PassPaths
  <2>. QED BY <2>2, <2>3 DEF PathsDone
<1>. QED BY <1>1, PassInvariant, PTL

\* substituteVariables is done only if every name and path of a data source named
\* attributes that it sees, and an error has such a cause or is a name's.
THEOREM SourcesAreStrict == PassSpec => []SourcesStrict
<1>1. PassInv => SourcesStrict
  <2> SUFFICES ASSUME PassInv PROVE SourcesStrict
    OBVIOUS
  <2>1. ASSUME status = "done", NEW j \in DOMAIN Jobs, Jobs[j].kind = "name" \/ (Jobs[j].kind = "paths" /\ Apart(Jobs[j].map)),
               NEW t \in Templates(j)
        PROVE  ~Unknown(t, ScopeOf(heap, Jobs[j].scope))
    <3>1. j < job
      BY <2>1, JobsMean DEF PassInv, PassType
    <3>2. CASE Jobs[j].kind = "name"
      BY <2>1, <3>1, <3>2 DEF PassInv, PassNames, Templates
    <3>3. CASE Jobs[j].kind = "paths" /\ Apart(Jobs[j].map)
      <4>1. PathsDone(j, Jobs[j].map)
        BY <3>1, <3>3 DEF PassInv, PassPaths
      <4>2. PICK k \in DOMAIN document.heap[Jobs[j].map] : t = document.heap[Jobs[j].map][k].text
        BY <2>1, <3>3 DEF Templates
      <4>. QED BY <3>3, <4>1, <4>2 DEF PathsDone
    <3>. QED BY <2>1, <3>2, <3>3
  <2>2. status = "error" /\ Settled(heap, Current.scope) =>
          Current.kind = "name" \/ \E t \in Templates(job) : Unknown(t, ScopeOf(heap, Current.scope))
    BY DEF PassInv, PassError
  <2>. QED BY <2>1, <2>2 DEF SourcesStrict
<1>. QED BY <1>1, PassInvariant, PTL

(***************************************************************************)
(* The same result from another heap                                       *)
(***************************************************************************)
\* The references that are replaced become the same in two heaps, with two scopes.
Agree(h, scope, g, other, attrSub) ==
  \A t \in DOMAIN Reference : ~Skipped(Reference[t], attrSub) =>
    \A out \in Outputs : Insert(out, t, Reference[t], g, other) = Insert(out, t, Reference[t], h, scope)

\* They do when the scope is the same, and the maps it refers to.
LEMMA SameAgree ==
  ASSUME NEW h, NEW g, NEW scope, SameRefs(h, g, scope), NEW attrSub
  PROVE  Agree(h, scope, g, scope, attrSub)
<1> SUFFICES ASSUME NEW t \in DOMAIN Reference, NEW out \in Outputs
             PROVE  Insert(out, t, Reference[t], g, scope) = Insert(out, t, Reference[t], h, scope)
  BY DEF Agree
<1> DEFINE ev == Reference[t]
<1>1. CASE ev.type = "ENV" \/ ev.name \notin DOMAIN scope
  BY <1>1 DEF Insert
<1>2. CASE ~(ev.type = "ENV" \/ ev.name \notin DOMAIN scope) /\ scope[ev.name].kind = "map"
  <2>1. g[scope[ev.name].ref] = h[scope[ev.name].ref]
    BY <1>2 DEF SameRefs
  <2>. QED BY <1>2, <2>1 DEF Insert
<1>3. CASE ~(ev.type = "ENV" \/ ev.name \notin DOMAIN scope) /\ scope[ev.name].kind # "map"
  BY <1>3 DEF Insert
<1>. QED BY <1>1, <1>2, <1>3

\* Environment variables become the same whatever the scope is.
LEMMA EnvAgree ==
  ASSUME NEW h, NEW scope, NEW g, NEW other
  PROVE  /\ Agree(h, scope, g, other, FALSE)
         /\ Closed(h, scope, FALSE) <=> Closed(g, other, FALSE)
<1>1. ASSUME NEW t \in DOMAIN Reference, ~Skipped(Reference[t], FALSE) PROVE Reference[t].type = "ENV"
  BY <1>1 DEF Skipped, ValidAutoSubstitution
<1>2. Agree(h, scope, g, other, FALSE)
  <2> SUFFICES ASSUME NEW t \in DOMAIN Reference, Reference[t].type = "ENV", NEW out \in Outputs
               PROVE  Insert(out, t, Reference[t], g, other) = Insert(out, t, Reference[t], h, scope)
    BY <1>1 DEF Agree
  <2>. QED BY DEF Insert
<1>3. \A t \in DOMAIN Reference : ~Skipped(Reference[t], FALSE) =>
        Replacements(Reference[t], h, scope) = Replacements(Reference[t], g, other)
  BY <1>1 DEF Replacements
<1>4. Closed(h, scope, FALSE) <=> Closed(g, other, FALSE)
  BY <1>3 DEF Closed
<1>. QED BY <1>2, <1>4

\* So does every text.
LEMMA ExpandAgrees ==
  ASSUME NEW h, NEW scope, ValidScope(h, scope), NEW g, NEW other, ValidScope(g, other), NEW attrSub \in BOOLEAN,
         Agree(h, scope, g, other, attrSub), NEW key \in Keys, NEW text \in Texts
  PROVE  Expand(key, text, g, other, attrSub) = Expand(key, text, h, scope, attrSub)
<1> DEFINE m == Matches(text)
           N == Len(m)
           base == Base(key, text)
<1>a. PICK p : Steps(p, m, base, h, scope, attrSub) /\ Expand(key, text, h, scope, attrSub) = p[N]
  BY ExpandMade
<1>b. PICK q : Steps(q, m, base, g, other, attrSub) /\ Expand(key, text, g, other, attrSub) = q[N]
  BY ExpandMade
<1>1. /\ p[0] = {base} /\ \A i \in 0 .. N : p[i] \in SUBSET Expansions
      /\ \A i \in 1 .. N : p[i] = StepsOf(p[i - 1], m[i], h, scope, attrSub)
  BY <1>a DEF Steps
<1>2. q[0] = {base} /\ \A i \in 1 .. N : q[i] = StepsOf(q[i - 1], m[i], g, other, attrSub)
  BY <1>b DEF Steps
<1>3. m \in Seq(DOMAIN Reference) /\ N \in Nat
  <2>1. m \in Seq(DOMAIN Reference)
    BY MatchesMean
  <2> HIDE DEF m
  <2>. QED BY <2>1, RangeMeans
<1> HIDE DEF m, base
<1> DEFINE S == {n \in Nat : n <= N => q[n] = p[n]}
<1>4. 0 \in S
  BY <1>1, <1>2
<1>5. ASSUME NEW n \in S PROVE n + 1 \in S
  <2> SUFFICES ASSUME n + 1 <= N PROVE q[n + 1] = p[n + 1]
    OBVIOUS
  <2>1. n \in Nat /\ n + 1 \in 1 .. N /\ (n + 1) - 1 = n /\ n \in 0 .. N /\ q[n] = p[n] /\ p[n] \in SUBSET Expansions
    BY <1>1, <1>3
  <2>2. m[n + 1] \in DOMAIN Reference
    BY <1>3, <2>1
  <2>3. p[n + 1] = StepsOf(p[n], m[n + 1], h, scope, attrSub) /\ q[n + 1] = StepsOf(p[n], m[n + 1], g, other, attrSub)
    BY <1>1, <1>2, <2>1
  <2>4. ASSUME NEW b \in p[n] PROVE StepOf(b, m[n + 1], g, other, attrSub) = StepOf(b, m[n + 1], h, scope, attrSub)
    <3>1. b.out \in Outputs
      BY <2>1 DEF Expansions
    <3>2. ~Skipped(Reference[m[n + 1]], attrSub) =>
            Insert(b.out, m[n + 1], Reference[m[n + 1]], g, other) = Insert(b.out, m[n + 1], Reference[m[n + 1]], h, scope)
      BY <2>2, <3>1 DEF Agree
    <3>. QED BY <3>2 DEF StepOf
  <2>. QED BY <2>3, <2>4 DEF StepsOf
<1>6. N \in S
  <2>1. S \in SUBSET Nat
    OBVIOUS
  <2> HIDE DEF S
  <2>. QED BY <1>3, <1>4, <1>5, <2>1, Induction
<1>. QED BY <1>a, <1>b, <1>3, <1>6

\* And what an entry may become.
LEMMA OutcomesAgree ==
  ASSUME NEW h, NEW scope, ValidScope(h, scope), NEW g, NEW other, ValidScope(g, other), NEW attrSub \in BOOLEAN,
         Agree(h, scope, g, other, attrSub), NEW k \in Keys, NEW v \in Value
  PROVE  EntryOutcomes(k, v, g, other, attrSub) = EntryOutcomes(k, v, h, scope, attrSub)
<1>1. CASE v.kind = "slice"
  <2>1. v.elems \in Seq(Element)
    BY <1>1, ValueMeans
  <2>2. ASSUME NEW i \in DOMAIN v.elems PROVE Expand(<<>>, v.elems[i].text, g, other, attrSub) = Expand(<<>>, v.elems[i].text, h, scope, attrSub)
    <3>1. v.elems[i] \in Element
      BY <2>1, <2>2, RangeMeans
    <3>2. v.elems[i].text \in Texts /\ <<>> \in Keys
      BY <3>1, EmptySeq DEF Element, Keys, Texts
    <3>. QED BY <3>2, ExpandAgrees
  <2> DEFINE A(i) == TextsOf(v.elems[i], g, other, attrSub)
             B(i) == TextsOf(v.elems[i], h, scope, attrSub)
             D == DOMAIN v.elems
  <2>3. \A i \in D : A(i) = B(i)
    BY <2>2 DEF TextsOf
  <2>4. SliceOutcomes(v.elems, g, other, attrSub) =
          {FlattenSeq(p) : p \in {q \in [D -> UNION {A(i) : i \in D}] : \A i \in D : q[i] \in A(i)}}
    BY Zenon DEF SliceOutcomes, TextsOf
  <2>5. SliceOutcomes(v.elems, h, scope, attrSub) =
          {FlattenSeq(p) : p \in {q \in [D -> UNION {B(i) : i \in D}] : \A i \in D : q[i] \in B(i)}}
    BY Zenon DEF SliceOutcomes, TextsOf
  <2>6. SliceOutcomes(v.elems, g, other, attrSub) = SliceOutcomes(v.elems, h, scope, attrSub)
    <3> HIDE DEF A, B, D
    <3>1. UNION {A(i) : i \in D} = UNION {B(i) : i \in D}
      BY <2>3
    <3>2. {q \in [D -> UNION {A(i) : i \in D}] : \A i \in D : q[i] \in A(i)} =
            {q \in [D -> UNION {B(i) : i \in D}] : \A i \in D : q[i] \in B(i)}
      BY <2>3, <3>1
    <3>. QED BY <2>4, <2>5, <3>2
  <2>. QED BY <1>1, <2>6 DEF EntryOutcomes
<1>2. CASE v.kind # "slice" /\ v.kind # "string"
  BY <1>2 DEF EntryOutcomes
<1>3. CASE v.kind = "string"
  <2>1. v.text \in Texts
    BY <1>3, ValueMeans
  <2>2. Expand(k, v.text, g, other, attrSub) = Expand(k, v.text, h, scope, attrSub)
    BY <2>1, ExpandAgrees
  <2>. QED BY <1>3, <2>2 DEF EntryOutcomes
<1>. QED BY <1>1, <1>2, <1>3

\* What a part sees is still valid after a step.
ScopesValid == \A j \in DOMAIN Jobs : ValidScope(heap, ScopeOf(heap, Jobs[j].scope))

\* This follows from the types after it.
LEMMA ScopeNext == PassType' => \A j \in DOMAIN Jobs : ValidScope(heap', ScopeOf(heap', Jobs[j].scope))
<1>1. PassType => ScopesValid
  BY ScopeMeans DEF ScopesValid
<1>2. PassType' => ScopesValid'
  BY <1>1, PTL
<1>. QED BY <1>2 DEF ScopesValid

\* While a part is rewritten, the parts so far, and this one, keep their scopes; the
\* payload's attributes see none.
LEMMA ScopeAgrees ==
  ASSUME PassType, PassStack, PassType', stack # <<>>, NEW m, NEW p, Rewritable(m), Changes(m, p),
         NEW j \in DOMAIN Jobs, IsLoop(j), j <= job
  PROVE  /\ Closed(heap', ScopeOf(heap', Jobs[j].scope), Jobs[j].attrSub) <=>
              Closed(heap, ScopeOf(heap, Jobs[j].scope), Jobs[j].attrSub)
         /\ \A k \in Keys, v \in Value :
              EntryOutcomes(k, v, heap', ScopeOf(heap', Jobs[j].scope), Jobs[j].attrSub) =
              EntryOutcomes(k, v, heap, ScopeOf(heap, Jobs[j].scope), Jobs[j].attrSub)
<1> DEFINE scope == ScopeOf(heap, Jobs[j].scope)
           other == ScopeOf(heap', Jobs[j].scope)
           attrSub == Jobs[j].attrSub
<1>0. attrSub \in BOOLEAN /\ DOMAIN Jobs \subseteq Nat /\ job \in DOMAIN Jobs
  <2>1. attrSub \in BOOLEAN
    BY JobAt
  <2>2. Len(Jobs) \in Nat /\ DOMAIN Jobs = 1 .. Len(Jobs)
    BY JobsMean
  <2>. QED BY <2>1, <2>2, TopMeans
<1>1. ValidScope(heap, scope)
  BY ScopeMeans
<1>2. ValidScope(heap', other)
  BY ScopeNext
<1>3. Agree(heap, scope, heap', other, attrSub) /\ (Closed(heap', other, attrSub) <=> Closed(heap, scope, attrSub))
  <2>1. CASE 1 < job
    <3>1. ChangesOnly(m)
      BY DEF Changes, ChangesOnly
    <3>2. other = scope /\ SameRefs(heap, heap', scope)
      BY <2>1, <3>1, ScopeSame
    <3>3. Agree(heap, scope, heap', scope, attrSub)
      <4> HIDE DEF scope
      <4>. QED BY <3>2, SameAgree
    <3>4. Closed(heap', other, attrSub) <=> Closed(heap, scope, attrSub)
      BY <1>0, <2>1, ScopeKept
    <3>. QED BY <3>2, <3>3, <3>4
  <2>2. CASE ~(1 < job)
    <3>1. j = 1 /\ Jobs[1] = MapJob(Parts.attributes, FALSE)
      BY <1>0, <2>2, JobsMean
    <3>2. attrSub = FALSE
      BY <3>1 DEF MapJob
    <3> HIDE DEF scope, other, attrSub
    <3>. QED BY <3>2, EnvAgree
  <2>. QED BY <2>1, <2>2
<1> HIDE DEF scope, other, attrSub
<1>4. ASSUME NEW k \in Keys, NEW v \in Value PROVE EntryOutcomes(k, v, heap', other, attrSub) = EntryOutcomes(k, v, heap, scope, attrSub)
  BY <1>0, <1>1, <1>2, <1>3, OutcomesAgree
<1>. QED BY <1>3, <1>4 DEF scope, other, attrSub

(***************************************************************************)
(* What a loop has made of a map                                           *)
(***************************************************************************)
\* A key extends two: one of them extends the other.
LEMMA ExtendsBoth ==
  ASSUME NEW x \in Keys, NEW y \in Keys, NEW z \in Keys, Extends(z, x), Extends(z, y)
  PROVE  Extends(x, y) \/ Extends(y, x)
<1>1. CASE z = x \/ z = y
  BY <1>1
<1>2. CASE Added(z, x) /\ Added(z, y)
  <2> DEFINE a == Len(x)
             b == Len(y)
  <2>1. x \in Seq(STRING) /\ y \in Seq(STRING) /\ a \in Nat /\ b \in Nat
    BY DEF Keys, Texts
  <2>2. z[a + 1] = "-" /\ \A i \in 1 .. a : z[i] = x[i]
    BY <1>2, AddedMeans
  <2>3. z[b + 1] = "-" /\ \A i \in 1 .. b : z[i] = y[i]
    BY <1>2, AddedMeans
  <2> HIDE DEF a, b
  <2>4. CASE a = b
    <3>1. \A i \in 1 .. a : x[i] = y[i]
      BY <2>2, <2>3, <2>4
    <3>2. x = y
      BY <2>1, <2>4, <3>1, SeqEqual DEF a, b
    <3>. QED BY <3>2 DEF Extends
  <2>5. CASE a < b
    <3>1. a + 1 \in 1 .. b /\ a + 1 <= b /\ \A i \in 1 .. a : i \in 1 .. b
      BY <2>1, <2>5
    <3>2. a + 1 <= b /\ y[a + 1] = "-" /\ \A i \in 1 .. a : y[i] = x[i]
      BY <2>2, <2>3, <3>1
    <3>. QED BY <3>2, AddedMeans DEF Extends, a, b
  <2>6. CASE b < a
    <3>1. b + 1 \in 1 .. a /\ b + 1 <= a /\ \A i \in 1 .. b : i \in 1 .. a
      BY <2>1, <2>6
    <3>2. b + 1 <= a /\ x[b + 1] = "-" /\ \A i \in 1 .. b : x[i] = y[i]
      BY <2>2, <2>3, <3>1
    <3>. QED BY <3>2, AddedMeans DEF Extends, a, b
  <2>. QED BY <2>1, <2>4, <2>5, <2>6
<1>. QED BY <1>1, <1>2 DEF Extends

\* A loop begins with the entries of the document.
LEMMA SeenStart ==
  ASSUME NEW d, \A k \in DOMAIN d : k \in Keys, \A k, l \in DOMAIN d : ~Added(l, k), NEW want, NEW attrSub
  PROVE  Seen(d, d, DOMAIN d, want, attrSub)
<1>1. ASSUME NEW k \in DOMAIN d PROVE Extends(k, k) /\ Kept(d, d, k)
  <2>1. \A x \in DOMAIN d : Extends(x, k) => x = k
    BY ExtendsMeans
  <2>. QED BY <2>1, ExtendsMore DEF Kept
<1>. QED BY <1>1 DEF Seen

\* A visited entry of the document becomes what is wanted, and the others stay.
LEMMA SeenRewritten ==
  ASSUME NEW f, NEW d, NEW P, NEW want, NEW attrSub, Seen(f, d, P, want, attrSub),
         \A x \in DOMAIN f : x \in Keys, \A k \in DOMAIN d : k \in Keys, \A k, l \in DOMAIN d : ~Added(l, k),
         NEW k \in DOMAIN d, k \in P, Kept(f, d, k),
         NEW g, NEW D \in SUBSET Keys, DOMAIN g = (DOMAIN f \ {k}) \cup D,
         \A y \in D : Extends(y, k), \A x \in DOMAIN f : x # k /\ x \notin D => g[x] = f[x],
         {<<y, g[y]>> : y \in D} \in want[k],
         P \subseteq DOMAIN f,
         NEW Q, P \ {k} \subseteq Q, Q \subseteq (P \ {k}) \cup D, \A x \in Q \cap D : Plain(g[x], attrSub)
  PROVE  Seen(g, d, Q, want, attrSub)
<1>1. /\ \A x \in DOMAIN f : \E l \in DOMAIN d : Extends(x, l)
      /\ \A l \in DOMAIN d : LinesFrom(f, l) \in want[l] \/ (l \in P /\ Kept(f, d, l))
      /\ \A x \in P : (x \in DOMAIN d /\ Kept(f, d, x)) \/ Plain(f[x], attrSub)
  BY DEF Seen
<1>2. k \in Keys /\ k \in DOMAIN f /\ \A x \in DOMAIN f : Extends(x, k) => x = k
  BY DEF Kept
<1>3. ASSUME NEW x \in DOMAIN g PROVE \E l \in DOMAIN d : Extends(x, l)
  BY <1>1, <1>3
<1>4. LinesFrom(g, k) \in want[k]
  <2>1. {y \in DOMAIN g : Extends(y, k)} = D
    BY <1>2
  <2>. QED BY <2>1 DEF LinesFrom
<1>5. ASSUME NEW l \in DOMAIN d, l # k
      PROVE  /\ \A y \in D : ~Extends(y, l)
             /\ ~Extends(k, l)
  <2>1. l \in Keys
    OBVIOUS
  <2>2. ~Added(k, l) /\ ~Added(l, k)
    OBVIOUS
  <2>3. ~Extends(k, l)
    BY <1>2, <1>5, <2>1, <2>2, ExtendsMeans
  <2>4. ~Extends(l, k)
    BY <1>2, <1>5, <2>1, <2>2, ExtendsMeans
  <2>5. ASSUME NEW y \in D, Extends(y, l) PROVE FALSE
    <3>1. Extends(y, k) /\ y \in Keys
      OBVIOUS
    <3>. QED BY <1>2, <2>1, <2>3, <2>4, <2>5, <3>1, ExtendsBoth
  <2>. QED BY <2>3, <2>5
<1>6. ASSUME NEW l \in DOMAIN d, l # k PROVE LinesFrom(g, l) = LinesFrom(f, l)
  <2>1. {y \in DOMAIN g : Extends(y, l)} = {y \in DOMAIN f : Extends(y, l)}
    BY <1>5, <1>6
  <2>2. \A y \in {z \in DOMAIN f : Extends(z, l)} : g[y] = f[y]
    BY <1>5, <1>6
  <2>. QED BY <2>1, <2>2 DEF LinesFrom
<1>7. ASSUME NEW l \in DOMAIN d, l # k, Kept(f, d, l) PROVE Kept(g, d, l)
  <2>1. l \in DOMAIN f /\ f[l] = d[l] /\ \A x \in DOMAIN f : Extends(x, l) => x = l
    BY <1>7 DEF Kept
  <2>2. l \notin D
    <3>1. Extends(l, l)
      BY <1>7, ExtendsMore
    <3>. QED BY <1>5, <1>7, <3>1
  <2>3. l \in DOMAIN g /\ g[l] = d[l]
    BY <1>7, <2>1, <2>2
  <2>4. \A x \in DOMAIN g : Extends(x, l) => x = l
    BY <1>5, <1>7, <2>1
  <2>. QED BY <2>3, <2>4 DEF Kept
<1>8. ASSUME NEW l \in DOMAIN d PROVE LinesFrom(g, l) \in want[l] \/ (l \in Q /\ Kept(g, d, l))
  <2>1. CASE l = k
    BY <1>4, <2>1
  <2>2. CASE l # k
    BY <1>1, <1>6, <1>7, <2>2
  <2>. QED BY <2>1, <2>2
<1>9. ASSUME NEW x \in Q PROVE (x \in DOMAIN d /\ Kept(g, d, x)) \/ Plain(g[x], attrSub)
  <2>1. CASE x \in D
    BY <2>1
  <2>2. CASE x \notin D
    <3>1. x \in P /\ x # k /\ x \in DOMAIN f
      BY <1>9, <2>2
    <3>2. g[x] = f[x]
      BY <2>2, <3>1
    <3>. QED BY <1>1, <1>7, <3>1, <3>2
  <2>. QED BY <2>1, <2>2
<1>. QED BY <1>3, <1>8, <1>9 DEF Seen

\* Visiting an added entry, which is plain, leaves the map.
LEMMA SeenPlain ==
  ASSUME NEW f, NEW d, NEW P, NEW want, NEW attrSub, Seen(f, d, P, want, attrSub),
         NEW k, ~(k \in DOMAIN d /\ Kept(f, d, k)), NEW Q, P \ {k} \subseteq Q, Q \subseteq P, P \subseteq DOMAIN f,
         NEW g, DOMAIN g = DOMAIN f, \A x \in DOMAIN f : g[x] = f[x]
  PROVE  Seen(g, d, Q, want, attrSub)
<1>1. \A l : LinesFrom(g, l) = LinesFrom(f, l)
  BY DEF LinesFrom
<1>2. \A l : Kept(f, d, l) => Kept(g, d, l)
  BY DEF Kept
<1>3. \A x \in Q : x \in P /\ g[x] = f[x]
  OBVIOUS
<1>. QED BY <1>1, <1>2, <1>3 DEF Seen

\* The maps inside stay where they are.
LEMMA SeenMaps ==
  ASSUME NEW f, NEW d, NEW P, NEW want, NEW attrSub, Seen(f, d, P, want, attrSub),
         NEW k \in DOMAIN d, d[k].kind = "map", want[k] = {{<<k, d[k]>>}}
  PROVE  k \in DOMAIN f /\ f[k] = d[k]
<1>1. CASE Kept(f, d, k)
  BY <1>1 DEF Kept
<1>2. CASE LinesFrom(f, k) \in want[k]
  <2>1. <<k, d[k]>> \in LinesFrom(f, k)
    BY <1>2
  <2>2. PICK x \in DOMAIN f : <<x, f[x]>> = <<k, d[k]>>
    BY <2>1 DEF LinesFrom
  <2>. QED BY <2>2
<1>. QED BY <1>1, <1>2 DEF Seen

(***************************************************************************)
(* What a visit makes of an entry                                          *)
(***************************************************************************)
OutcomesOf(m, k) == EntryOutcomes(k, heap[m][k], heap, ScopeOf(heap, Current.scope), Current.attrSub)

\* Entries for the keys in D take the place of an entry, and Q is still to be visited: of
\* the new entries those without references. A plain entry stays.
EntryBecomes(m, k, D, Q) ==
  /\ D \subseteq Keys /\ \A y \in D : Extends(y, k)
  /\ DOMAIN heap'[m] = (DOMAIN heap[m] \ {k}) \cup D
  /\ \A x \in DOMAIN heap[m] : x # k /\ x \notin D => heap'[m][x] = heap[m][x]
  /\ {<<y, heap'[m][y]>> : y \in D} \in OutcomesOf(m, k)
  /\ Top.pending \ {k} \subseteq Q /\ Q \subseteq (Top.pending \ {k}) \cup (D \ (DOMAIN heap[m] \ {k}))
  /\ \A x \in Q \cap D : Plain(heap'[m][x], Current.attrSub)
  /\ Plain(heap[m][k], Current.attrSub) =>
       Q \subseteq Top.pending /\ DOMAIN heap'[m] = DOMAIN heap[m] /\ \A x \in DOMAIN heap[m] : heap'[m][x] = heap[m][x]

\* A part that is rewritten in place, from attributes without references.
InPlace == Current.into = Current.map /\ Closed(heap, ScopeOf(heap, Current.scope), Current.attrSub)

\* A string becomes the lines of a result.
LEMMA StringReplaced ==
  ASSUME PassType, PassStack, stack # <<>>, InPlace, NEW k \in Top.pending, heap[Top.map][k].kind = "string",
         NEW r \in Expand(k, heap[Top.map][k].text, heap, ScopeOf(heap, Current.scope), Current.attrSub),
         r.tag = "ok", Rewrite(Top.map, k, r.out)
  PROVE  /\ \A n \in DOMAIN heap : n # Top.map => heap'[n] = heap[n]
         /\ \E D, Q : EntryBecomes(Top.map, k, D, Q) /\ Remaining(Q)
<1> DEFINE m == Top.map
           text == heap[m][k].text
           scope == ScopeOf(heap, Current.scope)
           attrSub == Current.attrSub
           o == r.out
           D == DOMAIN o
<1>1. m \in DOMAIN heap /\ Top.pending \subseteq Keys
  BY TopMeans
<1>2. k \in Keys /\ k \in DOMAIN heap[m] /\ text \in Texts /\ ValidScope(heap, scope) /\ attrSub \in BOOLEAN /\ heap[m][k] \in Value
  BY VisitedEntry
<1>3. Closed(heap, scope, attrSub)
  BY DEF InPlace
<1> HIDE DEF text, scope, attrSub
<1>4. r \in Expand(k, text, heap, scope, attrSub)
  BY DEF text, scope, attrSub
<1>5. /\ r \in Expansions /\ \A y \in D : y \in Keys /\ Extends(y, k) /\ o[y] \in Texts
      /\ \A y \in D : Left(o[y], attrSub) = {}
  <2>1. /\ r \in Expansions /\ \A y \in DOMAIN r.out : y \in Keys /\ Extends(y, k) /\ r.out[y] \in Texts
        /\ Closed(heap, scope, attrSub) => \A y \in DOMAIN r.out : Left(r.out[y], attrSub) = {}
    BY <1>2, <1>4, ExpandMeans
  <2>. QED BY <1>3, <2>1
<1>6. /\ \A n \in DOMAIN heap : n # m => heap'[n] = heap[n]
      /\ DOMAIN heap'[m] = (DOMAIN heap[m] \ {k}) \cup D
      /\ \A x \in D : heap'[m][x] = Text(o[x])
      /\ \A x \in DOMAIN heap[m] : x # k /\ x \notin D => heap'[m][x] = heap[m][x]
      /\ \E p : /\ Remaining(p) /\ Top.pending \ {k} \subseteq p
                /\ p \subseteq (Top.pending \ {k}) \cup (D \ (DOMAIN heap[m] \ {k}))
  BY <1>1, RewriteMeans
<1>7. PICK Q : /\ Remaining(Q) /\ Top.pending \ {k} \subseteq Q
               /\ Q \subseteq (Top.pending \ {k}) \cup (D \ (DOMAIN heap[m] \ {k}))
  BY <1>6
<1> HIDE DEF m, o
<1>8. \A y \in D : Plain(heap'[m][y], attrSub)
  <2> TAKE y \in D
  <2>1. heap'[m][y] = [kind |-> "string", text |-> o[y]]
    BY <1>6 DEF Text
  <2>2. heap'[m][y].kind = "string" /\ heap'[m][y].text = o[y]
    BY <2>1
  <2>. QED BY <1>5, <2>2 DEF Plain
<1>9. {<<y, heap'[m][y]>> : y \in D} \in OutcomesOf(m, k)
  <2>1. {<<x, Text(o[x])>> : x \in D} \in OutcomesOf(m, k)
    <3>1. heap[m][k].kind = "string"
      BY DEF m
    <3>. QED BY <1>4, <3>1 DEF OutcomesOf, EntryOutcomes, text, scope, attrSub, o
  <2>2. {<<y, heap'[m][y]>> : y \in D} = {<<x, Text(o[x])>> : x \in D}
    BY <1>6
  <2>. QED BY <2>1, <2>2
<1>10. ASSUME Plain(heap[m][k], attrSub)
       PROVE  Q \subseteq Top.pending /\ DOMAIN heap'[m] = DOMAIN heap[m] /\ \A x \in DOMAIN heap[m] : heap'[m][x] = heap[m][x]
  <2>1. Left(text, attrSub) = {}
    BY <1>10 DEF Plain, text
  <2>2. r = Base(k, text)
    BY <1>2, <1>4, <2>1, ExpandPlain
  <2>3. D = {k} /\ o[k] = text
    BY <1>2, <2>2, BaseType DEF o
  <2>4. heap'[m][k] = heap[m][k]
    <3>1. heap[m][k] = [kind |-> "string", text |-> text]
      <4>1. heap[m][k].kind = "string"
        BY DEF m
      <4>2. heap[m][k] = [kind |-> heap[m][k].kind, text |-> heap[m][k].text]
        BY <1>2, <4>1, ValueMeans
      <4>. QED BY <4>1, <4>2 DEF text
    <3>. QED BY <1>6, <2>3, <3>1 DEF Text
  <2>. QED BY <1>2, <1>6, <1>7, <2>3, <2>4
<1>11. EntryBecomes(m, k, D, Q)
  <2>1. D \subseteq Keys /\ \A y \in D : Extends(y, k)
    BY <1>5
  <2>2. \A x \in Q \cap D : Plain(heap'[m][x], attrSub)
    BY <1>8
  <2> HIDE DEF D
  <2>. QED BY <1>6, <1>7, <1>9, <1>10, <2>1, <2>2 DEF EntryBecomes, attrSub
<1>. QED BY <1>6, <1>7, <1>11 DEF m

\* An entry that stays as it is.
LEMMA EntryStays ==
  ASSUME PassType, PassStack, stack # <<>>, NEW k \in Top.pending, heap' = heap,
         {<<k, heap[Top.map][k]>>} \in OutcomesOf(Top.map, k)
  PROVE  EntryBecomes(Top.map, k, {k}, Top.pending \ {k})
<1> DEFINE m == Top.map
<1>1. k \in Keys /\ k \in DOMAIN heap[m]
  BY VisitedEntry
<1>2. Extends(k, k)
  BY <1>1, ExtendsMore
<1>3. {<<y, heap'[m][y]>> : y \in {k}} \in OutcomesOf(m, k)
  <2>1. {<<y, heap'[m][y]>> : y \in {k}} = {<<k, heap[m][k]>>}
    OBVIOUS
  <2>. QED BY <2>1
<1> HIDE DEF m
<1>. QED BY <1>1, <1>2, <1>3 DEF EntryBecomes, m

\* A list becomes one of the elements its elements become.
LEMMA SliceReplaced ==
  ASSUME PassType, PassStack, stack # <<>>, NEW k \in Top.pending, heap[Top.map][k].kind = "slice",
         NEW s \in SliceOutcomes(heap[Top.map][k].elems, heap, ScopeOf(heap, Current.scope), Current.attrSub),
         heap' = [heap EXCEPT ![Top.map][k] = [kind |-> "slice", elems |-> s]]
  PROVE  /\ \A n \in DOMAIN heap : n # Top.map => heap'[n] = heap[n]
         /\ EntryBecomes(Top.map, k, {k}, Top.pending \ {k})
<1> DEFINE m == Top.map
           elems == heap[m][k].elems
           scope == ScopeOf(heap, Current.scope)
           attrSub == Current.attrSub
<1>1. m \in DOMAIN heap
  BY TopMeans
<1>2. k \in Keys /\ k \in DOMAIN heap[m] /\ ValidScope(heap, scope) /\ attrSub \in BOOLEAN /\ heap[m][k] \in Value
  BY VisitedEntry
<1> DEFINE x == [kind |-> "slice", elems |-> s]
<1>5. {<<k, x>>} \in OutcomesOf(m, k)
  BY DEF OutcomesOf, EntryOutcomes
<1> HIDE DEF m, elems, scope, attrSub, x
<1>6. /\ \A n \in DOMAIN heap : n # m => heap'[n] = heap[n]
      /\ DOMAIN heap'[m] = DOMAIN heap[m]
      /\ \A y \in DOMAIN heap[m] : heap'[m][y] = IF y = k THEN x ELSE heap[m][y]
  BY <1>1 DEF x, m
<1>7. {<<y, heap'[m][y]>> : y \in {k}} \in OutcomesOf(m, k)
  <2>1. heap'[m][k] = x
    BY <1>2, <1>6
  <2>2. {<<y, heap'[m][y]>> : y \in {k}} = {<<k, x>>}
    BY <2>1
  <2>. QED BY <1>5, <2>2
<1>8. Extends(k, k)
  BY <1>2, ExtendsMore
<1>9. ~Plain(heap[m][k], Current.attrSub)
  BY DEF Plain, m
<1>10. EntryBecomes(m, k, {k}, Top.pending \ {k})
  BY <1>2, <1>6, <1>7, <1>8, <1>9 DEF EntryBecomes
<1>. QED BY <1>6, <1>10 DEF m

\* A visit stops the pass, goes down, or makes of an entry what is wanted.
LEMMA VisitBecomes ==
  ASSUME PassType, PassStack, stack # <<>>, InPlace, NEW k \in Top.pending, Visit(k)
  PROVE  \/ \E tag \in {"error", "panic"} : Stop(tag)
         \/ Current.kind = "map" /\ Pushes(k) /\ EntryBecomes(Top.map, k, {k}, Top.pending \ {k})
         \/ /\ heap[Top.map][k].kind # "map" /\ UNCHANGED <<names, job, status>>
            /\ \A n \in DOMAIN heap : n # Top.map => heap'[n] = heap[n]
            /\ \E D, Q : EntryBecomes(Top.map, k, D, Q) /\ Remaining(Q)
<1> DEFINE m == Top.map
           v == heap[m][k]
           scope == ScopeOf(heap, Current.scope)
           attrSub == Current.attrSub
<1>1. /\ k \in Keys /\ k \in DOMAIN heap[m] /\ ValidScope(heap, scope) /\ attrSub \in BOOLEAN /\ v \in Value
      /\ Current.kind = "map" => Current.scope = 0 /\ Current.into = Current.map
      /\ Current.kind = "paths" => attrSub = TRUE /\ v.kind = "string"
  BY VisitedEntry
<1>2. Current.kind = "paths" => m = Current.map
  BY TopMeans
<1>3. CASE VisitMap(k)
  <2>1. Current.kind = "map" /\ scope = ScopeOf(heap, 0)
    BY <1>1, <1>3, VisitMapMeans
  <2>2. CASE /\ v.kind = "string" /\ \E r \in MapResults(k) : r.tag = "ok" /\ Rewrite(m, k, r.out)
             /\ UNCHANGED <<names, job, status>>
    <3>0. PICK r \in MapResults(k) : r.tag = "ok" /\ Rewrite(m, k, r.out)
      BY <2>2
    <3>1. r \in Expand(k, v.text, heap, scope, attrSub)
      BY <2>1 DEF MapResults
    <3>2. /\ \A n \in DOMAIN heap : n # m => heap'[n] = heap[n]
          /\ \E D, Q : EntryBecomes(m, k, D, Q) /\ Remaining(Q)
      BY <2>2, <3>0, <3>1, StringReplaced
    <3>. QED BY <2>2, <3>2
  <2>3. CASE /\ v.kind = "scalar" \/ (v.kind = "string" /\ \E r \in MapResults(k) : r.tag = "error")
             /\ Remaining(Top.pending \ {k}) /\ UNCHANGED <<heap, names, job, status>>
    <3>1. {<<k, v>>} \in OutcomesOf(m, k)
      <4>1. CASE v.kind = "scalar"
        BY <4>1 DEF OutcomesOf, EntryOutcomes
      <4>2. CASE v.kind = "string" /\ \E r \in MapResults(k) : r.tag = "error"
        <5>1. PICK r \in Expand(k, v.text, heap, scope, attrSub) : r.tag = "error"
          BY <2>1, <4>2 DEF MapResults
        <5> DEFINE Leaves(x) == IF x.tag = "ok" THEN {<<y, Text(x.out[y])>> : y \in DOMAIN x.out} ELSE {<<k, v>>}
        <5>2. OutcomesOf(m, k) = {Leaves(x) : x \in Expand(k, v.text, heap, scope, attrSub)}
          BY <4>2 DEF OutcomesOf, EntryOutcomes
        <5>3. Leaves(r) = {<<k, v>>}
          BY <5>1
        <5> HIDE DEF Leaves
        <5>. QED BY <5>1, <5>2, <5>3
      <4>. QED BY <2>3, <4>1, <4>2
    <3>2. EntryBecomes(m, k, {k}, Top.pending \ {k})
      BY <2>3, <3>1, EntryStays
    <3>. QED BY <2>3, <3>2
  <2>4. CASE Pushes(k)
    <3>1. {<<k, v>>} \in OutcomesOf(m, k) /\ heap' = heap
      BY <2>4 DEF Pushes, OutcomesOf, EntryOutcomes
    <3>. QED BY <2>1, <2>4, <3>1, EntryStays
  <2>5. CASE /\ v.kind = "slice"
             /\ \E s \in SliceOutcomes(v.elems, heap, ScopeOf(heap, 0), Current.attrSub) :
                  heap' = [heap EXCEPT ![m][k] = [kind |-> "slice", elems |-> s]]
             /\ Remaining(Top.pending \ {k}) /\ UNCHANGED <<names, job, status>>
    <3>1. PICK s \in SliceOutcomes(v.elems, heap, scope, attrSub) :
            heap' = [heap EXCEPT ![m][k] = [kind |-> "slice", elems |-> s]]
      BY <2>1, <2>5
    <3>2. /\ \A n \in DOMAIN heap : n # m => heap'[n] = heap[n]
          /\ EntryBecomes(m, k, {k}, Top.pending \ {k})
      BY <2>5, <3>1, SliceReplaced
    <3>. QED BY <2>5, <3>2
  <2>6. CASE Stop("panic")
    BY <2>6
  <2>7. \/ /\ v.kind = "string" /\ \E r \in MapResults(k) : r.tag = "ok" /\ Rewrite(m, k, r.out)
           /\ UNCHANGED <<names, job, status>>
        \/ /\ v.kind = "scalar" \/ (v.kind = "string" /\ \E r \in MapResults(k) : r.tag = "error")
           /\ Remaining(Top.pending \ {k}) /\ UNCHANGED <<heap, names, job, status>>
        \/ Pushes(k)
        \/ /\ v.kind = "slice"
           /\ \E s \in SliceOutcomes(v.elems, heap, ScopeOf(heap, 0), Current.attrSub) :
                heap' = [heap EXCEPT ![m][k] = [kind |-> "slice", elems |-> s]]
           /\ Remaining(Top.pending \ {k}) /\ UNCHANGED <<names, job, status>>
        \/ Stop("panic")
    BY <1>3, VisitMapMeans
  <2>. QED BY <2>2, <2>3, <2>4, <2>5, <2>6, <2>7, Zenon
<1>4. CASE VisitPath(k)
  <2>1. /\ Current.kind = "paths"
        /\ \/ (\E r \in PathResults(k) : PathRewritten(k, r))
           \/ Stop("error") \/ Stop("panic")
    BY <1>4, VisitPathMeans DEF PathRewritten
  <2>2. CASE \E r \in PathResults(k) : PathRewritten(k, r)
    <3>0. PICK r \in PathResults(k) : PathRewritten(k, r)
      BY <2>2
    <3>1. /\ r \in Expand(k, v.text, heap, scope, attrSub) /\ Current.into = m /\ v.kind = "string"
          /\ r.tag = "ok" /\ Rewrite(m, k, r.out) /\ UNCHANGED <<names, job, status>>
      BY <1>1, <1>2, <2>1, <3>0 DEF PathResults, PathRewritten, InPlace
    <3>2. /\ \A n \in DOMAIN heap : n # m => heap'[n] = heap[n]
          /\ \E D, Q : EntryBecomes(m, k, D, Q) /\ Remaining(Q)
      BY <3>1, StringReplaced
    <3>. QED BY <3>1, <3>2
  <2>. QED BY <2>1, <2>2
<1>. QED BY <1>3, <1>4 DEF Visit

(***************************************************************************)
(* The maps of a part                                                      *)
(***************************************************************************)
\* What a visit makes of an entry is what is wanted of the map.
LEMMA SeenNext ==
  ASSUME PassType, PassStack, stack # <<>>, NEW k \in Top.pending, NEW D, NEW Q, EntryBecomes(Top.map, k, D, Q),
         Apart(Top.map), Visiting(heap, Top.map, job, Top.pending)
  PROVE  /\ Seen(heap'[Top.map], document.heap[Top.map], Q, Wanted(document.heap[Top.map], heap, job), Jobs[job].attrSub)
         /\ heap[Top.map][k].kind # "map" => \A l \in DOMAIN document.heap[Top.map] :
              HoldsMap(Top.map, l) => (l \in Q <=> l \in Top.pending)
<1> DEFINE m == Top.map
           f == heap[m]
           d == document.heap[m]
           g == heap'[m]
           P == Top.pending
           want == Wanted(d, heap, job)
           attrSub == Jobs[job].attrSub
<1>1. /\ m \in DOMAIN heap /\ P \subseteq DOMAIN f /\ Current = Jobs[job] /\ document \in Documents /\ DOMAIN heap = DOMAIN document.heap
  BY TopMeans DEF PassType
<1>2. /\ \A x \in DOMAIN f : x \in Keys /\ f[x] \in Value
      /\ \A x \in DOMAIN d : x \in Keys /\ d[x] \in Value
  BY <1>1, DocumentMeans DEF PassType, ValidMap
<1>3. Seen(f, d, P, want, attrSub)
  BY DEF Visiting
<1>4. /\ D \in SUBSET Keys /\ \A y \in D : Extends(y, k)
      /\ DOMAIN g = (DOMAIN f \ {k}) \cup D
      /\ \A x \in DOMAIN f : x # k /\ x \notin D => g[x] = f[x]
      /\ {<<y, g[y]>> : y \in D} \in OutcomesOf(m, k)
      /\ P \ {k} \subseteq Q /\ Q \subseteq (P \ {k}) \cup (D \ (DOMAIN f \ {k}))
      /\ \A x \in Q \cap D : Plain(g[x], attrSub)
      /\ Plain(f[k], attrSub) =>
           Q \subseteq P /\ DOMAIN g = DOMAIN f /\ \A x \in DOMAIN f : g[x] = f[x]
  BY <1>1 DEF EntryBecomes
<1>5. \A x, l \in DOMAIN d : ~Added(l, x)
  BY DEF Apart
<1>6. \A l \in DOMAIN d : want[l] = EntryOutcomes(l, d[l], heap, ScopeOf(heap, Jobs[job].scope), attrSub)
  BY DEF Wanted
<1>7. k \in DOMAIN d /\ f[k] = d[k] => OutcomesOf(m, k) = want[k]
  BY <1>1, <1>6 DEF OutcomesOf
<1> HIDE DEF want, attrSub, f, d, g, P
<1>8. Seen(g, d, Q, want, attrSub)
  <2>1. CASE k \in DOMAIN d /\ Kept(f, d, k)
    <3>1. {<<y, g[y]>> : y \in D} \in want[k]
      BY <1>4, <1>7, <2>1 DEF Kept
    <3>2. Q \subseteq (P \ {k}) \cup D /\ k \in P
      BY <1>4 DEF P
    <3>3. k \in DOMAIN d /\ k \in P /\ Kept(f, d, k) /\ P \subseteq DOMAIN f /\ P \ {k} \subseteq Q
      BY <1>1, <1>4, <2>1, <3>2
    <3>4. /\ D \in SUBSET Keys /\ DOMAIN g = (DOMAIN f \ {k}) \cup D /\ \A y \in D : Extends(y, k)
          /\ \A x \in DOMAIN f : x # k /\ x \notin D => g[x] = f[x]
          /\ \A x \in Q \cap D : Plain(g[x], attrSub)
      BY <1>4
    <3>5. (\A x \in DOMAIN f : x \in Keys) /\ (\A x \in DOMAIN d : x \in Keys)
      BY <1>2
    <3>. QED BY <1>3, <1>5, <3>1, <3>2, <3>3, <3>4, <3>5, SeenRewritten
  <2>2. CASE ~(k \in DOMAIN d /\ Kept(f, d, k))
    <3>1. Plain(f[k], attrSub)
      BY <1>3, <2>2 DEF Seen, P
    <3>2. Q \subseteq P /\ DOMAIN g = DOMAIN f /\ \A x \in DOMAIN f : g[x] = f[x]
      BY <1>4, <3>1
    <3>. QED BY <1>1, <1>3, <1>4, <2>2, <3>2, SeenPlain
  <2>. QED BY <2>1, <2>2
<1>9. ASSUME f[k].kind # "map", NEW l \in DOMAIN d, d[l].kind = "map" PROVE l \in Q <=> l \in P
  <2>1. want[l] = {{<<l, d[l]>>}}
    BY <1>6, <1>9 DEF EntryOutcomes
  <2>2. l \in DOMAIN f /\ f[l] = d[l]
    BY <1>3, <1>9, <2>1, SeenMaps
  <2>3. l # k
    BY <1>9, <2>2
  <2>. QED BY <1>4, <2>2, <2>3
<1>. QED BY <1>8, <1>9 DEF HoldsMap, want, attrSub, f, d, g, P, m

\* Where the innermost loop is, if it is in a map of the part.
LEMMA TopInside ==
  ASSUME PassType, PassStack, stack # <<>>
  PROVE  /\ Len(stack) \in Nat \ {0} /\ Top = stack[Len(stack)] /\ stack[1].map = Jobs[job].map
         /\ Top.map \in MapsOf(job) => Len(stack) \in {1, 2}
         /\ Len(stack) > 1 => Top.map # Jobs[job].map /\ Child(document, Jobs[job].map, stack[2].map)
<1>1. /\ document \in Documents /\ DOMAIN heap = DOMAIN document.heap
      /\ stack \in Seq([map : DOMAIN heap, pending : SUBSET Keys])
  BY DEF PassType
<1>2. /\ Top.map \in DOMAIN heap /\ Top = stack[Len(stack)] /\ Len(stack) \in Nat \ {0}
      /\ job \in DOMAIN Jobs /\ IsLoop(job) /\ stack[1].map = Jobs[job].map
  BY <1>1, TopMeans, LastMeans
<1>3. /\ \A i \in 1 .. Len(stack) : i > 1 => Child(document, stack[i - 1].map, stack[i].map)
      /\ \A i, j \in 1 .. Len(stack) : stack[i].map = stack[j].map => i = j
  BY DEF PassStack
<1>4. \A i \in 1 .. Len(stack) : stack[i].map \in DOMAIN heap
  <2>1. \A i \in 1 .. Len(stack) : stack[i] \in [map : DOMAIN heap, pending : SUBSET Keys]
    BY <1>1, RangeMeans
  <2>. QED BY <2>1
<1> DEFINE n == Len(stack)
<1>5. n \in Nat \ {0} /\ 1 \in 1 .. n /\ n \in 1 .. n
  BY <1>2
<1>6. ASSUME n > 1 PROVE Top.map # Jobs[job].map /\ Child(document, Jobs[job].map, stack[2].map)
  <2>1. Top.map # stack[1].map
    BY <1>2, <1>3, <1>5, <1>6
  <2>2. 2 \in 1 .. n /\ 2 - 1 = 1
    <3> HIDE DEF n
    <3>. QED BY <1>5, <1>6
  <2>. QED BY <1>2, <1>3, <2>1, <2>2
<1>7. ASSUME Top.map \in MapsOf(job), n > 1 PROVE n = 2
  <2>1. Child(document, Jobs[job].map, Top.map)
    BY <1>1, <1>2, <1>6, <1>7, MapsOfMeans
  <2> DEFINE q == n - 1
  <2>2. q \in 1 .. n /\ 1 \in 1 .. n
    <3> HIDE DEF n
    <3>. QED BY <1>5, <1>7
  <2>3. Child(document, stack[q].map, Top.map) /\ stack[q].map \in DOMAIN heap
    BY <1>2, <1>3, <1>4, <1>5, <1>7, <2>2
  <2>4. Jobs[job].map \in DOMAIN heap
    BY <1>2, <1>4, <1>5
  <2> HIDE DEF q
  <2>5. stack[q].map = stack[1].map
    BY <1>1, <1>2, <2>1, <2>3, <2>4, DocumentMeans
  <2>6. q = 1
    BY <1>3, <2>2, <2>5
  <2> HIDE DEF n
  <2>. QED BY <1>5, <2>6 DEF q
<1>8. Top.map \in MapsOf(job) => n \in {1, 2}
  <2> HIDE DEF n
  <2>. QED BY <1>5, <1>7
<1>. QED BY <1>2, <1>6, <1>8

\* What is wanted of the maps of a part that is done, or under way, stays the same.
LEMMA WantedKept ==
  ASSUME PassType, PassStack, PassType', stack # <<>>, NEW w, NEW p, Rewritable(w), Changes(w, p),
         NEW j \in DOMAIN Jobs, IsLoop(j), j <= job
  PROVE  /\ Closed(heap', ScopeOf(heap', Jobs[j].scope), Jobs[j].attrSub) <=>
              Closed(heap, ScopeOf(heap, Jobs[j].scope), Jobs[j].attrSub)
         /\ \A m \in MapsOf(j) : /\ m \in DOMAIN heap
                                 /\ Wanted(document.heap[m], heap', j) = Wanted(document.heap[m], heap, j)
<1>1. /\ Closed(heap', ScopeOf(heap', Jobs[j].scope), Jobs[j].attrSub) <=>
           Closed(heap, ScopeOf(heap, Jobs[j].scope), Jobs[j].attrSub)
      /\ \A k \in Keys, v \in Value :
           EntryOutcomes(k, v, heap', ScopeOf(heap', Jobs[j].scope), Jobs[j].attrSub) =
           EntryOutcomes(k, v, heap, ScopeOf(heap, Jobs[j].scope), Jobs[j].attrSub)
  BY ScopeAgrees
<1>2. ASSUME NEW m \in MapsOf(j)
      PROVE  m \in DOMAIN heap /\ Wanted(document.heap[m], heap', j) = Wanted(document.heap[m], heap, j)
  <2>1. document \in Documents /\ DOMAIN heap = DOMAIN document.heap
    BY DEF PassType
  <2>2. m \in DOMAIN document.heap
    BY <2>1, MapsOfMeans
  <2>3. \A k \in DOMAIN document.heap[m] : k \in Keys /\ document.heap[m][k] \in Value
    BY <2>1, <2>2, DocumentMeans DEF ValidMap
  <2>. QED BY <1>1, <2>1, <2>2, <2>3 DEF Wanted
<1>. QED BY <1>1, <1>2

\* A map that is not rewritten is as it was.
LEMMA VisitingKept ==
  ASSUME NEW m, NEW j, NEW P, heap'[m] = heap[m], Wanted(document.heap[m], heap', j) = Wanted(document.heap[m], heap, j)
  PROVE  Visiting(heap', m, j, P) <=> Visiting(heap, m, j, P)
BY DEF Visiting

\* The maps of parts that are done stay as they are, unless they are rewritten again.
LEMMA DoneOrder ==
  ASSUME PassType, PassStack, PassPaths, PassOrder, PassType', stack # <<>>, NEW k \in Top.pending,
         NEW w, NEW p, Rewritable(w), Changes(w, p), NEW j \in DOMAIN Jobs, j < job
  PROVE  OrderAt(heap', stack', job, j)
<1>a. DOMAIN Jobs = 1 .. Len(Jobs) /\ Len(Jobs) \in Nat
  BY JobsMean
<1>b. /\ job \in DOMAIN Jobs /\ Current = Jobs[job] /\ IsLoop(job) /\ k \in DOMAIN heap[Top.map]
      /\ Current.kind = "paths" => Top.map = Current.map /\ Top = stack[1]
  BY TopMeans
<1>c. document \in Documents /\ DOMAIN heap = DOMAIN document.heap
  BY DEF PassType
<1>0. /\ document \in Documents /\ DOMAIN heap = DOMAIN document.heap /\ job \in DOMAIN Jobs /\ Current = Jobs[job] /\ IsLoop(job)
      /\ DOMAIN Jobs \subseteq Nat /\ k \in DOMAIN heap[Top.map] /\ (Current.kind = "paths" => Top.map = Current.map /\ Top = stack[1])
  BY <1>a, <1>b, <1>c
<1> SUFFICES ASSUME Orderly(heap', j), NEW m \in MapsOf(j) PROVE RewrittenAgain(m) \/ Visiting(heap', m, j, {})
  BY <1>0 DEF OrderAt
<1>1. IsLoop(j) /\ Jobs[j].into = Jobs[j].map /\ j <= job
  BY <1>0 DEF Orderly
<1>2. /\ Orderly(heap, j) /\ m \in DOMAIN heap
      /\ Wanted(document.heap[m], heap', j) = Wanted(document.heap[m], heap, j)
  BY <1>1, WantedKept DEF Orderly
<1>3. RewrittenAgain(m) \/ Visiting(heap, m, j, {})
  BY <1>0, <1>2 DEF PassOrder, OrderAt
<1>4. CASE w = m
  <2>1. Jobs[j].into # Jobs[job].map
    BY <1>0, <1>1, PartsMean
  <2>2. m = Jobs[j].map /\ Jobs[job].into = m /\ Jobs[job].map # m
    BY <1>0, <1>1, <1>4, <2>1, WrittenMeans
  <2>3. Jobs[job].kind = "paths"
    BY <1>0, <1>1, <2>2, PartsMean
  <2>4. PathsUnderWay(job, Jobs[job].map, stack[1].pending)
    BY <1>0, <2>3 DEF PassPaths
  <2>5. DOMAIN document.heap[Jobs[job].map] # {}
    BY <1>0, <2>3, <2>4 DEF PathsUnderWay
  <2>. QED BY <1>0, <2>2, <2>5 DEF RewrittenAgain
<1>5. CASE w # m
  <2>1. heap'[m] = heap[m]
    BY <1>2, <1>5 DEF Changes
  <2>. QED BY <1>2, <1>3, <2>1, VisitingKept
<1>. QED BY <1>4, <1>5

\* How a step goes on inside: the outermost loops stay, but for what is to be visited.
LEMMA InsideNext ==
  ASSUME PassType, PassStack, stack # <<>>, UnderWay(heap, stack, job), NEW k \in Top.pending, NEW D, NEW Q,
         EntryBecomes(Top.map, k, D, Q), \A m \in MapsOf(job) : Apart(m), Len(stack) > 1,
         \A n \in DOMAIN heap : n # Top.map => heap'[n] = heap[n],
         \A m \in MapsOf(job) : m \in DOMAIN heap /\ Wanted(document.heap[m], heap', job) = Wanted(document.heap[m], heap, job),
         NEW loops, Len(loops) > 1, loops[1] = stack[1], loops[2].map = stack[2].map,
         Len(stack) = 2 => loops[2].pending = Q, Len(stack) > 2 => loops[2] = stack[2]
  PROVE  UnderWay(heap', loops, job)
<1> DEFINE root == Jobs[job].map
           m == Top.map
<1>0. /\ document \in Documents /\ job \in DOMAIN Jobs /\ IsLoop(job)
  BY TopMeans DEF PassType
<1>1. /\ Len(stack) \in Nat \ {0} /\ Top = stack[Len(stack)]
      /\ m \in MapsOf(job) => Len(stack) \in {1, 2}
      /\ m # root
  BY TopInside
<1>2. root \in MapsOf(job) /\ \A n : Child(document, root, n) => n \in MapsOf(job)
  BY <1>0, MapsOfMeans
<1>3. Visiting(heap', root, job, loops[1].pending)
  <2>1. Visiting(heap, root, job, stack[1].pending)
    BY DEF UnderWay
  <2>2. heap'[root] = heap[root] /\ Wanted(document.heap[root], heap', job) = Wanted(document.heap[root], heap, job)
    BY <1>1, <1>2
  <2>. QED BY <2>1, <2>2, VisitingKept
<1>4. ASSUME NEW l \in DOMAIN document.heap[root], HoldsMap(root, l)
      PROVE  InsideSeen(heap', loops, job, document.heap[root][l].ref, l \in loops[1].pending)
  <2> DEFINE n == document.heap[root][l].ref
             toCome == l \in stack[1].pending
             P == IF Inside(stack, n) THEN stack[2].pending ELSE {}
  <2>1. InsideSeen(heap, stack, job, n, toCome)
    BY <1>4 DEF UnderWay
  <2>2. n \in MapsOf(job)
    <3>1. Child(document, root, n)
      BY <1>4 DEF Child, HoldsMap
    <3>. QED BY <1>2, <3>1
  <2>3. /\ toCome => ~Inside(stack, n) /\ heap[n] = document.heap[n]
        /\ ~toCome => Visiting(heap, n, job, P)
    BY <2>1 DEF InsideSeen
  <2>4. n \in DOMAIN heap /\ Wanted(document.heap[n], heap', job) = Wanted(document.heap[n], heap, job) /\ Apart(n)
    BY <2>2
  <2>5. Inside(loops, n) <=> Inside(stack, n)
    BY DEF Inside
  <2> HIDE DEF n
  <2>6. CASE n # m
    <3>1. heap'[n] = heap[n]
      BY <2>4, <2>6
    <3>2. Visiting(heap', n, job, P) <=> Visiting(heap, n, job, P)
      BY <2>4, <3>1, VisitingKept
    <3>3. P = IF Inside(loops, n) THEN loops[2].pending ELSE {}
      <4>1. CASE Inside(stack, n) /\ Len(stack) = 2
        <5>1. stack[2].map = n /\ Top = stack[2]
          BY <1>1, <4>1 DEF Inside
        <5>. QED BY <2>6, <5>1
      <4>2. CASE Inside(stack, n) /\ Len(stack) # 2
        <5> DEFINE n0 == Len(stack)
        <5>0. n0 \in Nat /\ n0 > 1 /\ n0 # 2 /\ (n0 > 2 => loops[2] = stack[2])
          BY <1>1, <4>2
        <5> HIDE DEF n0
        <5>1. loops[2] = stack[2]
          BY <5>0
        <5>. QED BY <2>5, <4>2, <5>1
      <4>3. CASE ~Inside(stack, n)
        BY <2>5, <4>3
      <4>. QED BY <4>1, <4>2, <4>3
    <3>4. (l \in loops[1].pending) = toCome
      OBVIOUS
    <3> HIDE DEF P
    <3>. QED BY <2>3, <2>5, <3>1, <3>2, <3>3, <3>4 DEF InsideSeen, n
  <2>7. CASE n = m
    <3>1. Len(stack) = 2 /\ Top = stack[2] /\ Inside(stack, n) /\ Inside(loops, n) /\ loops[2].pending = Q
      <4>1. Len(stack) = 2
        BY <1>1, <2>2, <2>7
      <4>. QED BY <1>1, <2>5, <2>7, <4>1 DEF Inside
    <3>2. ~toCome /\ Visiting(heap, m, job, Top.pending)
      BY <2>3, <2>7, <3>1
    <3>3. Seen(heap'[m], document.heap[m], Q, Wanted(document.heap[m], heap, job), Jobs[job].attrSub)
      BY <2>4, <2>7, <3>2, SeenNext
    <3>4. Visiting(heap', n, job, Q)
      BY <2>4, <2>7, <3>3 DEF Visiting
    <3>5. ~(l \in loops[1].pending)
      BY <3>2
    <3>. QED BY <3>1, <3>4, <3>5 DEF InsideSeen, n
  <2>. QED BY <2>6, <2>7
<1>. QED BY <1>3, <1>4 DEF UnderWay

\* How a step goes on in the outermost loop: an entry is done, or the map in it is begun.
LEMMA RootNext ==
  ASSUME PassType, PassStack, stack # <<>>, UnderWay(heap, stack, job), NEW k \in Top.pending, NEW D, NEW Q,
         EntryBecomes(Top.map, k, D, Q), \A m \in MapsOf(job) : Apart(m), Len(stack) = 1,
         \A n \in DOMAIN heap : n # Top.map => heap'[n] = heap[n],
         \A m \in MapsOf(job) : m \in DOMAIN heap /\ Wanted(document.heap[m], heap', job) = Wanted(document.heap[m], heap, job),
         NEW loops, loops[1].pending = Q,
         \/ heap[Top.map][k].kind # "map" /\ Len(loops) = 1
         \/ /\ heap[Top.map][k].kind = "map" /\ Q = Top.pending \ {k} /\ Len(loops) = 2
            /\ loops[2].map = heap[Top.map][k].ref /\ loops[2].pending = DOMAIN heap[heap[Top.map][k].ref]
  PROVE  UnderWay(heap', loops, job)
<1> DEFINE root == Jobs[job].map
           doc == document.heap[root]
<1>0. /\ document \in Documents /\ job \in DOMAIN Jobs /\ IsLoop(job) /\ Top = stack[1] /\ Top.map = root
      /\ root \in DOMAIN heap /\ k \in DOMAIN heap[root]
  <2>1. document \in Documents
    BY DEF PassType
  <2>2. job \in DOMAIN Jobs /\ IsLoop(job) /\ Top.map \in DOMAIN heap /\ k \in DOMAIN heap[Top.map]
    BY TopMeans
  <2>3. Top = stack[1] /\ stack[1].map = Jobs[job].map
    BY TopInside
  <2>. QED BY <2>1, <2>2, <2>3
<1>1. root \in MapsOf(job) /\ \A n : Child(document, root, n) => n \in MapsOf(job) /\ n # root
  <2>1. root \in MapsOf(job) /\ \A n : Child(document, root, n) => n \in MapsOf(job)
    BY <1>0, MapsOfMeans
  <2>2. root \in DOMAIN document.heap
    BY <1>0 DEF PassType
  <2>3. \A n : Child(document, root, n) => n # root
    BY <1>0, <2>2, DocumentMeans
  <2>. QED BY <2>1, <2>3
<1>2. Visiting(heap, root, job, Top.pending) /\ Apart(root)
  BY <1>0, <1>1 DEF UnderWay
<1>3. Visiting(heap', root, job, Q)
  <2>1. Seen(heap'[root], document.heap[root], Q, Wanted(document.heap[root], heap, job), Jobs[job].attrSub)
    BY <1>0, <1>2, SeenNext
  <2>. QED BY <1>1, <2>1 DEF Visiting
<1>4. heap[root][k].kind # "map" => \A l \in DOMAIN doc : HoldsMap(root, l) => (l \in Q <=> l \in Top.pending)
  BY <1>0, <1>2, SeenNext
<1>5. ASSUME NEW l \in DOMAIN doc, HoldsMap(root, l)
      PROVE  InsideSeen(heap', loops, job, doc[l].ref, l \in loops[1].pending)
  <2> DEFINE n == doc[l].ref
  <2>1. Child(document, root, n)
    BY <1>5 DEF Child, HoldsMap
  <2>2. n \in MapsOf(job) /\ n # root /\ n \in DOMAIN heap /\ Apart(n)
        /\ Wanted(document.heap[n], heap', job) = Wanted(document.heap[n], heap, job)
    BY <1>1, <2>1
  <2>3. heap'[n] = heap[n]
    BY <1>0, <2>2
  <2>4. InsideSeen(heap, stack, job, n, l \in stack[1].pending)
    BY <1>5 DEF UnderWay
  <2>5. /\ l \in Top.pending => heap[n] = document.heap[n]
        /\ l \notin Top.pending => Visiting(heap, n, job, {})
    <3>1. ~Inside(stack, n)
      BY DEF Inside
    <3>. QED BY <1>0, <2>4, <3>1 DEF InsideSeen
  <2>6. CASE ~Inside(loops, n) /\ (l \in Q <=> l \in Top.pending)
    <3>1. l \notin Top.pending => Visiting(heap', n, job, {})
      BY <2>2, <2>3, <2>5, VisitingKept
    <3>. QED BY <2>3, <2>5, <2>6, <3>1 DEF InsideSeen
  <2>7. CASE heap[Top.map][k].kind # "map" /\ Len(loops) = 1
    <3>1. ~Inside(loops, n)
      BY <2>7 DEF Inside
    <3>2. l \in Q <=> l \in Top.pending
      BY <1>0, <1>4, <1>5, <2>7
    <3>. QED BY <2>6, <3>1, <3>2
  <2>8. CASE /\ heap[Top.map][k].kind = "map" /\ Q = Top.pending \ {k} /\ Len(loops) = 2
             /\ loops[2].map = heap[Top.map][k].ref /\ loops[2].pending = DOMAIN heap[heap[Top.map][k].ref]
    <3>1. k \in DOMAIN doc /\ heap[root][k] = doc[k] /\ doc[k].kind = "map"
      BY <1>0, <2>8 DEF PassType
    <3>2. CASE l = k
      <4>1. loops[2].map = n /\ loops[2].pending = DOMAIN heap[n] /\ Inside(loops, n) /\ l \notin Q
        BY <1>0, <2>8, <3>1, <3>2 DEF Inside
      <4>2. heap[n] = document.heap[n]
        BY <2>5, <3>2
      <4>3. \A x \in DOMAIN document.heap[n] : x \in Keys
        <5>1. n \in DOMAIN document.heap
          BY <2>2 DEF PassType
        <5>. QED BY <1>0, <5>1, DocumentMeans DEF ValidMap
      <4>4. Seen(document.heap[n], document.heap[n], DOMAIN document.heap[n], Wanted(document.heap[n], heap', job), Jobs[job].attrSub)
        BY <2>2, <4>3, SeenStart DEF Apart
      <4>5. Visiting(heap', n, job, loops[2].pending)
        BY <2>3, <4>1, <4>2, <4>4 DEF Visiting
      <4>. QED BY <4>1, <4>5 DEF InsideSeen
    <3>3. CASE l # k
      <4>1. doc[l].ref # doc[k].ref
        <5>1. root \in DOMAIN document.heap
          BY <1>0 DEF PassType
        <5>. QED BY <1>0, <1>5, <3>1, <3>3, <5>1, DocumentMeans DEF HoldsMap
      <4>2. ~Inside(loops, n)
        BY <1>0, <2>8, <3>1, <4>1 DEF Inside
      <4>. QED BY <2>6, <2>8, <3>3, <4>2
    <3>. QED BY <3>2, <3>3
  <2>. QED BY <2>7, <2>8
<1>. QED BY <1>3, <1>5 DEF UnderWay

\* How a step goes on in the part under way.
LEMMA VisitOrder ==
  ASSUME PassType, PassStack, stack # <<>>, UnderWay(heap, stack, job), NEW k \in Top.pending, NEW D, NEW Q,
         EntryBecomes(Top.map, k, D, Q), \A m \in MapsOf(job) : Apart(m),
         \A n \in DOMAIN heap : n # Top.map => heap'[n] = heap[n],
         \A m \in MapsOf(job) : m \in DOMAIN heap /\ Wanted(document.heap[m], heap', job) = Wanted(document.heap[m], heap, job),
         (heap[Top.map][k].kind # "map" /\ Remaining(Q)) \/ (Pushes(k) /\ Q = Top.pending \ {k})
  PROVE  UnderWay(heap', stack', job)
<1> DEFINE N == Len(stack)
           M == Len(stack')
           n == heap[Top.map][k].ref
<1>0. Top.pending \subseteq Keys
  BY TopMeans
<1>1. Q \in SUBSET Keys
  BY <1>0 DEF EntryBecomes
<1>2. CASE heap[Top.map][k].kind # "map" /\ Remaining(Q)
  <2>1. /\ N \in Nat \ {0} /\ M = N /\ stack'[N].pending = Q
        /\ \A i \in 1 .. N : (i # N => stack'[i] = stack[i]) /\ stack'[i].map = stack[i].map
    <3>1. /\ Len(stack') = Len(stack) /\ Len(stack) \in Nat \ {0} /\ stack'[Len(stack)] = [map |-> Top.map, pending |-> Q]
          /\ \A i \in 1 .. Len(stack) : i # Len(stack) => stack'[i] = stack[i]
          /\ \A i \in 1 .. Len(stack) : stack'[i].map = stack[i].map
      BY <1>1, <1>2, RemainingMeans
    <3> HIDE DEF N, M
    <3>2. M = N /\ N \in Nat \ {0} /\ stack'[N] = [map |-> Top.map, pending |-> Q]
      BY <3>1 DEF N, M
    <3>3. \A i \in 1 .. N : (i # N => stack'[i] = stack[i]) /\ stack'[i].map = stack[i].map
      BY <3>1 DEF N, M
    <3>. QED BY <3>2, <3>3
  <2> HIDE DEF N, M
  <2>2. CASE N = 1
    <3>1. M = 1 /\ stack'[1].pending = Q
      BY <2>1, <2>2
    <3>. QED BY <1>2, <2>2, <3>1, RootNext DEF N, M
  <2>3. CASE N # 1
    <3>1. N > 1 /\ M > 1 /\ stack'[1] = stack[1] /\ stack'[2].map = stack[2].map
          /\ (N = 2 => stack'[2].pending = Q) /\ (N > 2 => stack'[2] = stack[2])
      BY <2>1, <2>3
    <3>. QED BY <3>1, InsideNext DEF N, M
  <2>. QED BY <2>2, <2>3
<1>3. CASE Pushes(k) /\ Q = Top.pending \ {k}
  <2>1. /\ N \in Nat \ {0} /\ M = N + 1 /\ stack'[N].pending = Q
        /\ stack'[N + 1].map = n /\ stack'[N + 1].pending = DOMAIN heap[n]
        /\ \A i \in 1 .. N : (i # N => stack'[i] = stack[i]) /\ stack'[i].map = stack[i].map
    <3>1. /\ Len(stack) \in Nat \ {0} /\ Len(stack') = Len(stack) + 1
          /\ stack'[Len(stack) + 1] = [map |-> n, pending |-> DOMAIN heap[n]]
          /\ stack'[Len(stack)] = [map |-> Top.map, pending |-> Top.pending \ {k}]
          /\ \A i \in 1 .. Len(stack) : i # Len(stack) => stack'[i] = stack[i]
          /\ \A i \in 1 .. Len(stack) : stack'[i].map = stack[i].map
      BY <1>3, PushMeans
    <3> HIDE DEF N, M, n
    <3>2. /\ N \in Nat \ {0} /\ M = N + 1
          /\ stack'[N + 1] = [map |-> n, pending |-> DOMAIN heap[n]]
          /\ stack'[N] = [map |-> Top.map, pending |-> Top.pending \ {k}]
      BY <3>1 DEF N, M
    <3>3. \A i \in 1 .. N : (i # N => stack'[i] = stack[i]) /\ stack'[i].map = stack[i].map
      BY <3>1 DEF N, M
    <3>. QED BY <1>3, <3>2, <3>3
  <2> HIDE DEF N, M
  <2>2. CASE N = 1
    <3>1. M = 2 /\ stack'[1].pending = Q /\ stack'[2].map = n /\ stack'[2].pending = DOMAIN heap[n]
      BY <2>1, <2>2
    <3>2. heap[Top.map][k].kind = "map"
      BY <1>3 DEF Pushes
    <3>. QED BY <1>3, <2>2, <3>1, <3>2, RootNext DEF N, M
  <2>3. CASE N # 1
    <3>1. N > 1 /\ M > 1 /\ stack'[1] = stack[1] /\ stack'[2].map = stack[2].map
          /\ (N = 2 => stack'[2].pending = Q) /\ (N > 2 => stack'[2] = stack[2])
      BY <2>1, <2>3
    <3>. QED BY <3>1, InsideNext DEF N, M
  <2>. QED BY <2>2, <2>3
<1>. QED BY <1>2, <1>3

\* Whatever entry is visited, the part under way goes on as wanted.
LEMMA VisitUnderWay ==
  ASSUME PassType, PassStack, PassOrder, PassType', stack # <<>>, NEW k \in Top.pending, Visit(k)
  PROVE  OrderAt(heap', stack', job', job)
<1>0. /\ document \in Documents /\ DOMAIN heap = DOMAIN document.heap
  BY DEF PassType
<1>1. job \in DOMAIN Jobs /\ IsLoop(job) /\ Current = Jobs[job]
  BY TopMeans
<1>2. \A m \in MapsOf(job) : m \in DOMAIN heap
  BY <1>0, <1>1, MapsOfMeans
<1>3. job \in Nat /\ ~(job < job)
  BY JobsMean DEF PassType
<1>4. Orderly(heap, job) => UnderWay(heap, stack, job) /\ InPlace /\ \A m \in MapsOf(job) : Apart(m)
  <2>1. OrderAt(heap, stack, job, job)
    BY <1>1 DEF PassOrder
  <2>. QED BY <1>1, <2>1 DEF OrderAt, Orderly, InPlace
<1>5. CASE \E tag \in {"error", "panic"} : Stop(tag)
  <2>1. heap' = heap /\ stack' = stack /\ job' = job
    BY <1>5 DEF Stop
  <2>2. OrderAt(heap, stack, job, job)
    BY <1>1 DEF PassOrder
  <2>. QED BY <2>1, <2>2
<1>6. CASE Current.kind = "map" /\ Pushes(k)
  <2>1. heap' = heap /\ job' = job /\ status' = status /\ heap[Top.map][k].kind = "map"
    BY <1>6 DEF Pushes
  <2>2. status = "running"
    BY VisitChanges
  <2>3. ASSUME Orderly(heap, job)
        PROVE  UnderWay(heap', stack', job)
    <3>1. EntryBecomes(Top.map, k, {k}, Top.pending \ {k})
      <4>1. \/ \E tag \in {"error", "panic"} : Stop(tag)
            \/ Current.kind = "map" /\ Pushes(k) /\ EntryBecomes(Top.map, k, {k}, Top.pending \ {k})
            \/ heap[Top.map][k].kind # "map"
        BY <1>4, <2>3, VisitBecomes
      <4>2. ~\E tag \in {"error", "panic"} : Stop(tag)
        BY <2>1, <2>2 DEF Stop
      <4>. QED BY <2>1, <4>1, <4>2
    <3>2. \A m \in MapsOf(job) : m \in DOMAIN heap /\ Wanted(document.heap[m], heap', job) = Wanted(document.heap[m], heap, job)
      BY <1>2, <2>1
    <3>3. \A n \in DOMAIN heap : n # Top.map => heap'[n] = heap[n]
      BY <2>1
    <3>. QED BY <1>4, <1>6, <2>3, <3>1, <3>2, <3>3, VisitOrder
  <2>. QED BY <1>3, <2>1, <2>3 DEF OrderAt
<1>7. CASE /\ ~\E tag \in {"error", "panic"} : Stop(tag)
           /\ ~(Current.kind = "map" /\ Pushes(k))
  <2>1. PICK w, p : Changes(w, p) /\ Rewritable(w)
    BY <1>7, VisitChanges DEF Rewritable
  <2>2. job' = job
    BY <2>1 DEF Changes
  <2>3. job <= job
    BY <1>3
  <2>4. /\ Closed(heap', ScopeOf(heap', Jobs[job].scope), Jobs[job].attrSub) <=>
             Closed(heap, ScopeOf(heap, Jobs[job].scope), Jobs[job].attrSub)
        /\ \A m \in MapsOf(job) : m \in DOMAIN heap /\ Wanted(document.heap[m], heap', job) = Wanted(document.heap[m], heap, job)
    BY <1>1, <2>1, <2>3, WantedKept
  <2>5. Orderly(heap', job) => Orderly(heap, job)
    BY <2>4 DEF Orderly
  <2>6. ASSUME Orderly(heap, job)
        PROVE  UnderWay(heap', stack', job)
    <3>1. /\ heap[Top.map][k].kind # "map"
          /\ \A n \in DOMAIN heap : n # Top.map => heap'[n] = heap[n]
          /\ \E D, Q : EntryBecomes(Top.map, k, D, Q) /\ Remaining(Q)
      BY <1>4, <1>7, <2>6, VisitBecomes
    <3>2. PICK D, Q : EntryBecomes(Top.map, k, D, Q) /\ Remaining(Q)
      BY <3>1
    <3>. QED BY <1>4, <2>4, <2>6, <3>1, <3>2, VisitOrder
  <2>. QED BY <1>3, <2>2, <2>5, <2>6 DEF OrderAt
<1>. QED BY <1>5, <1>6, <1>7

\* The parts that are done, when an entry is visited.
LEMMA VisitDone ==
  ASSUME PassType, PassStack, PassPaths, PassOrder, PassType', stack # <<>>, NEW k \in Top.pending, Visit(k),
         NEW j \in DOMAIN Jobs, j < job
  PROVE  OrderAt(heap', stack', job', j)
<1>1. CASE heap' = heap /\ job' = job
  <2>1. OrderAt(heap, stack, job, j)
    BY DEF PassOrder
  <2>2. j # job
    BY JobsMean DEF PassType
  <2>. QED BY <1>1, <2>1, <2>2 DEF OrderAt
<1>2. CASE \E w, p : Changes(w, p) /\ Rewritable(w)
  <2>1. PICK w, p : Changes(w, p) /\ Rewritable(w)
    BY <1>2
  <2>2. OrderAt(heap', stack', job, j)
    BY <2>1, DoneOrder
  <2>3. job' = job
    BY <2>1 DEF Changes
  <2>. QED BY <2>2, <2>3
<1>3. \/ heap' = heap /\ job' = job
      \/ \E w, p : Changes(w, p) /\ Rewritable(w)
  <2>1. \/ Current.kind = "map" /\ Pushes(k)
        \/ \E tag \in {"error", "panic"} : Stop(tag)
        \/ \E m, p : /\ Changes(m, p) /\ k \in Top.pending
                     /\ (Current.kind = "map" /\ m = Top.map) \/ (Current.kind = "paths" /\ m = Current.into)
    BY VisitChanges
  <2>. QED BY <2>1 DEF Pushes, Stop, Rewritable
<1>. QED BY <1>1, <1>2, <1>3

\* A loop begins in maps as they were in the document.
LEMMA StartOrder ==
  ASSUME PassType, PassStack, PassFresh, PassOrder, StartLoop, NEW j \in DOMAIN Jobs
  PROVE  OrderAt(heap', stack', job', j)
<1> DEFINE root == Jobs[job].map
<1>0. /\ document \in Documents /\ DOMAIN heap = DOMAIN document.heap
  BY DEF PassType
<1>1. /\ stack = <<>> /\ heap' = heap /\ job' = job /\ Current.kind # "name" /\ job <= Len(Jobs)
      /\ stack' = <<[map |-> Jobs[job].map, pending |-> DOMAIN heap[Jobs[job].map]]>>
  BY DEF StartLoop, Between, Current
<1>2. job \in DOMAIN Jobs /\ IsLoop(job) /\ job \in Nat
  <2>1. DOMAIN Jobs = 1 .. Len(Jobs) /\ Len(Jobs) \in Nat
    BY JobsMean
  <2>2. job \in 1 .. Len(Jobs) + 1
    BY DEF PassType
  <2>3. job \in 1 .. Len(Jobs)
    BY <1>1, <2>1, <2>2
  <2>. QED BY <1>1, <2>1, <2>3 DEF IsLoop, Current
<1>3. CASE j # job
  <2>1. OrderAt(heap, stack, job, j)
    BY DEF PassOrder
  <2>. QED BY <1>1, <1>3, <2>1 DEF OrderAt
<1>4. CASE j = job
  <2> SUFFICES ASSUME Orderly(heap, job) PROVE UnderWay(heap, stack', job)
    BY <1>1, <1>2, <1>4 DEF OrderAt
  <2>1. \A m \in MapsOf(job) : heap[m] = document.heap[m] /\ Apart(m)
    BY <1>1, <1>2 DEF PassFresh, Untouched, Orderly
  <2>2. root \in MapsOf(job) /\ MapsOf(job) \subseteq DOMAIN document.heap
        /\ \A n : Child(document, root, n) => n \in MapsOf(job)
    BY <1>0, <1>2, MapsOfMeans
  <2>3. \A k \in DOMAIN document.heap[root] : k \in Keys
    BY <1>0, <2>2, DocumentMeans DEF ValidMap
  <2>4. Seen(document.heap[root], document.heap[root], DOMAIN document.heap[root],
             Wanted(document.heap[root], heap, job), Jobs[job].attrSub)
    BY <2>1, <2>2, <2>3, SeenStart DEF Apart
  <2>5. stack'[1].pending = DOMAIN document.heap[root] /\ ~(Len(stack') > 1)
    BY <1>1, <2>1, <2>2
  <2>6. Visiting(heap, root, job, stack'[1].pending)
    BY <2>1, <2>2, <2>4, <2>5 DEF Visiting
  <2>7. ASSUME NEW k \in DOMAIN document.heap[root], HoldsMap(root, k)
        PROVE  InsideSeen(heap, stack', job, document.heap[root][k].ref, k \in stack'[1].pending)
    <3>1. Child(document, root, document.heap[root][k].ref)
      BY <2>7 DEF Child, HoldsMap
    <3>2. heap[document.heap[root][k].ref] = document.heap[document.heap[root][k].ref]
      BY <2>1, <2>2, <3>1
    <3>. QED BY <2>5, <3>2 DEF InsideSeen, Inside
  <2>. QED BY <2>6, <2>7 DEF UnderWay
<1>. QED BY <1>3, <1>4

\* A loop that ends has nothing left to visit.
LEMMA EndOrder ==
  ASSUME PassType, PassStack, PassOrder, EndLoop, NEW j \in DOMAIN Jobs
  PROVE  OrderAt(heap', stack', job', j)
<1> DEFINE root == Jobs[job].map
           N == Len(stack)
           M == Len(stack')
<1>0. document \in Documents /\ job \in Nat /\ j \in Nat
  BY JobsMean DEF PassType
<1>1. /\ stack # <<>> /\ N \in Nat \ {0} /\ M = N - 1 /\ (\A i \in 1 .. N - 1 : stack'[i] = stack[i])
      /\ Top.pending = {} /\ heap' = heap
  BY EndMeans
<1>2. job \in DOMAIN Jobs /\ IsLoop(job) /\ Top = stack[N]
  BY <1>1, TopMeans
<1>3. (N = 1 => stack' = <<>> /\ job' = job + 1) /\ (N # 1 => stack' # <<>> /\ job' = job)
  <2>1. job' = IF stack' = <<>> THEN job + 1 ELSE job
    BY EndMeans
  <2>2. job' = IF N = 1 THEN job + 1 ELSE job
    BY DEF EndLoop
  <2>. QED BY <1>0, <2>1, <2>2
<1>4. OrderAt(heap, stack, job, j)
  BY DEF PassOrder
<1>5. CASE j # job
  <2>1. j < job' => j < job
    BY <1>0, <1>3, <1>5
  <2>2. ~(j = job' /\ stack' # <<>>)
    BY <1>3, <1>5
  <2>. QED BY <1>1, <1>4, <2>1, <2>2 DEF OrderAt
<1>6. CASE j = job /\ N = 1
  <2> SUFFICES ASSUME Orderly(heap, job), NEW m \in MapsOf(job)
               PROVE  Visiting(heap, m, job, {})
    BY <1>1, <1>3, <1>6 DEF OrderAt
  <2>1. UnderWay(heap, stack, job) /\ stack[1].pending = {}
    BY <1>1, <1>2, <1>4, <1>6 DEF OrderAt
  <2>2. CASE m = root
    BY <2>1, <2>2 DEF UnderWay
  <2>3. CASE Child(document, root, m)
    <3>1. PICK l \in DOMAIN document.heap[root] : HoldsMap(root, l) /\ document.heap[root][l].ref = m
      BY <2>3 DEF Child, HoldsMap
    <3>2. InsideSeen(heap, stack, job, m, FALSE)
      <4>1. InsideSeen(heap, stack, job, document.heap[root][l].ref, l \in stack[1].pending)
        BY <2>1, <3>1 DEF UnderWay
      <4>2. (l \in stack[1].pending) = FALSE
        BY <2>1
      <4>. QED BY <3>1, <4>1, <4>2
    <3>3. ~Inside(stack, m)
      BY <1>6 DEF Inside
    <3>. QED BY <3>2, <3>3 DEF InsideSeen
  <2>. QED BY <1>0, <1>2, <2>2, <2>3, MapsOfMeans
<1>7. CASE j = job /\ N # 1
  <2> SUFFICES ASSUME Orderly(heap, job) PROVE UnderWay(heap, stack', job)
    BY <1>0, <1>1, <1>3, <1>7 DEF OrderAt
  <2>1. UnderWay(heap, stack, job)
    BY <1>1, <1>4, <1>7 DEF OrderAt
  <2>2. /\ stack'[1] = stack[1] /\ (N = 2 => ~(M > 1) /\ stack[2].pending = {})
        /\ N > 1 /\ (N > 2 => M > 1 /\ stack'[2] = stack[2])
    <3> HIDE DEF N, M
    <3>. QED BY <1>1, <1>2, <1>7
  <2>3. ASSUME NEW k \in DOMAIN document.heap[root], HoldsMap(root, k)
        PROVE  InsideSeen(heap, stack', job, document.heap[root][k].ref, k \in stack'[1].pending)
    <3> DEFINE n == document.heap[root][k].ref
    <3>1. InsideSeen(heap, stack, job, n, k \in stack[1].pending)
      BY <2>1, <2>3 DEF UnderWay
    <3>2. N = 2 \/ N > 2
      BY <1>1, <1>7
    <3>3. CASE N = 2
      <4>1. ~Inside(stack', n)
        BY <2>2, <3>3 DEF Inside
      <4>2. Inside(stack, n) => stack[2].pending = {}
        BY <2>2, <3>3
      <4>. QED BY <2>2, <3>1, <4>1, <4>2 DEF InsideSeen
    <3>4. CASE N > 2
      <4>1. (Inside(stack', n) <=> Inside(stack, n)) /\ stack'[2] = stack[2]
        BY <2>2, <3>4 DEF Inside
      <4>. QED BY <2>2, <3>1, <4>1 DEF InsideSeen
    <3>. QED BY <3>2, <3>3, <3>4
  <2>. QED BY <2>1, <2>2, <2>3 DEF UnderWay
<1>. QED BY <1>5, <1>6, <1>7

\* No step leaves a map other than the invariant says.
LEMMA OrderStep ==
  ASSUME PassType, PassStack, PassFresh, PassPaths, PassOrder, [PassNext]_passVars, NEW j \in DOMAIN Jobs
  PROVE  OrderAt(heap', stack', job', j)
<1>a. PassType'
  BY TypeStep
<1>b. DOMAIN Jobs = 1 .. Len(Jobs) /\ Len(Jobs) \in Nat
  BY JobsMean
<1>0. PassType' /\ job \in Nat /\ j \in Nat
  BY <1>a, <1>b DEF PassType
<1>1. OrderAt(heap, stack, job, j)
  BY DEF PassOrder
<1>2. CASE heap' = heap /\ stack' = stack /\ job' = job
  BY <1>1, <1>2
<1>3. CASE UNCHANGED passVars \/ Finish \/ \E tag \in {"error", "panic"} : Stop(tag)
  BY <1>2, <1>3 DEF passVars, Finish, Stop
<1>4. CASE SubstituteName
  <2>1. /\ stack = <<>> /\ stack' = stack /\ heap' = heap /\ ~IsLoop(job)
        /\ job' = job \/ job' = job + 1
    BY <1>4 DEF SubstituteName, Between, Stop, IsLoop, Current
  <2>2. j < job' => j < job \/ j = job
    BY <1>0, <2>1
  <2>3. Orderly(heap, j) => j # job
    BY <2>1 DEF Orderly
  <2>. QED BY <1>1, <2>1, <2>2, <2>3 DEF OrderAt
<1>5. CASE StartLoop
  BY <1>5, StartOrder
<1>6. CASE EndLoop
  BY <1>6, EndOrder
<1>7. CASE stack # <<>> /\ \E k \in Top.pending : Visit(k)
  <2>1. PICK k \in Top.pending : Visit(k)
    BY <1>7
  <2>2. CASE j < job
    BY <1>0, <1>7, <2>1, <2>2, VisitDone
  <2>3. CASE j = job
    BY <1>0, <1>7, <2>1, <2>3, VisitUnderWay
  <2>4. CASE j > job
    <3>1. job' = job
      BY <1>7, <2>1, VisitChanges DEF Pushes, Stop, Changes
    <3>. QED BY <1>0, <2>4, <3>1 DEF OrderAt
  <2>. QED BY <1>0, <2>2, <2>3, <2>4
<1>. QED BY <1>3, <1>4, <1>5, <1>6, <1>7 DEF PassNext

\* The order again, of the next state.
LEMMA OrderNext ==
  ASSUME document' = document, \A j \in DOMAIN Jobs : OrderAt(heap', stack', job', j)
  PROVE  PassOrder'
<1>1. \A j : MapsOf(j)' = MapsOf(j)
  BY DEF MapsOf
<1>2. \A m : Apart(m)' <=> Apart(m)
  BY DEF Apart
<1>3. \A m : RewrittenAgain(m)' <=> RewrittenAgain(m)
  BY DEF RewrittenAgain
<1>4. \A j : Orderly(heap, j)' <=> Orderly(heap', j)
  BY <1>1, <1>2 DEF Orderly
<1>5. ASSUME NEW j \in DOMAIN Jobs PROVE OrderAt(heap, stack, job, j)'
  <2>1. OrderAt(heap', stack', job', j)
    OBVIOUS
  <2> SUFFICES ASSUME Orderly(heap', j)
               PROVE  /\ j < job' => \A m \in MapsOf(j) : RewrittenAgain(m) \/ Visiting(heap, m, j, {})'
                      /\ j = job' /\ stack' # <<>> => UnderWay(heap, stack, j)'
    BY <1>1, <1>3, <1>4 DEF OrderAt
  <2>2. \A m : Visiting(heap', m, j, {}) <=> Visiting(heap, m, j, {})'
    BY DEF Visiting
  <2>3. UnderWay(heap', stack', j) => UnderWay(heap, stack, j)'
    BY DEF UnderWay, InsideSeen, Inside, Visiting, HoldsMap
  <2>. QED BY <2>1, <2>2, <2>3 DEF OrderAt
<1>. QED BY <1>5 DEF PassOrder

\* Nothing is done yet.
LEMMA OrderInit == PassInit => PassOrder
<1> SUFFICES ASSUME PassInit, NEW j \in DOMAIN Jobs PROVE OrderAt(heap, stack, job, j)
  BY DEF PassOrder
<1>1. stack = <<>> /\ job = 1 /\ j \in Nat /\ ~(j < 1)
  BY JobsMean DEF PassInit
<1>. QED BY <1>1 DEF OrderAt

\* A pass that is done has given every map what is wanted.
LEMMA OrderEnds == PassType /\ PassOrder => OrderIndependent
<1> SUFFICES ASSUME PassType, PassOrder, status = "done", NEW j \in DOMAIN Jobs, IsLoop(j), Settled(heap, Jobs[j].scope),
                    \A m \in MapsOf(j) : Apart(m), NEW m \in MapsOf(j), Jobs[j].into = Jobs[j].map, ~RewrittenAgain(m)
             PROVE  /\ \A y \in DOMAIN heap[m] : \E k \in DOMAIN document.heap[m] : Extends(y, k)
                    /\ \A k \in DOMAIN document.heap[m] :
                         LinesFrom(heap[m], k) \in
                           EntryOutcomes(k, document.heap[m][k], heap, ScopeOf(heap, Jobs[j].scope), Jobs[j].attrSub)
  BY DEF OrderIndependent
<1>1. Closed(heap, ScopeOf(heap, Jobs[j].scope), Jobs[j].attrSub)
  <2>1. Closed(heap, ScopeOf(heap, Jobs[j].scope), TRUE)
    BY SettledMeans
  <2>2. Jobs[j].attrSub \in BOOLEAN
    BY JobAt
  <2>3. Closed(heap, ScopeOf(heap, Jobs[j].scope), FALSE)
    BY <2>1 DEF Closed, Left, Skipped
  <2>. QED BY <2>1, <2>2, <2>3
<1>2. j < job
  BY JobsMean DEF PassType
<1>3. Visiting(heap, m, j, {})
  <2>1. Orderly(heap, j)
    BY <1>1 DEF Orderly
  <2>2. OrderAt(heap, stack, job, j)
    BY DEF PassOrder
  <2>. QED BY <1>2, <2>1, <2>2 DEF OrderAt
<1> DEFINE want == Wanted(document.heap[m], heap, j)
<1>4. Seen(heap[m], document.heap[m], {}, want, Jobs[j].attrSub)
  BY <1>3 DEF Visiting
<1>5. /\ \A y \in DOMAIN heap[m] : \E k \in DOMAIN document.heap[m] : Extends(y, k)
      /\ \A k \in DOMAIN document.heap[m] : LinesFrom(heap[m], k) \in want[k]
  <2> HIDE DEF want
  <2>. QED BY <1>4 DEF Seen
<1>6. \A k \in DOMAIN document.heap[m] :
        want[k] = EntryOutcomes(k, document.heap[m][k], heap, ScopeOf(heap, Jobs[j].scope), Jobs[j].attrSub)
  BY DEF Wanted
<1> HIDE DEF want
<1>. QED BY <1>5, <1>6

\* While Go iterates over a map of substituteVariables and rewrites it: every key of a part
\* that is done comes of an entry of the document, what comes of an entry is one of the
\* outcomes of rewriting it once from the final attributes, and in the part under way it is
\* that or the entry alone, still to be visited. This of parts that are rewritten in place,
\* with no entry named like one that is added, from attributes without references; two
\* lines of one entry with the same key leave either.
THEOREM PassOrderInvariant == PassSpec => []PassOrder
<1>1. PassInit => PassOrder
  BY OrderInit
<1>2. PassInv /\ PassOrder /\ [PassNext]_passVars => PassOrder'
  <2> SUFFICES ASSUME PassInv, PassOrder, [PassNext]_passVars PROVE PassOrder'
    OBVIOUS
  <2>1. document' = document
    BY StepKinds DEF PassInv
  <2>2. \A j \in DOMAIN Jobs : OrderAt(heap', stack', job', j)
    BY OrderStep DEF PassInv
  <2>. QED BY <2>1, <2>2, OrderNext
<1>3. PassSpec => []PassInv
  BY PassInvariant
<1>. QED BY <1>1, <1>2, <1>3, PTL DEF PassSpec

\* Whatever the order in which Go iterates over the maps of substituteVariables, and
\* whichever of the entries added on the way it visits, the pass leaves of each entry one of
\* the outcomes of rewriting it once, and nothing else. The outcome is determined but for
\* the order of a list's elements and for the lines that one entry gives the same key, of
\* which any may be left.
THEOREM OrderDoesNotMatter == PassSpec => []OrderIndependent
<1>1. PassInv /\ PassOrder => OrderIndependent
  BY OrderEnds DEF PassInv
<1>2. PassSpec => []PassInv
  BY PassInvariant
<1>3. PassSpec => []PassOrder
  BY PassOrderInvariant
<1>. QED BY <1>1, <1>2, <1>3, PTL
=============================================================================
