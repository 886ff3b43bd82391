---------------------------- MODULE PluginManager ----------------------------
(***************************************************************************)
(* The life of a plugin's main goroutine in pluginmanager.go:              *)
(* InitPluginManager creates the compute store, reads the payload,         *)
(* substitutes its variables and connects every data store, first those of *)
(* the payload (level 0), then those of action 1, 2, ... after giving the  *)
(* action its parent; RunActions then runs the registered runners.         *)
(*                                                                         *)
(* A payload is what the substitution and the connections tell apart: the  *)
(* type of each data store and the shape of its "root" parameter, the      *)
(* outcome of substituting the attributes and each data source, the name   *)
(* of each action.                                                         *)
(***************************************************************************)
EXTENDS Naturals, Sequences

CONSTANTS
  Names,       \* the action names
  EnvTypes,    \* the values CC_STORE_TYPE may have
  Payloads,    \* the payload documents the compute store may hold
  Prototypes,  \* the runner structs a plugin may register
  NoRunner,    \* "no runner is registered under this name"
  MaxCalls     \* bound: the RunActions calls a plugin makes

\* "template" has one resolvable single-valued reference, "unresolvable" names
\* a missing attribute, "inflating" is a {..[]} reference to a list, "outOfRange"
\* one to an element a list does not have.
Roots == {"plain", "template", "unresolvable", "inflating", "outOfRange", "notString", "absent"}
StringRoots == {"plain", "template", "unresolvable", "inflating", "outOfRange"}
StoreTypes == {"S3", "FS", "EV"}
RegisteredTypes == {"S3", "FS"}
DataStore == [type : StoreTypes, root : Roots]
Outcomes == {"ok", "error", "panic"}
MapOutcomes == {"ok", "panic"}   \* of attributes, whose errors are discarded

Action == [name : Names, attributes : MapOutcomes, stores : Seq(DataStore), sources : Seq(Outcomes)]
Payload == [attributes : MapOutcomes, stores : Seq(DataStore), sources : Seq(Outcomes), actions : Seq(Action)]

\* The fields RunActions finds by reflection.
InjectedFields == {"PluginManager", "Action", "ActionName"}
FlagField == "ContinueOnError"
\* pointer: registered as a pointer; registeredFlag: ContinueOnError of the
\* registered value; setsFlag: Run itself sets ContinueOnError.
Prototype == [pointer : BOOLEAN, fields : SUBSET (InjectedFields \cup {FlagField}),
              registeredFlag : BOOLEAN, setsFlag : BOOLEAN]

ASSUME PayloadsAssumption == Payloads \subseteq Payload
ASSUME PrototypesAssumption == Prototypes \subseteq Prototype /\ NoRunner \notin Prototypes
ASSUME CallsAssumption == MaxCalls \in Nat

VARIABLES
  pc,        \* where the goroutine is
  err,       \* why the last call failed ("none" when it did not)
  env,       \* CC_STORE_TYPE
  payload,   \* manager.Payload
  level,     \* whose stores are being connected: 0 the payload's, i those of action i
  next,      \* index of the next store of that level
  session,   \* DataStore.Session of each store
  parented,  \* the actions whose IOManager has its parent
  registry,  \* ActionRegistry
  cursor,    \* index of the action RunActions is at
  runs,      \* what happened to each action of the current or last RunActions call
  calls      \* RunActions calls so far

vars == <<pc, err, env, payload, level, next, session, parented, registry, cursor, runs, calls>>
initVars == <<env, level, next, session, parented>>
runVars == <<cursor, runs, calls>>

NoPayload == [attributes |-> "ok", stores |-> <<>>, sources |-> <<>>, actions |-> <<>>]
Stores(p, l) == IF l = 0 THEN p.stores ELSE p.actions[l].stores
Levels(p) == 0 .. Len(p.actions)
Slots(p) == UNION {{l} \X (1 .. Len(Stores(p, l))) : l \in Levels(p)}

Init ==
  /\ pc = "create" /\ err = "none"
  /\ env \in EnvTypes
  /\ payload = NoPayload
  /\ level = 0 /\ next = 1
  /\ session = [s \in {} |-> "none"]
  /\ parented = {}
  /\ registry = [n \in Names |-> NoRunner]
  /\ cursor = 1 /\ runs = <<>> /\ calls = 0

\* InitPluginManager returns nil and an error; the plugin has no manager to use.
InitFails(reason) == pc' = "failed" /\ err' = reason
Crash(reason) == pc' = "crashed" /\ err' = reason

(***************************************************************************)
(* InitPluginManager                                                       *)
(***************************************************************************)
\* NewCcStore(nil): S3 unless CC_STORE_TYPE says something else. The S3 client
\* itself may be impossible to configure.
CcStoreSupported(e) == e \in {"S3", ""}

NewCcStore ==
  /\ pc = "create"
  /\ \/ CcStoreSupported(env) /\ pc' = "fetch" /\ UNCHANGED err
     \/ CcStoreSupported(env) /\ InitFails("s3 client")
     \/ ~CcStoreSupported(env) /\ InitFails("unsupported store type")
  /\ UNCHANGED <<initVars, runVars, payload, registry>>

\* store.GetPayload and its copy into the manager, which sets no session.
GetPayload ==
  /\ pc = "fetch"
  /\ \/ /\ pc' = "substitute" /\ UNCHANGED err
        /\ \E p \in Payloads :
             /\ payload' = p
             /\ session' = [s \in Slots(p) |-> "none"]
     \/ InitFails("payload") /\ UNCHANGED <<payload, session>>
  /\ UNCHANGED <<env, level, next, parented, registry, runVars>>

\* Parameter errors are discarded; a list inflates "root" into "root-<value>".
\* Only the stores of the payload are visited, those of its actions are not.
SubstitutedRoot(r) ==
  CASE r = "template" -> "plain" [] r = "inflating" -> "absent" [] OTHER -> r
SubstitutedStores(ds) == [i \in DOMAIN ds |-> [ds[i] EXCEPT !.root = SubstitutedRoot(@)]]
SubstitutedPayload(p) == [p EXCEPT !.stores = SubstitutedStores(@)]

\* What the pass substitutes at each level, in its order: the attributes and the
\* parameters of the payload's stores, then the data sources. The first of all
\* that is not "ok" ends it.
Attributes(p, l) == IF l = 0 THEN p.attributes ELSE p.actions[l].attributes
Sources(p, l) == IF l = 0 THEN p.sources ELSE p.actions[l].sources
MapsPanic(p, l) ==
  \/ Attributes(p, l) = "panic"
  \/ l = 0 /\ \E i \in DOMAIN p.stores : p.stores[i].root = "outOfRange"
Substitutions(p, l) == <<IF MapsPanic(p, l) THEN "panic" ELSE "ok">> \o Sources(p, l)
AllBefore(p, l, i) ==
  /\ \A m \in 0 .. (l - 1) : \A j \in DOMAIN Substitutions(p, m) : Substitutions(p, m)[j] = "ok"
  /\ \A j \in 1 .. (i - 1) : Substitutions(p, l)[j] = "ok"

\* Mutant: the faults of the actions are not returned.
FirstFaultOfPayload(p, fault) ==
  \E i \in DOMAIN Substitutions(p, 0) : Substitutions(p, 0)[i] = fault /\ AllBefore(p, 0, i)

FirstFault(p, fault) ==
  \E l \in Levels(p) : \E i \in DOMAIN Substitutions(p, l) :
    Substitutions(p, l)[i] = fault /\ AllBefore(p, l, i)

SubstituteVariables ==
  /\ pc = "substitute"
  /\ \/ FirstFault(payload, "error") /\ InitFails("substitution") /\ UNCHANGED payload
     \/ FirstFault(payload, "panic") /\ Crash("substitution") /\ UNCHANGED payload
     \/ /\ ~FirstFault(payload, "error") /\ ~FirstFault(payload, "panic")
        /\ pc' = "connect" /\ UNCHANGED err
        /\ payload' = SubstitutedPayload(payload)
  /\ UNCHANGED <<initVars, runVars, registry>>

\* FileDataStore.Connect: the sessions it may return for a store.
Connected(ds) ==
  IF ds.type = "FS" THEN "nil" ELSE "s3"
Connectable(ds) ==
  \/ ds.type = "S3" /\ ds.root \in StringRoots
  \/ ds.type = "FS"
MayFail(ds) == ds.type # "FS"

\* Mutant: the session is assigned to the copy the loop makes of the store.
ConnectStoreCopy ==
  /\ pc = "connect" /\ next <= Len(Stores(payload, level))
  /\ LET ds == Stores(payload, level)[next] IN
     \/ /\ ds.type \in RegisteredTypes /\ Connectable(ds)
        /\ next' = next + 1
        /\ UNCHANGED <<pc, err, session>>
     \/ MayFail(ds) /\ InitFails("connect") /\ UNCHANGED <<session, next>>
  /\ UNCHANGED <<env, payload, level, parented, registry, runVars>>

\* One iteration of connectStores.
ConnectStore ==
  /\ pc = "connect" /\ next <= Len(Stores(payload, level))
  /\ LET ds == Stores(payload, level)[next] IN
     \/ /\ ds.type \in RegisteredTypes /\ Connectable(ds)
        /\ session' = [session EXCEPT ![<<level, next>>] = Connected(ds)]
        /\ next' = next + 1
        /\ UNCHANGED <<pc, err>>
     \/ MayFail(ds) /\ InitFails("connect") /\ UNCHANGED <<session, next>>
  /\ UNCHANGED <<env, payload, level, parented, registry, runVars>>

\* Mutant: the parent is set on the copy the loop makes of the action.
SetParentOfCopy ==
  /\ pc = "connect" /\ next > Len(Stores(payload, level))
  /\ level < Len(payload.actions)
  /\ level' = level + 1 /\ next' = 1
  /\ UNCHANGED <<pc, err, env, payload, session, parented, registry, runVars>>

\* Mutant: the index of the stores is not reset for the next action.
SetParentKeepingIndex ==
  /\ pc = "connect" /\ next > Len(Stores(payload, level))
  /\ level < Len(payload.actions)
  /\ level' = level + 1
  /\ parented' = parented \cup {level + 1}
  /\ UNCHANGED <<pc, err, env, payload, next, session, registry, runVars>>

\* The loop over the actions: SetParent, then the action's own stores.
SetParent ==
  /\ pc = "connect" /\ next > Len(Stores(payload, level))
  /\ level < Len(payload.actions)
  /\ level' = level + 1 /\ next' = 1
  /\ parented' = parented \cup {level + 1}
  /\ UNCHANGED <<pc, err, env, payload, session, registry, runVars>>

InitReturns ==
  /\ pc = "connect" /\ next > Len(Stores(payload, level))
  /\ level = Len(payload.actions)
  /\ pc' = "ready"
  /\ UNCHANGED <<err, payload, registry, initVars, runVars>>

(***************************************************************************)
(* The action registry and RunActions                                      *)
(***************************************************************************)
\* A plugin registers before InitPluginManager or between its calls; a second
\* runner under a name replaces the first.
RegisterAction(n, r) ==
  /\ pc \in {"create", "ready"}
  /\ registry' = [registry EXCEPT ![n] = r]
  /\ UNCHANGED <<pc, err, payload, initVars, runVars>>

RunActions ==
  /\ pc = "ready" /\ calls < MaxCalls
  /\ pc' = "run" /\ err' = "none"
  /\ cursor' = 1 /\ runs' = <<>> /\ calls' = calls + 1
  /\ UNCHANGED <<payload, registry, initVars>>

Runner == registry[payload.actions[cursor].name]
AtAction == pc = "run" /\ cursor <= Len(payload.actions)

\* Mutant: an action without a runner takes the next one with it.
AdvanceTwice(outcome) ==
  /\ cursor' = IF outcome = "skipped" THEN cursor + 2 ELSE cursor + 1
  /\ runs' = Append(runs, [outcome |-> outcome, runner |-> Runner])

Advance(outcome) ==
  /\ cursor' = cursor + 1
  /\ runs' = Append(runs, [outcome |-> outcome, runner |-> Runner])

\* No registered name matches: the action is passed over in silence.
SkipAction ==
  /\ AtAction /\ Runner = NoRunner
  /\ Advance("skipped")
  /\ UNCHANGED <<pc, err, payload, registry, calls, initVars>>

\* reflect.New gives a zero value of the registered type: it needs a pointer
\* and the three injected fields, and forgets the registered value's flag.
Instantiable(r) == r.pointer /\ InjectedFields \subseteq r.fields

\* Mutant: the flag is read from the registered value.
RegisteredValueFlag(r) == r.registeredFlag

InstanceFlag(r) == r.setsFlag

InstantiationPanics ==
  /\ AtAction /\ Runner # NoRunner /\ ~Instantiable(Runner)
  /\ Crash("reflection")
  /\ UNCHANGED <<payload, registry, initVars, runVars>>

RunnerSucceeds ==
  /\ AtAction /\ Runner # NoRunner /\ Instantiable(Runner)
  /\ Advance("ok")
  /\ UNCHANGED <<pc, err, payload, registry, calls, initVars>>

\* Run returns an error: the flag is read from the instance after the call.
RunnerFails ==
  /\ AtAction /\ Runner # NoRunner /\ Instantiable(Runner)
  /\ \/ FlagField \notin Runner.fields /\ Crash("no flag field") /\ UNCHANGED <<cursor, runs>>
     \/ /\ FlagField \in Runner.fields /\ InstanceFlag(Runner)
        /\ Advance("continued") /\ UNCHANGED <<pc, err>>
     \/ /\ FlagField \in Runner.fields /\ ~InstanceFlag(Runner)
        /\ Advance("stopped")
        /\ pc' = "ready" /\ err' = "run"
  /\ UNCHANGED <<payload, registry, calls, initVars>>

RunnerPanics ==
  /\ AtAction /\ Runner # NoRunner /\ Instantiable(Runner)
  /\ Crash("runner")
  /\ UNCHANGED <<payload, registry, initVars, runVars>>

RunReturns ==
  /\ pc = "run" /\ cursor > Len(payload.actions)
  /\ pc' = "ready" /\ err' = "none"
  /\ UNCHANGED <<payload, registry, initVars, runVars>>

InitStep == NewCcStore \/ GetPayload \/ SubstituteVariables \/ ConnectStore \/ SetParent \/ InitReturns
RunStep == SkipAction \/ InstantiationPanics \/ RunnerSucceeds \/ RunnerFails \/ RunnerPanics \/ RunReturns

Next ==
  \/ InitStep
  \/ RunStep
  \/ RunActions
  \/ \E n \in Names, r \in Prototypes : RegisterAction(n, r)

Spec == Init /\ [][Next]_vars

(***************************************************************************)
(* Properties                                                              *)
(***************************************************************************)
PCs == {"create", "fetch", "substitute", "connect", "ready", "run", "failed", "crashed"}
Sessions == {"none", "s3", "nil"}
RunOutcomes == {"skipped", "ok", "continued", "stopped"}
Reasons == {"none", "s3 client", "unsupported store type", "payload", "substitution",
            "connect", "reflection", "no flag field", "runner", "run"}
RunRecord == [outcome : RunOutcomes, runner : Prototypes \cup {NoRunner}]

\* Types of the variables of InitPluginManager and RunActions.
TypeOK ==
  /\ pc \in PCs
  /\ err \in Reasons
  /\ env \in EnvTypes
  /\ payload \in Payload
  /\ level \in Levels(payload)
  /\ next \in 1 .. (Len(Stores(payload, level)) + 1)
  /\ session \in [Slots(payload) -> Sessions]
  /\ parented \subseteq 1 .. level
  /\ registry \in [Names -> Prototypes \cup {NoRunner}]
  /\ cursor \in Nat \ {0}
  /\ runs \in Seq(RunRecord)
  /\ calls \in 0 .. MaxCalls

StoreOf(s) == Stores(payload, s[1])[s[2]]
HandedOut == pc \in {"ready", "run"}

\* A manager InitPluginManager hands out has a session of the right kind for
\* every store of the payload and of its actions, and every action can climb to
\* its parent: no store is skipped, and none keeps the session of another.
ReadyMeansConnected ==
  HandedOut =>
    /\ \A s \in Slots(payload) :
         /\ session[s] = Connected(StoreOf(s))
         /\ StoreOf(s).type = "S3" => StoreOf(s).root \in StringRoots
    /\ parented = 1 .. Len(payload.actions)

\* connectStores goes level by level: when a store has a session so has every
\* store before it, and an action's store is connected only after SetParent.
Precedes(s, t) == s[1] < t[1] \/ (s[1] = t[1] /\ s[2] < t[2])
ConnectedInOrder ==
  \A t \in Slots(payload) : session[t] # "none" =>
    /\ \A s \in Slots(payload) : Precedes(s, t) => session[s] # "none"
    /\ t[1] > 0 => t[1] \in parented

\* No manager is handed out when any data source or attribute of the payload or
\* of any of its actions failed to substitute, and a payload store's root
\* reference is gone.
ReadyMeansSubstituted ==
  HandedOut =>
    /\ \A l \in Levels(payload) :
         /\ Attributes(payload, l) = "ok"
         /\ \A i \in DOMAIN Sources(payload, l) : Sources(payload, l)[i] = "ok"
    /\ \A i \in DOMAIN payload.stores : payload.stores[i].root \notin {"template", "outOfRange"}

\* What RunActions answers: nil only after every action was run or had no
\* runner, an error only for the last action it ran; a failing action is passed
\* over only when its own Run asked for it, whatever was registered.
RunOutcome ==
  /\ \A i \in DOMAIN runs :
       /\ runs[i].outcome = "stopped" => i = Len(runs) /\ err = "run" /\ pc # "run"
       /\ runs[i].outcome = "continued" => runs[i].runner.setsFlag
       /\ runs[i].outcome = "skipped" <=> runs[i].runner = NoRunner
  /\ pc = "ready" /\ calls > 0 /\ err = "none" => Len(runs) = Len(payload.actions)
  /\ err = "run" => Len(runs) > 0 /\ runs[Len(runs)].outcome = "stopped"

\* RunActions takes the actions in the payload's order, each once a call: a step
\* adds at most the outcome of the action after the last one recorded.
RunsInOrder ==
  [][runs' # runs =>
       \/ runs' = <<>> /\ pc = "ready"
       \/ /\ pc = "run" /\ Len(runs') = Len(runs) + 1
          /\ SubSeq(runs', 1, Len(runs)) = runs
          /\ runs'[Len(runs')].runner = registry[payload.actions[Len(runs')].name]]_vars

\* Comment of RunActions: the runner structs have the fields PluginManager,
\* Action and ActionName. A pointer to such a struct is then enough.
DocumentedFieldsSuffice ==
  ~(pc = "crashed" /\ err = "no flag field" /\ Runner.pointer /\ InjectedFields \subseteq Runner.fields)
=============================================================================
