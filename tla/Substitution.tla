---------------------------- MODULE Substitution ----------------------------
(***************************************************************************)
(* substituteVariables of pluginmanager.go: the references {ENV::x},       *)
(* {ATTR::x}, {ATTR::x[]}, {ATTR::x[0]}, {ATTR::x['k']} of a payload are   *)
(* replaced by environment variables and attributes, in place, while Go    *)
(* iterates over the very maps that are rewritten. Go promises no order,   *)
(* and an entry added during the iteration may or may not be visited.      *)
(*                                                                         *)
(* A text or a key is a sequence of tokens, a reference being one token    *)
(* and "-" another: two of them are the same text only when they are the   *)
(* same sequence. A reference to a whole list or map replaces the entry k  *)
(* by the entries "k-v". A value is a string, a scalar, a slice of strings *)
(* and scalars, or a map, which is named by its place in the heap.         *)
(***************************************************************************)
EXTENDS Integers, FiniteSets, SequencesExt

CONSTANTS
  Reference,    \* the references: token -> [type, name, sel, index, key]
  Env,          \* the csv parts of each environment variable
  Parts,        \* where the attributes, parameters and data sources are, see Jobs
  Documents,    \* their contents: the maps, the names, the maps that are left out
  MaxRevisits   \* bound: added entries that are visited in turn

VARIABLES
  document,  \* what the payload was read from
  heap,      \* the maps of the payload
  names,     \* the names of its data sources
  job,       \* the part of the payload being rewritten
  stack,     \* the loops under way: the map, and the keys still to be visited
  status,    \* "running", "done", "error" or "panic"
  revisits

passVars == <<document, heap, names, job, stack, status, revisits>>

Texts == Seq(STRING)
Keys == Texts

Text(v) == [kind |-> "string", text |-> v]
ValidAutoSubstitution == {"ATTR", "ENV"}

\* Every environment variable can be read, and no reference is one of the words
\* that the code itself puts into texts and keys.
ASSUME ReferenceAssumption ==
  /\ \A t \in DOMAIN Reference :
       /\ Reference[t].sel \in {"none", "all", "index", "key"} /\ Reference[t].index \in Nat
       /\ Reference[t].type = "ENV" => Reference[t].name \in DOMAIN Env
  /\ \A e \in DOMAIN Env : Env[e] \in Seq(Texts)
  /\ {",", "%v", "name", "-"} \subseteq STRING \ DOMAIN Reference

(***************************************************************************)
(* parameterSubstitute                                                     *)
(***************************************************************************)
\* Mutant: only the first reference is found.
MatchesFirst(text) ==
  LET places == {i \in DOMAIN text : text[i] \in DOMAIN Reference}
  IN IF places = {} THEN <<>> ELSE <<text[Min(places)]>>

Matches(text) ==
  FlattenSeq([i \in DOMAIN text |-> IF text[i] \in DOMAIN Reference THEN <<text[i]>> ELSE <<>>])
Replaced(text, token, by) ==
  FlattenSeq([i \in DOMAIN text |-> IF text[i] = token THEN by ELSE <<text[i]>>])

\* fmt.Sprintf("%v", v)
Shown(v) == IF v.kind \in {"string", "scalar"} THEN v.text ELSE <<"%v">>
Csv(parts) == FlattenSeq([i \in DOMAIN parts |-> IF i = 1 THEN parts[i] ELSE <<",">> \o parts[i]])
ElementTexts(v) == [i \in DOMAIN v.elems |-> v.elems[i].text]
RangeOf(s) == {s[i] : i \in DOMAIN s}

Done(out) == [tag |-> "ok", out |-> out]
Failed(tag) == [tag |-> tag, out |-> <<>>]

\* Every line of the output gets the text; one line per text.
Everywhere(out, token, by) == [k \in DOMAIN out |-> Replaced(out[k], token, by)]
\* Go takes the lines in any order: a key that several of them make keeps the last.
Join(k, v) == k \o <<"-">> \o v
Inflations(out, token, texts) ==
  LET made == {Join(o, t) : o \in DOMAIN out, t \in texts}
      lines == {Replaced(out[o], token, t) : o \in DOMAIN out, t \in texts}
      MadeOf(y) == {p \in (DOMAIN out) \X texts : Join(p[1], p[2]) = y}
  IN {f \in [made -> lines] :
        \E order \in Bijection(DOMAIN out, 1 .. Cardinality(DOMAIN out)) :
          \A y \in made : \E p \in MadeOf(y) :
            /\ f[y] = Replaced(out[p[1]], token, p[2])
            /\ \A q \in MadeOf(y) : order[q[1]] <= order[p[1]]}
\* What a reference may make of the output. An index or key that is not there
\* panics when there is a line to replace in.
Inflated(out, token, texts) == {Done(f) : f \in Inflations(out, token, texts)}
Lookup(out, token, there, by) ==
  IF there THEN {Done(Everywhere(out, token, by))}
  ELSE IF DOMAIN out = {} THEN {Done(out)} ELSE {Failed("panic")}

InsertSlice(out, token, ev, parts) ==
  CASE ev.sel \in {"all", "key"} -> Inflated(out, token, RangeOf(parts))
    [] ev.sel = "index" ->
         Lookup(out, token, ev.index < Len(parts), IF ev.index < Len(parts) THEN parts[ev.index + 1] ELSE <<>>)
    [] ev.sel = "none" -> {Done(Everywhere(out, token, Csv(parts)))}

InsertMap(out, token, ev, entries) ==
  IF ev.sel \in {"all", "index"}
  THEN Inflated(out, token, {Shown(entries[k]) : k \in DOMAIN entries})
  ELSE LET there == ev.sel = "key" /\ ev.key \in DOMAIN entries
       IN  Lookup(out, token, there, IF there THEN Shown(entries[ev.key]) ELSE <<>>)

\* An environment variable is always a list; an attribute must exist.
Insert(out, token, ev, h, scope) ==
  IF ev.type = "ENV" THEN InsertSlice(out, token, ev, Env[ev.name])
  ELSE IF ev.name \notin DOMAIN scope THEN {Failed("error")}
  ELSE LET v == scope[ev.name] IN
    CASE v.kind = "slice" -> InsertSlice(out, token, ev, ElementTexts(v))
      [] v.kind = "map" -> InsertMap(out, token, ev, h[v.ref])
      [] OTHER -> {Done(Everywhere(out, token, v.text))}

\* Mutant: payload attributes may refer to each other.
SkippedTypes(ev, attrSub) == ev.type \notin ValidAutoSubstitution

\* What the references of the template, found once, may make of it, left to right.
Skipped(ev, attrSub) == ev.type \notin ValidAutoSubstitution \/ (ev.type = "ATTR" /\ ~attrSub)
Expand(key, text, h, scope, attrSub) ==
  LET matches == Matches(text)
      after[i \in 0 .. Len(matches)] ==
        IF i = 0 THEN {Done([k \in {key} |-> text])}
        ELSE LET ev == Reference[matches[i]] IN
             UNION {IF before.tag # "ok" \/ Skipped(ev, attrSub) THEN {before}
                    ELSE Insert(before.out, matches[i], ev, h, scope) : before \in after[i - 1]}
  IN after[Len(matches)]

\* handleSliceSub: a failing element is dropped, an inflated one leaves its texts
\* in the order Go iterates over them.
SliceOutcomes(elems, h, scope, attrSub) ==
  LET TextsOf(e) ==
        IF ~e.str THEN {<<e>>}
        ELSE UNION {{[i \in DOMAIN s |-> [str |-> TRUE, text |-> r.out[s[i]]]] : s \in SetToSeqs(DOMAIN r.out)} :
                    r \in Expand(<<>>, e.text, h, scope, attrSub)}
      Possible == [DOMAIN elems -> UNION {TextsOf(elems[i]) : i \in DOMAIN elems}]
  IN {FlattenSeq(p) : p \in {q \in Possible : \A i \in DOMAIN elems : q[i] \in TextsOf(elems[i])}}
SlicePanics(elems, h, scope, attrSub) ==
  \E i \in DOMAIN elems :
    elems[i].str /\ \E r \in Expand(<<>>, elems[i].text, h, scope, attrSub) : r.tag = "panic"

(***************************************************************************)
(* The parts of the payload, in the order of substituteVariables           *)
(***************************************************************************)
MapJob(m, attrSub) == [kind |-> "map", map |-> m, into |-> m, attrSub |-> attrSub, scope |-> 0]
NameJob(ds, scope) == [kind |-> "name", ds |-> ds, scope |-> scope]
PathJob(over, into, scope) ==
  [kind |-> "paths", map |-> over, into |-> into, attrSub |-> TRUE, scope |-> scope]

\* The data paths are rewritten into the paths.
SourceJobs(list, scope) ==
  FlattenSeq([i \in DOMAIN list |->
    <<NameJob(list[i].id, scope), PathJob(list[i].paths, list[i].paths, scope),
      PathJob(list[i].dataPaths, list[i].paths, scope)>>])
ActionJobs(i) ==
  LET a == Parts.actions[i] IN
  <<MapJob(a.attributes, TRUE)>> \o SourceJobs(a.inputs, i) \o SourceJobs(a.outputs, i)
Jobs ==
  <<MapJob(Parts.attributes, FALSE)>>
  \o [i \in DOMAIN Parts.stores |-> MapJob(Parts.stores[i], TRUE)]
  \o SourceJobs(Parts.inputs, 0) \o SourceJobs(Parts.outputs, 0)
  \o FlattenSeq([i \in DOMAIN Parts.actions |-> ActionJobs(i)])

IsLoop(j) == Jobs[j].kind # "name"

\* Maps are rewritten with the payload's attributes, the sources of an action
\* with its own attributes over the payload's.
Overlay(f, g) == [k \in DOMAIN f \cup DOMAIN g |-> IF k \in DOMAIN g THEN g[k] ELSE f[k]]
ScopeOf(h, s) ==
  IF s = 0 THEN h[Parts.attributes]
  ELSE Overlay(h[Parts.attributes], h[Parts.actions[s].attributes])

\* A payload is decoded from JSON: each map in it is made once, for one place.
Place == STRING
Source == [id : Place, paths : Place, dataPaths : Place]
Level == [attributes : Place, inputs : Seq(Source), outputs : Seq(Source)]
ASSUME PartsAssumption ==
  /\ Parts.attributes \in Place /\ Parts.stores \in Seq(Place)
  /\ Parts.inputs \in Seq(Source) /\ Parts.outputs \in Seq(Source) /\ Parts.actions \in Seq(Level)
  /\ \A i, j \in DOMAIN Jobs : i < j =>
       /\ ~IsLoop(i) /\ ~IsLoop(j) => Jobs[i].ds # Jobs[j].ds
       /\ IsLoop(i) /\ IsLoop(j) =>
            /\ Jobs[i].into # Jobs[j].map
            /\ Jobs[j].into \in {Jobs[i].map, Jobs[i].into} =>
                 i = j - 1 /\ Jobs[i].kind = "paths" /\ Jobs[j].kind = "paths" /\ Jobs[i].scope = Jobs[j].scope

Element == [str : BOOLEAN, text : Texts]
Value == [kind : {"string", "scalar"}, text : Texts] \cup [kind : {"slice"}, elems : Seq(Element)]
         \cup [kind : {"map"}, ref : Place]
ASSUME DocumentsAssumption ==
  \A d \in Documents :
    LET Nested(m, k) == k \in DOMAIN d.heap[m] /\ d.heap[m][k].kind = "map" IN
    /\ \A m \in DOMAIN d.heap :
         /\ IsFiniteSet(DOMAIN d.heap[m])
         /\ \A k \in DOMAIN d.heap[m] : k \in Keys /\ d.heap[m][k] \in Value
         /\ \A k \in DOMAIN d.heap[m] : Nested(m, k) =>
              /\ d.heap[m][k].ref \in DOMAIN d.heap
              /\ \A n \in DOMAIN d.heap : \A l \in DOMAIN d.heap[n] :
                   Nested(n, l) /\ d.heap[n][l].ref = d.heap[m][k].ref => n = m /\ l = k
              /\ \A j \in DOMAIN Jobs : IsLoop(j) => d.heap[m][k].ref \notin {Jobs[j].map, Jobs[j].into}
    /\ \A j \in DOMAIN Jobs :
         IF ~IsLoop(j) THEN Jobs[j].ds \in DOMAIN d.names /\ d.names[Jobs[j].ds] \in Texts
         ELSE /\ {Jobs[j].map, Jobs[j].into} \subseteq DOMAIN d.heap
              /\ Jobs[j].kind = "paths" =>
                   \A m \in {Jobs[j].map, Jobs[j].into} : \A k \in DOMAIN d.heap[m] : d.heap[m][k].kind = "string"

(***************************************************************************)
(* The loops                                                               *)
(***************************************************************************)
PassInit ==
  /\ document \in Documents
  /\ heap = document.heap /\ names = document.names
  /\ job = 1 /\ stack = <<>>
  /\ status = "running" /\ revisits = 0

Current == Jobs[job]
Between == status = "running" /\ stack = <<>> /\ job <= Len(Jobs)
Looping(kind) == status = "running" /\ stack # <<>> /\ Current.kind = kind
Top == Last(stack)
Stop(tag) == status' = tag /\ UNCHANGED <<heap, names, job, stack, revisits>>
Remaining(pending) == stack' = Append(Front(stack), [Top EXCEPT !.pending = pending])

\* pathsSubstitute: the name may not inflate.
SubstituteName ==
  /\ Between /\ Current.kind = "name"
  /\ LET key == <<"name">> IN
     \E r \in Expand(key, names[Current.ds], heap, ScopeOf(heap, Current.scope), TRUE) :
        IF r.tag = "ok" /\ key \in DOMAIN r.out
        THEN /\ names' = [names EXCEPT ![Current.ds] = r.out[key]]
             /\ job' = job + 1
             /\ UNCHANGED <<heap, stack, status, revisits>>
        ELSE Stop(IF r.tag = "panic" THEN "panic" ELSE "error")

StartLoop ==
  /\ Between /\ Current.kind # "name"
  /\ stack' = <<[map |-> Current.map, pending |-> DOMAIN heap[Current.map]]>>
  /\ UNCHANGED <<heap, names, job, status, revisits>>

\* delete(m, k) and an assignment for every entry of out; what was not there
\* before may be visited later in the same loop.
Rewrite(m, k, out) ==
  LET rest == [x \in DOMAIN heap[m] \ {k} |-> heap[m][x]]
      added == DOMAIN out \ DOMAIN rest
  IN /\ heap' = [heap EXCEPT ![m] = Overlay(rest, [x \in DOMAIN out |-> Text(out[x])])]
     /\ IF m = Top.map
        THEN \E again \in SUBSET added :
               /\ revisits + Cardinality(again) <= MaxRevisits
               /\ revisits' = revisits + Cardinality(again)
               /\ Remaining((Top.pending \ {k}) \cup again)
        ELSE Remaining(Top.pending \ {k}) /\ UNCHANGED revisits

\* substituteMapVariables: errors are dropped and leave the template.
VisitMap(k) ==
  LET v == heap[Top.map][k]
      scope == ScopeOf(heap, 0)
  IN
  /\ Looping("map") /\ k \in Top.pending
  /\ \/ /\ v.kind = "string"
        /\ \E r \in Expand(k, v.text, heap, scope, Current.attrSub) :
           CASE r.tag = "ok" -> Rewrite(Top.map, k, r.out) /\ UNCHANGED <<names, job, status>>
             [] r.tag = "error" ->
                  Remaining(Top.pending \ {k}) /\ UNCHANGED <<heap, names, job, status, revisits>>
             [] r.tag = "panic" -> Stop("panic")
     \/ /\ v.kind = "map"
        /\ stack' = Append(Append(Front(stack), [Top EXCEPT !.pending = @ \ {k}]),
                           [map |-> v.ref, pending |-> DOMAIN heap[v.ref]])
        /\ UNCHANGED <<heap, names, job, status, revisits>>
     \/ /\ v.kind = "slice" /\ ~SlicePanics(v.elems, heap, scope, Current.attrSub)
        /\ \E s \in SliceOutcomes(v.elems, heap, scope, Current.attrSub) :
             heap' = [heap EXCEPT ![Top.map][k] = [kind |-> "slice", elems |-> s]]
        /\ Remaining(Top.pending \ {k})
        /\ UNCHANGED <<names, job, status, revisits>>
     \/ v.kind = "slice" /\ SlicePanics(v.elems, heap, scope, Current.attrSub) /\ Stop("panic")
     \/ /\ v.kind = "scalar"
        /\ Remaining(Top.pending \ {k})
        /\ UNCHANGED <<heap, names, job, status, revisits>>

\* Mutant: errors are dropped, as they are for maps.
VisitPathIgnoringError(k) ==
  /\ Looping("paths") /\ k \in Top.pending
  /\ \E r \in Expand(k, heap[Top.map][k].text, heap, ScopeOf(heap, Current.scope), TRUE) :
     CASE r.tag = "panic" -> Stop("panic")
       [] r.tag = "error" -> Remaining(Top.pending \ {k}) /\ UNCHANGED <<heap, names, job, status, revisits>>
       [] OTHER -> Rewrite(Current.into, k, r.out) /\ UNCHANGED <<names, job, status>>

\* The loops of pathsSubstitute: an error ends the initialisation, and copying
\* into a map that is nil panics.
VisitPath(k) ==
  /\ Looping("paths") /\ k \in Top.pending
  /\ \E r \in Expand(k, heap[Top.map][k].text, heap, ScopeOf(heap, Current.scope), TRUE) :
     CASE r.tag # "ok" -> Stop(r.tag)
       [] r.tag = "ok" /\ Current.into \in document.absent /\ DOMAIN r.out # {} -> Stop("panic")
       [] OTHER -> Rewrite(Current.into, k, r.out) /\ UNCHANGED <<names, job, status>>

EndLoop ==
  /\ status = "running" /\ stack # <<>> /\ Top.pending = {}
  /\ stack' = Front(stack)
  /\ job' = IF Len(stack) = 1 THEN job + 1 ELSE job
  /\ UNCHANGED <<heap, names, status, revisits>>

Finish ==
  /\ status = "running" /\ job > Len(Jobs)
  /\ status' = "done"
  /\ UNCHANGED <<heap, names, job, stack, revisits>>

Visit(k) == VisitMap(k) \/ VisitPath(k)
PassNext ==
  /\ \/ SubstituteName \/ StartLoop \/ EndLoop \/ Finish
     \/ stack # <<>> /\ \E k \in Top.pending : Visit(k)
  /\ UNCHANGED document

PassSpec == PassInit /\ [][PassNext]_passVars

(***************************************************************************)
(* Properties                                                              *)
(***************************************************************************)
Automatic(text) == {i \in DOMAIN text :
  text[i] \in DOMAIN Reference /\ Reference[text[i]].type \in ValidAutoSubstitution}

\* What a reference may become, and that it holds no reference in turn: a loop
\* that revisits what it has added would replace that, and no other loop does.
Replacements(ev, h, scope) ==
  LET v == scope[ev.name] IN
  CASE ev.type = "ENV" -> RangeOf(Env[ev.name])
    [] ev.type = "ATTR" /\ ev.name \in DOMAIN scope ->
         CASE v.kind = "slice" -> RangeOf(ElementTexts(v))
           [] v.kind = "map" -> {Shown(h[v.ref][k]) : k \in DOMAIN h[v.ref]}
           [] OTHER -> {v.text}
    [] OTHER -> {}
Settled(h, s) ==
  \A t \in DOMAIN Reference : \A x \in Replacements(Reference[t], h, ScopeOf(h, s)) : Automatic(x) = {}

\* No entry is named like one that inflating another may add, and overwrite it.
Added(y, k) == IsPrefix(k \o <<"-">>, y)
Extends(y, k) == y = k \/ Added(y, k)
Apart(m) == \A k, l \in DOMAIN document.heap[m] : ~Added(l, k)

\* What a loop may leave of the entry k with the value v, when it rewrites it once.
EntryOutcomes(k, v, h, scope, attrSub) ==
  CASE v.kind = "slice" ->
         {{<<k, [kind |-> "slice", elems |-> s]>>} : s \in SliceOutcomes(v.elems, h, scope, attrSub)}
    [] v.kind = "string" ->
         {IF r.tag = "ok" THEN {<<x, Text(r.out[x])>> : x \in DOMAIN r.out} ELSE {<<k, v>>} :
          r \in Expand(k, v.text, h, scope, attrSub)}
    [] OTHER -> {{<<k, v>>}}
LinesFrom(entries, k) == {<<y, entries[y]>> : y \in {x \in DOMAIN entries : Extends(x, k)}}
\* A loop's map and the maps inside it.
MapsOf(j) ==
  LET entries == document.heap[Jobs[j].map] IN
  {Jobs[j].map} \cup {entries[k].ref : k \in {x \in DOMAIN entries : entries[x].kind = "map"}}
RewrittenAgain(m) ==
  \E j \in DOMAIN Jobs : IsLoop(j) /\ Jobs[j].into = m /\ Jobs[j].map # m /\ DOMAIN document.heap[Jobs[j].map] # {}

\* In whatever order Go iterates over a map and whichever added entries it visits,
\* the pass leaves of each entry what rewriting it once, from the final attributes,
\* leaves, and nothing else: no entry is missed, rewritten twice or overwritten by
\* another's. This when the attributes hold no references and no entry is named like
\* one that is added; the lines that one entry gives two keys of the same name are
\* the exception of Inflations. Maps that data paths are written into are left out.
OrderIndependent ==
  status = "done" =>
    \A j \in DOMAIN Jobs :
      IsLoop(j) /\ Settled(heap, Jobs[j].scope) /\ (\A m \in MapsOf(j) : Apart(m)) =>
      \A m \in MapsOf(j) :
      Jobs[j].into = Jobs[j].map /\ ~RewrittenAgain(m) =>
        LET orig == document.heap[m] IN
        /\ \A y \in DOMAIN heap[m] : \E k \in DOMAIN orig : Extends(y, k)
        /\ \A k \in DOMAIN orig :
             LinesFrom(heap[m], k) \in
               EntryOutcomes(k, orig[k], heap, ScopeOf(heap, Jobs[j].scope), Jobs[j].attrSub)

Resolved(m) == \A k \in DOMAIN heap[m] : Automatic(heap[m][k].text) = {}

\* Every data source of a payload that is handed out has a name and paths with no
\* {ENV::..} or {ATTR::..} left in them, those of the actions included, when the
\* attributes it sees hold none.
SourcesResolved ==
  status = "done" => \A j \in DOMAIN Jobs : Settled(heap, Jobs[j].scope) =>
    /\ Jobs[j].kind = "name" => Automatic(names[Jobs[j].ds]) = {}
    /\ Jobs[j].kind = "paths" /\ Jobs[j].into = Jobs[j].map => Resolved(Jobs[j].map)

Unknown(text, scope) == \E i \in DOMAIN text :
  /\ text[i] \in DOMAIN Reference
  /\ Reference[text[i]].type = "ATTR" /\ Reference[text[i]].name \notin DOMAIN scope
Templates(j) ==
  IF Jobs[j].kind = "name" THEN {document.names[Jobs[j].ds]}
  ELSE {document.heap[Jobs[j].map][k].text : k \in DOMAIN document.heap[Jobs[j].map]}

\* A data source that names an attribute it cannot see, its action's or the
\* payload's, stops the initialisation: the pass neither finishes without it nor
\* fails for any other reason than that or a name that would inflate. A path
\* overwritten by an inflated one, or read from an attribute, may escape this.
SourcesStrict ==
  /\ status = "done" =>
       \A j \in DOMAIN Jobs : Jobs[j].kind = "name" \/ (Jobs[j].kind = "paths" /\ Apart(Jobs[j].map)) =>
         \A t \in Templates(j) : ~Unknown(t, ScopeOf(heap, Jobs[j].scope))
  /\ status = "error" /\ Settled(heap, Current.scope) =>
       \/ Current.kind = "name"
       \/ \E t \in Templates(job) : Unknown(t, ScopeOf(heap, Current.scope))

\* Comment of substituteVariables: "allow substitution on input data source paths
\* and data paths".
DataPathsSubstituted ==
  status = "done" => \A j \in DOMAIN Jobs : Jobs[j].kind = "paths" => Resolved(Jobs[j].map)
=============================================================================
