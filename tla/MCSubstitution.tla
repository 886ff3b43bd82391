--------------------------- MODULE MCSubstitution ---------------------------
(***************************************************************************)
(* A payload with one store, an input, an output and an action with an     *)
(* input, and eleven documents for it: one where every kind of reference   *)
(* resolves, some with a name, a path or a parameter that goes wrong, one  *)
(* where an inflated entry meets another, one where two inflations meet,   *)
(* and one where an attribute is replaced by a reference.                  *)
(***************************************************************************)
EXTENDS Substitution

K(s) == <<s>>
EV(type, name, sel) == [type |-> type, name |-> name, sel |-> sel, index |-> 0, key |-> K("")]
MCReference ==
  ("{E}" :> EV("ENV", "X", "none")) @@ ("{E[]}" :> EV("ENV", "L", "all")) @@
  ("{A}" :> EV("ATTR", K("a"), "none")) @@ ("{n}" :> EV("ATTR", K("n"), "none")) @@
  ("{L}" :> EV("ATTR", K("l"), "none")) @@ ("{L[]}" :> EV("ATTR", K("l"), "all")) @@
  ("{L[0]}" :> EV("ATTR", K("l"), "index")) @@
  ("{L[9]}" :> [EV("ATTR", K("l"), "index") EXCEPT !.index = 9]) @@
  ("{M[]}" :> EV("ATTR", K("m"), "all")) @@
  ("{M['k']}" :> [EV("ATTR", K("m"), "key") EXCEPT !.key = K("k")]) @@
  ("{U}" :> EV("ATTR", K("u"), "none")) @@ ("{V}" :> EV("VAR", "v", "none"))
MCEnv == [X |-> <<<<"e">>>>, L |-> <<<<"u">>, <<"w">>>>]

Scalar(t) == [kind |-> "scalar", text |-> <<t>>]
Slice(elems) == [kind |-> "slice", elems |-> elems]
Map(m) == [kind |-> "map", ref |-> m]
Str(t) == [str |-> TRUE, text |-> t]
Num(t) == [str |-> FALSE, text |-> <<t>>]

Src(id, p, d) == [id |-> id, paths |-> p, dataPaths |-> d]
MCParts == [
  attributes |-> "attr", stores |-> <<"params">>,
  inputs |-> <<Src("in", "in.p", "in.d")>>,
  outputs |-> <<Src("out", "out.p", "none")>>,
  actions |-> <<[attributes |-> "act", inputs |-> <<Src("ain", "ain.p", "none")>>, outputs |-> <<>>]>>]

\* Maps not named are empty.
Doc(maps, ids, absent) == [
  heap |-> maps @@ [m \in {"attr", "nested", "params", "in.p", "in.d", "out.p", "act", "ain.p", "none"} |-> <<>>],
  names |-> ids @@ [i \in {"in", "out", "ain"} |-> <<"n">>],
  absent |-> absent]

Attributes ==
  ("attr" :> (K("a") :> Text(<<"{E}">>) @@ K("n") :> Scalar("7") @@
              K("w") :> Text(<<"{A}", "{E[]}">>) @@ K("m") :> Map("nested") @@
              K("l") :> Slice(<<Str(<<"u">>), Str(<<"{E[]}", "{V}">>), Num("7")>>))) @@
  ("nested" :> (K("k") :> Text(<<"m", "{E}">>) @@ K("q") :> Text(<<"q">>)))
Good == Doc(
  Attributes @@
  ("params" :> (K("root") :> Text(<<"{A}">>) @@ K("x") :> Text(<<"{U}">>) @@ K("y") :> Text(<<"{E[]}">>))) @@
  ("in.p" :> (K("p") :> Text(<<"{E[]}", "/", "{M[]}", "{V}">>) @@ K("q") :> Text(<<"{M['k']}", "{A}">>))) @@
  ("out.p" :> (K("p") :> Text(<<"{L}">>))) @@
  ("act" :> (K("a") :> Text(<<"b", "{A}">>) @@ K("u") :> Slice(<<Str(<<"{A}">>), Str(<<"{Z}">>)>>))) @@
  ("ain.p" :> (K("p") :> Text(<<"{A}", "{U}">>))),
  ("in" :> <<"{A}", "{n}">>) @@ ("out" :> <<"{L[0]}">>), {})
\* The output names an attribute only the action has.
UnknownName == Doc(Attributes @@ ("act" :> (K("u") :> Text(<<"z">>))), "out" :> <<"{U}">>, {})
\* An action's path does, and one of its names would inflate.
UnknownPath == Doc(Attributes @@ ("ain.p" :> (K("p") :> Text(<<"{A}">>) @@ K("q") :> Text(<<"{U}">>))), <<>>, {})
InflatedName == Doc(Attributes, "ain" :> <<"{E[]}">>, {})
\* An index past the end, in a parameter and in a path.
PastTheEnd == {Doc(Attributes @@ (m :> (K("p") :> Text(<<"{L[9]}">>))), <<>>, {}) : m \in {"params", "in.p"}}
\* Data paths without paths, and with them.
NoPaths == Doc(Attributes @@ ("in.d" :> (K("d") :> Text(<<"{A}">>))), <<>>, {"in.p"})
DataPaths == Doc(
  Attributes @@ ("in.p" :> (K("p") :> Text(<<"x">>))) @@ ("in.d" :> (K("d") :> Text(<<"{A}">>))), <<>>, {})

\* An inflated path named like another one; attributes that keep references.
Clashing == Doc(Attributes @@ ("ain.p" :> (K("p") :> Text(<<"{E[]}">>) @@ Join(K("p"), <<"u">>) :> Text(<<"{U}">>))), <<>>, {})
\* p-a-b-c is made of {A, B-C} and of {A-B, C}.
Colliding == Doc(
  ("attr" :> (K("l") :> Slice(<<Str(<<"a">>), Str(<<"a", "-", "b">>)>>) @@ K("m") :> Map("nested"))) @@
  ("nested" :> (K("k") :> Text(<<"b", "-", "c">>) @@ K("q") :> Text(<<"c">>))) @@
  ("params" :> (K("p") :> Text(<<"{L[]}", "/", "{M[]}">>))), <<>>, {})
Unsettled == Doc(
  ("attr" :> (K("a") :> Text(<<"{n}">>) @@ K("n") :> Scalar("7"))) @@ ("params" :> (K("x") :> Text(<<"{A}">>))) @@
  ("act" :> (K("n") :> Text(<<"{U}">>))) @@ ("ain.p" :> (K("p") :> Text(<<"{n}">>))), <<>>, {})

MCDocuments ==
  {Good, UnknownName, UnknownPath, InflatedName, NoPaths, DataPaths, Clashing, Colliding, Unsettled} \cup PastTheEnd
MCDataPaths == {DataPaths}
=============================================================================
