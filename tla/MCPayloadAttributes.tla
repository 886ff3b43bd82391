------------------------ MODULE MCPayloadAttributes ------------------------
(***************************************************************************)
(* Numbers are kept in quarters; those below a half and from 10 on stand   *)
(* for those below 1e-4 and from a million on. An int32 goes from -16 to   *)
(* 15 and an int64 from -64 to 63; integers beyond 32 lose digits as       *)
(* floats: 35 is nearest to 36.                                            *)
(***************************************************************************)
EXTENDS PayloadAttributes

List(elems) == [kind |-> "list", elems |-> elems]
Attr == TextValue(Text("attribute", 0))
Variable == TextValue(Text("variable", 0))

\* The texts 10, 2.5, 010, 09, 0x14, 35, 65, true and the empty one.
MCTexts ==
  {Empty, Text("plain", 40), Text("plain", 10), [form |-> "octal", v |-> 40, octal |-> 8], Text("decimal", 36),
   Text("literal", 80), Text("plain", 140), Text("plain", 260), Text("truth", 0)}
\* The numbers 0, 0.25, 1.75, -3, 9, 10, 20 and 68, and others.
MCValues ==
  {Number(n) : n \in {0, 1, 7, -12, 36, 40, 80, 272, -272}}
  \cup {[kind |-> "bool", bool |-> b] : b \in BOOLEAN} \cup {[kind |-> "null"]}
  \cup {[kind |-> "map", entries |-> e] : e \in {{}, {"x"}}}
  \cup {TextValue(Text("plain", 12)), Variable, Attr}
  \cup {List(<<>>), List(<<Number(8)>>), List(<<Number(272), Variable>>)}
MCDeclared == {Attr, Variable, List(<<Attr, Number(8)>>), [kind |-> "null"]}
=============================================================================
