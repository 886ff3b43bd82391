--------------------------- MODULE MCPluginManager ---------------------------
(***************************************************************************)
(* Small instances of PluginManager: two action names, eleven payloads of  *)
(* at most three actions and two stores a level, five runner structs.      *)
(***************************************************************************)
EXTENDS PluginManager

Ds(t, r) == [type |-> t, root |-> r]
Act(n, stores, sources) == [name |-> n, attributes |-> "ok", stores |-> stores, sources |-> sources]
Doc(stores, sources, actions) ==
  [attributes |-> "ok", stores |-> stores, sources |-> sources, actions |-> actions]
Panicking(x) == [x EXCEPT !.attributes = "panic"]

MCPayloads == {
  Doc(<<>>, <<>>, <<>>),
  Doc(<<Ds("S3", "template"), Ds("FS", "absent")>>, <<"ok", "ok">>,
      <<Act("a", <<Ds("S3", "template")>>, <<"ok">>),
        Act("b", <<Ds("FS", "absent"), Ds("S3", "unresolvable")>>, <<>>)>>),
  Doc(<<Ds("S3", "plain")>>, <<"ok">>,
      <<Act("a", <<>>, <<"ok">>), Act("b", <<Ds("S3", "plain")>>, <<"ok", "error">>)>>),
  Doc(<<Ds("S3", "inflating")>>, <<>>, <<Act("a", <<>>, <<>>)>>),
  Doc(<<Ds("FS", "absent")>>, <<>>,
      <<Act("a", <<Ds("S3", "inflating"), Ds("EV", "plain")>>, <<>>)>>),
  Doc(<<>>, <<"ok">>, <<Act("a", <<>>, <<"panic">>), Act("a", <<>>, <<"error">>)>>),
  Doc(<<Ds("S3", "notString")>>, <<>>, <<Act("a", <<>>, <<>>), Act("a", <<>>, <<>>)>>),
  Panicking(Doc(<<Ds("FS", "absent")>>, <<"error">>, <<>>)),
  Doc(<<Ds("S3", "outOfRange")>>, <<>>, <<Act("a", <<>>, <<>>)>>),
  Doc(<<>>, <<"ok">>, <<Act("a", <<Ds("S3", "outOfRange")>>, <<>>), Panicking(Act("b", <<>>, <<"ok">>))>>),
  Doc(<<>>, <<>>,
      <<Act("a", <<Ds("S3", "outOfRange")>>, <<>>), Act("b", <<>>, <<>>), Act("a", <<>>, <<>>)>>)}

AllFields == InjectedFields \cup {FlagField}
Proto(pointer, fields, registered, sets) ==
  [pointer |-> pointer, fields |-> fields, registeredFlag |-> registered, setsFlag |-> sets]
MCPrototypes == {
  Proto(TRUE, AllFields, TRUE, FALSE),
  Proto(TRUE, AllFields, FALSE, TRUE),
  Proto(TRUE, InjectedFields, FALSE, FALSE),
  Proto(TRUE, AllFields \ {"Action"}, FALSE, FALSE),
  Proto(FALSE, AllFields, FALSE, FALSE)}
=============================================================================
