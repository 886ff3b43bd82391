---------------------------- MODULE MCIOManager ----------------------------
(***************************************************************************)
(* A payload with a file store, one at the root of its bucket and a store  *)
(* without a session, and one action with a store and an output of its     *)
(* own; a file "x" and a directory "d".                                    *)
(***************************************************************************)
EXTENDS IOManager

MCParent == [s \in Scopes |-> "pm"]
Store(n, r, x) == [name |-> n, root |-> r, session |-> x]
MCStores == [s \in Scopes |->
  IF s = "pm" THEN <<Store("data", "r1", "file"), Store("disk", "r2", "nil"), Store("bucket", "", "file")>>
  ELSE <<Store("work", "r2", "file")>>]
Source(n, st, paths) == [name |-> n, store |-> st, paths |-> paths, dataKeys |-> {}]
MCInputs == [s \in Scopes |->
  IF s = "pm" THEN <<Source("in", "data", [file |-> "x", dir |-> "d"]), Source("all", "bucket", [dir |-> "d"])>>
  ELSE <<>>]
MCOutputs == [s \in Scopes |->
  IF s = "pm" THEN <<Source("res", "data", [file |-> "x", dir |-> "d"]),
                     Source("fs", "disk", [file |-> "x"])>>
  ELSE <<Source("res", "work", [file |-> "x"])>>]

Req(op, scope, ds, key) ==
  [op |-> op, scope |-> scope, ds |-> ds, key |-> key, dataKey |-> "", given |-> NoDataSource,
   from |-> "", fromKey |-> "", store |-> "", path |-> "", local |-> "out", file |-> "", data |-> "B"]
MCRequests == {
  Req("get", "act", "in", "file"),
  Req("get", "act", "in", "nokey"),
  [Req("get", "pm", "", "file") EXCEPT !.given = Source("in", "disk", [file |-> "x"])],
  Req("put", "act", "res", "file"),
  Req("put", "pm", "res", "nokey"),
  [Req("put", "pm", "res", "file") EXCEPT !.dataKey = "x"],
  [Req("put", "pm", "res", "file") EXCEPT !.given = Source("res", "data", [file |-> "x"])],
  [Req("copy", "act", "res", "file") EXCEPT !.from = "res", !.fromKey = "file"],
  [Req("copy", "pm", "res", "nokey") EXCEPT !.from = "res", !.fromKey = "file"],
  [Req("copy", "pm", "fs", "file") EXCEPT !.from = "res", !.fromKey = "file"],
  Req("toLocal", "act", "in", "file"),
  Req("toLocal", "pm", "in", "dir"),
  Req("toLocal", "pm", "all", "dir"),
  Req("toLocal", "pm", "none", "dir"),
  [Req("toRemote", "act", "res", "file") EXCEPT !.file = "x"],
  [Req("toRemote", "pm", "fs", "file") EXCEPT !.file = "x"],
  [Req("toRemote", "pm", "res", "file") EXCEPT !.file = "d"],
  Req("toRemote", "pm", "res", "dir"),
  [Req("toRemote", "pm", "res", "dir") EXCEPT !.local = "new"],
  [Req("toRemote", "pm", "", "") EXCEPT !.store = "data", !.path = "d", !.file = "y"]}

MCObjects ==
  {"r1"} \X {"", "x", "d"} \X {""} \cup {"r2"} \X {"", "x"} \X {""} \cup {"r1"} \X {"d"} \X {"d", "x", "y"}
    \cup {""} \X {"d"} \X {"", "x"}
\* "here" is the working directory and "d" a directory in it: the key d/x stays d/x.
MCLocalFiles == {"out"} \X {"d", "x", "y"} \cup {"top"} \X {"d", "x"} \cup {<<"here", "d">>, <<"d", "x">>}
MCLoose == {<<"", "d">>}
MCStray == [p \in {"out"} \X {o \in MCObjects : o[1] = ""} |->
  IF p[2][3] = "" THEN <<"here", "d">> ELSE <<"d", "x">>]
MCWalkOrder == <<"", "d", "x", "y">>
MCAbove == [d \in {"out", "top"} |-> "top"]
MCInitialRemote == {
  [o \in MCObjects |-> IF o \in {<<"r1", "x", "">>, <<"r1", "d", "x">>, <<"r1", "d", "y">>, <<"", "d", "x">>} THEN "A" ELSE Missing]}
MCInitialLocal == {
  [f \in MCLocalFiles |-> IF f \in {<<"out", "x">>, <<"out", "y">>} THEN "B" ELSE Missing]}
=============================================================================
