---------------------------- MODULE MCTileDbStore ----------------------------
(***************************************************************************)
(* Two plugins, one attribute put as an int and as two lists of strings    *)
(* whose bytes and offsets do not fit each other, one array path put whole *)
(* twice, in part, with another type and with strings.                     *)
(***************************************************************************)
EXTENDS TileDbStore

ClientSymmetry == Permutations(Clients)

MCStrings == {<< <<1>> >>, << <<2, 2>>, <<3>> >>, << <<>> >>}
PutAttribute(type, value) == [op |-> "putMetadata", key |-> "k", value |-> <<type, value>>]
PutArray(type, dims, value) ==
  [op |-> "putSimpleArray", path |-> "p", type |-> type, dims |-> dims, value |-> value]
MCRequests ==
  {PutAttribute("strings", v) : v \in MCStrings} \cup {PutAttribute("int", 7)}
  \cup {[op |-> "getMetadata", key |-> "k", type |-> t] : t \in {"strings", "int", "float"}}
  \cup {[op |-> "deleteMetadata", key |-> "k"], [op |-> "getSimpleArray", path |-> "p"]}
  \cup {PutArray("int32", <<2>>, "a"), PutArray("int32", <<2>>, "b"), PutArray("int32", <<1>>, "c"),
        PutArray("float64", <<1, 2>>, "d"), PutArray("int32", <<1, 1, 1>>, "e"), PutArray("string", <<1>>, "s"), PutArray("bool", <<1>>, "t")}
=============================================================================
