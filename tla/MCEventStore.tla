---------------------------- MODULE MCEventStore ----------------------------
(***************************************************************************)
(* Slices of up to three records of four structs, and simple arrays of one *)
(* to three dimensions. Tiles of two cells and indices up to seven stand   *)
(* for tiles of 256 and MAXDIMENSION.                                      *)
(***************************************************************************)
EXTENDS EventStore

Field(tag, kind) == [tag |-> tag, kind |-> kind]
Named == <<Field("n", "int32"), Field("", "bool"), Field("s", "string")>>
MCSlices ==
  {[fields |-> Named, rows |-> r] : r \in
     {<<>>, << <<1, 0, <<5, 6>> >> >>,
      << <<2, 0, <<7>> >>, <<3, 0, <<>> >>, <<4, 0, <<8, 8>> >> >>,
      << <<2, 0, <<>> >>, <<3, 0, <<9>> >> >>}}
  \cup {[fields |-> <<Field("s", "string"), Field("n", "int32")>>, rows |-> << << <<>>, 5 >>, << <<>>, 6 >> >>],
        [fields |-> <<Field("b", "bool")>>, rows |-> << <<0>> >>],
        [fields |-> <<Field("", "int32")>>, rows |-> << <<0>> >>]}
Grid(kind, dims, data, layout) == [kind |-> kind, dims |-> dims, data |-> data, layout |-> layout]
MCGrids ==
  {Grid("int32", <<2, 3>>, [i \in 1 .. 6 |-> i], o) : o \in {"row", "column"}}
  \cup {Grid("int32", <<2, 1>>, <<8, 9>>, "row"), Grid("int32", <<3>>, <<1, 2, 3>>, "row"),
        Grid("int32", <<1>>, <<1, 2>>, "row"), Grid("int32", <<1, 1, 1>>, <<1>>, "row"),
        Grid("int32", <<>>, <<>>, "row"), Grid("int32", <<0>>, <<>>, "row"),
        Grid("int32", <<7>>, [i \in 1 .. 7 |-> i], "row"),
        Grid("bool", <<1>>, <<0>>, "row"), Grid("string", <<4>>, [i \in 1 .. 4 |-> <<i>>], "row")}
MCRanges == {<<1, 2>>, <<2, 0>>, <<2, 9>>}
MCIndices == {-1, 0, 1, 2, 3}
=============================================================================
