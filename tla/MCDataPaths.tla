----------------------------- MODULE MCDataPaths -----------------------------
(***************************************************************************)
(* The data that DataPaths is checked with: small inputs, chosen so that   *)
(* the cases that differ all occur.                                        *)
(***************************************************************************)
EXTENDS DataPaths

\* Delimiters of one and two bytes, one that repeats its byte, and the empty one.
MCBytes == {"a", "d"}
MCDelimiters == {<<>>, <<"d">>, <<"d", "d">>, <<"a", "d">>}

\* Two levels each, cells with and without a half offset; rows of equal scores,
\* of overlapping boxes, of an empty box, and of a score that is not finite.
MCContracts ==
  {[size |-> 3, points |-> 5, strides |-> <<2, 3>>, half |-> TRUE],
   [size |-> 2, points |-> 5, strides |-> <<1, 2>>, half |-> FALSE]}
MCRows ==
  {[scores |-> (0 :> 3 @@ 1 :> 3), sides |-> <<1, 1, 1, 1>>],
   [scores |-> (0 :> 4 @@ 1 :> 3), sides |-> <<1, 0, 1, 1>>],
   [scores |-> (0 :> 3 @@ 1 :> 2), sides |-> <<0, 1, 1, 1>>],
   [scores |-> (0 :> 3 @@ 1 :> NotFinite), sides |-> <<1, 1, 1, 1>>]}

\* An image model whose sides have one symbol, and one of two inputs and two
\* outputs with symbolic sizes; model-infos that fit, of a square image and of
\* one that is not, that name the inputs in another order, leave one out, or
\* fix what the model leaves open.
Int8(n, d) == [name |-> n, id |-> n, type |-> "int8", dims |-> d]
Float32(n, d) == [name |-> n, id |-> n, type |-> "float32", dims |-> d]
Fact(n, t, d) == [name |-> n, type |-> t, dims |-> d]
MCModels ==
  {[inputs |-> <<Fact("x", "float32", <<1, 3, -1, -1>>)>>,
    outputs |-> <<Fact("y", "float32", <<1, 0>>)>>],
   [inputs |-> <<Fact("a", "int8", <<-1, 2>>), Fact("b", "int8", <<-1, 2>>)>>,
    outputs |-> <<Fact("y", "int8", <<-1>>), Fact("z", "int8", <<2>>)>>]}
MCInfos ==
  {[inputs |-> <<Float32("x", <<1, 3, height, 2>>)>>,
    outputs |-> <<Float32("y", <<1, 2>>)>>, ranges |-> 1] : height \in {1, 2}}
    \union
  {[inputs |-> <<Int8("b", <<0, 2>>), Int8("a", <<0, 0>>)>>,
    outputs |-> <<Int8("z", <<0>>), Int8("y", <<0>>)>>, ranges |-> 0],
   [inputs |-> <<Int8("b", <<2, 2>>), Int8("a", <<2, 2>>)>>,
    outputs |-> <<Int8("y", <<2>>)>>, ranges |-> 0],
   [inputs |-> <<Int8("a", <<0, 2>>)>>, outputs |-> <<Int8("y", <<2>>)>>, ranges |-> 0]}
MCTensors ==
  {[id |-> i, type |-> "int8", dims |-> d, whole |-> TRUE] : i \in {"a", "b"}, d \in {<<2, 2>>, <<1, 2>>}}
    \union {[id |-> "b", type |-> "int8", dims |-> <<2, 2>>, whole |-> FALSE]}

\* A stride or a plane that is too short, exact, or padded.
MCPaddings == {-1, 0, 2}
=============================================================================
