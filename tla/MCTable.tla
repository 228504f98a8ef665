------------------------------- MODULE MCTable -------------------------------
(***************************************************************************)
(* An instance of LuaTable: two integers, the name of a metamethod and     *)
(* an object; the array part holds at most 8 values, the node part 4.      *)
(***************************************************************************)
EXTENDS LuaTable

CONSTANTS index, object, float, v, w

MCKeys == {1, 2, index, object}
MCHash == [k \in MCKeys |-> CASE k = index -> 5 [] k = object -> 8 [] OTHER -> k]
MCStorable == [k \in MCKeys |-> IF k \in {2, index} THEN {Nil, w} ELSE {Nil, v}]
MCIntegral == [f \in {float} |-> 2]
(* 'stored' decides nothing: it only shows each step's request.             *)
MCView == <<array, node, lastfree, todo, flags, iter>>
==============================================================================
