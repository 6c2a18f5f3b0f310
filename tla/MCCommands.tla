------------------------------ MODULE MCCommands ------------------------------
(* Configurations and options for checking Commands, with the names and the  *)
(* configurations of MCLayerNames.                                           *)
EXTENDS MCLayerNames, Commands

c == <<"c">>
Plain(id) == [id |-> id, pattern |-> <<>>, validator |-> <<>>, provider |-> Leaf]

(* Three layers by their IDs, and one that no ID asks for. *)
ByID   == <<Plain(a), Plain(b), Plain(c)>>
ByName == <<Plain(c), [Plain(b) EXCEPT !.pattern = <<"b", "{", "x", "}", "a">>]>>

CommandConfigs == {ByID, ByName}
AllConfigs == Configs \cup CommandConfigs

(* Boxes with edges on tiles, within them and off the map, some empty       *)
(* or the wrong way around; 8 units are a tile of zoom 0, 2 one of zoom 2.  *)
Boxes ==
  {[west |-> w, east |-> e, north |-> n, south |-> s] :
     w \in {-4, -1, 2}, e \in {-4, 0, 1, 4, 6}, n \in {-1, 3, 8}, s \in {0, 3, 9}}

Seeds == [layer : {c}, zooms : {<<>>, <<0, 1>>, <<1, 1>>, <<2>>, <<3>>}, bounds : Boxes, force : BOOLEAN, threads : {0, 1, 2, 5}]
Tests == [layers : {<<>>, <<c, a>>, <<c, <<"c", "a">>>>}, z : {1}, x : {0, 1}, y : {1, 2}, threads : 0 .. 2]
=============================================================================
