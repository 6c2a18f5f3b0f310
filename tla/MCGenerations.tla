---------------------------- MODULE MCGenerations ----------------------------
(* Model values for checking Generations. *)
EXTENDS Generations

CONSTANTS g1, g2, g3, r1

ThreeGens == {g1, g2, g3}
OneReq    == {r1}
=============================================================================
