----------------------------- MODULE MCConfigWatch ----------------------------
(* Values for checking ConfigWatch. *)
EXTENDS ConfigWatch

TwoGens   == 1 .. 2
ThreeGens == 1 .. 3
NoneOff   == {}
LastOff   == {3}
=============================================================================
