------------------------------- MODULE MCFanOut -------------------------------
(* Model values for checking FanOut. *)
EXTENDS FanOut

CONSTANTS r1, r2

TwoReqs == {r1, r2}
OneReq == {r1}
=============================================================================
