------------------------------ MODULE MCEntities ------------------------------
(* Model values for checking Entities with its batcher. *)
EXTENDS Entities

CONSTANTS e1, e2, e3, w1, w2, c1, c2

ThreeEvents == {e1, e2, e3}
TwoWorkers  == {w1, w2}
OneOrTwo    == {{w1}, {w1, w2}}
OneCloser   == {c1}
TwoClosers  == {c1, c2}
BothModes   == {"drop", "block"}
=============================================================================
