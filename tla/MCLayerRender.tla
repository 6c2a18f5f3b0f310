---------------------------- MODULE MCLayerRender -----------------------------
(* Model values for checking LayerRender. *)
EXTENDS LayerRender

CONSTANTS r1, r2, t1

TwoReqs == {r1, r2}
OneTile == {t1}
=============================================================================
