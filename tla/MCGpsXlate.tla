----------------------------- MODULE MCGpsXlate -----------------------------
(* A clock that is right, or a second early or late.                       *)
EXTENDS GpsXlate

MCSteps == {-1, 0, 1}
=============================================================================
