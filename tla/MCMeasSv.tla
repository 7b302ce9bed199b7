------------------------------ MODULE MCMeasSv ------------------------------
(* A cycle of three samples on one current and one voltage channel. *)
EXTENDS MeasSv

Levels == {0, 1, 2}
=============================================================================
