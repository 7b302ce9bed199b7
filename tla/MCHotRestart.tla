---------------------------- MODULE MCHotRestart ----------------------------
(* Few readings of the clock: sessions are short and follow each other fast. *)
EXTENDS HotRestart

FewReadings == 0 .. 3
=============================================================================
