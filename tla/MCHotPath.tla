----------------------------- MODULE MCHotPath -----------------------------
(* Values for the constants of HotPath, and the symmetry of its repliers. *)
EXTENDS HotPath, TLC

Readings == 0 .. 8
FewReadings == 0 .. 3
ShortFrame == [dst |-> Broadcast, src |-> "other", frame_id |-> 0,
               timestamp |-> 0, short |-> TRUE]
OneShortFrame == {ShortFrame}
RepliersAlike == Permutations(Replier)
=============================================================================
