------------------------ MODULE MCEntranceXsessions -------------------------
(* A small instance of EntranceXsessions for TLC: two names that differ in  *)
(* case only, and a third one.                                              *)
EXTENDS EntranceXsessions, TLC

CONSTANTS gnome, GNOME, sway

MCKey == gnome :> 1 @@ GNOME :> 1 @@ sway :> 2
=============================================================================
