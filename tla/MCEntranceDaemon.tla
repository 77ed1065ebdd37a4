-------------------------- MODULE MCEntranceDaemon --------------------------
(* Instances of the supervisor for TLC. *)
EXTENDS EntranceDaemon
=============================================================================
