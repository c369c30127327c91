---------------------------- MODULE MCBroadcast ----------------------------
(* An instance of Broadcast: all rounds, with the faults of the test. *)
EXTENDS Broadcast
=============================================================================
