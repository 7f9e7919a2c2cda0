-------------------------- MODULE MCPollingClient --------------------------
(* Instances of PollingClient for TLC: the constants are in the .cfg files. *)
EXTENDS PollingClient
=============================================================================
