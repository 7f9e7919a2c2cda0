---------------------------- MODULE MCLifecycle ----------------------------
(* Instance of Lifecycle for TLC. *)
EXTENDS Lifecycle

MCFds == 1 .. 6
=============================================================================
