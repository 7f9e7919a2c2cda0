---------------------------- MODULE MCSseStream ----------------------------
(* Instances of SseStream for TLC: the constants are in the .cfg files. *)
EXTENDS SseStream, TLC

\* Workers are interchangeable (only where no liveness is checked).
WorkerSymmetry == Permutations(Workers)
=============================================================================
