----------------------------- MODULE MCReactor -----------------------------
(* Instances of Reactor for TLC: the constants are in the .cfg files. *)
EXTENDS Reactor, TLC

CONSTANTS c1, c2

\* How many requests the clients send.
OneEach == c1 :> 1 @@ c2 :> 1
TwoRequests == c1 :> 2

FirstOfC1 == {<<c1, 1>>}
FirstOfC2 == {<<c2, 1>>}

\* Workers are interchangeable (only where no liveness is checked).
WorkerSymmetry == Permutations(Workers)
=============================================================================
