-------------------------- MODULE MCBusStatistics --------------------------
(* Instance of BusStatistics for TLC. *)
EXTENDS BusStatistics

\* One number in both formats, and a frame with data.
MCIds == {[id |-> 1, is_extended |-> FALSE, dlc |-> 8],
          [id |-> 1, is_extended |-> TRUE, dlc |-> 1]}
=============================================================================
