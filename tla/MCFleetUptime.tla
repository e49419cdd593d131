--------------------------- MODULE MCFleetUptime ---------------------------
(* Instances of FleetUptime for TLC.                                       *)
EXTENDS FleetUptime
=============================================================================
