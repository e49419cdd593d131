--------------------------- MODULE MCFleetRollout ---------------------------
(* Small instances of FleetRollout for TLC.                                *)
EXTENDS FleetRollout, TLC
=============================================================================
