--------------------------- MODULE MCScaleToZero ---------------------------
(* Small instances of ScaleToZero for TLC.                                 *)
EXTENDS ScaleToZero, TLC

=============================================================================
