------------------------------ MODULE MCWorkspace ------------------------------
(* A small instance of Workspace for TLC.                                  *)
EXTENDS Workspace, TLC

CONSTANTS A, B, n1, n2, S, T

MCSessionOf == (n1 :> S) @@ (n2 :> T)
MCStored == (n1 :> A) @@ (n2 :> "unmade")
=============================================================================
