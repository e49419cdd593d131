----------------------------- MODULE MCRoleSync -----------------------------
(* Small instances of RoleSync for TLC.                                    *)
EXTENDS RoleSync, TLC

CONSTANTS u1, u2, e1

(* Two users share an address: the realm may allow it.                      *)
MCEmailOf == u1 :> e1 @@ u2 :> e1
=============================================================================
