----------------------------- MODULE MCPortals -----------------------------
(* Instances of Portals for TLC.                                           *)
EXTENDS Portals

\* An operator starts or aborts rollouts and signs out, or searches for an
\* owner, provisions or upgrades and refreshes.
MCAllowances ==
    {[session |-> 1, panel |-> 2, search |-> 0, dialog |-> 0],
     [session |-> 0, panel |-> 0, search |-> 2, dialog |-> 2],
     [session |-> 1, panel |-> 0, search |-> 0, dialog |-> 2]}
=============================================================================
