------------------------- MODULE MCTenantLifecycle -------------------------
(* TenantLifecycle for TLC: handlers and versions are interchangeable.     *)
EXTENDS TenantLifecycle, TLC

Symmetry == Permutations(Procs) \cup Permutations(Versions)
=============================================================================
