---------------------------- MODULE MCTenantAccess ----------------------------
(* Two schools and one person. *)
EXTENDS TenantAccess, TLC

CONSTANTS a, b, r1, r2

Symmetry == Permutations(Schools) \cup Permutations(Requests)
===============================================================================
