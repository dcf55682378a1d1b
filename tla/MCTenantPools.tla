---------------------------- MODULE MCTenantPools -----------------------------
(* Small instances of TenantPools. *)
EXTENDS TenantPools, TLC

CONSTANTS t1, p1, p2, p3

TaskSymmetry == Permutations(Tasks)
===============================================================================
