------------------------------ MODULE MCSessions ------------------------------
(* Small instances of Sessions. *)
EXTENDS Sessions, TLC

CONSTANTS k1, k2, k3, k4, f1, f2, h1, h2

Symmetry == Permutations(Tokens) \cup Permutations(Handlers) \cup Permutations(Families)
===============================================================================
