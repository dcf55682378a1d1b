--------------------------- MODULE MCResourceCosting --------------------------
(* Small instances of ResourceCosting. *)
EXTENDS ResourceCosting, TLC

CONSTANTS r1, r2
===============================================================================
