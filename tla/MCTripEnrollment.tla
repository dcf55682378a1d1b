--------------------------- MODULE MCTripEnrollment ---------------------------
(* Small instances of TripEnrollment. *)
EXTENDS TripEnrollment, TLC

CONSTANTS s1, c1, m1, q1, q2

\* A single map.
SingleMap == m1 :> c1

RequestSymmetry == Permutations(Requests)
===============================================================================
