--------------------------- MODULE MCEventLifecycle ---------------------------
(* Small instances of EventLifecycle. *)
EXTENDS EventLifecycle, TLC

CONSTANTS teacher, manager, admin, c1, q1, q2, q3

\* A class teacher, a manager, and a school admin who may do both.
Staff == teacher :> {"teacher"} @@ manager :> {"manager"} @@ admin :> {"school_admin"}

RequestSymmetry == Permutations(Requests)
===============================================================================
