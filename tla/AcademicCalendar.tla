--------------------------- MODULE AcademicCalendar ---------------------------
(***************************************************************************)
(* What the academic_years table promises to the rest of a tenant: years   *)
(* are defined as 'planned', and one step at a time the calendar rolls     *)
(* over, closing the active year and activating a planned one in its       *)
(* place.  A closed year stays closed and there is never a moment without  *)
(* an active year.  YearRollover is shown to implement this module.        *)
(***************************************************************************)
CONSTANTS Years,     \* the ids academic_years may use
          FirstYear  \* the year a tenant schema is seeded with

VARIABLE status     \* status[y]: "absent" until the row exists, then its status

YearStatus == {"absent", "planned", "active", "closed"}

\* A new tenant schema is seeded with exactly one active year.
Init == status = [y \in Years |-> IF y = FirstYear THEN "active" ELSE "absent"]

Define(y) ==
  /\ status[y] = "absent"
  /\ status' = [status EXCEPT ![y] = "planned"]

RollOver(y, z) ==
  /\ status[y] = "active"
  /\ status[z] = "planned"
  /\ status' = [status EXCEPT ![y] = "closed", ![z] = "active"]

Next == \/ \E y \in Years : Define(y)
        \/ \E y, z \in Years : RollOver(y, z)

Spec == Init /\ [][Next]_status
===============================================================================
