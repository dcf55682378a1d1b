------------------------------ MODULE SetupStages -----------------------------
(***************************************************************************)
(* What setting a school up promises to the rest of the system: a school   *)
(* is in setup, then committed, then live; it never goes back; nothing is  *)
(* committed before the required fields, a campus and an emergency contact *)
(* were on record, and nothing goes live before there was a structure.  A  *)
(* school that has a structure may go live without being committed (the    *)
(* rule for schools older than the setup wizard).  A structure is a level *)
(* and a section: each was on record at some time, perhaps not at once.    *)
(***************************************************************************)
CONSTANT Facts

VARIABLES
  stage,  \* "setup", "committed" or "live"
  facts   \* what was on record at some time

vars == <<stage, facts>>

Init == stage = "setup" /\ facts \in SUBSET Facts

Record ==
  /\ facts' \in SUBSET Facts /\ facts \subseteq facts'
  /\ UNCHANGED stage

Commit ==
  /\ stage = "setup" /\ {"fields", "campus", "contact"} \subseteq facts
  /\ stage' = "committed"
  /\ UNCHANGED facts

GoLive ==
  /\ stage # "live" /\ "structure" \in facts
  /\ stage' = "live"
  /\ UNCHANGED facts

Next == Record \/ Commit \/ GoLive
Spec == Init /\ [][Next]_vars
===============================================================================
