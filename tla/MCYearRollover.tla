---------------------------- MODULE MCYearRollover ----------------------------
(* Constants for model-checking YearRollover. *)
EXTENDS YearRollover, TLC

CONSTANTS a1, d1, y1, y2, s1

VARIABLE upserting  \* whether the student is upserted in this behaviour

\* Grades 1 .. n, one above the other.
Grades == [l \in Levels |-> l]

\* The classes made by hand: one per grade of the first year.
FirstYearClasses == {[year |-> y1, level |-> l, label |-> "A"] : l \in Levels}

\* Every override names the same grade as its target.
ToGradeTwo == {<<2, "A">>}

\* Two questions in one run: a plan over two grades without upserts, and every
\* writer of a student's class, the upsert too, on the upper grade alone.
MCInit == Init /\ upserting \in BOOLEAN
MCNext ==
  /\ Next
  /\ IF upserting THEN \A c \in ClassId : c.level = 1 => class'[c] = "absent"
                  ELSE upsert' = upsert
  /\ UNCHANGED upserting
MCSpec == MCInit /\ [][MCNext]_<<vars, upserting>>
===============================================================================
