---------------------------- MODULE MCSchoolSetup -----------------------------
(* Small instances of SchoolSetup. *)
EXTENDS SchoolSetup

CONSTANTS r1, r2, s1, g1, g2, n1, n2, c1, c2

VARIABLE complete  \* whether nothing was missing at first

\* Two questions in one run: a draft with gaps is set up, without pupils; and one
\* that lacks nothing is taken live, its pupil placed, its structure edited, and its
\* code is let alone.
MCInit == Init /\ complete = (facts = {"fields", "campus", "contact"} /\ opened # {})
MCNext ==
  /\ Next
  /\ IF complete THEN \A r \in Requests : req'[r].op = "profile" => req'[r].to = None
                 ELSE db'.placed = db.placed
  /\ UNCHANGED complete
MCSpec == MCInit /\ [][MCNext]_<<vars, complete>>

Symmetry ==
  Permutations(Requests) \cup Permutations(Grades) \cup Permutations(Sections)
    \cup Permutations(Codes)
===============================================================================
