------------------------------ MODULE EventStatus ------------------------------
(***************************************************************************)
(* What the trip lifecycle promises: an event is drafted, proposed to a    *)
(* manager, approved or returned to draft, and published once approved.    *)
(* It may be deleted at any time, and a published event stays published.   *)
(***************************************************************************)
VARIABLE status

Init == status = "none"

Step(from, to) == status = from /\ status' = to

Create  == Step("none", "draft")
Submit  == Step("draft", "proposed")
Approve == Step("proposed", "approved")
Reject  == Step("proposed", "draft")
Publish == Step("approved", "published")
Delete  == status \notin {"none", "deleted"} /\ status' = "deleted"

Next == Create \/ Submit \/ Approve \/ Reject \/ Publish \/ Delete

Spec == Init /\ [][Next]_status
===============================================================================
