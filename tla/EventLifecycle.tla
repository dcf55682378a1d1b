---------------------------- MODULE EventLifecycle ----------------------------
(***************************************************************************)
(* The lifecycle of one event: create_event, the submit, manager-decision  *)
(* and publish endpoints, all of which run transition_event, the edit of   *)
(* the audience and the deletion.                                          *)
(*                                                                         *)
(* transition_event reads the event, checks the transition table, the      *)
(* actor's roles and the preconditions, sends the notifications one        *)
(* autocommitted INSERT at a time, and finally overwrites the status with  *)
(* an UPDATE that does not look at the status again.                       *)
(***************************************************************************)
EXTENDS Integers, FiniteSets

CONSTANTS
  Actors,
  Roles,      \* Roles[a]: the role and permission names of actor a
  Classes,    \* classes that can be targeted; one notification each stands
              \* for those to the students of the class and their parents
  Requests,   \* request slots: how many handlers run at once
  Nobody

ASSUME ConstantsAssumption ==
  /\ Roles \in [Actors -> SUBSET STRING]
  /\ Nobody \notin Actors

VARIABLES
  status,     \* event.status; "none" before creation, "deleted" after
  creator,    \* event.created_by
  mapped,     \* classes with an event_class_map row
  stamps,     \* which of submitted_at, manager_approved_at, published_at are set
  reason,     \* is rejection_reason set?
  told,       \* classes whose students create_event notified
  announced,  \* classes that a publish notified
  late,       \* history: classes mapped while a publish ran, or after it
  req,        \* req[q]: the handler running in slot q
  stale       \* history: transitions about to write whose status another changed

vars == <<status, creator, mapped, stamps, reason, told, announced, late, req, stale>>

Statuses == {"draft", "proposed", "approved", "published"}
Actions  == {"submit_for_approval", "manager_approve", "manager_reject",
             "teacher_publish", "manager_publish"}
Stamps   == {"submitted_at", "manager_approved_at", "published_at"}

\* A handler in flight; classes are the ones still to notify, or to map.
Request == [pc : {"idle", "transition", "write", "created", "edit"},
            actor : Actors \cup {Nobody}, action : Actions \cup {"none"},
            classes : SUBSET Classes]
Idle    == [pc |-> "idle", actor |-> Nobody, action |-> "none", classes |-> {}]

\* Domains of the event row and of the requests in flight.
TypeOK ==
  /\ status \in Statuses \cup {"none", "deleted"}
  /\ creator \in Actors \cup {Nobody}
  /\ mapped \subseteq Classes
  /\ stamps \subseteq Stamps
  /\ reason \in BOOLEAN
  /\ told \subseteq Classes /\ announced \subseteq Classes /\ late \subseteq Classes
  /\ req \in [Requests -> Request]

Init ==
  /\ status = "none" /\ creator = Nobody
  /\ mapped = {} /\ stamps = {} /\ reason = FALSE
  /\ told = {} /\ announced = {} /\ late = {}
  /\ req = [q \in Requests |-> Idle] /\ stale = {}

Finish(q) == req' = [req EXCEPT ![q] = Idle]
Exists    == status \notin {"none", "deleted"}

\* CurrentUser.has_role: a super_admin has every role.
Has(a, names) == Roles[a] \cap (names \cup {"super_admin"}) # {}

-------------------------------------------------------------------------------
(* Creation *)

CreateEvent(q, a, C) ==
  /\ req[q].pc = "idle"
  /\ status = "none"
  /\ Has(a, {"school_admin", "teacher"})
  /\ status' = "draft"
  /\ creator' = a
  /\ mapped' = C
  /\ req' = [req EXCEPT ![q] = [Idle EXCEPT !.pc = "created", !.classes = C]]
  /\ UNCHANGED <<stamps, reason, told, announced, late>>

\* create_event ends by notifying the students of the mapped classes; the
\* INSERT fails, and the request with it, once the event is gone.
NotifyCreated(q) ==
  /\ req[q].pc = "created"
  /\ IF req[q].classes = {} \/ ~Exists
     THEN Finish(q) /\ told' = told
     ELSE \E c \in req[q].classes :
            /\ told' = told \cup {c}
            /\ req' = [req EXCEPT ![q].classes = @ \ {c}]
  /\ UNCHANGED <<status, creator, mapped, stamps, reason, announced, late>>

-------------------------------------------------------------------------------
(* The endpoints, each of which settles on an action *)

Begin(q, a, action) ==
  req' = [req EXCEPT ![q] = [Idle EXCEPT !.pc = "transition", !.actor = a, !.action = action]]

\* submit_event and resolve_submit_action: chosen from a first read of status.
SubmitEvent(q, a) ==
  /\ req[q].pc = "idle"
  /\ \/ /\ status = "draft"
        /\ Has(a, {"teacher", "school_admin", "event:submit"})
        /\ Begin(q, a, "submit_for_approval")
     \/ /\ status = "approved"
        /\ Has(a, {"teacher", "school_admin", "manager"})
        /\ Begin(q, a, "teacher_publish")
  /\ UNCHANGED <<status, creator, mapped, stamps, reason, told, announced, late>>

ManagerDecision(q, a, action) ==
  /\ req[q].pc = "idle"
  /\ action \in {"manager_approve", "manager_reject"}
  /\ Begin(q, a, action)
  /\ UNCHANGED <<status, creator, mapped, stamps, reason, told, announced, late>>

\* teacher_publish_event and resolve_publish_action.
PublishEvent(q, a) ==
  /\ req[q].pc = "idle"
  /\ Has(a, {"teacher", "event_teacher", "manager", "school_admin"})
  /\ Begin(q, a, IF Has(a, {"manager"}) THEN "manager_publish" ELSE "teacher_publish")
  /\ UNCHANGED <<status, creator, mapped, stamps, reason, told, announced, late>>

-------------------------------------------------------------------------------
(* transition_event *)

\* Mutant: the shortcut that the table leaves out on purpose.
TransitionsWithShortcut ==
  { <<"draft", "submit_for_approval", "proposed">>,
    <<"proposed", "manager_approve", "approved">>,
    <<"proposed", "manager_reject", "draft">>,
    <<"proposed", "manager_publish", "published">>,
    <<"approved", "teacher_publish", "published">>,
    <<"approved", "manager_publish", "published">> }

\* Mutant: an approval that still leads to a status of the retired lifecycle.
TransitionsRetired ==
  { <<"draft", "submit_for_approval", "proposed">>,
    <<"proposed", "manager_approve", "ready_to_publish">>,
    <<"proposed", "manager_reject", "draft">>,
    <<"ready_to_publish", "teacher_publish", "published">>,
    <<"ready_to_publish", "manager_publish", "published">> }

\* TRANSITIONS, for the actions an endpoint can ask for.
Transitions ==
  { <<"draft", "submit_for_approval", "proposed">>,
    <<"proposed", "manager_approve", "approved">>,
    <<"proposed", "manager_reject", "draft">>,
    <<"approved", "teacher_publish", "published">>,
    <<"approved", "manager_publish", "published">> }

\* Mutant: the manager's publish has no fan-out.
PublishesTeacherOnly(action) == action = "teacher_publish"

Publishes(action) == action \in {"teacher_publish", "manager_publish"}

\* The role each transition names, its overrides and the granular permissions;
\* the raw role names of the actor are compared.
Authorized(a, action) ==
  Roles[a] \cap ({"school_admin", "super_admin"} \cup
    CASE action = "submit_for_approval" -> {"teacher", "event_teacher", "event:submit", "event:propose"}
      [] action \in {"manager_approve", "manager_reject"} -> {"manager", "event:review"}
      [] action = "teacher_publish" -> {"teacher", "event_teacher", "event:publish"}
      [] action = "manager_publish" -> {"manager", "event:publish"}) # {}

\* Only the creator, or an admin, submits, and never an event without audience.
Precondition(a, action) ==
  action = "submit_for_approval"
    => /\ a = creator \/ Roles[a] \cap {"school_admin", "super_admin"} # {}
       /\ mapped # {}

TransitionRead(q) ==
  LET r == req[q]
      legal == \E t \in Transitions : t[1] = status /\ t[2] = r.action
  IN /\ r.pc = "transition"
     /\ IF legal /\ Authorized(r.actor, r.action) /\ Precondition(r.actor, r.action)
        THEN req' = [req EXCEPT ![q].pc = "write",
                                ![q].classes = IF Publishes(r.action) THEN mapped ELSE {}]
        ELSE Finish(q)
     /\ UNCHANGED <<status, creator, mapped, stamps, reason, told, announced, late>>

\* One notification of the fan-out; it fails once the event is gone.
Announce(q) ==
  /\ req[q].pc = "write"
  /\ req[q].classes # {}
  /\ IF Exists
     THEN \E c \in req[q].classes :
            /\ announced' = announced \cup {c}
            /\ req' = [req EXCEPT ![q].classes = @ \ {c}]
     ELSE Finish(q) /\ announced' = announced
  /\ UNCHANGED <<status, creator, mapped, stamps, reason, told, late>>

\* The timestamp that goes with each action.
Stamp(action) ==
  [submit_for_approval |-> {"submitted_at"}, manager_approve |-> {"manager_approved_at"},
   manager_reject |-> {}, teacher_publish |-> {"published_at"},
   manager_publish |-> {"published_at"}][action]

\* rejection_reason is the one column that every transition overwrites.
Reason(action) == action = "manager_reject"

\* The final UPDATE, under no condition but the id; it finds no row once the
\* event is deleted.
TransitionWrite(q) ==
  LET action == req[q].action IN
  /\ req[q].pc = "write"
  /\ req[q].classes = {}
  /\ Finish(q)
  /\ IF Exists
     THEN /\ \E t \in Transitions : t[2] = action /\ status' = t[3]
          /\ stamps' = stamps \cup Stamp(action)
          /\ reason' = Reason(action)
     ELSE UNCHANGED <<status, stamps, reason>>
  /\ UNCHANGED <<creator, mapped, told, announced, late>>

-------------------------------------------------------------------------------
(* Editing the audience, and deletion *)

\* is_editable: the owner while in draft, a manager or an admin at any time.
IsEditable(a) ==
  \/ Roles[a] \cap {"school_admin", "super_admin", "manager"} # {}
  \/ /\ status = "draft" /\ a = creator
     /\ Roles[a] \cap {"teacher", "event_teacher", "event:edit"} # {}

SelectAudienceRead(q, a, C) ==
  /\ req[q].pc = "idle"
  /\ Exists
  /\ IsEditable(a)
  /\ req' = [req EXCEPT ![q] = [Idle EXCEPT !.pc = "edit", !.actor = a, !.classes = C]]
  /\ UNCHANGED <<status, creator, mapped, stamps, reason, told, announced, late>>

\* The publish requests between their read and their write.
Publishing == {q \in Requests : req[q].pc = "write" /\ Publishes(req[q].action)}

\* update_event_full only ever adds mappings; it fails when the event is gone.
SelectAudienceWrite(q) ==
  /\ req[q].pc = "edit"
  /\ mapped' = IF Exists THEN mapped \cup req[q].classes ELSE mapped
  /\ late' = IF Exists /\ (status = "published" \/ Publishing # {})
             THEN late \cup (req[q].classes \ mapped) ELSE late
  /\ Finish(q)
  /\ UNCHANGED <<status, creator, stamps, reason, told, announced>>

\* The mappings go with the event (ON DELETE CASCADE).
DeleteEvent ==
  /\ Exists
  /\ status' = "deleted"
  /\ mapped' = {}
  /\ UNCHANGED <<creator, stamps, reason, told, announced, late, req>>

-------------------------------------------------------------------------------
Handler(q) ==
  \/ NotifyCreated(q)
  \/ TransitionRead(q)
  \/ Announce(q)
  \/ TransitionWrite(q)
  \/ SelectAudienceWrite(q)

Arrival(q, a) ==
  \/ \E C \in SUBSET Classes : CreateEvent(q, a, C) \/ SelectAudienceRead(q, a, C)
  \/ SubmitEvent(q, a)
  \/ \E action \in Actions : ManagerDecision(q, a, action)
  \/ PublishEvent(q, a)

Next ==
  /\ \/ \E q \in Requests : Handler(q) \/ \E a \in Actors : Arrival(q, a)
     \/ DeleteEvent
  /\ stale' = {q \in Requests : req[q].pc = "write" /\ req'[q].pc = "write"
                                /\ (q \in stale \/ status' # status)}

Spec == Init /\ [][Next]_vars

-------------------------------------------------------------------------------
(* Properties *)

\* Whatever stale request writes the status: a published event was submitted
\* and approved by a manager at some time, and published_at is stamped.
PublishedWasReviewed ==
  status = "published" => stamps = Stamps

\* The teacher sees a rejection reason exactly when the event was returned to
\* draft: status and rejection_reason never disagree, in any interleaving.
ReasonIffReturned ==
  Exists => (reason <=> status = "draft" /\ "submitted_at" \in stamps)

\* teacher_publish_event "sends notifications to all students and parents in
\* the targeted classes": a class of a published event that nobody notified was
\* added while a publish was between its read and its write, or afterwards.
AudienceAnnounced ==
  status = "published" => mapped \subseteq announced \cup late

\* The promised lifecycle, which the code implements with one request at a time.
Lifecycle == INSTANCE EventStatus
LifecycleSpec == Lifecycle!Spec

\* However many requests interleave, the status leaves the promised lifecycle only
\* by the write of a transition whose status another request has changed since it
\* was read: "deliberately NO proposed -> published shortcut" but such a write.
LeavesLifecycleOnlyStale ==
  [][Lifecycle!Next \/ \E q \in stale : TransitionWrite(q)]_status
===============================================================================
