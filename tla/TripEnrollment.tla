---------------------------- MODULE TripEnrollment ----------------------------
(***************************************************************************)
(* Enrolment in one event, and its payments: enroll_student, the parents'  *)
(* and the teacher's decisions, cancel_enrollment and pay_enrollment, with *)
(* the other handlers that touch the same rows (a student moves class, a   *)
(* class or the event is deleted, a ticket price is edited).               *)
(*                                                                         *)
(* None of these handlers runs in a transaction: each statement commits by *)
(* itself, so every handler is a read step followed by write steps, and    *)
(* any other request may run in between.                                   *)
(***************************************************************************)
EXTENDS Integers, FiniteSets

CONSTANTS
  Students, Classes,
  Maps,             \* ids of the event's event_class_map rows
  MapClass,         \* MapClass[m]: event_class_map.class_id
  Priced,           \* maps that start with ticket_price > 0
  Headless,         \* classes with no head_teacher_id
  Requests,         \* request slots: how many handlers run at once
  MaxEnrollments,   \* bound: enrollment ids that are ever handed out
  CurrencyDefault,  \* does payments.currency have a default in this tenant?
  Failures,         \* may a handler die between two statements?
  None

Ids    == 1..MaxEnrollments
States == {"requested_by_student", "approved_by_parent", "approved_by_teacher",
           "rejected_by_parent", "rejected_by_teacher"}
Row    == [s : Students, m : Maps, state : States]

ASSUME ConstantsAssumption ==
  /\ MapClass \in [Maps -> Classes]
  /\ Priced \subseteq Maps /\ Headless \subseteq Classes
  /\ MaxEnrollments \in Nat
  /\ CurrencyDefault \in BOOLEAN /\ Failures \in BOOLEAN
  /\ None \notin Students /\ None \notin Classes /\ None \notin Maps
  /\ None \notin Row

VARIABLES
  event,    \* "unpublished", "published" or "deleted"
  classes,  \* class rows that exist
  maps,     \* event_class_map rows that exist
  priced,   \* maps with ticket_price > 0 now
  cls,      \* students.class_id
  enr,      \* enr[i]: the enrollment row with id i, or None
  nextId,   \* the BIGSERIAL: ids are never used twice
  pay,      \* pay[i]: how many payments rows of enrollment i are in each status
  req,      \* req[q]: the handler running in slot q
  del,      \* classes whose delete_class has passed its history check
  consent,  \* history: ids whose row a parent approved or a teacher created
  excused   \* history: ids whose enroll request failed, or found no price

vars == <<event, classes, maps, priced, cls, enr, nextId, pay, req, del, consent, excused>>

Pays   == [pending : Nat, paid : Nat]
NoPays == [pending |-> 0, paid |-> 0]

\* A handler in flight: where it stands and what it read or was asked for.
Request == [pc : {"idle", "student", "existing", "insert", "payment",
                  "decide", "cancel", "delete", "pay"},
            s : Students \cup {None}, m : Maps \cup {None},
            state : States \cup {None}, seen : Classes \cup {None}, id : Ids \cup {0}]
Idle    == [pc |-> "idle", s |-> None, m |-> None, state |-> None, seen |-> None, id |-> 0]

\* Domains of the tables and of the requests in flight.
TypeOK ==
  /\ event \in {"unpublished", "published", "deleted"}
  /\ classes \subseteq Classes /\ maps \subseteq Maps /\ priced \subseteq Maps
  /\ cls \in [Students -> Classes \cup {None}]
  /\ enr \in [Ids -> Row \cup {None}]
  /\ nextId \in 1..(MaxEnrollments + 1)
  /\ pay \in [Ids -> Pays]
  /\ req \in [Requests -> Request]
  /\ del \subseteq Classes
  /\ consent \subseteq Ids /\ excused \subseteq Ids

Init ==
  /\ event = "unpublished"
  /\ classes = Classes /\ maps = Maps /\ priced = Priced
  /\ cls \in [Students -> Classes]
  /\ enr = [i \in Ids |-> None]
  /\ nextId = 1
  /\ pay = [i \in Ids |-> NoPays]
  /\ req = [q \in Requests |-> Idle]
  /\ del = {} /\ consent = {} /\ excused = {}

Finish(q)   == req' = [req EXCEPT ![q] = Idle]
Goto(q, pc) == req' = [req EXCEPT ![q].pc = pc]

-------------------------------------------------------------------------------
(* enroll_student *)

\* students/router.py: what each kind of caller asks for.  A parent without
\* can_approve only files a request, a teacher decides on the spot.
EntryState(caller) ==
  CASE caller \in {"student", "linked_parent"} -> "requested_by_student"
    [] caller = "approving_parent"             -> "approved_by_parent"
    [] caller = "teacher"                      -> "approved_by_teacher"

Callers == {"student", "linked_parent", "approving_parent", "teacher"}

EnrollStart(q, caller, s, m) ==
  /\ req[q].pc = "idle"
  /\ m \in maps
  /\ event = "published"
  /\ req' = [req EXCEPT ![q] =
               [Idle EXCEPT !.pc = "student", !.s = s, !.m = m, !.state = EntryState(caller)]]
  /\ UNCHANGED <<event, classes, maps, priced, cls, enr, nextId, pay, del, consent, excused>>

EnrollReadStudent(q) ==
  /\ req[q].pc = "student"
  /\ req' = [req EXCEPT ![q].pc = "existing", ![q].seen = cls[req[q].s]]
  /\ UNCHANGED <<event, classes, maps, priced, cls, enr, nextId, pay, del, consent, excused>>

\* An enrollment of the student in the event, through any class map, ends the
\* request (returned as it is, or refused); so does the wrong class.
Enrolled(s) == {i \in Ids : enr[i] # None /\ enr[i].s = s}

EnrollCheck(q) ==
  /\ req[q].pc = "existing"
  /\ IF Enrolled(req[q].s) = {} /\ req[q].seen = MapClass[req[q].m]
     THEN Goto(q, "insert") ELSE Finish(q)
  /\ UNCHANGED <<event, classes, maps, priced, cls, enr, nextId, pay, del, consent, excused>>

\* Mutant: the table without UNIQUE (student_id, event_class_map_id).
ConflictNone(s, m) == {}

\* The row that INSERT ... ON CONFLICT (student_id, event_class_map_id) meets.
Conflict(s, m) == {i \in Enrolled(s) : enr[i].m = m}

\* create_enrollment: on a conflict the state of the row is overwritten.  The
\* foreign key fails the request when the class map is gone.
EnrollInsert(q) ==
  LET r == req[q] IN
  /\ r.pc = "insert"
  /\ \/ /\ r.m \notin maps
        /\ Finish(q)
        /\ UNCHANGED <<enr, nextId, consent>>
     \/ /\ r.m \in maps
        /\ \E i \in Ids :
             /\ IF Conflict(r.s, r.m) = {} THEN i = nextId ELSE i \in Conflict(r.s, r.m)
             /\ nextId' = IF i = nextId THEN nextId + 1 ELSE nextId
             /\ enr' = [enr EXCEPT ![i] = [s |-> r.s, m |-> r.m, state |-> r.state]]
             /\ consent' = IF r.state = "requested_by_student" THEN consent ELSE consent \cup {i}
             /\ req' = [req EXCEPT ![q].pc = "payment", ![q].id = i]
  /\ UNCHANGED <<event, classes, maps, priced, cls, pay, del, excused>>

\* Mutant: free and priced maps are confused.
PaymentDueNever(m) == m \notin priced

\* ticket_price > 0 when the new row is read back.
PaymentDue(m) == m \in priced

\* The row is read back and a pending payment created.  create_payment names no
\* currency: where the column has no default the statement fails, and the
\* request with it, after the enrollment has been committed.
EnrollPayment(q) ==
  LET i == req[q].id IN
  /\ req[q].pc = "payment"
  /\ pay' = IF enr[i] # None /\ PaymentDue(enr[i].m) /\ CurrencyDefault
            THEN [pay EXCEPT ![i].pending = @ + 1] ELSE pay
  /\ excused' = IF enr[i] # None /\ (enr[i].m \notin priced \/ ~CurrencyDefault)
                THEN excused \cup {i} ELSE excused
  /\ Finish(q)
  /\ UNCHANGED <<event, classes, maps, priced, cls, enr, nextId, del, consent>>

-------------------------------------------------------------------------------
(* update_enrollment_approval: the state is read, then written unconditionally *)

\* Mutant: the teacher need not wait for the parent.
MayDecideEarly(role, current, new) ==
  \/ /\ role = "parent" /\ current = "requested_by_student"
     /\ new \in {"approved_by_parent", "rejected_by_parent"}
  \/ /\ role = "teacher" /\ current \in {"requested_by_student", "approved_by_parent"}
     /\ new \in {"approved_by_teacher", "rejected_by_teacher"}

MayDecide(role, current, new) ==
  \/ /\ role = "parent" /\ current = "requested_by_student"
     /\ new \in {"approved_by_parent", "rejected_by_parent"}
  \/ /\ role = "teacher" /\ current = "approved_by_parent"
     /\ new \in {"approved_by_teacher", "rejected_by_teacher"}

DecideRead(q, role, i, new) ==
  /\ req[q].pc = "idle"
  /\ enr[i] # None
  /\ MayDecide(role, enr[i].state, new)
  /\ req' = [req EXCEPT ![q] = [Idle EXCEPT !.pc = "decide", !.id = i, !.state = new]]
  /\ UNCHANGED <<event, classes, maps, priced, cls, enr, nextId, pay, del, consent, excused>>

DecideWrite(q) ==
  LET i == req[q].id IN
  /\ req[q].pc = "decide"
  /\ Finish(q)
  /\ enr' = IF enr[i] = None THEN enr ELSE [enr EXCEPT ![i].state = req[q].state]
  /\ consent' = IF enr[i] # None /\ req[q].state = "approved_by_parent"
                THEN consent \cup {i} ELSE consent
  /\ UNCHANGED <<event, classes, maps, priced, cls, nextId, pay, del, excused>>

-------------------------------------------------------------------------------
(* cancel_enrollment and pay_enrollment *)

CancelRead(q, i) ==
  /\ req[q].pc = "idle"
  /\ enr[i] # None
  /\ req' = [req EXCEPT ![q] = [Idle EXCEPT !.pc = "cancel", !.id = i, !.m = enr[i].m]]
  /\ UNCHANGED <<event, classes, maps, priced, cls, enr, nextId, pay, del, consent, excused>>

\* get_payment_by_enrollment returns any one of the enrollment's payments: a
\* pending one, or none at all, lets the request go on.  The notification to
\* the head teacher fails where the class has none.
CancelCheck(q) ==
  LET i == req[q].id IN
  /\ req[q].pc = "cancel"
  /\ \/ /\ pay[i].paid > 0 \/ (req[q].m \in maps /\ MapClass[req[q].m] \in Headless)
        /\ Finish(q)
     \/ /\ pay[i].pending > 0 \/ pay[i].paid = 0
        /\ ~(req[q].m \in maps /\ MapClass[req[q].m] \in Headless)
        /\ Goto(q, "delete")
  /\ UNCHANGED <<event, classes, maps, priced, cls, enr, nextId, pay, del, consent, excused>>

\* ON DELETE CASCADE: the payments go with the enrollment.
Purge(I) ==
  /\ enr' = [i \in Ids |-> IF i \in I THEN None ELSE enr[i]]
  /\ pay' = [i \in Ids |-> IF i \in I THEN NoPays ELSE pay[i]]

CancelDelete(q) ==
  /\ req[q].pc = "delete"
  /\ Purge({req[q].id})
  /\ Finish(q)
  /\ UNCHANGED <<event, classes, maps, priced, cls, nextId, del, consent, excused>>

PayRead(q, i) ==
  /\ req[q].pc = "idle"
  /\ pay[i] # NoPays
  /\ req' = [req EXCEPT ![q] = [Idle EXCEPT !.pc = "pay", !.id = i]]
  /\ UNCHANGED <<event, classes, maps, priced, cls, enr, nextId, pay, del, consent, excused>>

\* Mutant: one payment is settled per request, read or not.
SettleOne(p) == [pending |-> p.pending - 1, paid |-> p.paid + 1]

\* UPDATE payments SET status = 'paid' WHERE enrollment_id = ...
Settle(p) == [pending |-> 0, paid |-> p.pending + p.paid]

PayWrite(q) ==
  /\ req[q].pc = "pay"
  /\ pay' = [pay EXCEPT ![req[q].id] = Settle(@)]
  /\ Finish(q)
  /\ UNCHANGED <<event, classes, maps, priced, cls, enr, nextId, del, consent, excused>>

-------------------------------------------------------------------------------
(* Everything else that writes the same rows *)

\* A handler dies (worker restart, lost database connection).
Fail(q) ==
  /\ Failures
  /\ req[q].pc # "idle"
  /\ excused' = IF req[q].pc = "payment" THEN excused \cup {req[q].id} ELSE excused
  /\ Finish(q)
  /\ UNCHANGED <<event, classes, maps, priced, cls, enr, nextId, pay, del, consent>>

\* transition_event; its own interleavings are in EventLifecycle.
ChangeStatus ==
  /\ event # "deleted"
  /\ event' = IF event = "published" THEN "unpublished" ELSE "published"
  /\ UNCHANGED <<classes, maps, priced, cls, enr, nextId, pay, req, del, consent, excused>>

DeleteEvent ==
  /\ event # "deleted"
  /\ event' = "deleted"
  /\ maps' = {}
  /\ Purge(Ids)
  /\ UNCHANGED <<classes, priced, cls, nextId, req, del, consent, excused>>

UpdateTicketPrice(m) ==
  /\ m \in maps
  /\ priced' = IF m \in priced THEN priced \ {m} ELSE priced \cup {m}
  /\ UNCHANGED <<event, classes, maps, cls, enr, nextId, pay, req, del, consent, excused>>

MoveStudent(s, c) ==
  /\ c \in classes \cup {None}
  /\ cls' = [cls EXCEPT ![s] = c]
  /\ UNCHANGED <<event, classes, maps, priced, enr, nextId, pay, req, del, consent, excused>>

\* delete_class reads in one statement that no enrollment exists,
OfClass(c) == {m \in maps : MapClass[m] = c}
HistoryOf(c) == {i \in Ids : enr[i] # None /\ enr[i].m \in OfClass(c)}

DeleteClassCheck(c) ==
  /\ c \in classes \ del
  /\ HistoryOf(c) = {}
  /\ del' = del \cup {c}
  /\ UNCHANGED <<event, classes, maps, priced, cls, enr, nextId, pay, req, consent, excused>>

\* and deletes in later ones; READ COMMITTED lets an insert commit in between.
DeleteClassWrite(c) ==
  /\ c \in del
  /\ del' = del \ {c}
  /\ classes' = classes \ {c}
  /\ maps' = maps \ OfClass(c)
  /\ cls' = [s \in Students |-> IF cls[s] = c THEN None ELSE cls[s]]
  /\ Purge(HistoryOf(c))
  /\ UNCHANGED <<event, priced, nextId, req, consent, excused>>

-------------------------------------------------------------------------------
Handler(q) ==
  \/ EnrollReadStudent(q)
  \/ EnrollCheck(q)
  \/ EnrollInsert(q)
  \/ EnrollPayment(q)
  \/ DecideWrite(q)
  \/ CancelCheck(q)
  \/ CancelDelete(q)
  \/ PayWrite(q)

Arrival(q) ==
  \/ \E caller \in Callers, s \in Students, m \in Maps : EnrollStart(q, caller, s, m)
  \/ \E role \in {"parent", "teacher"}, i \in Ids, new \in States : DecideRead(q, role, i, new)
  \/ \E i \in Ids : CancelRead(q, i) \/ PayRead(q, i)

Environment ==
  \/ ChangeStatus
  \/ DeleteEvent
  \/ \E m \in Maps : UpdateTicketPrice(m)
  \/ \E s \in Students, c \in Classes \cup {None} : MoveStudent(s, c)
  \/ \E c \in Classes : DeleteClassCheck(c) \/ DeleteClassWrite(c)

Next ==
  \/ \E q \in Requests : Arrival(q) \/ Handler(q) \/ Fail(q)
  \/ Environment

Spec == Init /\ [][Next]_vars

-------------------------------------------------------------------------------
(* Properties *)

\* "Enrollment must be approved by a parent before teacher approval": a row only
\* stands at approved_by_teacher when at some time a parent approved it or a
\* teacher created it outright, however decisions, duplicates and cancellations
\* interleave.
ConsentBeforeTeacher ==
  \A i \in Ids : enr[i] # None /\ enr[i].state = "approved_by_teacher" => i \in consent

\* A retried or concurrent enroll never leaves a student with two rows for the
\* same class map, although the handler's own check is not atomic.
OneRowPerMap ==
  \A i, j \in Ids : enr[i] # None /\ enr[j] # None
                      /\ enr[i].s = enr[j].s /\ enr[i].m = enr[j].m => i = j

\* Once an enroll request has finished, its enrollment has a payment: only a
\* free ticket, or a failure between the two inserts, leaves one without, and no
\* cancellation, second enroll or price edit loses the payment afterwards.
AwaitingPayment == {req[q].id : q \in {p \in Requests : req[p].pc = "payment"}}
Unbilled == {i \in Ids : enr[i] # None /\ pay[i] = NoPays}

PricedEnrollmentHasPayment == Unbilled \subseteq AwaitingPayment \cup excused

\* Payments never outlive their enrollment, and an id that has not been handed
\* out has neither: no cancellation or deletion leaves an orphan for a late
\* create_payment or a late pay to hit.
NoOrphanPayment ==
  \A i \in Ids : /\ pay[i] # NoPays => enr[i] # None
                 /\ i >= nextId => enr[i] = None
===============================================================================
