------------------------- MODULE TripEnrollmentProofs -------------------------
(***************************************************************************)
(* Proofs about TripEnrollment, for every number of students, class maps,  *)
(* concurrent requests and enrollments.                                    *)
(***************************************************************************)
EXTENDS TripEnrollment, TLAPS

\* A handler past its first read knows what it works on.
Working ==
  \A q \in Requests :
    /\ req[q].pc \in {"student", "existing", "insert"}
         => req[q].s \in Students /\ req[q].m \in Maps /\ req[q].state \in States
    /\ req[q].pc \in {"payment", "decide", "cancel", "delete", "pay"} => req[q].id \in Ids
    /\ req[q].pc = "decide" => req[q].state \in States

Typed == TypeOK /\ Working

LEMMA IdleType == Idle \in Request
  BY DEF Idle, Request

LEMMA FinishTyped ==
  ASSUME Typed, NEW q \in Requests, Finish(q)
  PROVE  req' \in [Requests -> Request] /\ Working'
  BY IdleType DEF Typed, TypeOK, Finish, Working, Idle

LEMMA InitTyped == Init => Typed
  BY IdleType, ConstantsAssumption DEF Init, Typed, TypeOK, Working, Idle, NoPays, Pays

LEMMA PurgeTyped ==
  ASSUME Typed, NEW I, Purge(I)
  PROVE  enr' \in [Ids -> Row \cup {None}] /\ pay' \in [Ids -> Pays]
  BY DEF Typed, TypeOK, Purge, NoPays, Pays

LEMMA ArrivalTyped ==
  ASSUME Typed, NEW q \in Requests, Arrival(q)
  PROVE  Typed'
<1> USE DEF Typed, Working
<1>1. ASSUME NEW caller \in Callers, NEW s \in Students, NEW m \in Maps, EnrollStart(q, caller, s, m)
      PROVE  Typed'
  <2>1. EntryState(caller) \in States
    BY DEF EntryState, Callers, States
  <2>2. [Idle EXCEPT !.pc = "student", !.s = s, !.m = m, !.state = EntryState(caller)] \in Request
    BY <2>1 DEF Idle, Request
  <2> QED
    BY <1>1, <2>1, <2>2 DEF EnrollStart, TypeOK, Idle
<1>2. ASSUME NEW role \in {"parent", "teacher"}, NEW i \in Ids, NEW new \in States,
             DecideRead(q, role, i, new)
      PROVE  Typed'
  <2>1. [Idle EXCEPT !.pc = "decide", !.id = i, !.state = new] \in Request
    BY DEF Idle, Request
  <2> QED
    BY <1>2, <2>1 DEF DecideRead, TypeOK, Idle
<1>3. ASSUME NEW i \in Ids, CancelRead(q, i)
      PROVE  Typed'
  <2>1. enr[i].m \in Maps
    BY <1>3 DEF CancelRead, TypeOK, Row
  <2>2. [Idle EXCEPT !.pc = "cancel", !.id = i, !.m = enr[i].m] \in Request
    BY <2>1 DEF Idle, Request
  <2> QED
    BY <1>3, <2>2 DEF CancelRead, TypeOK, Idle
<1>4. ASSUME NEW i \in Ids, PayRead(q, i)
      PROVE  Typed'
  <2>1. [Idle EXCEPT !.pc = "pay", !.id = i] \in Request
    BY DEF Idle, Request
  <2> QED
    BY <1>4, <2>1 DEF PayRead, TypeOK, Idle
<1> QED
  BY <1>1, <1>2, <1>3, <1>4 DEF Arrival

LEMMA HandlerTyped ==
  ASSUME Typed, NEW q \in Requests, Handler(q) \/ Fail(q)
  PROVE  Typed'
<1> USE DEF Typed
<1>0. req[q] \in Request
  BY DEF TypeOK
<1>1. CASE EnrollReadStudent(q)
  BY <1>0, <1>1 DEF EnrollReadStudent, TypeOK, Working, Request
<1>2. CASE EnrollCheck(q)
  BY <1>0, <1>2, FinishTyped DEF EnrollCheck, Goto, TypeOK, Working, Request
<1>3. CASE EnrollInsert(q)
  <2>1. CASE req[q].m \notin maps
    BY <1>3, <2>1, FinishTyped DEF EnrollInsert, TypeOK
  <2>2. CASE req[q].m \in maps
    <3>1. PICK i \in Ids :
            /\ nextId' = IF i = nextId THEN nextId + 1 ELSE nextId
            /\ enr' = [enr EXCEPT ![i] = [s |-> req[q].s, m |-> req[q].m, state |-> req[q].state]]
            /\ consent' = IF req[q].state = "requested_by_student" THEN consent ELSE consent \cup {i}
            /\ req' = [req EXCEPT ![q].pc = "payment", ![q].id = i]
      BY <1>3, <2>2 DEF EnrollInsert
    <3>2. [s |-> req[q].s, m |-> req[q].m, state |-> req[q].state] \in Row
      BY <1>3 DEF EnrollInsert, Working, Row
    <3>3. req' \in [Requests -> Request] /\ Working'
      BY <1>0, <3>1 DEF TypeOK, Working, Request
    <3>4. nextId' \in 1..(MaxEnrollments + 1)
      BY <3>1, ConstantsAssumption DEF TypeOK, Ids
    <3> QED
      BY <1>3, <3>1, <3>2, <3>3, <3>4 DEF EnrollInsert, TypeOK
  <2> QED
    BY <2>1, <2>2
<1>4. CASE EnrollPayment(q)
  <2>1. req[q].id \in Ids /\ pay[req[q].id] \in Pays
    BY <1>4 DEF EnrollPayment, Working, TypeOK
  <2>2. pay' \in [Ids -> Pays]
    BY <1>4, <2>1 DEF EnrollPayment, TypeOK, Pays
  <2> QED
    BY <1>4, <2>1, <2>2, FinishTyped DEF EnrollPayment, TypeOK
<1>5. CASE DecideWrite(q)
  <2>1. req[q].id \in Ids /\ req[q].state \in States
    BY <1>5 DEF DecideWrite, Working
  <2>2. enr' \in [Ids -> Row \cup {None}]
    BY <1>5, <2>1 DEF DecideWrite, TypeOK, Row
  <2> QED
    BY <1>5, <2>1, <2>2, FinishTyped DEF DecideWrite, TypeOK
<1>6. CASE CancelCheck(q)
  BY <1>0, <1>6, FinishTyped DEF CancelCheck, Goto, TypeOK, Working, Request
<1>7. CASE CancelDelete(q)
  BY <1>7, PurgeTyped, FinishTyped DEF CancelDelete, TypeOK
<1>8. CASE PayWrite(q)
  <2>1. req[q].id \in Ids /\ pay[req[q].id] \in Pays
    BY <1>8 DEF PayWrite, Working, TypeOK
  <2>2. pay' \in [Ids -> Pays]
    BY <1>8, <2>1 DEF PayWrite, Settle, TypeOK, Pays
  <2> QED
    BY <1>8, <2>2, FinishTyped DEF PayWrite, TypeOK
<1>9. CASE Fail(q)
  <2>1. excused' \subseteq Ids
    BY <1>9 DEF Fail, Working, TypeOK
  <2> QED
    BY <1>9, <2>1, FinishTyped DEF Fail, TypeOK
<1> QED
  BY <1>1, <1>2, <1>3, <1>4, <1>5, <1>6, <1>7, <1>8, <1>9 DEF Handler

LEMMA EnvironmentTyped ==
  ASSUME Typed, Environment
  PROVE  Typed'
<1> USE DEF Typed, Working
<1>1. CASE ChangeStatus
  BY <1>1 DEF ChangeStatus, TypeOK
<1>2. CASE DeleteEvent
  BY <1>2, PurgeTyped DEF DeleteEvent, TypeOK
<1>3. ASSUME NEW m \in Maps, UpdateTicketPrice(m)
      PROVE  Typed'
  BY <1>3 DEF UpdateTicketPrice, TypeOK
<1>4. ASSUME NEW s \in Students, NEW c \in Classes \cup {None}, MoveStudent(s, c)
      PROVE  Typed'
  BY <1>4 DEF MoveStudent, TypeOK
<1>5. ASSUME NEW c \in Classes, DeleteClassCheck(c)
      PROVE  Typed'
  BY <1>5 DEF DeleteClassCheck, TypeOK
<1>6. ASSUME NEW c \in Classes, DeleteClassWrite(c)
      PROVE  Typed'
  BY <1>6, PurgeTyped DEF DeleteClassWrite, TypeOK
<1> QED
  BY <1>1, <1>2, <1>3, <1>4, <1>5, <1>6 DEF Environment

LEMMA NextTyped == Typed /\ [Next]_vars => Typed'
<1> SUFFICES ASSUME Typed, [Next]_vars PROVE Typed'
  OBVIOUS
<1>1. CASE UNCHANGED vars
  BY <1>1 DEF Typed, TypeOK, Working, vars
<1> QED
  BY <1>1, ArrivalTyped, HandlerTyped, EnvironmentTyped DEF Next

\* The tables and the requests in flight keep their types.
THEOREM TypeCorrect == Spec => []TypeOK
<1>1. Typed => TypeOK
  BY DEF Typed
<1> QED
  BY <1>1, InitTyped, NextTyped, PTL DEF Spec

-------------------------------------------------------------------------------
(* Consent.  ConsentBeforeTeacher is not inductive: a teacher's decision that *)
(* is still in flight rests on the approval it read, and that approval on the *)
(* parent having given it.                                                    *)

ConsentInv ==
  /\ \A i \in Ids : /\ enr[i] # None
                    /\ enr[i].state \in {"approved_by_parent", "approved_by_teacher"}
                    => i \in consent
  /\ \A q \in Requests : req[q].pc = "decide" /\ req[q].state = "approved_by_teacher"
                           => req[q].id \in consent

LEMMA InitConsent == Init => ConsentInv
  BY DEF Init, ConsentInv, Idle

LEMMA ArrivalConsent ==
  ASSUME Typed, ConsentInv, NEW q \in Requests, Arrival(q)
  PROVE  ConsentInv'
<1> USE DEF Typed, TypeOK, ConsentInv
<1>1. ASSUME NEW caller \in Callers, NEW s \in Students, NEW m \in Maps, EnrollStart(q, caller, s, m)
      PROVE  ConsentInv'
  BY <1>1 DEF EnrollStart, Idle
<1>2. ASSUME NEW role \in {"parent", "teacher"}, NEW i \in Ids, NEW new \in States,
             DecideRead(q, role, i, new)
      PROVE  ConsentInv'
  <2>1. new = "approved_by_teacher" => i \in consent
    BY <1>2 DEF DecideRead, MayDecide
  <2> QED
    BY <1>2, <2>1 DEF DecideRead, Idle
<1>3. ASSUME NEW i \in Ids, CancelRead(q, i)
      PROVE  ConsentInv'
  BY <1>3 DEF CancelRead, Idle
<1>4. ASSUME NEW i \in Ids, PayRead(q, i)
      PROVE  ConsentInv'
  BY <1>4 DEF PayRead, Idle
<1> QED
  BY <1>1, <1>2, <1>3, <1>4 DEF Arrival

LEMMA HandlerConsent ==
  ASSUME Typed, ConsentInv, NEW q \in Requests, Handler(q) \/ Fail(q)
  PROVE  ConsentInv'
<1> USE DEF Typed, TypeOK, ConsentInv
<1>0. req[q] \in Request
  OBVIOUS
<1>1. CASE EnrollReadStudent(q)
  BY <1>1 DEF EnrollReadStudent
<1>2. CASE EnrollCheck(q)
  <2>1. req'[q].pc # "decide" /\ \A p \in Requests \ {q} : req'[p] = req[p]
    BY <1>0, <1>2 DEF EnrollCheck, Goto, Finish, Idle, Request
  <2> QED
    BY <1>2, <2>1 DEF EnrollCheck
<1>3. CASE EnrollInsert(q)
  <2>1. CASE req[q].m \notin maps
    BY <1>3, <2>1 DEF EnrollInsert, Finish, Idle
  <2>2. CASE req[q].m \in maps
    <3>1. PICK i \in Ids :
            /\ enr' = [enr EXCEPT ![i] = [s |-> req[q].s, m |-> req[q].m, state |-> req[q].state]]
            /\ consent' = IF req[q].state = "requested_by_student" THEN consent ELSE consent \cup {i}
            /\ req' = [req EXCEPT ![q].pc = "payment", ![q].id = i]
      BY <1>3, <2>2 DEF EnrollInsert
    <3>2. enr'[i].state = "requested_by_student" \/ i \in consent'
      BY <3>1
    <3> QED
      BY <3>1, <3>2
  <2> QED
    BY <2>1, <2>2
<1>4. CASE EnrollPayment(q)
  BY <1>4 DEF EnrollPayment, Finish, Idle
<1>5. CASE DecideWrite(q)
  <2>1. req[q].id \in Ids
    BY <1>5 DEF DecideWrite, Working
  <2>2. CASE enr[req[q].id] = None
    BY <1>5, <2>2 DEF DecideWrite, Finish, Idle
  <2>3. CASE enr[req[q].id] # None
    <3>1. /\ enr' = [enr EXCEPT ![req[q].id].state = req[q].state]
          /\ consent' = IF req[q].state = "approved_by_parent"
                        THEN consent \cup {req[q].id} ELSE consent
      BY <1>5, <2>3 DEF DecideWrite
    <3>2. req[q].state \in {"approved_by_parent", "approved_by_teacher"} => req[q].id \in consent'
      BY <1>5, <3>1 DEF DecideWrite
    <3>3. enr'[req[q].id].state = req[q].state
      BY <2>1, <2>3, <3>1 DEF Row
    <3>4. \A i \in Ids : i # req[q].id => enr'[i] = enr[i]
      BY <2>1, <3>1
    <3>5. consent \subseteq consent'
      BY <3>1
    <3> QED
      BY <1>5, <2>1, <3>2, <3>3, <3>4, <3>5 DEF DecideWrite, Finish, Idle
  <2> QED
    BY <2>2, <2>3
<1>6. CASE CancelCheck(q)
  <2>1. req'[q].pc # "decide" /\ \A p \in Requests \ {q} : req'[p] = req[p]
    BY <1>0, <1>6 DEF CancelCheck, Goto, Finish, Idle, Request
  <2> QED
    BY <1>6, <2>1 DEF CancelCheck
<1>7. CASE CancelDelete(q)
  BY <1>7 DEF CancelDelete, Purge, Finish, Idle
<1>8. CASE PayWrite(q)
  BY <1>8 DEF PayWrite, Finish, Idle
<1>9. CASE Fail(q)
  BY <1>9 DEF Fail, Finish, Idle
<1> QED
  BY <1>1, <1>2, <1>3, <1>4, <1>5, <1>6, <1>7, <1>8, <1>9 DEF Handler

LEMMA EnvironmentConsent ==
  ASSUME Typed, ConsentInv, Environment
  PROVE  ConsentInv'
  BY DEF Typed, TypeOK, ConsentInv, Environment, ChangeStatus, DeleteEvent, UpdateTicketPrice,
         MoveStudent, DeleteClassCheck, DeleteClassWrite, Purge

\* "Enrollment must be approved by a parent before teacher approval", for any
\* number of concurrent enrolments, decisions, cancellations and deletions.
THEOREM ConsentFirst == Spec => []ConsentBeforeTeacher
<1>1. Init => Typed /\ ConsentInv
  BY InitTyped, InitConsent
<1>2. Typed /\ ConsentInv /\ [Next]_vars => (Typed /\ ConsentInv)'
  <2> SUFFICES ASSUME Typed, ConsentInv, [Next]_vars PROVE ConsentInv'
    BY NextTyped
  <2>1. CASE UNCHANGED vars
    BY <2>1 DEF ConsentInv, vars
  <2> QED
    BY <2>1, ArrivalConsent, HandlerConsent, EnvironmentConsent DEF Next
<1>3. ConsentInv => ConsentBeforeTeacher
  BY DEF ConsentInv, ConsentBeforeTeacher
<1> QED
  BY <1>1, <1>2, <1>3, PTL DEF Spec

-------------------------------------------------------------------------------
(* Rows and payments.  OneRowPerMap rests on ids being fresh, which is the    *)
(* second half of NoOrphanPayment.                                            *)

RowsInv == OneRowPerMap /\ NoOrphanPayment

LEMMA InitRows == Init => RowsInv
  BY DEF Init, RowsInv, OneRowPerMap, NoOrphanPayment

\* Deleting rows with their payments disturbs neither.
LEMMA PurgeRows ==
  ASSUME Typed, RowsInv, NEW I, Purge(I), UNCHANGED nextId
  PROVE  RowsInv'
  BY DEF Typed, TypeOK, RowsInv, OneRowPerMap, NoOrphanPayment, Purge

LEMMA InsertRows ==
  ASSUME Typed, RowsInv, NEW q \in Requests, EnrollInsert(q)
  PROVE  RowsInv'
<1> USE DEF Typed, TypeOK
<1>1. CASE req[q].m \notin maps
  BY <1>1 DEF EnrollInsert, RowsInv, OneRowPerMap, NoOrphanPayment
<1>2. CASE req[q].m \in maps
  <2> DEFINE new == [s |-> req[q].s, m |-> req[q].m, state |-> req[q].state]
  <2>1. PICK i \in Ids :
          /\ IF Conflict(req[q].s, req[q].m) = {} THEN i = nextId
             ELSE i \in Conflict(req[q].s, req[q].m)
          /\ nextId' = IF i = nextId THEN nextId + 1 ELSE nextId
          /\ enr' = [enr EXCEPT ![i] = new]
    BY <1>2 DEF EnrollInsert
  <2>2. new \in Row /\ new # None
    BY ConstantsAssumption DEF EnrollInsert, Working, Row
  <2>3. enr'[i] = new /\ \A j \in Ids : j # i => enr'[j] = enr[j]
    BY <2>1
  <2>4. \A j \in Ids : enr[j] # None /\ enr[j].s = req[q].s /\ enr[j].m = req[q].m => j = i
    BY <2>1 DEF Conflict, Enrolled, RowsInv, OneRowPerMap
  <2>5. OneRowPerMap'
    BY <2>2, <2>3, <2>4 DEF RowsInv, OneRowPerMap
  <2>6. i < nextId'
    BY <2>1 DEF Conflict, Enrolled, RowsInv, NoOrphanPayment, Ids
  <2>7. nextId' >= nextId
    BY <2>1 DEF Ids
  <2>8. NoOrphanPayment'
    BY <2>2, <2>3, <2>6, <2>7, ConstantsAssumption DEF EnrollInsert, RowsInv, NoOrphanPayment, Ids
  <2> QED
    BY <2>5, <2>8 DEF RowsInv
<1> QED
  BY <1>1, <1>2

LEMMA PaymentRows ==
  ASSUME Typed, RowsInv, NEW q \in Requests, EnrollPayment(q) \/ PayWrite(q)
  PROVE  RowsInv'
<1> USE DEF Typed, TypeOK
<1>1. req[q].id \in Ids /\ UNCHANGED <<enr, nextId>>
  BY DEF EnrollPayment, PayWrite, Working
<1>2. \A i \in Ids : i # req[q].id => pay'[i] = pay[i]
  BY <1>1 DEF EnrollPayment, PayWrite
<1>3. pay'[req[q].id] # NoPays => enr[req[q].id] # None
  <2>1. CASE EnrollPayment(q)
    BY <1>1, <2>1 DEF EnrollPayment, RowsInv, NoOrphanPayment
  <2>2. CASE PayWrite(q)
    <3>1. pay[req[q].id] = NoPays => pay'[req[q].id] = NoPays
      BY <1>1, <2>2 DEF PayWrite, Settle, NoPays
    <3> QED
      BY <1>1, <3>1 DEF RowsInv, NoOrphanPayment
  <2> QED
    BY <2>1, <2>2
<1> QED
  BY <1>1, <1>2, <1>3 DEF RowsInv, OneRowPerMap, NoOrphanPayment

LEMMA DecideRows ==
  ASSUME Typed, RowsInv, NEW q \in Requests, DecideWrite(q)
  PROVE  RowsInv'
<1> USE DEF Typed, TypeOK
<1>1. CASE enr[req[q].id] = None
  BY <1>1 DEF DecideWrite, RowsInv, OneRowPerMap, NoOrphanPayment
<1>2. CASE enr[req[q].id] # None
  <2> DEFINE i == req[q].id
             new == [enr[i] EXCEPT !.state = req[q].state]
  <2>1. i \in Ids /\ enr[i] \in Row /\ req[q].state \in States
    BY <1>2 DEF DecideWrite, Working
  <2>2. new \in Row /\ new.s = enr[i].s /\ new.m = enr[i].m /\ new # None
    BY <2>1, ConstantsAssumption DEF Row
  <2>3. enr' = [enr EXCEPT ![i] = new] /\ UNCHANGED <<pay, nextId>>
    BY <1>2 DEF DecideWrite
  <2>4. enr'[i] = new /\ \A j \in Ids : j # i => enr'[j] = enr[j]
    BY <2>1, <2>3
  <2> QED
    BY <1>2, <2>1, <2>2, <2>3, <2>4 DEF RowsInv, OneRowPerMap, NoOrphanPayment
<1> QED
  BY <1>1, <1>2

LEMMA NextRows ==
  ASSUME Typed, RowsInv, [Next]_vars
  PROVE  RowsInv'
<1> USE DEF RowsInv, OneRowPerMap, NoOrphanPayment
<1>1. CASE UNCHANGED vars
  BY <1>1 DEF vars
<1>2. ASSUME NEW q \in Requests, Arrival(q)
      PROVE  RowsInv'
  <2>1. UNCHANGED <<enr, pay, nextId>>
    BY <1>2 DEF Arrival, EnrollStart, DecideRead, CancelRead, PayRead
  <2> QED
    BY <2>1
<1>3. ASSUME NEW q \in Requests, Handler(q) \/ Fail(q)
      PROVE  RowsInv'
  <2>1. CASE EnrollReadStudent(q) \/ EnrollCheck(q) \/ CancelCheck(q) \/ Fail(q)
    BY <2>1 DEF EnrollReadStudent, EnrollCheck, CancelCheck, Fail
  <2>2. CASE CancelDelete(q)
    BY <2>2, PurgeRows DEF CancelDelete
  <2> QED
    BY <1>3, <2>1, <2>2, InsertRows, PaymentRows, DecideRows DEF Handler
<1>4. CASE Environment
  <2>1. CASE DeleteEvent
    BY <2>1, PurgeRows DEF DeleteEvent
  <2>2. ASSUME NEW c \in Classes, DeleteClassWrite(c)
        PROVE  RowsInv'
    BY <2>2, PurgeRows DEF DeleteClassWrite
  <2> QED
    BY <1>4, <2>1, <2>2 DEF Environment, ChangeStatus, UpdateTicketPrice, MoveStudent, DeleteClassCheck
<1> QED
  BY <1>1, <1>2, <1>3, <1>4 DEF Next

\* However enroll requests race each other, cancellations and deletions: one row
\* per student and class map, and no payment without its enrollment.
THEOREM RowsSound == Spec => [](OneRowPerMap /\ NoOrphanPayment)
<1>1. Init => Typed /\ RowsInv
  BY InitTyped, InitRows
<1>2. Typed /\ RowsInv /\ [Next]_vars => (Typed /\ RowsInv)'
  BY NextTyped, NextRows
<1> QED
  BY <1>1, <1>2, PTL DEF Spec, RowsInv

-------------------------------------------------------------------------------
(* Billing: PricedEnrollmentHasPayment is inductive once the types are known. *)

LEMMA ArrivalBilled ==
  ASSUME Typed, PricedEnrollmentHasPayment, NEW q \in Requests, Arrival(q)
  PROVE  PricedEnrollmentHasPayment'
<1>1. UNCHANGED <<enr, pay, excused>>
  BY DEF Arrival, EnrollStart, DecideRead, CancelRead, PayRead
<1>2. req[q].pc = "idle" /\ \A p \in Requests \ {q} : req'[p] = req[p]
  BY DEF Arrival, EnrollStart, DecideRead, CancelRead, PayRead, Typed, TypeOK
<1>3. AwaitingPayment \subseteq AwaitingPayment'
  BY <1>2 DEF AwaitingPayment
<1> QED
  BY <1>1, <1>3 DEF PricedEnrollmentHasPayment, Unbilled

\* The other requests that wait to insert a payment go on waiting.
LEMMA OthersWait ==
  ASSUME Typed, NEW q \in Requests, Handler(q) \/ Fail(q)
  PROVE  /\ \A p \in Requests \ {q} : req'[p] = req[p]
         /\ \A i \in AwaitingPayment : i \in AwaitingPayment' \/ (req[q].pc = "payment" /\ req[q].id = i)
<1>1. \A p \in Requests \ {q} : req'[p] = req[p]
  BY DEF Handler, Fail, EnrollReadStudent, EnrollCheck, EnrollInsert, EnrollPayment, DecideWrite,
         CancelCheck, CancelDelete, PayWrite, Finish, Goto, Typed, TypeOK
<1> QED
  BY <1>1 DEF AwaitingPayment

LEMMA HandlerBilled ==
  ASSUME Typed, PricedEnrollmentHasPayment, NEW q \in Requests, Handler(q) \/ Fail(q)
  PROVE  PricedEnrollmentHasPayment'
<1> USE OthersWait DEF PricedEnrollmentHasPayment, Unbilled
<1>0. TypeOK /\ Working
  BY DEF Typed
<1>1. CASE EnrollReadStudent(q) \/ EnrollCheck(q) \/ CancelCheck(q)
  BY <1>1 DEF EnrollReadStudent, EnrollCheck, CancelCheck
<1>2. CASE EnrollInsert(q)
  <2>1. CASE req[q].m \notin maps
    BY <1>2, <2>1 DEF EnrollInsert
  <2>2. CASE req[q].m \in maps
    <3>1. PICK i \in Ids :
            /\ enr' = [enr EXCEPT ![i] = [s |-> req[q].s, m |-> req[q].m, state |-> req[q].state]]
            /\ req' = [req EXCEPT ![q].pc = "payment", ![q].id = i]
      BY <1>2, <2>2 DEF EnrollInsert
    <3>2. i \in AwaitingPayment'
      BY <1>0, <3>1 DEF AwaitingPayment, TypeOK, Request
    <3>3. \A j \in Ids : j # i => enr'[j] = enr[j]
      BY <1>0, <3>1 DEF TypeOK
    <3> QED
      BY <1>2, <3>2, <3>3 DEF EnrollInsert
  <2> QED
    BY <2>1, <2>2
<1>3. CASE EnrollPayment(q)
  <2>1. req[q].id \in Ids /\ pay[req[q].id] \in Pays
    BY <1>0, <1>3 DEF EnrollPayment, Working, TypeOK
  <2>2. \A i \in Ids : i # req[q].id => pay'[i] = pay[i]
    BY <1>0, <1>3 DEF EnrollPayment, TypeOK
  <2>3. CASE enr[req[q].id] # None /\ enr[req[q].id].m \in priced /\ CurrencyDefault
    <3>1. pay'[req[q].id].pending = pay[req[q].id].pending + 1
      BY <1>0, <1>3, <2>1, <2>3 DEF EnrollPayment, PaymentDue, TypeOK, Pays
    <3>2. pay'[req[q].id] # NoPays
      BY <2>1, <3>1 DEF NoPays, Pays
    <3> QED
      BY <1>3, <2>2, <3>2 DEF EnrollPayment
  <2>4. CASE ~(enr[req[q].id] # None /\ enr[req[q].id].m \in priced /\ CurrencyDefault)
    <3>1. pay' = pay /\ excused \subseteq excused' /\ (enr[req[q].id] # None => req[q].id \in excused')
      BY <1>3, <2>4 DEF EnrollPayment, PaymentDue
    <3> QED
      BY <1>3, <3>1 DEF EnrollPayment
  <2> QED
    BY <2>3, <2>4
<1>4. CASE DecideWrite(q)
  <2>1. \A i \in Ids : enr'[i] # None => enr[i] # None
    BY <1>0, <1>4 DEF DecideWrite, TypeOK
  <2> QED
    BY <1>4, <2>1 DEF DecideWrite
<1>5. CASE CancelDelete(q)
  BY <1>5 DEF CancelDelete, Purge
<1>6. CASE PayWrite(q)
  <2>1. req[q].id \in Ids /\ pay[req[q].id] \in Pays
    BY <1>0, <1>6 DEF PayWrite, Working, TypeOK
  <2>2. pay' = [pay EXCEPT ![req[q].id] = Settle(pay[req[q].id])]
    BY <1>6 DEF PayWrite
  <2>3. Settle(pay[req[q].id]) = NoPays => pay[req[q].id] = NoPays
    BY <2>1 DEF Settle, NoPays, Pays
  <2>4. \A i \in Ids : pay'[i] = NoPays => pay[i] = NoPays
    BY <1>0, <2>1, <2>2, <2>3 DEF TypeOK
  <2> QED
    BY <1>6, <2>4 DEF PayWrite
<1>7. CASE Fail(q)
  BY <1>7 DEF Fail
<1> QED
  BY <1>1, <1>2, <1>3, <1>4, <1>5, <1>6, <1>7 DEF Handler

LEMMA EnvironmentBilled ==
  ASSUME PricedEnrollmentHasPayment, Environment
  PROVE  PricedEnrollmentHasPayment'
<1>1. UNCHANGED <<req, excused>>
  BY DEF Environment, ChangeStatus, DeleteEvent, UpdateTicketPrice, MoveStudent,
         DeleteClassCheck, DeleteClassWrite
<1>2. \A i \in Ids : enr'[i] # None => enr'[i] = enr[i] /\ pay'[i] = pay[i]
  BY DEF Environment, ChangeStatus, DeleteEvent, UpdateTicketPrice, MoveStudent,
         DeleteClassCheck, DeleteClassWrite, Purge
<1> QED
  BY <1>1, <1>2 DEF PricedEnrollmentHasPayment, Unbilled, AwaitingPayment

\* Only a free ticket or a request that failed between its two inserts leaves an
\* enrollment without a payment, whatever else runs.
THEOREM Billed == Spec => []PricedEnrollmentHasPayment
<1>1. Init => Typed /\ PricedEnrollmentHasPayment
  BY InitTyped DEF Init, PricedEnrollmentHasPayment, Unbilled
<1>2. Typed /\ PricedEnrollmentHasPayment /\ [Next]_vars => (Typed /\ PricedEnrollmentHasPayment)'
  <2> SUFFICES ASSUME Typed, PricedEnrollmentHasPayment, [Next]_vars
               PROVE  PricedEnrollmentHasPayment'
    BY NextTyped
  <2>1. CASE UNCHANGED vars
    BY <2>1 DEF PricedEnrollmentHasPayment, Unbilled, AwaitingPayment, vars
  <2> QED
    BY <2>1, ArrivalBilled, HandlerBilled, EnvironmentBilled DEF Next
<1> QED
  BY <1>1, <1>2, PTL DEF Spec
===============================================================================
