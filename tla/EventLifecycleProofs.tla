------------------------- MODULE EventLifecycleProofs -------------------------
(***************************************************************************)
(* Proofs about EventLifecycle, for every staff, audience and number of    *)
(* concurrent requests.                                                    *)
(***************************************************************************)
EXTENDS EventLifecycle, TLAPS

\* A handler that runs a transition knows its actor and its action.
Working ==
  \A q \in Requests : req[q].pc \in {"transition", "write"}
                        => req[q].actor \in Actors /\ req[q].action \in Actions

Typed == TypeOK /\ Working

LEMMA IdleType == Idle \in Request
  BY DEF Idle, Request

LEMMA InitTyped == Init => Typed
<1> SUFFICES ASSUME Init PROVE Typed
  OBVIOUS
<1>1. reason \in BOOLEAN
  BY Zenon DEF Init
<1>2. req \in [Requests -> Request] /\ Working
  BY IdleType DEF Init, Working, Idle
<1> QED
  BY <1>1, <1>2 DEF Init, Typed, TypeOK

LEMMA FinishTyped ==
  ASSUME Typed, NEW q \in Requests, Finish(q)
  PROVE  req' \in [Requests -> Request] /\ Working'
  BY IdleType DEF Typed, TypeOK, Finish, Working, Idle

LEMMA BeginTyped ==
  ASSUME Typed, NEW q \in Requests, NEW a \in Actors, NEW action \in Actions, Begin(q, a, action)
  PROVE  req' \in [Requests -> Request] /\ Working'
<1>1. [Idle EXCEPT !.pc = "transition", !.actor = a, !.action = action] \in Request
  BY DEF Idle, Request
<1> QED
  BY <1>1 DEF Typed, TypeOK, Working, Begin, Idle

LEMMA ArrivalTyped ==
  ASSUME Typed, NEW q \in Requests, NEW a \in Actors, Arrival(q, a)
  PROVE  Typed'
<1> USE DEF Typed
<1>1. ASSUME NEW C \in SUBSET Classes, CreateEvent(q, a, C)
      PROVE  Typed'
  <2>1. [Idle EXCEPT !.pc = "created", !.classes = C] \in Request
    BY DEF Idle, Request
  <2> QED
    BY <1>1, <2>1 DEF CreateEvent, TypeOK, Working, Idle, Statuses
<1>2. ASSUME NEW C \in SUBSET Classes, SelectAudienceRead(q, a, C)
      PROVE  Typed'
  <2>1. [Idle EXCEPT !.pc = "edit", !.actor = a, !.classes = C] \in Request
    BY DEF Idle, Request
  <2> QED
    BY <1>2, <2>1 DEF SelectAudienceRead, TypeOK, Working, Idle
<1>3. CASE SubmitEvent(q, a)
  BY <1>3, BeginTyped DEF SubmitEvent, TypeOK, Actions
<1>4. ASSUME NEW action \in Actions, ManagerDecision(q, a, action)
      PROVE  Typed'
  BY <1>4, BeginTyped DEF ManagerDecision, TypeOK
<1>5. CASE PublishEvent(q, a)
  BY <1>5, BeginTyped DEF PublishEvent, TypeOK, Actions
<1> QED
  BY <1>1, <1>2, <1>3, <1>4, <1>5 DEF Arrival

LEMMA StampType ==
  ASSUME NEW action \in Actions
  PROVE  Stamp(action) \subseteq Stamps
  BY DEF Stamp, Stamps, Actions

LEMMA HandlerTyped ==
  ASSUME Typed, NEW q \in Requests, Handler(q)
  PROVE  Typed'
<1> USE DEF Typed
<1>0. req[q] \in Request
  BY DEF TypeOK
<1>1. CASE NotifyCreated(q)
  <2>1. CASE req[q].classes = {} \/ ~Exists
    BY <1>1, <2>1, FinishTyped DEF NotifyCreated, TypeOK
  <2>2. CASE ~(req[q].classes = {} \/ ~Exists)
    BY <1>0, <1>1, <2>2 DEF NotifyCreated, TypeOK, Working, Request
  <2> QED
    BY <2>1, <2>2
<1>2. CASE TransitionRead(q)
  <2>1. req' \in [Requests -> Request] /\ Working'
    BY <1>0, <1>2, FinishTyped DEF TransitionRead, TypeOK, Working, Request
  <2> QED
    BY <1>2, <2>1 DEF TransitionRead, TypeOK
<1>3. CASE Announce(q)
  <2>1. CASE Exists
    BY <1>0, <1>3, <2>1 DEF Announce, TypeOK, Working, Request
  <2>2. CASE ~Exists
    BY <1>3, <2>2, FinishTyped DEF Announce, TypeOK
  <2> QED
    BY <2>1, <2>2
<1>4. CASE TransitionWrite(q)
  <2>1. Stamp(req[q].action) \subseteq Stamps
    BY <1>4, StampType DEF TransitionWrite, Working
  <2>2. \A t \in Transitions : t[3] \in Statuses
    BY DEF Transitions, Statuses
  <2> QED
    BY <1>4, <2>1, <2>2, FinishTyped DEF TransitionWrite, TypeOK, Reason
<1>5. CASE SelectAudienceWrite(q)
  <2>1. req[q].classes \subseteq Classes
    BY <1>0 DEF Request
  <2> QED
    BY <1>5, <2>1, FinishTyped DEF SelectAudienceWrite, TypeOK
<1> QED
  BY <1>1, <1>2, <1>3, <1>4, <1>5 DEF Handler

LEMMA NextTyped == Typed /\ [Next]_vars => Typed'
<1> SUFFICES ASSUME Typed, [Next]_vars PROVE Typed'
  OBVIOUS
<1>1. CASE UNCHANGED vars
  BY <1>1 DEF Typed, TypeOK, Working, vars
<1>2. CASE DeleteEvent
  BY <1>2 DEF DeleteEvent, Typed, TypeOK, Working
<1> QED
  BY <1>1, <1>2, ArrivalTyped, HandlerTyped DEF Next

\* The event row and the requests in flight keep their types.
THEOREM TypeCorrect == Spec => []TypeOK
<1>1. Typed => TypeOK
  BY DEF Typed
<1> QED
  BY <1>1, InitTyped, NextTyped, PTL DEF Spec

-------------------------------------------------------------------------------
(* The stamps tell the past: whatever status a request read, the stamps of    *)
(* the steps that lead to that status were set before, and stay set.          *)

Reached ==
  /\ status = "none" => stamps = {} /\ ~reason
  /\ status \in {"proposed", "approved", "published"} => "submitted_at" \in stamps
  /\ status \in {"approved", "published"} => "manager_approved_at" \in stamps
  /\ status = "published" => "published_at" \in stamps

InFlight ==
  \A q \in Requests : req[q].pc = "write" =>
    /\ status # "none"
    /\ req[q].action \in {"manager_approve", "manager_reject", "teacher_publish", "manager_publish"}
         => "submitted_at" \in stamps
    /\ req[q].action \in {"teacher_publish", "manager_publish"} => "manager_approved_at" \in stamps

History == Reached /\ InFlight /\ ReasonIffReturned

LEMMA InitHistory == Init => History
  BY DEF Init, History, Reached, InFlight, ReasonIffReturned, Exists, Idle

LEMMA ArrivalHistory ==
  ASSUME Typed, History, NEW q \in Requests, NEW a \in Actors, Arrival(q, a)
  PROVE  History'
<1> USE DEF Typed, TypeOK
<1>1. ASSUME NEW C \in SUBSET Classes, CreateEvent(q, a, C)
      PROVE  History'
  BY <1>1 DEF CreateEvent, History, Reached, InFlight, ReasonIffReturned, Exists, Idle
<1>2. CASE ~(\E C \in SUBSET Classes : CreateEvent(q, a, C))
  <2>1. UNCHANGED <<status, stamps, reason>>
    BY <1>2 DEF Arrival, SelectAudienceRead, SubmitEvent, ManagerDecision, PublishEvent
  <2>2. req'[q].pc # "write" /\ \A p \in Requests \ {q} : req'[p] = req[p]
    BY <1>2 DEF Arrival, SelectAudienceRead, SubmitEvent, ManagerDecision, PublishEvent, Begin, Idle
  <2> QED
    BY <2>1, <2>2 DEF History, Reached, InFlight, ReasonIffReturned, Exists
<1> QED
  BY <1>1, <1>2

LEMMA WriteHistory ==
  ASSUME Typed, History, NEW q \in Requests, TransitionWrite(q)
  PROVE  History'
<1> USE DEF Typed, TypeOK
<1>0. req[q].action \in Actions /\ status # "none"
  BY DEF TransitionWrite, Working, History, InFlight
<1>1. req'[q].pc # "write" /\ \A p \in Requests \ {q} : req'[p] = req[p]
  BY DEF TransitionWrite, Finish, Idle
<1>2. CASE ~Exists
  BY <1>1, <1>2 DEF TransitionWrite, History, Reached, InFlight, ReasonIffReturned, Exists
<1>3. CASE Exists
  <2>1. /\ stamps' = stamps \cup Stamp(req[q].action)
        /\ reason' = (req[q].action = "manager_reject")
    BY <1>3 DEF TransitionWrite, Reason
  <2>2. /\ req[q].action = "submit_for_approval" => status' = "proposed"
        /\ req[q].action = "manager_approve" => status' = "approved"
        /\ req[q].action = "manager_reject" => status' = "draft"
        /\ req[q].action \in {"teacher_publish", "manager_publish"} => status' = "published"
    BY <1>3 DEF TransitionWrite, Transitions
  <2>3. /\ Stamp("submit_for_approval") = {"submitted_at"}
        /\ Stamp("manager_approve") = {"manager_approved_at"}
        /\ Stamp("teacher_publish") = {"published_at"}
        /\ Stamp("manager_publish") = {"published_at"}
    BY DEF Stamp
  <2>4. stamps \subseteq stamps'
    BY <2>1
  <2>5. Reached' /\ ReasonIffReturned'
    BY <1>0, <2>1, <2>2, <2>3, <2>4
    DEF TransitionWrite, History, Reached, InFlight, ReasonIffReturned, Exists, Actions
  <2>6. InFlight'
    BY <1>0, <1>1, <2>2, <2>4 DEF History, InFlight, Actions
  <2> QED
    BY <2>5, <2>6 DEF History
<1> QED
  BY <1>2, <1>3

\* A request only gets to write from a status its action is legal in.
LEMMA ReadLegal ==
  ASSUME Typed, NEW q \in Requests, TransitionRead(q), req'[q].pc = "write"
  PROVE  /\ req'[q].action = req[q].action
         /\ \E t \in Transitions : t[1] = status /\ t[2] = req[q].action
<1> DEFINE legal == \E t \in Transitions : t[1] = status /\ t[2] = req[q].action
           C == IF Publishes(req[q].action) THEN mapped ELSE {}
           ok == /\ Authorized(req[q].actor, req[q].action)
                 /\ Precondition(req[q].actor, req[q].action)
<1> HIDE DEF C, ok
<1>1. req \in [Requests -> Request] /\ req[q] \in Request
  BY DEF Typed, TypeOK
<1>2. IF legal /\ ok THEN req' = [req EXCEPT ![q].pc = "write", ![q].classes = C] ELSE Finish(q)
  BY Zenon DEF TransitionRead, C, ok
<1>3. ~Finish(q)
  BY <1>1 DEF Finish, Idle
<1>4. legal /\ req' = [req EXCEPT ![q].pc = "write", ![q].classes = C]
  BY <1>2, <1>3
<1> QED
  BY <1>1, <1>4 DEF Request

LEMMA ReadHistory ==
  ASSUME Typed, History, NEW q \in Requests, TransitionRead(q)
  PROVE  History'
<1> USE DEF Typed, TypeOK
<1>1. UNCHANGED <<status, stamps, reason>> /\ \A p \in Requests \ {q} : req'[p] = req[p]
  BY DEF TransitionRead, Finish
<1>2. req'[q].pc = "write" =>
        /\ req'[q].action = req[q].action
        /\ \E t \in Transitions : t[1] = status /\ t[2] = req[q].action
  BY ReadLegal
<1>3. InFlight'
  <2>1. req'[q].pc = "write" =>
          /\ status # "none"
          /\ req[q].action \in {"manager_approve", "manager_reject"} => status = "proposed"
          /\ req[q].action \in {"teacher_publish", "manager_publish"} => status = "approved"
    BY <1>2 DEF Transitions
  <2> QED
    BY <1>1, <1>2, <2>1 DEF History, InFlight, Reached
<1> QED
  BY <1>1, <1>3 DEF History, Reached, ReasonIffReturned, Exists

LEMMA OtherHistory ==
  ASSUME Typed, History, NEW q \in Requests,
         NotifyCreated(q) \/ Announce(q) \/ SelectAudienceWrite(q)
  PROVE  History'
<1> USE DEF Typed, TypeOK
<1>0. req[q] \in Request
  OBVIOUS
<1>1. UNCHANGED <<status, stamps, reason>> /\ \A p \in Requests \ {q} : req'[p] = req[p]
  BY DEF NotifyCreated, Announce, SelectAudienceWrite, Finish
<1>2. req'[q].pc = "write" => req[q].pc = "write" /\ req'[q].action = req[q].action
  BY <1>0 DEF NotifyCreated, Announce, SelectAudienceWrite, Finish, Idle, Request
<1> QED
  BY <1>1, <1>2 DEF History, Reached, InFlight, ReasonIffReturned, Exists

LEMMA NextHistory == Typed /\ History /\ [Next]_vars => History'
<1> SUFFICES ASSUME Typed, History, [Next]_vars PROVE History'
  OBVIOUS
<1>1. CASE UNCHANGED vars
  BY <1>1 DEF History, Reached, InFlight, ReasonIffReturned, Exists, vars
<1>2. CASE DeleteEvent
  BY <1>2 DEF DeleteEvent, History, Reached, InFlight, ReasonIffReturned, Exists
<1> QED
  BY <1>1, <1>2, ArrivalHistory, WriteHistory, ReadHistory, OtherHistory DEF Next, Handler

\* However stale the request that publishes it: a published event was submitted,
\* approved and stamped, and rejection_reason agrees with the status.
THEOREM Reviewed == Spec => [](PublishedWasReviewed /\ ReasonIffReturned)
<1>1. Typed /\ History => PublishedWasReviewed /\ ReasonIffReturned
  BY DEF Typed, TypeOK, History, Reached, PublishedWasReviewed, Stamps
<1> QED
  BY <1>1, InitTyped, InitHistory, NextTyped, NextHistory, PTL DEF Spec

-------------------------------------------------------------------------------
(* One request at a time.                                                     *)

\* What a transition read is still true when it writes, unless the event is gone.
Fresh ==
  \A q \in Requests : req[q].pc = "write" /\ Exists =>
    \E t \in Transitions : t[1] = status /\ t[2] = req[q].action

\* No request starts out about to write a status.
LEMMA ArrivalReads ==
  ASSUME Typed, NEW q \in Requests, NEW a \in Actors, Arrival(q, a)
  PROVE  req'[q].pc # "write" /\ \A p \in Requests \ {q} : req'[p] = req[p]
<1>1. req = [p \in Requests |-> req[p]]
  BY DEF Typed, TypeOK
<1>2. ASSUME NEW C \in SUBSET Classes, CreateEvent(q, a, C) \/ SelectAudienceRead(q, a, C)
      PROVE  req'[q].pc # "write" /\ \A p \in Requests \ {q} : req'[p] = req[p]
  BY <1>1, <1>2 DEF CreateEvent, SelectAudienceRead, Idle
<1>3. ASSUME NEW action, Begin(q, a, action)
      PROVE  req'[q].pc # "write" /\ \A p \in Requests \ {q} : req'[p] = req[p]
  BY <1>1, <1>3 DEF Begin, Idle
<1> QED
  BY <1>2, <1>3 DEF Arrival, SubmitEvent, ManagerDecision, PublishEvent

\* A handler moves its own request only, and one that is about to write stays so
\* with its action.
LEMMA HandlerMoves ==
  ASSUME Typed, NEW q \in Requests, Handler(q)
  PROVE  /\ \A p \in Requests \ {q} : req'[p] = req[p]
         /\ req'[q].pc = "write" => TransitionRead(q) \/ req[q].pc = "write"
         /\ req'[q].pc = "write" => req'[q].action = req[q].action
<1> USE DEF Typed, TypeOK
<1>0. req[q] \in Request
  OBVIOUS
<1>1. CASE TransitionRead(q)
  BY <1>1, ReadLegal DEF TransitionRead, Finish
<1>2. CASE TransitionWrite(q)
  BY <1>2 DEF TransitionWrite, Finish, Idle
<1>3. CASE NotifyCreated(q) \/ Announce(q) \/ SelectAudienceWrite(q)
  BY <1>0, <1>3 DEF NotifyCreated, Announce, SelectAudienceWrite, Finish, Idle, Request
<1> QED BY <1>1, <1>2, <1>3 DEF Handler

LEMMA WriteByRead ==
  ASSUME Typed, Next, NEW p \in Requests, req'[p].pc = "write", req[p].pc # "write"
  PROVE  TransitionRead(p)
BY HandlerMoves, ArrivalReads DEF Next, DeleteEvent

LEMMA WriteKeeps ==
  ASSUME Typed, Next, NEW p \in Requests, req'[p].pc = "write", req[p].pc = "write"
  PROVE  req'[p].action = req[p].action
BY HandlerMoves, ArrivalReads DEF Next, DeleteEvent

\* A transition whose status nobody has changed since may still write.
FreshUnlessStale ==
  \A q \in Requests : req[q].pc = "write" /\ q \notin stale =>
    \E t \in Transitions : t[1] = status /\ t[2] = req[q].action

\* One step of the promise.
FollowsOrStale == Lifecycle!Next \/ UNCHANGED status \/ \E q \in stale : TransitionWrite(q)

LEMMA LifecycleStep ==
  ASSUME Typed, FreshUnlessStale, [Next]_vars
  PROVE  FreshUnlessStale' /\ FollowsOrStale
<1> USE DEF Typed, TypeOK
<1>1. CASE UNCHANGED vars
  BY <1>1 DEF FreshUnlessStale, FollowsOrStale, vars
<1>2. CASE Next
  <2>1. ASSUME NEW p \in Requests, req'[p].pc = "write", p \notin stale'
        PROVE  \E t \in Transitions : t[1] = status' /\ t[2] = req'[p].action
    <3>1. CASE req[p].pc # "write"
      <4>1. TransitionRead(p)
        BY <1>2, <2>1, <3>1, WriteByRead
      <4> QED BY <2>1, <4>1, ReadLegal DEF TransitionRead
    <3>2. CASE req[p].pc = "write"
      <4>1. p \notin stale /\ status' = status
        BY <1>2, <2>1, <3>2 DEF Next
      <4>2. req'[p].action = req[p].action
        BY <1>2, <2>1, <3>2, WriteKeeps
      <4> QED BY <3>2, <4>1, <4>2 DEF FreshUnlessStale
    <3> QED BY <3>1, <3>2
  <2>2. ASSUME NEW q \in Requests \ stale, TransitionWrite(q), Exists
        PROVE  Lifecycle!Next
    <3>1. PICK t \in Transitions : t[1] = status /\ t[2] = req[q].action
      BY <2>2 DEF TransitionWrite, FreshUnlessStale
    <3>2. PICK u \in Transitions : u[2] = req[q].action /\ status' = u[3]
      BY <2>2 DEF TransitionWrite
    <3> QED
      BY <3>1, <3>2 DEF Transitions, Lifecycle!Next, Lifecycle!Submit, Lifecycle!Approve,
         Lifecycle!Reject, Lifecycle!Publish, Lifecycle!Step
  <2>3. FollowsOrStale
    <3>1. CASE \E q \in Requests : TransitionWrite(q)
      BY <2>2, <3>1 DEF FollowsOrStale, TransitionWrite
    <3>2. CASE DeleteEvent
      BY <3>2 DEF DeleteEvent, Exists, FollowsOrStale, Lifecycle!Next, Lifecycle!Delete
    <3>3. ASSUME NEW q \in Requests, NEW a \in Actors, Arrival(q, a)
          PROVE  FollowsOrStale
      BY <3>3 DEF Arrival, CreateEvent, SelectAudienceRead, SubmitEvent, ManagerDecision, PublishEvent,
         FollowsOrStale, Lifecycle!Next, Lifecycle!Create, Lifecycle!Step
    <3>4. ASSUME NEW q \in Requests,
                 NotifyCreated(q) \/ TransitionRead(q) \/ Announce(q) \/ SelectAudienceWrite(q)
          PROVE  FollowsOrStale
      BY <3>4 DEF NotifyCreated, TransitionRead, Announce, SelectAudienceWrite, FollowsOrStale
    <3> QED BY <1>2, <3>1, <3>2, <3>3, <3>4 DEF Next, Handler
  <2> QED BY <2>1, <2>3 DEF FreshUnlessStale
<1> QED BY <1>1, <1>2

\* Only a stale write leaves the promised lifecycle, for any number of requests.
THEOREM StaleWritesOnly == Spec => LeavesLifecycleOnlyStale
<1>1. Init => FreshUnlessStale
  BY DEF Init, FreshUnlessStale, Idle
<1>2. FollowsOrStale => [Lifecycle!Next \/ \E q \in stale : TransitionWrite(q)]_status
  BY DEF FollowsOrStale
<1> QED
  BY <1>1, <1>2, InitTyped, NextTyped, LifecycleStep, PTL DEF Spec, LeavesLifecycleOnlyStale

LEMMA SerialStep ==
  ASSUME \A p, q \in Requests : p = q, Typed, Fresh, [Next]_vars
  PROVE  Fresh' /\ [Lifecycle!Next]_status
<1> USE DEF Typed, TypeOK
<1> USE DEF Lifecycle!Next, Lifecycle!Create, Lifecycle!Submit, Lifecycle!Approve, Lifecycle!Reject,
            Lifecycle!Publish, Lifecycle!Delete, Lifecycle!Step
<1>1. CASE UNCHANGED vars
  BY <1>1 DEF Fresh, Exists, vars
<1>2. CASE DeleteEvent
  BY <1>2 DEF DeleteEvent, Fresh, Exists
<1>3. ASSUME NEW q \in Requests, NEW a \in Actors, Arrival(q, a)
      PROVE  Fresh' /\ [Lifecycle!Next]_status
  <2>1. req'[q].pc # "write"
    BY <1>3, ArrivalReads
  <2>2. status' = status \/ (status = "none" /\ status' = "draft")
    BY <1>3 DEF Arrival, CreateEvent, SelectAudienceRead, SubmitEvent, ManagerDecision, PublishEvent
  <2> QED
    BY <2>1, <2>2 DEF Fresh
<1>4. ASSUME NEW q \in Requests, TransitionWrite(q)
      PROVE  Fresh' /\ [Lifecycle!Next]_status
  <2>1. req'[q].pc # "write"
    BY <1>4 DEF TransitionWrite, Finish, Idle
  <2>2. CASE Exists
    <3>1. PICK t \in Transitions : t[1] = status /\ t[2] = req[q].action
      BY <1>4, <2>2 DEF TransitionWrite, Fresh
    <3>2. PICK u \in Transitions : u[2] = req[q].action /\ status' = u[3]
      BY <1>4, <2>2 DEF TransitionWrite
    <3> QED
      BY <2>1, <3>1, <3>2 DEF Transitions, Fresh
  <2>3. CASE ~Exists
    BY <1>4, <2>1, <2>3 DEF TransitionWrite, Fresh
  <2> QED
    BY <2>2, <2>3
<1>5. ASSUME NEW q \in Requests, TransitionRead(q)
      PROVE  Fresh' /\ [Lifecycle!Next]_status
  <2>1. status' = status
    BY <1>5 DEF TransitionRead
  <2>2. req'[q].pc = "write" =>
          \E t \in Transitions : t[1] = status /\ t[2] = req'[q].action
    BY <1>5, ReadLegal
  <2> QED
    BY <2>1, <2>2 DEF Fresh
<1>6. ASSUME NEW q \in Requests, NotifyCreated(q) \/ Announce(q) \/ SelectAudienceWrite(q)
      PROVE  Fresh' /\ [Lifecycle!Next]_status
  <2>0. req[q] \in Request
    OBVIOUS
  <2>1. status' = status
    BY <1>6 DEF NotifyCreated, Announce, SelectAudienceWrite
  <2>2. req'[q].pc = "write" => req[q].pc = "write" /\ req'[q].action = req[q].action
    BY <1>6, <2>0 DEF NotifyCreated, Announce, SelectAudienceWrite, Finish, Idle, Request
  <2> QED
    BY <2>1, <2>2 DEF Fresh, Exists
<1> QED
  BY <1>1, <1>2, <1>3, <1>4, <1>5, <1>6 DEF Next, Handler

\* Served one request at a time, the code implements the promised lifecycle: the
\* transition table is right, and only interleaved requests can leave it.
THEOREM SerialImplementsLifecycle ==
  ASSUME \A p, q \in Requests : p = q
  PROVE  Spec => LifecycleSpec
<1>1. Init => Fresh /\ Lifecycle!Init
  BY DEF Init, Fresh, Idle, Lifecycle!Init
<1>2. Typed /\ Fresh /\ [Next]_vars => Fresh' /\ [Lifecycle!Next]_status
  BY SerialStep
<1> QED
  BY <1>1, <1>2, InitTyped, NextTyped, PTL DEF Spec, LifecycleSpec, Lifecycle!Spec
-------------------------------------------------------------------------------
(* The fan-out: a publish in flight has announced, or still holds, every class *)
(* that was mapped when it read the audience.                                  *)

Covered ==
  /\ AudienceAnnounced
  /\ \A q \in Publishing : mapped \subseteq announced \cup req[q].classes \cup late

LEMMA InitCovered == Init => Covered
  BY DEF Init, Covered, AudienceAnnounced, Publishing, Idle

\* A new request publishes nothing yet, and no publish runs before creation.
LEMMA ArrivalCovered ==
  ASSUME Typed, History, Covered, NEW q \in Requests, NEW a \in Actors, Arrival(q, a)
  PROVE  Covered'
<1> USE DEF Typed, TypeOK
<1>1. req'[q].pc # "write"
  BY ArrivalReads
<1>2. \A p \in Requests \ {q} : req'[p] = req[p]
  BY DEF Arrival, CreateEvent, SelectAudienceRead, SubmitEvent, ManagerDecision, PublishEvent, Begin
<1>3. UNCHANGED <<announced, late>>
  BY DEF Arrival, CreateEvent, SelectAudienceRead, SubmitEvent, ManagerDecision, PublishEvent
<1>4. CASE UNCHANGED <<status, mapped>>
  BY <1>1, <1>2, <1>3, <1>4 DEF Covered, AudienceAnnounced, Publishing
<1>5. CASE ~UNCHANGED <<status, mapped>>
  <2>1. status = "none" /\ status' = "draft"
    BY <1>5 DEF Arrival, CreateEvent, SelectAudienceRead, SubmitEvent, ManagerDecision, PublishEvent
  <2> QED
    BY <1>1, <1>2, <2>1 DEF Covered, AudienceAnnounced, Publishing, History, InFlight
<1> QED
  BY <1>4, <1>5

LEMMA ReadCovered ==
  ASSUME Typed, Covered, NEW q \in Requests, TransitionRead(q)
  PROVE  Covered'
<1> USE DEF Typed, TypeOK
<1>1. UNCHANGED <<status, mapped, announced, late>> /\ \A p \in Requests \ {q} : req'[p] = req[p]
  BY DEF TransitionRead, Finish
<1>2. req'[q].pc = "write" /\ Publishes(req'[q].action) => req'[q].classes = mapped
  <2>1. req \in [Requests -> Request] /\ req[q] \in Request
    OBVIOUS
  <2>2. \/ req' = [req EXCEPT ![q].pc = "write",
                              ![q].classes = IF Publishes(req[q].action) THEN mapped ELSE {}]
        \/ Finish(q)
    BY DEF TransitionRead
  <2>3. CASE Finish(q)
    BY <2>1, <2>3 DEF Finish, Idle
  <2>4. CASE ~Finish(q)
    BY <2>1, <2>2, <2>4 DEF Request
  <2> QED
    BY <2>3, <2>4
<1> QED
  BY <1>1, <1>2 DEF Covered, AudienceAnnounced, Publishing

LEMMA AnnounceCovered ==
  ASSUME Typed, Covered, NEW q \in Requests, Announce(q)
  PROVE  Covered'
<1> USE DEF Typed, TypeOK
<1>0. req[q] \in Request
  OBVIOUS
<1>1. UNCHANGED <<status, mapped, late>> /\ announced \subseteq announced'
      /\ \A p \in Requests \ {q} : req'[p] = req[p]
  BY DEF Announce, Finish
<1>2. CASE Exists
  <2>1. PICK c \in req[q].classes :
          /\ announced' = announced \cup {c}
          /\ req' = [req EXCEPT ![q].classes = @ \ {c}]
    BY <1>2 DEF Announce
  <2>2. /\ req'[q].pc = req[q].pc /\ req'[q].action = req[q].action
        /\ req'[q].classes = req[q].classes \ {c}
    BY <1>0, <2>1 DEF Request
  <2> QED
    BY <1>1, <2>1, <2>2 DEF Covered, AudienceAnnounced, Publishing
<1>3. CASE ~Exists
  <2>1. req'[q].pc # "write"
    BY <1>3 DEF Announce, Finish, Idle
  <2> QED
    BY <1>1, <2>1 DEF Covered, AudienceAnnounced, Publishing
<1> QED
  BY <1>2, <1>3

\* The status turns published only when the fan-out has nothing left to send.
LEMMA WriteCovered ==
  ASSUME Typed, Covered, NEW q \in Requests, TransitionWrite(q)
  PROVE  Covered'
<1> USE DEF Typed, TypeOK
<1>1. UNCHANGED <<mapped, announced, late>> /\ req'[q].pc # "write"
      /\ \A p \in Requests \ {q} : req'[p] = req[p]
  BY DEF TransitionWrite, Finish, Idle
<1>2. CASE status' = "published" /\ status # "published"
  <2>1. Publishes(req[q].action)
    BY <1>2 DEF TransitionWrite, Transitions, Publishes
  <2>2. mapped \subseteq announced \cup late
    BY <2>1 DEF TransitionWrite, Covered, Publishing
  <2> QED
    BY <1>1, <2>2 DEF Covered, AudienceAnnounced, Publishing
<1>3. CASE ~(status' = "published" /\ status # "published")
  BY <1>1, <1>3 DEF Covered, AudienceAnnounced, Publishing
<1> QED
  BY <1>2, <1>3

LEMMA EditCovered ==
  ASSUME Typed, Covered, NEW q \in Requests, SelectAudienceWrite(q)
  PROVE  Covered'
<1> USE DEF Typed, TypeOK
<1>1. UNCHANGED <<status, announced>> /\ req'[q].pc # "write"
      /\ \A p \in Requests \ {q} : req'[p] = req[p]
  BY DEF SelectAudienceWrite, Finish, Idle
<1>2. late \subseteq late' /\ (status = "published" \/ Publishing # {} => mapped' \ mapped \subseteq late')
  BY DEF SelectAudienceWrite
<1>3. Publishing' \subseteq Publishing
  BY <1>1 DEF Publishing
<1> QED
  BY <1>1, <1>2, <1>3 DEF Covered, AudienceAnnounced, Publishing

LEMMA NextCovered == Typed /\ History /\ Covered /\ [Next]_vars => Covered'
<1> SUFFICES ASSUME Typed, History, Covered, [Next]_vars PROVE Covered'
  OBVIOUS
<1>1. CASE UNCHANGED vars
  BY <1>1 DEF Covered, AudienceAnnounced, Publishing, vars
<1>2. CASE DeleteEvent
  BY <1>2 DEF DeleteEvent, Covered, AudienceAnnounced, Publishing
<1>3. ASSUME NEW q \in Requests, NotifyCreated(q)
      PROVE  Covered'
  <2>1. UNCHANGED <<status, mapped, announced, late>> /\ req'[q].pc # "write"
        /\ \A p \in Requests \ {q} : req'[p] = req[p]
    BY <1>3 DEF NotifyCreated, Finish, Idle, Typed, TypeOK, Request
  <2> QED
    BY <2>1 DEF Covered, AudienceAnnounced, Publishing
<1> QED
  BY <1>1, <1>2, <1>3, ArrivalCovered, ReadCovered, AnnounceCovered, WriteCovered, EditCovered
  DEF Next, Handler

\* Nobody of a published event's audience is forgotten by the fan-out but the
\* classes that were added while a publish ran, or afterwards.
THEOREM Announced == Spec => []AudienceAnnounced
<1>1. Covered => AudienceAnnounced
  BY DEF Covered
<1> QED
  BY <1>1, InitTyped, InitHistory, InitCovered, NextTyped, NextHistory, NextCovered, PTL DEF Spec
===============================================================================
