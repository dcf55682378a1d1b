---------------------------- MODULE ResourceCosting ---------------------------
(***************************************************************************)
(* The resource lines of one event, their prices, and the currency of the  *)
(* school: EventService, TenantService and SchoolService over the tables   *)
(* resources and resource_cost.  Each statement waits for a connection of  *)
(* the tenant's pool, runs on it and gives it back.  The exception is      *)
(* add_resources_to_event, which keeps one connection for its transaction  *)
(* and runs its statements on others.                                      *)
(***************************************************************************)
EXTENDS Integers, FiniteSets, Functions

CONSTANTS
  Requests, Quantities, Prices, Currencies, None,
  PoolSize,     \* TENANT_POOL_MAX
  ListLength,   \* lines in the list that replaces the others
  MaxRequests   \* bound: requests in a behaviour

\* Quantities and prices are whole numbers (of the smallest coin).
Constants ==
  /\ IsFiniteSet(Requests) /\ Quantities \subseteq Nat /\ Prices \subseteq Nat /\ Currencies # {}
  /\ PoolSize \in Nat \ {0} /\ ListLength \in Nat \ {0} /\ MaxRequests \in Nat

ASSUME ConstantsAssumption == Constants

VARIABLES
  status,    \* of the event; "none": deleted
  quantity,  \* quantity[l] of each row l of resources
  cost,      \* cost[l]: the resource_cost row of l: unit_price, total_cost
  tickets,   \* whether a class pays for the event
  currency,  \* school_profile.currency
  live,      \* whether school_profile.activated_at is set
  req,       \* the requests in flight
  running,   \* the requests whose statement has got a connection
  sent, next,  \* requests started, next id of resources
  overlapped,  \* history: lines two requests worked on at once
  torn,        \* history: lines an update failed on half way
  priced,      \* history: currency changes about to be written when the first money came in
  crossed      \* history: those about to be written when another changed the currency

tables == <<status, quantity, cost, tickets, currency, live>>
history == <<overlapped, torn, priced, crossed>>
vars == <<tables, req, running, sent, next, history>>

\* why: what let a request pass that writes the currency.
Idle == [op |-> "none", pc |-> "idle", line |-> 0, q |-> None, unit |-> None, to |-> None,
         why |-> None, holds |-> FALSE, todo |-> 0]

Lines == DOMAIN quantity
Busy(r) == req[r] # Idle
Without(f, ls) == [l \in DOMAIN f \ ls |-> f[l]]
Put(f, l, v) == [x \in DOMAIN f \cup {l} |-> IF x = l THEN v ELSE f[x]]

\* has_recorded_money.  Payments need a ticket price and are left out.
HasRecordedMoney == DOMAIN cost # {} \/ tickets

\* get_resource_summary: what the event costs.
ResourceSummary == SumFunction([l \in Lines |-> IF l \in DOMAIN cost THEN cost[l].total ELSE 0])

\* Mutant: TENANT_POOL_MAX is one too small.
FreeOneShort ==
  PoolSize - 1 - Cardinality({r \in Requests : req[r].holds}) - Cardinality(running)

\* Connections of the pool that nobody keeps and no statement runs on.
Free == PoolSize - Cardinality({r \in Requests : req[r].holds}) - Cardinality(running)

\* Domains of the tables; a cost row belongs to a line.
TypeOK ==
  /\ status \in {"draft", "proposed", "approved", "published", "none"}
  /\ Lines \subseteq 1 .. next - 1 /\ \A l \in Lines : quantity[l] \in Quantities
  /\ DOMAIN cost \subseteq Lines
  /\ \A l \in DOMAIN cost : cost[l].unit \in Prices /\ cost[l].total \in Nat
  /\ tickets \in BOOLEAN /\ currency \in Currencies /\ live \in BOOLEAN
  /\ sent \in 0 .. MaxRequests /\ next \in Nat
  /\ running \subseteq {r \in Requests : Busy(r)} /\ Free \in 0 .. PoolSize

Init ==
  /\ status = "draft" /\ tickets = FALSE /\ currency = CHOOSE c \in Currencies : TRUE
  /\ live \in BOOLEAN
  /\ \E q \in Quantities : quantity = [l \in {1} |-> q] /\ next = 2
  /\ cost \in {<<>>} \cup {[l \in {1} |-> [unit |-> u, total |-> u * quantity[1]]] : u \in Prices}
  /\ req = [r \in Requests |-> Idle] /\ running = {} /\ sent = 0
  /\ overlapped = {} /\ torn = {} /\ priced = {} /\ crossed = {}

-------------------------------------------------------------------------------
(* Requests. *)

\* Request r goes on as q.
Go(r, q) ==
  /\ req' = [req EXCEPT ![r] = q]
  /\ overlapped' = overlapped \cup
       {l \in Lines : q.line = l /\ \E o \in Requests \ {r} : req[o].line = l}

\* A request comes in; what it asks for matters with its first statement.
Arrive(r, op) ==
  /\ ~Busy(r) /\ sent < MaxRequests
  /\ sent' = sent + 1
  /\ Go(r, [Idle EXCEPT !.op = op, !.pc = "read"])
  /\ UNCHANGED <<tables, running, next, torn>>

\* Its next statement gets a connection.
Get(r) ==
  /\ Busy(r) /\ req[r].pc # "acquire" /\ r \notin running /\ Free > 0
  /\ running' = running \cup {r}
  /\ UNCHANGED <<tables, req, sent, next, overlapped, torn>>

\* The statement is done, its connection is free again, and r goes on as q.
Then(r, q) ==
  /\ r \in running /\ running' = running \ {r}
  /\ Go(r, q)
  /\ UNCHANGED <<sent, torn>>

To(r, pc) == Then(r, [req[r] EXCEPT !.pc = pc])
At(r, op, pc) == req[r].op = op /\ req[r].pc = pc
First(r, op, q) == At(r, op, "read") /\ Then(r, q)

\* A line or an event that is not there, or not the caller's to edit.
Refuse(r) ==
  /\ req[r].pc = "read"
  /\ Then(r, Idle)
  /\ UNCHANGED <<tables, next>>

\* Money came in, or the currency changed, while others were about to write one.
Notice ==
  LET writing == {r \in Requests : At(r, "currency", "write")'} IN
  /\ priced' = IF ~HasRecordedMoney /\ HasRecordedMoney' THEN writing ELSE priced \cap writing
  /\ crossed' = IF currency' # currency THEN writing ELSE crossed \cap writing

-------------------------------------------------------------------------------
(* EventService.update_resource_line; q = None: the quantity is not sent. *)

UpdateResourceLine(r, l, q) ==
  /\ status # "none"
  /\ First(r, "update", [req[r] EXCEPT !.pc = "write", !.line = l,
                                       !.q = IF q = None THEN quantity[l] ELSE q, !.to = q])
  /\ UNCHANGED <<tables, next>>

\* The merged line is written, the quantity that was only read too.
UpdateResource(r) ==
  /\ At(r, "update", "write")
  /\ quantity' = IF req[r].line \in Lines THEN [quantity EXCEPT ![req[r].line] = req[r].q] ELSE quantity
  /\ IF req[r].to = None THEN Then(r, Idle) ELSE To(r, "read cost")
  /\ UNCHANGED <<status, cost, tickets, currency, live, next>>

GetResourceCost(r) ==
  /\ At(r, "update", "read cost")
  /\ Then(r, IF req[r].line \in DOMAIN cost
             THEN [req[r] EXCEPT !.pc = "write cost", !.unit = cost[req[r].line].unit] ELSE Idle)
  /\ UNCHANGED <<tables, next>>

\* A mutant of the next definition.
WriteUnitOnly(r) ==
  /\ req[r].pc = "write cost"
  /\ LET l == req[r].line
         total == IF l \in DOMAIN cost THEN cost[l].total ELSE req[r].unit * req[r].q
     IN cost' = IF l \in Lines THEN Put(cost, l, [unit |-> req[r].unit, total |-> total]) ELSE cost
  /\ Then(r, Idle)
  /\ UNCHANGED <<status, quantity, tickets, currency, live, next>>

\* INSERT ... ON CONFLICT DO UPDATE, for this request and for set_resource_cost;
\* an error if the line is gone.
SetResourceCostRow(r) ==
  /\ req[r].pc = "write cost"
  /\ LET row == [unit |-> req[r].unit, total |-> req[r].unit * req[r].q]
     IN cost' = IF req[r].line \in Lines THEN Put(cost, req[r].line, row) ELSE cost
  /\ Then(r, Idle)
  /\ UNCHANGED <<status, quantity, tickets, currency, live, next>>

-------------------------------------------------------------------------------
(* TenantService.set_resource_cost. *)

SetResourceCost(r, l, unit) ==
  /\ First(r, "price", [req[r] EXCEPT !.pc = "check", !.line = l, !.unit = unit,
                                      !.q = quantity[l]])
  /\ UNCHANGED <<tables, next>>

PricingAllowed(r) ==
  /\ At(r, "price", "check")
  /\ IF status \in {"published", "none"} THEN Then(r, Idle) ELSE To(r, "write cost")
  /\ UNCHANGED <<tables, next>>

-------------------------------------------------------------------------------
(* Adding and deleting a line. *)

AddResourceLine(r) ==
  /\ status # "none"
  /\ First(r, "add", [req[r] EXCEPT !.pc = "insert"])
  /\ UNCHANGED <<tables, next>>

\* create_resource; an error if the event is gone.
CreateResource(r, q) ==
  /\ At(r, "add", "insert")
  /\ IF status = "none" THEN UNCHANGED <<quantity, next>>
     ELSE quantity' = Put(quantity, next, q) /\ next' = next + 1
  /\ Then(r, Idle)
  /\ UNCHANGED <<status, cost, tickets, currency, live>>

DeleteResourceLine(r, l) ==
  /\ status # "none"
  /\ First(r, "delete", [req[r] EXCEPT !.pc = "delete", !.line = l])
  /\ UNCHANGED <<tables, next>>

\* A mutant of the next definition.
DeleteResourceOnly(r) ==
  /\ At(r, "delete", "delete")
  /\ quantity' = Without(quantity, {req[r].line})
  /\ Then(r, Idle)
  /\ UNCHANGED <<status, cost, tickets, currency, live, next>>

\* ON DELETE CASCADE takes the cost row.
DeleteResource(r) ==
  /\ At(r, "delete", "delete")
  /\ quantity' = Without(quantity, {req[r].line})
  /\ cost' = Without(cost, {req[r].line})
  /\ Then(r, Idle)
  /\ UNCHANGED <<status, tickets, currency, live, next>>

-------------------------------------------------------------------------------
(* TenantService.add_resources_to_event: the lines of a new list replace    *)
(* the old ones.  The connection it holds is not the one it works with: no  *)
(* statement is undone when a later one fails.                              *)

AddResourcesToEvent(r) ==
  /\ status # "none"
  /\ First(r, "replace", [req[r] EXCEPT !.pc = "acquire", !.todo = ListLength])
  /\ UNCHANGED <<tables, next>>

Acquire(r) ==
  /\ At(r, "replace", "acquire") /\ Free > 0
  /\ Go(r, [req[r] EXCEPT !.pc = "check", !.holds = TRUE])
  /\ UNCHANGED <<tables, running, sent, next, torn>>

RecheckStatus(r) ==
  /\ At(r, "replace", "check")
  /\ IF status = "draft" THEN To(r, "clear") ELSE Then(r, Idle)
  /\ UNCHANGED <<tables, next>>

DeleteResourcesForEvent(r) ==
  /\ At(r, "replace", "clear")
  /\ quantity' = <<>> /\ cost' = <<>>
  /\ To(r, "insert")
  /\ UNCHANGED <<status, tickets, currency, live, next>>

InsertLine(r, q) ==
  /\ At(r, "replace", "insert")
  /\ IF status = "none" THEN UNCHANGED <<quantity, next>> /\ Then(r, Idle)
     ELSE /\ quantity' = Put(quantity, next, q) /\ next' = next + 1
          /\ Then(r, IF req[r].todo = 1 THEN Idle ELSE [req[r] EXCEPT !.todo = @ - 1])
  /\ UNCHANGED <<status, cost, tickets, currency, live>>

-------------------------------------------------------------------------------
(* SchoolService.update_profile with a currency: the same money check is    *)
(* made for a live school whose currency would change, and for no other.    *)

ReadProfile(r, c) ==
  LET why == IF ~live THEN "setup" ELSE IF c = currency THEN "same" ELSE "checked" IN
  /\ First(r, "currency", [req[r] EXCEPT !.to = c, !.why = why,
                                         !.pc = IF why = "checked" THEN "check" ELSE "write"])
  /\ UNCHANGED <<tables, next>>

\* A mutant of the next definition.
MoneyIgnored(r) ==
  /\ At(r, "currency", "check")
  /\ To(r, "write")
  /\ UNCHANGED <<tables, next>>

MoneyChecked(r) ==
  /\ At(r, "currency", "check")
  /\ IF HasRecordedMoney THEN Then(r, Idle) ELSE To(r, "write")
  /\ UNCHANGED <<tables, next>>

UpdateCurrency(r) ==
  /\ At(r, "currency", "write")
  /\ currency' = req[r].to
  /\ Then(r, Idle)
  /\ UNCHANGED <<status, quantity, cost, tickets, live, next>>

-------------------------------------------------------------------------------
(* The rest of the system. *)

\* update_ticket_prices.
UpdateTicketPrices(r, paid) ==
  /\ Free > 0 /\ ~Busy(r) /\ sent < MaxRequests /\ status # "none"
  /\ tickets' = paid /\ sent' = sent + 1
  /\ UNCHANGED <<status, quantity, cost, currency, live, req, running, next, overlapped, torn>>

\* The event is submitted, approved, published or deleted.
EventMoves ==
  /\ \/ status = "draft" /\ status' = "proposed" /\ UNCHANGED <<quantity, cost, tickets>>
     \/ status = "proposed" /\ status' \in {"draft", "approved"} /\ UNCHANGED <<quantity, cost, tickets>>
     \/ status = "approved" /\ status' = "published" /\ UNCHANGED <<quantity, cost, tickets>>
     \/ status # "none" /\ status' = "none" /\ quantity' = <<>> /\ cost' = <<>> /\ tickets' = FALSE
  /\ UNCHANGED <<currency, live, req, running, sent, next, overlapped, torn>>

\* SchoolRepository.activate; a school that is live stays it.
Activate ==
  /\ ~live /\ live' = TRUE
  /\ UNCHANGED <<status, quantity, cost, tickets, currency, req, running, sent, next, overlapped, torn>>

\* A statement of r fails, or its client or the process goes: r ends there.
Fail(r) ==
  /\ Busy(r)
  /\ torn' = IF At(r, "update", "read cost") \/ At(r, "update", "write cost")
             THEN torn \cup {req[r].line} ELSE torn
  /\ req' = [req EXCEPT ![r] = Idle] /\ running' = running \ {r}
  /\ UNCHANGED <<tables, sent, next, overlapped>>

\* The first statement of a request.
Start(r) ==
  \/ \E l \in Lines :
       \/ \E q \in Quantities \cup {None} : UpdateResourceLine(r, l, q)
       \/ \E u \in Prices : SetResourceCost(r, l, u)
       \/ DeleteResourceLine(r, l)
  \/ AddResourceLine(r)
  \/ AddResourcesToEvent(r)
  \/ \E c \in Currencies : ReadProfile(r, c)
  \/ Refuse(r)

\* What r does once it is under way.
Continue(r) ==
  \/ Get(r) \/ Start(r)
  \/ UpdateResource(r) \/ GetResourceCost(r) \/ SetResourceCostRow(r) \/ PricingAllowed(r)
  \/ \E q \in Quantities : CreateResource(r, q) \/ InsertLine(r, q)
  \/ DeleteResource(r)
  \/ Acquire(r) \/ RecheckStatus(r) \/ DeleteResourcesForEvent(r)
  \/ MoneyChecked(r) \/ UpdateCurrency(r)

Operations == {"update", "price", "add", "delete", "replace", "currency"}

Next ==
  /\ \/ \E r \in Requests, op \in Operations : Arrive(r, op)
     \/ \E r \in Requests : Continue(r) \/ Fail(r)
     \/ \E r \in Requests, b \in BOOLEAN : UpdateTicketPrices(r, b)
     \/ EventMoves \/ Activate
  /\ Notice

Spec == Init /\ [][Next]_vars /\ \A r \in Requests : WF_vars(Continue(r) /\ Notice)

-------------------------------------------------------------------------------
(* Properties. *)

\* The total of a line is its price times its quantity, and the summary their
\* sum, once no request works on the lines: unless two requests worked on a line
\* at once, or an update stopped between the quantity and the cost.
TotalsAgree ==
  (\A r \in Requests : ~Busy(r)) /\ Lines \cap (overlapped \cup torn) = {} =>
    ResourceSummary =
      SumFunction([l \in Lines |-> IF l \in DOMAIN cost THEN cost[l].unit * quantity[l] ELSE 0])

\* The currency of a school changes under recorded money only by a request that
\* checked before the money came in, that found the school not yet live, or that
\* resends the currency it has read and another request has changed since.
CurrencyOfMoneyIsFixed ==
  [][currency' # currency /\ HasRecordedMoney =>
       \E r \in Requests :
         /\ At(r, "currency", "write")
         /\ \/ req[r].why = "checked" /\ r \in priced
            \/ req[r].why = "setup"
            \/ req[r].why = "same" /\ r \in crossed]_vars

\* Every request ends: nobody waits for a connection forever.
RequestsEnd == \A r \in Requests : Busy(r) ~> ~Busy(r)
===============================================================================
