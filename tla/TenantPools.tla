----------------------------- MODULE TenantPools ------------------------------
(***************************************************************************)
(* DatabaseManager: the lazily opened connection pools, one per tenant     *)
(* schema and one for the control plane.  A request task asks for a pool;  *)
(* the first one opens it and creates the tables, under an asyncio.Lock    *)
(* per tenant, inside which it may need the control-plane lock.            *)
(*                                                                         *)
(* asyncio runs one task at a time and switches at an await: a step is     *)
(* what runs between two awaits.  asyncio.Lock is FIFO, so a lock is the   *)
(* queue of the tasks that want it, its head being the holder.             *)
(***************************************************************************)
EXTENDS Integers, Sequences

CONSTANTS
  Tenants,
  CP,           \* the control plane
  Static,       \* tenants of TENANT_DB_CONFIG, used without registration
  Tasks,
  MaxFailures,  \* bound: database errors in a behaviour
  MaxRestarts   \* bound: restarts of the process

Keys == Tenants \cup {CP}

ASSUME ConstantsAssumption ==
  /\ CP \notin Tenants
  /\ Static \subseteq Tenants
  /\ MaxFailures \in Nat /\ MaxRestarts \in Nat

VARIABLES
  dbs,       \* keys with a Database object
  pool,      \* keys whose Database.pool is not None
  queue,     \* queue[k]: the asyncio.Lock of k
  rows,      \* tenants registered in the control plane (persistent)
  ready,     \* keys whose tables have been created completely (persistent)
  pc, want, at,  \* per task: where it is, the pool it wants, the one it works on
  failures, restarts,
  broken     \* history: keys whose table creation failed in this process

vars == <<dbs, pool, queue, rows, ready, pc, want, at, failures, restarts, broken>>

\* Domains of the manager's fields and of the tasks.
TypeOK ==
  /\ dbs \subseteq Keys /\ pool \subseteq dbs
  /\ queue \in [Keys -> Seq(Tasks)]
  /\ rows \subseteq Tenants /\ ready \subseteq Keys /\ broken \subseteq Keys
  /\ pc \in [Tasks -> {"idle", "lock", "discover", "register", "connect", "init",
                       "returned", "raised"}]
  /\ want \in [Tasks -> Keys] /\ at \in [Tasks -> Keys]
  /\ failures \in 0..MaxFailures /\ restarts \in 0..MaxRestarts

Init ==
  /\ dbs = {} /\ pool = {}
  /\ queue = [k \in Keys |-> <<>>]
  /\ rows = {} /\ ready = {} /\ broken = {}
  /\ pc = [p \in Tasks |-> "idle"]
  /\ want = [p \in Tasks |-> CP] /\ at = [p \in Tasks |-> CP]
  /\ failures = 0 /\ restarts = 0

Goto(p, l) == pc' = [pc EXCEPT ![p] = l]

\* Take the pool of k if it is there (the fast path), else join its lock.
Await(p, k, found) ==
  IF k \in pool
  THEN Goto(p, found) /\ UNCHANGED <<queue, at>>
  ELSE /\ queue' = [queue EXCEPT ![k] = Append(@, p)]
       /\ at' = [at EXCEPT ![p] = k]
       /\ Goto(p, "lock")

\* get_pool(k), or get_control_plane_pool() for k = CP.
Call(p, k) ==
  /\ pc[p] \in {"idle", "returned", "raised"}
  /\ want' = [want EXCEPT ![p] = k]
  /\ Await(p, k, "returned")
  /\ UNCHANGED <<dbs, pool, rows, ready, failures, restarts, broken>>

Holds(p) == queue[at[p]] # <<>> /\ Head(queue[at[p]]) = p

\* Inside the lock: a tenant seen for the first time is looked up first.  The
\* control plane's database is ensured in the connect step.
Locked(p) ==
  /\ pc[p] = "lock"
  /\ Holds(p)
  /\ Goto(p, IF at[p] \in Tenants \ dbs THEN "discover" ELSE "connect")
  /\ dbs' = IF at[p] = CP THEN dbs \cup {CP} ELSE dbs
  /\ UNCHANGED <<pool, queue, rows, ready, want, at, failures, restarts, broken>>

Discover(p) ==
  /\ pc[p] = "discover"
  /\ Await(p, CP, "register")
  /\ UNCHANGED <<dbs, pool, rows, ready, want, failures, restarts, broken>>

\* Mutant: the Database object of the tenant is not kept.
RegisterForgets(p) ==
  /\ pc[p] = "register"
  /\ rows' = rows \cup ({want[p]} \ Static)
  /\ Goto(p, "connect")
  /\ UNCHANGED <<dbs, pool, queue, ready, want, at, failures, restarts, broken>>

\* The tenants row is read or inserted, database and schema are ensured.
Register(p) ==
  /\ pc[p] = "register"
  /\ rows' = rows \cup ({want[p]} \ Static)
  /\ dbs' = dbs \cup {want[p]}
  /\ Goto(p, "connect")
  /\ UNCHANGED <<pool, queue, ready, want, at, failures, restarts, broken>>

\* Leaving an "async with lock" block.
Release(k) == [queue EXCEPT ![k] = Tail(@)]

\* The pool of at[p] is handed to the caller: the request, or get_pool itself
\* when this was the control plane's.
Return(p) ==
  /\ queue' = Release(at[p])
  /\ at' = [at EXCEPT ![p] = want[p]]
  /\ Goto(p, IF at[p] = want[p] THEN "returned" ELSE "register")

\* Mutant: the pool is opened and its tables are left to somebody else.
ConnectWithoutInit(p) ==
  /\ pc[p] = "connect"
  /\ pool' = pool \cup {at[p]}
  /\ Return(p)
  /\ UNCHANGED <<dbs, rows, ready, want, failures, restarts, broken>>

\* Database.connect: self.pool is assigned before init_fn has run.
Connect(p) ==
  /\ pc[p] = "connect"
  /\ IF at[p] \in pool
     THEN Return(p) /\ pool' = pool
     ELSE /\ pool' = pool \cup {at[p]}
          /\ Goto(p, "init")
          /\ UNCHANGED <<queue, at>>
  /\ UNCHANGED <<dbs, rows, ready, want, failures, restarts, broken>>

InitTables(p) ==
  /\ pc[p] = "init"
  /\ ready' = ready \cup {at[p]}
  /\ Return(p)
  /\ UNCHANGED <<dbs, pool, rows, want, failures, restarts, broken>>

\* Mutant: only the innermost lock is released when an exception passes.
UnwoundInner(p) == Release(at[p])

\* An exception releases every lock the task holds, and only that.
Unwound(p) == [k \in Keys |-> IF k \in {at[p], want[p]} THEN Tail(queue[k]) ELSE queue[k]]

\* A statement fails: the exception reaches the request; self.pool stays set.
Raise(p) ==
  /\ pc[p] \in {"register", "connect", "init"}
  /\ at[p] \notin pool \/ pc[p] # "connect"
  /\ failures < MaxFailures
  /\ failures' = failures + 1
  /\ queue' = Unwound(p)
  /\ broken' = IF pc[p] = "init" THEN broken \cup {at[p]} ELSE broken
  /\ Goto(p, "raised")
  /\ UNCHANGED <<dbs, pool, rows, ready, want, at, restarts>>

\* The process restarts (or shuts down, disconnect_all): memory is lost, the
\* control plane's rows and the tables are kept.
Restart ==
  /\ restarts < MaxRestarts
  /\ restarts' = restarts + 1
  /\ dbs' = {} /\ pool' = {} /\ broken' = {}
  /\ queue' = [k \in Keys |-> <<>>]
  /\ pc' = [p \in Tasks |-> "idle"]
  /\ UNCHANGED <<rows, ready, want, at, failures>>

Step(p) == Locked(p) \/ Discover(p) \/ Register(p) \/ Connect(p) \/ InitTables(p)

Next ==
  \/ \E p \in Tasks : Step(p) \/ Raise(p) \/ \E k \in Keys : Call(p, k)
  \/ Restart

\* The event loop runs every runnable task, and a database call comes back: with
\* a result (Step) or with an exception (Raise).
Fairness == \A p \in Tasks : WF_vars(Step(p) \/ Raise(p))

Spec == Init /\ [][Next]_vars /\ Fairness

-------------------------------------------------------------------------------
(* Properties *)

\* A pool whose tables are not there is only ever visible while the task that
\* opened it is still creating them, or after that task has failed.
UninitializedIsTransient ==
  \A k \in pool \ ready :
    k \in broken \/ \E p \in Tasks : at[p] = k /\ pc[p] = "init"

\* The task can make its next step: it is at work, or first in the queue it is in.
Runnable(p) ==
  \/ pc[p] \in {"discover", "register", "connect", "init"}
  \/ pc[p] = "lock" /\ Holds(p)

\* No circle of waiting tasks: whoever waits for a lock waits for a task that can
\* run, or for one that itself waits only for the control plane's lock, whose
\* holder can run.  After failures, too, no lock is left with a task that is gone.
NoCircularWait ==
  \A p \in Tasks : pc[p] = "lock" =>
    /\ queue[at[p]] # <<>>
    /\ LET h == Head(queue[at[p]]) IN
       \/ Runnable(h)
       \/ /\ pc[h] = "lock" /\ at[h] = CP
          /\ queue[CP] # <<>> /\ Runnable(Head(queue[CP]))

\* Nobody waits forever: the tenant lock is held while waiting for the control
\* plane's, and still every call returns or raises, after failures too.
EveryCallReturns ==
  \A p \in Tasks : pc[p] = "lock" ~> pc[p] \in {"returned", "raised", "idle"}
===============================================================================
