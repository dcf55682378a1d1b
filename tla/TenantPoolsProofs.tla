-------------------------- MODULE TenantPoolsProofs ---------------------------
(***************************************************************************)
(* Proofs about the connection pools, for every set of tenants and any     *)
(* number of request tasks.                                                *)
(*                                                                         *)
(* What a task may rely on is its place in the queues: a task at work is   *)
(* first in the queue of the key it works on and, below the control        *)
(* plane's lock, still first in the queue of its tenant.                   *)
(*                                                                         *)
(* The second half is about the requests that take connections from one    *)
(* tenant's pool: the resource lines of an event.  What it may rely on is  *)
(* that a request is alone on its line, or the line is marked.             *)
(***************************************************************************)
EXTENDS TenantPools, SequenceTheorems, FiniteSetTheorems, TLAPS

\* The parameters and the state of ResourceCosting.
CONSTANTS
  Requests, Quantities, Prices, Currencies, None, PoolSize, ListLength, MaxRequests

VARIABLES
  status, quantity, cost, tickets, currency, live, req, running, sent, next,
  overlapped, torn, priced, crossed

Costing == INSTANCE ResourceCosting

Work == {"discover", "register", "connect", "init"}
Heads(p, k) == queue[k] # <<>> /\ Head(queue[k]) = p

\* The locks a task holds.  Two keys are involved only when a tenant's task
\* needs the control plane.
Owner(p) ==
  /\ pc[p] \in {"discover", "register"} =>
       at[p] = want[p] /\ at[p] \in Tenants /\ Heads(p, at[p])
  /\ pc[p] \in {"connect", "init"} => at[p] \in dbs /\ Heads(p, at[p])
  /\ pc[p] \in {"lock", "connect", "init"} /\ at[p] # want[p] =>
       at[p] = CP /\ want[p] \in Tenants /\ Heads(p, want[p])

Owners == \A p \in Tasks : Owner(p)

\* The task q has a reason to be in the queue of k at place i.
Belongs(q, k, i) ==
  \/ pc[q] = "lock" /\ at[q] = k
  \/ i = 1 /\ pc[q] \in Work /\ at[q] = k
  \/ i = 1 /\ pc[q] \in {"lock", "connect", "init"} /\ want[q] = k /\ at[q] # k

\* Nobody is in a queue without a reason, or twice.
Queued ==
  \A k \in Keys : \A i \in 1 .. Len(queue[k]) :
    /\ Belongs(queue[k][i], k, i)
    /\ \A j \in 1 .. Len(queue[k]) : queue[k][i] = queue[k][j] => i = j

\* Whoever waits is in the queue.
Waiting ==
  \A p \in Tasks : pc[p] = "lock" =>
    \E i \in 1 .. Len(queue[at[p]]) : queue[at[p]][i] = p

IInv == TypeOK /\ Owners /\ Queued /\ Waiting /\ UninitializedIsTransient

-------------------------------------------------------------------------------
(* Sequences as queues.                                                     *)

\* The head of a queue is its first element.
LEMMA HeadIsFirst ==
  ASSUME NEW q \in Seq(Tasks), q # <<>>
  PROVE  /\ Head(q) = q[1] /\ Head(q) \in Tasks
         /\ Len(q) \in Nat /\ Len(q) >= 1
  BY EmptySeq, LenProperties, HeadTailProperties

\* What joining a queue does.
LEMMA Joined ==
  ASSUME NEW q \in Seq(Tasks), NEW p \in Tasks
  PROVE  /\ Append(q, p) \in Seq(Tasks) /\ Append(q, p) # <<>>
         /\ Len(q) \in Nat /\ Len(Append(q, p)) = Len(q) + 1
         /\ \A i \in 1 .. Len(q) : Append(q, p)[i] = q[i]
         /\ Append(q, p)[Len(q) + 1] = p
         /\ q # <<>> => Head(Append(q, p)) = Head(q)
  BY AppendProperties, HeadTailAppend, LenProperties

\* What leaving it at its head does.
LEMMA Left ==
  ASSUME NEW q \in Seq(Tasks), q # <<>>
  PROVE  /\ Tail(q) \in Seq(Tasks)
         /\ Len(q) \in Nat /\ Len(q) >= 1 /\ Len(Tail(q)) = Len(q) - 1
         /\ \A i \in 1 .. Len(Tail(q)) : Tail(q)[i] = q[i + 1]
  BY HeadTailProperties, HeadIsFirst

\* A key that p does not head keeps its head when p joins a queue.
LEMMA JoinKeepsHeads ==
  ASSUME TypeOK, NEW p \in Tasks, NEW k \in Keys,
         queue' = [queue EXCEPT ![k] = Append(@, p)]
  PROVE  /\ queue' \in [Keys -> Seq(Tasks)]
         /\ \A q \in Tasks : \A j \in Keys : Heads(q, j) => Heads(q, j)'
<1>1. queue[k] \in Seq(Tasks)
  BY DEF TypeOK
<1>2. /\ queue' \in [Keys -> Seq(Tasks)]
      /\ queue'[k] = Append(queue[k], p)
      /\ \A j \in Keys \ {k} : queue'[j] = queue[j]
  BY <1>1, Joined DEF TypeOK
<1> QED BY <1>1, <1>2, Joined DEF Heads

\* The keys p leaves were headed by p; the others keep their heads.
LEMMA LeaveKeepsHeads ==
  ASSUME TypeOK, NEW p \in Tasks, NEW K \in SUBSET Keys, \A k \in K : Heads(p, k),
         queue' = [k \in Keys |-> IF k \in K THEN Tail(queue[k]) ELSE queue[k]]
  PROVE  /\ queue' \in [Keys -> Seq(Tasks)]
         /\ \A q \in Tasks \ {p} : \A j \in Keys : Heads(q, j) => j \notin K /\ Heads(q, j)'
<1>1. \A k \in K : Tail(queue[k]) \in Seq(Tasks)
  BY Left DEF Heads, TypeOK
<1> QED BY <1>1 DEF Heads, TypeOK

\* Joining a queue leaves it in order if p had no place there.
LEMMA JoinKeepsOrder ==
  ASSUME TypeOK, Queued, NEW p \in Tasks, NEW k \in Keys,
         queue' = [queue EXCEPT ![k] = Append(@, p)],
         \A i \in 1 .. Len(queue[k]) : queue[k][i] # p,
         pc'[p] = "lock", at'[p] = k,
         \A q \in Tasks : \A j \in Keys, i \in Nat :
           Belongs(q, j, i) => Belongs(q, j, i)'
  PROVE  Queued'
<1>1. /\ queue[k] \in Seq(Tasks) /\ queue'[k] = Append(queue[k], p)
      /\ \A j \in Keys \ {k} : queue'[j] = queue[j]
  BY DEF TypeOK
<1>2. ASSUME NEW j \in Keys, NEW i \in 1 .. Len(queue[j])
      PROVE  i \in Nat /\ queue[j][i] \in Tasks /\ Belongs(queue[j][i], j, i)
  BY ElementOfSeq, LenProperties DEF TypeOK, Queued
<1>3. ASSUME NEW j \in Keys \ {k}, NEW i \in 1 .. Len(queue'[j])
      PROVE  /\ Belongs(queue[j][i], j, i)'
             /\ \A n \in 1 .. Len(queue'[j]) : queue'[j][i] = queue'[j][n] => i = n
  <2>1. queue'[j] = queue[j]
    BY <1>1
  <2>2. PICK q \in Tasks : q = queue[j][i] /\ Belongs(q, j, i) /\ i \in Nat
    BY <1>2, <2>1
  <2>3. Belongs(q, j, i)'
    BY <2>2
  <2>4. Belongs(queue[j][i], j, i)'
    BY <2>1, <2>2, <2>3 DEF Belongs
  <2> QED BY <2>1, <2>4 DEF Queued
<1>4. ASSUME NEW i \in 1 .. Len(queue'[k])
      PROVE  /\ Belongs(queue[k][i], k, i)'
             /\ \A n \in 1 .. Len(queue'[k]) : queue'[k][i] = queue'[k][n] => i = n
  <2>1. /\ Len(queue[k]) \in Nat /\ Len(queue'[k]) = Len(queue[k]) + 1
        /\ \A n \in 1 .. Len(queue[k]) : queue'[k][n] = queue[k][n]
        /\ queue'[k][Len(queue[k]) + 1] = p
    BY <1>1, Joined
  <2>2. i \in 1 .. Len(queue[k]) \/ i = Len(queue[k]) + 1
    BY <2>1
  <2>3. ASSUME i \in 1 .. Len(queue[k])
        PROVE  Belongs(queue[k][i], k, i)'
    <3>1. PICK q \in Tasks : q = queue[k][i] /\ Belongs(q, k, i) /\ i \in Nat
      BY <1>2, <2>3
    <3>2. Belongs(q, k, i)' /\ queue'[k][i] = q
      BY <2>1, <2>3, <3>1
    <3> QED BY <3>2 DEF Belongs
  <2>4. ASSUME i = Len(queue[k]) + 1
        PROVE  Belongs(queue[k][i], k, i)'
    BY <2>1, <2>4 DEF Belongs
  <2>5. ASSUME NEW n \in 1 .. Len(queue'[k]), queue'[k][i] = queue'[k][n]
        PROVE  i = n
    <3>1. n \in 1 .. Len(queue[k]) \/ n = Len(queue[k]) + 1
      BY <2>1
    <3>2. CASE i \in 1 .. Len(queue[k]) /\ n \in 1 .. Len(queue[k])
      BY <2>1, <2>5, <3>2 DEF Queued
    <3> QED BY <2>1, <2>2, <2>5, <3>1, <3>2
  <2> QED BY <2>2, <2>3, <2>4, <2>5
<1> QED BY <1>3, <1>4 DEF Queued

\* The same when p leaves queues that it headed.
LEMMA LeaveKeepsOrder ==
  ASSUME TypeOK, Queued, NEW p \in Tasks, NEW K \in SUBSET Keys, \A k \in K : Heads(p, k),
         queue' = [k \in Keys |-> IF k \in K THEN Tail(queue[k]) ELSE queue[k]],
         \A q \in Tasks \ {p} : pc'[q] = pc[q] /\ at'[q] = at[q] /\ want'[q] = want[q],
         \A j \in Keys \ K : \A i \in Nat : Belongs(p, j, i) => Belongs(p, j, i)'
  PROVE  Queued'
<1>1. ASSUME NEW j \in Keys \ K, NEW i \in 1 .. Len(queue'[j])
      PROVE  /\ Belongs(queue[j][i], j, i)'
             /\ \A n \in 1 .. Len(queue'[j]) : queue'[j][i] = queue'[j][n] => i = n
  <2>1. queue'[j] = queue[j] /\ queue[j][i] \in Tasks
    BY <1>1, ElementOfSeq DEF TypeOK
  <2>2. Belongs(queue[j][i], j, i)
    BY <1>1, <2>1 DEF Queued
  <2>3. CASE queue[j][i] = p
    BY <1>1, <2>1, <2>2, <2>3 DEF Queued
  <2>4. CASE queue[j][i] # p
    BY <1>1, <2>1, <2>2, <2>4 DEF Queued, Belongs
  <2> QED BY <2>3, <2>4
<1>2. ASSUME NEW j \in K, NEW i \in 1 .. Len(queue'[j])
      PROVE  /\ Belongs(queue[j][i], j, i)'
             /\ \A n \in 1 .. Len(queue'[j]) : queue'[j][i] = queue'[j][n] => i = n
  <2>1. /\ queue'[j] = Tail(queue[j]) /\ queue[j] \in Seq(Tasks) /\ queue[j] # <<>>
        /\ Head(queue[j]) = p
    BY DEF TypeOK, Heads
  <2>2. /\ Len(queue[j]) \in Nat /\ Len(queue[j]) >= 1 /\ Len(queue'[j]) = Len(queue[j]) - 1
        /\ \A n \in 1 .. Len(queue'[j]) : queue'[j][n] = queue[j][n + 1]
        /\ queue[j][1] = p
    BY <2>1, Left, HeadIsFirst
  <2>3. /\ i + 1 \in 1 .. Len(queue[j]) /\ 1 \in 1 .. Len(queue[j]) /\ i + 1 # 1
        /\ queue'[j][i] = queue[j][i + 1]
    BY <2>2
  <2>4. queue[j][i + 1] \in Tasks \ {p}
    BY <2>1, <2>2, <2>3, ElementOfSeq DEF Queued
  <2>5. Belongs(queue[j][i + 1], j, i + 1)
    BY <2>3 DEF Queued
  <2>6. Belongs(queue[j][i], j, i)'
    BY <2>3, <2>4, <2>5 DEF Belongs
  <2>7. ASSUME NEW n \in 1 .. Len(queue'[j]), queue'[j][i] = queue'[j][n]
        PROVE  i = n
    <3>1. n + 1 \in 1 .. Len(queue[j]) /\ queue'[j][n] = queue[j][n + 1]
      BY <2>2
    <3>2. i + 1 = n + 1
      BY <2>3, <2>7, <3>1 DEF Queued
    <3> QED BY <3>2
  <2> QED BY <2>6, <2>7
<1> QED BY <1>1, <1>2 DEF Queued

\* Nobody else loses a place.
LEMMA JoinKeepsPlaces ==
  ASSUME TypeOK, Waiting, NEW p \in Tasks, NEW k \in Keys,
         queue' = [queue EXCEPT ![k] = Append(@, p)],
         \A q \in Tasks \ {p} : pc'[q] = pc[q] /\ at'[q] = at[q],
         pc'[p] = "lock", at'[p] = k
  PROVE  Waiting'
<1>1. /\ queue[k] \in Seq(Tasks) /\ queue'[k] = Append(queue[k], p)
      /\ \A j \in Keys \ {k} : queue'[j] = queue[j]
  BY DEF TypeOK
<1>2. /\ Len(queue[k]) \in Nat /\ Len(queue'[k]) = Len(queue[k]) + 1
      /\ \A n \in 1 .. Len(queue[k]) : queue'[k][n] = queue[k][n]
      /\ queue'[k][Len(queue[k]) + 1] = p
  BY <1>1, Joined
<1>3. ASSUME NEW q \in Tasks \ {p}, pc'[q] = "lock"
      PROVE  \E i \in 1 .. Len(queue'[at'[q]]) : queue'[at'[q]][i] = q
  <2>1. PICK i \in 1 .. Len(queue[at[q]]) : queue[at[q]][i] = q
    BY <1>3 DEF Waiting
  <2>2. at[q] \in Keys /\ at'[q] = at[q]
    BY <1>3 DEF TypeOK
  <2>3. CASE at[q] = k
    BY <1>2, <2>1, <2>2, <2>3
  <2>4. CASE at[q] # k
    BY <1>1, <2>1, <2>2, <2>4
  <2> QED BY <2>3, <2>4
<1>4. \E i \in 1 .. Len(queue'[at'[p]]) : queue'[at'[p]][i] = p
  BY <1>2
<1> QED BY <1>3, <1>4 DEF Waiting

LEMMA LeaveKeepsPlaces ==
  ASSUME TypeOK, Waiting, NEW p \in Tasks, NEW K \in SUBSET Keys, \A k \in K : Heads(p, k),
         queue' = [k \in Keys |-> IF k \in K THEN Tail(queue[k]) ELSE queue[k]],
         \A q \in Tasks \ {p} : pc'[q] = pc[q] /\ at'[q] = at[q],
         pc'[p] # "lock"
  PROVE  Waiting'
<1> SUFFICES ASSUME NEW q \in Tasks \ {p}, pc'[q] = "lock"
             PROVE  \E i \in 1 .. Len(queue'[at'[q]]) : queue'[at'[q]][i] = q
  BY DEF Waiting
<1>1. PICK i \in 1 .. Len(queue[at[q]]) : queue[at[q]][i] = q
  BY DEF Waiting
<1>2. at[q] \in Keys /\ at'[q] = at[q] /\ queue[at[q]] \in Seq(Tasks)
  BY DEF TypeOK
<1>3. CASE at[q] \in K
  <2>1. queue[at[q]] # <<>> /\ Head(queue[at[q]]) = p /\ queue'[at[q]] = Tail(queue[at[q]])
    BY <1>2, <1>3 DEF Heads
  <2>2. /\ Len(queue[at[q]]) \in Nat /\ Len(queue'[at[q]]) = Len(queue[at[q]]) - 1
        /\ \A n \in 1 .. Len(queue'[at[q]]) : queue'[at[q]][n] = queue[at[q]][n + 1]
        /\ queue[at[q]][1] = p
    <3>1. PICK s \in Seq(Tasks) : s = queue[at[q]]
      BY <1>2
    <3>2. s # <<>> /\ Head(s) = p /\ queue'[at[q]] = Tail(s)
      BY <2>1, <3>1
    <3>3. /\ Len(s) \in Nat /\ Len(Tail(s)) = Len(s) - 1
          /\ \A n \in 1 .. Len(Tail(s)) : Tail(s)[n] = s[n + 1]
      BY <3>2, Left
    <3>4. s[1] = p
      BY <3>2, HeadIsFirst
    <3> QED BY <3>1, <3>2, <3>3, <3>4
  <2>3. i # 1
    BY <1>1, <2>2
  <2>4. i - 1 \in 1 .. Len(queue'[at[q]]) /\ (i - 1) + 1 = i
    BY <2>2, <2>3
  <2>5. queue'[at[q]][i - 1] = q
    BY <1>1, <2>2, <2>4
  <2> QED BY <1>2, <2>4, <2>5
<1>4. CASE at[q] \notin K
  BY <1>1, <1>2, <1>4
<1> QED BY <1>3, <1>4

\* The locks of the tasks that do not move.
LEMMA OthersKeepLocks ==
  ASSUME TypeOK, Owners, NEW p \in Tasks,
         \A q \in Tasks \ {p} : pc'[q] = pc[q] /\ at'[q] = at[q] /\ want'[q] = want[q],
         dbs \subseteq dbs',
         \A q \in Tasks \ {p} : \A j \in Keys : Heads(q, j) => Heads(q, j)',
         Owner(p)'
  PROVE  Owners'
<1> SUFFICES ASSUME NEW q \in Tasks \ {p}
             PROVE  Owner(q)'
  BY DEF Owners
<1>1. /\ at[q] \in Keys /\ want[q] \in Keys /\ Owner(q)
      /\ pc'[q] = pc[q] /\ at'[q] = at[q] /\ want'[q] = want[q]
  BY DEF TypeOK, Owners
<1>2. Heads(q, at[q]) => Heads(q, at[q])'
  BY <1>1 DEF Heads
<1>3. Heads(q, want[q]) => Heads(q, want[q])'
  BY <1>1 DEF Heads
<1> QED BY <1>1, <1>2, <1>3 DEF Owner

-------------------------------------------------------------------------------
(* The actions.                                                             *)

LEMMA InitInv == Init => IInv
<1> SUFFICES ASSUME Init
             PROVE  IInv
  OBVIOUS
<1>1. TypeOK
  BY ConstantsAssumption, EmptySeq DEF Init, TypeOK, Keys
<1>2. \A k \in Keys : Len(queue[k]) = 0
  BY EmptySeq DEF Init
<1>3. Owners /\ Waiting /\ UninitializedIsTransient
  BY DEF Init, Owners, Owner, Waiting, UninitializedIsTransient
<1>4. Queued
  BY <1>2 DEF Queued
<1> QED BY <1>1, <1>3, <1>4 DEF IInv

\* A task that joins the queue of a key it had no place in.
LEMMA JoinInv ==
  ASSUME IInv, NEW p \in Tasks, NEW k \in Keys,
         queue' = [queue EXCEPT ![k] = Append(@, p)],
         at' = [at EXCEPT ![p] = k], Goto(p, "lock"),
         UNCHANGED <<dbs, pool, rows, ready, failures, restarts, broken>>,
         want' \in [Tasks -> Keys], \A q \in Tasks \ {p} : want'[q] = want[q],
         \/ pc[p] \in {"idle", "returned", "raised"} /\ k = want'[p]
         \/ pc[p] = "discover" /\ k = CP /\ want' = want
  PROVE  IInv'
<1> USE DEF IInv
<1>1. /\ pc'[p] = "lock" /\ at'[p] = k
      /\ \A q \in Tasks \ {p} : pc'[q] = pc[q] /\ at'[q] = at[q] /\ want'[q] = want[q]
  BY DEF TypeOK, Goto
<1>2. /\ queue' \in [Keys -> Seq(Tasks)]
      /\ \A q \in Tasks : \A j \in Keys : Heads(q, j) => Heads(q, j)'
  BY JoinKeepsHeads
<1>3. TypeOK'
  BY <1>2 DEF TypeOK, Goto
<1>4. Owner(p)'
  <2>1. CASE k = want'[p]
    BY <1>1, <2>1 DEF Owner
  <2>2. CASE k = CP /\ want' = want /\ pc[p] = "discover"
    <3>1. at[p] = want[p] /\ want[p] \in Tenants /\ Heads(p, want[p]) /\ want[p] \in Keys
      BY <2>2 DEF Owners, Owner, Keys
    <3>2. Heads(p, want[p])'
      BY <1>2, <2>2, <3>1 DEF Heads
    <3> QED BY <1>1, <2>2, <3>1, <3>2 DEF Owner
  <2> QED BY <2>1, <2>2
<1>5. Owners'
  BY <1>1, <1>2, <1>4, OthersKeepLocks
<1>6. \A j \in Keys, i \in Nat : Belongs(p, j, i) => Belongs(p, j, i)' /\ j # k
  <2>1. CASE pc[p] \in {"idle", "returned", "raised"}
    BY <2>1 DEF Belongs, Work
  <2>2. CASE pc[p] = "discover" /\ k = CP /\ want' = want
    <3>1. at[p] = want[p] /\ at[p] \in Tenants /\ at[p] # k
      BY <2>2, ConstantsAssumption DEF Owners, Owner
    <3> QED BY <1>1, <2>2, <3>1 DEF Belongs, Work
  <2> QED BY <2>1, <2>2
<1>7. ASSUME NEW q \in Tasks, NEW j \in Keys, NEW i \in Nat, Belongs(q, j, i)
      PROVE  Belongs(q, j, i)'
  BY <1>1, <1>6, <1>7 DEF Belongs
<1>8. \A i \in 1 .. Len(queue[k]) : queue[k][i] # p
  <2> SUFFICES ASSUME NEW i \in 1 .. Len(queue[k]), queue[k][i] = p
               PROVE  FALSE
    OBVIOUS
  <2>1. queue[k] \in Seq(Tasks)
    BY DEF TypeOK
  <2>2. i \in Nat
    BY <2>1, LenProperties
  <2>3. Belongs(p, k, i)
    BY DEF Queued
  <2> QED BY <1>6, <2>2, <2>3
<1>9. Queued'
  BY <1>1, <1>7, <1>8, JoinKeepsOrder
<1>10. Waiting'
  BY <1>1, JoinKeepsPlaces
<1>11. UninitializedIsTransient'
  BY <1>1 DEF UninitializedIsTransient
<1> QED BY <1>3, <1>5, <1>9, <1>10, <1>11

\* A task that takes the fast path, or is past its lock, and only moves on.
LEMMA CallInv ==
  ASSUME IInv, NEW p \in Tasks, NEW k \in Keys, Call(p, k)
  PROVE  IInv'
<1> USE DEF IInv
<1>1. /\ want' \in [Tasks -> Keys] /\ want'[p] = k
      /\ \A q \in Tasks \ {p} : want'[q] = want[q]
      /\ pc[p] \in {"idle", "returned", "raised"}
      /\ UNCHANGED <<dbs, pool, rows, ready, failures, restarts, broken>>
  BY DEF Call, TypeOK
<1>2. CASE k \notin pool
  BY <1>1, <1>2, JoinInv DEF Call, Await
<1>3. CASE k \in pool
  <2>1. Goto(p, "returned") /\ UNCHANGED <<queue, at>>
    BY <1>3 DEF Call, Await
  <2>2. /\ pc'[p] = "returned"
        /\ \A q \in Tasks \ {p} : pc'[q] = pc[q] /\ at'[q] = at[q] /\ want'[q] = want[q]
    BY <1>1, <2>1 DEF Goto, TypeOK
  <2>3. TypeOK'
    BY <1>1, <2>1 DEF TypeOK, Goto
  <2>4. Owners'
    BY <1>1, <2>1, <2>2 DEF Owners, Owner, Heads
  <2>5. Queued'
    <3>1. ASSUME NEW j \in Keys, NEW i \in 1 .. Len(queue[j])
          PROVE  queue[j][i] \in Tasks \ {p} /\ Belongs(queue[j][i], j, i)
      <4>1. queue[j] \in Seq(Tasks)
        BY DEF TypeOK
      <4>2. queue[j][i] \in Tasks
        BY <4>1, ElementOfSeq
      <4>3. Belongs(queue[j][i], j, i)
        BY DEF Queued
      <4> QED BY <1>1, <4>2, <4>3 DEF Belongs, Work
    <3> QED BY <2>1, <2>2, <3>1 DEF Queued, Belongs
  <2>6. Waiting'
    BY <2>1, <2>2 DEF Waiting
  <2>7. UninitializedIsTransient'
    BY <1>1, <2>1, <2>2 DEF UninitializedIsTransient
  <2> QED BY <2>3, <2>4, <2>5, <2>6, <2>7
<1> QED BY <1>2, <1>3

LEMMA DiscoverInv ==
  ASSUME IInv, NEW p \in Tasks, Discover(p)
  PROVE  IInv'
<1> USE DEF IInv
<1>1. /\ pc[p] = "discover" /\ CP \in Keys
      /\ UNCHANGED <<dbs, pool, rows, ready, want, failures, restarts, broken>>
  BY DEF Discover, Keys
<1>2. CASE CP \notin pool
  BY <1>1, <1>2, JoinInv DEF Discover, Await, TypeOK
<1>3. CASE CP \in pool
  <2>1. Goto(p, "register") /\ UNCHANGED <<queue, at>>
    BY <1>3 DEF Discover, Await
  <2>2. /\ pc'[p] = "register"
        /\ \A q \in Tasks \ {p} : pc'[q] = pc[q] /\ at'[q] = at[q] /\ want'[q] = want[q]
    BY <1>1, <2>1 DEF Goto, TypeOK
  <2>3. TypeOK'
    BY <1>1, <2>1 DEF TypeOK, Goto
  <2>4. Owners'
    BY <1>1, <2>1, <2>2 DEF Owners, Owner, Heads
  <2>5. Queued'
    <3>1. queue' = queue
      BY <2>1
    <3>2. ASSUME NEW k \in Keys, NEW i \in 1 .. Len(queue[k])
          PROVE  Belongs(queue[k][i], k, i)'
      <4>1. PICK q \in Tasks : q = queue[k][i] /\ Belongs(q, k, i)
        BY ElementOfSeq DEF Queued, TypeOK
      <4>2. Belongs(q, k, i)'
        BY <1>1, <2>1, <2>2, <4>1 DEF Belongs, Work
      <4> QED BY <3>1, <4>1, <4>2 DEF Belongs
    <3> QED BY <3>1, <3>2 DEF Queued
  <2>6. Waiting'
    BY <2>1, <2>2 DEF Waiting
  <2>7. UninitializedIsTransient'
    BY <1>1, <2>1, <2>2 DEF UninitializedIsTransient
  <2> QED BY <2>3, <2>4, <2>5, <2>6, <2>7
<1> QED BY <1>2, <1>3

LEMMA LockedInv ==
  ASSUME IInv, NEW p \in Tasks, Locked(p)
  PROVE  IInv'
<1> USE DEF IInv
<1>1. /\ pc[p] = "lock" /\ Heads(p, at[p]) /\ at[p] \in Keys
      /\ pc'[p] = IF at[p] \in Tenants \ dbs THEN "discover" ELSE "connect"
      /\ \A q \in Tasks \ {p} : pc'[q] = pc[q]
      /\ UNCHANGED <<pool, queue, rows, ready, want, at, failures, restarts, broken>>
      /\ dbs \subseteq dbs' /\ (at[p] = CP => CP \in dbs')
  BY DEF Locked, Holds, Heads, Goto, TypeOK
<1>2. TypeOK'
  BY <1>1 DEF TypeOK, Locked, Goto, Keys
<1>3. Owner(p)'
  <2>1. at[p] \in Tenants => at[p] = want[p]
    BY <1>1, ConstantsAssumption DEF Owners, Owner
  <2> QED BY <1>1, <2>1 DEF Owners, Owner, Heads, Keys
<1>4. Owners'
  BY <1>1, <1>3, OthersKeepLocks DEF Heads
<1>5. Queued'
  <2> SUFFICES ASSUME NEW k \in Keys, NEW i \in 1 .. Len(queue[k])
               PROVE  /\ Belongs(queue[k][i], k, i)'
                      /\ \A j \in 1 .. Len(queue[k]) : queue[k][i] = queue[k][j] => i = j
    BY <1>1 DEF Queued
  <2>1. /\ queue[k][i] \in Tasks /\ Belongs(queue[k][i], k, i)
        /\ \A j \in 1 .. Len(queue[k]) : queue[k][i] = queue[k][j] => i = j
    BY ElementOfSeq DEF Queued, TypeOK
  <2>2. CASE queue[k][i] # p
    BY <1>1, <2>1, <2>2 DEF Belongs
  <2>3. CASE queue[k][i] = p
    <3>1. CASE at[p] = k
      <4>1. queue[k][1] = p /\ 1 \in 1 .. Len(queue[k])
        BY <1>1, <3>1, HeadIsFirst DEF Heads, TypeOK
      <4>2. i = 1
        BY <2>1, <2>3, <4>1
      <4> QED BY <1>1, <2>1, <2>3, <3>1, <4>2 DEF Belongs, Work
    <3>2. CASE at[p] # k
      <4>1. i = 1 /\ want[p] = k
        BY <1>1, <2>1, <2>3, <3>2 DEF Belongs
      <4>2. at[p] = CP
        BY <1>1, <3>2, <4>1 DEF Owners, Owner
      <4>3. pc'[p] = "connect"
        BY <1>1, <4>2, ConstantsAssumption
      <4> QED BY <1>1, <2>1, <2>3, <3>2, <4>1, <4>3 DEF Belongs
    <3> QED BY <3>1, <3>2
  <2> QED BY <2>1, <2>2, <2>3
<1>6. Waiting'
  BY <1>1 DEF Waiting
<1>7. UninitializedIsTransient'
  BY <1>1 DEF UninitializedIsTransient
<1> QED BY <1>2, <1>4, <1>5, <1>6, <1>7

LEMMA RegisterInv ==
  ASSUME IInv, NEW p \in Tasks, Register(p)
  PROVE  IInv'
<1> USE DEF IInv
<1>1. /\ pc[p] = "register" /\ pc'[p] = "connect"
      /\ \A q \in Tasks \ {p} : pc'[q] = pc[q]
      /\ UNCHANGED <<pool, queue, ready, want, at, failures, restarts, broken>>
      /\ dbs' = dbs \cup {want[p]} /\ rows' \subseteq rows \cup {want[p]}
      /\ at[p] = want[p] /\ at[p] \in Tenants /\ Heads(p, at[p])
  BY DEF Register, Goto, TypeOK, Owners, Owner
<1>2. TypeOK'
  BY <1>1 DEF TypeOK, Register, Goto, Keys
<1>3. Owner(p)'
  BY <1>1 DEF Owner, Heads
<1>4. Owners'
  BY <1>1, <1>3, OthersKeepLocks DEF Heads
<1>5. Queued'
  <2>1. \A k \in Keys : \A i \in 1 .. Len(queue[k]) : queue[k][i] \in Tasks
    BY ElementOfSeq DEF TypeOK
  <2> QED BY <1>1, <2>1 DEF Queued, Belongs, Work
<1>6. Waiting'
  BY <1>1 DEF Waiting
<1>7. UninitializedIsTransient'
  BY <1>1 DEF UninitializedIsTransient
<1> QED BY <1>2, <1>4, <1>5, <1>6, <1>7

\* Giving the pool of at[p] back to the caller.
LEMMA ReturnInv ==
  ASSUME IInv, NEW p \in Tasks, pc[p] \in {"connect", "init"}, Return(p),
         dbs' = dbs, want' = want,
         queue' \in [Keys -> Seq(Tasks)] => TypeOK'
  PROVE  TypeOK' /\ Owners' /\ Queued' /\ Waiting'
<1> USE DEF IInv
<1>1. /\ at[p] \in Keys /\ want[p] \in Keys /\ at[p] \in dbs /\ Heads(p, at[p])
      /\ at[p] # want[p] => at[p] = CP /\ want[p] \in Tenants /\ Heads(p, want[p])
  BY DEF Owners, Owner, TypeOK
<1>2. /\ pc'[p] = IF at[p] = want[p] THEN "returned" ELSE "register"
      /\ at'[p] = want[p]
      /\ \A q \in Tasks \ {p} : pc'[q] = pc[q] /\ at'[q] = at[q] /\ want'[q] = want[q]
  BY DEF Return, Goto, TypeOK
<1>3. queue' = [k \in Keys |-> IF k \in {at[p]} THEN Tail(queue[k]) ELSE queue[k]]
  BY DEF Return, Release, TypeOK
<1> DEFINE K == {at[p]}
<1>4. K \in SUBSET Keys /\ \A k \in K : Heads(p, k)
  BY <1>1
<1>5. /\ queue' \in [Keys -> Seq(Tasks)]
      /\ \A q \in Tasks \ {p} : \A j \in Keys : Heads(q, j) => j \notin K /\ Heads(q, j)'
  <2> HIDE DEF K
  <2> QED BY <1>3, <1>4, LeaveKeepsHeads DEF K
<1>6. TypeOK'
  BY <1>5
<1>7. at[p] # want[p] => Heads(p, want[p])'
  BY <1>1, <1>3 DEF Heads
<1>8. Owner(p)'
  BY <1>1, <1>2, <1>7 DEF Owner, Heads
<1>9. Owners'
  BY <1>2, <1>5, <1>8, OthersKeepLocks
<1>10. \A j \in Keys \ K : \A i \in Nat : Belongs(p, j, i) => Belongs(p, j, i)'
  BY <1>2 DEF Belongs, Work
<1>11. Queued'
  <2> HIDE DEF K
  <2> QED BY <1>2, <1>3, <1>4, <1>10, LeaveKeepsOrder DEF K
<1>12. Waiting'
  <2>1. pc'[p] # "lock"
    BY <1>2
  <2> HIDE DEF K
  <2> QED BY <1>2, <1>3, <1>4, <2>1, LeaveKeepsPlaces DEF K
<1> QED BY <1>6, <1>9, <1>11, <1>12

LEMMA ConnectInv ==
  ASSUME IInv, NEW p \in Tasks, Connect(p)
  PROVE  IInv'
<1> USE DEF IInv
<1>1. /\ pc[p] = "connect" /\ at[p] \in Keys /\ at[p] \in dbs
      /\ UNCHANGED <<dbs, rows, ready, want, failures, restarts, broken>>
  BY DEF Connect, Owners, Owner, TypeOK
<1>2. CASE at[p] \in pool
  <2>1. Return(p) /\ pool' = pool
    BY <1>2 DEF Connect
  <2>2. queue' \in [Keys -> Seq(Tasks)] => TypeOK'
    BY <1>1, <2>1 DEF TypeOK, Return, Goto
  <2>3. UninitializedIsTransient'
    BY <1>1, <2>1 DEF UninitializedIsTransient, Return, Goto, TypeOK
  <2> QED BY <1>1, <2>1, <2>2, <2>3, ReturnInv
<1>3. CASE at[p] \notin pool
  <2>1. /\ pool' = pool \cup {at[p]} /\ Goto(p, "init") /\ UNCHANGED <<queue, at>>
        /\ pc'[p] = "init" /\ \A q \in Tasks \ {p} : pc'[q] = pc[q]
    BY <1>3 DEF Connect, Goto, TypeOK
  <2>2. TypeOK'
    BY <1>1, <2>1 DEF TypeOK, Goto
  <2>3. Owners'
    BY <1>1, <2>1 DEF Owners, Owner, Heads
  <2>4. Queued'
    <3>1. \A k \in Keys : \A i \in 1 .. Len(queue[k]) : queue[k][i] \in Tasks
      BY ElementOfSeq DEF TypeOK
    <3> QED BY <1>1, <2>1, <3>1 DEF Queued, Belongs, Work
  <2>5. Waiting'
    BY <1>1, <2>1 DEF Waiting
  <2>6. UninitializedIsTransient'
    BY <1>1, <2>1 DEF UninitializedIsTransient
  <2> QED BY <2>2, <2>3, <2>4, <2>5, <2>6
<1> QED BY <1>2, <1>3

LEMMA InitTablesInv ==
  ASSUME IInv, NEW p \in Tasks, InitTables(p)
  PROVE  IInv'
<1> USE DEF IInv
<1>1. /\ pc[p] = "init" /\ at[p] \in Keys /\ Return(p)
      /\ ready' = ready \cup {at[p]}
      /\ UNCHANGED <<dbs, pool, rows, want, failures, restarts, broken>>
  BY DEF InitTables, TypeOK
<1>2. queue' \in [Keys -> Seq(Tasks)] => TypeOK'
  BY <1>1 DEF TypeOK, Return, Goto
<1>3. UninitializedIsTransient'
  BY <1>1 DEF UninitializedIsTransient, Return, Goto, TypeOK
<1> QED BY <1>1, <1>2, <1>3, ReturnInv

LEMMA RaiseInv ==
  ASSUME IInv, NEW p \in Tasks, Raise(p)
  PROVE  IInv'
<1> USE DEF IInv
<1> DEFINE K == {at[p], want[p]}
<1>1. /\ pc[p] \in {"register", "connect", "init"} /\ pc'[p] = "raised"
      /\ \A q \in Tasks \ {p} : pc'[q] = pc[q]
      /\ UNCHANGED <<dbs, pool, rows, ready, want, at, restarts>>
      /\ failures < MaxFailures /\ failures' = failures + 1
  BY DEF Raise, Goto, TypeOK
<1>2. K \in SUBSET Keys /\ \A k \in K : Heads(p, k)
  BY <1>1 DEF Owners, Owner, TypeOK
<1>3. queue' = [k \in Keys |-> IF k \in K THEN Tail(queue[k]) ELSE queue[k]]
  BY DEF Raise, Unwound
<1>4. /\ queue' \in [Keys -> Seq(Tasks)]
      /\ \A q \in Tasks \ {p} : \A j \in Keys : Heads(q, j) => j \notin K /\ Heads(q, j)'
  <2> HIDE DEF K
  <2> QED BY <1>2, <1>3, LeaveKeepsHeads
<1>5. TypeOK'
  <2>1. failures' \in 0 .. MaxFailures
    BY <1>1, ConstantsAssumption DEF TypeOK
  <2>2. broken' \subseteq Keys
    BY DEF Raise, TypeOK
  <2>3. pc' \in [Tasks -> {"idle", "lock", "discover", "register", "connect", "init",
                           "returned", "raised"}]
    BY DEF Raise, Goto, TypeOK
  <2> QED BY <1>1, <1>4, <2>1, <2>2, <2>3 DEF TypeOK
<1>6. Owner(p)'
  BY <1>1 DEF Owner
<1>7. Owners'
  BY <1>1, <1>4, <1>6, OthersKeepLocks
<1>8. \A j \in Keys \ K : \A i \in Nat : Belongs(p, j, i) => Belongs(p, j, i)'
  BY DEF Belongs
<1>9. Queued'
  <2> HIDE DEF K
  <2> QED BY <1>1, <1>2, <1>3, <1>8, LeaveKeepsOrder
<1>10. Waiting'
  <2>1. pc'[p] # "lock"
    BY <1>1
  <2> HIDE DEF K
  <2> QED BY <1>1, <1>2, <1>3, <2>1, LeaveKeepsPlaces
<1>11. UninitializedIsTransient'
  BY <1>1 DEF UninitializedIsTransient, Raise
<1> QED BY <1>5, <1>7, <1>9, <1>10, <1>11

LEMMA RestartInv ==
  ASSUME IInv, Restart
  PROVE  IInv'
<1> USE DEF IInv
<1>1. TypeOK'
  BY EmptySeq, ConstantsAssumption DEF Restart, TypeOK
<1>2. \A k \in Keys : Len(queue'[k]) = 0
  BY EmptySeq DEF Restart
<1>3. Owners' /\ Waiting' /\ UninitializedIsTransient'
  BY DEF Restart, Owners, Owner, Waiting, UninitializedIsTransient
<1>4. Queued'
  BY <1>2 DEF Queued
<1> QED BY <1>1, <1>3, <1>4

LEMMA NextInv ==
  ASSUME IInv, [Next]_vars
  PROVE  IInv'
<1>1. CASE UNCHANGED vars
  BY <1>1 DEF vars, IInv, TypeOK, Owners, Owner, Heads, Queued, Belongs, Waiting,
     UninitializedIsTransient
<1>2. CASE Next
  BY <1>2, CallInv, DiscoverInv, LockedInv, RegisterInv, ConnectInv, InitTablesInv, RaiseInv,
     RestartInv DEF Next, Step
<1> QED BY <1>1, <1>2

LEMMA Invariant == Spec => []IInv
<1>1. IInv /\ [Next]_vars => IInv'
  BY NextInv
<1> QED BY InitInv, <1>1, PTL DEF Spec

-------------------------------------------------------------------------------
(* Theorems.                                                                *)

\* The manager's fields and the tasks stay in their domains; a pool always
\* belongs to a Database object, and no lock is released that is not held.
THEOREM TypeCorrect == Spec => []TypeOK
<1>1. IInv => TypeOK
  BY DEF IInv
<1> QED BY Invariant, <1>1, PTL

\* A pool without its tables is visible only while its opener still creates them
\* or after that failed, however many tasks ask for it (Database.connect sets
\* self.pool first).
THEOREM PoolsBecomeReady == Spec => []UninitializedIsTransient
<1>1. IInv => UninitializedIsTransient
  BY DEF IInv
<1> QED BY Invariant, <1>1, PTL

\* No set of tasks waits in a circle on the locks of get_pool, after exceptions
\* and restarts too.
THEOREM DeadlockFree == Spec => []NoCircularWait
<1>1. ASSUME IInv
      PROVE  NoCircularWait
  <2> USE <1>1 DEF IInv
  <2>1. ASSUME NEW p \in Tasks, pc[p] = "lock"
        PROVE  /\ queue[at[p]] # <<>> /\ Head(queue[at[p]]) \in Tasks
               /\ Belongs(Head(queue[at[p]]), at[p], 1)
    <3>1. at[p] \in Keys /\ queue[at[p]] \in Seq(Tasks)
      BY DEF TypeOK
    <3>2. PICK i \in 1 .. Len(queue[at[p]]) : queue[at[p]][i] = p
      BY <2>1 DEF Waiting
    <3>3. queue[at[p]] # <<>>
      BY <3>2, EmptySeq
    <3>4. Head(queue[at[p]]) = queue[at[p]][1] /\ 1 \in 1 .. Len(queue[at[p]])
      BY <3>1, <3>3, HeadIsFirst
    <3> QED BY <3>1, <3>3, <3>4, HeadIsFirst DEF Queued
  <2>2. ASSUME NEW h \in Tasks, NEW k \in Keys, Heads(h, k), Belongs(h, k, 1)
        PROVE  Runnable(h) \/ (pc[h] = "lock" /\ want[h] = k /\ at[h] = CP /\ k # CP)
    BY <2>2 DEF Belongs, Runnable, Holds, Heads, Work, Owners, Owner
  <2> SUFFICES ASSUME NEW p \in Tasks, pc[p] = "lock"
               PROVE  /\ queue[at[p]] # <<>>
                      /\ \/ Runnable(Head(queue[at[p]]))
                         \/ /\ pc[Head(queue[at[p]])] = "lock" /\ at[Head(queue[at[p]])] = CP
                            /\ queue[CP] # <<>> /\ Runnable(Head(queue[CP]))
    BY DEF NoCircularWait
  <2>3. PICK h \in Tasks : h = Head(queue[at[p]]) /\ Heads(h, at[p]) /\ Belongs(h, at[p], 1)
    BY <2>1 DEF Heads
  <2>4. CASE Runnable(h)
    BY <2>3, <2>4 DEF Heads
  <2>5. CASE pc[h] = "lock" /\ at[h] = CP
    <3>1. PICK g \in Tasks : g = Head(queue[CP]) /\ Heads(g, CP) /\ Belongs(g, CP, 1)
      BY <2>1, <2>5 DEF Heads
    <3>2. Runnable(g)
      BY <2>2, <3>1 DEF Keys
    <3> QED BY <2>3, <2>5, <3>1, <3>2 DEF Heads
  <2>6. at[p] \in Keys
    BY DEF TypeOK
  <2> QED BY <2>2, <2>3, <2>4, <2>5, <2>6
<1> QED BY Invariant, <1>1, PTL

-------------------------------------------------------------------------------
(* The resource lines of an event.                                          *)

\* A request in flight.
RequestRec ==
  [op : {"none", "update", "price", "add", "delete", "replace", "currency"},
   pc : {"idle", "read", "write", "read cost", "write cost", "check", "insert", "delete", "acquire", "clear"},
   line : Nat, q : Quantities \cup {None}, unit : Prices \cup {None},
   to : Quantities \cup Currencies \cup {None},
   why : {None, "checked", "setup", "same"}, holds : BOOLEAN, todo : Int]

\* What request q carries along from its earlier reads; ids below n are taken.
Carries(q, n) ==
  /\ q \in RequestRec
  /\ q.line < n
  /\ q.op = "update" /\ q.pc # "read" => q.q \in Quantities
  /\ q.op = "price" /\ q.pc # "read" => q.q \in Quantities /\ q.unit \in Prices
  /\ q.pc = "write cost" => q.op \in {"update", "price"} /\ q.unit \in Prices
  /\ q.op = "currency" /\ q.pc # "read" => q.to \in Currencies /\ q.why \in {"checked", "setup", "same"}
  /\ q.op = "currency" /\ q.pc = "check" => q.why = "checked"

Carried == req \in [Requests -> RequestRec] /\ \A r \in Requests : Carries(req[r], next)

Tables ==
  /\ status \in {"draft", "proposed", "approved", "published", "none"}
  /\ quantity \in [DOMAIN quantity -> Quantities] /\ DOMAIN quantity \subseteq 1 .. next - 1
  /\ DOMAIN cost \subseteq DOMAIN quantity
  /\ cost \in [DOMAIN cost -> [unit : Prices, total : Nat]]
  /\ tickets \in BOOLEAN /\ currency \in Currencies /\ live \in BOOLEAN
  /\ sent \in 0 .. MaxRequests /\ next \in Nat \ {0}

\* The connections that are kept or run a statement.
Counted == running \subseteq {r \in Requests : Costing!Busy(r)} /\ Costing!Free \in 0 .. PoolSize

\* Two requests on one line leave their mark.
Marked ==
  \A r, o \in Requests :
    r # o /\ req[r].line = req[o].line /\ req[r].line \in DOMAIN quantity => req[r].line \in overlapped

\* Request q relies on the quantity it read or wrote, and that is still the
\* line's unless somebody else works on the line.
Knows(q) ==
  \/ q.op = "price" /\ q.pc # "read"
  \/ q.op = "update" /\ (q.pc \in {"read cost", "write cost"} \/ (q.pc = "write" /\ q.to = None))
Current ==
  \A r \in Requests :
    Knows(req[r]) /\ req[r].line \in DOMAIN quantity \ overlapped => quantity[req[r].line] = req[r].q

\* An update past its first write: the total may lag behind the quantity.
Past(q) == q.op = "update" /\ q.pc \in {"read cost", "write cost"}
Right(l) == cost[l].total = cost[l].unit * quantity[l]
Agree ==
  \A l \in DOMAIN cost \ (overlapped \cup torn) :
    Right(l) \/ \E r \in Requests : Past(req[r]) /\ req[r].line = l

\* What let a currency change pass was true then; what came since is noticed.
Noticed ==
  \A r \in Requests : Costing!At(r, "currency", "write") =>
    /\ req[r].why = "checked" /\ Costing!HasRecordedMoney => r \in priced
    /\ req[r].why = "same" /\ req[r].to # currency => r \in crossed

\* What let q pass is true now.
Passed(q) ==
  /\ q.why = "checked" => ~Costing!HasRecordedMoney
  /\ q.why = "same" => q.to = currency

\* The inductive invariant.
CostingInv == Carried /\ Tables /\ Counted /\ Marked /\ Current /\ Agree /\ Noticed

-------------------------------------------------------------------------------
LEMMA IdleCarries ==
  ASSUME NEW n \in Nat \ {0}
  PROVE  Carries(Costing!Idle, n)
BY DEF Carries, RequestRec, Costing!Idle

LEMMA IdleIsNotPast == ~Past(Costing!Idle)
<1>1. Costing!Idle.op = "none"
  BY DEF Costing!Idle
<1> QED BY <1>1 DEF Past

LEMMA NoLineIsZero ==
  ASSUME Tables
  PROVE  0 \notin DOMAIN quantity
<1>1. next - 1 \in Int
  BY DEF Tables
<1> QED BY <1>1 DEF Tables

LEMMA CarriedLine ==
  ASSUME NEW q, NEW n \in Nat, Carries(q, n)
  PROVE  q.line \in Nat /\ q.line < n /\ q.line # n
<1>1. q.line \in Nat /\ q.line < n
  BY DEF Carries, RequestRec
<1> QED BY <1>1

LEMMA CarriesMore ==
  ASSUME NEW q, NEW n \in Nat, NEW m \in Nat, n <= m, Carries(q, n)
  PROVE  Carries(q, m)
<1>1. q.line \in Nat /\ q.line < n
  BY DEF Carries, RequestRec
<1>2. q.line < m
  BY <1>1
<1> QED BY <1>2 DEF Carries

\* Request r goes on as q.
LEMMA GoCarried ==
  ASSUME Carried, Tables, NEW r \in Requests, NEW q, Carries(q, next),
         next' \in Nat, next' >= next, Costing!Go(r, q)
  PROVE  Carried'
<1>1. req' = [req EXCEPT ![r] = q] /\ q \in RequestRec
  BY DEF Costing!Go, Carries
<1>2. req' \in [Requests -> RequestRec]
  BY <1>1 DEF Carried
<1>3. ASSUME NEW x \in Requests PROVE Carries(req'[x], next')
  <2>1. Carries(req'[x], next)
    BY <1>1 DEF Carried
  <2>2. next \in Nat /\ next <= next'
    BY DEF Tables
  <2> QED BY <2>1, <2>2, CarriesMore
<1> QED BY <1>2, <1>3 DEF Carried

\* The component's own finite sets are the library's.
LEMMA SameFinite ==
  ASSUME NEW S
  PROVE  Costing!IsFiniteSet(S) = IsFiniteSet(S)
BY Zenon DEF Costing!IsFiniteSet, IsFiniteSet

LEMMA SameCardinality ==
  ASSUME NEW S
  PROVE  Costing!Cardinality(S) = Cardinality(S)
BY Zenon DEF Costing!Cardinality, Cardinality

LEMMA FreeConnections ==
  Costing!Free = PoolSize - Cardinality({x \in Requests : req[x].holds}) - Cardinality(running)
BY SameCardinality DEF Costing!Free

LEMMA FreeConnectionsNext ==
  Costing!Free' = PoolSize - Cardinality({x \in Requests : req'[x].holds}) - Cardinality(running')
<1>1. /\ Costing!Cardinality({x \in Requests : req'[x].holds}) = Cardinality({x \in Requests : req'[x].holds})
      /\ Costing!Cardinality(running') = Cardinality(running')
  BY SameCardinality
<1> QED BY <1>1 DEF Costing!Free

\* A finite set with one more member.
LEMMA AtMostOneMore ==
  ASSUME NEW H, IsFiniteSet(H), NEW r, NEW G, G \subseteq H \cup {r}
  PROVE  IsFiniteSet(G) /\ Cardinality(G) \in Nat /\ Cardinality(H) \in Nat /\ Cardinality(G) <= Cardinality(H) + 1
<1>1. IsFiniteSet(H \cup {r})
      /\ (Cardinality(H \cup {r}) = Cardinality(H) \/ Cardinality(H \cup {r}) = Cardinality(H) + 1)
  BY FS_AddElement
<1>2. IsFiniteSet(G) /\ Cardinality(G) <= Cardinality(H \cup {r})
  BY <1>1, FS_Subset
<1>3. Cardinality(G) \in Nat /\ Cardinality(H) \in Nat
  BY <1>2, FS_CardinalityType
<1> QED BY <1>1, <1>2, <1>3

\* A step takes one connection at most, and only when one is free.
LEMMA OneMore ==
  ASSUME Costing!Constants, Counted,
         running' \subseteq {x \in Requests : Costing!Busy(x)'},
         NEW r \in Requests,
         \/ /\ {x \in Requests : req'[x].holds} \subseteq {x \in Requests : req[x].holds}
            /\ running' \subseteq running
         \/ /\ Costing!Free > 0
            /\ {x \in Requests : req'[x].holds} \subseteq {x \in Requests : req[x].holds} \cup {r}
            /\ running' \subseteq running
         \/ /\ Costing!Free > 0
            /\ {x \in Requests : req'[x].holds} \subseteq {x \in Requests : req[x].holds}
            /\ running' \subseteq running \cup {r}
  PROVE  Counted'
<1> DEFINE H == {x \in Requests : req[x].holds}
           G == {x \in Requests : req'[x].holds}
<1>1. IsFiniteSet(H) /\ IsFiniteSet(G) /\ IsFiniteSet(running) /\ IsFiniteSet(running')
  <2>1. /\ H \subseteq Requests /\ G \subseteq Requests /\ IsFiniteSet(Requests)
        /\ running \subseteq Requests /\ running' \subseteq Requests
    BY SameFinite DEF Costing!Constants, Counted
  <2> QED BY <2>1, FS_Subset
<1>2. /\ Cardinality(H) \in Nat /\ Cardinality(G) \in Nat /\ PoolSize \in Nat
      /\ Cardinality(running) \in Nat /\ Cardinality(running') \in Nat
  BY <1>1, FS_CardinalityType DEF Costing!Constants
<1>3. Costing!Free = PoolSize - Cardinality(H) - Cardinality(running) /\ Costing!Free >= 0
  BY <1>2, FreeConnections DEF Counted
<1>4. /\ G \subseteq H => Cardinality(G) <= Cardinality(H)
      /\ running' \subseteq running => Cardinality(running') <= Cardinality(running)
  BY <1>1, FS_Subset
<1>5. /\ G \subseteq H \cup {r} => Cardinality(G) <= Cardinality(H) + 1
      /\ running' \subseteq running \cup {r} => Cardinality(running') <= Cardinality(running) + 1
  BY <1>1, AtMostOneMore
<1>6. Cardinality(G) + Cardinality(running') <= PoolSize
  <2> DEFINE h == Cardinality(H)
             g == Cardinality(G)
             s == Cardinality(running)
             u == Cardinality(running')
  <2>1. h \in Nat /\ g \in Nat /\ s \in Nat /\ u \in Nat /\ h + s <= PoolSize
    BY <1>2, <1>3
  <2>2. \/ g <= h /\ u <= s
        \/ h + s < PoolSize /\ ((g <= h + 1 /\ u <= s) \/ (g <= h /\ u <= s + 1))
    <3>1. CASE G \subseteq H /\ running' \subseteq running
      BY <3>1, <1>4
    <3>2. CASE Costing!Free > 0 /\ G \subseteq H \cup {r} /\ running' \subseteq running
      BY <3>2, <1>2, <1>3, <1>4, <1>5
    <3>3. CASE Costing!Free > 0 /\ G \subseteq H /\ running' \subseteq running \cup {r}
      BY <3>3, <1>2, <1>3, <1>4, <1>5
    <3> QED BY <3>1, <3>2, <3>3
  <2> HIDE DEF h, g, s, u
  <2>3. g + u <= PoolSize
    BY <2>1, <2>2, <1>2
  <2> QED BY <2>3 DEF g, u
<1>7. PoolSize - Cardinality(G) - Cardinality(running') \in 0 .. PoolSize
  BY <1>2, <1>6
<1> QED BY <1>7, FreeConnectionsNext DEF Counted, G

\* A statement gives its connection back.
LEMMA ThenCounted ==
  ASSUME Costing!Constants, Counted, Carried, NEW r \in Requests, NEW q, Costing!Then(r, q),
         q.holds => req[r].holds
  PROVE  Counted'
<1>1. req' = [req EXCEPT ![r] = q] /\ running' = running \ {r}
  BY DEF Costing!Then, Costing!Go
<1>2. (\A x \in Requests : x # r => req'[x] = req[x]) /\ req'[r] = q
  BY <1>1 DEF Carried
<1>3. {x \in Requests : req'[x].holds} \subseteq {x \in Requests : req[x].holds}
  BY <1>2
<1>4. running' \subseteq {x \in Requests : Costing!Busy(x)'}
  BY <1>1, <1>2 DEF Counted, Costing!Busy
<1> QED BY <1>1, <1>3, <1>4, OneMore

LEMMA GoMarked ==
  ASSUME Carried, Tables, Marked, NEW r \in Requests, NEW q, Costing!Go(r, q), Carries(q, next),
         DOMAIN quantity' \subseteq DOMAIN quantity \cup {next}
  PROVE  Marked'
<1>1. req' = [req EXCEPT ![r] = q]
  BY DEF Costing!Go
<1>2. \A x \in Requests : req'[x].line # next
  BY <1>1, CarriedLine DEF Carried, Tables
<1>3. \A x \in Requests : x # r => req'[x] = req[x]
  BY <1>1 DEF Carried
<1>4. req'[r] = q
  BY <1>1 DEF Carried
<1> QED BY <1>2, <1>3, <1>4 DEF Marked, Costing!Go, Costing!Lines

\* No line's quantity is written; lines may go and one may come.
Kept ==
  /\ DOMAIN quantity' \subseteq DOMAIN quantity \cup {next}
  /\ \A l \in DOMAIN quantity' : l # next => quantity'[l] = quantity[l]
  /\ DOMAIN cost' \subseteq DOMAIN cost
  /\ \A l \in DOMAIN cost' : cost'[l] = cost[l]

LEMMA GoCurrent ==
  ASSUME Carried, Tables, Current, NEW r \in Requests, NEW q, Costing!Go(r, q), Carries(q, next),
         Kept, Knows(q) /\ q.line \in DOMAIN quantity \ overlapped' => quantity[q.line] = q.q
  PROVE  Current'
<1>1. req' = [req EXCEPT ![r] = q] /\ overlapped \subseteq overlapped'
  BY DEF Costing!Go
<1>2. \A x \in Requests : req'[x].line # next
  BY <1>1, CarriedLine DEF Carried, Tables
<1>3. \A x \in Requests : x # r => req'[x] = req[x]
  BY <1>1 DEF Carried
<1>4. req'[r] = q
  BY <1>1 DEF Carried
<1> QED BY <1>1, <1>2, <1>3, <1>4 DEF Current, Kept

LEMMA GoAgree ==
  ASSUME Carried, Tables, Tables', Agree, NEW r \in Requests, NEW q, Costing!Go(r, q), Kept, torn \subseteq torn',
         Past(req[r]) => \/ Past(q) /\ q.line = req[r].line
                         \/ req[r].line \notin DOMAIN cost'
  PROVE  Agree'
<1>1. req' = [req EXCEPT ![r] = q] /\ overlapped \subseteq overlapped'
  BY DEF Costing!Go
<1>2. \A x \in Requests : x # r => req'[x] = req[x]
  BY <1>1 DEF Carried
<1>3. req'[r] = q
  BY <1>1 DEF Carried
<1>4. SUFFICES ASSUME NEW l \in DOMAIN cost' \ (overlapped' \cup torn') 
               PROVE Right(l)' \/ \E x \in Requests : Past(req'[x]) /\ req'[x].line = l
  BY DEF Agree
<1>5. l \in DOMAIN cost \ (overlapped \cup torn) /\ cost'[l] = cost[l]
  BY <1>1 DEF Kept
<1>6. CASE Right(l)
  <2>1. l \in DOMAIN quantity /\ l # next
    BY <1>5 DEF Tables
  <2>2. l \in DOMAIN quantity'
    BY DEF Tables
  <2> QED BY <1>5, <1>6, <2>1, <2>2 DEF Right, Kept
<1>7. CASE \E x \in Requests : Past(req[x]) /\ req[x].line = l
  BY <1>2, <1>3, <1>7
<1> QED BY <1>5, <1>6, <1>7 DEF Agree
\* Money that comes in, or a change of the currency, is noticed by the requests
\* that are about to write one.
LEMMA NoticeStep ==
  ASSUME Noticed, Costing!Notice,
         \A x \in Requests : Costing!At(x, "currency", "write")' =>
           \/ Costing!At(x, "currency", "write") /\ req'[x] = req[x]
           \/ Passed(req[x])'
  PROVE  Noticed'
<1> SUFFICES ASSUME NEW x \in Requests, Costing!At(x, "currency", "write")'
             PROVE  /\ req'[x].why = "checked" /\ Costing!HasRecordedMoney' => x \in priced'
                    /\ req'[x].why = "same" /\ req'[x].to # currency' => x \in crossed'
  BY DEF Noticed
<1>1. CASE Passed(req[x])'
  BY <1>1 DEF Passed
<1>2. CASE Costing!At(x, "currency", "write") /\ req'[x] = req[x]
  <2>1. /\ req[x].why = "checked" /\ Costing!HasRecordedMoney => x \in priced
        /\ req[x].why = "same" /\ req[x].to # currency => x \in crossed
    BY <1>2 DEF Noticed
  <2> DEFINE writing == {o \in Requests : Costing!At(o, "currency", "write")'}
  <2>2. x \in writing
    OBVIOUS
  <2>3. /\ ~Costing!HasRecordedMoney /\ Costing!HasRecordedMoney' => priced' = writing
        /\ Costing!HasRecordedMoney => priced' = priced \cap writing
    BY DEF Costing!Notice
  <2>4. crossed' = IF currency' # currency THEN writing ELSE crossed \cap writing
    BY DEF Costing!Notice
  <2>5. ASSUME req'[x].why = "checked", Costing!HasRecordedMoney' PROVE x \in priced'
    BY <1>2, <2>1, <2>2, <2>3, <2>5
  <2>6. ASSUME req'[x].why = "same", req'[x].to # currency' PROVE x \in crossed'
    <3>1. CASE currency' # currency
      BY <2>2, <2>4, <3>1
    <3>2. CASE currency' = currency
      BY <1>2, <2>1, <2>2, <2>4, <2>6, <3>2
    <3> QED BY <3>1, <3>2
  <2> QED BY <2>5, <2>6
<1> QED BY <1>1, <1>2

\* What a step of request r to q that writes no quantity and no cost leaves true.
LEMMA QuietStep ==
  ASSUME Costing!Constants, CostingInv, Tables', Counted', Costing!Notice, NEW r \in Requests, NEW q,
         Carries(q, next), next' \in {next, next + 1}, Costing!Go(r, q), Kept, torn \subseteq torn',
         Knows(q) /\ q.line \in DOMAIN quantity \ overlapped' => quantity[q.line] = q.q,
         Past(req[r]) => \/ Past(q) /\ q.line = req[r].line
                         \/ req[r].line \notin DOMAIN cost',
         q.op = "currency" /\ q.pc = "write" => Passed(q)'
  PROVE  CostingInv'
<1>1. Carried'
  <2>1. next' \in Nat /\ next' >= next
    BY DEF CostingInv, Tables
  <2> QED BY <2>1, GoCarried DEF CostingInv
<1>3. Marked'
  BY GoMarked DEF CostingInv, Kept
<1>4. Current'
  BY GoCurrent DEF CostingInv
<1>5. Agree'
  BY GoAgree DEF CostingInv
<1>6. Noticed'
  <2>1. req' = [req EXCEPT ![r] = q] /\ req \in [Requests -> RequestRec]
    BY DEF Costing!Go, CostingInv, Carried
  <2>2. req'[r] = q /\ \A x \in Requests : x # r => req'[x] = req[x]
    BY <2>1
  <2>3. q.op = "currency" /\ q.pc = "write" => Passed(req[r])'
    BY <2>2 DEF Passed
  <2>4. \A x \in Requests : Costing!At(x, "currency", "write")' =>
           \/ Costing!At(x, "currency", "write") /\ req'[x] = req[x]
           \/ Passed(req[x])'
    BY <2>2, <2>3 DEF Costing!At
  <2> QED BY <2>4, NoticeStep DEF CostingInv
<1> QED BY <1>1, <1>3, <1>4, <1>5, <1>6 DEF CostingInv

LEMMA NothingWritten ==
  ASSUME UNCHANGED <<quantity, cost>>
  PROVE  Kept
BY DEF Kept

\* A request comes in.
LEMMA ArriveStep ==
  ASSUME Costing!Constants, CostingInv, Costing!Notice, NEW r \in Requests,
         NEW op \in Costing!Operations, Costing!Arrive(r, op)
  PROVE  CostingInv'
<1> USE DEF Costing!Arrive, Costing!tables
<1>1. PICK q : q = [Costing!Idle EXCEPT !.op = op, !.pc = "read"] /\ Costing!Go(r, q)
  OBVIOUS
<1>2. q = [op |-> op, pc |-> "read", line |-> 0, q |-> None, unit |-> None, to |-> None,
           why |-> None, holds |-> FALSE, todo |-> 0]
  BY <1>1 DEF Costing!Idle
<1>3. Tables' /\ Kept
  BY NothingWritten DEF CostingInv, Tables, Costing!Constants
<1>4. Carries(q, next) /\ ~Knows(q) /\ ~(q.op = "currency" /\ q.pc = "write") /\ ~q.holds
  BY <1>2 DEF Carries, RequestRec, Knows, CostingInv, Tables, Costing!Operations
<1>5. ~Past(req[r])
  BY IdleIsNotPast DEF Costing!Busy
<1>6. Counted'
  <2>1. req' = [req EXCEPT ![r] = q] /\ req \in [Requests -> RequestRec] /\ running' = running
    BY <1>1 DEF Costing!Go, CostingInv, Carried
  <2>2. req'[r] = q /\ \A x \in Requests : x # r => req'[x] = req[x]
    BY <2>1
  <2>3. {x \in Requests : req'[x].holds} \subseteq {x \in Requests : req[x].holds}
    BY <1>4, <2>2
  <2>4. q # Costing!Idle
    BY <1>2 DEF Costing!Idle
  <2>5. running' \subseteq {x \in Requests : Costing!Busy(x)'}
    BY <2>1, <2>2, <2>4 DEF CostingInv, Counted, Costing!Busy
  <2> QED BY <2>1, <2>3, <2>5, OneMore DEF CostingInv
<1> QED BY <1>1, <1>3, <1>4, <1>5, <1>6, QuietStep DEF CostingInv

\* A statement gets a connection.
LEMMA GetStep ==
  ASSUME Costing!Constants, CostingInv, Costing!Notice, NEW r \in Requests, Costing!Get(r)
  PROVE  CostingInv'
<1> USE DEF Costing!Get, Costing!tables
<1>1. Tables' /\ Kept
  BY NothingWritten DEF CostingInv, Tables
<1>2. Carried' /\ Marked' /\ Current' /\ Agree'
  BY DEF CostingInv, Carried, Marked, Current, Agree, Right
<1>3. Counted'
  <2>1. running' \subseteq {x \in Requests : Costing!Busy(x)'}
    BY DEF CostingInv, Counted, Costing!Busy
  <2> QED BY <2>1, OneMore DEF CostingInv
<1>4. Noticed'
  <2>1. \A x \in Requests : Costing!At(x, "currency", "write")' =>
          Costing!At(x, "currency", "write") /\ req'[x] = req[x]
    BY DEF Costing!At
  <2> QED BY <2>1, NoticeStep DEF CostingInv
<1> QED BY <1>1, <1>2, <1>3, <1>4 DEF CostingInv
-------------------------------------------------------------------------------
\* Request r goes on as q.
LEMMA ThenStep ==
  ASSUME Costing!Constants, CostingInv, Tables', Costing!Notice, NEW r \in Requests, NEW q, Costing!Then(r, q),
         Carries(q, next), next' \in {next, next + 1}, Kept, q.holds => req[r].holds,
         Knows(q) /\ q.line \in DOMAIN quantity \ overlapped' => quantity[q.line] = q.q,
         Past(req[r]) => \/ Past(q) /\ q.line = req[r].line
                         \/ req[r].line \notin DOMAIN cost',
         q.op = "currency" /\ q.pc = "write" => Passed(q)'
  PROVE  CostingInv'
<1>1. Costing!Go(r, q) /\ torn \subseteq torn'
  BY DEF Costing!Then
<1>2. Counted'
  BY ThenCounted DEF CostingInv
<1> QED BY <1>1, <1>2, QuietStep

\* The first statement of r, which goes on as q.
LEMMA FirstStep ==
  ASSUME Costing!Constants, CostingInv, Costing!Notice, NEW r \in Requests, NEW op, NEW q,
         Costing!First(r, op, q), UNCHANGED <<Costing!tables, next>>, Carries(q, next),
         q.holds => req[r].holds,
         Knows(q) => q.line \in DOMAIN quantity /\ quantity[q.line] = q.q,
         q.op = "currency" /\ q.pc = "write" => Passed(q)'
  PROVE  CostingInv'
<1> USE DEF Costing!First, Costing!At, Costing!tables
<1>1. Tables' /\ Kept /\ next' = next
  BY NothingWritten DEF CostingInv, Tables, Costing!Then
<1>2. ~Past(req[r])
  BY DEF Past
<1> QED BY <1>1, <1>2, ThenStep

LEMMA UpdateResourceLineStep ==
  ASSUME Costing!Constants, CostingInv, Costing!Notice, NEW r \in Requests, NEW l \in DOMAIN quantity,
         NEW q \in Quantities \cup {None}, Costing!UpdateResourceLine(r, l, q)
  PROVE  CostingInv'
<1>0. PICK n : /\ n = [req[r] EXCEPT !.pc = "write", !.line = l,
                           !.q = IF q = None THEN quantity[l] ELSE q, !.to = q]
               /\ Costing!First(r, "update", n) /\ UNCHANGED <<Costing!tables, next>>
  BY DEF Costing!UpdateResourceLine
<1>1. l \in Nat /\ l < next /\ quantity[l] \in Quantities
  BY DEF CostingInv, Tables
<1>2. req[r] \in RequestRec /\ Carries(req[r], next) /\ req[r].op = "update"
  BY <1>0 DEF CostingInv, Carried, Costing!First, Costing!At
<1>3. /\ n \in RequestRec /\ n.op = "update" /\ n.pc = "write" /\ n.line = l /\ n.to = q
      /\ n.q = (IF q = None THEN quantity[l] ELSE q) /\ n.holds = req[r].holds
  BY <1>0, <1>1, <1>2 DEF RequestRec
<1>4. Carries(n, next)
  BY <1>1, <1>3 DEF Carries
<1>5. Knows(n) => n.line \in DOMAIN quantity /\ quantity[n.line] = n.q
  BY <1>3 DEF Knows
<1> QED BY <1>0, <1>3, <1>4, <1>5, FirstStep

LEMMA SetResourceCostStep ==
  ASSUME Costing!Constants, CostingInv, Costing!Notice, NEW r \in Requests, NEW l \in DOMAIN quantity,
         NEW u \in Prices, Costing!SetResourceCost(r, l, u)
  PROVE  CostingInv'
<1>0. PICK n : /\ n = [req[r] EXCEPT !.pc = "check", !.line = l, !.unit = u, !.q = quantity[l]]
               /\ Costing!First(r, "price", n) /\ UNCHANGED <<Costing!tables, next>>
  BY DEF Costing!SetResourceCost
<1>1. l \in Nat /\ l < next /\ quantity[l] \in Quantities
  BY DEF CostingInv, Tables
<1>2. req[r] \in RequestRec /\ Carries(req[r], next) /\ req[r].op = "price"
  BY <1>0 DEF CostingInv, Carried, Costing!First, Costing!At
<1>3. /\ n \in RequestRec /\ n.op = "price" /\ n.pc = "check" /\ n.line = l /\ n.unit = u
      /\ n.q = quantity[l] /\ n.holds = req[r].holds
  BY <1>0, <1>1, <1>2 DEF RequestRec
<1>4. Carries(n, next) /\ (Knows(n) => n.line \in DOMAIN quantity /\ quantity[n.line] = n.q)
  BY <1>1, <1>3 DEF Carries
<1> QED BY <1>0, <1>3, <1>4, FirstStep

LEMMA DeleteResourceLineStep ==
  ASSUME Costing!Constants, CostingInv, Costing!Notice, NEW r \in Requests, NEW l \in DOMAIN quantity,
         Costing!DeleteResourceLine(r, l)
  PROVE  CostingInv'
<1>0. PICK n : /\ n = [req[r] EXCEPT !.pc = "delete", !.line = l]
               /\ Costing!First(r, "delete", n) /\ UNCHANGED <<Costing!tables, next>>
  BY DEF Costing!DeleteResourceLine
<1>1. l \in Nat /\ l < next
  BY DEF CostingInv, Tables
<1>2. req[r] \in RequestRec /\ Carries(req[r], next) /\ req[r].op = "delete"
  BY <1>0 DEF CostingInv, Carried, Costing!First, Costing!At
<1>3. n \in RequestRec /\ n.op = "delete" /\ n.pc = "delete" /\ n.line = l /\ n.holds = req[r].holds
  BY <1>0, <1>1, <1>2 DEF RequestRec
<1>4. Carries(n, next) /\ ~Knows(n)
  BY <1>1, <1>3 DEF Carries, Knows
<1> QED BY <1>0, <1>3, <1>4, FirstStep

LEMMA AddResourceLineStep ==
  ASSUME Costing!Constants, CostingInv, Costing!Notice, NEW r \in Requests, Costing!AddResourceLine(r)
  PROVE  CostingInv'
<1>0. PICK n : /\ n = [req[r] EXCEPT !.pc = "insert"]
               /\ Costing!First(r, "add", n) /\ UNCHANGED <<Costing!tables, next>>
  BY DEF Costing!AddResourceLine
<1>2. req[r] \in RequestRec /\ Carries(req[r], next) /\ req[r].op = "add"
  BY <1>0 DEF CostingInv, Carried, Costing!First, Costing!At
<1>3. n \in RequestRec /\ n.op = "add" /\ n.pc = "insert" /\ n.line = req[r].line /\ n.holds = req[r].holds
  BY <1>0, <1>2 DEF RequestRec
<1>4. Carries(n, next) /\ ~Knows(n)
  BY <1>2, <1>3 DEF Carries, Knows
<1> QED BY <1>0, <1>3, <1>4, FirstStep

LEMMA AddResourcesToEventStep ==
  ASSUME Costing!Constants, CostingInv, Costing!Notice, NEW r \in Requests, Costing!AddResourcesToEvent(r)
  PROVE  CostingInv'
<1>0. PICK n : /\ n = [req[r] EXCEPT !.pc = "acquire", !.todo = ListLength]
               /\ Costing!First(r, "replace", n) /\ UNCHANGED <<Costing!tables, next>>
  BY DEF Costing!AddResourcesToEvent
<1>2. req[r] \in RequestRec /\ Carries(req[r], next) /\ req[r].op = "replace" /\ ListLength \in Int
  BY <1>0 DEF CostingInv, Carried, Costing!First, Costing!At, Costing!Constants
<1>3. n \in RequestRec /\ n.op = "replace" /\ n.pc = "acquire" /\ n.line = req[r].line /\ n.holds = req[r].holds
  BY <1>0, <1>2 DEF RequestRec
<1>4. Carries(n, next) /\ ~Knows(n)
  BY <1>2, <1>3 DEF Carries, Knows
<1> QED BY <1>0, <1>3, <1>4, FirstStep

\* A live school whose currency would change goes on to the money check; another
\* one passes because it is not live, or because it keeps its currency.
LEMMA ReadProfileStep ==
  ASSUME Costing!Constants, CostingInv, Costing!Notice, NEW r \in Requests, NEW c \in Currencies,
         Costing!ReadProfile(r, c)
  PROVE  CostingInv'
<1> DEFINE why == IF ~live THEN "setup" ELSE IF c = currency THEN "same" ELSE "checked"
<1>0. PICK n : /\ n = [req[r] EXCEPT !.to = c, !.why = why,
                                     !.pc = IF why = "checked" THEN "check" ELSE "write"]
               /\ Costing!First(r, "currency", n) /\ UNCHANGED <<Costing!tables, next>>
  BY DEF Costing!ReadProfile
<1>1. why \in {"setup", "same", "checked"} /\ (why = "same" => c = currency)
  OBVIOUS
<1>2. req[r] \in RequestRec /\ Carries(req[r], next) /\ req[r].op = "currency"
  BY <1>0 DEF CostingInv, Carried, Costing!First, Costing!At
<1> HIDE DEF why
<1>3. /\ n \in RequestRec /\ n.op = "currency" /\ n.line = req[r].line /\ n.holds = req[r].holds
      /\ n.pc = (IF why = "checked" THEN "check" ELSE "write") /\ n.to = c /\ n.why = why
  BY <1>0, <1>1, <1>2 DEF RequestRec
<1>4. Carries(n, next) /\ ~Knows(n)
  BY <1>1, <1>2, <1>3 DEF Carries, Knows
<1>5. n.pc = "write" => Passed(n)'
  <2>1. currency' = currency
    BY <1>0 DEF Costing!tables
  <2> QED BY <1>1, <1>3, <2>1 DEF Passed
<1> QED BY <1>0, <1>3, <1>4, <1>5, FirstStep

\* Request r ends.
LEMMA EndStep ==
  ASSUME Costing!Constants, CostingInv, Tables', Costing!Notice, NEW r \in Requests,
         Costing!Then(r, Costing!Idle), next' \in {next, next + 1}, Kept,
         Past(req[r]) => req[r].line \notin DOMAIN cost'
  PROVE  CostingInv'
<1>1. PICK q : q = Costing!Idle
  OBVIOUS
<1>2. Carries(q, next)
  BY <1>1, IdleCarries DEF CostingInv, Tables
<1>3. ~Knows(q) /\ ~(q.op = "currency" /\ q.pc = "write") /\ ~q.holds
  BY <1>1 DEF Costing!Idle, Knows
<1> QED BY <1>1, <1>2, <1>3, ThenStep

LEMMA RefuseStep ==
  ASSUME Costing!Constants, CostingInv, Costing!Notice, NEW r \in Requests, Costing!Refuse(r)
  PROVE  CostingInv'
<1> USE DEF Costing!Refuse, Costing!tables
<1>1. Tables' /\ Kept
  BY NothingWritten DEF CostingInv, Tables, Costing!Then
<1> QED BY <1>1, EndStep DEF Past

\* Request r goes on at another place with what it carries.
LEMMA ToStep ==
  ASSUME Costing!Constants, CostingInv, Tables', Costing!Notice, NEW r \in Requests,
         NEW place \in {"write cost", "clear", "insert"},
         Costing!To(r, place), next' = next, Kept, req[r].pc # "read",
         Past(req[r]) => place = "write cost", Knows([req[r] EXCEPT !.pc = place]) => Knows(req[r]),
         place = "write cost" => req[r].op \in {"update", "price"} /\ req[r].unit \in Prices
  PROVE  CostingInv'
<1>1. PICK q : q = [req[r] EXCEPT !.pc = place] /\ Costing!Then(r, q)
  BY DEF Costing!To
<1>2. req[r] \in RequestRec /\ Carries(req[r], next)
  BY DEF CostingInv, Carried
<1>3. q \in RequestRec /\ q.op = req[r].op /\ q.line = req[r].line /\ q.q = req[r].q /\ q.unit = req[r].unit
      /\ q.to = req[r].to /\ q.pc = place /\ q.why = req[r].why /\ q.holds = req[r].holds
  BY <1>1, <1>2 DEF RequestRec
<1>4. Carries(q, next)
  BY <1>2, <1>3 DEF Carries
<1>5. overlapped \subseteq overlapped'
  BY <1>1 DEF Costing!Then, Costing!Go
<1>6. Knows(q) /\ q.line \in DOMAIN quantity \ overlapped' => quantity[q.line] = q.q
  BY <1>1, <1>3, <1>5 DEF CostingInv, Current
<1>7. Past(req[r]) => Past(q) /\ q.line = req[r].line
  BY <1>3 DEF Past
<1> QED BY <1>1, <1>3, <1>4, <1>6, <1>7, ThenStep

LEMMA GetResourceCostStep ==
  ASSUME Costing!Constants, CostingInv, Costing!Notice, NEW r \in Requests, Costing!GetResourceCost(r)
  PROVE  CostingInv'
<1> USE DEF Costing!GetResourceCost, Costing!At, Costing!tables
<1>1. Tables' /\ Kept /\ next' = next
  BY NothingWritten DEF CostingInv, Tables, Costing!Then
<1>2. CASE req[r].line \in DOMAIN cost
  <2>1. PICK q : q = [req[r] EXCEPT !.pc = "write cost", !.unit = cost[req[r].line].unit] /\ Costing!Then(r, q)
    BY <1>2
  <2>2. req[r] \in RequestRec /\ Carries(req[r], next) /\ cost[req[r].line].unit \in Prices
    BY <1>2 DEF CostingInv, Carried, Tables
  <2>3. q \in RequestRec /\ q.op = "update" /\ q.line = req[r].line /\ q.q = req[r].q /\ q.unit \in Prices
        /\ q.pc = "write cost" /\ q.holds = req[r].holds
    BY <2>1, <2>2 DEF RequestRec
  <2>4. Carries(q, next)
    BY <2>2, <2>3 DEF Carries
  <2>5. overlapped \subseteq overlapped'
    BY <2>1 DEF Costing!Then, Costing!Go
  <2>6. Knows(q) /\ q.line \in DOMAIN quantity \ overlapped' => quantity[q.line] = q.q
    BY <2>3, <2>5 DEF CostingInv, Current, Knows
  <2> QED BY <1>1, <2>1, <2>3, <2>4, <2>6, ThenStep DEF Past
<1>3. CASE req[r].line \notin DOMAIN cost
  <2>1. Costing!Then(r, Costing!Idle)
    BY <1>3
  <2> QED BY <1>1, <1>3, <2>1, EndStep
<1> QED BY <1>2, <1>3

LEMMA PricingAllowedStep ==
  ASSUME Costing!Constants, CostingInv, Costing!Notice, NEW r \in Requests, Costing!PricingAllowed(r)
  PROVE  CostingInv'
<1> USE DEF Costing!PricingAllowed, Costing!At, Costing!tables
<1>1. Tables' /\ Kept /\ next' = next
  BY NothingWritten DEF CostingInv, Tables, Costing!Then, Costing!To
<1>2. ~Past(req[r]) /\ Knows(req[r]) /\ req[r].unit \in Prices
  BY DEF Past, Knows, CostingInv, Carried, Carries
<1>3. CASE Costing!Then(r, Costing!Idle)
  BY <1>1, <1>2, <1>3, EndStep
<1>4. CASE Costing!To(r, "write cost")
  BY <1>1, <1>2, <1>4, ToStep
<1> QED BY <1>3, <1>4

\* A fresh line has no cost and no request.
LEMMA PutLine ==
  ASSUME Tables, NEW q \in Quantities, quantity' = Costing!Put(quantity, next, q), next' = next + 1,
         UNCHANGED <<status, cost, tickets, currency, live, sent>>
  PROVE  Tables' /\ Kept
<1>1. DOMAIN quantity' = DOMAIN quantity \cup {next}
  BY DEF Costing!Put
<1>2. \A l \in DOMAIN quantity : l # next /\ quantity'[l] = quantity[l]
  BY DEF Costing!Put, Tables
<1>3. quantity'[next] = q
  BY DEF Costing!Put
<1>4. quantity' \in [DOMAIN quantity' -> Quantities]
  BY DEF Costing!Put, Tables
<1>5. DOMAIN quantity' \subseteq 1 .. next' - 1
  BY <1>1 DEF Tables
<1> QED BY <1>1, <1>2, <1>4, <1>5 DEF Tables, Kept

LEMMA CreateResourceStep ==
  ASSUME Costing!Constants, CostingInv, Costing!Notice, NEW r \in Requests, NEW q \in Quantities,
         Costing!CreateResource(r, q)
  PROVE  CostingInv'
<1> USE DEF Costing!CreateResource, Costing!At
<1>1. sent' = sent
  BY DEF Costing!Then
<1>2. CASE status = "none"
  <2>1. Tables' /\ Kept /\ next' = next
    BY <1>1, <1>2, NothingWritten DEF CostingInv, Tables
  <2> QED BY <2>1, EndStep DEF Past
<1>3. CASE status # "none"
  <2>1. Tables' /\ Kept /\ next' = next + 1
    BY <1>1, <1>3, PutLine DEF CostingInv
  <2> QED BY <2>1, EndStep DEF Past
<1> QED BY <1>2, <1>3

LEMMA InsertLineStep ==
  ASSUME Costing!Constants, CostingInv, Costing!Notice, NEW r \in Requests, NEW q \in Quantities,
         Costing!InsertLine(r, q)
  PROVE  CostingInv'
<1> USE DEF Costing!InsertLine, Costing!At
<1>1. CASE status = "none"
  <2>1. Tables' /\ Kept /\ next' = next
    BY <1>1, NothingWritten DEF CostingInv, Tables, Costing!Then
  <2> QED BY <1>1, <2>1, EndStep DEF Past
<1>2. CASE status # "none"
  <2>0. sent' = sent
    BY <1>2 DEF Costing!Then
  <2>1. Tables' /\ Kept /\ next' = next + 1
    BY <1>2, <2>0, PutLine DEF CostingInv
  <2>2. CASE req[r].todo = 1
    BY <1>2, <2>1, <2>2, EndStep DEF Past
  <2>3. CASE req[r].todo # 1
    <3>1. PICK n : n = [req[r] EXCEPT !.todo = @ - 1] /\ Costing!Then(r, n)
      BY <1>2, <2>3
    <3>2. req[r] \in RequestRec /\ Carries(req[r], next)
      BY DEF CostingInv, Carried
    <3>3. n \in RequestRec /\ n.op = "replace" /\ n.line = req[r].line /\ n.pc = "insert"
          /\ n.holds = req[r].holds
      <4>0. req[r].todo \in Int
        BY <3>2 DEF RequestRec
      <4>1. req[r].todo - 1 \in Int
        BY <4>0
      <4>2. n = [req[r] EXCEPT !.todo = req[r].todo - 1] /\ req[r].op = "replace" /\ req[r].pc = "insert"
        BY <3>1
      <4> QED BY <3>2, <4>1, <4>2 DEF RequestRec
    <3>4. Carries(n, next) /\ ~Knows(n) /\ ~Past(req[r])
      BY <3>2, <3>3 DEF Carries, Knows, Past
    <3> QED BY <2>1, <3>1, <3>3, <3>4, ThenStep
  <2> QED BY <2>2, <2>3
<1> QED BY <1>1, <1>2
\* Lines that go take their costs along.
LEMMA FewerLines ==
  ASSUME Tables, NEW ls, quantity' = Costing!Without(quantity, ls), cost' = Costing!Without(cost, ls),
         next' = next, status' \in {"draft", "proposed", "approved", "published", "none"},
         tickets' \in BOOLEAN, UNCHANGED <<currency, live, sent>>
  PROVE  Tables' /\ Kept
<1>1. DOMAIN quantity' = DOMAIN quantity \ ls /\ DOMAIN cost' = DOMAIN cost \ ls
  BY DEF Costing!Without
<1>2. /\ \A l \in DOMAIN quantity' : quantity'[l] = quantity[l]
      /\ \A l \in DOMAIN cost' : cost'[l] = cost[l]
  BY DEF Costing!Without
<1>3. quantity' \in [DOMAIN quantity' -> Quantities]
  BY <1>1 DEF Costing!Without, Tables
<1>4. cost' \in [DOMAIN cost' -> [unit : Prices, total : Nat]]
  BY <1>1 DEF Costing!Without, Tables
<1> QED BY <1>1, <1>2, <1>3, <1>4 DEF Tables, Kept

LEMMA NoLines ==
  ASSUME Tables, quantity' = <<>>, cost' = <<>>, next' = next,
         status' \in {"draft", "proposed", "approved", "published", "none"},
         tickets' \in BOOLEAN, UNCHANGED <<currency, live, sent>>
  PROVE  Tables' /\ Kept
<1>1. DOMAIN quantity' = {} /\ DOMAIN cost' = {}
  OBVIOUS
<1>2. quantity' \in [DOMAIN quantity' -> Quantities] /\ cost' \in [DOMAIN cost' -> [unit : Prices, total : Nat]]
  BY <1>1
<1> QED BY <1>1, <1>2 DEF Tables, Kept

LEMMA DeleteResourceStep ==
  ASSUME Costing!Constants, CostingInv, Costing!Notice, NEW r \in Requests, Costing!DeleteResource(r)
  PROVE  CostingInv'
<1> USE DEF Costing!DeleteResource, Costing!At
<1>1. Tables' /\ Kept
  BY FewerLines DEF CostingInv, Tables, Costing!Then
<1> QED BY <1>1, EndStep DEF Past

LEMMA AcquireStep ==
  ASSUME Costing!Constants, CostingInv, Costing!Notice, NEW r \in Requests, Costing!Acquire(r)
  PROVE  CostingInv'
<1> USE DEF Costing!Acquire, Costing!At, Costing!tables
<1>1. Tables' /\ Kept
  BY NothingWritten DEF CostingInv, Tables
<1>2. PICK n : n = [req[r] EXCEPT !.pc = "check", !.holds = TRUE] /\ Costing!Go(r, n)
  OBVIOUS
<1>3. req[r] \in RequestRec /\ Carries(req[r], next)
  BY DEF CostingInv, Carried
<1>4. n \in RequestRec /\ n.op = "replace" /\ n.line = req[r].line /\ n.pc = "check"
  BY <1>2, <1>3 DEF RequestRec
<1>5. Carries(n, next) /\ ~Knows(n) /\ ~Past(req[r])
  BY <1>3, <1>4 DEF Carries, Knows, Past
<1>6. Counted'
  <2>1. req' = [req EXCEPT ![r] = n] /\ req \in [Requests -> RequestRec]
    BY <1>2 DEF Costing!Go, CostingInv, Carried
  <2>2. req'[r] = n /\ \A x \in Requests : x # r => req'[x] = req[x]
    BY <2>1
  <2>3. {x \in Requests : req'[x].holds} \subseteq {x \in Requests : req[x].holds} \cup {r}
    BY <2>2
  <2>4. n # Costing!Idle
    BY <1>4 DEF Costing!Idle
  <2>5. running' \subseteq {x \in Requests : Costing!Busy(x)'}
    BY <2>2, <2>4 DEF CostingInv, Counted, Costing!Busy
  <2> QED BY <2>3, <2>5, OneMore DEF CostingInv
<1> QED BY <1>1, <1>2, <1>4, <1>5, <1>6, QuietStep DEF CostingInv

LEMMA RecheckStatusStep ==
  ASSUME Costing!Constants, CostingInv, Costing!Notice, NEW r \in Requests, Costing!RecheckStatus(r)
  PROVE  CostingInv'
<1> USE DEF Costing!RecheckStatus, Costing!At, Costing!tables
<1>1. Tables' /\ Kept
  BY NothingWritten DEF CostingInv, Tables, Costing!Then, Costing!To
<1>2. ~Past(req[r]) /\ ~Knows([req[r] EXCEPT !.pc = "clear"])
  BY DEF Past, Knows, CostingInv, Carried, RequestRec
<1>3. CASE Costing!To(r, "clear")
  BY <1>1, <1>2, <1>3, ToStep
<1>4. CASE Costing!Then(r, Costing!Idle)
  BY <1>1, <1>2, <1>4, EndStep
<1> QED BY <1>3, <1>4

LEMMA DeleteResourcesForEventStep ==
  ASSUME Costing!Constants, CostingInv, Costing!Notice, NEW r \in Requests, Costing!DeleteResourcesForEvent(r)
  PROVE  CostingInv'
<1> USE DEF Costing!DeleteResourcesForEvent, Costing!At
<1>1. Tables' /\ Kept
  BY NoLines DEF CostingInv, Tables, Costing!Then, Costing!To
<1>2. ~Past(req[r]) /\ ~Knows([req[r] EXCEPT !.pc = "insert"])
  BY DEF Past, Knows, CostingInv, Carried, RequestRec
<1> QED BY <1>1, <1>2, ToStep

LEMMA MoneyCheckedStep ==
  ASSUME Costing!Constants, CostingInv, Costing!Notice, NEW r \in Requests, Costing!MoneyChecked(r)
  PROVE  CostingInv'
<1> USE DEF Costing!MoneyChecked, Costing!At, Costing!tables
<1>1. Tables' /\ Kept
  BY NothingWritten DEF CostingInv, Tables, Costing!Then, Costing!To
<1>2. ~Past(req[r])
  BY DEF Past
<1>3. CASE Costing!HasRecordedMoney
  BY <1>1, <1>2, <1>3, EndStep
<1>4. CASE ~Costing!HasRecordedMoney
  <2>1. PICK q : q = [req[r] EXCEPT !.pc = "write"] /\ Costing!Then(r, q)
    BY <1>4 DEF Costing!To
  <2>2. req[r] \in RequestRec /\ Carries(req[r], next) /\ req[r].why = "checked"
    BY DEF CostingInv, Carried, Carries
  <2>3. q \in RequestRec /\ q.op = "currency" /\ q.pc = "write" /\ q.line = req[r].line /\ q.to = req[r].to
        /\ q.why = "checked" /\ q.holds = req[r].holds
    BY <2>1, <2>2 DEF RequestRec
  <2>4. Carries(q, next) /\ ~Knows(q)
    BY <2>2, <2>3 DEF Carries, Knows
  <2>5. ~Costing!HasRecordedMoney'
    BY <1>4 DEF Costing!HasRecordedMoney
  <2>6. Passed(q)'
    BY <2>3, <2>5 DEF Passed
  <2> QED BY <1>1, <1>2, <2>1, <2>3, <2>4, <2>6, ThenStep
<1> QED BY <1>3, <1>4

LEMMA UpdateCurrencyStep ==
  ASSUME Costing!Constants, CostingInv, Costing!Notice, NEW r \in Requests, Costing!UpdateCurrency(r)
  PROVE  CostingInv'
<1> USE DEF Costing!UpdateCurrency, Costing!At
<1>1. req[r].to \in Currencies
  BY DEF CostingInv, Carried, Carries
<1>2. Tables' /\ Kept
  BY <1>1, NothingWritten DEF CostingInv, Tables, Costing!Then
<1> QED BY <1>2, EndStep DEF Past

\* The quantity is written; the total follows in later statements.
LEMMA UpdateResourceStep ==
  ASSUME Costing!Constants, CostingInv, Costing!Notice, NEW r \in Requests, Costing!UpdateResource(r)
  PROVE  CostingInv'
<1>a. next \in Nat /\ next' = next
  BY DEF Costing!UpdateResource, CostingInv, Tables
<1>b. next' \in Nat /\ next' >= next
  BY <1>a
<1> USE DEF Costing!UpdateResource, Costing!At
<1>1. req[r] \in RequestRec /\ Carries(req[r], next)
  BY DEF CostingInv, Carried
<1>2. PICK q : /\ Costing!Then(r, q)
               /\ q = IF req[r].to = None THEN Costing!Idle ELSE [req[r] EXCEPT !.pc = "read cost"]
  BY DEF Costing!To
<1>3. /\ Carries(q, next) /\ (q.holds => req[r].holds) /\ ~(q.op = "currency" /\ q.pc = "write")
      /\ Knows(q) => q.line = req[r].line /\ q.q = req[r].q
      /\ req[r].to # None => Past(q) /\ q.line = req[r].line
  <2>1. CASE req[r].to = None
    <3>1. q = Costing!Idle
      BY <1>2, <2>1
    <3> QED BY <3>1, <2>1, IdleCarries DEF CostingInv, Tables, Costing!Idle, Knows
  <2>2. CASE req[r].to # None
    <3>1. q = [req[r] EXCEPT !.pc = "read cost"]
      BY <1>2, <2>2
    <3>2. q \in RequestRec /\ q.op = "update" /\ q.line = req[r].line /\ q.q = req[r].q /\ q.pc = "read cost"
          /\ q.unit = req[r].unit /\ q.holds = req[r].holds
      BY <3>1, <1>1 DEF RequestRec
    <3> QED BY <1>1, <3>2, <2>2 DEF Carries, Past
  <2> QED BY <2>1, <2>2
<1>4. Costing!Go(r, q) /\ UNCHANGED <<sent, torn>>
  BY <1>2 DEF Costing!Then
<1>5. req' = [req EXCEPT ![r] = q] /\ overlapped \subseteq overlapped' /\ req \in [Requests -> RequestRec]
  BY <1>4 DEF Costing!Go, CostingInv, Carried
<1>6. (\A x \in Requests : x # r => req'[x] = req[x]) /\ req'[r] = q
  BY <1>5
<1>7. /\ DOMAIN quantity' = DOMAIN quantity
      /\ \A l \in DOMAIN quantity : l # req[r].line => quantity'[l] = quantity[l]
      /\ req[r].line \in DOMAIN quantity => quantity'[req[r].line] = req[r].q
  BY DEF Costing!Lines, CostingInv, Tables
<1>8. Tables'
  <2>1. quantity' \in [DOMAIN quantity' -> Quantities]
    BY <1>1 DEF CostingInv, Tables, Carries, Costing!Lines
  <2> QED BY <2>1, <1>4, <1>7 DEF CostingInv, Tables
<1>9. Carried' /\ Counted' /\ Marked'
  BY <1>b, <1>2, <1>3, <1>4, <1>7, GoCarried, ThenCounted, GoMarked DEF CostingInv
<1>10. Noticed'
  <2>1. \A x \in Requests : Costing!At(x, "currency", "write")' =>
          Costing!At(x, "currency", "write") /\ req'[x] = req[x]
    BY <1>3, <1>6
  <2> QED BY <2>1, NoticeStep DEF CostingInv
<1>11. Current'
  <2> SUFFICES ASSUME NEW x \in Requests, Knows(req'[x]), req'[x].line \in DOMAIN quantity' \ overlapped'
               PROVE  quantity'[req'[x].line] = req'[x].q
    BY DEF Current
  <2>1. CASE x = r
    BY <2>1, <1>3, <1>6, <1>7
  <2>2. CASE x # r
    <3>1. req'[x] = req[x] /\ req[x].line \in DOMAIN quantity \ overlapped
      BY <2>2, <1>5, <1>6, <1>7
    <3>2. req[x].line # req[r].line
      BY <2>2, <3>1 DEF CostingInv, Marked
    <3> QED BY <3>1, <3>2, <1>7 DEF CostingInv, Current
  <2> QED BY <2>1, <2>2
<1>12. Agree'
  <2> SUFFICES ASSUME NEW l \in DOMAIN cost' \ (overlapped' \cup torn')
               PROVE  Right(l)' \/ \E x \in Requests : Past(req'[x]) /\ req'[x].line = l
    BY DEF Agree
  <2>1. cost' = cost /\ l \in DOMAIN cost \ (overlapped \cup torn) /\ l \in DOMAIN quantity
    BY <1>4, <1>5 DEF CostingInv, Tables
  <2>2. CASE \E x \in Requests : Past(req[x]) /\ req[x].line = l
    BY <2>2, <1>6 DEF Past
  <2>3. CASE Right(l) /\ quantity'[l] = quantity[l]
    BY <2>1, <2>3 DEF Right
  <2>4. CASE quantity'[l] # quantity[l]
    <3>1. l = req[r].line /\ quantity[l] # req[r].q
      BY <2>1, <2>4, <1>7
    <3>2. ~Knows(req[r])
      BY <2>1, <3>1 DEF CostingInv, Current
    <3>3. req[r].to # None
      BY <3>2 DEF Knows
    <3> QED BY <3>1, <3>3, <1>3, <1>6
  <2> QED BY <2>1, <2>2, <2>3, <2>4 DEF CostingInv, Agree
<1> QED BY <1>8, <1>9, <1>10, <1>11, <1>12 DEF CostingInv

\* The price written is the total's, and the quantity the line's unless somebody
\* else works on it.
LEMMA SetResourceCostRowStep ==
  ASSUME Costing!Constants, CostingInv, Costing!Notice, NEW r \in Requests, Costing!SetResourceCostRow(r)
  PROVE  CostingInv'
<1> DEFINE row == [unit |-> req[r].unit, total |-> req[r].unit * req[r].q]
<1>1. /\ req[r].pc = "write cost" /\ Costing!Then(r, Costing!Idle)
      /\ cost' = IF req[r].line \in DOMAIN quantity THEN Costing!Put(cost, req[r].line, row) ELSE cost
      /\ UNCHANGED <<status, quantity, tickets, currency, live, next>>
  BY DEF Costing!SetResourceCostRow, Costing!Lines
<1>2. req[r] \in RequestRec /\ Carries(req[r], next)
  BY DEF CostingInv, Carried
<1>3. row \in [unit : Prices, total : Nat] /\ Knows(req[r])
  <2>1. req[r].unit \in Prices /\ req[r].q \in Quantities /\ Knows(req[r])
    BY <1>1, <1>2 DEF Carries, Knows
  <2>2. req[r].unit \in Nat /\ req[r].q \in Nat
    BY <2>1 DEF Costing!Constants
  <2>3. req[r].unit * req[r].q \in Nat
    BY <2>2
  <2> QED BY <2>1, <2>3
<1>4. PICK q : q = Costing!Idle
  OBVIOUS
<1>5. Costing!Go(r, q) /\ UNCHANGED <<sent, torn>>
  BY <1>1, <1>4 DEF Costing!Then
<1>6. Carries(q, next) /\ ~q.holds /\ ~(q.op = "currency" /\ q.pc = "write") /\ ~Knows(q)
  BY <1>4, IdleCarries DEF CostingInv, Tables, Costing!Idle, Knows
<1>7. req' = [req EXCEPT ![r] = q] /\ overlapped \subseteq overlapped' /\ req \in [Requests -> RequestRec]
  BY <1>5 DEF Costing!Go, CostingInv, Carried
<1>8. (\A x \in Requests : x # r => req'[x] = req[x]) /\ req'[r] = q
  BY <1>7
<1>9. /\ DOMAIN cost' \subseteq DOMAIN quantity
      /\ \A l \in DOMAIN cost' : l # req[r].line => l \in DOMAIN cost /\ cost'[l] = cost[l]
      /\ req[r].line \in DOMAIN cost' => cost'[req[r].line] = row
      /\ cost' \in [DOMAIN cost' -> [unit : Prices, total : Nat]]
  <2>0. DOMAIN cost \subseteq DOMAIN quantity /\ cost \in [DOMAIN cost -> [unit : Prices, total : Nat]]
    BY DEF CostingInv, Tables
  <2> HIDE DEF row
  <2>1. CASE req[r].line \in DOMAIN quantity
    <3>1. cost' = [x \in DOMAIN cost \cup {req[r].line} |-> IF x = req[r].line THEN row ELSE cost[x]]
      BY <1>1, <2>1 DEF Costing!Put
    <3> QED BY <1>3, <2>0, <2>1, <3>1
  <2>2. CASE req[r].line \notin DOMAIN quantity
    <3>1. cost' = cost /\ req[r].line \notin DOMAIN cost
      BY <1>1, <2>0, <2>2
    <3> QED BY <2>0, <3>1
  <2> QED BY <2>1, <2>2
<1>10. Tables'
  BY <1>1, <1>5, <1>9 DEF CostingInv, Tables
<1>11. Carried' /\ Counted' /\ Marked'
  <2>0. next \in Nat /\ next' = next
    BY <1>1 DEF CostingInv, Tables
  <2>1. next' \in Nat /\ next' >= next
    BY <2>0
  <2>2. Costing!Then(r, q)
    BY <1>1, <1>4
  <2> QED BY <1>1, <1>5, <1>6, <2>1, <2>2, GoCarried, ThenCounted, GoMarked DEF CostingInv
<1>12. Noticed'
  <2>1. \A x \in Requests : Costing!At(x, "currency", "write")' =>
          Costing!At(x, "currency", "write") /\ req'[x] = req[x]
    BY <1>6, <1>8 DEF Costing!At
  <2> QED BY <2>1, NoticeStep DEF CostingInv
<1>13. Current'
  BY <1>1, <1>6, <1>7, <1>8 DEF CostingInv, Current
<1>14. Agree'
  <2> SUFFICES ASSUME NEW l \in DOMAIN cost' \ (overlapped' \cup torn')
               PROVE  Right(l)' \/ \E x \in Requests : Past(req'[x]) /\ req'[x].line = l
    BY DEF Agree
  <2>1. CASE l = req[r].line
    <3>1. l \in DOMAIN quantity \ overlapped /\ quantity' = quantity
      BY <1>1, <1>7, <1>9
    <3>2. quantity[l] = req[r].q
      BY <1>3, <2>1, <3>1 DEF CostingInv, Current
    <3>3. cost'[l].unit = req[r].unit /\ cost'[l].total = req[r].unit * req[r].q
      BY <1>9, <2>1
    <3> QED BY <3>1, <3>2, <3>3 DEF Right
  <2>2. CASE l # req[r].line
    <3>1. l \in DOMAIN cost \ (overlapped \cup torn) /\ cost'[l] = cost[l] /\ quantity' = quantity
      BY <2>2, <1>1, <1>5, <1>7, <1>9
    <3>2. Right(l) \/ \E x \in Requests : Past(req[x]) /\ req[x].line = l
      BY <3>1 DEF CostingInv, Agree
    <3> QED BY <2>2, <3>1, <3>2, <1>8 DEF Right
  <2> QED BY <2>1, <2>2
<1> QED BY <1>10, <1>11, <1>12, <1>13, <1>14 DEF CostingInv
LEMMA FailStep ==
  ASSUME Costing!Constants, CostingInv, Costing!Notice, NEW r \in Requests, Costing!Fail(r)
  PROVE  CostingInv'
<1> USE DEF Costing!Fail, Costing!tables
<1>1. PICK q : q = Costing!Idle
  OBVIOUS
<1>2. /\ q \in RequestRec /\ Carries(q, next) /\ ~q.holds /\ ~Knows(q) /\ q.line = 0
      /\ ~(q.op = "currency" /\ q.pc = "write")
  BY <1>1, IdleCarries DEF CostingInv, Tables, Costing!Idle, Knows, Carries
<1>3. req' = [req EXCEPT ![r] = q] /\ req \in [Requests -> RequestRec]
  BY <1>1 DEF CostingInv, Carried
<1>4. (\A x \in Requests : x # r => req'[x] = req[x]) /\ req'[r] = q
  BY <1>3
<1>5. Tables' /\ Kept
  BY NothingWritten DEF CostingInv, Tables
<1>6. Carried'
  <2>1. req' \in [Requests -> RequestRec]
    BY <1>2, <1>3
  <2>2. \A x \in Requests : Carries(req'[x], next')
    BY <1>2, <1>4 DEF CostingInv, Carried
  <2> QED BY <2>1, <2>2 DEF Carried
<1>7. Counted'
  <2>1. {x \in Requests : req'[x].holds} \subseteq {x \in Requests : req[x].holds}
    BY <1>2, <1>4
  <2>2. running' \subseteq {x \in Requests : Costing!Busy(x)'}
    BY <1>4 DEF CostingInv, Counted, Costing!Busy
  <2> QED BY <2>1, <2>2, OneMore DEF CostingInv
<1>8. Marked'
  <2>1. 0 \notin DOMAIN quantity /\ quantity' = quantity /\ overlapped' = overlapped
    BY NoLineIsZero DEF CostingInv
  <2>2. Marked /\ q.line = 0
    BY <1>2 DEF CostingInv
  <2> QED BY <2>1, <2>2, <1>4 DEF Marked
<1>9. Current'
  BY <1>2, <1>4 DEF CostingInv, Current
<1>10. Agree'
  <2> SUFFICES ASSUME NEW l \in DOMAIN cost' \ (overlapped' \cup torn')
               PROVE  Right(l)' \/ \E x \in Requests : Past(req'[x]) /\ req'[x].line = l
    BY DEF Agree
  <2>1. l \in DOMAIN cost \ (overlapped \cup torn) /\ cost' = cost /\ quantity' = quantity
    OBVIOUS
  <2>2. ~(Past(req[r]) /\ req[r].line = l)
    BY DEF Past, Costing!At
  <2>3. Right(l) \/ \E x \in Requests : Past(req[x]) /\ req[x].line = l
    BY <2>1 DEF CostingInv, Agree
  <2> QED BY <2>1, <2>2, <2>3, <1>4 DEF Right
<1>11. Noticed'
  <2>1. \A x \in Requests : Costing!At(x, "currency", "write")' =>
          Costing!At(x, "currency", "write") /\ req'[x] = req[x]
    BY <1>2, <1>4 DEF Costing!At
  <2> QED BY <2>1, NoticeStep DEF CostingInv
<1> QED BY <1>5, <1>6, <1>7, <1>8, <1>9, <1>10, <1>11 DEF CostingInv

\* A step of nobody's request that lets lines go at most.
LEMMA OtherStep ==
  ASSUME Costing!Constants, CostingInv, Costing!Notice, Tables', Kept,
         DOMAIN quantity' \subseteq DOMAIN quantity, UNCHANGED <<req, running, next, overlapped, torn>>
  PROVE  CostingInv'
<1>1. Carried' /\ Marked'
  BY DEF CostingInv, Carried, Marked
<1>2. Counted'
  BY DEF CostingInv, Counted, Costing!Free, Costing!Busy
<1>3. Current'
  <2>1. next \notin DOMAIN quantity'
    BY DEF CostingInv, Tables
  <2> QED BY <2>1 DEF CostingInv, Current, Kept
<1>4. Agree'
  <2> SUFFICES ASSUME NEW l \in DOMAIN cost' \ (overlapped' \cup torn')
               PROVE  Right(l)' \/ \E x \in Requests : Past(req'[x]) /\ req'[x].line = l
    BY DEF Agree
  <2>1. l \in DOMAIN cost \ (overlapped \cup torn) /\ cost'[l] = cost[l]
    BY DEF Kept
  <2>2. l \in DOMAIN quantity' /\ l # next
    BY DEF CostingInv, Tables
  <2>3. quantity'[l] = quantity[l]
    BY <2>2 DEF Kept
  <2> QED BY <2>1, <2>3 DEF CostingInv, Agree, Right
<1>5. Noticed'
  <2>1. \A x \in Requests : Costing!At(x, "currency", "write")' =>
          Costing!At(x, "currency", "write") /\ req'[x] = req[x]
    BY DEF Costing!At
  <2> QED BY <2>1, NoticeStep DEF CostingInv
<1> QED BY <1>1, <1>2, <1>3, <1>4, <1>5 DEF CostingInv

LEMMA UpdateTicketPricesStep ==
  ASSUME Costing!Constants, CostingInv, Costing!Notice, NEW r \in Requests, NEW paid \in BOOLEAN,
         Costing!UpdateTicketPrices(r, paid)
  PROVE  CostingInv'
<1> USE DEF Costing!UpdateTicketPrices
<1>1. Tables' /\ Kept
  <2>1. sent' \in 0 .. MaxRequests
    BY DEF CostingInv, Tables, Costing!Constants
  <2> QED BY <2>1, NothingWritten DEF CostingInv, Tables
<1> QED BY <1>1, OtherStep

LEMMA EventMovesStep ==
  ASSUME Costing!Constants, CostingInv, Costing!Notice, Costing!EventMoves
  PROVE  CostingInv'
<1> USE DEF Costing!EventMoves
<1>1. CASE UNCHANGED <<quantity, cost, tickets>>
  <2>1. status' \in {"draft", "proposed", "approved", "published", "none"}
    OBVIOUS
  <2>2. Tables' /\ Kept
    BY <1>1, <2>1, NothingWritten DEF CostingInv, Tables
  <2> QED BY <1>1, <2>2, OtherStep
<1>2. CASE status' = "none" /\ quantity' = <<>> /\ cost' = <<>> /\ tickets' = FALSE
  <2>1. Tables' /\ Kept
    BY <1>2, NoLines DEF CostingInv
  <2>2. DOMAIN quantity' = {}
    BY <1>2
  <2> QED BY <2>1, <2>2, OtherStep
<1> QED BY <1>1, <1>2

LEMMA ActivateStep ==
  ASSUME Costing!Constants, CostingInv, Costing!Notice, Costing!Activate
  PROVE  CostingInv'
<1> USE DEF Costing!Activate
<1>1. Tables' /\ Kept
  BY NothingWritten DEF CostingInv, Tables
<1> QED BY <1>1, OtherStep

LEMMA CostingStart ==
  ASSUME Costing!Constants, Costing!Init
  PROVE  CostingInv
<1>1. req = [x \in Requests |-> Costing!Idle] /\ next = 2 /\ overlapped = {} /\ torn = {} /\ running = {}
  BY DEF Costing!Init
<1>2. PICK q \in Quantities : quantity = [l \in {1} |-> q]
  BY DEF Costing!Init
<1>3. PICK i : i = Costing!Idle
  OBVIOUS
<1>4. Carries(i, next) /\ i \in RequestRec
      /\ ~i.holds /\ ~Knows(i) /\ ~Past(i) /\ i.line = 0
      /\ i.op # "currency"
  <2>1. Carries(Costing!Idle, 2)
    BY IdleCarries
  <2>2. Carries(i, next) /\ i \in RequestRec
    BY <2>1, <1>1, <1>3 DEF Carries
  <2> QED BY <2>2, <1>3 DEF Costing!Idle, Knows, Past
<1>5. \A x \in Requests : req[x] = i
  BY <1>1, <1>3
<1>6. DOMAIN quantity = {1} /\ quantity[1] = q
  BY <1>2
<1>7. \/ cost = <<>>
      \/ \E u \in Prices : cost = [l \in {1} |-> [unit |-> u, total |-> u * q]]
  BY <1>6 DEF Costing!Init
<1>8. DOMAIN cost \subseteq {1} /\ cost \in [DOMAIN cost -> [unit : Prices, total : Nat]]
      /\ \A l \in DOMAIN cost : Right(l)
  <2>1. CASE cost = <<>>
    <3>1. DOMAIN cost = {}
      BY <2>1
    <3> QED BY <2>1, <3>1
  <2>2. CASE \E u \in Prices : cost = [l \in {1} |-> [unit |-> u, total |-> u * q]]
    <3>1. PICK u \in Prices : cost = [l \in {1} |-> [unit |-> u, total |-> u * q]]
      BY <2>2
    <3>2. u \in Nat /\ q \in Nat
      BY DEF Costing!Constants
    <3>3. u * q \in Nat
      BY <3>2
    <3>4. DOMAIN cost = {1} /\ cost[1] = [unit |-> u, total |-> u * q]
      BY <3>1
    <3>5. [unit |-> u, total |-> u * q] \in [unit : Prices, total : Nat]
      BY <3>3
    <3>6. Right(1)
      BY <3>4, <1>6 DEF Right
    <3>7. cost \in [{1} -> [unit : Prices, total : Nat]]
      BY <3>1, <3>5
    <3> QED BY <3>4, <3>6, <3>7
  <2> QED BY <1>7, <2>1, <2>2
<1>9. Carried
  BY <1>1, <1>3, <1>4, <1>5 DEF Carried
<1>10. Tables
  <2>1. currency \in Currencies /\ status = "draft" /\ tickets = FALSE /\ sent = 0 /\ live \in BOOLEAN
    BY DEF Costing!Init, Costing!Constants
  <2>2. quantity \in [DOMAIN quantity -> Quantities]
    BY <1>2
  <2>3. DOMAIN quantity \subseteq 1 .. next - 1 /\ DOMAIN cost \subseteq DOMAIN quantity
    BY <1>1, <1>6, <1>8
  <2>4. sent \in 0 .. MaxRequests /\ next \in Nat \ {0}
    BY <1>1, <2>1 DEF Costing!Constants
  <2> QED BY <1>8, <2>1, <2>2, <2>3, <2>4 DEF Tables
<1>11. Counted
  <2>1. {x \in Requests : req[x].holds} = {}
    BY <1>4, <1>5
  <2>2. Cardinality({}) = 0
    BY FS_EmptySet
  <2>3. Costing!Free = PoolSize - 0 - 0
    BY <1>1, <2>1, <2>2, FreeConnections
  <2> QED BY <1>1, <2>3 DEF Counted, Costing!Constants
<1>12. Marked /\ Current /\ Agree /\ Noticed
  <2>1. Marked
    BY <1>4, <1>5, <1>6 DEF Marked
  <2>2. Current
    BY <1>4, <1>5 DEF Current
  <2>3. Agree
    BY <1>8 DEF Agree
  <2>4. Noticed
    BY <1>4, <1>5 DEF Noticed, Costing!At
  <2> QED BY <2>1, <2>2, <2>3, <2>4
<1> QED BY <1>9, <1>10, <1>11, <1>12 DEF CostingInv

LEMMA CostingStep ==
  ASSUME Costing!Constants, CostingInv, [Costing!Next]_(Costing!vars)
  PROVE  CostingInv'
<1>1. CASE UNCHANGED Costing!vars
  BY <1>1 DEF Costing!vars, Costing!tables, Costing!history, CostingInv, Carried, Tables, Counted, Marked,
     Current, Agree, Noticed, Right, Costing!Free, Costing!Busy, Costing!At, Costing!HasRecordedMoney
<1>2. CASE Costing!Next
  <2>0. Costing!Notice
    BY <1>2 DEF Costing!Next
  <2>1. ASSUME NEW r \in Requests, Costing!Start(r)
        PROVE  CostingInv'
    BY <2>0, <2>1, UpdateResourceLineStep, SetResourceCostStep, DeleteResourceLineStep,
       AddResourceLineStep, AddResourcesToEventStep, ReadProfileStep, RefuseStep DEF Costing!Start, Costing!Lines
  <2>2. ASSUME NEW r \in Requests, Costing!Continue(r)
        PROVE  CostingInv'
    BY <2>0, <2>1, <2>2, GetStep, UpdateResourceStep, GetResourceCostStep, SetResourceCostRowStep, PricingAllowedStep,
       CreateResourceStep, InsertLineStep, DeleteResourceStep, AcquireStep, RecheckStatusStep,
       DeleteResourcesForEventStep, MoneyCheckedStep, UpdateCurrencyStep DEF Costing!Continue
  <2> QED BY <1>2, <2>0, <2>2, ArriveStep, FailStep, UpdateTicketPricesStep, EventMovesStep, ActivateStep
    DEF Costing!Next
<1> QED BY <1>1, <1>2

\* The inductive invariant of the resource lines holds in every reachable state.
THEOREM CostingInvariant ==
  ASSUME Costing!Constants
  PROVE  Costing!Spec => []CostingInv
<1>1. Costing!Init => CostingInv
  BY CostingStart
<1>2. CostingInv /\ [Costing!Next]_(Costing!vars) => CostingInv'
  BY CostingStep
<1> QED BY <1>1, <1>2, PTL DEF Costing!Spec

\* The tables of resources stay well formed, a cost row belongs to a line, and
\* a request that keeps its connection while its statements take others never
\* takes more than TENANT_POOL_MAX.
THEOREM CostingTyped ==
  ASSUME Costing!Constants
  PROVE  Costing!Spec => []Costing!TypeOK
<1>1. CostingInv => Costing!TypeOK
  BY DEF CostingInv, Tables, Counted, Costing!TypeOK, Costing!Lines
<1> QED BY <1>1, CostingInvariant, PTL

\* Once the requests are over, what get_resource_summary reports is the sum of
\* price times quantity, unless two requests met on a line or an update stopped
\* between its two writes.
THEOREM TotalsStayRight ==
  ASSUME Costing!Constants
  PROVE  Costing!Spec => []Costing!TotalsAgree
<1>1. CostingInv => Costing!TotalsAgree
  <2> SUFFICES ASSUME CostingInv, \A r \in Requests : ~Costing!Busy(r),
                      Costing!Lines \cap (overlapped \cup torn) = {}
               PROVE  Costing!ResourceSummary = Costing!SumFunction([l \in Costing!Lines |->
                        IF l \in DOMAIN cost THEN cost[l].unit * quantity[l] ELSE 0])
    BY DEF Costing!TotalsAgree
  <2>1. \A r \in Requests : ~Past(req[r])
    BY IdleIsNotPast DEF Costing!Busy
  <2>2. \A l \in DOMAIN cost : cost[l].total = cost[l].unit * quantity[l]
    BY <2>1 DEF CostingInv, Agree, Right, Tables, Costing!Lines
  <2>3. [l \in Costing!Lines |-> IF l \in DOMAIN cost THEN cost[l].total ELSE 0]
        = [l \in Costing!Lines |-> IF l \in DOMAIN cost THEN cost[l].unit * quantity[l] ELSE 0]
    BY <2>2
  <2> QED BY <2>3 DEF Costing!ResourceSummary
<1> QED BY <1>1, CostingInvariant, PTL

\* What a request that writes the currency under recorded money has relied on.
Excused(r) ==
  /\ Costing!At(r, "currency", "write")
  /\ \/ req[r].why = "checked" /\ r \in priced
     \/ req[r].why = "setup"
     \/ req[r].why = "same" /\ r \in crossed

LEMMA CurrencyStep ==
  ASSUME CostingInv, [Costing!Next]_(Costing!vars)
  PROVE  [currency' # currency /\ Costing!HasRecordedMoney => \E r \in Requests : Excused(r)]_(Costing!vars)
<1> SUFFICES ASSUME Costing!Next, currency' # currency, Costing!HasRecordedMoney
             PROVE  \E r \in Requests : Excused(r)
  OBVIOUS
<1>1. \E r \in Requests : Costing!UpdateCurrency(r)
  BY DEF Costing!Next, Costing!Arrive, Costing!Get, Costing!Start, Costing!Refuse, Costing!Continue,
     Costing!Fail, Costing!UpdateTicketPrices, Costing!EventMoves, Costing!Activate, Costing!tables,
     Costing!UpdateResourceLine, Costing!SetResourceCost, Costing!DeleteResourceLine,
     Costing!AddResourceLine, Costing!AddResourcesToEvent, Costing!ReadProfile, Costing!UpdateResource,
     Costing!GetResourceCost, Costing!SetResourceCostRow, Costing!PricingAllowed, Costing!CreateResource,
     Costing!InsertLine, Costing!DeleteResource, Costing!Acquire, Costing!RecheckStatus,
     Costing!DeleteResourcesForEvent, Costing!MoneyChecked
<1>2. PICK r \in Requests : Costing!UpdateCurrency(r)
  BY <1>1
<1>3. Costing!At(r, "currency", "write") /\ req[r].to # currency
  BY <1>2 DEF Costing!UpdateCurrency
<1>4. req[r].why \in {"checked", "setup", "same"}
  BY <1>3 DEF CostingInv, Carried, Carries, Costing!At
<1> QED BY <1>3, <1>4 DEF CostingInv, Noticed, Excused

\* update_profile changes the currency under recorded money only if the money
\* came in after has_recorded_money had answered, if the school was not live when
\* it was read, or if another request changed the currency this one resends.
THEOREM CurrencyIsFixed ==
  ASSUME Costing!Constants
  PROVE  Costing!Spec => Costing!CurrencyOfMoneyIsFixed
<1>1. CostingInv /\ [Costing!Next]_(Costing!vars) =>
        [currency' # currency /\ Costing!HasRecordedMoney => \E r \in Requests : Excused(r)]_(Costing!vars)
  BY CurrencyStep
<1> QED BY <1>1, CostingInvariant, PTL DEF Costing!Spec, Costing!CurrencyOfMoneyIsFixed, Excused
=============================================================================
