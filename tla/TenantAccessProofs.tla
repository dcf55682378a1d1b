-------------------------- MODULE TenantAccessProofs --------------------------
(***************************************************************************)
(* Proofs about get_current_user and the tables it reads, for every set of *)
(* schools, roles and concurrent requests and any number of events.        *)
(*                                                                         *)
(* The inductive invariant says where a request's school and role came     *)
(* from at each await, and that what the administrator and the invitations *)
(* still have to write was given at that school.                           *)
(***************************************************************************)
EXTENDS TenantAccess, SequenceTheorems, FiniteSetTheorems, TLAPS

\* The awaits of get_current_user, before a school is fixed and after.
Early == {"members", "parentid", "parentlinks", "fill", "resolve", "invited", "addressed",
          "heal", "select", "scan", "scanned"}
Reading == {"members", "parentid", "parentlinks", "fill"}
Provisioning == {"provision", "link", "parent", "parentmap"}
Writing == {"jit", "jitmap", "probe"} \cup Provisioning
Steps == Early \cup {"local"} \cup Writing \cup {"granted"}

Request == [pc : Steps, kc : BOOLEAN, email : BOOLEAN, orgs : SUBSET Schools,
            claim : Schools \cup {None}, header : Schools \cup {None}, mem : SUBSET Schools,
            tenant : Schools \cup {None}, role : Roles, roles : SUBSET Roles,
            sel : BOOLEAN, unread : BOOLEAN]

Task == [pc : {"shell", "record", "invitemap", "rolemap", "unmap", "unsync"},
         school : Schools, role : Roles]

\* Domains of the tables.
Tables ==
  /\ MembershipsType
  /\ local \in [Schools -> Roles \cup {None}] /\ real \subseteq Schools
  /\ \A s \in real : local[s] # None
  /\ parents \in {None, "real", "managed"} /\ (links # {} => parents # None)
  /\ invites \in Seq(Invitation) /\ addressed \in Invitation \cup {None}
  /\ idp = None \/ idp \subseteq Schools
  /\ token \in Token \cup {None}

\* Domains of what is in flight and of the history.
Flying ==
  /\ req \in [Requests -> {Idle} \cup Request]
  /\ adm \in {Idle} \cup Task
  /\ ever \in [Schools -> SUBSET Roles]
  /\ since \in [Requests -> [Schools -> SUBSET Roles]]
  /\ barred \in [Requests -> SUBSET Schools]

\* A role somebody gave at s, or none in particular.
Given(s, role) == s \notin hurt => role \in ever[s] \cup {"pending"}

\* The two kinds of token.
TokenKinds ==
  token # None =>
    /\ token.kc => token.claim = None /\ token.email /\ token.role = "pending"
    /\ ~token.kc => token.orgs = {} /\ token.claim # None /\ Given(token.claim, token.role)

\* What a request knows at each await.
Knows(q) ==
  q # Idle =>
    /\ q.kc => q.claim = None /\ q.email
    /\ ~q.kc => q.orgs = {} /\ q.claim # None
    /\ ~q.email => q.mem = {} /\ q.tenant # None /\ q.pc \in {"select", "granted"}
    /\ q.role \in q.roles
    /\ q.tenant = None => q.role = "pending"
    /\ q.pc \in Reading \cup {"resolve"} => q.tenant = q.claim
    /\ q.pc \in Early \cup {"jit", "jitmap"} => ~q.sel
    /\ q.pc = "scan" => q.tenant = None
    /\ q.pc \in {"heal", "scanned", "local", "granted"} \cup Writing => q.tenant # None
    /\ q.pc \in Provisioning => q.role = "parent"

\* With several organizations no school but the header's is ever taken.
Chosen(q) ==
  q # Idle /\ Ambiguous(q) =>
    /\ q.pc \notin {"invited", "addressed", "heal", "scan", "scanned"}
    /\ q.pc = "select" => q.tenant = None
    /\ q.pc \in {"local", "granted"} \cup Writing => q.tenant = q.header

\* The role a request may write was given at its school.
Earned(q) ==
  q # Idle /\ q.pc # "granted" =>
    /\ q.sel /\ q.unread => q.tenant \in hurt
    /\ q.tenant # None /\ ~(q.sel /\ q.pc = "local") => Given(q.tenant, q.role)
    /\ q.pc = "link" => parents # None

\* The roles at a selected school are those of its users row.
Local(r) ==
  req[r] # Idle /\ req[r].pc \in Writing /\ req[r].sel /\ ~req[r].unread =>
    req[r].roles \subseteq since[r][req[r].tenant]

Requested ==
  \A r \in Requests : Knows(req[r]) /\ Chosen(req[r]) /\ Earned(req[r]) /\ Local(r)

\* The tables hold, at each school, roles that were given there.
WellGiven ==
  /\ \A s \in Schools : local[s] # None => Given(s, local[s])
  /\ \A s \in Schools : utm[s] # None => Given(s, utm[s].role)
  /\ \A s \in links : Given(s, "parent")

\* What is still to be written: invitations and the administrator's task.
Mailed ==
  /\ \A i \in 1 .. Len(invites) : invites[i].role \in ever[invites[i].school]
  /\ addressed # None => addressed.role \in ever[addressed.school]

Promised ==
  /\ Mailed
  /\ adm.pc \in {"shell", "record", "invitemap", "rolemap"} => adm.role \in ever[adm.school]

IInv == Tables /\ Flying /\ TokenKinds /\ Requested /\ Promised /\ WellGiven

-------------------------------------------------------------------------------
(* The order of the rows of user_tenant_map.                                *)

\* A duplicate-free sequence of elements of T.
Orders(q, T) == q \in Seq(T) /\ IsInjective(q) /\ ToSet(q) = T

LEMMA SeqDomain ==
  ASSUME NEW S, NEW q \in Seq(S)
  PROVE  /\ Len(q) \in Nat /\ DOMAIN q = 1 .. Len(q)
         /\ ToSet(q) = {q[i] : i \in 1 .. Len(q)}
         /\ \A i \in 1 .. Len(q) : q[i] \in S
  BY LenProperties, ElementOfSeq DEF ToSet

\* z is p, of length n, and q, of length m, after it.
IsConcat(z, p, q, n, m) ==
  /\ DOMAIN z = 1 .. n + m
  /\ \A i \in 1 .. n + m : z[i] = IF i <= n THEN p[i] ELSE q[i - n]

LEMMA JoinedOrders ==
  ASSUME NEW p, NEW q, NEW z, NEW n \in Nat, NEW m \in Nat, IsConcat(z, p, q, n, m),
         DOMAIN p = 1 .. n, DOMAIN q = 1 .. m, IsInjective(p), IsInjective(q),
         ToSet(p) \cap ToSet(q) = {}
  PROVE  IsInjective(z) /\ ToSet(z) = ToSet(p) \cup ToSet(q)
<1>1. ToSet(p) = {p[i] : i \in 1 .. n} /\ ToSet(q) = {q[i] : i \in 1 .. m}
  BY DEF ToSet
<1>3. \A i \in 1 .. n + m : z[i] = IF i <= n THEN p[i] ELSE q[i - n]
  BY DEF IsConcat
<1>4. DOMAIN z = 1 .. n + m /\ ToSet(z) = {z[i] : i \in 1 .. n + m}
  BY DEF IsConcat, ToSet
<1>5. IsInjective(z)
  <2> SUFFICES ASSUME NEW i \in 1 .. n + m, NEW j \in 1 .. n + m, z[i] = z[j]
               PROVE  i = j
    BY <1>4 DEF IsInjective
  <2>1. CASE i <= n /\ j <= n
    <3>1. i \in DOMAIN p /\ j \in DOMAIN p /\ p[i] = p[j]
      BY <1>1, <1>3, <2>1
    <3> QED BY <3>1 DEF IsInjective
  <2>2. CASE i > n /\ j > n
    <3>1. PICK x \in 1 .. m, y \in 1 .. m : x = i - n /\ y = j - n
      BY <2>2
    <3>2. q[x] = q[y]
      BY <1>3, <2>2, <3>1
    <3>3. x = y
      BY <3>2 DEF IsInjective
    <3> QED BY <3>1, <3>3
  <2>3. CASE i <= n /\ j > n
    <3>1. i \in 1 .. n /\ j - n \in 1 .. m /\ p[i] = q[j - n]
      BY <1>1, <1>3, <2>3
    <3> QED BY <1>1, <3>1
  <2>4. CASE i > n /\ j <= n
    <3>1. j \in 1 .. n /\ i - n \in 1 .. m /\ p[j] = q[i - n]
      BY <1>1, <1>3, <2>4
    <3> QED BY <1>1, <3>1
  <2> QED BY <1>1, <2>1, <2>2, <2>3, <2>4
<1>6. ToSet(z) \subseteq ToSet(p) \cup ToSet(q)
  <2> SUFFICES ASSUME NEW i \in 1 .. n + m
               PROVE  z[i] \in ToSet(p) \cup ToSet(q)
    BY <1>4
  <2>1. CASE i <= n
    BY <1>1, <1>3, <2>1
  <2>2. CASE i > n
    <3>1. i - n \in 1 .. m /\ z[i] = q[i - n]
      BY <1>1, <1>3, <2>2
    <3> QED BY <1>1, <3>1
  <2> QED BY <1>1, <2>1, <2>2
<1>7. ToSet(p) \subseteq ToSet(z)
  BY <1>1, <1>3, <1>4
<1>8. ToSet(q) \subseteq ToSet(z)
  <2> SUFFICES ASSUME NEW i \in 1 .. m
               PROVE  q[i] \in ToSet(z)
    BY <1>1
  <2>1. i + n \in 1 .. n + m /\ z[i + n] = q[i]
    BY <1>1, <1>3
  <2> QED BY <1>4, <2>1
<1> QED BY <1>5, <1>6, <1>7, <1>8

LEMMA ConcatOrders ==
  ASSUME NEW S, NEW p \in Seq(S), NEW q \in Seq(S), IsInjective(p), IsInjective(q),
         ToSet(p) \cap ToSet(q) = {}
  PROVE  /\ p \o q \in Seq(S) /\ IsInjective(p \o q)
         /\ ToSet(p \o q) = ToSet(p) \cup ToSet(q)
<1>1. PICK n \in Nat, m \in Nat : n = Len(p) /\ m = Len(q)
  BY SeqDomain
<1>2. DOMAIN p = 1 .. n /\ DOMAIN q = 1 .. m
  BY <1>1, SeqDomain
<1>3. p \o q \in Seq(S) /\ IsConcat(p \o q, p, q, n, m)
  BY <1>1 DEF IsConcat
<1>4. PICK z \in Seq(S) : z = p \o q /\ IsConcat(z, p, q, n, m)
  BY <1>3, Zenon
<1>5. IsConcat(z, p, q, n, m)
  BY <1>4
<1>6. IsInjective(z) /\ ToSet(z) = ToSet(p) \cup ToSet(q)
  BY <1>2, <1>5, JoinedOrders
<1> QED BY <1>4, <1>6, Zenon

\* The part of q from m to n.
IsPart(a, q, m, n) ==
  /\ DOMAIN a = 1 .. n - m + 1
  /\ \A i \in 1 .. n - m + 1 : a[i] = q[m + i - 1]

LEMMA SubSeqPart ==
  ASSUME NEW S, NEW q \in Seq(S), NEW m \in Nat, NEW n \in Nat,
         m >= 1, n <= Len(q), m <= n + 1
  PROVE  SubSeq(q, m, n) \in Seq(S) /\ IsPart(SubSeq(q, m, n), q, m, n)
<1>1. /\ SubSeq(q, m, n) \in Seq(S) /\ DOMAIN SubSeq(q, m, n) = 1 .. n - m + 1
      /\ \A i \in 1 .. n - m + 1 : SubSeq(q, m, n)[i] = q[m + i - 1]
  BY SMT
<1> QED BY <1>1, Zenon DEF IsPart

\* A part of a duplicate-free sequence is one, of the elements at its places.
LEMMA PartOrders ==
  ASSUME NEW q, IsInjective(q), NEW N \in Nat, DOMAIN q = 1 .. N,
         NEW m \in Nat, NEW n \in Nat, m >= 1, n <= N, m <= n + 1,
         NEW a, IsPart(a, q, m, n)
  PROVE  IsInjective(a) /\ ToSet(a) = {q[i] : i \in m .. n}
<1>1. IsInjective(a)
  <2> SUFFICES ASSUME NEW i \in 1 .. n - m + 1, NEW j \in 1 .. n - m + 1, a[i] = a[j]
               PROVE  i = j
    BY DEF IsInjective, IsPart
  <2>1. PICK x \in 1 .. N, y \in 1 .. N : x = m + i - 1 /\ y = m + j - 1
    OBVIOUS
  <2>2. q[x] = q[y]
    BY <2>1 DEF IsPart
  <2>3. x = y
    BY <2>2 DEF IsInjective
  <2> QED BY <2>1, <2>3
<1>2. ToSet(a) = {a[i] : i \in 1 .. n - m + 1}
  BY DEF ToSet, IsPart
<1>3. ASSUME NEW i \in 1 .. n - m + 1
      PROVE  \E j \in m .. n : a[i] = q[j]
  <2>1. PICK j \in m .. n : j = m + i - 1
    OBVIOUS
  <2> QED BY <2>1 DEF IsPart
<1>4. ASSUME NEW j \in m .. n
      PROVE  \E i \in 1 .. n - m + 1 : a[i] = q[j]
  <2>1. PICK i \in 1 .. n - m + 1 : j = m + i - 1
    <3>1. j - m + 1 \in 1 .. n - m + 1 /\ j = m + (j - m + 1) - 1
      OBVIOUS
    <3> QED BY <3>1
  <2> QED BY <2>1 DEF IsPart
<1>5. ToSet(a) \subseteq {q[j] : j \in m .. n}
  BY <1>2, <1>3
<1>6. {q[j] : j \in m .. n} \subseteq ToSet(a)
  BY <1>2, <1>4
<1> QED BY <1>1, <1>5, <1>6

LEMMA RemoveFirstOrders ==
  ASSUME NEW S, NEW q \in Seq(S), IsInjective(q), NEW e
  PROVE  /\ RemoveFirst(q, e) \in Seq(S) /\ IsInjective(RemoveFirst(q, e))
         /\ ToSet(RemoveFirst(q, e)) = ToSet(q) \ {e}
<1>1. PICK N \in Nat : N = Len(q)
  BY SeqDomain
<1>2. /\ DOMAIN q = 1 .. N /\ ToSet(q) = {q[i] : i \in 1 .. N}
      /\ \A i \in 1 .. N : q[i] \in S
  BY <1>1, SeqDomain
<1>3. CASE ~\E i \in 1 .. Len(q) : q[i] = e
  <2>1. RemoveFirst(q, e) = q
    BY <1>3 DEF RemoveFirst
  <2> QED BY <1>1, <1>2, <1>3, <2>1
<1>4. CASE \E i \in 1 .. Len(q) : q[i] = e
  <2>1. PICK k \in 1 .. N : q[k] = e
    BY <1>1, <1>4
  <2>2. {i \in 1 .. Len(q) : q[i] = e} = {k}
    BY <1>1, <1>2, <2>1 DEF IsInjective
  <2>3. SelectInSeq(q, LAMBDA v : v = e) = k
    <3>1. SelectInSeq(q, LAMBDA v : v = e) = Min({k})
      BY <2>2 DEF SelectInSeq
    <3> QED BY <3>1 DEF Min
  <2>4. RemoveFirst(q, e) = SubSeq(q, 1, k - 1) \o SubSeq(q, k + 1, Len(q))
    BY <1>4, <2>3, Zenon DEF RemoveFirst, RemoveAt
  <2>5. k - 1 \in Nat /\ k + 1 \in Nat /\ k - 1 <= N /\ 1 <= (k - 1) + 1 /\ k + 1 <= N + 1
    OBVIOUS
  <2>6. PICK a \in Seq(S) : a = SubSeq(q, 1, k - 1) /\ IsPart(a, q, 1, k - 1)
    <3>1. 1 \in Nat /\ 1 >= 1 /\ k - 1 <= Len(q)
      BY <1>1, <2>5
    <3> QED BY <2>5, <3>1, SubSeqPart, Zenon
  <2>7. PICK b \in Seq(S) : b = SubSeq(q, k + 1, Len(q)) /\ IsPart(b, q, k + 1, N)
    <3>1. N \in Nat /\ k + 1 >= 1 /\ N <= Len(q)
      BY <1>1, <2>5
    <3>2. SubSeq(q, k + 1, N) \in Seq(S) /\ IsPart(SubSeq(q, k + 1, N), q, k + 1, N)
      BY <2>5, <3>1, SubSeqPart, Zenon
    <3> QED BY <1>1, <3>2, Zenon
  <2>8. IsInjective(a) /\ ToSet(a) = {q[i] : i \in 1 .. k - 1}
    <3>1. PICK u \in Nat, v \in Nat : u = 1 /\ v = k - 1
      BY <2>5
    <3>2. u >= 1 /\ v <= N /\ u <= v + 1 /\ IsPart(a, q, u, v)
      BY <2>5, <2>6, <3>1
    <3>3. IsInjective(a) /\ ToSet(a) = {q[i] : i \in u .. v}
      BY <1>2, <3>2, PartOrders
    <3> QED BY <3>1, <3>3
  <2>9. IsInjective(b) /\ ToSet(b) = {q[i] : i \in k + 1 .. N}
    <3>1. N \in Nat /\ k + 1 >= 1 /\ N <= N
      BY <2>5
    <3> QED BY <1>2, <2>5, <2>7, <3>1, PartOrders
  <2>10. ToSet(a) \cap ToSet(b) = {}
    <3> SUFFICES ASSUME NEW i \in 1 .. k - 1, NEW j \in k + 1 .. N, q[i] = q[j]
                 PROVE  FALSE
      BY <2>8, <2>9
    <3>1. i \in DOMAIN q /\ j \in DOMAIN q /\ i # j
      BY <1>2
    <3> QED BY <3>1 DEF IsInjective
  <2>11. ToSet(a) \cup ToSet(b) = ToSet(q) \ {e}
    <3>1. \A i \in 1 .. N : i # k <=> i \in 1 .. k - 1 \/ i \in k + 1 .. N
      OBVIOUS
    <3>2. \A i \in 1 .. N : q[i] = e <=> i = k
      BY <1>1, <2>1, <2>2
    <3>3. \A i : i \in 1 .. k - 1 \/ i \in k + 1 .. N => i \in 1 .. N
      OBVIOUS
    <3> QED BY <1>2, <2>8, <2>9, <3>1, <3>2, <3>3, Zenon
  <2>12. RemoveFirst(q, e) = a \o b
    BY <2>4, <2>6, <2>7, Zenon
  <2>13. /\ a \o b \in Seq(S) /\ IsInjective(a \o b)
         /\ ToSet(a \o b) = ToSet(a) \cup ToSet(b)
    BY <2>8, <2>9, <2>10, ConcatOrders, Zenon
  <2> QED BY <2>11, <2>12, <2>13, Zenon
<1> QED BY <1>3, <1>4

LEMMA SetToSeqsOrders ==
  ASSUME NEW T, IsFiniteSet(T), NEW q \in SetToSeqs(T)
  PROVE  Orders(q, T)
<1> DEFINE D == 1 .. Cardinality(T)
<1>1. Cardinality(T) \in Nat
  BY FS_CardinalityType
<1>2. q \in [D -> T] /\ \A i, j \in D : i # j => q[i] # q[j]
  BY DEF SetToSeqs
<1>3. IsFiniteSet(D) /\ Cardinality(D) = Cardinality(T)
  BY <1>1, FS_Interval
<1>4. IsInjective(q) /\ q \in Injection(D, T)
  BY <1>2 DEF IsInjective, Injection
<1>5. q \in Surjection(D, T)
  BY <1>3, <1>4, FS_Injection
<1>6. ToSet(q) = T
  BY <1>2, <1>5 DEF Surjection, ToSet
<1>7. q \in Seq(T)
  BY <1>1, <1>2, SeqDef
<1> QED BY <1>4, <1>6, <1>7 DEF Orders

-------------------------------------------------------------------------------
(* The statements of the control plane.                                     *)

MapType ==
  /\ utm \in [Schools -> Row \cup {None}]
  /\ recent \in Seq(Schools) /\ IsInjective(recent) /\ ToSet(recent) = Rows

\* Every row after the step was there with its role, or is the one of s.
MapWrites(s, role) ==
  \A x \in Schools : utm'[x] # None =>
    \/ utm[x] # None /\ utm'[x].role = utm[x].role
    \/ x = s /\ utm'[x].role = role

LEMMA LatestOrders ==
  ASSUME MapType, NEW s \in Schools
  PROVE  /\ Latest(s) \in Seq(Schools) /\ IsInjective(Latest(s))
         /\ ToSet(Latest(s)) = Rows \cup {s}
<1>1. PICK q \in Seq(Schools) : /\ q = RemoveFirst(recent, s) /\ IsInjective(q)
                                /\ ToSet(q) = Rows \ {s}
  <2>1. recent \in Seq(Schools) /\ IsInjective(recent) /\ ToSet(recent) = Rows
    BY DEF MapType
  <2> QED BY <2>1, RemoveFirstOrders
<1>2. PICK p \in Seq(Schools) : p = <<s>>
  <2>1. <<s>> \in Seq(Schools)
    OBVIOUS
  <2> QED BY <2>1, Zenon
<1>3. DOMAIN p = {1} /\ p[1] = s
  BY <1>2
<1>4. IsInjective(p) /\ ToSet(p) = {s}
  BY <1>3 DEF IsInjective, ToSet
<1>5. ToSet(p) \cap ToSet(q) = {}
  BY <1>1, <1>4
<1>6. /\ p \o q \in Seq(Schools) /\ IsInjective(p \o q)
      /\ ToSet(p \o q) = ToSet(p) \cup ToSet(q)
  BY <1>1, <1>4, <1>5, ConcatOrders, Zenon
<1>7. Latest(s) = p \o q
  BY <1>1, <1>2, Zenon DEF Latest
<1>8. ToSet(p) \cup ToSet(q) = Rows \cup {s}
  BY <1>1, <1>4
<1> QED BY <1>6, <1>7, <1>8, Zenon

LEMMA WriteRowType ==
  ASSUME MapType, NEW s \in Schools, NEW role \in Roles, WriteRow(s, role)
  PROVE  MapType' /\ MapWrites(s, role)
<1>1. PICK row \in Row : utm' = [utm EXCEPT ![s] = row] /\ row.role = role
  <2>1. CASE utm[s] = None
    <3>1. [role |-> role, status |-> "active"] \in Row
      BY DEF Row, Statuses
    <3> QED BY <2>1, <3>1 DEF WriteRow
  <2>2. CASE utm[s] # None
    <3>1. utm[s] \in Row
      BY <2>2 DEF MapType
    <3>2. [utm[s] EXCEPT !.role = role] \in Row /\ [utm[s] EXCEPT !.role = role].role = role
      BY <3>1 DEF Row
    <3> QED BY <2>2, <3>2 DEF WriteRow
  <2> QED BY <2>1, <2>2
<1>2. row # None
  BY ConstantsAssumption
<1>3. /\ utm' \in [Schools -> Row \cup {None}] /\ utm'[s] = row
      /\ \A x \in Schools \ {s} : utm'[x] = utm[x]
  BY <1>1 DEF MapType
<1>4. Rows' = Rows \cup {s}
  BY <1>2, <1>3 DEF Rows
<1>5. recent' = Latest(s)
  BY DEF WriteRow
<1>6. MapType'
  BY <1>3, <1>4, <1>5, LatestOrders, Zenon DEF MapType
<1>7. MapWrites(s, role)
  BY <1>1, <1>3 DEF MapWrites
<1> QED BY <1>6, <1>7

LEMMA RemoveRowType ==
  ASSUME MapType, NEW s \in Schools, RemoveUserTenantMap(s)
  PROVE  MapType' /\ \A role : MapWrites(s, role)
<1>1. /\ utm' \in [Schools -> Row \cup {None}] /\ utm'[s] = None
      /\ \A x \in Schools \ {s} : utm'[x] = utm[x]
  BY DEF RemoveUserTenantMap, MapType
<1>2. Rows' = Rows \ {s}
  BY <1>1 DEF Rows
<1>3. recent' = RemoveFirst(recent, s)
  BY DEF RemoveUserTenantMap
<1>4. recent \in Seq(Schools) /\ IsInjective(recent) /\ ToSet(recent) = Rows
  BY DEF MapType
<1>5. recent' \in Seq(Schools) /\ IsInjective(recent') /\ ToSet(recent') = Rows \ {s}
  BY <1>3, <1>4, RemoveFirstOrders
<1>6. MapType'
  BY <1>1, <1>2, <1>5, Zenon DEF MapType
<1> QED BY <1>1, <1>6 DEF MapWrites

LEMMA SetStatusType ==
  ASSUME MapType, NEW s \in Schools, NEW from, NEW to \in Statuses, SetStatus(s, from, to)
  PROVE  MapType' /\ \A role : MapWrites(s, role)
<1>1. utm[s] \in Row /\ utm[s] # None
  BY DEF SetStatus, MapType
<1>2. PICK row \in Row : utm' = [utm EXCEPT ![s] = row] /\ row.role = utm[s].role
  <2>1. [utm[s] EXCEPT !.status = to] \in Row /\ [utm[s] EXCEPT !.status = to].role = utm[s].role
    BY <1>1 DEF Row
  <2> QED BY <2>1 DEF SetStatus
<1>3. /\ utm' \in [Schools -> Row \cup {None}] /\ utm'[s] = row
      /\ \A x \in Schools \ {s} : utm'[x] = utm[x]
  BY <1>2 DEF MapType
<1>4. Rows' = Rows
  BY <1>1, <1>3, ConstantsAssumption DEF Rows
<1>5. MapType'
  BY <1>3, <1>4 DEF MapType, SetStatus
<1> QED BY <1>1, <1>2, <1>3, <1>5 DEF MapWrites

LEMMA CreateInvitedType ==
  ASSUME MapType, NEW s \in Schools, NEW role \in Roles, CreateInvited(s, role)
  PROVE  MapType' /\ MapWrites(s, role)
<1>1. PICK row \in Row : utm' = [utm EXCEPT ![s] = row] /\ row.role = role
  <2>1. [role |-> role, status |-> "invited"] \in Row
    BY DEF Row, Statuses
  <2> QED BY <2>1 DEF CreateInvited
<1>2. /\ utm' \in [Schools -> Row \cup {None}] /\ utm'[s] = row
      /\ \A x \in Schools \ {s} : utm'[x] = utm[x]
  BY <1>1 DEF MapType
<1>3. Rows' = Rows \cup {s}
  BY <1>2, ConstantsAssumption DEF Rows
<1>4. MapType'
  <2>1. CASE recent' = Latest(s)
    BY <1>2, <1>3, <2>1, LatestOrders, Zenon DEF MapType
  <2>2. CASE utm[s] # None /\ recent' = recent
    <3>1. Rows' = Rows
      BY <1>3, <2>2 DEF Rows
    <3> QED BY <1>2, <2>2, <3>1 DEF MapType
  <2> QED BY <2>1, <2>2 DEF CreateInvited
<1> QED BY <1>1, <1>2, <1>4 DEF MapWrites

\* A start of the server adds rows of parents for linked schools only.
LEMMA BackfillType ==
  ASSUME MapType, links \subseteq Schools, Backfill
  PROVE  /\ MapType'
         /\ \A x \in Schools : utm'[x] # None =>
              \/ utm[x] # None /\ utm'[x].role = utm[x].role
              \/ x \in links /\ utm'[x].role = "parent"
<1>1. PICK row \in Row : /\ row = [role |-> "parent", status |-> "active"]
                         /\ row.role = "parent" /\ row # None
  <2>1. [role |-> "parent", status |-> "active"] \in Row
    BY ConstantsAssumption DEF Row, Statuses
  <2> QED BY <2>1, ConstantsAssumption
<1>2. utm' = [s \in Schools |-> IF s \in links /\ utm[s] = None THEN row ELSE utm[s]]
  BY <1>1 DEF Backfill
<1>3. utm' \in [Schools -> Row \cup {None}] /\ Rows' = Rows \cup links
  BY <1>1, <1>2 DEF MapType, Rows
<1>4. PICK new \in SetToSeqs(links \ Rows) : recent' = new \o recent
  BY DEF Backfill
<1>5. IsFiniteSet(links \ Rows)
  BY FS_Subset, ConstantsAssumption
<1>6. new \in Seq(links \ Rows) /\ IsInjective(new) /\ ToSet(new) = links \ Rows
  BY <1>5, SetToSeqsOrders, Zenon DEF Orders
<1>7. links \ Rows \subseteq Schools
  OBVIOUS
<1>8. new \in Seq(Schools)
  BY <1>6, <1>7, SeqMonotonic
<1>9. recent \in Seq(Schools) /\ IsInjective(recent) /\ ToSet(recent) = Rows
  BY DEF MapType
<1>10. ToSet(new) \cap ToSet(recent) = {} /\ ToSet(new) \cup ToSet(recent) = Rows \cup links
  BY <1>6, <1>9
<1>11. recent' \in Seq(Schools) /\ IsInjective(recent') /\ ToSet(recent') = Rows'
  BY <1>3, <1>4, <1>6, <1>8, <1>9, <1>10, ConcatOrders, Zenon
<1>12. MapType'
  BY <1>3, <1>11, Zenon DEF MapType
<1> QED BY <1>1, <1>2, <1>12

\* get_tenant_for_email answers with a school that has a row.
LEMMA TenantForEmailHasRow ==
  ASSUME MapType, TenantForEmail # None
  PROVE  TenantForEmail \in Schools /\ utm[TenantForEmail] \in Row
<1>1. recent # <<>> /\ TenantForEmail = Head(recent)
  BY DEF TenantForEmail
<1>2. recent \in Seq(Schools) /\ ToSet(recent) = Rows
  BY DEF MapType
<1>3. Head(recent) = recent[1] /\ 1 \in 1 .. Len(recent)
  BY <1>1, <1>2
<1>4. Head(recent) \in ToSet(recent)
  BY <1>2, <1>3, SeqDomain
<1> QED BY <1>1, <1>2, <1>4 DEF Rows, MapType

-------------------------------------------------------------------------------
(* What every step keeps.                                                   *)

\* A parents row is never deleted.
ParentsStay == parents # None => parents' # None

EverGrows == \A s \in Schools : ever[s] \subseteq ever'[s]

LEMMA RequestIsBusy ==
  ASSUME NEW q \in Request
  PROVE  q # Idle /\ q.pc \in Steps /\ q.pc # "idle"
  BY DEF Request, Idle, Steps, Early, Provisioning, Writing

LEMMA RequestCases ==
  ASSUME Flying, NEW r \in Requests
  PROVE  /\ req[r] = Idle \/ req[r] \in Request
         /\ req[r] # Idle <=> req[r].pc \in Steps
         /\ req[r].pc \in Steps => req[r] \in Request
         /\ Working(r) <=> req[r] # Idle /\ req[r].pc # "granted"
  BY RequestIsBusy DEF Flying, Idle, Working, Steps, Early, Provisioning, Writing

\* The history of a step.
LEMMA WatchKeeps ==
  ASSUME Flying, Watch, local' \in [Schools -> Roles \cup {None}], utm' \in [Schools -> Row \cup {None}]
  PROVE  /\ since' \in [Requests -> [Schools -> SUBSET Roles]]
         /\ barred' \in [Requests -> SUBSET Schools]
         /\ hurt \subseteq hurt'
         /\ \A r \in Requests : Working(r)' /\ req'[r].sel /\ req'[r].unread => req'[r].tenant \in hurt'
         /\ \A r \in Requests : \A s \in Schools :
              /\ Working(r) => since[r][s] \subseteq since'[r][s]
              /\ local'[s] # None => local'[s] \in since'[r][s]
<1>1. since' \in [Requests -> [Schools -> SUBSET Roles]]
  <2>1. \A r \in Requests : \A s \in Schools :
          (IF Working(r) THEN since[r][s] ELSE {}) \cup ({local'[s]} \ {None}) \in SUBSET Roles
    BY DEF Flying
  <2> QED BY <2>1 DEF Watch
<1>2. barred' \in [Requests -> SUBSET Schools]
  <2>1. Barred' \subseteq Schools
    BY DEF Barred, Rows
  <2> QED BY <2>1 DEF Watch, Flying
<1>3. /\ hurt \subseteq hurt'
      /\ \A r \in Requests : Working(r)' /\ req'[r].sel /\ req'[r].unread => req'[r].tenant \in hurt'
  BY DEF Watch
<1>4. \A r \in Requests : \A s \in Schools :
        since'[r][s] = (IF Working(r) THEN since[r][s] ELSE {}) \cup ({local'[s]} \ {None})
  BY DEF Watch
<1> QED BY <1>1, <1>2, <1>3, <1>4

\* Given after the step.
GivenNext(s, role) == s \notin hurt' => role \in ever'[s] \cup {"pending"}

LEMMA GivenStays ==
  ASSUME EverGrows, hurt \subseteq hurt', NEW s \in Schools, NEW role, Given(s, role)
  PROVE  GivenNext(s, role)
  BY DEF EverGrows, Given, GivenNext

\* A request that does not move keeps what it knows.
LEMMA RequestStays ==
  ASSUME IInv, Watch, ParentsStay, EverGrows, Tables', NEW r \in Requests, req'[r] = req[r]
  PROVE  (Knows(req[r]) /\ Chosen(req[r]) /\ Earned(req[r]) /\ Local(r))'
<1>1. /\ hurt \subseteq hurt'
      /\ \A s \in Schools : Working(r) => since[r][s] \subseteq since'[r][s]
  BY WatchKeeps DEF IInv, Tables, MembershipsType
<1>2. Knows(req[r]) /\ Chosen(req[r]) /\ Earned(req[r]) /\ Local(r) /\ Flying
  BY DEF IInv, Requested
<1>3. (Knows(req[r]) /\ Chosen(req[r]))'
  BY <1>2 DEF Knows, Reading, Chosen, Ambiguous
<1>4. CASE req[r] = Idle
  BY <1>3, <1>4 DEF Earned, Local
<1>5. CASE req[r] \in Request
  <2>1. PICK q \in Request : q = req[r]
    BY <1>5
  <2>2. q.tenant \in Schools \cup {None}
    BY DEF Request
  <2>3. Earned(q)'
    BY <1>1, <1>2, <2>1, <2>2, GivenStays DEF Earned, Given, GivenNext, ParentsStay
  <2>4. Local(r)'
    <3>1. q # Idle /\ (q.pc \in Writing => q.pc # "granted" /\ q.tenant # None)
      BY <1>2, <2>1, RequestIsBusy DEF Knows, Reading, Provisioning, Writing
    <3>2. q.pc \in Writing => q.tenant \in Schools /\ Working(r)
      BY <1>2, <2>1, <2>2, <3>1, RequestCases
    <3> QED BY <1>1, <1>2, <2>1, <3>2 DEF Local
  <2> QED BY <1>3, <2>1, <2>3, <2>4 DEF Earned
<1> QED BY <1>2, <1>4, <1>5, RequestCases

\* A role is written where it was given.
Allowed(s, role) == role = None \/ GivenNext(s, role)

LEMMA WritesAllowed ==
  ASSUME IInv, Watch, ParentsStay, EverGrows, Tables',
         \A s \in Schools : local'[s] = local[s] \/ Allowed(s, local'[s]),
         \A s \in Schools : utm'[s] # None =>
           (utm[s] # None /\ utm'[s].role = utm[s].role) \/ Allowed(s, utm'[s].role),
         \A s \in Schools : s \in links' => s \in links \/ GivenNext(s, "parent")
  PROVE  WellGiven'
<1>1. hurt \subseteq hurt' /\ links' \subseteq Schools
  BY WatchKeeps DEF IInv, Tables, MembershipsType
<1>2. ASSUME NEW s \in Schools, local'[s] # None
      PROVE  GivenNext(s, local'[s])
  <2>1. CASE local'[s] = local[s]
    <3>1. PICK role : role = local[s] /\ Given(s, role)
      BY <1>2, <2>1 DEF IInv, WellGiven
    <3> QED BY <1>1, <2>1, <3>1, GivenStays
  <2> QED BY <1>2, <2>1 DEF Allowed
<1>3. ASSUME NEW s \in Schools, utm'[s] # None
      PROVE  GivenNext(s, utm'[s].role)
  <2>1. CASE utm[s] # None /\ utm'[s].role = utm[s].role
    <3>1. PICK role : role = utm[s].role /\ Given(s, role)
      BY <2>1 DEF IInv, WellGiven
    <3> QED BY <1>1, <2>1, <3>1, GivenStays
  <2>2. CASE Allowed(s, utm'[s].role)
    <3>1. utm'[s] \in Row
      BY <1>3 DEF Tables, MembershipsType
    <3>2. utm'[s].role # None
      BY <3>1, ConstantsAssumption DEF Row
    <3> QED BY <2>2, <3>2 DEF Allowed
  <2> QED BY <1>3, <2>1, <2>2
<1>4. \A s \in links' : GivenNext(s, "parent")
  BY <1>1, GivenStays DEF IInv, WellGiven
<1>5. (\A s \in Schools : local[s] # None => Given(s, local[s]))'
  BY <1>2 DEF Given, GivenNext
<1>6. (\A s \in Schools : utm[s] # None => Given(s, utm[s].role))'
  BY <1>3 DEF Given, GivenNext
<1>7. (\A s \in links : Given(s, "parent"))'
  BY <1>4 DEF Given, GivenNext
<1> QED BY <1>5, <1>6, <1>7 DEF WellGiven

\* A step of somebody other than a request.
LEMMA BesideRequests ==
  ASSUME IInv, Watch, ParentsStay, EverGrows, Tables', req' = req,
         adm' \in {Idle} \cup Task, ever' \in [Schools -> SUBSET Roles],
         TokenKinds', Promised', WellGiven'
  PROVE  IInv'
<1>1. Flying'
  BY WatchKeeps DEF Flying, IInv, Tables, MembershipsType
<1>2. Requested'
  BY RequestStays DEF Requested
<1> QED BY <1>1, <1>2 DEF IInv

\* Where a request goes, z, and what it must know there.
Fits(r, z) ==
  /\ z = Idle \/ z \in Request
  /\ Knows(z) /\ Chosen(z)
  /\ z # Idle /\ z.pc # "granted" /\ z.tenant # None /\ ~(z.sel /\ z.pc = "local") =>
       GivenNext(z.tenant, z.role)
  /\ z # Idle /\ z.pc = "link" => parents' # None
  /\ z # Idle /\ z.pc \in Writing /\ z.sel /\ ~z.unread => z.roles \subseteq since'[r][z.tenant]

LEMMA RequestMoves ==
  ASSUME IInv, Watch, ParentsStay, NEW r \in Requests, NEW z, Become(r, z), Same, Fits(r, z),
         Tables', WellGiven'
  PROVE  IInv'
<1>1. req'[r] = z /\ \A x \in Requests \ {r} : req'[x] = req[x]
  BY DEF Become, IInv, Flying
<1>2. EverGrows /\ adm' = adm /\ ever' = ever /\ mail' = mail /\ token' = token
  BY DEF Same, EverGrows
<1>3. Flying'
  BY <1>2, WatchKeeps DEF Fits, Become, Flying, IInv, Tables, MembershipsType
<1>4. hurt \subseteq hurt'
  BY WatchKeeps DEF IInv, Tables, MembershipsType
<1>5. TokenKinds'
  BY <1>2, <1>4 DEF TokenKinds, IInv, Given
<1>6. Promised'
  BY <1>2 DEF Promised, Mailed, mail, IInv
<1>7. (Knows(req[r]) /\ Chosen(req[r]) /\ Earned(req[r]) /\ Local(r))'
  <2>1. (Knows(req[r]) /\ Chosen(req[r]))'
    BY <1>1 DEF Fits, Knows, Reading, Chosen, Ambiguous
  <2>2. Earned(req[r])'
    <3>1. z # Idle /\ z.pc # "granted" /\ z.sel /\ z.unread => z.tenant \in hurt'
      <4>1. z # Idle /\ z.pc # "granted" => Working(r)'
        BY <1>1, RequestIsBusy DEF Fits, Working
      <4> QED BY <1>1, <4>1, WatchKeeps DEF IInv, Tables, MembershipsType
    <3> QED BY <1>1, <3>1 DEF Fits, Earned, Given, GivenNext
  <2>3. Local(r)'
    BY <1>1 DEF Fits, Local
  <2> QED BY <2>1, <2>2, <2>3
<1>8. Requested'
  BY <1>1, <1>2, <1>7, RequestStays DEF Requested
<1> QED BY <1>3, <1>5, <1>6, <1>8 DEF IInv

LEMMA TablesSame ==
  ASSUME IInv, Watch, ParentsStay, EverGrows, UNCHANGED <<control, people>>, UNCHANGED <<mail, idp, token>>
  PROVE  Tables' /\ WellGiven'
<1>1. UNCHANGED <<utm, recent, links, cache, local, real, parents>>
  BY DEF control, people
<1>2. Tables'
  BY <1>1 DEF IInv, Tables, MembershipsType, Rows, mail
<1>3. WellGiven'
  BY <1>1, <1>2, WritesAllowed
<1> QED BY <1>2, <1>3

\* A request that only reads.
LEMMA RequestReads ==
  ASSUME IInv, Watch, ParentsStay, NEW r \in Requests, NEW z, Become(r, z), Same, Fits(r, z),
         UNCHANGED <<control, people>>
  PROVE  IInv'
<1>1. EverGrows /\ UNCHANGED <<mail, idp, token>>
  BY DEF Same, EverGrows
<1> QED BY <1>1, TablesSame, RequestMoves

-------------------------------------------------------------------------------
(* get_current_user.                                                        *)

LEMMA RequestHere ==
  ASSUME IInv, NEW r \in Requests, req[r].pc \in Steps
  PROVE  req[r] \in Request /\ Knows(req[r]) /\ Chosen(req[r]) /\ Earned(req[r]) /\ Local(r)
  BY RequestCases DEF IInv, Requested

LEMMA GivenKept ==
  ASSUME Watch, Same, NEW s, NEW role, Given(s, role)
  PROVE  GivenNext(s, role)
  BY DEF Watch, Same, Given, GivenNext

\* Roles read from the users row during the request stay on record.
LEMMA SinceKept ==
  ASSUME IInv, Watch, Tables', NEW r \in Requests, Working(r), NEW s \in Schools
  PROVE  since[r][s] \subseteq since'[r][s]
  BY WatchKeeps DEF IInv, Tables, MembershipsType

LEMMA IdleFits == ASSUME NEW r PROVE Fits(r, Idle)
  BY DEF Fits, Knows, Reading, Chosen, Idle

LEMMA NoOrganizations == ASSUME NEW q, q.orgs = {} PROVE ~Ambiguous(q)
  BY FS_EmptySet DEF Ambiguous

\* z carries the token and the header of q.
Carries(z, q) ==
  /\ z \in Request /\ z.kc = q.kc /\ z.email = q.email /\ z.orgs = q.orgs
  /\ z.claim = q.claim /\ z.header = q.header

\* A request that goes on with the school, the roles and the choice it has.
Onwards(z, q) ==
  /\ Carries(z, q) /\ z.mem = q.mem /\ z.tenant = q.tenant /\ z.role = q.role
  /\ z.roles = q.roles /\ z.sel = q.sel

LEMMA ChangePc ==
  ASSUME NEW q \in Request, NEW l \in Steps
  PROVE  /\ Onwards([q EXCEPT !.pc = l], q)
         /\ [q EXCEPT !.pc = l].pc = l /\ [q EXCEPT !.pc = l].unread = q.unread
  BY DEF Request, Onwards, Carries

LEMMA MovesOn ==
  ASSUME NEW r \in Requests, NEW l \in Steps, req[r] \in Request, To(r, l) \/ Caught(r, l)
  PROVE  \E z : Become(r, z) /\ Onwards(z, req[r]) /\ z.pc = l /\ (req[r].unread => z.unread)
<1>1. PICK q \in Request : q = req[r]
  OBVIOUS
<1>2. PICK z : z = [q EXCEPT !.pc = l] /\ Become(r, z)
  BY <1>1 DEF To, Caught
<1>3. Onwards(z, q) /\ z.pc = l /\ z.unread = q.unread
  BY <1>2, ChangePc
<1> QED BY <1>1, <1>2, <1>3

LEMMA ArriveInv ==
  ASSUME IInv, Watch, ParentsStay, NEW r \in Requests, NEW header \in Schools \cup {None}, Arrive(r, header)
  PROVE  IInv'
<1> DEFINE z == [pc |-> IF token.email THEN "members" ELSE "select",
                 kc |-> token.kc, email |-> token.email, orgs |-> token.orgs,
                 claim |-> token.claim, header |-> header, mem |-> {},
                 tenant |-> token.claim, role |-> token.role, roles |-> {token.role},
                 sel |-> FALSE, unread |-> FALSE]
<1>1. token \in Token /\ Become(r, z) /\ Same /\ UNCHANGED <<control, people>>
  BY DEF Arrive, IInv, Tables
<1>2. z \in Request
  BY <1>1 DEF Token, Request, Steps, Early
<1>3. /\ z.pc \in {"members", "select"} /\ (~z.email => z.pc = "select") /\ ~z.sel /\ z.mem = {}
      /\ z.kc => z.claim = None /\ z.email /\ z.role = "pending"
      /\ ~z.kc => z.orgs = {} /\ z.claim # None /\ Given(z.claim, z.role)
      /\ z.tenant = z.claim /\ z.role \in z.roles
  BY <1>1 DEF Token, IInv, TokenKinds, Arrive
<1> HIDE DEF z
<1>4. Knows(z)
  BY <1>2, <1>3 DEF Knows, Reading, Provisioning, Writing
<1>5. Chosen(z)
  BY <1>2, <1>3, NoOrganizations DEF Chosen, Provisioning, Writing
<1>6. z.tenant # None => GivenNext(z.tenant, z.role)
  BY <1>1, <1>3, GivenKept
<1>7. Fits(r, z)
  BY <1>2, <1>3, <1>4, <1>5, <1>6 DEF Fits
<1> QED BY <1>1, <1>7, RequestReads

\* Two reads of the memberships, and the store into the cache.
LEMMA MembersInv ==
  ASSUME IInv, Watch, ParentsStay, NEW r \in Requests, NEW z, Become(r, z), Same, Tables', WellGiven',
         req[r].pc \in Reading, Carries(z, req[r]),
         z.tenant = req[r].tenant, z.role = req[r].role, z.roles = req[r].roles,
         z.sel = req[r].sel, z.pc \in Reading \cup {"resolve"}
  PROVE  IInv'
<1>1. PICK q \in Request : q = req[r] /\ Knows(q) /\ Chosen(q) /\ Earned(q)
  BY RequestHere DEF Steps, Early, Reading
<1>2. q # Idle /\ z # Idle /\ z \in Request /\ Ambiguous(z) = Ambiguous(q)
  BY <1>1, RequestIsBusy DEF Carries, Ambiguous
<1>3. Knows(z)
  BY <1>1, <1>2 DEF Knows, Carries, Early, Reading, Provisioning, Writing
<1>4. Chosen(z)
  BY <1>1, <1>2 DEF Chosen, Carries, Reading, Provisioning, Writing
<1>5. z.tenant # None => GivenNext(z.tenant, z.role)
  BY <1>1, <1>2, GivenKept DEF Earned, Reading
<1>6. Fits(r, z)
  BY <1>1, <1>2, <1>3, <1>4, <1>5 DEF Fits, Reading, Provisioning, Writing
<1> QED BY <1>6, RequestMoves

\* One of the statements that read the memberships: mem is what was read so far.
LEMMA ReadsMembers ==
  ASSUME IInv, Watch, ParentsStay, NEW r \in Requests, Same, UNCHANGED <<control, people>>,
         req[r].pc \in Reading, NEW l \in Reading \cup {"resolve"}, NEW mem \in SUBSET Schools,
         Become(r, [req[r] EXCEPT !.pc = l, !.mem = mem])
  PROVE  IInv'
<1>1. PICK q \in Request : q = req[r]
  BY RequestHere DEF Steps, Early, Reading
<1>2. Tables' /\ WellGiven'
  BY TablesSame DEF Same, EverGrows
<1>3. PICK z : z = [q EXCEPT !.pc = l, !.mem = mem] /\ Become(r, z)
  BY <1>1
<1>4. /\ Carries(z, q) /\ z.tenant = q.tenant /\ z.role = q.role /\ z.roles = q.roles
      /\ z.sel = q.sel /\ z.pc = l
  BY <1>3 DEF Request, Carries, Steps, Early, Reading
<1> QED BY <1>1, <1>2, <1>3, <1>4, MembersInv

\* The same without anything new.
LEMMA ReadsNothing ==
  ASSUME IInv, Watch, ParentsStay, NEW r \in Requests, Same, UNCHANGED <<control, people>>,
         req[r].pc \in Reading, NEW l \in Reading \cup {"resolve"}, To(r, l)
  PROVE  IInv'
<1>1. PICK q \in Request : q = req[r]
  BY RequestHere DEF Steps, Early, Reading
<1>2. [q EXCEPT !.pc = l] = [q EXCEPT !.pc = l, !.mem = q.mem] /\ q.mem \in SUBSET Schools
  BY DEF Request
<1> QED BY <1>1, <1>2, ReadsMembers DEF To

LEMMA ReadMembershipsInv ==
  ASSUME IInv, Watch, ParentsStay, NEW r \in Requests, ReadMemberships(r)
  PROVE  IInv'
<1>1. req[r].pc \in Reading /\ Same /\ UNCHANGED <<control, people>>
  BY DEF ReadMemberships, At, Reading
<1>2. Rows \in SUBSET Schools /\ (cache # None => cache \in SUBSET Schools)
  BY DEF IInv, Tables, MembershipsType, Rows
<1>3. CASE cache # None /\ Become(r, [req[r] EXCEPT !.pc = "resolve", !.mem = cache])
  BY <1>1, <1>2, <1>3, ReadsMembers
<1>4. CASE Become(r, [req[r] EXCEPT !.pc = "parentid", !.mem = Rows])
  <2>1. "parentid" \in Reading
    BY DEF Reading
  <2> QED BY <1>1, <1>2, <1>4, <2>1, ReadsMembers
<1>5. CASE Caught(r, "resolve")
  BY <1>1, <1>5, ReadsNothing DEF Caught
<1> QED BY <1>3, <1>4, <1>5 DEF ReadMemberships

LEMMA ReadParentIdInv ==
  ASSUME IInv, Watch, ParentsStay, NEW r \in Requests, ReadParentId(r)
  PROVE  IInv'
<1>1. req[r].pc \in Reading /\ Same /\ UNCHANGED <<control, people>>
  BY DEF ReadParentId, At, Reading
<1>2. ASSUME NEW l \in {"fill", "parentlinks"}, To(r, l)
      PROVE  IInv'
  <2>1. l \in Reading
    BY DEF Reading
  <2> QED BY <1>1, <1>2, <2>1, ReadsNothing
<1>3. CASE Become(r, [req[r] EXCEPT !.pc = "resolve", !.mem = {}])
  BY <1>1, <1>3, ReadsMembers
<1> QED BY <1>2, <1>3 DEF ReadParentId

LEMMA ReadParentLinksInv ==
  ASSUME IInv, Watch, ParentsStay, NEW r \in Requests, ReadParentLinks(r)
  PROVE  IInv'
<1>1. /\ req[r].pc = "parentlinks" /\ req[r].pc \in Reading /\ "fill" \in Reading
      /\ Same /\ UNCHANGED <<control, people>>
  BY DEF ReadParentLinks, At, Reading
<1>2. PICK q \in Request : q = req[r]
  BY <1>1, RequestHere DEF Steps, Early
<1>3. q.mem \cup links \in SUBSET Schools
  BY DEF Request, IInv, Tables, MembershipsType
<1>4. CASE Become(r, [q EXCEPT !.pc = "fill", !.mem = q.mem \cup links])
  BY <1>1, <1>2, <1>3, <1>4, ReadsMembers
<1>5. CASE Become(r, [req[r] EXCEPT !.pc = "resolve", !.mem = {}])
  BY <1>1, <1>5, ReadsMembers
<1> QED BY <1>2, <1>4, <1>5 DEF ReadParentLinks

LEMMA FillCacheInv ==
  ASSUME IInv, Watch, ParentsStay, NEW r \in Requests, FillCache(r)
  PROVE  IInv'
<1>1. PICK q \in Request : q = req[r] /\ q.pc = "fill" /\ q.pc \in Reading
  BY RequestHere DEF FillCache, At, Steps, Early, Reading
<1>2. /\ Same /\ EverGrows /\ cache' = q.mem
      /\ UNCHANGED <<utm, recent, links, local, real, parents, mail, idp, token>>
  BY <1>1 DEF FillCache, Same, EverGrows, people
<1>3. Tables'
  BY <1>1, <1>2 DEF IInv, Tables, MembershipsType, Rows, Request, mail
<1>4. WellGiven'
  BY <1>2, <1>3, WritesAllowed
<1>5. PICK z : z = [q EXCEPT !.pc = "resolve"] /\ Become(r, z)
  BY <1>1 DEF FillCache, To
<1>6. Onwards(z, q) /\ z.pc = "resolve"
  BY <1>5, ChangePc DEF Steps, Early
<1> QED BY <1>1, <1>2, <1>3, <1>4, <1>5, <1>6, MembersInv DEF Onwards

LEMMA ClaimedSchool ==
  ASSUME NEW q \in Request, Knows(q)
  PROVE  /\ Claimed(q) \in Schools \cup {None}
         /\ Ambiguous(q) => Claimed(q) = None
         /\ ~q.kc => Claimed(q) = q.claim
<1>1. q # Idle /\ q.orgs \subseteq Schools /\ q.claim \in Schools \cup {None} /\ q.kc \in BOOLEAN
  BY RequestIsBusy DEF Request
<1>2. Cardinality(q.orgs) = 1 => q.orgs # {}
  BY FS_EmptySet
<1>3. Cardinality(q.orgs) \in Nat
  BY <1>1, FS_Subset, FS_CardinalityType, ConstantsAssumption
<1>4. Ambiguous(q) => Cardinality(q.orgs) # 1 /\ q.kc
  BY <1>1, <1>3, NoOrganizations DEF Ambiguous, Knows, Reading
<1> QED BY <1>1, <1>2, <1>4 DEF Claimed, Knows, Reading

\* The school the request settles on, and the role that comes with it.
LEMMA ResolveTenantInv ==
  ASSUME IInv, Watch, ParentsStay, NEW r \in Requests, ResolveTenant(r)
  PROVE  IInv'
<1>1. PICK q \in Request : /\ q = req[r] /\ q.pc = "resolve" /\ q # Idle
                           /\ Knows(q) /\ Chosen(q) /\ Earned(q)
  BY RequestHere, RequestIsBusy DEF ResolveTenant, At, Steps, Early
<1>2. Same /\ UNCHANGED <<control, people>>
  BY DEF ResolveTenant
<1>3. /\ q.email /\ ~q.sel /\ (q.kc => q.role = "pending") /\ q.role \in q.roles
      /\ q.tenant = q.claim /\ (q.claim # None => Given(q.claim, q.role))
      /\ q.kc \in BOOLEAN /\ q.email \in BOOLEAN
  BY <1>1 DEF Knows, Reading, Earned, Early, Request
<1>4. PICK c \in Schools \cup {None} : c = Claimed(q)
  BY <1>1, ClaimedSchool
<1>5. (Ambiguous(q) => c = None) /\ (~q.kc => c = q.claim)
  BY <1>1, <1>4, ClaimedSchool
<1>6. ASSUME NEW z, Become(r, z), Carries(z, q), z.mem = q.mem, ~z.sel,
             z.pc \in {"select", "invited"}, z.pc = "invited" => ~Ambiguous(q),
             z.role \in z.roles, z.tenant = None => z.role = "pending",
             Ambiguous(q) => z.tenant = None,
             z.tenant # None => Given(z.tenant, z.role)
      PROVE  IInv'
  <2>1. z \in Request /\ z # Idle /\ Ambiguous(z) = Ambiguous(q)
    BY <1>6, RequestIsBusy DEF Carries, Ambiguous
  <2>2. Knows(z)
    BY <1>1, <1>3, <1>6, <2>1 DEF Knows, Reading, Carries, Provisioning, Writing
  <2>3. Chosen(z)
    BY <1>6, <2>1 DEF Chosen, Carries, Provisioning, Writing
  <2>4. z.tenant # None => GivenNext(z.tenant, z.role)
    BY <1>2, <1>6, GivenKept
  <2>5. Fits(r, z)
    BY <1>6, <2>1, <2>2, <2>3, <2>4 DEF Fits, Provisioning, Writing
  <2> QED BY <1>2, <1>6, <2>5, RequestReads
<1> DEFINE p == [q EXCEPT !.tenant = c]
<1>7. /\ p \in Request /\ Carries(p, q) /\ p.mem = q.mem /\ p.sel = q.sel /\ p.role = q.role
      /\ p.roles = q.roles /\ p.tenant = c
  BY DEF Request, Carries
<1>8. Ambiguous(p) = Ambiguous(q)
  BY <1>7 DEF Carries, Ambiguous
<1>9. /\ c # None => Given(c, q.role)
      /\ c = None => q.role = "pending"
  <2>1. CASE q.kc
    BY <1>3, <2>1 DEF Given
  <2>2. CASE ~q.kc
    BY <1>1, <1>3, <1>5, <2>2 DEF Knows, Reading
  <2> QED BY <2>1, <2>2
<1> HIDE DEF p
<1>10. ASSUME NEW z, Become(r, z), Onwards(z, p), z.pc \in {"select", "invited"},
              z.pc = "invited" => ~Ambiguous(q)
       PROVE  IInv'
  BY <1>3, <1>5, <1>6, <1>7, <1>9, <1>10 DEF Onwards, Carries
<1>11. CASE Become(r, [p EXCEPT !.pc = "select"])
  BY <1>7, <1>10, <1>11, ChangePc DEF Steps, Early
<1>13. CASE /\ ~(Ambiguous(p) \/ (p.tenant # None /\ p.role # "pending"))
            /\ TenantForEmail = None /\ Become(r, [p EXCEPT !.pc = "invited"])
  BY <1>7, <1>8, <1>10, <1>13, ChangePc DEF Steps, Early
<1>14. ASSUME ~(Ambiguous(p) \/ (p.tenant # None /\ p.role # "pending")),
              TenantForEmail # None, NEW l \in {"invited", "select"},
              Become(r, [Settled(p, TenantForEmail, utm[TenantForEmail].role) EXCEPT !.pc = l])
       PROVE  IInv'
  <2>1. PICK m \in Schools, role \in Roles :
          m = TenantForEmail /\ role = utm[m].role /\ utm[m] # None
    <3>1. TenantForEmail \in Schools /\ utm[TenantForEmail] \in Row
      BY <1>14, TenantForEmailHasRow DEF MapType, IInv, Tables, MembershipsType
    <3> QED BY <3>1, ConstantsAssumption DEF Row
  <2>2. p.role = "pending"
    BY <1>7, <1>9, <1>14
  <2>3. Settled(p, m, role) = [p EXCEPT !.tenant = m, !.role = role, !.roles = p.roles \cup {role}]
    BY <2>2 DEF Settled
  <2>4. PICK z : z = [[p EXCEPT !.tenant = m, !.role = role, !.roles = p.roles \cup {role}]
                        EXCEPT !.pc = l]
    OBVIOUS
  <2>5. /\ Carries(z, p) /\ z.mem = p.mem /\ z.sel = p.sel /\ z.tenant = m /\ z.role = role
        /\ role \in z.roles /\ z.pc = l
    BY <1>7, <1>14, <2>4 DEF Request, Carries, Steps, Early
  <2>6. Become(r, z)
    BY <1>14, <2>1, <2>3, <2>4
  <2>7. Given(m, role) /\ m # None
    BY <2>1, ConstantsAssumption DEF IInv, WellGiven
  <2> QED BY <1>3, <1>6, <1>7, <1>8, <1>14, <2>5, <2>6, <2>7 DEF Carries
<1> QED
  <2>1. p = [req[r] EXCEPT !.tenant = Claimed(req[r])]
    BY <1>1, <1>4 DEF p
  <2> QED BY <1>11, <1>13, <1>14, <2>1 DEF ResolveTenant

\* A request without several organizations goes on to the choice of a school, or
\* from the scan to its users row.
LEMMA EarlyInv ==
  ASSUME IInv, Watch, ParentsStay, NEW r \in Requests, NEW z, Become(r, z), Same, Tables', WellGiven',
         req[r].pc \in {"invited", "addressed", "heal", "scanned"}, Onwards(z, req[r]),
         z.pc \in {"select", "local", "addressed"}, z.pc = "local" => req[r].pc = "scanned",
         z.pc = "addressed" => req[r].pc = "invited"
  PROVE  IInv'
<1>1. PICK q \in Request : /\ q = req[r] /\ q # Idle
                           /\ Knows(q) /\ Chosen(q) /\ Earned(q)
  BY RequestHere, RequestIsBusy DEF Steps, Early
<1>2. z \in Request /\ z # Idle /\ Ambiguous(z) = Ambiguous(q)
  BY <1>1, RequestIsBusy DEF Onwards, Carries, Ambiguous
<1>3. ~Ambiguous(q) /\ ~z.sel
  BY <1>1 DEF Chosen, Knows, Reading, Early, Onwards
<1>4. Knows(z)
  BY <1>1, <1>2, <1>3 DEF Knows, Reading, Onwards, Carries, Provisioning, Writing, Early
<1>5. Chosen(z)
  BY <1>2, <1>3 DEF Chosen
<1>6. z.tenant # None => GivenNext(z.tenant, z.role)
  BY <1>1, <1>3, GivenKept DEF Earned, Onwards
<1>7. Fits(r, z)
  BY <1>2, <1>3, <1>4, <1>5, <1>6 DEF Fits
<1> QED BY <1>7, RequestMoves

\* An invitation names the school and a role that was given there.
LEMMA InvitedByInv ==
  ASSUME IInv, Watch, ParentsStay, NEW r \in Requests, Same, UNCHANGED <<control, people>>,
         req[r].pc \in {"invited", "addressed"}, NEW i \in Invitation,
         i.role \in ever[i.school], InvitedBy(r, i)
  PROVE  IInv'
<1>1. PICK q \in Request : /\ q = req[r] /\ q.pc \in {"invited", "addressed"} /\ q # Idle
                           /\ Knows(q) /\ Chosen(q) /\ Earned(q)
  BY RequestHere, RequestIsBusy DEF Steps, Early
<1>2. Tables' /\ WellGiven'
  BY TablesSame DEF Same, EverGrows
<1>3. i.school \in Schools /\ i.role \in Roles /\ i.school # None
  BY ConstantsAssumption DEF Invitation
<1>4. PICK z : z = [q EXCEPT !.pc = "heal", !.tenant = i.school, !.role = i.role,
                             !.roles = q.roles \cup {i.role}]
  OBVIOUS
<1>5. /\ Carries(z, q) /\ z.mem = q.mem /\ z.sel = q.sel /\ z.tenant = i.school
      /\ z.role = i.role /\ z.role \in z.roles /\ z.pc = "heal"
  BY <1>3, <1>4 DEF Request, Carries, Steps, Early
<1>6. Become(r, z)
  BY <1>1, <1>4 DEF InvitedBy
<1>7. z \in Request /\ z # Idle /\ ~Ambiguous(z) /\ ~z.sel
  BY <1>1, <1>5, RequestIsBusy DEF Carries, Ambiguous, Chosen, Knows, Reading, Early
<1>8. Knows(z)
  BY <1>1, <1>3, <1>5, <1>7 DEF Knows, Carries, Reading, Provisioning, Writing
<1>9. GivenNext(z.tenant, z.role)
  BY <1>3, <1>5, GivenKept DEF Given
<1>10. Fits(r, z)
  BY <1>5, <1>7, <1>8, <1>9 DEF Fits, Chosen, Provisioning, Writing
<1> QED BY <1>2, <1>6, <1>10, RequestMoves

LEMMA ReadInvitationInv ==
  ASSUME IInv, Watch, ParentsStay, NEW r \in Requests, ReadInvitation(r)
  PROVE  IInv'
<1>1. req[r].pc = "invited" /\ req[r] \in Request
  BY RequestHere DEF ReadInvitation, At, Steps, Early
<1>2. Same /\ UNCHANGED <<control, people>> /\ Tables' /\ WellGiven'
  BY TablesSame DEF ReadInvitation, Same, EverGrows
<1>3. ASSUME NEW l \in {"select", "addressed"}, To(r, l)
      PROVE  IInv'
  <2>1. PICK z : Become(r, z) /\ Onwards(z, req[r]) /\ z.pc = l
    BY <1>1, <1>3, MovesOn DEF Steps, Early
  <2> QED BY <1>1, <1>2, <2>1, EarlyInv
<1>4. CASE invites # <<>> /\ InvitedBy(r, Head(invites))
  <2>1. invites \in Seq(Invitation)
    BY DEF IInv, Tables
  <2>2. 1 \in 1 .. Len(invites) /\ Head(invites) = invites[1] /\ invites[1] \in Invitation
    BY <1>4, <2>1
  <2>3. invites[1].role \in ever[invites[1].school]
    BY <2>2 DEF IInv, Promised, Mailed
  <2> QED BY <1>1, <1>2, <1>4, <2>2, <2>3, InvitedByInv
<1> QED BY <1>3, <1>4 DEF ReadInvitation, Caught

LEMMA ReadAddressedInv ==
  ASSUME IInv, Watch, ParentsStay, NEW r \in Requests, ReadAddressed(r)
  PROVE  IInv'
<1>1. req[r].pc = "addressed" /\ req[r] \in Request
  BY RequestHere DEF ReadAddressed, At, Steps, Early
<1>2. Same /\ UNCHANGED <<control, people>> /\ Tables' /\ WellGiven'
  BY TablesSame DEF ReadAddressed, Same, EverGrows
<1>3. CASE To(r, "select")
  <2>1. PICK z : Become(r, z) /\ Onwards(z, req[r]) /\ z.pc = "select"
    BY <1>1, <1>3, MovesOn DEF Steps, Early
  <2> QED BY <1>1, <1>2, <2>1, EarlyInv
<1>4. CASE addressed # None /\ InvitedBy(r, addressed)
  <2>1. addressed \in Invitation /\ addressed.role \in ever[addressed.school]
    BY <1>4 DEF IInv, Tables, Promised, Mailed
  <2> QED BY <1>1, <1>2, <1>4, <2>1, InvitedByInv
<1> QED BY <1>3, <1>4 DEF ReadAddressed

\* A statement on user_tenant_map alone, by whoever runs it.
LEMMA MapTables ==
  ASSUME IInv, Watch, ParentsStay, EverGrows, MapType', UNCHANGED <<links, people, mail, idp>>,
         token' \in Token \cup {None}, cache' \in {cache, None},
         \A s \in Schools : utm'[s] # None =>
           (utm[s] # None /\ utm'[s].role = utm[s].role) \/ Allowed(s, utm'[s].role)
  PROVE  Tables' /\ WellGiven'
<1>1. UNCHANGED <<links, local, real, parents, invites, addressed, idp>>
  BY DEF people, mail
<1>2. cache' \in (SUBSET Schools) \cup {None} /\ links \subseteq Schools
  BY DEF IInv, Tables, MembershipsType
<1>3. MembershipsType'
  BY <1>1, <1>2 DEF MapType, MembershipsType
<1>4. Tables'
  BY <1>1, <1>3 DEF IInv, Tables
<1>5. WellGiven'
  BY <1>1, <1>4, WritesAllowed
<1> QED BY <1>4, <1>5

LEMMA MapHolds ==
  ASSUME IInv
  PROVE  MapType
  BY DEF IInv, Tables, MembershipsType, MapType

\* A request writes the role it earned at its school.
LEMMA UpsertTables ==
  ASSUME IInv, Watch, ParentsStay, Same, UNCHANGED people, NEW s \in Schools, NEW role \in Roles,
         UpsertUserTenantMap(s, role), Given(s, role)
  PROVE  Tables' /\ WellGiven'
<1>1. /\ WriteRow(s, role) /\ cache' = None /\ EverGrows
      /\ UNCHANGED <<links, people, mail, idp>> /\ token' = token
  BY DEF UpsertUserTenantMap, Same, EverGrows
<1>2. MapType' /\ MapWrites(s, role)
  BY <1>1, MapHolds, WriteRowType
<1>3. GivenNext(s, role)
  BY GivenKept
<1>4. token' \in Token \cup {None} /\ cache' \in {cache, None}
  BY <1>1 DEF IInv, Tables
<1>5. \A x \in Schools : utm'[x] # None =>
        (utm[x] # None /\ utm'[x].role = utm[x].role) \/ Allowed(x, utm'[x].role)
  BY <1>2, <1>3 DEF MapWrites, Allowed
<1> QED BY <1>1, <1>2, <1>4, <1>5, MapTables

LEMMA HealInv ==
  ASSUME IInv, Watch, ParentsStay, NEW r \in Requests, Heal(r)
  PROVE  IInv'
<1>1. PICK q \in Request : q = req[r] /\ q.pc = "heal" /\ q # Idle /\ Knows(q) /\ Earned(q)
  BY RequestHere, RequestIsBusy DEF Heal, At, Steps, Early
<1>2. Same /\ UNCHANGED people
  BY DEF Heal
<1>3. q.tenant \in Schools /\ q.role \in Roles /\ Given(q.tenant, q.role)
  BY <1>1 DEF Knows, Reading, Earned, Request, Early
<1>4. PICK z : Become(r, z) /\ Onwards(z, q) /\ z.pc = "select"
  BY <1>1, MovesOn DEF Heal, Steps, Early
<1>5. Tables' /\ WellGiven'
  <2>1. CASE UpsertUserTenantMap(req[r].tenant, req[r].role)
    BY <1>1, <1>2, <1>3, <2>1, UpsertTables
  <2>2. CASE UNCHANGED control
    BY <1>2, <2>2, TablesSame DEF Same, EverGrows
  <2> QED BY <2>1, <2>2 DEF Heal
<1> QED BY <1>1, <1>2, <1>4, <1>5, EarlyInv

LEMMA ScanHealInv ==
  ASSUME IInv, Watch, ParentsStay, NEW r \in Requests, ScanHeal(r)
  PROVE  IInv'
<1>1. PICK q \in Request : q = req[r] /\ q.pc = "scanned" /\ q # Idle /\ Knows(q) /\ Earned(q)
  BY RequestHere, RequestIsBusy DEF ScanHeal, At, Steps, Early
<1>2. Same /\ UNCHANGED people
  BY DEF ScanHeal
<1>3. q.tenant \in Schools /\ q.role \in Roles /\ Given(q.tenant, q.role)
  BY <1>1 DEF Knows, Reading, Earned, Request, Early
<1>4. PICK z : Become(r, z) /\ Onwards(z, q) /\ z.pc = "local"
  BY <1>1, MovesOn DEF ScanHeal, Steps
<1>5. Tables' /\ WellGiven'
  <2>1. CASE UpsertUserTenantMap(req[r].tenant, req[r].role)
    BY <1>1, <1>2, <1>3, <2>1, UpsertTables
  <2>2. CASE UNCHANGED control
    BY <1>2, <2>2, TablesSame DEF Same, EverGrows
  <2> QED BY <2>1, <2>2 DEF ScanHeal
<1> QED BY <1>1, <1>2, <1>4, <1>5, EarlyInv

\* The choice of the school: p has the header's school, or what was resolved.
LEMMA PlacedInv ==
  ASSUME IInv, Watch, ParentsStay, NEW r \in Requests, Same, UNCHANGED <<control, people>>,
         req[r].pc = "select", NEW p, Carries(p, req[r]), p.mem = req[r].mem,
         p.role = req[r].role, p.roles = req[r].roles,
         \/ p.tenant = req[r].tenant /\ p.sel = FALSE /\ p.header \in {None, p.tenant}
         \/ p.tenant \in p.mem /\ p.tenant = p.header /\ p.sel = TRUE,
         Placed(r, p)
  PROVE  IInv'
<1>1. PICK q \in Request : /\ q = req[r] /\ q # Idle /\ q.pc = "select"
                           /\ Knows(q) /\ Chosen(q) /\ Earned(q)
  BY RequestHere, RequestIsBusy DEF Steps, Early
<1>2. /\ p \in Request /\ p.mem \subseteq Schools /\ p.email \in BOOLEAN /\ p.kc \in BOOLEAN
      /\ p.tenant \in Schools \cup {None}
  BY DEF Carries, Request
<1>3. p.sel => p.tenant # None /\ p.email
  BY <1>1, <1>2, ConstantsAssumption DEF Knows, Reading, Carries
<1>4. ~p.sel /\ p.tenant # None => Given(p.tenant, p.role)
  BY <1>1 DEF Earned, Knows, Reading, Early
<1>5. ~p.sel /\ Ambiguous(q) => p.tenant = None
  BY <1>1 DEF Chosen
<1>6. ASSUME NEW l \in {"local", "granted", "scan"}, Become(r, [p EXCEPT !.pc = l]),
             l \in {"local", "granted"} => p.tenant # None,
             p.email => l # "granted", ~p.email => l = "granted",
             l = "scan" => p.tenant = None /\ ~Ambiguous(p)
      PROVE  IInv'
  <2>1. PICK z : z = [p EXCEPT !.pc = l]
    OBVIOUS
  <2>2. Onwards(z, p) /\ z.pc = l /\ z \in Request /\ z # Idle
    <3>1. l \in Steps
      BY <1>6 DEF Steps, Early
    <3>2. Onwards(z, p) /\ z.pc = l
      BY <1>2, <2>1, <3>1, ChangePc
    <3> QED BY <3>2, RequestIsBusy DEF Onwards, Carries
  <2>3. Ambiguous(z) = Ambiguous(q) /\ Ambiguous(p) = Ambiguous(q)
    BY <1>1, <2>2 DEF Onwards, Carries, Ambiguous
  <2>4. Knows(z)
    <3>1. /\ z.kc => z.claim = None /\ z.email
          /\ ~z.kc => z.orgs = {} /\ z.claim # None
          /\ z.role \in z.roles
          /\ z.tenant = None => z.role = "pending"
          /\ ~z.email => z.mem = {}
      BY <1>1, <1>3, <2>2, ConstantsAssumption DEF Knows, Reading, Onwards, Carries
    <3>2. l = "scan" => ~z.sel
      BY <1>3, <1>6, <2>2 DEF Onwards
    <3> QED BY <1>6, <2>2, <3>1, <3>2 DEF Knows, Reading, Onwards, Carries, Early, Provisioning, Writing
  <2>5. Chosen(z)
    BY <1>1, <1>5, <1>6, <2>2, <2>3 DEF Chosen, Onwards, Carries, Provisioning, Writing
  <2>6. z.pc # "granted" /\ z.tenant # None /\ ~(z.sel /\ z.pc = "local") =>
          GivenNext(z.tenant, z.role)
    BY <1>4, <1>6, <2>2, GivenKept DEF Onwards
  <2>7. Fits(r, z)
    BY <1>6, <2>2, <2>4, <2>5, <2>6 DEF Fits, Provisioning, Writing
  <2> QED BY <1>6, <2>1, <2>7, RequestReads
<1>7. CASE p.tenant # None /\ Become(r, [p EXCEPT !.pc = IF p.email THEN "local" ELSE "granted"])
  BY <1>2, <1>6, <1>7
<1>8. CASE p.tenant = None /\ p.mem = {} /\ ~Ambiguous(p) /\ Become(r, [p EXCEPT !.pc = "scan"])
  <2>1. p.email
    BY <1>1, <1>2, <1>8 DEF Knows, Reading, Carries
  <2> QED BY <1>6, <1>8, <2>1
<1>9. CASE Refuse(r)
  BY <1>9, IdleFits, RequestReads DEF Refuse
<1> QED BY <1>7, <1>8, <1>9 DEF Placed

LEMMA SelectInv ==
  ASSUME IInv, Watch, ParentsStay, NEW r \in Requests, Select(r)
  PROVE  IInv'
<1>1. PICK q \in Request : q = req[r] /\ q # Idle /\ q.pc = "select" /\ Knows(q)
  BY RequestHere, RequestIsBusy DEF Select, At, Steps, Early
<1>2. Same /\ UNCHANGED <<control, people>>
  BY DEF Select
<1>3. q.sel = FALSE
  BY <1>1 DEF Knows, Reading, Early, Request
<1>4. CASE q.header = None /\ Placed(r, q)
  BY <1>1, <1>2, <1>3, <1>4, PlacedInv DEF Carries
<1>5. CASE q.header \in q.mem /\
           Placed(r, [q EXCEPT !.tenant = q.header, !.sel = (q.header # q.tenant)])
  <2>1. PICK p : p = [q EXCEPT !.tenant = q.header, !.sel = (q.header # q.tenant)]
    OBVIOUS
  <2>2. /\ Carries(p, q) /\ p.mem = q.mem /\ p.role = q.role /\ p.roles = q.roles
        /\ p.tenant = q.header /\ p.header = q.header /\ p.sel = (q.header # q.tenant)
    BY <1>5, <2>1 DEF Request, Carries
  <2>3. \/ p.tenant = q.tenant /\ p.sel = FALSE /\ p.header \in {None, p.tenant}
        \/ p.tenant \in p.mem /\ p.tenant = p.header /\ p.sel = TRUE
    BY <1>5, <2>2
  <2> QED BY <1>1, <1>2, <1>5, <2>1, <2>2, <2>3, PlacedInv
<1>6. CASE Refuse(r)
  BY <1>2, <1>6, IdleFits, RequestReads DEF Refuse
<1> QED BY <1>1, <1>4, <1>5, <1>6 DEF Select

LEMMA ScanInv ==
  ASSUME IInv, Watch, ParentsStay, NEW r \in Requests, Scan(r)
  PROVE  IInv'
<1>1. PICK q \in Request : q = req[r] /\ q # Idle /\ q.pc = "scan" /\ Knows(q) /\ Chosen(q)
  BY RequestHere, RequestIsBusy DEF Scan, At, Steps, Early
<1>2. Same /\ UNCHANGED <<control, people>>
  BY DEF Scan
<1>3. q.email /\ ~q.sel /\ q.role = "pending" /\ ~Ambiguous(q) /\ q.email \in BOOLEAN
  BY <1>1 DEF Knows, Reading, Chosen, Early, Request
<1>4. ASSUME NEW s \in Schools, local[s] # None,
             Become(r, [q EXCEPT !.pc = "scanned", !.tenant = s,
                        !.role = IF local[s] = "pending" THEN @ ELSE local[s],
                        !.roles = IF local[s] = "pending" THEN @ ELSE @ \cup {local[s]}])
      PROVE  IInv'
  <2>1. PICK role \in Roles : role = local[s] /\ Given(s, role)
    BY <1>4 DEF IInv, Tables, WellGiven
  <2>2. PICK z : /\ Become(r, z)
                 /\ z = [q EXCEPT !.pc = "scanned", !.tenant = s, !.role = role,
                                  !.roles = IF role = "pending" THEN q.roles ELSE q.roles \cup {role}]
    BY <1>3, <1>4, <2>1
  <2>3. /\ Carries(z, q) /\ z.mem = q.mem /\ z.sel = q.sel /\ z.tenant = s /\ z.role = role
        /\ z.pc = "scanned" /\ (role \in z.roles \/ (role = "pending" /\ z.roles = q.roles))
    BY <2>2 DEF Request, Carries, Steps, Early
  <2>4. z \in Request /\ z # Idle /\ ~Ambiguous(z) /\ s # None
    BY <1>3, <2>3, RequestIsBusy, ConstantsAssumption DEF Carries, Ambiguous
  <2>5. Knows(z)
    BY <1>1, <1>3, <2>3, <2>4 DEF Knows, Reading, Carries, Provisioning, Writing
  <2>6. GivenNext(z.tenant, z.role)
    BY <1>2, <2>1, <2>3, GivenKept
  <2>7. Fits(r, z)
    BY <2>3, <2>4, <2>5, <2>6 DEF Fits, Chosen, Provisioning, Writing
  <2> QED BY <1>2, <2>2, <2>7, RequestReads
<1>5. CASE Refuse(r)
  BY <1>2, <1>5, IdleFits, RequestReads DEF Refuse
<1> QED BY <1>1, <1>4, <1>5 DEF Scan

\* What the users row makes of the roles.
LEMMA WithRowRoles ==
  ASSUME NEW q \in Request, NEW row \in Roles, q.role \in q.roles
  PROVE  LET y == WithRow(q, row) IN
         /\ Carries(y, q) /\ y.mem = q.mem /\ y.tenant = q.tenant /\ y.sel = q.sel
         /\ y.unread = q.unread /\ y.role \in y.roles
         /\ y.role \in {row, q.role} /\ (q.sel => y.role = row /\ y.roles = {row})
<1> DEFINE a == [q EXCEPT !.role = row, !.roles = {row}]
           b == [q EXCEPT !.roles = (IF q.sel THEN {} ELSE q.roles) \cup {row},
                          !.role = IF q.sel \/ q.role = "pending" THEN row ELSE q.role]
<1>1. WithRow(q, row) = IF row = "pending" THEN a ELSE b
  BY DEF WithRow
<1>2. /\ Carries(a, q) /\ a.mem = q.mem /\ a.tenant = q.tenant /\ a.sel = q.sel
      /\ a.unread = q.unread /\ a.role = row /\ a.roles = {row}
  BY DEF Request, Carries
<1>3. /\ Carries(b, q) /\ b.mem = q.mem /\ b.tenant = q.tenant /\ b.sel = q.sel
      /\ b.unread = q.unread
      /\ b.roles = (IF q.sel THEN {} ELSE q.roles) \cup {row}
      /\ b.role = IF q.sel \/ q.role = "pending" THEN row ELSE q.role
  BY DEF Request, Carries
<1> HIDE DEF a, b
<1> QED BY <1>1, <1>2, <1>3

\* The request leaves its users row for the writes, y with the roles it has then.
LEMMA ForwardInv ==
  ASSUME IInv, Watch, ParentsStay, NEW r \in Requests, Same, UNCHANGED <<control, people>>,
         req[r].pc = "local", NEW y, Carries(y, req[r]), y.mem = req[r].mem,
         y.tenant = req[r].tenant, y.sel = req[r].sel, y.role \in y.roles,
         (y.sel /\ y.unread) \/ Given(y.tenant, y.role),
         y.sel /\ ~y.unread => y.roles \subseteq since'[r][y.tenant],
         Forward(r, y)
  PROVE  IInv'
<1>1. PICK q \in Request : /\ q = req[r] /\ q # Idle /\ q.pc = "local"
                           /\ Knows(q) /\ Chosen(q) /\ Earned(q)
  BY RequestHere, RequestIsBusy DEF Steps
<1>2. y \in Request /\ Onward(y) \in {"provision", "probe"}
      /\ (Onward(y) = "provision" => y.role = "parent")
  BY DEF Carries, Onward
<1>3. PICK z : z = [y EXCEPT !.pc = Onward(y)] /\ Become(r, z)
  BY DEF Forward
<1>4. Onwards(z, y) /\ z.pc = Onward(y) /\ z.unread = y.unread
  BY <1>2, <1>3, ChangePc DEF Steps, Provisioning, Writing
<1>5. z \in Request /\ z # Idle /\ Ambiguous(z) = Ambiguous(q)
  BY <1>1, <1>4, RequestIsBusy DEF Onwards, Carries, Ambiguous
<1>6. q.email /\ q.tenant # None /\ q.email \in BOOLEAN
  BY <1>1 DEF Knows, Reading, Request
<1>7. Knows(z)
  BY <1>1, <1>2, <1>4, <1>5, <1>6 DEF Knows, Reading, Onwards, Carries, Early, Provisioning, Writing
<1>8. Chosen(z)
  BY <1>1, <1>2, <1>4, <1>5 DEF Chosen, Onwards, Carries, Provisioning, Writing
<1>9. GivenNext(z.tenant, z.role)
  <2>1. CASE Given(y.tenant, y.role)
    BY <1>4, <2>1, GivenKept DEF Onwards
  <2>2. CASE y.sel /\ y.unread
    <3>1. req'[r] = z /\ z.sel /\ z.unread /\ Working(r)'
      BY <1>2, <1>3, <1>4, <2>2 DEF Become, IInv, Flying, Working, Onwards
    <3>2. z.tenant \in hurt'
      BY <3>1 DEF Watch
    <3> QED BY <3>2 DEF GivenNext
  <2> QED BY <2>1, <2>2
<1>10. Fits(r, z)
  BY <1>2, <1>4, <1>5, <1>7, <1>8, <1>9 DEF Fits, Onwards
<1> QED BY <1>3, <1>10, RequestReads

LEMMA ReadLocalInv ==
  ASSUME IInv, Watch, ParentsStay, NEW r \in Requests, ReadLocal(r)
  PROVE  IInv'
<1>1. PICK q \in Request : /\ q = req[r] /\ q # Idle /\ q.pc = "local"
                           /\ Knows(q) /\ Chosen(q) /\ Earned(q)
  BY RequestHere, RequestIsBusy DEF ReadLocal, At, Steps
<1>2. Same /\ UNCHANGED <<control, people>> /\ local' = local
  BY DEF ReadLocal, people
<1>3. /\ q.tenant \in Schools /\ q.role \in q.roles /\ q.email
      /\ q.sel \in BOOLEAN /\ q.unread \in BOOLEAN /\ q.email \in BOOLEAN
      /\ q.sel /\ q.unread => q.tenant \in hurt
      /\ ~q.sel => Given(q.tenant, q.role)
  BY <1>1 DEF Knows, Reading, Earned, Request
<1>4. local[q.tenant] \in Roles \cup {None}
  BY <1>3 DEF IInv, Tables
<1>5. CASE local[q.tenant] # None /\ Forward(r, WithRow(q, local[q.tenant]))
  <2>1. PICK row \in Roles : row = local[q.tenant] /\ Given(q.tenant, row)
    BY <1>3, <1>4, <1>5 DEF IInv, WellGiven
  <2>2. PICK y : y = WithRow(q, row)
    OBVIOUS
  <2>3. /\ Carries(y, q) /\ y.mem = q.mem /\ y.tenant = q.tenant /\ y.sel = q.sel
        /\ y.unread = q.unread /\ y.role \in y.roles
        /\ y.role \in {row, q.role} /\ (q.sel => y.role = row /\ y.roles = {row})
    BY <1>3, <2>2, WithRowRoles
  <2>4. Given(y.tenant, y.role)
    BY <1>3, <2>1, <2>3
  <2>5. row \in since'[r][q.tenant]
    <3>1. row # None
      BY ConstantsAssumption
    <3> QED BY <1>2, <1>3, <2>1, <3>1 DEF Watch
  <2>6. Forward(r, y) /\ (y.sel => y.roles \subseteq since'[r][y.tenant])
    BY <1>5, <2>1, <2>2, <2>3, <2>5
  <2> QED BY <1>1, <1>2, <2>3, <2>4, <2>6, ForwardInv
<1>6. CASE Refuse(r)
  BY <1>2, <1>6, IdleFits, RequestReads DEF Refuse
<1>7. CASE ~q.sel /\ To(r, "jit")
  <2>1. PICK z : Become(r, z) /\ Onwards(z, q) /\ z.pc = "jit"
    BY <1>1, <1>7, MovesOn DEF Steps, Provisioning, Writing
  <2>2. z \in Request /\ z # Idle /\ Ambiguous(z) = Ambiguous(q)
    BY <2>1, RequestIsBusy DEF Onwards, Carries, Ambiguous
  <2>3. Knows(z)
    BY <1>1, <1>3, <1>7, <2>1, <2>2 DEF Knows, Reading, Provisioning, Onwards, Carries
  <2>4. Chosen(z)
    BY <1>1, <2>1, <2>2 DEF Chosen, Onwards, Carries
  <2>5. GivenNext(z.tenant, z.role) /\ ~z.sel
    BY <1>2, <1>3, <1>7, <2>1, GivenKept DEF Onwards
  <2>6. Fits(r, z)
    BY <2>1, <2>2, <2>3, <2>4, <2>5 DEF Fits
  <2> QED BY <1>2, <2>1, <2>6, RequestReads
<1>8. CASE Forward(r, [q EXCEPT !.unread = TRUE])
  <2>1. PICK y : y = [q EXCEPT !.unread = TRUE]
    OBVIOUS
  <2>2. /\ Carries(y, q) /\ y.mem = q.mem /\ y.tenant = q.tenant /\ y.sel = q.sel
        /\ y.unread = TRUE /\ y.role = q.role /\ y.roles = q.roles
    BY <2>1 DEF Request, Carries
  <2>3. (y.sel /\ y.unread) \/ Given(y.tenant, y.role)
    BY <1>3, <2>2
  <2> QED BY <1>1, <1>2, <1>3, <1>8, <2>1, <2>2, <2>3, ForwardInv
<1> QED BY <1>1, <1>5, <1>6, <1>7, <1>8 DEF ReadLocal

\* A request among the writes goes on with what it has, or is granted.
LEMMA LateInv ==
  ASSUME IInv, Watch, ParentsStay, NEW r \in Requests, NEW z, Become(r, z), Same, Tables', WellGiven',
         req[r].pc \in Writing, Onwards(z, req[r]), req[r].unread => z.unread,
         z.pc \in (Writing \ {"jit"}) \cup {"granted"}, z.pc = "jitmap" => req[r].pc = "jit",
         z.pc \in Provisioning => z.role = "parent",
         z.pc = "link" => parents' # None
  PROVE  IInv'
<1>1. PICK q \in Request : /\ q = req[r] /\ q # Idle /\ q.pc \in Writing
                           /\ Knows(q) /\ Chosen(q) /\ Earned(q) /\ Local(r)
  BY RequestHere, RequestIsBusy DEF Steps
<1>2. q.tenant \in Schools /\ q.email /\ q.email \in BOOLEAN /\ Given(q.tenant, q.role) /\ Working(r)
  <2>1. q.tenant # None /\ q.email /\ q.pc \notin {"idle", "granted", "local"}
    BY <1>1 DEF Knows, Reading, Provisioning, Writing, Request
  <2> QED BY <1>1, <2>1 DEF Earned, Working, Request
<1>3. z \in Request /\ z # Idle /\ Ambiguous(z) = Ambiguous(q)
  BY <1>1, RequestIsBusy DEF Onwards, Carries, Ambiguous
<1>4. Knows(z)
  BY <1>1, <1>2, <1>3 DEF Knows, Reading, Onwards, Carries, Early, Provisioning, Writing
<1>5. Chosen(z)
  BY <1>1, <1>3 DEF Chosen, Onwards, Carries, Provisioning, Writing
<1>6. GivenNext(z.tenant, z.role)
  BY <1>1, <1>2, GivenKept DEF Onwards
<1>7. since[r][q.tenant] \subseteq since'[r][q.tenant]
  BY <1>2, SinceKept
<1>8. z.sel /\ ~z.unread => z.roles \subseteq since'[r][z.tenant]
  BY <1>1, <1>7 DEF Local, Onwards
<1>9. Fits(r, z)
  BY <1>3, <1>4, <1>5, <1>6, <1>8 DEF Fits
<1> QED BY <1>9, RequestMoves

\* A users row is added where there was none.
LEMMA AddRowWrites ==
  ASSUME local \in [Schools -> Roles \cup {None}], NEW s \in Schools, NEW role \in Roles,
         AddRow(s, role)
  PROVE  /\ local' \in [Schools -> Roles \cup {None}] /\ local'[s] # None
         /\ \A x \in Schools : local'[x] = local[x] \/ (local[x] = None /\ x = s /\ local'[x] = role)
  BY ConstantsAssumption DEF AddRow

LEMMA AddRowTables ==
  ASSUME IInv, Watch, ParentsStay, Same, UNCHANGED <<control, real, parents>>, NEW s \in Schools,
         NEW role \in Roles, AddRow(s, role), Given(s, role)
  PROVE  Tables' /\ WellGiven'
<1>1. /\ local' \in [Schools -> Roles \cup {None}]
      /\ \A x \in Schools : local'[x] = local[x] \/ (local[x] = None /\ x = s /\ local'[x] = role)
  BY AddRowWrites DEF IInv, Tables
<1>2. UNCHANGED <<utm, recent, links, cache, real, parents, invites, addressed, idp, token>> /\ EverGrows
  BY DEF control, Same, EverGrows, mail
<1>3. Tables'
  BY <1>1, <1>2 DEF IInv, Tables, MembershipsType, Rows
<1>4. GivenNext(s, role)
  BY GivenKept
<1>5. WellGiven'
  BY <1>1, <1>2, <1>3, <1>4, WritesAllowed DEF Allowed
<1> QED BY <1>3, <1>5

\* What a request among the writes may write.
LEMMA WritingHere ==
  ASSUME IInv, NEW r \in Requests, req[r].pc \in Writing
  PROVE  /\ req[r] \in Request /\ req[r].tenant \in Schools /\ req[r].role \in Roles
         /\ Given(req[r].tenant, req[r].role)
         /\ req[r].pc \in Provisioning => req[r].role = "parent"
<1>1. PICK q \in Request : q = req[r] /\ q # Idle /\ q.pc \in Writing /\ Knows(q) /\ Earned(q)
  BY RequestHere, RequestIsBusy DEF Steps
<1>2. q.tenant # None /\ q.pc \notin {"granted", "local"}
  BY <1>1 DEF Knows, Reading, Provisioning, Writing
<1> QED BY <1>1, <1>2 DEF Earned, Request, Knows, Reading

LEMMA JitInv ==
  ASSUME IInv, Watch, ParentsStay, NEW r \in Requests, Jit(r)
  PROVE  IInv'
<1>1. req[r].pc = "jit" /\ req[r].pc \in Writing /\ "jitmap" \in Steps
  BY DEF Jit, At, Provisioning, Writing, Steps
<1>2. PICK z : Become(r, z) /\ Onwards(z, req[r]) /\ z.pc = "jitmap" /\ (req[r].unread => z.unread)
  BY <1>1, WritingHere, MovesOn DEF Jit
<1>3. Same /\ Tables' /\ WellGiven'
  BY <1>1, WritingHere, AddRowTables DEF Jit
<1> QED BY <1>1, <1>2, <1>3, LateInv DEF Provisioning, Writing

LEMMA JitMapInv ==
  ASSUME IInv, Watch, ParentsStay, NEW r \in Requests, JitMap(r)
  PROVE  IInv'
<1>1. PICK q \in Request : /\ q = req[r] /\ q.pc = "jitmap" /\ q.pc \in Writing
                           /\ q.tenant \in Schools /\ q.role \in Roles /\ Given(q.tenant, q.role)
  BY WritingHere DEF JitMap, At, Provisioning, Writing
<1>2. Same /\ UNCHANGED people
  BY DEF JitMap
<1>3. Tables' /\ WellGiven'
  <2>1. CASE UpsertUserTenantMap(req[r].tenant, req[r].role)
    BY <1>1, <1>2, <2>1, UpsertTables
  <2>2. CASE UNCHANGED control
    BY <1>2, <2>2, TablesSame DEF Same, EverGrows
  <2> QED BY <2>1, <2>2 DEF JitMap
<1>4. PICK y : Forward(r, y) /\ Onwards(y, q) /\ (q.unread => y.unread)
  BY <1>1 DEF JitMap, Onwards, Carries
<1>5. y \in Request /\ Onward(y) \in {"provision", "probe"}
      /\ (Onward(y) = "provision" => y.role = "parent")
  BY <1>4 DEF Onwards, Carries, Onward
<1>6. PICK z : z = [y EXCEPT !.pc = Onward(y)] /\ Become(r, z)
  BY <1>4 DEF Forward
<1>7. Onwards(z, y) /\ z.pc = Onward(y) /\ z.unread = y.unread
  BY <1>5, <1>6, ChangePc DEF Steps, Provisioning, Writing
<1>8. Onwards(z, q) /\ (q.unread => z.unread) /\ (z.pc = "provision" => z.role = "parent")
  BY <1>4, <1>5, <1>7 DEF Onwards, Carries
<1>9. z.pc \in {"provision", "probe"}
  BY <1>5, <1>7
<1> QED BY <1>1, <1>2, <1>3, <1>6, <1>8, <1>9, LateInv DEF Provisioning, Writing

LEMMA ProvisionParentInv ==
  ASSUME IInv, Watch, ParentsStay, NEW r \in Requests, ProvisionParent(r)
  PROVE  IInv'
<1>1. PICK q \in Request : /\ q = req[r] /\ q.pc = "provision" /\ q.pc \in Writing
                           /\ q.role = "parent"
  BY WritingHere DEF ProvisionParent, At, Provisioning, Writing
<1>2. /\ Same /\ EverGrows
      /\ UNCHANGED <<utm, recent, links, cache, local, real, invites, addressed, idp, token>>
  BY DEF ProvisionParent, Same, EverGrows, control, mail
<1>3. parents' \in {None, "real", "managed"} /\ (links # {} => parents' # None)
  BY ParentsAssumption DEF ProvisionParent, IInv, Tables
<1>4. Tables'
  BY <1>2, <1>3 DEF IInv, Tables, MembershipsType, Rows
<1>5. WellGiven'
  BY <1>2, <1>4, WritesAllowed
<1>6. PICK z : /\ Become(r, z) /\ Onwards(z, q) /\ z.pc \in {"link", "probe"}
               /\ (q.unread => z.unread) /\ (z.pc = "link" => parents' # None)
  <2>1. "link" \in Steps /\ "probe" \in Steps
    BY DEF Steps, Provisioning, Writing
  <2>2. CASE parents' = (IF parents = None THEN "managed" ELSE parents) /\ To(r, "link")
    BY <1>1, <2>1, <2>2, MovesOn, ParentsAssumption
  <2>3. CASE Caught(r, "probe")
    BY <1>1, <2>1, <2>3, MovesOn
  <2> QED BY <2>2, <2>3 DEF ProvisionParent
<1>7. z.role = "parent"
  BY <1>1, <1>6 DEF Onwards
<1> QED BY <1>1, <1>2, <1>4, <1>5, <1>6, <1>7, LateInv DEF Provisioning, Writing

LEMMA ProvisionLinkInv ==
  ASSUME IInv, Watch, ParentsStay, NEW r \in Requests, ProvisionLink(r)
  PROVE  IInv'
<1>1. PICK q \in Request : /\ q = req[r] /\ q.pc = "link" /\ q.pc \in Writing /\ q.role = "parent"
                           /\ q.tenant \in Schools /\ Given(q.tenant, "parent")
  BY WritingHere DEF ProvisionLink, At, Provisioning, Writing
<1>2. /\ Same /\ EverGrows
      /\ UNCHANGED <<utm, recent, cache, local, real, parents, invites, addressed, idp, token>>
  BY DEF ProvisionLink, Same, EverGrows, people, mail
<1>3. links' \subseteq links \cup {q.tenant} /\ parents # None
  BY <1>1, RequestHere, RequestIsBusy DEF ProvisionLink, Earned, Steps
<1>4. Tables'
  BY <1>1, <1>2, <1>3 DEF IInv, Tables, MembershipsType, Rows
<1>5. GivenNext(q.tenant, "parent")
  BY <1>1, <1>2, GivenKept
<1>6. WellGiven'
  BY <1>2, <1>3, <1>4, <1>5, WritesAllowed
<1>7. PICK z : /\ Become(r, z) /\ Onwards(z, q) /\ z.pc \in {"parent", "probe"}
               /\ (q.unread => z.unread)
  BY <1>1, MovesOn DEF ProvisionLink, Steps, Provisioning, Writing
<1>8. z.role = "parent"
  BY <1>1, <1>7 DEF Onwards
<1> QED BY <1>1, <1>2, <1>4, <1>6, <1>7, <1>8, LateInv DEF Provisioning, Writing

LEMMA ProvisionLocalInv ==
  ASSUME IInv, Watch, ParentsStay, NEW r \in Requests, ProvisionLocal(r)
  PROVE  IInv'
<1>1. PICK q \in Request : /\ q = req[r] /\ q.pc = "parent" /\ q.pc \in Writing
                           /\ q.role = "parent" /\ q.role \in Roles
                           /\ q.tenant \in Schools /\ Given(q.tenant, "parent")
  BY WritingHere DEF ProvisionLocal, At, Provisioning, Writing
<1>2. Same /\ EverGrows /\ UNCHANGED <<control, real, parents>>
  BY DEF ProvisionLocal, Same, EverGrows
<1>3. Tables' /\ WellGiven'
  <2>1. CASE AddRow(req[r].tenant, "parent")
    BY <1>1, <1>2, <2>1, AddRowTables
  <2>2. CASE UNCHANGED local
    BY <1>2, <2>2, TablesSame DEF people, Same
  <2> QED BY <2>1, <2>2 DEF ProvisionLocal
<1>4. PICK z : /\ Become(r, z) /\ Onwards(z, q) /\ z.pc \in {"parentmap", "probe"}
               /\ (q.unread => z.unread)
  BY <1>1, MovesOn DEF ProvisionLocal, Steps, Provisioning, Writing
<1>5. z.role = "parent"
  BY <1>1, <1>4 DEF Onwards
<1> QED BY <1>1, <1>2, <1>3, <1>4, <1>5, LateInv DEF Provisioning, Writing

LEMMA ProvisionMapInv ==
  ASSUME IInv, Watch, ParentsStay, NEW r \in Requests, ProvisionMap(r)
  PROVE  IInv'
<1>1. PICK q \in Request : /\ q = req[r] /\ q.pc = "parentmap" /\ q.pc \in Writing
                           /\ q.role = "parent" /\ q.role \in Roles
                           /\ q.tenant \in Schools /\ Given(q.tenant, "parent")
  BY WritingHere DEF ProvisionMap, At, Provisioning, Writing
<1>2. Same /\ EverGrows /\ UNCHANGED people
  BY DEF ProvisionMap, Same, EverGrows
<1>3. Tables' /\ WellGiven'
  <2>1. CASE UpsertUserTenantMap(req[r].tenant, "parent")
    BY <1>1, <1>2, <2>1, UpsertTables
  <2>2. CASE UNCHANGED control
    BY <1>2, <2>2, TablesSame DEF Same
  <2> QED BY <2>1, <2>2 DEF ProvisionMap
<1>4. PICK z : Become(r, z) /\ Onwards(z, q) /\ z.pc = "probe" /\ (q.unread => z.unread)
  BY <1>1, MovesOn DEF ProvisionMap, Steps, Provisioning, Writing
<1> QED BY <1>1, <1>2, <1>3, <1>4, LateInv DEF Provisioning, Writing

LEMMA ProbeInv ==
  ASSUME IInv, Watch, ParentsStay, NEW r \in Requests, Probe(r)
  PROVE  IInv'
<1>1. req[r].pc \in Writing /\ "granted" \in Steps
  BY DEF Probe, At, Provisioning, Writing, Steps
<1>2. Same /\ UNCHANGED <<control, people>> /\ Tables' /\ WellGiven'
  BY TablesSame DEF Probe, Same, EverGrows
<1>3. CASE Refuse(r)
  BY <1>2, <1>3, IdleFits, RequestReads DEF Refuse
<1>4. CASE To(r, "granted") \/ Caught(r, "granted")
  <2>1. PICK z : /\ Become(r, z) /\ Onwards(z, req[r]) /\ z.pc = "granted"
                 /\ (req[r].unread => z.unread)
    BY <1>1, <1>4, WritingHere, MovesOn
  <2> QED BY <1>1, <1>2, <2>1, LateInv DEF Provisioning, Writing
<1> QED BY <1>3, <1>4 DEF Probe

LEMMA RequestStepInv ==
  ASSUME IInv, Watch, ParentsStay, NEW r \in Requests, RequestStep(r)
  PROVE  IInv'
  BY ReadMembershipsInv, ReadParentIdInv, ReadParentLinksInv, FillCacheInv, ResolveTenantInv,
     ReadInvitationInv, ReadAddressedInv, HealInv, SelectInv, ScanInv, ScanHealInv, ReadLocalInv,
     JitInv, JitMapInv, ProvisionParentInv, ProvisionLinkInv, ProvisionLocalInv,
     ProvisionMapInv, ProbeInv
     DEF RequestStep

-------------------------------------------------------------------------------
(* The person.                                                              *)

LEMMA HurtStays == ASSUME Watch PROVE hurt \subseteq hurt'
  BY DEF Watch

LEMMA GivesGrows ==
  ASSUME Flying, NEW s \in Schools, NEW role \in Roles, Gives(s, role)
  PROVE  EverGrows /\ ever' \in [Schools -> SUBSET Roles] /\ role \in ever'[s]
  BY DEF Flying, Gives, EverGrows

LEMMA NothingGiven ==
  ASSUME Flying, ever' = ever
  PROVE  EverGrows /\ ever' \in [Schools -> SUBSET Roles]
  BY DEF Flying, EverGrows

LEMMA TokenStays ==
  ASSUME IInv, Watch, ParentsStay, EverGrows, token' = token
  PROVE  TokenKinds'
<1>1. token # None /\ ~token.kc => token.claim \in Schools
  BY DEF IInv, Tables, TokenKinds, Token
<1> QED BY <1>1, HurtStays, GivenStays DEF IInv, TokenKinds, Given, GivenNext

LEMMA SessionTokenKind ==
  ASSUME NEW s \in Schools, NEW role \in Roles, NEW email \in BOOLEAN,
         token' = SessionToken(s, role, email), GivenNext(s, role)
  PROVE  token' \in Token /\ TokenKinds'
<1>1. /\ token' \in Token /\ token'.kc = FALSE /\ token'.claim = s /\ token'.orgs = {}
      /\ token'.role = role
  BY DEF SessionToken, Token
<1>2. s # None
  BY ConstantsAssumption
<1> QED BY <1>1, <1>2 DEF TokenKinds, Given, GivenNext

LEMMA TaskSchool ==
  ASSUME Flying, adm.pc # "idle"
  PROVE  adm \in Task /\ adm.school \in Schools /\ adm.role \in Roles
  BY DEF Flying, Task, Idle

LEMMA Domains ==
  ASSUME IInv
  PROVE  /\ Flying /\ token \in Token \cup {None} /\ invites \in Seq(Invitation)
         /\ addressed \in Invitation \cup {None}
         /\ idp = None \/ idp \subseteq Schools
  BY DEF IInv, Tables

LEMMA MailStays ==
  ASSUME IInv, EverGrows, mail' = mail
  PROVE  Mailed'
<1>1. invites \in Seq(Invitation) /\ addressed \in Invitation \cup {None}
  BY Domains
<1>2. \A i \in 1 .. Len(invites) : invites[i] \in Invitation
  BY <1>1, SeqDomain
<1>3. addressed' = addressed /\ invites' = invites
  BY DEF mail
<1> QED BY <1>1, <1>2, <1>3 DEF Invitation, IInv, Promised, Mailed, EverGrows

LEMMA PromisesStay ==
  ASSUME IInv, EverGrows, mail' = mail, adm' \in {adm, Idle}
  PROVE  Promised' /\ adm' \in {Idle} \cup Task
<1>1. adm' \in {Idle} \cup Task
  BY DEF IInv, Flying
<1>3. Mailed'
  BY MailStays
<1>4. (adm.pc \in {"shell", "record", "invitemap", "rolemap"} => adm.role \in ever[adm.school])'
  <2>1. CASE adm' = Idle
    BY <2>1 DEF Idle
  <2>2. CASE adm' = adm /\ adm.pc # "idle"
    BY <2>2, TaskSchool DEF IInv, Promised, EverGrows
  <2>3. CASE adm' = adm /\ adm.pc = "idle"
    BY <2>3
  <2> QED BY <2>1, <2>2, <2>3
<1> QED BY <1>1, <1>3, <1>4 DEF Promised

LEMMA RegisterInv ==
  ASSUME IInv, Watch, ParentsStay, NEW s \in Schools, NEW role \in Roles, Register(s, role)
  PROVE  IInv'
<1>1. EverGrows /\ ever' \in [Schools -> SUBSET Roles] /\ role \in ever'[s]
  BY GivesGrows DEF Register, IInv
<1>2. UNCHANGED <<mail, req, adm>>
  BY DEF Register
<1>3. MapType' /\ MapWrites(s, role)
  BY MapHolds, WriteRowType DEF Register
<1>4. /\ local' \in [Schools -> Roles \cup {None}] /\ local'[s] # None
      /\ \A x \in Schools : local'[x] = local[x] \/ (local[x] = None /\ x = s /\ local'[x] = role)
  BY AddRowWrites DEF Register, IInv, Tables
<1>5. GivenNext(s, role)
  BY <1>1 DEF GivenNext
<1>6. token' \in Token /\ TokenKinds'
  BY <1>5, SessionTokenKind DEF Register
<1>7. real' \subseteq real \cup {s}
  BY DEF Register
<1>8. /\ links' \subseteq links \cup {s} /\ (s \in links' \ links => role = "parent")
      /\ parents' \in {None, "real", "managed"} /\ (links' # {} => parents' # None)
  BY ParentsAssumption DEF Register, IInv, Tables
<1>9. idp' = None \/ idp' \subseteq Schools
  BY DEF Register, SyncUserToKeycloak, AddUserToOrganization, IInv, Tables
<1>10. MembershipsType'
  BY <1>3, <1>8 DEF MapType, MembershipsType, Register, IInv, Tables
<1>11. Tables'
  <2>1. (real \subseteq Schools /\ \A x \in real : local[x] # None)'
    BY <1>4, <1>7 DEF IInv, Tables
  <2> QED BY <1>2, <1>4, <1>6, <1>8, <1>9, <1>10, <2>1 DEF IInv, Tables, mail
<1>12. WellGiven'
  <2>1. \A x \in Schools : local'[x] = local[x] \/ Allowed(x, local'[x])
    BY <1>4, <1>5 DEF Allowed
  <2>2. \A x \in Schools : utm'[x] # None =>
          (utm[x] # None /\ utm'[x].role = utm[x].role) \/ Allowed(x, utm'[x].role)
    BY <1>3, <1>5 DEF MapWrites, Allowed
  <2>3. \A x \in Schools : x \in links' => x \in links \/ GivenNext(x, "parent")
    BY <1>5, <1>8
  <2> QED BY <1>1, <1>11, <2>1, <2>2, <2>3, WritesAllowed
<1>13. Promised' /\ adm' \in {Idle} \cup Task
  BY <1>1, <1>2, PromisesStay
<1> QED BY <1>1, <1>2, <1>6, <1>11, <1>12, <1>13, BesideRequests

LEMMA LoginAsParentInv ==
  ASSUME IInv, Watch, ParentsStay, NEW s \in Schools, LoginAsParent(s)
  PROVE  IInv'
<1>1. EverGrows /\ ever' \in [Schools -> SUBSET Roles]
  BY NothingGiven DEF LoginAsParent, IInv
<1>2. UNCHANGED <<parents, mail, idp, req, adm, links>> /\ cache' = None
  BY DEF LoginAsParent, UpsertUserTenantMap
<1>3. "parent" \in Roles
  BY ConstantsAssumption
<1>4. MapType' /\ MapWrites(s, "parent")
  BY <1>3, MapHolds, WriteRowType DEF LoginAsParent, UpsertUserTenantMap
<1>5. /\ local' \in [Schools -> Roles \cup {None}] /\ local'[s] # None
      /\ \A x \in Schools : local'[x] = local[x] \/ (local[x] = None /\ x = s /\ local'[x] = "parent")
  BY <1>3, AddRowWrites DEF LoginAsParent, IInv, Tables
<1>6. GivenNext(s, "parent")
  BY <1>1, HurtStays, GivenStays DEF LoginAsParent, IInv, WellGiven
<1>7. token' \in Token /\ TokenKinds'
  BY <1>3, <1>6, SessionTokenKind DEF LoginAsParent
<1>8. (real \subseteq Schools /\ \A x \in real : local[x] # None)'
  BY <1>5 DEF LoginAsParent, IInv, Tables
<1>9. MembershipsType'
  BY <1>2, <1>4 DEF MapType, MembershipsType, IInv, Tables
<1>10. Tables'
  BY <1>2, <1>5, <1>7, <1>8, <1>9 DEF IInv, Tables, mail
<1>11. WellGiven'
  BY <1>1, <1>2, <1>4, <1>5, <1>6, <1>10, WritesAllowed DEF MapWrites, Allowed
<1>12. Promised' /\ adm' \in {Idle} \cup Task
  BY <1>1, <1>2, PromisesStay
<1> QED BY <1>1, <1>2, <1>7, <1>10, <1>11, <1>12, BesideRequests

LEMMA LoginAsUserInv ==
  ASSUME IInv, Watch, ParentsStay, NEW s \in Schools, LoginAsUser(s)
  PROVE  IInv'
<1>1. EverGrows /\ ever' \in [Schools -> SUBSET Roles]
  BY NothingGiven DEF LoginAsUser, IInv
<1>2. UNCHANGED <<people, mail, idp, req, adm, links>> /\ cache' = None
  BY DEF LoginAsUser, UpsertUserTenantMap
<1>3. PICK role \in Roles : role = local[s] /\ Given(s, role)
  BY DEF LoginAsUser, IInv, Tables, WellGiven
<1>4. MapType' /\ MapWrites(s, role)
  BY <1>3, MapHolds, WriteRowType DEF LoginAsUser, UpsertUserTenantMap
<1>5. GivenNext(s, role)
  BY <1>1, <1>3, HurtStays, GivenStays
<1>6. token' \in Token /\ TokenKinds'
  BY <1>3, <1>5, SessionTokenKind DEF LoginAsUser
<1>7. Tables' /\ WellGiven'
  BY <1>1, <1>2, <1>4, <1>5, <1>6, MapTables DEF MapWrites, Allowed
<1>8. Promised' /\ adm' \in {Idle} \cup Task
  BY <1>1, <1>2, PromisesStay
<1> QED BY <1>1, <1>2, <1>6, <1>7, <1>8, BesideRequests

\* A step that leaves the control plane and the accounts alone.
LEMMA TablesBeside ==
  ASSUME IInv, Watch, ParentsStay, EverGrows, UNCHANGED <<control, people>>, token' \in Token \cup {None},
         invites' \in Seq(Invitation), addressed' \in Invitation \cup {None},
         idp' = None \/ idp' \subseteq Schools
  PROVE  Tables' /\ WellGiven'
<1>1. UNCHANGED <<utm, recent, links, cache, local, real, parents>>
  BY DEF control, people
<1>2. Tables'
  BY <1>1 DEF IInv, Tables, MembershipsType, Rows, mail
<1>3. WellGiven'
  BY <1>1, <1>2, WritesAllowed
<1> QED BY <1>2, <1>3

LEMMA RefreshInv ==
  ASSUME IInv, Watch, ParentsStay, Refresh
  PROVE  IInv'
<1>1. EverGrows /\ ever' \in [Schools -> SUBSET Roles]
  BY NothingGiven, Domains DEF Refresh
<1>2. UNCHANGED <<control, people, mail, idp, req, adm>>
  BY DEF Refresh
<1>3. PICK s \in Schools : s = token.claim /\ local[s] # None
  BY DEF Refresh, IInv, Tables, TokenKinds, Token
<1>4. PICK role \in Roles : role = local[s] /\ Given(s, role)
  BY <1>3 DEF IInv, Tables, WellGiven
<1>5. GivenNext(s, role)
  BY <1>1, <1>4, HurtStays, GivenStays
<1>6. token' \in Token /\ TokenKinds'
  BY <1>3, <1>4, <1>5, SessionTokenKind DEF Refresh
<1>7. Tables' /\ WellGiven'
  BY <1>1, <1>2, <1>6, Domains, TablesBeside DEF mail
<1>8. Promised' /\ adm' \in {Idle} \cup Task
  BY <1>1, <1>2, PromisesStay
<1> QED BY <1>1, <1>2, <1>6, <1>7, <1>8, BesideRequests

LEMMA LoginSSOInv ==
  ASSUME IInv, Watch, ParentsStay, LoginSSO
  PROVE  IInv'
<1>1. EverGrows /\ ever' \in [Schools -> SUBSET Roles]
  BY NothingGiven, Domains DEF LoginSSO
<1>2. UNCHANGED <<control, people, mail, idp, req, adm>>
  BY DEF LoginSSO
<1>3. /\ token' \in Token /\ token'.kc = TRUE /\ token'.email = TRUE /\ token'.claim = None
      /\ token'.role = "pending"
  BY Domains, ConstantsAssumption DEF LoginSSO, Token
<1>4. TokenKinds'
  BY <1>3 DEF TokenKinds
<1>5. Tables' /\ WellGiven'
  BY <1>1, <1>2, <1>3, Domains, TablesBeside DEF mail
<1>6. Promised' /\ adm' \in {Idle} \cup Task
  BY <1>1, <1>2, PromisesStay
<1> QED BY <1>1, <1>2, <1>4, <1>5, <1>6, BesideRequests

LEMMA PersonInv ==
  ASSUME IInv, Watch, ParentsStay, Person
  PROVE  IInv'
  BY LoginSSOInv, RefreshInv, LoginAsParentInv, LoginAsUserInv, RegisterInv, ArriveInv DEF Person

-------------------------------------------------------------------------------
(* The administrator.                                                       *)

\* A task begins with a role given now, or with none to write.
LEMMA TaskBegins ==
  ASSUME IInv, EverGrows, mail' = mail, NEW l \in {"shell", "rolemap", "unmap"},
         NEW s \in Schools, NEW role \in Roles, Admin(l, s, role),
         l = "unmap" \/ role \in ever'[s]
  PROVE  Promised' /\ adm' \in {Idle} \cup Task
<1>1. adm' \in Task /\ adm'.pc = l /\ adm'.school = s /\ adm'.role = role
  BY DEF Admin, Task
<1>2. Mailed'
  BY MailStays
<1> QED BY <1>1, <1>2 DEF Promised

\* A task goes on.
LEMMA TaskGoesOn ==
  ASSUME IInv, EverGrows, adm.pc # "idle", NEW l \in {"record", "invitemap", "unsync"}, AdminTo(l),
         l = "unsync" \/ adm.pc \in {"shell", "record", "invitemap", "rolemap"}
  PROVE  /\ adm' \in {Idle} \cup Task
         /\ adm'.pc \in {"shell", "record", "invitemap", "rolemap"} => adm'.role \in ever'[adm'.school]
<1>1. adm \in Task /\ adm.school \in Schools
  BY Domains, TaskSchool
<1>2. adm' \in Task /\ adm'.pc = l /\ adm'.school = adm.school /\ adm'.role = adm.role
  BY <1>1 DEF AdminTo, Task
<1> QED BY <1>1, <1>2 DEF IInv, Promised, EverGrows

LEMMA SendUserInvitationInv ==
  ASSUME IInv, Watch, ParentsStay, NEW s \in Schools, NEW role \in Roles, SendUserInvitation(s, role)
  PROVE  IInv'
<1>1. EverGrows /\ ever' \in [Schools -> SUBSET Roles] /\ role \in ever'[s]
  BY Domains, GivesGrows DEF SendUserInvitation
<1>2. UNCHANGED <<control, people, mail, idp, token, req>>
  BY DEF SendUserInvitation
<1>3. Tables' /\ WellGiven'
  BY <1>1, <1>2, TablesSame
<1>4. Promised' /\ adm' \in {Idle} \cup Task
  BY <1>1, <1>2, TaskBegins DEF SendUserInvitation
<1> QED BY <1>1, <1>2, <1>3, <1>4, TokenStays, BesideRequests

LEMMA InviteKeycloakInv ==
  ASSUME IInv, Watch, ParentsStay, InviteKeycloak
  PROVE  IInv'
<1>1. EverGrows /\ ever' \in [Schools -> SUBSET Roles]
  BY Domains, NothingGiven DEF InviteKeycloak
<1>2. UNCHANGED <<control, people, mail, token, req>> /\ adm.pc = "shell"
  BY DEF InviteKeycloak, AdminAt
<1>3. idp' = None \/ idp' \subseteq Schools
  BY <1>2, Domains, TaskSchool DEF InviteKeycloak, AddUserToOrganization
<1>4. Tables' /\ WellGiven'
  BY <1>1, <1>2, <1>3, Domains, TablesBeside DEF mail
<1>5. Promised' /\ adm' \in {Idle} \cup Task
  <2>1. CASE adm' = Idle
    BY <1>1, <1>2, <2>1, PromisesStay
  <2>2. CASE AdminTo("record")
    BY <1>1, <1>2, <2>2, TaskGoesOn, MailStays DEF Promised
  <2> QED BY <2>1, <2>2 DEF InviteKeycloak
<1> QED BY <1>1, <1>2, <1>4, <1>5, TokenStays, BesideRequests

LEMMA CreateInvitationRecordInv ==
  ASSUME IInv, Watch, ParentsStay, CreateInvitationRecord
  PROVE  IInv'
<1>1. EverGrows /\ ever' \in [Schools -> SUBSET Roles] /\ ever' = ever
  BY Domains, NothingGiven DEF CreateInvitationRecord
<1>2. UNCHANGED <<control, people, addressed, idp, token, req>> /\ adm.pc = "record" /\ AdminTo("invitemap")
  BY DEF CreateInvitationRecord, AdminAt
<1>3. PICK i \in Invitation : i = [school |-> adm.school, role |-> adm.role] /\ i.role \in ever[i.school]
  <2>1. adm.school \in Schools /\ adm.role \in Roles /\ adm.role \in ever[adm.school]
    BY <1>2, Domains, TaskSchool DEF IInv, Promised
  <2>2. [school |-> adm.school, role |-> adm.role] \in Invitation
    BY <2>1 DEF Invitation
  <2> QED BY <2>1, <2>2
<1>4. invites' = <<i>> \o invites /\ invites \in Seq(Invitation)
  BY <1>3, Domains DEF CreateInvitationRecord
<1>5. /\ invites' \in Seq(Invitation) /\ Len(invites') = Len(invites) + 1 /\ Len(invites) \in Nat
      /\ \A j \in 1 .. Len(invites) + 1 : invites'[j] = IF j = 1 THEN i ELSE invites[j - 1]
  BY <1>4
<1>6. Tables' /\ WellGiven'
  BY <1>1, <1>2, <1>5, Domains, TablesBeside
<1>7. ASSUME NEW j \in 1 .. Len(invites')
      PROVE  invites'[j].role \in ever'[invites'[j].school]
  <2>1. CASE j = 1
    BY <1>1, <1>3, <1>5, <2>1
  <2>2. CASE j # 1
    <3>1. PICK k \in 1 .. Len(invites) : invites'[j] = invites[k]
      <4>1. j - 1 \in 1 .. Len(invites) /\ invites'[j] = invites[j - 1]
        BY <1>5, <2>2
      <4> QED BY <4>1
    <3> QED BY <1>1, <3>1 DEF IInv, Promised, Mailed
  <2> QED BY <2>1, <2>2
<1>8. (addressed # None => addressed.role \in ever[addressed.school])'
  BY <1>1, <1>2 DEF IInv, Promised, Mailed
<1>9. Promised' /\ adm' \in {Idle} \cup Task
  BY <1>1, <1>2, <1>7, <1>8, TaskGoesOn DEF Promised, Mailed
<1> QED BY <1>1, <1>2, <1>6, <1>9, TokenStays, BesideRequests

LEMMA CreateInvitationInv ==
  ASSUME IInv, Watch, ParentsStay, NEW s \in Schools, NEW role \in Roles, CreateInvitation(s, role)
  PROVE  IInv'
<1>1. EverGrows /\ ever' \in [Schools -> SUBSET Roles] /\ role \in ever'[s]
  BY Domains, GivesGrows DEF CreateInvitation
<1>2. UNCHANGED <<control, people, invites, idp, token, req, adm>>
  BY DEF CreateInvitation
<1>3. PICK i \in Invitation : addressed' = i /\ i.school = s /\ i.role = role
  <2>1. [school |-> s, role |-> role] \in Invitation
    BY DEF Invitation
  <2> QED BY <2>1 DEF CreateInvitation
<1>4. Tables' /\ WellGiven'
  BY <1>1, <1>2, <1>3, Domains, TablesBeside
<1>5. Mailed'
  <2>1. \A j \in 1 .. Len(invites) : invites[j] \in Invitation
    BY Domains, SeqDomain
  <2>2. (\A j \in 1 .. Len(invites) : invites[j].role \in ever[invites[j].school])'
    BY <1>1, <1>2, <2>1 DEF IInv, Promised, Mailed, EverGrows, Invitation
  <2> QED BY <1>1, <1>3, <2>2 DEF Mailed
<1>6. (adm.pc \in {"shell", "record", "invitemap", "rolemap"} => adm.role \in ever[adm.school])'
  <2>1. CASE adm.pc = "idle"
    BY <1>2, <2>1
  <2>2. CASE adm.pc # "idle"
    BY <1>1, <1>2, <2>2, Domains, TaskSchool DEF IInv, Promised, EverGrows
  <2> QED BY <2>1, <2>2
<1>7. Promised' /\ adm' \in {Idle} \cup Task
  BY <1>2, <1>5, <1>6, Domains DEF Promised, Flying
<1> QED BY <1>1, <1>2, <1>4, <1>7, TokenStays, BesideRequests

\* A row written by the administrator: its role is on the task.
LEMMA TaskWritesRow ==
  ASSUME IInv, Watch, ParentsStay, ever' = ever, UNCHANGED <<links, people, mail, idp, token, req>>,
         cache' \in {cache, None}, adm' = Idle, adm.pc \in {"invitemap", "rolemap"},
         WriteRow(adm.school, adm.role)
  PROVE  IInv'
<1>1. EverGrows /\ ever' \in [Schools -> SUBSET Roles]
  BY Domains, NothingGiven
<1>2. PICK s \in Schools, role \in Roles : /\ s = adm.school /\ role = adm.role
                                           /\ role \in ever[s] /\ WriteRow(s, role)
  BY Domains, TaskSchool DEF IInv, Promised
<1>3. MapType' /\ MapWrites(s, role)
  BY <1>2, MapHolds, WriteRowType
<1>4. GivenNext(s, role)
  BY <1>2 DEF GivenNext
<1>5. Tables' /\ WellGiven'
  BY <1>1, <1>3, <1>4, Domains, MapTables DEF MapWrites, Allowed
<1>6. Promised' /\ adm' \in {Idle} \cup Task
  BY <1>1, PromisesStay
<1> QED BY <1>1, <1>5, <1>6, TokenStays, BesideRequests

LEMMA InviteMapInv ==
  ASSUME IInv, Watch, ParentsStay, InviteMap
  PROVE  IInv'
  BY TaskWritesRow DEF InviteMap, AdminAt, UpsertByInvitation

LEMMA RoleMapInv ==
  ASSUME IInv, Watch, ParentsStay, RoleMap
  PROVE  IInv'
  BY TaskWritesRow DEF RoleMap, AdminAt, UpsertUserTenantMap

\* The users row of one school is set, or deleted.
LEMMA SetsLocal ==
  ASSUME IInv, Watch, ParentsStay, EverGrows, UNCHANGED <<control, parents, mail, idp, token>>,
         NEW s \in Schools, NEW role \in Roles \cup {None}, local' = [local EXCEPT ![s] = role],
         real' = real \ {s} \/ (real' = real /\ role # None), Allowed(s, role)
  PROVE  Tables' /\ WellGiven'
<1>1. /\ local' \in [Schools -> Roles \cup {None}] /\ local'[s] = role
      /\ \A x \in Schools \ {s} : local'[x] = local[x]
  BY DEF IInv, Tables
<1>2. UNCHANGED <<utm, recent, links, cache, parents, invites, addressed, idp, token>>
  BY DEF control, mail
<1>3. (real \subseteq Schools /\ \A x \in real : local[x] # None)'
  BY <1>1 DEF IInv, Tables
<1>4. Tables'
  BY <1>1, <1>2, <1>3 DEF IInv, Tables, MembershipsType, Rows
<1>5. \A x \in Schools : local'[x] = local[x] \/ Allowed(x, local'[x])
  BY <1>1
<1>6. WellGiven'
  BY <1>2, <1>4, <1>5, WritesAllowed
<1> QED BY <1>4, <1>6

LEMMA AssignUserRoleInv ==
  ASSUME IInv, Watch, ParentsStay, NEW s \in Schools, NEW role \in Roles, AssignUserRole(s, role)
  PROVE  IInv'
<1>1. EverGrows /\ ever' \in [Schools -> SUBSET Roles] /\ role \in ever'[s]
  BY Domains, GivesGrows DEF AssignUserRole
<1>2. UNCHANGED <<control, real, parents, mail, idp, token, req>>
  BY DEF AssignUserRole
<1>3. role # None /\ Allowed(s, role)
  BY <1>1, ConstantsAssumption DEF Allowed, GivenNext
<1>4. Tables' /\ WellGiven'
  BY <1>1, <1>2, <1>3, SetsLocal DEF AssignUserRole
<1>5. Promised' /\ adm' \in {Idle} \cup Task
  BY <1>1, <1>2, TaskBegins DEF AssignUserRole
<1> QED BY <1>1, <1>2, <1>4, <1>5, TokenStays, BesideRequests

LEMMA DeleteTenantUserInv ==
  ASSUME IInv, Watch, ParentsStay, NEW s \in Schools, DeleteTenantUser(s)
  PROVE  IInv'
<1>1. EverGrows /\ ever' \in [Schools -> SUBSET Roles]
  BY Domains, NothingGiven DEF DeleteTenantUser
<1>2. UNCHANGED <<control, parents, mail, idp, token, req>>
  BY DEF DeleteTenantUser
<1>3. Tables' /\ WellGiven'
  BY <1>1, <1>2, SetsLocal DEF DeleteTenantUser, Allowed
<1>4. Promised' /\ adm' \in {Idle} \cup Task
  BY <1>1, <1>2, TaskBegins, ConstantsAssumption DEF DeleteTenantUser
<1> QED BY <1>1, <1>2, <1>3, <1>4, TokenStays, BesideRequests

LEMMA DeleteMapInv ==
  ASSUME IInv, Watch, ParentsStay, DeleteMap
  PROVE  IInv'
<1>1. EverGrows /\ ever' \in [Schools -> SUBSET Roles]
  BY Domains, NothingGiven DEF DeleteMap
<1>2. /\ UNCHANGED <<links, cache, people, mail, idp, token, req>>
      /\ adm.pc = "unmap" /\ AdminTo("unsync")
  BY DEF DeleteMap, AdminAt, RemoveUserTenantMap
<1>3. adm.school \in Schools
  BY <1>2, Domains, TaskSchool
<1>4. MapType' /\ \A role : MapWrites(adm.school, role)
  BY <1>3, MapHolds, RemoveRowType DEF DeleteMap
<1>5. MapWrites(adm.school, None)
  BY <1>4
<1>6. Tables' /\ WellGiven'
  BY <1>1, <1>2, <1>4, <1>5, Domains, MapTables DEF MapWrites, Allowed
<1>7. Promised' /\ adm' \in {Idle} \cup Task
  BY <1>1, <1>2, TaskGoesOn, MailStays DEF Promised
<1> QED BY <1>1, <1>2, <1>6, <1>7, TokenStays, BesideRequests

LEMMA DeleteKeycloakInv ==
  ASSUME IInv, Watch, ParentsStay, DeleteKeycloak
  PROVE  IInv'
<1>1. EverGrows /\ ever' \in [Schools -> SUBSET Roles]
  BY Domains, NothingGiven DEF DeleteKeycloak
<1>2. UNCHANGED <<control, people, mail, token, req>> /\ adm' = Idle
  BY DEF DeleteKeycloak
<1>3. idp' = None \/ idp' \subseteq Schools
  BY Domains DEF DeleteKeycloak, DeleteUserFromKeycloak
<1>4. Tables' /\ WellGiven'
  BY <1>1, <1>2, <1>3, Domains, TablesBeside DEF mail
<1>5. Promised' /\ adm' \in {Idle} \cup Task
  BY <1>1, <1>2, PromisesStay
<1> QED BY <1>1, <1>2, <1>4, <1>5, TokenStays, BesideRequests

LEMMA AdminFailsInv ==
  ASSUME IInv, Watch, ParentsStay, AdminFails
  PROVE  IInv'
<1>1. EverGrows /\ ever' \in [Schools -> SUBSET Roles]
  BY Domains, NothingGiven DEF AdminFails
<1>2. UNCHANGED <<control, people, mail, idp, token, req>>
  BY DEF AdminFails
<1>3. Tables' /\ WellGiven'
  BY <1>1, <1>2, TablesSame
<1>4. Promised' /\ adm' \in {Idle} \cup Task
  <2>1. CASE adm' = Idle
    BY <1>1, <1>2, <2>1, PromisesStay
  <2>2. CASE AdminTo("unsync")
    BY <1>1, <1>2, <2>2, TaskGoesOn, MailStays DEF Promised, AdminFails, AdminAt
  <2> QED BY <2>1, <2>2 DEF AdminFails
<1> QED BY <1>1, <1>2, <1>3, <1>4, TokenStays, BesideRequests

LEMMA LifecycleInv ==
  ASSUME IInv, Watch, ParentsStay, NEW s \in Schools, Lifecycle(s)
  PROVE  IInv'
<1>1. EverGrows /\ ever' \in [Schools -> SUBSET Roles]
  BY Domains, NothingGiven DEF Lifecycle
<1>2. UNCHANGED <<links, cache, people, mail, idp, token, req, adm>>
  BY DEF Lifecycle, AcceptMembership, DeclineMembership, SuspendMembership, RestoreMembership,
         RevokeMembership, SetStatus, RemoveUserTenantMap
<1>3. MapType' /\ MapWrites(s, None)
  <2>1. CASE RemoveUserTenantMap(s)
    BY <2>1, MapHolds, RemoveRowType
  <2>2. CASE \E from : \E to \in Statuses : SetStatus(s, from, to)
    BY <2>2, MapHolds, SetStatusType
  <2>3. {"active", "suspended", "revoked"} \subseteq Statuses
    BY DEF Statuses
  <2> QED BY <2>1, <2>2, <2>3
          DEF Lifecycle, AcceptMembership, DeclineMembership, SuspendMembership,
              RestoreMembership, RevokeMembership
<1>4. Tables' /\ WellGiven'
  BY <1>1, <1>2, <1>3, Domains, MapTables DEF MapWrites, Allowed
<1>5. Promised' /\ adm' \in {Idle} \cup Task
  BY <1>1, <1>2, PromisesStay
<1> QED BY <1>1, <1>2, <1>4, <1>5, TokenStays, BesideRequests

LEMMA CreateInvitedMembershipInv ==
  ASSUME IInv, Watch, ParentsStay, NEW s \in Schools, NEW role \in Roles, CreateInvitedMembership(s, role)
  PROVE  IInv'
<1>1. EverGrows /\ ever' \in [Schools -> SUBSET Roles] /\ role \in ever'[s]
  BY Domains, GivesGrows DEF CreateInvitedMembership
<1>2. UNCHANGED <<links, cache, people, mail, idp, token, req, adm>>
  BY DEF CreateInvitedMembership, CreateInvited
<1>3. MapType' /\ MapWrites(s, role)
  BY MapHolds, CreateInvitedType DEF CreateInvitedMembership
<1>4. GivenNext(s, role)
  BY <1>1 DEF GivenNext
<1>5. Tables' /\ WellGiven'
  BY <1>1, <1>2, <1>3, <1>4, Domains, MapTables DEF MapWrites, Allowed
<1>6. Promised' /\ adm' \in {Idle} \cup Task
  BY <1>1, <1>2, PromisesStay
<1> QED BY <1>1, <1>2, <1>5, <1>6, TokenStays, BesideRequests

LEMMA AdministratorInv ==
  ASSUME IInv, Watch, ParentsStay, Administrator \/ AdminStep
  PROVE  IInv'
  BY DeleteTenantUserInv, LifecycleInv, SendUserInvitationInv, CreateInvitationInv, AssignUserRoleInv,
     CreateInvitedMembershipInv, InviteKeycloakInv, CreateInvitationRecordInv, InviteMapInv,
     RoleMapInv, DeleteMapInv, DeleteKeycloakInv, AdminFailsInv
     DEF Administrator, AdminStep, UpdateTenantUserPermissions

-------------------------------------------------------------------------------
(* The server, and the theorems.                                            *)

LEMMA RestartInv ==
  ASSUME IInv, Watch, ParentsStay, Restart
  PROVE  IInv'
<1>1. EverGrows /\ ever' \in [Schools -> SUBSET Roles]
  BY Domains, NothingGiven DEF Restart
<1>2. /\ UNCHANGED <<links, people, mail, idp, token>> /\ cache' = None
      /\ adm' = Idle /\ req' = [r \in Requests |-> Idle]
  BY DEF Restart, Backfill
<1>3. /\ MapType'
      /\ \A x \in Schools : utm'[x] # None =>
           \/ utm[x] # None /\ utm'[x].role = utm[x].role
           \/ x \in links /\ utm'[x].role = "parent"
  BY MapHolds, BackfillType DEF Restart, IInv, Tables, MembershipsType
<1>4. \A x \in links : x \in Schools /\ GivenNext(x, "parent")
  BY <1>1, HurtStays, GivenStays DEF IInv, WellGiven, Tables, MembershipsType
<1>5. Tables' /\ WellGiven'
  BY <1>1, <1>2, <1>3, <1>4, Domains, MapTables DEF Allowed
<1>6. Promised' /\ adm' \in {Idle} \cup Task
  BY <1>1, <1>2, PromisesStay
<1>7. Flying'
  BY <1>1, <1>2, <1>5, <1>6, WatchKeeps DEF Flying, IInv, Tables, MembershipsType
<1>8. Requested'
  BY <1>2 DEF Requested, Knows, Reading, Chosen, Earned, Local
<1> QED BY <1>1, <1>2, <1>5, <1>6, <1>7, <1>8, TokenStays DEF IInv

LEMMA ExpireCacheInv ==
  ASSUME IInv, Watch, ParentsStay, ExpireCache
  PROVE  IInv'
<1>1. EverGrows /\ ever' \in [Schools -> SUBSET Roles]
  BY Domains, NothingGiven DEF ExpireCache, Same
<1>2. UNCHANGED <<utm, recent, links, people, mail, idp, token, req, adm>> /\ cache' = None
  BY DEF ExpireCache, Same
<1>3. MapType'
  BY <1>2, MapHolds DEF MapType, Rows
<1>4. Tables' /\ WellGiven'
  BY <1>1, <1>2, <1>3, Domains, MapTables
<1>5. Promised' /\ adm' \in {Idle} \cup Task
  BY <1>1, <1>2, PromisesStay
<1> QED BY <1>1, <1>2, <1>4, <1>5, TokenStays, BesideRequests

LEMMA StutterInv ==
  ASSUME IInv, UNCHANGED vars
  PROVE  IInv'
<1>1. UNCHANGED <<utm, recent, links, cache, local, real, parents, invites, addressed, idp, token,
                  req, adm, ever, since, barred, hurt>>
  BY DEF vars, control, people, mail, watch
<1>2. Tables'
  BY <1>1 DEF IInv, Tables, MembershipsType, Rows
<1>3. Flying' /\ TokenKinds' /\ Promised' /\ WellGiven'
  BY <1>1 DEF IInv, Flying, TokenKinds, Promised, Mailed, WellGiven, Given
<1>4. Requested'
  BY <1>1 DEF IInv, Requested, Knows, Reading, Chosen, Earned, Local, Given, Ambiguous
<1> QED BY <1>2, <1>3, <1>4 DEF IInv

LEMMA InitInv ==
  ASSUME Init
  PROVE  IInv
<1>1. \A s \in Schools : utm[s] = None /\ local[s] = None
  BY DEF Init, MembershipsInit
<1>2. Rows = {} /\ recent = <<>> /\ recent \in Seq(Schools) /\ DOMAIN recent = {}
  BY <1>1 DEF Init, MembershipsInit, Rows
<1>3. IsInjective(recent) /\ ToSet(recent) = Rows
  BY <1>2 DEF IsInjective, ToSet
<1>4. MembershipsType
  BY <1>2, <1>3 DEF Init, MembershipsInit, MembershipsType
<1>5. invites \in Seq(Invitation) /\ Len(invites) = 0
  BY DEF Init
<1>6. Tables
  BY <1>1, <1>4, <1>5 DEF Init, MembershipsInit, Tables
<1>7. Flying
  BY DEF Init, Flying
<1>8. Requested
  BY DEF Init, Requested, Knows, Reading, Chosen, Earned, Local
<1>9. TokenKinds /\ Promised
  BY <1>5 DEF Init, TokenKinds, Promised, Mailed, Idle
<1>10. WellGiven
  BY <1>1 DEF WellGiven, Init, MembershipsInit
<1> QED BY <1>6, <1>7, <1>8, <1>9, <1>10 DEF IInv

LEMMA ParentsKept ==
  ASSUME Next
  PROVE  ParentsStay
<1>1. CASE Person
  BY <1>1, ParentsAssumption
     DEF Person, LoginSSO, Refresh, LoginAsParent, LoginAsUser, Register, Arrive, people, ParentsStay
<1>2. CASE Administrator \/ AdminStep
  BY <1>2 DEF Administrator, AdminStep, DeleteTenantUser, Lifecycle, SendUserInvitation,
              CreateInvitation, AssignUserRole, UpdateTenantUserPermissions,
              CreateInvitedMembership, InviteKeycloak, CreateInvitationRecord, InviteMap, RoleMap,
              DeleteMap, DeleteKeycloak, AdminFails, people, ParentsStay
<1>3. CASE Restart \/ ExpireCache
  BY <1>3 DEF Restart, ExpireCache, people, ParentsStay
<1>4. CASE \E r \in Requests : RequestStep(r)
  BY <1>4, ParentsAssumption
     DEF RequestStep, ReadMemberships, ReadParentId, ReadParentLinks, FillCache, ResolveTenant,
         ReadInvitation, ReadAddressed, Heal, Select, Scan, ScanHeal, ReadLocal, Jit, JitMap,
         ProvisionParent, ProvisionLink, ProvisionLocal, ProvisionMap, Probe, people, ParentsStay
<1> QED BY <1>1, <1>2, <1>3, <1>4 DEF Next

LEMMA NextInv ==
  ASSUME IInv, [Next]_vars
  PROVE  IInv'
<1>1. CASE Next
  <2>1. Watch /\ ParentsStay
    BY <1>1, ParentsKept DEF Next
  <2> QED BY <1>1, <2>1, PersonInv, AdministratorInv, RestartInv, ExpireCacheInv, RequestStepInv DEF Next
<1>2. CASE UNCHANGED vars
  BY <1>2, StutterInv
<1> QED BY <1>1, <1>2

(* What every await of get_current_user may rely on when it is resumed: the  *)
(* strengthening that the theorems below rest on.                            *)
THEOREM Invariant == Spec => []IInv
  BY InitInv, NextInv, PTL DEF Spec

(* The tables keep their domains, user_tenant_map's order of updates        *)
(* included, and whoever get_current_user lets through has a school and     *)
(* carries its role among its roles.                                        *)
THEOREM TypeCorrect == Spec => []TypeOK
<1>1. IInv => TypeOK
  <2> SUFFICES ASSUME IInv
               PROVE  TypeOK
    OBVIOUS
  <2>1. DOMAIN invites = 1 .. Len(invites) /\ \A i \in 1 .. Len(invites) : invites[i] \in Invitation
    BY Domains, SeqDomain
  <2>2. ASSUME NEW r \in Requests, Granted(r)
        PROVE  req[r].tenant \in Schools /\ req[r].role \in req[r].roles /\ req[r].roles \subseteq Roles
    <3>1. PICK q \in Request : q = req[r] /\ Knows(q) /\ q.pc = "granted" /\ q # Idle
      BY <2>2, RequestHere, RequestIsBusy DEF Granted, Steps
    <3> QED BY <3>1 DEF Knows, Reading, Request
  <2> QED BY <2>1, <2>2 DEF TypeOK, IInv, Tables
<1> QED BY <1>1, Invariant, PTL

(* org_ambiguous: a token with several organizations never lands in a       *)
(* school nobody chose, whatever the map, the invitations and the scan of   *)
(* the schools say.                                                         *)
THEOREM NeverGuessed == Spec => []AmbiguousNeverGuessed
<1>1. IInv => AmbiguousNeverGuessed
  <2> SUFFICES ASSUME IInv, NEW r \in Requests, Granted(r), Ambiguous(req[r])
               PROVE  req[r].tenant = req[r].header
    BY DEF AmbiguousNeverGuessed
  <2>1. req[r].pc = "granted" /\ req[r].pc \in Steps
    BY DEF Granted, Steps
  <2> QED BY <2>1, RequestHere, RequestIsBusy DEF Chosen
<1> QED BY <1>1, Invariant, PTL

(* Where get_current_user heals, provisions and upserts, it writes only     *)
(* roles somebody gave at that school at some time: with any number of      *)
(* requests, administrators, restarts and failing blocks, but for a school  *)
(* that was selected while its users row could not be read.                 *)
THEOREM RolesStay == Spec => []RolesStayInTheirSchool
<1>1. IInv => RolesStayInTheirSchool
  BY DEF IInv, WellGiven, Given, RolesStayInTheirSchool
<1> QED BY <1>1, Invariant, PTL

-------------------------------------------------------------------------------
(* What a grant rests on.                                                   *)

\* Only a token without an e-mail address is let through by the choice of a school.
LEMMA SelectGrants ==
  ASSUME IInv, NEW r \in Requests, Select(r), Granted(r)'
  PROVE  ~req'[r].email /\ ~req'[r].sel
<1>1. PICK q \in Request : q = req[r] /\ q # Idle /\ q.pc = "select" /\ Knows(q)
  BY RequestHere, RequestIsBusy DEF Select, At, Steps, Early
<1>3. ASSUME NEW p \in Request, Placed(r, p)
      PROVE  ~p.email /\ req'[r] = [p EXCEPT !.pc = "granted"]
  <2>1. CASE Become(r, [p EXCEPT !.pc = IF p.email THEN "local" ELSE "granted"])
    <3>1. req'[r] = [p EXCEPT !.pc = IF p.email THEN "local" ELSE "granted"]
      BY <2>1 DEF Become, IInv, Flying
    <3>2. req'[r].pc = IF p.email THEN "local" ELSE "granted"
      BY <3>1 DEF Request
    <3> QED BY <3>1, <3>2 DEF Granted
  <2>2. CASE Become(r, [p EXCEPT !.pc = "scan"])
    <3>1. req'[r].pc = "scan"
      BY <2>2 DEF Become, IInv, Flying, Request
    <3> QED BY <3>1 DEF Granted
  <2>3. CASE Refuse(r)
    BY <2>3 DEF Refuse, Become, IInv, Flying, Idle, Granted
  <2> QED BY <1>3, <2>1, <2>2, <2>3 DEF Placed
<1>4. CASE q.header = None /\ Placed(r, q)
  <2>1. ~q.email /\ req'[r] = [q EXCEPT !.pc = "granted"]
    BY <1>3, <1>4
  <2>2. req'[r].email = q.email /\ req'[r].sel = q.sel
    BY <2>1 DEF Request
  <2> QED BY <1>1, <2>1, <2>2 DEF Knows, Reading, Early
<1>5. CASE q.header \in q.mem /\
           Placed(r, [q EXCEPT !.tenant = q.header, !.sel = (q.header # q.tenant)])
  <2>1. PICK p : p = [q EXCEPT !.tenant = q.header, !.sel = (q.header # q.tenant)]
    OBVIOUS
  <2>2. p \in Request /\ p.email = q.email
    BY <1>5, <2>1 DEF Request
  <2>3. ~p.email
    BY <1>3, <1>5, <2>1, <2>2
  <2> QED BY <1>1, <1>5, <2>2, <2>3 DEF Knows, Reading
<1>6. CASE Refuse(r)
  BY <1>6 DEF Refuse, Become, IInv, Flying, Idle, Granted
<1> QED BY <1>1, <1>4, <1>5, <1>6 DEF Select

\* The status probe lets through a request it left as it was.
LEMMA ProbeGrants ==
  ASSUME IInv, NEW r \in Requests, Probe(r), Granted(r)'
  PROVE  req[r].pc = "probe" /\ Onwards(req'[r], req[r]) /\ (req[r].unread => req'[r].unread)
<1>1. req[r].pc = "probe" /\ req[r].pc \in Writing /\ "granted" \in Steps
  BY DEF Probe, At, Provisioning, Writing, Steps
<1>2. req[r] \in Request /\ req \in [Requests -> {Idle} \cup Request]
  BY <1>1, WritingHere DEF IInv, Flying
<1>3. CASE Refuse(r)
  BY <1>2, <1>3 DEF Refuse, Become, Idle, Granted
<1>4. CASE To(r, "granted") \/ Caught(r, "granted")
  <2>1. PICK z : /\ Become(r, z) /\ Onwards(z, req[r]) /\ z.pc = "granted"
                 /\ (req[r].unread => z.unread)
    BY <1>1, <1>2, <1>4, MovesOn
  <2>2. req'[r] = z
    BY <1>2, <2>1 DEF Become
  <2> QED BY <1>1, <2>1, <2>2
<1> QED BY <1>3, <1>4 DEF Probe

\* The other steps of a request do not let it through.
LEMMA OthersDoNotGrant ==
  ASSUME IInv, NEW r \in Requests, RequestStep(r), Granted(r)'
  PROVE  Select(r) \/ Probe(r)
<1>1. req \in [Requests -> {Idle} \cup Request]
  BY DEF IInv, Flying
<1>2. ASSUME NEW z, Become(r, z), z.pc # "granted"
      PROVE  FALSE
  BY <1>1, <1>2 DEF Become, Granted
<1>3. ASSUME NEW p, "pc" \in DOMAIN p, NEW l, l # "granted", Become(r, [p EXCEPT !.pc = l])
       PROVE  FALSE
  <2>1. [p EXCEPT !.pc = l].pc = l
    BY <1>3
  <2> QED BY <1>2, <1>3, <2>1
<1>4. ASSUME req[r].pc \in Steps
      PROVE  req[r] \in Request
  BY <1>4, RequestHere
<1>5. CASE ReadMemberships(r)
  <2>1. req[r] \in Request
    BY <1>4, <1>5 DEF ReadMemberships, At, Steps, Early
  <2> QED BY <1>1, <1>5, <2>1 DEF ReadMemberships, To, Caught, Become, Granted, Request
<1>6. CASE FillCache(r)
  <2>1. req[r] \in Request
    BY <1>4, <1>6 DEF FillCache, At, Steps, Early
  <2> QED BY <1>1, <1>6, <2>1 DEF FillCache, To, Become, Granted, Request
<1>7. CASE ResolveTenant(r)
  <2>1. req[r] \in Request
    BY <1>4, <1>7 DEF ResolveTenant, At, Steps, Early
  <2>2. PICK p : "pc" \in DOMAIN p /\ p = [req[r] EXCEPT !.tenant = Claimed(req[r])]
    BY <2>1 DEF Request
  <2>3. \A m, role : "pc" \in DOMAIN Settled(p, m, role)
    BY <2>2 DEF Settled
  <2> QED BY <1>7, <1>3, <2>2, <2>3 DEF ResolveTenant
<1>8. CASE ReadInvitation(r)
  <2>1. req[r] \in Request
    BY <1>4, <1>8 DEF ReadInvitation, At, Steps, Early
  <2> QED BY <1>1, <1>8, <2>1 DEF ReadInvitation, InvitedBy, To, Caught, Become, Granted, Request
<1>9. CASE Heal(r)
  <2>1. req[r] \in Request
    BY <1>4, <1>9 DEF Heal, At, Steps, Early
  <2> QED BY <1>1, <1>9, <2>1 DEF Heal, To, Caught, Become, Granted, Request
<1>10. CASE Scan(r)
  <2>1. req[r] \in Request
    BY <1>4, <1>10 DEF Scan, At, Steps, Early
  <2>2. ~Refuse(r)
    BY <1>2 DEF Refuse, Idle
  <2>3. ASSUME NEW s, NEW role, NEW roles,
               Become(r, [req[r] EXCEPT !.pc = "scanned", !.tenant = s, !.role = role, !.roles = roles])
        PROVE  FALSE
    <3>1. [req[r] EXCEPT !.pc = "scanned", !.tenant = s, !.role = role, !.roles = roles].pc = "scanned"
      BY <2>1 DEF Request
    <3> QED BY <1>2, <2>3, <3>1
  <2> QED BY <1>10, <2>2, <2>3 DEF Scan
<1>11. CASE ScanHeal(r)
  <2>1. req[r] \in Request
    BY <1>4, <1>11 DEF ScanHeal, At, Steps, Early
  <2> QED BY <1>1, <1>11, <2>1 DEF ScanHeal, To, Caught, Become, Granted, Request
<1>12. CASE ReadLocal(r)
  <2>1. req[r] \in Request
    BY <1>4, <1>12 DEF ReadLocal, At, Steps
  <2>2. ~Refuse(r)
    BY <1>2 DEF Refuse, Idle
  <2>3. "pc" \in DOMAIN req[r] /\ (\A role : "pc" \in DOMAIN WithRow(req[r], role))
        /\ "pc" \in DOMAIN [req[r] EXCEPT !.unread = TRUE]
    BY <2>1 DEF Request, WithRow
  <2>4. \A q : Onward(q) # "granted"
    BY DEF Onward
  <2> QED BY <1>12, <1>3, <2>2, <2>3, <2>4 DEF ReadLocal, Forward, To
<1>13. CASE Jit(r)
  <2>1. req[r] \in Request
    BY <1>4, <1>13 DEF Jit, At, Steps, Provisioning, Writing
  <2> QED BY <1>1, <1>13, <2>1 DEF Jit, To, Become, Granted, Request
<1>14. CASE JitMap(r)
  <2>1. req[r] \in Request
    BY <1>4, <1>14 DEF JitMap, At, Steps, Provisioning, Writing
  <2>2. "pc" \in DOMAIN req[r]
    BY <2>1 DEF Request
  <2>3. \A q : Onward(q) # "granted"
    BY DEF Onward
  <2> QED BY <1>14, <1>3, <2>2, <2>3 DEF JitMap, Forward
<1>15. CASE ProvisionLink(r)
  <2>1. req[r] \in Request
    BY <1>4, <1>15 DEF ProvisionLink, At, Steps, Provisioning, Writing
  <2> QED BY <1>1, <1>15, <2>1 DEF ProvisionLink, To, Caught, Become, Granted, Request
<1>16. CASE ProvisionLocal(r)
  <2>1. req[r] \in Request
    BY <1>4, <1>16 DEF ProvisionLocal, At, Steps, Provisioning, Writing
  <2> QED BY <1>1, <1>16, <2>1 DEF ProvisionLocal, To, Caught, Become, Granted, Request
<1>17. CASE ProvisionMap(r)
  <2>1. req[r] \in Request
    BY <1>4, <1>17 DEF ProvisionMap, At, Steps, Provisioning, Writing
  <2> QED BY <1>1, <1>17, <2>1 DEF ProvisionMap, To, Caught, Become, Granted, Request
<1>18. CASE ReadParentId(r)
  <2>1. req[r] \in Request
    BY <1>4, <1>18 DEF ReadParentId, At, Steps, Early
  <2> QED BY <1>1, <1>18, <2>1 DEF ReadParentId, To, Become, Granted, Request
<1>19. CASE ReadParentLinks(r)
  <2>1. req[r] \in Request
    BY <1>4, <1>19 DEF ReadParentLinks, At, Steps, Early
  <2> QED BY <1>1, <1>19, <2>1 DEF ReadParentLinks, Become, Granted, Request
<1>20. CASE ReadAddressed(r)
  <2>1. req[r] \in Request
    BY <1>4, <1>20 DEF ReadAddressed, At, Steps, Early
  <2> QED BY <1>1, <1>20, <2>1 DEF ReadAddressed, InvitedBy, To, Become, Granted, Request
<1>21. CASE ProvisionParent(r)
  <2>1. req[r] \in Request
    BY <1>4, <1>21 DEF ProvisionParent, At, Steps, Provisioning, Writing
  <2> QED BY <1>1, <1>21, <2>1 DEF ProvisionParent, To, Caught, Become, Granted, Request
<1> QED BY <1>5, <1>6, <1>7, <1>8, <1>9, <1>10, <1>11, <1>12, <1>13, <1>14, <1>15, <1>16, <1>17,
           <1>18, <1>19, <1>20, <1>21 DEF RequestStep

\* No other step lets a request through.
LEMMA OnlyTheseGrant ==
  ASSUME IInv, [Next]_vars, NEW r \in Requests, Grants(r)
  PROVE  Watch /\ (Select(r) \/ Probe(r))
<1>1. req \in [Requests -> {Idle} \cup Request]
  BY DEF IInv, Flying
<1>2. ~Granted(r) /\ Granted(r)' /\ req' # req /\ req'[r] # Idle
  BY DEF Grants, Granted, Idle
<1>3. CASE UNCHANGED vars
  BY <1>2, <1>3 DEF vars
<1>4. CASE Next /\ \E x \in Requests : RequestStep(x)
  <2>1. PICK x \in Requests : RequestStep(x)
    BY <1>4
  <2>2. \E z : Become(x, z)
    BY <2>1 DEF RequestStep, ReadMemberships, ReadParentId, ReadParentLinks, FillCache,
                ResolveTenant, ReadInvitation, ReadAddressed, InvitedBy, Heal, Select, Placed, Scan,
                ScanHeal, ReadLocal, Jit, JitMap, ProvisionParent, ProvisionLink,
                ProvisionLocal, ProvisionMap, Probe, To, Caught, Refuse, Forward
  <2>3. x = r
    BY <1>1, <1>2, <2>2 DEF Become, Granted
  <2>4. RequestStep(r)
    BY <2>1, <2>3
  <2> QED BY <1>2, <1>4, <2>4, OthersDoNotGrant DEF Next
<1>5. CASE Next /\ Person
  <2>1. PICK x \in Requests, header \in Schools \cup {None} : Arrive(x, header)
    BY <1>2, <1>5 DEF Person, LoginSSO, Refresh, LoginAsParent, LoginAsUser, Register
  <2>2. PICK z : Become(x, z) /\ z.pc \in {"members", "select"}
    BY <2>1 DEF Arrive
  <2> QED BY <1>1, <1>2, <2>2 DEF Become, Granted
<1>6. CASE Next /\ ~Person /\ ~\E x \in Requests : RequestStep(x)
  <2>1. Administrator \/ AdminStep \/ Restart \/ ExpireCache
    BY <1>6 DEF Next
  <2>2. req' = req \/ req'[r] = Idle
    BY <2>1 DEF Administrator, AdminStep, Restart, ExpireCache, DeleteTenantUser, Lifecycle,
                SendUserInvitation, CreateInvitation, AssignUserRole,
                UpdateTenantUserPermissions, CreateInvitedMembership, InviteKeycloak,
                CreateInvitationRecord, InviteMap,
                RoleMap, DeleteMap, DeleteKeycloak, AdminFails
  <2> QED BY <1>2, <2>2
<1> QED BY <1>3, <1>4, <1>5, <1>6 DEF Next

(* A request that selects another school with its header, and could read    *)
(* its users row there, acts with roles that row had during the request,    *)
(* with any number of requests and administrators beside it; none of the    *)
(* token's roles goes along.                                                *)
THEOREM SelectedRoles == Spec => SelectedRolesAreLocal
<1> DEFINE A == \A r \in Requests : (Grants(r) /\ req'[r].sel /\ ~req'[r].unread) =>
                  req'[r].roles \subseteq since'[r][req'[r].tenant]
<1>1. IInv /\ [Next]_vars => A
  <2> SUFFICES ASSUME IInv, [Next]_vars, NEW r \in Requests, Grants(r), req'[r].sel, ~req'[r].unread
               PROVE  req'[r].roles \subseteq since'[r][req'[r].tenant]
    OBVIOUS
  <2>1. Watch /\ Probe(r) /\ Granted(r)'
    BY OnlyTheseGrant, SelectGrants DEF Grants
  <2>2. req[r].pc = "probe" /\ Onwards(req'[r], req[r]) /\ ~req[r].unread
    BY <2>1, ProbeGrants
  <2>3. /\ req[r].pc \in Writing /\ req[r].pc \in Steps /\ Working(r)
    BY <2>2 DEF Provisioning, Writing, Steps, Working
  <2>4. req[r] # Idle /\ Local(r) /\ req[r].tenant \in Schools
    BY <2>3, RequestHere, RequestIsBusy, WritingHere
  <2>5. req[r].roles \subseteq since[r][req[r].tenant]
    BY <2>2, <2>3, <2>4 DEF Local, Onwards
  <2>6. Tables'
    BY NextInv DEF IInv
  <2>7. since[r][req[r].tenant] \subseteq since'[r][req[r].tenant]
    BY <2>1, <2>3, <2>4, <2>6, SinceKept
  <2> QED BY <2>2, <2>5, <2>7 DEF Onwards
<1>2. IInv /\ [Next]_vars => [A]_vars
  BY <1>1
<1> QED BY <1>2, Invariant, PTL DEF Spec, SelectedRolesAreLocal

-------------------------------------------------------------------------------
(* Who lifts a bar.                                                         *)

\* The rows that are left as they are keep their bars.
LEMMA SameRow ==
  ASSUME NEW x \in Barred, utm'[x] = utm[x]
  PROVE  x \in Barred'
  BY DEF Barred, Rows

\* ON CONFLICT DO UPDATE writes no status.
LEMMA WriteRowKeepsBars ==
  ASSUME IInv, NEW s, NEW role \in Roles, WriteRow(s, role), NEW x \in Barred
  PROVE  x \in Barred'
<1>1. utm \in [Schools -> Row \cup {None}] /\ x \in Schools /\ utm[x] # None
  BY MapHolds DEF MapType, Barred, Rows
<1>2. PICK row \in Row : row = utm[x] /\ row.status \in {"suspended", "revoked"}
  BY <1>1 DEF Barred
<1>3. CASE x = s
  <2>1. utm'[x] = [row EXCEPT !.role = role]
    BY <1>1, <1>2, <1>3 DEF WriteRow
  <2>2. [row EXCEPT !.role = role] \in Row /\ [row EXCEPT !.role = role].status = row.status
    BY DEF Row
  <2>3. utm'[x] # None
    BY <2>1, <2>2, ConstantsAssumption
  <2> QED BY <1>1, <1>2, <2>1, <2>2, <2>3 DEF Barred, Rows
<1>4. CASE x # s
  <2>1. utm'[x] = utm[x]
    BY <1>1, <1>4 DEF WriteRow
  <2> QED BY <2>1, SameRow
<1> QED BY <1>3, <1>4

\* The life cycle lifts a bar by a restore only.
LEMMA LifecycleBars ==
  ASSUME IInv, NEW s \in Schools, Lifecycle(s), NEW x \in Barred
  PROVE  x \in Barred' \/ RestoreMembership(x)
<1>1. /\ utm \in [Schools -> Row \cup {None}] /\ x \in Schools /\ utm[x] # None
      /\ utm[x].status \in {"suspended", "revoked"}
  BY MapHolds DEF MapType, Barred, Rows
<1>2. CASE x # s
  <2>1. utm'[x] = utm[x]
    BY <1>1, <1>2 DEF Lifecycle, AcceptMembership, DeclineMembership, SuspendMembership,
                      RestoreMembership, RevokeMembership, SetStatus, RemoveUserTenantMap
  <2> QED BY <2>1, SameRow
<1>3. CASE x = s /\ RevokeMembership(s)
  <2>1. PICK row \in Row : row = utm[x]
    BY <1>1
  <2>2. utm'[x] = [row EXCEPT !.status = "revoked"]
    BY <1>1, <1>3, <2>1 DEF RevokeMembership, SetStatus
  <2>3. [row EXCEPT !.status = "revoked"] \in Row /\ [row EXCEPT !.status = "revoked"].status = "revoked"
    BY DEF Row, Statuses
  <2>4. utm'[x] # None
    BY <2>2, <2>3, ConstantsAssumption
  <2> QED BY <1>1, <2>2, <2>3, <2>4 DEF Barred, Rows
<1>4. CASE x = s /\ RestoreMembership(s)
  BY <1>4
<1>5. CASE x = s /\ (AcceptMembership(s) \/ DeclineMembership(s) \/ SuspendMembership(s))
  BY <1>1, <1>5 DEF AcceptMembership, DeclineMembership, SuspendMembership, SetStatus
<1> QED BY <1>2, <1>3, <1>4, <1>5 DEF Lifecycle

\* What the person does writes no status.
LEMMA PersonBars ==
  ASSUME IInv, Person, NEW x \in Barred
  PROVE  x \in Barred'
<1>1. CASE \E s \in Schools, role \in Roles : Register(s, role)
  BY <1>1, WriteRowKeepsBars DEF Register
<1>2. CASE \E s \in Schools : LoginAsParent(s)
  BY <1>2, WriteRowKeepsBars, ConstantsAssumption DEF LoginAsParent, UpsertUserTenantMap
<1>3. CASE \E s \in Schools : LoginAsUser(s)
  <2>1. PICK s \in Schools : LoginAsUser(s)
    BY <1>3
  <2>2. local[s] \in Roles
    BY <2>1 DEF LoginAsUser, IInv, Tables
  <2> QED BY <2>1, <2>2, WriteRowKeepsBars DEF LoginAsUser, UpsertUserTenantMap
<1>4. CASE UNCHANGED control
  BY <1>4, SameRow DEF control
<1> QED BY <1>1, <1>2, <1>3, <1>4 DEF Person, LoginSSO, Refresh, Arrive

\* The administrator lifts a bar by a restore, an invitation or the deletion of the row.
LEMMA AdministratorBars ==
  ASSUME IInv, Administrator \/ AdminStep, NEW x \in Barred
  PROVE  \/ x \in Barred' \/ DeleteMap \/ RestoreMembership(x)
         \/ \E role \in Roles : CreateInvited(x, role)
<1>1. CASE InviteMap \/ RoleMap
  <2>1. adm.role \in Roles /\ WriteRow(adm.school, adm.role)
    BY <1>1, Domains, TaskSchool
       DEF InviteMap, RoleMap, AdminAt, UpsertByInvitation, UpsertUserTenantMap
  <2> QED BY <2>1, WriteRowKeepsBars
<1>2. CASE \E s \in Schools : Lifecycle(s)
  BY <1>2, LifecycleBars
<1>3. CASE \E s \in Schools, role \in Roles : CreateInvitedMembership(s, role)
  <2>1. PICK s \in Schools, role \in Roles : CreateInvited(s, role)
    BY <1>3 DEF CreateInvitedMembership
  <2>2. CASE x # s
    <3>1. utm'[x] = utm[x]
      BY <2>1, <2>2, MapHolds DEF CreateInvited, MapType, Barred, Rows
    <3> QED BY <3>1, SameRow
  <2> QED BY <2>1, <2>2
<1>4. CASE UNCHANGED control
  BY <1>4, SameRow DEF control
<1> QED BY <1>1, <1>2, <1>3, <1>4
        DEF Administrator, AdminStep, DeleteTenantUser, SendUserInvitation, CreateInvitation,
            AssignUserRole, UpdateTenantUserPermissions, InviteKeycloak, CreateInvitationRecord,
            DeleteKeycloak, AdminFails

\* A request writes no status.
LEMMA RequestBars ==
  ASSUME IInv, NEW r \in Requests, RequestStep(r), NEW x \in Barred
  PROVE  x \in Barred'
<1>1. CASE Heal(r) \/ ScanHeal(r) \/ JitMap(r)
  <2>1. req[r].pc \in Steps
    BY <1>1 DEF Heal, ScanHeal, JitMap, At, Steps, Early, Writing
  <2>2. req[r].role \in Roles
    BY <2>1, RequestHere DEF Request
  <2>3. CASE UNCHANGED control
    BY <2>3, SameRow DEF control
  <2>4. CASE UpsertUserTenantMap(req[r].tenant, req[r].role)
    BY <2>2, <2>4, WriteRowKeepsBars DEF UpsertUserTenantMap
  <2> QED BY <1>1, <2>3, <2>4 DEF Heal, ScanHeal, JitMap
<1>2. CASE ProvisionMap(r)
  <2>1. CASE UNCHANGED control
    BY <2>1, SameRow DEF control
  <2>2. CASE UpsertUserTenantMap(req[r].tenant, "parent")
    BY <2>2, WriteRowKeepsBars, ConstantsAssumption DEF UpsertUserTenantMap
  <2> QED BY <1>2, <2>1, <2>2 DEF ProvisionMap
<1>3. CASE UNCHANGED utm
  BY <1>3, SameRow
<1> QED BY <1>1, <1>2, <1>3
        DEF RequestStep, ReadMemberships, ReadParentId, ReadParentLinks, FillCache, ResolveTenant,
            ReadInvitation, ReadAddressed, Select, Scan, ReadLocal, Jit, ProvisionParent,
            ProvisionLink, ProvisionLocal, Probe, control

(* Nothing that the person, a request on its way or a start of the server    *)
(* writes lifts a suspension or a revocation, in any order with what the     *)
(* administrators do: ON CONFLICT DO UPDATE keeps the status everywhere, and *)
(* the backfill writes rows only where there are none.                       *)
THEOREM BarsStay == Spec => BarStays
<1>1. ASSUME IInv, Next
      PROVE  KeepsBars
  <2> SUFFICES ASSUME NEW x \in Barred
               PROVE  \/ x \in Barred' \/ DeleteMap \/ RestoreMembership(x)
                      \/ \E role \in Roles : CreateInvited(x, role)
    BY DEF KeepsBars
  <2>1. CASE Restart
    <3>1. utm'[x] = utm[x]
      BY <2>1 DEF Restart, Backfill, Barred, Rows
    <3> QED BY <3>1, SameRow
  <2>2. CASE ExpireCache
    BY <2>2, SameRow DEF ExpireCache
  <2> QED BY <1>1, <2>1, <2>2, PersonBars, AdministratorBars, RequestBars DEF Next
<1>2. IInv /\ [Next]_vars => [KeepsBars]_vars
  BY <1>1
<1> QED BY <1>2, Invariant, PTL DEF Spec, BarStays
===============================================================================
