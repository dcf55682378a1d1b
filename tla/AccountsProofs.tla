---------------------------- MODULE AccountsProofs ----------------------------
(***************************************************************************)
(* Proofs about registration, login and passwords, for every set of        *)
(* schools, codes, passwords, challenges and concurrent requests.          *)
(*                                                                         *)
(* Links, sessions and counts are never taken back, but rows of users are: *)
(* what a request has read of a row may be false when it goes on.  The     *)
(* inductive invariant says what each request may still rely on, and which *)
(* accounts are owed: to the link of a parent, and to what a login offers. *)
(***************************************************************************)
EXTENDS Accounts, FiniteSetTheorems, TLAPS

Roles == {"parent", "staff", "super"}
Session == [place : Places, role : Roles]
RegSteps == {"parent", "newparent", "link", "local", "staff", "super", "newuser", "map", "count"}
Reg == [pc : RegSteps, code : Codes \cup Mails \cup {None}, place : Places, role : Roles,
        pw : Passwords]
Matched == [pc : {"matched"}, matched : SUBSET Session, pw : Passwords]
Redeemed == [pc : {"redeemed"}, place : Places]
Change == [pc : {"change", "mirror"}, sess : Session, pw : Passwords]
Admin == [pc : {"invite", "unmap"}, place : Schools]

ReqType ==
  req \in [Handlers -> {Idle} \cup Reg \cup Matched \cup Redeemed \cup Change \cup Admin]

Types == TypeOK /\ ReqType

\* A parent's school is linked, and Platform is the place of the super_admins.
Sound(s) ==
  /\ s.role = "parent" => s.place \in links
  /\ (s.role = "super") = (s.place = Platform)

\* A linked school has the parents row; a row that says parent was made for a
\* linked school, and only Platform has a super.
Rows ==
  /\ links # {} => parent # None
  /\ \A p \in Places : users[p] # None =>
       /\ users[p].role = "parent" => p \in links
       /\ (users[p].role = "super") = (p = Platform)
  /\ \A c \in active : uses[c] # None

\* What a registration has done so far, or the login that shares its steps.
Progress(h) ==
  req[h].pc \in RegSteps =>
    /\ (req[h].role = "super") = (req[h].place = Platform)
    /\ req[h].code \in Codes => uses[req[h].code] # None
    /\ req[h].pc \in {"parent", "newparent", "link", "local"} => req[h].role = "parent"
    /\ req[h].pc \in {"staff", "super"} => req[h].role = req[h].pc
    /\ req[h].pc = "link" => parent # None
    /\ req[h].role = "parent" /\ req[h].pc \in {"local", "newuser", "map", "count"} =>
         req[h].place \in links

\* What a request in flight relies on.
Relies(h) ==
  /\ Progress(h)
  /\ req[h].pc = "matched" => \A m \in req[h].matched : Sound(m)
  /\ req[h].pc \in {"change", "mirror"} => req[h].sess \in held
  /\ req[h].pc = "change" /\ req[h].sess.role # "parent" => users[req[h].sess.place] # None

Flight == \A h \in Handlers : Relies(h)

Tokens == \A s \in held : Sound(s)

\* The account of p is there, or was deleted, or a request owes it or was cut.
Backed(p) ==
  \/ users[p] # None
  \/ p \in Schools /\ (p \in cut \cup gone \/ \E h \in Handlers : Registering(h, p))

Owed == \A p \in Places : p \in links \/ Offered(p) => Backed(p)

\* The registrations that have passed the check of code c and not counted yet.
Using(c) == {h \in Handlers : req[h].pc \in RegSteps /\ req[h].code = c}

Counted ==
  \A c \in Codes :
    /\ uses[c] = None => Using(c) = {}
    /\ uses[c] # None =>
         uses[c] + Cardinality(Using(c)) <= CodeOf[c].max + Cardinality(Handlers) - 1

Core == Types /\ Rows /\ Flight /\ Tokens /\ Owed

IInv == Core /\ ChangedPasswordIsChecked /\ Counted

-------------------------------------------------------------------------------
(* Requests and what every step keeps.                                      *)

LEMMA ReqCases ==
  ASSUME ReqType, NEW h \in Handlers
  PROVE  /\ req[h].pc \in RegSteps => req[h] \in Reg
         /\ req[h].pc = "matched" => req[h] \in Matched
         /\ req[h].pc = "redeemed" => req[h] \in Redeemed
         /\ req[h].pc \in {"change", "mirror"} => req[h] \in Change
         /\ req[h].pc \in {"invite", "unmap"} => req[h] \in Admin
         /\ req[h].pc = "idle" => req[h] = Idle
  BY DEF ReqType, Reg, Matched, Redeemed, Change, Admin, Idle, RegSteps

\* Only the request of h moves.
Alone(h) == \A g \in Handlers \ {h} : req'[g] = req[g]

\* No link, session or use is ever taken back.
Grows ==
  /\ links \subseteq links' /\ held \subseteq held'
  /\ parent # None => parent' # None
  /\ \A c \in Codes : uses[c] # None => uses'[c] # None

LEMMA GrowsSound ==
  ASSUME Grows, NEW s, Sound(s)
  PROVE  s.role = "parent" => s.place \in links'
  BY DEF Grows, Sound

\* A request that stands still relies on the same, unless its row was deleted.
LEMMA KeepsRelies ==
  ASSUME Types, Grows, NEW h \in Handlers, Relies(h), req'[h] = req[h],
         req[h].pc = "change" /\ req[h].sess.role # "parent" => users'[req[h].sess.place] # None
  PROVE  Relies(h)'
<1>1. Progress(h)'
  BY ReqCases DEF Relies, Progress, Grows, Types, Reg
<1>2. ASSUME req[h].pc = "matched", NEW m \in req[h].matched
      PROVE  Sound(m)'
  BY <1>2, GrowsSound DEF Relies, Sound
<1>3. req[h].pc \in {"change", "mirror"} => req[h].sess \in held'
  BY DEF Relies, Grows
<1> QED BY <1>1, <1>2, <1>3 DEF Relies

\* What a step may not lose: rows, and the reason why an account is missing.
KeepsDebts ==
  /\ \A p \in Places : users[p] # None => users'[p] # None
  /\ \A p \in cut \cup gone : p \in cut' \cup gone' \/ users'[p] # None

\* The request that moves still owes what it owed, or the account is there.
Pays(h) ==
  \A p \in Schools : Registering(h, p) =>
    Registering(h, p)' \/ users'[p] # None \/ p \in cut' \cup gone'

LEMMA KeepsBacked ==
  ASSUME KeepsDebts, NEW h \in Handlers, Alone(h), Pays(h), NEW p \in Places, Backed(p)
  PROVE  Backed(p)'
<1>1. CASE users[p] # None
  BY <1>1 DEF KeepsDebts, Backed
<1>2. CASE p \in Schools /\ p \in cut \cup gone
  BY <1>2 DEF KeepsDebts, Backed
<1>3. ASSUME p \in Schools, NEW g \in Handlers, Registering(g, p)
      PROVE  Backed(p)'
  <2>1. CASE g = h
    BY <1>3, <2>1 DEF Pays, Backed
  <2>2. CASE g # h
    BY <1>3, <2>2 DEF Alone, Registering, Backed
  <2> QED BY <2>1, <2>2
<1> QED BY <1>1, <1>2, <1>3 DEF Backed

\* The invariants that hold once the moving request and the new rows do.
LEMMA KeepsCore ==
  ASSUME Core, Types', Rows', Grows, KeepsDebts,
         NEW h \in Handlers, Alone(h), Pays(h), Relies(h)',
         \A s \in held' \ held : Sound(s)',
         \A p \in Places : p \in links' \/ Offered(p)' => p \in links \/ Offered(p) \/ Backed(p)'
  PROVE  Core'
<1>1. ASSUME NEW g \in Handlers, g # h
      PROVE  Relies(g)'
  <2>1. Relies(g) /\ req'[g] = req[g] /\ Types
    BY <1>1 DEF Core, Flight, Alone
  <2>2. ASSUME req[g].pc = "change", req[g].sess.role # "parent"
        PROVE  users'[req[g].sess.place] # None
    <3>1. req[g].sess.place \in Places /\ users[req[g].sess.place] # None
      BY <2>1, <2>2, ReqCases DEF Types, Relies, Change, Session
    <3> QED BY <3>1 DEF KeepsDebts
  <2> QED BY <2>1, <2>2, KeepsRelies
<1>2. Flight'
  BY <1>1 DEF Flight
<1>3. Tokens'
  BY GrowsSound DEF Core, Tokens, Sound
<1>4. Owed'
  BY KeepsBacked DEF Core, Owed
<1> QED BY <1>2, <1>3, <1>4 DEF Core

\* Nothing new is offered when no login matches and no challenge opens.
LEMMA NoNewOffer ==
  ASSUME NEW h \in Handlers, Alone(h), req'[h].pc # "matched", NEW p,
         \A k \in Challenges : challenge'[k] = challenge[k] \/ challenge'[k].st # "open",
         Offered(p)'
  PROVE  Offered(p)
  BY DEF Offered, Alone, At

\* A step that writes none of the rows the invariant speaks of.
Quiet == UNCHANGED <<users, parent, links, uses, active, challenge, held, cut, gone, stale>>

LEMMA QuietKeeps ==
  ASSUME Core, Quiet
  PROVE  /\ Grows /\ KeepsDebts /\ Rows'
         /\ held' = held /\ links' = links
         /\ \A k \in Challenges : challenge'[k] = challenge[k]
  BY DEF Quiet, Core, Grows, KeepsDebts, Rows

LEMMA QuietCore ==
  ASSUME Core, Quiet, mapped' \subseteq Schools, mailed' \subseteq Mails,
         NEW h \in Handlers, ReqType', Alone(h), Relies(h)', Pays(h), req'[h].pc # "matched"
  PROVE  Core'
<1>1. Types'
  BY DEF Core, Types, TypeOK, Quiet
<1>2. \A p \in Places : p \in links' \/ Offered(p)' => p \in links \/ Offered(p) \/ Backed(p)'
  BY QuietKeeps, NoNewOffer
<1> QED BY <1>1, <1>2, QuietKeeps, KeepsCore

\* Where a request can go.
LEMMA Enter ==
  ASSUME Types, NEW h \in Handlers, NEW q, Goto(h, q),
         q \in {Idle} \cup Reg \cup Matched \cup Redeemed \cup Change \cup Admin
  PROVE  ReqType' /\ Alone(h) /\ req'[h] = q
  BY DEF Goto, Types, ReqType, Alone

LEMMA Ended ==
  ASSUME Types, NEW h \in Handlers, Reject(h)
  PROVE  ReqType' /\ Alone(h) /\ req'[h].pc = "idle" /\ Relies(h)'
<1>1. ReqType' /\ Alone(h) /\ req'[h] = Idle
  BY Enter DEF Reject
<1> QED BY <1>1 DEF Relies, Progress, RegSteps, Idle

LEMMA Moved ==
  ASSUME Types, NEW h \in Handlers, req[h].pc \in RegSteps, NEW l \in RegSteps, To(h, l)
  PROVE  /\ ReqType' /\ Alone(h) /\ req[h] \in Reg /\ req'[h].pc = l
         /\ req'[h].code = req[h].code /\ req'[h].place = req[h].place
         /\ req'[h].role = req[h].role
<1>1. req[h] \in Reg
  BY ReqCases DEF Types
<1> DEFINE q == [req[h] EXCEPT !.pc = l]
<1>2. /\ q \in Reg /\ q.pc = l /\ q.code = req[h].code /\ q.place = req[h].place
      /\ q.role = req[h].role
  BY <1>1 DEF Reg
<1>3. Goto(h, q)
  BY DEF To
<1> HIDE DEF q
<1> QED BY <1>1, <1>2, <1>3, Enter

-------------------------------------------------------------------------------
(* Registration.                                                            *)

\* Entering a registration, with a code, an invitation or a passphrase.
LEMMA EnterCore ==
  ASSUME Core, NEW h \in Handlers, req[h].pc = "idle",
         NEW q \in Reg, q.pc = q.role, Goto(h, q),
         (q.role = "super") = (q.place = Platform),
         q.code \in Codes => uses[q.code] # None,
         UNCHANGED <<store, codes, challenge, held, history>>
  PROVE  Core' /\ Alone(h) /\ req'[h] = q
<1> USE DEF Core
<1>1. ReqType' /\ Alone(h) /\ req'[h] = q
  BY Enter
<1>2. Quiet /\ mapped' \subseteq Schools /\ mailed' \subseteq Mails
  BY DEF Quiet, store, codes, history, Types, TypeOK
<1>3. Relies(h)' /\ req'[h].pc # "matched"
  BY <1>1, <1>2 DEF Relies, Progress, Reg, Roles, RegSteps, Quiet
<1>4. Pays(h)
  BY DEF Pays, Registering
<1> QED BY <1>1, <1>2, <1>3, <1>4, QuietCore

LEMMA RegisterCore ==
  ASSUME Core, NEW h \in Handlers, NEW c \in Codes, NEW pw \in Passwords, Register(h, c, pw)
  PROVE  Core' /\ Alone(h) /\ Usable(c) /\ req[h].pc = "idle" /\ req'[h].code = c
<1> DEFINE q == [pc |-> CodeOf[c].role, code |-> c, place |-> CodeOf[c].place,
                 role |-> CodeOf[c].role, pw |-> pw]
<1>1. q \in Reg /\ q.pc = q.role /\ q.code = c /\ (q.role = "super") = (q.place = Platform)
  BY ConstantsAssumption DEF Reg, RegSteps, Roles
<1>2. /\ req[h].pc = "idle" /\ Goto(h, q) /\ Usable(c) /\ uses[c] # None
      /\ UNCHANGED <<store, codes, challenge, held, history>>
  BY DEF Register, At, Usable, Core, Rows
<1> HIDE DEF q
<1> QED BY <1>1, <1>2, EnterCore

\* A code that is no row of invitations is counted nowhere.
LEMMA RegisterUncountedCore ==
  ASSUME Core, NEW h \in Handlers, NEW pw \in Passwords,
         \/ \E i \in Mails : RegisterInvited(h, i, pw)
         \/ \E p \in Schools : RegisterWithPass(h, p, pw)
  PROVE  Core' /\ Alone(h) /\ req'[h].code \notin Codes
<1>1. ASSUME NEW i \in Mails, RegisterInvited(h, i, pw)
      PROVE  Core' /\ Alone(h) /\ req'[h].code \notin Codes
  <2> DEFINE q == [pc |-> MailOf[i].role, code |-> i, place |-> MailOf[i].place,
                   role |-> MailOf[i].role, pw |-> pw]
  <2>1. /\ q \in Reg /\ q.pc = q.role /\ q.code \notin Codes
        /\ (q.role = "super") = (q.place = Platform)
    BY ConstantsAssumption DEF Reg, RegSteps, Roles, Places
  <2>2. /\ req[h].pc = "idle" /\ Goto(h, q)
        /\ UNCHANGED <<store, codes, challenge, held, history>>
    BY <1>1 DEF RegisterInvited, At
  <2> HIDE DEF q
  <2> QED BY <2>1, <2>2, EnterCore
<1>2. ASSUME NEW p \in Schools, RegisterWithPass(h, p, pw)
      PROVE  Core' /\ Alone(h) /\ req'[h].code \notin Codes
  <2> DEFINE q == [pc |-> "staff", code |-> None, place |-> p, role |-> "staff", pw |-> pw]
  <2>1. /\ q \in Reg /\ q.pc = q.role /\ q.code \notin Codes
        /\ (q.role = "super") = (q.place = Platform)
    BY ConstantsAssumption DEF Reg, RegSteps, Roles, Places
  <2>2. /\ req[h].pc = "idle" /\ Goto(h, q)
        /\ UNCHANGED <<store, codes, challenge, held, history>>
    BY <1>2 DEF RegisterWithPass, At
  <2> HIDE DEF q
  <2> QED BY <2>1, <2>2, EnterCore
<1> QED BY <1>1, <1>2

\* A registration that moves on, or ends, without writing a row.
LEMMA ReadCore ==
  ASSUME Core, NEW h \in Handlers, req[h].pc \in RegSteps,
         Quiet, mapped' \subseteq Schools, mailed' \subseteq Mails,
         \/ Reject(h) /\ \A p \in Schools : Registering(h, p) => users[p] # None
         \/ \E l \in {"newparent", "link", "newuser", "map", "count"} :
              /\ To(h, l)
              /\ l = "newparent" => req[h].role = "parent"
              /\ l = "link" => req[h].role = "parent" /\ parent # None
              /\ l \in {"newuser", "map", "count"} /\ req[h].role = "parent" =>
                   req[h].place \in links
              /\ req[h].pc \in {"local", "newuser"} /\ l # "newuser" =>
                   users[req[h].place] # None
  PROVE  Core' /\ Alone(h)
<1> USE DEF Core
<1>1. ASSUME Reject(h), \A p \in Schools : Registering(h, p) => users[p] # None
      PROVE  Core' /\ Alone(h)
  <2>1. ReqType' /\ Alone(h) /\ Relies(h)' /\ req'[h].pc # "matched"
    BY <1>1, Ended
  <2>2. Pays(h)
    BY <1>1 DEF Pays, Quiet
  <2> QED BY <2>1, <2>2, QuietCore
<1>2. ASSUME NEW l \in {"newparent", "link", "newuser", "map", "count"}, To(h, l),
             l = "newparent" => req[h].role = "parent",
             l = "link" => req[h].role = "parent" /\ parent # None,
             l \in {"newuser", "map", "count"} /\ req[h].role = "parent" => req[h].place \in links,
             req[h].pc \in {"local", "newuser"} /\ l # "newuser" => users[req[h].place] # None
      PROVE  Core' /\ Alone(h)
  <2>1. /\ ReqType' /\ Alone(h) /\ req'[h].pc = l
        /\ req'[h].code = req[h].code /\ req'[h].place = req[h].place
        /\ req'[h].role = req[h].role
    BY <1>2, Moved DEF RegSteps
  <2>2. Progress(h)
    BY DEF Flight, Relies
  <2>3. Progress(h)'
    BY <1>2, <2>1, <2>2 DEF Progress, Quiet
  <2>4. Relies(h)' /\ req'[h].pc # "matched"
    BY <2>1, <2>3 DEF Relies
  <2>5. Pays(h)
    BY <1>2, <2>1 DEF Pays, Registering, Quiet
  <2> QED BY <2>1, <2>4, <2>5, QuietCore
<1> QED BY <1>1, <1>2

\* What the steps of a registration find.
LEMMA Registered ==
  ASSUME Core, NEW h \in Handlers, req[h].pc \in RegSteps
  PROVE  /\ Types /\ Progress(h) /\ req[h] \in Reg /\ req[h].place \in Places
         /\ req[h].pw \in Passwords /\ req[h].role \in Roles
         /\ mapped \subseteq Schools /\ mailed \subseteq Mails
  BY ReqCases DEF Core, Types, TypeOK, Flight, Relies, Reg

LEMMA GetParentCore ==
  ASSUME Core, NEW h \in Handlers, GetParent(h)
  PROVE  Core' /\ Alone(h)
<1>1. req[h].pc = "parent" /\ req[h].pc \in RegSteps
  BY DEF GetParent, At, RegSteps
<1>2. /\ req[h].role = "parent" /\ mapped' \subseteq Schools /\ mailed' \subseteq Mails /\ Quiet
      /\ \A p \in Schools : ~Registering(h, p)
  BY <1>1, Registered DEF GetParent, Progress, Registering, Quiet, store, codes, history
<1>3. CASE parent = None
  BY <1>1, <1>2, <1>3, ReadCore DEF GetParent
<1>4. CASE parent # None /\ parent = req[h].pw
  BY <1>1, <1>2, <1>4, ReadCore DEF GetParent
<1>5. CASE parent # None /\ parent # req[h].pw
  BY <1>1, <1>2, <1>5, ReadCore DEF GetParent
<1> QED BY <1>3, <1>4, <1>5

LEMMA GetUserCore ==
  ASSUME Core, NEW h \in Handlers, GetUser(h)
  PROVE  Core' /\ Alone(h)
<1>1. req[h].pc \in {"local", "staff", "super"} /\ req[h].pc \in RegSteps
  BY DEF GetUser, RegSteps
<1>2. /\ req[h].role = "parent" => At(h, "local") /\ req[h].place \in links
      /\ mapped' \subseteq Schools /\ mailed' \subseteq Mails /\ Quiet
  BY <1>1, Registered DEF GetUser, Progress, At, Quiet, store, codes, history
<1>3. CASE users[req[h].place] = None
  BY <1>1, <1>2, <1>3, ReadCore DEF GetUser
<1>4. CASE users[req[h].place] # None /\ At(h, "local")
  BY <1>1, <1>2, <1>4, ReadCore DEF GetUser
<1>5. CASE users[req[h].place] # None /\ ~At(h, "local")
  <2>1. Reject(h) /\ \A p \in Schools : ~Registering(h, p)
    BY <1>1, <1>5 DEF GetUser, Registering, At
  <2> QED BY <1>1, <1>2, <2>1, ReadCore
<1> QED BY <1>3, <1>4, <1>5

LEMMA UpsertUserTenantMapCore ==
  ASSUME Core, NEW h \in Handlers, UpsertUserTenantMap(h)
  PROVE  Core' /\ Alone(h)
<1>1. req[h].pc = "map" /\ req[h].pc \in RegSteps /\ To(h, "count")
  BY DEF UpsertUserTenantMap, At, RegSteps
<1>2. /\ req[h].role = "parent" => req[h].place \in links
      /\ mapped' \subseteq Schools /\ mailed' \subseteq Mails /\ Quiet
  BY <1>1, Registered DEF UpsertUserTenantMap, Progress, Quiet, codes, history
<1> QED BY <1>1, <1>2, ReadCore

LEMMA CreateParentCore ==
  ASSUME Core, NEW h \in Handlers, CreateParent(h)
  PROVE  Core' /\ Alone(h)
<1> USE DEF Core
<1>1. /\ req[h].pc = "newparent" /\ req[h].pc \in RegSteps
      /\ UNCHANGED <<users, links, mapped, uses, active, mailed, challenge, held, cut, gone, stale>>
      /\ \A p \in Schools : ~Registering(h, p)
  BY DEF CreateParent, At, RegSteps, Registering, codes, history
<1>2. CASE parent # None
  <2>1. Reject(h) /\ Quiet /\ mapped' \subseteq Schools /\ mailed' \subseteq Mails
    BY <1>1, <1>2, Registered DEF CreateParent, Quiet
  <2> QED BY <1>1, <2>1, ReadCore
<1>3. CASE parent = None
  <2>1. parent' = req[h].pw /\ To(h, "link") /\ "link" \in RegSteps
    BY <1>3 DEF CreateParent, RegSteps
  <2>2. /\ ReqType' /\ Alone(h) /\ req'[h].pc = "link"
        /\ req'[h].code = req[h].code /\ req'[h].place = req[h].place
        /\ req'[h].role = req[h].role
    BY <1>1, <2>1, Moved
  <2>3. Types' /\ parent' # None
    BY <1>1, <2>1, <2>2, Registered, ConstantsAssumption DEF Types, TypeOK
  <2>4. Grows /\ KeepsDebts /\ Rows' /\ Pays(h)
    BY <1>1, <2>3 DEF Grows, KeepsDebts, Rows, Pays
  <2>5. Progress(h) /\ req[h].role = "parent"
    BY <1>1, Registered DEF Progress
  <2>6. Relies(h)'
    BY <1>1, <2>2, <2>3, <2>5 DEF Relies, Progress
  <2>7. \A p \in Places : p \in links' \/ Offered(p)' => p \in links \/ Offered(p) \/ Backed(p)'
    BY <1>1, <2>2, NoNewOffer
  <2> QED BY <1>1, <2>2, <2>3, <2>4, <2>6, <2>7, KeepsCore
<1> QED BY <1>2, <1>3

LEMMA AddParentTenantLinkCore ==
  ASSUME Core, NEW h \in Handlers, AddParentTenantLink(h)
  PROVE  Core' /\ Alone(h)
<1> USE DEF Core
<1>1. /\ req[h].pc = "link" /\ req[h].pc \in RegSteps
      /\ links' = links \cup {req[h].place} /\ To(h, "local")
      /\ UNCHANGED <<users, parent, mapped, uses, active, mailed, challenge, held, cut, gone, stale>>
      /\ \A p \in Schools : ~Registering(h, p)
  BY DEF AddParentTenantLink, At, RegSteps, Registering, codes, history
<1>2. /\ Progress(h) /\ req[h].role = "parent" /\ parent # None /\ req[h].place \in Schools
  BY <1>1, Registered DEF Progress, Places
<1>3. /\ ReqType' /\ Alone(h) /\ req'[h].pc = "local"
      /\ req'[h].code = req[h].code /\ req'[h].place = req[h].place
      /\ req'[h].role = req[h].role
  BY <1>1, Moved DEF RegSteps
<1>4. Types'
  BY <1>1, <1>2, <1>3 DEF Types, TypeOK
<1>5. Grows /\ KeepsDebts /\ Rows' /\ Pays(h)
  BY <1>1, <1>2 DEF Grows, KeepsDebts, Rows, Pays
<1>6. Relies(h)'
  BY <1>1, <1>2, <1>3 DEF Relies, Progress
<1>7. Backed(req[h].place)'
  BY <1>2, <1>3 DEF Backed, Registering
<1>8. \A p \in Places : p \in links' \/ Offered(p)' => p \in links \/ Offered(p) \/ Backed(p)'
  BY <1>1, <1>3, <1>7, NoNewOffer
<1> QED BY <1>1, <1>3, <1>4, <1>5, <1>6, <1>8, KeepsCore

LEMMA CreateUserCore ==
  ASSUME Core, NEW h \in Handlers, CreateUser(h)
  PROVE  Core' /\ Alone(h)
<1> USE DEF Core
<1>1. /\ req[h].pc = "newuser" /\ req[h].pc \in RegSteps
      /\ UNCHANGED <<parent, links, mapped, uses, active, mailed, challenge, held, stale>>
  BY DEF CreateUser, At, RegSteps, codes
<1>2. PICK p \in Places : p = req[h].place
  BY <1>1, Registered
<1>3. CASE users[p] # None
  <2>1. Reject(h) /\ Quiet /\ mapped' \subseteq Schools /\ mailed' \subseteq Mails
    BY <1>1, <1>2, <1>3, Registered DEF CreateUser, Quiet
  <2>2. \A x \in Schools : Registering(h, x) => users[x] # None
    BY <1>2, <1>3 DEF Registering
  <2> QED BY <1>1, <2>1, <2>2, ReadCore
<1>4. CASE users[p] = None
  <2>1. /\ users' = [users EXCEPT ![p] = [role |-> req[h].role, pw |-> req[h].pw]]
        /\ To(h, "map") /\ "map" \in RegSteps /\ cut' = cut \ {p} /\ gone' = gone \ {p}
    BY <1>2, <1>4 DEF CreateUser, RegSteps
  <2>2. /\ ReqType' /\ Alone(h) /\ req'[h].pc = "map"
        /\ req'[h].code = req[h].code /\ req'[h].place = p
        /\ req'[h].role = req[h].role
    BY <1>1, <1>2, <2>1, Moved
  <2>3. /\ users'[p] \in Row /\ users'[p] # None /\ users'[p].role = req[h].role
        /\ \A x \in Places \ {p} : users'[x] = users[x]
    BY <1>1, <2>1, Registered, ConstantsAssumption DEF Types, TypeOK, Row, Roles
  <2>4. Types'
    BY <1>1, <2>1, <2>2, <2>3 DEF Types, TypeOK
  <2>5. Grows /\ KeepsDebts
    BY <1>1, <1>4, <2>1, <2>3 DEF Grows, KeepsDebts
  <2>6. Pays(h)
    BY <1>2, <2>3 DEF Pays, Registering
  <2>7. /\ Progress(h) /\ (req[h].role = "super") = (p = Platform)
        /\ req[h].role = "parent" => p \in links
    BY <1>1, <1>2, Registered DEF Progress
  <2>8. Rows'
    BY <1>1, <2>3, <2>7 DEF Rows
  <2>9. Relies(h)'
    BY <1>1, <1>2, <2>2, <2>7 DEF Relies, Progress
  <2>10. \A x \in Places : x \in links' \/ Offered(x)' => x \in links \/ Offered(x) \/ Backed(x)'
    BY <1>1, <2>2, NoNewOffer
  <2> QED BY <1>1, <2>2, <2>4, <2>5, <2>6, <2>8, <2>9, <2>10, KeepsCore
<1> QED BY <1>3, <1>4

LEMMA FinishRegistrationCore ==
  ASSUME Core, NEW h \in Handlers, FinishRegistration(h)
  PROVE  Core' /\ Alone(h)
<1> USE DEF Core
<1>1. /\ req[h].pc = "count" /\ req[h].pc \in RegSteps /\ Reject(h)
      /\ held' = held \cup {[place |-> req[h].place, role |-> req[h].role]}
      /\ UNCHANGED <<users, parent, links, mapped, mailed, challenge, cut, gone, stale>>
  BY DEF FinishRegistration, At, RegSteps, store
<1>2. Progress(h) /\ req[h] \in Reg /\ req[h].place \in Places /\ req[h].role \in Roles
  BY <1>1, Registered
<1>3. ReqType' /\ Alone(h) /\ Relies(h)' /\ req'[h].pc # "matched"
  BY <1>1, Ended
<1>4. /\ uses' \in [Codes -> Nat \cup {None}] /\ active' \subseteq active
      /\ \A c \in Codes : uses[c] # None => uses'[c] # None
  <2>1. CASE req[h].code \notin Codes
    BY <2>1 DEF FinishRegistration, IncrementInvitationUses, Types, TypeOK
  <2>2. CASE req[h].code \in Codes
    <3>1. PICK c \in Codes : c = req[h].code
      BY <2>2
    <3>2. uses[c] \in Nat
      BY <1>1, <1>2, <3>1 DEF Progress, Types, TypeOK
    <3>3. uses' = [uses EXCEPT ![c] = uses[c] + 1] /\ active' \subseteq active
      BY <3>1 DEF FinishRegistration, IncrementInvitationUses
    <3>4. uses[c] + 1 \in Nat /\ uses[c] + 1 # None
      BY <3>2, ConstantsAssumption
    <3> QED BY <3>3, <3>4 DEF Types, TypeOK
  <2> QED BY <2>1, <2>2
<1>5. Types'
  BY <1>1, <1>2, <1>3, <1>4 DEF Types, TypeOK, Roles
<1>6. Grows /\ KeepsDebts /\ Rows'
  BY <1>1, <1>4 DEF Grows, KeepsDebts, Rows, Types, TypeOK
<1>7. Pays(h)
  BY <1>1 DEF Pays, Registering
<1>8. \A s \in held' \ held : Sound(s)'
  BY <1>1, <1>2 DEF Sound, Progress
<1>9. \A p \in Places : p \in links' \/ Offered(p)' => p \in links \/ Offered(p) \/ Backed(p)'
  BY <1>1, <1>3, NoNewOffer
<1> QED BY <1>3, <1>5, <1>6, <1>7, <1>8, <1>9, KeepsCore

-------------------------------------------------------------------------------
(* Login.                                                                   *)

\* A place whose password was verified has the account its session names.
LEMMA VerifiedIsSound ==
  ASSUME Core, NEW pw \in Passwords, NEW named \in Places \cup {None},
         NEW p \in Verified(pw, named)
  PROVE  /\ p \in Places /\ [place |-> p, role |-> LoginCandidate(p).role] \in Session
         /\ Sound([place |-> p, role |-> LoginCandidate(p).role]) /\ Backed(p)
<1> USE DEF Core
<1>1. p \in Places /\ LoginCandidate(p) # None
  BY DEF Verified, Verifies, LoginTenants, LegacyScan, Types, TypeOK, Places
<1>2. CASE parent # None /\ p \in links
  <2>1. LoginCandidate(p).role = "parent"
    BY <1>2 DEF LoginCandidate
  <2>2. p # Platform
    BY <1>2, ConstantsAssumption DEF Types, TypeOK
  <2> QED BY <1>1, <1>2, <2>1, <2>2 DEF Session, Roles, Sound, Owed
<1>3. CASE ~(parent # None /\ p \in links)
  <2>1. LoginCandidate(p) = users[p] /\ users[p] # None /\ users[p] \in Row
    BY <1>1, <1>3 DEF LoginCandidate, Types, TypeOK
  <2>2. /\ users[p].role \in Roles /\ (users[p].role = "parent" => p \in links)
        /\ (users[p].role = "super") = (p = Platform)
    BY <1>1, <2>1 DEF Row, Roles, Rows
  <2> QED BY <1>1, <2>1, <2>2 DEF Session, Sound, Backed
<1> QED BY <1>2, <1>3

LEMMA LoginCore ==
  ASSUME Core, NEW h \in Handlers, NEW pw \in Passwords, NEW named \in Places \cup {None},
         Login(h, pw, named)
  PROVE  Core' /\ Alone(h) /\ req'[h].pc = "matched"
<1> USE DEF Core
<1>1. /\ req[h].pc = "idle" /\ Quiet /\ mapped' = mapped /\ mailed' = mailed
      /\ \A p \in Schools : ~Registering(h, p)
  BY DEF Login, At, Registering, Quiet, store, codes, history
<1>2. PICK ms \in Matches(pw, named) :
        Goto(h, [pc |-> "matched", matched |-> ms, pw |-> pw])
  BY DEF Login
<1>3. \A m \in ms : \E p \in Verified(pw, named) : m = [place |-> p, role |-> LoginCandidate(p).role]
  BY <1>2 DEF Matches
<1>4. ASSUME NEW m \in ms
      PROVE  m \in Session /\ Sound(m) /\ Backed(m.place)
  BY <1>3, VerifiedIsSound
<1>5. [pc |-> "matched", matched |-> ms, pw |-> pw] \in Matched
  BY <1>4 DEF Matched
<1>6. /\ ReqType' /\ Alone(h) /\ req'[h].pc = "matched" /\ req'[h].matched = ms
  BY <1>2, <1>5, Enter
<1>7. Types'
  BY <1>1, <1>6 DEF Types, TypeOK, Quiet
<1>8. Grows /\ KeepsDebts /\ Rows' /\ Pays(h) /\ held' = held /\ links' = links
  BY <1>1, QuietKeeps DEF Pays
<1>9. Relies(h)'
  BY <1>1, <1>4, <1>6 DEF Relies, Progress, RegSteps, Sound, Quiet
<1>10. ASSUME NEW p \in Places, Offered(p)'
       PROVE  Offered(p) \/ Backed(p)'
  <2>1. CASE \E m \in ms : m.place = p
    BY <1>4, <1>6, <1>8, <2>1, KeepsBacked
  <2>2. CASE ~\E m \in ms : m.place = p
    BY <1>1, <1>6, <1>10, <2>2 DEF Offered, Alone, At, Quiet
  <2> QED BY <2>1, <2>2
<1> QED BY <1>6, <1>7, <1>8, <1>9, <1>10, KeepsCore

\* The login goes on in the steps of a registration, with no code to count.
LEMMA CompleteLoginCore ==
  ASSUME Core, NEW h \in Handlers, CompleteLogin(h)
  PROVE  Core' /\ Alone(h) /\ req'[h].code \notin Codes
<1> USE DEF Core
<1>1. /\ req[h].pc = "matched" /\ req[h] \in Matched /\ Relies(h)
      /\ Quiet /\ mapped' \subseteq Schools /\ mailed' \subseteq Mails
  BY ReqCases DEF CompleteLogin, At, Types, TypeOK, Flight, Quiet, store, codes, history
<1>2. PICK m \in req[h].matched :
        Goto(h, [pc |-> CASE m.role = "parent" -> "local" [] m.role = "staff" -> "map"
                          [] OTHER -> "count",
                 code |-> None, place |-> m.place, role |-> m.role, pw |-> req[h].pw])
  BY DEF CompleteLogin
<1>3. m \in Session /\ Sound(m) /\ m.place \in Places /\ m.role \in Roles /\ req[h].pw \in Passwords
  BY <1>1 DEF Matched, Relies, Session
<1>4. PICK l \in {"local", "map", "count"} :
        /\ l = CASE m.role = "parent" -> "local" [] m.role = "staff" -> "map" [] OTHER -> "count"
        /\ l = "local" => m.role = "parent"
  OBVIOUS
<1> DEFINE q == [pc |-> l, code |-> None, place |-> m.place, role |-> m.role, pw |-> req[h].pw]
<1>5. q \in Reg
  BY <1>3 DEF Reg, RegSteps
<1>6. Goto(h, q)
  BY <1>2, <1>4
<1>7. /\ q.pc = l /\ q.code = None /\ q.place = m.place /\ q.role = m.role
  OBVIOUS
<1> HIDE DEF q
<1>8. ReqType' /\ Alone(h) /\ req'[h] = q
  BY <1>5, <1>6, Enter
<1>9. Relies(h)'
  BY <1>1, <1>3, <1>4, <1>7, <1>8, ConstantsAssumption DEF Relies, Progress, Sound, Quiet
<1>10. Pays(h)
  BY <1>1 DEF Pays, Registering
<1> QED BY <1>1, <1>7, <1>8, <1>9, <1>10, QuietCore, ConstantsAssumption

\* The challenge offers the places that were matched.
LEMMA IssueCore ==
  ASSUME Core, NEW h \in Handlers, NEW k \in Challenges, IssueSelectionChallenge(h, k)
  PROVE  Core' /\ Alone(h) /\ req'[h].pc = "idle"
<1> USE DEF Core
<1> DEFINE P == {m.place : m \in req[h].matched}
<1>1. /\ req[h].pc = "matched" /\ req[h] \in Matched /\ Reject(h)
      /\ challenge' = [challenge EXCEPT ![k] = [matched |-> P, st |-> "open"]]
      /\ UNCHANGED <<users, parent, links, mapped, uses, active, mailed, held, cut, gone, stale>>
  BY ReqCases DEF IssueSelectionChallenge, At, Types, store, codes, history
<1>2. P \in SUBSET Places /\ \A p \in P : Offered(p)
  BY <1>1 DEF Matched, Session, Offered, At
<1> HIDE DEF P
<1>3. ReqType' /\ Alone(h) /\ Relies(h)' /\ req'[h].pc = "idle"
  BY <1>1, Ended
<1>4. /\ challenge'[k] = [matched |-> P, st |-> "open"]
      /\ \A x \in Challenges \ {k} : challenge'[x] = challenge[x]
  BY <1>1 DEF Types, TypeOK
<1>5. Types'
  BY <1>1, <1>2, <1>3 DEF Types, TypeOK
<1>6. Grows /\ KeepsDebts /\ Rows' /\ Pays(h)
  BY <1>1 DEF Grows, KeepsDebts, Rows, Pays, Registering
<1>7. \A p \in Places : p \in links' \/ Offered(p)' => p \in links \/ Offered(p) \/ Backed(p)'
  BY <1>1, <1>2, <1>3, <1>4 DEF Offered, At, Alone
<1> QED BY <1>1, <1>3, <1>5, <1>6, <1>7, KeepsCore

LEMMA RedeemCore ==
  ASSUME Core, NEW h \in Handlers, NEW k \in Challenges, NEW p \in Places,
         RedeemSelectionChallenge(h, k, p)
  PROVE  Core' /\ Alone(h) /\ req'[h].pc \in {"redeemed", "idle"}
<1> USE DEF Core
<1>1. /\ req[h].pc = "idle" /\ challenge' = [challenge EXCEPT ![k].st = "consumed"]
      /\ UNCHANGED <<users, parent, links, mapped, uses, active, mailed, held, cut, gone, stale>>
      /\ req' = req \/ Goto(h, [pc |-> "redeemed", place |-> p])
  BY DEF RedeemSelectionChallenge, At, store, codes, history
<1>2. ReqType' /\ Alone(h) /\ req'[h].pc \in {"redeemed", "idle"}
  BY <1>1 DEF Types, ReqType, Alone, Redeemed, Goto
<1>3. challenge'[k].st = "consumed" /\ \A x \in Challenges \ {k} : challenge'[x] = challenge[x]
  BY <1>1 DEF Types, TypeOK
<1>4. Types'
  BY <1>1, <1>2 DEF Types, TypeOK
<1>5. Grows /\ KeepsDebts /\ Rows' /\ Pays(h)
  BY <1>1 DEF Grows, KeepsDebts, Rows, Pays, Registering
<1>6. Relies(h)'
  BY <1>2 DEF Relies, Progress, RegSteps
<1>7. \A x \in Places : x \in links' \/ Offered(x)' => x \in links \/ Offered(x) \/ Backed(x)'
  BY <1>1, <1>2, <1>3, NoNewOffer
<1> QED BY <1>1, <1>2, <1>4, <1>5, <1>6, <1>7, KeepsCore

LEMMA LoginRedeemCore ==
  ASSUME Core, NEW h \in Handlers, LoginRedeem(h)
  PROVE  Core' /\ Alone(h) /\ req'[h].pc = "idle"
<1> USE DEF Core
<1>1. /\ req[h].pc = "redeemed" /\ req[h] \in Redeemed /\ Reject(h)
      /\ UNCHANGED <<users, parent, links, mapped, uses, active, mailed, challenge, cut, gone, stale>>
  BY ReqCases DEF LoginRedeem, At, Types, store, codes, history
<1>2. PICK p \in Places : p = req[h].place
  BY <1>1 DEF Redeemed
<1>3. ReqType' /\ Alone(h) /\ Relies(h)' /\ req'[h].pc = "idle"
  BY <1>1, Ended
<1>4. held \subseteq held'
  BY DEF LoginRedeem
<1>5. ASSUME NEW s \in held' \ held
      PROVE  s \in Session /\ Sound(s)
  <2>1. users[p] # None /\ s = [place |-> p, role |-> users[p].role]
    BY <1>2 DEF LoginRedeem
  <2>2. /\ users[p] \in Row /\ (users[p].role = "parent" => p \in links)
        /\ (users[p].role = "super") = (p = Platform)
    BY <2>1 DEF Types, TypeOK, Rows
  <2> QED BY <2>1, <2>2 DEF Session, Row, Roles, Sound
<1>6. Types'
  BY <1>1, <1>3, <1>5 DEF Types, TypeOK, Session, Roles
<1>7. Grows /\ KeepsDebts /\ Rows' /\ Pays(h)
  BY <1>1, <1>4 DEF Grows, KeepsDebts, Rows, Pays, Registering
<1>8. \A s \in held' \ held : Sound(s)'
  BY <1>1, <1>5 DEF Sound
<1>9. \A x \in Places : x \in links' \/ Offered(x)' => x \in links \/ Offered(x) \/ Backed(x)'
  BY <1>1, <1>3, NoNewOffer
<1> QED BY <1>3, <1>6, <1>7, <1>8, <1>9, KeepsCore

-------------------------------------------------------------------------------
(* Passwords, administrators, and the end of requests.                      *)

LEMMA ChangePasswordCore ==
  ASSUME Core, NEW h \in Handlers, NEW s \in held, NEW old \in Passwords, NEW pw \in Passwords,
         ChangePassword(h, s, old, pw)
  PROVE  Core' /\ Alone(h) /\ req'[h].pc = "change"
<1> USE DEF Core
<1>1. /\ req[h].pc = "idle" /\ Goto(h, [pc |-> "change", sess |-> s, pw |-> pw])
      /\ Quiet /\ mapped' \subseteq Schools /\ mailed' \subseteq Mails
      /\ s.role # "parent" => users[s.place] # None
  BY DEF ChangePassword, At, StoreHolds, Quiet, store, codes, history, Types, TypeOK
<1>2. s \in Session
  BY DEF Types, TypeOK, Session, Roles
<1>3. ReqType' /\ Alone(h) /\ req'[h].pc = "change" /\ req'[h].sess = s
  <2>1. [pc |-> "change", sess |-> s, pw |-> pw] \in Change
    BY <1>2 DEF Change
  <2> QED BY <1>1, <2>1, Enter
<1>4. Relies(h)'
  BY <1>1, <1>3 DEF Relies, Progress, RegSteps, Quiet
<1>5. Pays(h)
  BY <1>1 DEF Pays, Registering
<1> QED BY <1>1, <1>3, <1>4, <1>5, QuietCore

\* At most the row of p is written, with another password.
Repassed(p, pw) ==
  \/ users' = users
  \/ /\ users[p] # None /\ users' \in [Places -> Row \cup {None}]
     /\ users'[p] # None /\ users'[p].role = users[p].role /\ users'[p].pw = pw
     /\ \A x \in Places \ {p} : users'[x] = users[x]

\* A change of password keeps the core.
LEMMA WriteCore ==
  ASSUME Core, NEW h \in Handlers, NEW p \in Places, NEW pw \in Passwords,
         req[h].pc \in {"change", "mirror"}, Repassed(p, pw),
         UNCHANGED <<links, mapped, uses, active, mailed, challenge, held, cut, gone>>,
         parent' \in {parent, pw},
         ReqType', Alone(h), Relies(h)', req'[h].pc \in {"idle", "mirror"}
  PROVE  Core'
<1> USE DEF Core
<1>1. /\ \A x \in Places : users[x] = None => users'[x] = None
      /\ \A x \in Places : users[x] # None =>
           users'[x] # None /\ users'[x].role = users[x].role
      /\ users' \in [Places -> Row \cup {None}]
  BY DEF Repassed, Types, TypeOK
<1>2. Types' /\ (parent # None => parent' # None)
  BY <1>1, ConstantsAssumption DEF Types, TypeOK
<1>3. Grows /\ KeepsDebts /\ Rows' /\ Pays(h)
  BY <1>1, <1>2 DEF Grows, KeepsDebts, Rows, Pays, Registering
<1>4. \A x \in Places : x \in links' \/ Offered(x)' => x \in links \/ Offered(x) \/ Backed(x)'
  BY NoNewOffer
<1> QED BY <1>2, <1>3, <1>4, KeepsCore

\* The write of a new password, and who may then be left with a stale one.
LEMMA UpdatePasswordHashCore ==
  ASSUME Core, ChangedPasswordIsChecked, NEW h \in Handlers, UpdatePasswordHash(h)
  PROVE  /\ Core' /\ Alone(h) /\ req'[h].pc \in {"idle", "mirror"} /\ uses' = uses
         /\ ChangedPasswordIsChecked'
<1> USE DEF Core
<1>1. /\ req[h].pc = "change" /\ req[h] \in Change /\ Relies(h)
      /\ UNCHANGED <<links, mapped, uses, active, mailed, challenge, held, cut, gone>>
  BY ReqCases DEF UpdatePasswordHash, At, Types, Flight, codes
<1>2. PICK s \in Session, pw \in Passwords :
        /\ s = req[h].sess /\ pw = req[h].pw
        /\ WritePassword(s, pw)
        /\ stale' = IF Verifies(s.place, pw)' THEN stale \ {s.place} ELSE stale \cup {s.place}
        /\ IF s.role = "parent" THEN To(h, "mirror") ELSE Reject(h)
  BY <1>1 DEF UpdatePasswordHash, Change
<1>3. /\ s \in held /\ Sound(s) /\ s.place \in Places
      /\ s.role # "parent" => users[s.place] # None
  BY <1>1, <1>2 DEF Relies, Tokens, Session
<1>4. ReqType' /\ Alone(h) /\ Relies(h)' /\ req'[h].pc \in {"idle", "mirror"}
  <2>1. CASE s.role # "parent"
    BY <1>2, <2>1, Ended
  <2>2. CASE s.role = "parent"
    <3>1. Goto(h, [req[h] EXCEPT !.pc = "mirror"]) /\ [req[h] EXCEPT !.pc = "mirror"] \in Change
      BY <1>1, <1>2, <2>2 DEF To, Change
    <3>2. /\ ReqType' /\ Alone(h) /\ req'[h] = [req[h] EXCEPT !.pc = "mirror"]
      BY <3>1, Enter
    <3>3. req'[h].pc = "mirror" /\ req'[h].sess = s
      BY <1>1, <1>2, <3>2 DEF Change
    <3> QED BY <1>1, <1>3, <3>2, <3>3 DEF Relies, Progress, RegSteps
  <2> QED BY <2>1, <2>2
<1>5. parent' \in {parent, pw} /\ Repassed(s.place, pw)
  BY <1>2, <1>3, ConstantsAssumption DEF WritePassword, Repassed, Types, TypeOK, Row
<1>6. /\ s.role = "parent" => parent' = pw
      /\ s.role # "parent" => users'[s.place] # None /\ users'[s.place].pw = pw
  BY <1>2, <1>3, ConstantsAssumption DEF WritePassword, Types, TypeOK, Row
<1>7. Core'
  BY <1>1, <1>2, <1>3, <1>4, <1>5, WriteCore
<1>8. ASSUME ~Verifies(s.place, pw)'
      PROVE  s.place \in links /\ [place |-> s.place, role |-> "staff"] \in held
  <2>1. CASE s.role = "parent"
    <3>1. s.place \in links' /\ parent' = pw /\ parent' # None
      BY <1>1, <1>2, <1>3, <1>6, <2>1, ConstantsAssumption DEF Sound
    <3>2. PICK r \in Row : r = [role |-> "parent", pw |-> parent']
      BY <1>2, <3>1 DEF Row
    <3>3. r # None /\ r.pw = pw
      BY <3>1, <3>2, ConstantsAssumption
    <3>4. LoginCandidate(s.place)' = r
      BY <3>1, <3>2 DEF LoginCandidate
    <3>5. Verifies(s.place, pw)'
      BY <3>3, <3>4 DEF Verifies
    <3> QED BY <1>8, <3>5
  <2>2. CASE s.role # "parent"
    <3>1. s.place \in links
      BY <1>1, <1>6, <1>8, <2>2 DEF Verifies, LoginCandidate
    <3>2. s.role = "staff"
      BY <1>2, <1>3, <2>2, <3>1, ConstantsAssumption DEF Sound, Session, Roles, Types, TypeOK
    <3>3. s = [place |-> s.place, role |-> "staff"]
      BY <1>2, <3>2 DEF Session
    <3> QED BY <1>3, <3>1, <3>3
  <2> QED BY <2>1, <2>2
<1>9. ChangedPasswordIsChecked'
  BY <1>1, <1>2, <1>8 DEF ChangedPasswordIsChecked
<1> QED BY <1>1, <1>4, <1>7, <1>9

LEMMA UpdateMirrorCore ==
  ASSUME Core, NEW h \in Handlers, UpdateMirror(h)
  PROVE  Core' /\ Alone(h) /\ req'[h].pc = "idle"
<1> USE DEF Core
<1>1. /\ req[h].pc = "mirror" /\ req[h] \in Change /\ Reject(h)
      /\ UNCHANGED <<parent, links, mapped, uses, active, mailed, challenge, held, cut, gone, stale>>
  BY ReqCases DEF UpdateMirror, At, Types, codes, history
<1>2. PICK p \in Places, pw \in Passwords : p = req[h].sess.place /\ pw = req[h].pw
  BY <1>1 DEF Change, Session
<1>3. Repassed(p, pw)
  BY <1>2, ConstantsAssumption DEF UpdateMirror, Repassed, Types, TypeOK, Row
<1>4. ReqType' /\ Alone(h) /\ Relies(h)' /\ req'[h].pc = "idle"
  BY <1>1, Ended
<1> QED BY <1>1, <1>2, <1>3, <1>4, WriteCore

\* An invitation is mailed, or the mapping of a school is written or removed.
LEMMA AdminCore ==
  ASSUME Core, NEW h \in Handlers,
         \/ \E i \in Mails : CreateInvitationRecord(h, i)
         \/ InviteMap(h) \/ RemoveUserTenantMap(h)
  PROVE  Core' /\ Alone(h) /\ req'[h].pc \in {"idle", "invite"} /\ uses' = uses
<1> USE DEF Core
<1>1. ASSUME NEW i \in Mails, CreateInvitationRecord(h, i)
      PROVE  Core' /\ Alone(h) /\ req'[h].pc \in {"idle", "invite"} /\ uses' = uses
  <2>1. /\ req[h].pc = "idle" /\ Goto(h, [pc |-> "invite", place |-> MailOf[i].place])
        /\ Quiet /\ mapped' \subseteq Schools /\ mailed' \subseteq Mails
    BY <1>1 DEF CreateInvitationRecord, At, Quiet, store, history, Types, TypeOK
  <2>2. [pc |-> "invite", place |-> MailOf[i].place] \in Admin
    BY ConstantsAssumption DEF Admin
  <2>3. ReqType' /\ Alone(h) /\ req'[h].pc = "invite"
    BY <2>1, <2>2, Enter
  <2>4. Relies(h)' /\ Pays(h)
    BY <2>1, <2>3 DEF Relies, Progress, RegSteps, Pays, Registering
  <2> QED BY <2>1, <2>3, <2>4, QuietCore DEF Quiet
<1>2. ASSUME InviteMap(h) \/ RemoveUserTenantMap(h)
      PROVE  Core' /\ Alone(h) /\ req'[h].pc \in {"idle", "invite"} /\ uses' = uses
  <2>1. /\ req[h].pc \in {"invite", "unmap"} /\ Reject(h) /\ Quiet /\ mailed' \subseteq Mails
        /\ mapped' \subseteq mapped \cup {req[h].place}
    BY <1>2 DEF InviteMap, RemoveUserTenantMap, At, Quiet, codes, history, Types, TypeOK
  <2>2. mapped' \subseteq Schools
    BY <2>1, ReqCases DEF Types, TypeOK, Admin
  <2>3. ReqType' /\ Alone(h) /\ Relies(h)' /\ req'[h].pc = "idle"
    BY <2>1, Ended
  <2>4. Pays(h)
    BY <2>1 DEF Pays, Registering
  <2> QED BY <2>1, <2>2, <2>3, <2>4, QuietCore DEF Quiet
<1> QED BY <1>1, <1>2

\* A row is deleted: a change of password that had verified it ends with it.
LEMMA DeleteUserCore ==
  ASSUME Core, NEW h \in Handlers, NEW p \in Schools, DeleteUser(h, p)
  PROVE  /\ Core' /\ uses' = uses
         /\ \A g \in Handlers : req'[g] = req[g] \/ req'[g].pc \in {"idle", "unmap"}
<1> USE DEF Core
<1>1. /\ req[h].pc = "idle" /\ users' = [users EXCEPT ![p] = None]
      /\ gone' = IF p \in links \/ Offered(p) THEN gone \cup {p} ELSE gone
      /\ UNCHANGED <<parent, links, mapped, uses, active, mailed, challenge, held, cut>>
  BY DEF DeleteUser, At, codes
<1> DEFINE Hit(g) == At(g, "change") /\ req[g].sess.role # "parent" /\ req[g].sess.place = p
<1>2. \A g \in Handlers :
        req'[g] = IF g = h THEN [pc |-> "unmap", place |-> p] ELSE IF Hit(g) THEN Idle ELSE req[g]
  BY DEF DeleteUser
<1>3. ReqType'
  <2>1. [pc |-> "unmap", place |-> p] \in Admin
    BY DEF Admin
  <2>2. req' = [g \in Handlers |-> IF g = h THEN [pc |-> "unmap", place |-> p]
                                   ELSE IF Hit(g) THEN Idle ELSE req[g]]
    BY DEF DeleteUser
  <2> HIDE DEF Hit
  <2> QED BY <2>1, <2>2 DEF Types, ReqType
<1>4. p \in Places /\ users'[p] = None /\ \A x \in Places \ {p} : users'[x] = users[x]
  BY <1>1 DEF Types, TypeOK, Places
<1>5. Types' /\ Rows'
  BY <1>1, <1>3, <1>4 DEF Types, TypeOK, Rows
<1>6. Grows
  BY <1>1 DEF Grows
<1>7. Flight'
  <2> SUFFICES ASSUME NEW g \in Handlers
               PROVE  Relies(g)'
    BY DEF Flight
  <2>1. CASE g = h \/ Hit(g)
    <3>1. req'[g].pc \in {"unmap", "idle"}
      BY <1>2, <2>1 DEF Idle
    <3> QED BY <3>1 DEF Relies, Progress, RegSteps
  <2>2. CASE g # h /\ ~Hit(g)
    <3>1. req'[g] = req[g] /\ Relies(g)
      BY <1>2, <2>2 DEF Flight
    <3>2. ASSUME req[g].pc = "change", req[g].sess.role # "parent"
          PROVE  users'[req[g].sess.place] # None
      BY <1>4, <2>2, <3>1, <3>2, ReqCases DEF At, Relies, Types, Change, Session
    <3> QED BY <1>6, <3>1, <3>2, KeepsRelies
  <2> QED BY <2>1, <2>2
<1>8. \A g \in Handlers : req'[g] = req[g] \/ req'[g].pc \in {"idle", "unmap"}
  BY <1>2 DEF Idle
<1>9. \A x : Offered(x)' => Offered(x)
  BY <1>1, <1>8 DEF Offered, At
<1>10. \A x \in Schools, g \in Handlers : Registering(g, x) => Registering(g, x)'
  BY <1>1, <1>2 DEF Registering, At
<1>11. Owed'
  BY <1>1, <1>4, <1>9, <1>10 DEF Owed, Backed
<1>12. Tokens'
  BY <1>1 DEF Tokens, Sound
<1> QED BY <1>1, <1>5, <1>7, <1>8, <1>11, <1>12

LEMMA StopCore ==
  ASSUME Core, NEW h \in Handlers, Stop(h)
  PROVE  Core' /\ Alone(h) /\ req'[h].pc = "idle" /\ uses' = uses
<1> USE DEF Core
<1>1. /\ Reject(h) /\ cut' = cut \cup {p \in Schools : Registering(h, p) /\ users[p] = None}
      /\ UNCHANGED <<users, parent, links, mapped, uses, active, mailed, challenge, held, gone>>
  BY DEF Stop, store, codes
<1>2. ReqType' /\ Alone(h) /\ Relies(h)' /\ req'[h].pc = "idle"
  BY <1>1, Ended
<1>3. Types'
  BY <1>1, <1>2 DEF Types, TypeOK
<1>4. Grows /\ KeepsDebts /\ Rows' /\ Pays(h)
  BY <1>1 DEF Grows, KeepsDebts, Rows, Pays
<1>5. \A p \in Places : p \in links' \/ Offered(p)' => p \in links \/ Offered(p) \/ Backed(p)'
  BY <1>1, <1>2, NoNewOffer
<1> QED BY <1>1, <1>2, <1>3, <1>4, <1>5, KeepsCore

\* What happens beside the requests: nothing they rely on is lost.
LEMMA BesideCore ==
  ASSUME Core, req' = req, TypeOK', Grows, UNCHANGED <<users, parent, links, held, cut, gone>>,
         \A c \in active' : uses'[c] # None,
         \A k \in Challenges : challenge'[k] = challenge[k] \/ challenge'[k].st # "open"
  PROVE  Core'
<1> USE DEF Core
<1>1. Types' /\ Rows'
  BY DEF Types, ReqType, Rows
<1>2. Flight'
  <2> SUFFICES ASSUME NEW h \in Handlers
               PROVE  Relies(h)'
    BY DEF Flight
  <2> QED BY KeepsRelies DEF Flight, Relies
<1>3. Tokens' /\ Owed'
  BY DEF Tokens, Sound, Owed, Backed, Registering, Offered, At
<1> QED BY <1>1, <1>2, <1>3

LEMMA InvitationCore ==
  ASSUME Core, NEW c \in Codes, CreateInvitation(c) \/ ExpireInvitation(c)
  PROVE  Core' /\ req' = req
<1> USE DEF Core
<1>1. /\ UNCHANGED <<users, parent, links, mapped, mailed, challenge, held, req, cut, gone, stale>>
      /\ uses' \in [Codes -> Nat \cup {None}] /\ active' \subseteq Codes
      /\ \A x \in Codes : uses[x] # None => uses'[x] # None
      /\ \A x \in active' : uses'[x] # None
  <2>1. CASE CreateInvitation(c)
    BY <2>1, ConstantsAssumption DEF CreateInvitation, store, history, Types, TypeOK, Rows
  <2>2. CASE ExpireInvitation(c)
    BY <2>2 DEF ExpireInvitation, store, history, Types, TypeOK, Rows
  <2> QED BY <2>1, <2>2
<1>2. TypeOK' /\ Grows
  BY <1>1 DEF Types, TypeOK, Grows
<1> QED BY <1>1, <1>2, BesideCore

LEMMA ExpireChallengeCore ==
  ASSUME Core, NEW k \in Challenges, ExpireChallenge(k)
  PROVE  Core' /\ req' = req /\ uses' = uses
<1> USE DEF Core
<1>1. /\ challenge' = [challenge EXCEPT ![k].st = "expired"]
      /\ UNCHANGED <<users, parent, links, mapped, uses, active, mailed, held, req, cut, gone, stale>>
  BY DEF ExpireChallenge, store, codes, history
<1>2. challenge'[k].st = "expired" /\ \A x \in Challenges \ {k} : challenge'[x] = challenge[x]
  BY <1>1 DEF Types, TypeOK
<1>3. TypeOK' /\ Grows /\ \A c \in active' : uses'[c] # None
  BY <1>1 DEF Types, TypeOK, Grows, Rows
<1> QED BY <1>1, <1>2, <1>3, BesideCore

-------------------------------------------------------------------------------
(* The count of an invitation's uses.                                       *)

LEMMA UsingIsFinite ==
  \A c \in Codes : /\ IsFiniteSet(Using(c)) /\ Cardinality(Using(c)) \in Nat
                   /\ Cardinality(Using(c)) <= Cardinality(Handlers)
<1> SUFFICES ASSUME NEW c \in Codes
             PROVE  /\ IsFiniteSet(Using(c)) /\ Cardinality(Using(c)) \in Nat
                    /\ Cardinality(Using(c)) <= Cardinality(Handlers)
  OBVIOUS
<1>1. Using(c) \in SUBSET Handlers
  BY DEF Using
<1> QED BY <1>1, FS_Subset, FS_CardinalityType, ConstantsAssumption

LEMMA HandlersCount == Cardinality(Handlers) \in Nat /\ Cardinality(Handlers) >= 1
  BY FS_CardinalityType, FS_EmptySet, ConstantsAssumption

\* Fewer requests hold a code that was not counted meanwhile.
LEMMA CountedShrinks ==
  ASSUME Types, Counted, uses' = uses, \A c \in Codes : Using(c)' \subseteq Using(c)
  PROVE  Counted'
<1> SUFFICES ASSUME NEW c \in Codes
             PROVE  /\ uses'[c] = None => Using(c)' = {}
                    /\ uses'[c] # None =>
                         uses'[c] + Cardinality(Using(c)') <= CodeOf[c].max + Cardinality(Handlers) - 1
  BY DEF Counted
<1>1. PICK S \in SUBSET Using(c) : S = Using(c)'
  OBVIOUS
<1>2. IsFiniteSet(Using(c)) /\ Cardinality(Using(c)) \in Nat
  BY UsingIsFinite
<1>3. IsFiniteSet(S) /\ Cardinality(S) <= Cardinality(Using(c)) /\ Cardinality(S) \in Nat
  BY <1>2, FS_Subset, FS_CardinalityType
<1>4. uses[c] # None => uses[c] \in Nat
  BY DEF Types, TypeOK
<1>5. CodeOf[c].max \in Nat
  BY ConstantsAssumption
<1> QED BY <1>1, <1>2, <1>3, <1>4, <1>5, HandlersCount DEF Counted

LEMMA UsingShrinks ==
  ASSUME Types, Counted, uses' = uses,
         \A h \in Handlers :
           \/ req'[h].pc \notin RegSteps \/ req'[h].code \notin Codes
           \/ req[h].pc \in RegSteps /\ req'[h].code = req[h].code
  PROVE  Counted'
<1>1. \A c \in Codes : Using(c)' \subseteq Using(c)
  BY DEF Using
<1> QED BY <1>1, CountedShrinks

\* Only h moves, and it holds the code it held, or none.
LEMMA AloneCounted ==
  ASSUME Types, Counted, uses' = uses, NEW h \in Handlers, Alone(h),
         \/ req'[h].pc \notin RegSteps \/ req'[h].code \notin Codes
         \/ req[h].pc \in RegSteps /\ req'[h].code = req[h].code
  PROVE  Counted'
<1>1. \A g \in Handlers :
        \/ req'[g].pc \notin RegSteps \/ req'[g].code \notin Codes
        \/ req[g].pc \in RegSteps /\ req'[g].code = req[g].code
  BY DEF Alone
<1> QED BY <1>1, UsingShrinks

LEMMA RegisterCounted ==
  ASSUME Core, Counted, NEW h \in Handlers, NEW d \in Codes, Alone(h), uses' = uses,
         Usable(d), req[h].pc = "idle", req'[h].code = d
  PROVE  Counted'
<1> SUFFICES ASSUME NEW c \in Codes
             PROVE  /\ uses'[c] = None => Using(c)' = {}
                    /\ uses'[c] # None =>
                         uses'[c] + Cardinality(Using(c)') <= CodeOf[c].max + Cardinality(Handlers) - 1
  BY DEF Counted
<1>1. CASE c # d
  <2>1. Using(c)' = Using(c)
    BY <1>1 DEF Using, Alone, RegSteps
  <2> QED BY <2>1 DEF Counted
<1>2. CASE c = d
  <2>1. uses[c] \in Nat /\ CodeOf[c].max \in Nat /\ uses[c] < CodeOf[c].max
    BY <1>2, ConstantsAssumption DEF Usable, Core, Types, TypeOK, Rows
  <2>2. PICK S \in SUBSET Handlers : S = Using(c)'
    BY DEF Using
  <2>3. Cardinality(S) \in Nat /\ Cardinality(S) <= Cardinality(Handlers)
    BY FS_Subset, FS_CardinalityType, ConstantsAssumption
  <2>4. uses[c] # None
    BY <1>2 DEF Usable, Core, Rows
  <2> QED BY <2>1, <2>2, <2>3, <2>4, HandlersCount
<1> QED BY <1>1, <1>2

LEMMA FinishCounted ==
  ASSUME Core, Counted, NEW h \in Handlers, Alone(h), FinishRegistration(h)
  PROVE  Counted'
<1>1. req[h].pc \in RegSteps /\ req[h] \in Reg /\ req'[h].pc \notin RegSteps
  <2>1. req[h].pc = "count" /\ Reject(h) /\ Types
    BY DEF FinishRegistration, At, Core
  <2> QED BY <2>1, Ended, ReqCases DEF Types, RegSteps
<1>2. CASE req[h].code \notin Codes
  BY <1>1, <1>2, AloneCounted DEF FinishRegistration, IncrementInvitationUses, Core
<1>3. CASE req[h].code \in Codes
  <2>1. PICK d \in Codes : d = req[h].code
    BY <1>3
  <2>2. uses' = [uses EXCEPT ![d] = @ + 1]
    BY <2>1 DEF FinishRegistration, IncrementInvitationUses
  <2>3. uses[d] # None /\ uses[d] \in Nat
    BY <1>1, <1>3, <2>1 DEF Core, Flight, Relies, Progress, Types, TypeOK
  <2> SUFFICES ASSUME NEW c \in Codes
               PROVE  /\ uses'[c] = None => Using(c)' = {}
                      /\ uses'[c] # None =>
                           uses'[c] + Cardinality(Using(c)') <= CodeOf[c].max + Cardinality(Handlers) - 1
    BY DEF Counted
  <2>4. CASE c # d
    <3>1. Using(c)' = Using(c)
      BY <1>1, <2>1, <2>4 DEF Using, Alone
    <3>2. uses'[c] = uses[c]
      BY <2>2, <2>4 DEF Core, Types, TypeOK
    <3> QED BY <3>1, <3>2 DEF Counted
  <2>5. CASE c = d
    <3>1. Using(c)' = Using(c) \ {h} /\ h \in Using(c)
      BY <1>1, <2>1, <2>5 DEF Using, Alone
    <3>2. PICK S : S = Using(c) /\ IsFiniteSet(S) /\ Cardinality(S) \in Nat
      BY UsingIsFinite
    <3>3. Cardinality(S \ {h}) = Cardinality(S) - 1
      BY <3>1, <3>2, FS_RemoveElement
    <3>4. uses'[c] = uses[c] + 1
      BY <2>2, <2>5 DEF Core, Types, TypeOK
    <3>5. uses[c] + Cardinality(S) <= CodeOf[c].max + Cardinality(Handlers) - 1
      BY <2>3, <2>5, <3>2 DEF Counted
    <3>6. uses'[c] # None /\ uses[c] \in Nat
      BY <2>3, <2>5, <3>4, ConstantsAssumption
    <3> QED BY <3>1, <3>2, <3>3, <3>4, <3>5, <3>6
  <2> QED BY <2>4, <2>5
<1> QED BY <1>2, <1>3

LEMMA InvitationCounted ==
  ASSUME Types, Counted, NEW d \in Codes, CreateInvitation(d) \/ ExpireInvitation(d)
  PROVE  Counted'
<1>1. \A c \in Codes : Using(c)' = Using(c)
  BY DEF CreateInvitation, ExpireInvitation, Using
<1>2. CASE ExpireInvitation(d)
  BY <1>1, <1>2, CountedShrinks DEF ExpireInvitation
<1>3. CASE CreateInvitation(d)
  <2> SUFFICES ASSUME NEW c \in Codes
               PROVE  /\ uses'[c] = None => Using(c)' = {}
                      /\ uses'[c] # None =>
                           uses'[c] + Cardinality(Using(c)') <= CodeOf[c].max + Cardinality(Handlers) - 1
    BY DEF Counted
  <2>1. CASE c # d
    <3>1. uses'[c] = uses[c]
      BY <1>3, <2>1 DEF CreateInvitation, Types, TypeOK
    <3> QED BY <1>1, <3>1 DEF Counted
  <2>2. CASE c = d
    <3>1. uses'[c] = 0 /\ Using(c)' = {}
      BY <1>1, <1>3, <2>2 DEF CreateInvitation, Types, TypeOK, Counted
    <3>2. CodeOf[c].max \in Nat
      BY ConstantsAssumption
    <3> QED BY <3>1, <3>2, HandlersCount, FS_EmptySet, ConstantsAssumption
  <2> QED BY <2>1, <2>2
<1> QED BY <1>2, <1>3

\* A registration under way moves on with its code, or ends.
LEMMA RegistrationCounted ==
  ASSUME Types, Counted, NEW h \in Handlers, uses' = uses, req[h].pc \in RegSteps,
         Reject(h) \/ \E l \in RegSteps : To(h, l)
  PROVE  Counted'
<1>1. ASSUME Reject(h) PROVE Counted'
  <2>1. Alone(h) /\ req'[h].pc \notin RegSteps
    BY <1>1, Ended DEF RegSteps
  <2> QED BY <2>1, AloneCounted
<1>2. ASSUME NEW l \in RegSteps, To(h, l) PROVE Counted'
  <2>1. Alone(h) /\ req'[h].code = req[h].code
    BY <1>2, Moved
  <2> QED BY <2>1, AloneCounted
<1> QED BY <1>1, <1>2

-------------------------------------------------------------------------------
(* The invariant.                                                           *)

LEMMA InitInv == Init => IInv
<1> SUFFICES ASSUME Init PROVE IInv
  OBVIOUS
<1>1. Types
  BY DEF Init, Types, TypeOK, ReqType, Places
<1>2. \A h \in Handlers : req[h].pc = "idle"
  BY DEF Init, Idle
<1>3. Rows /\ Tokens /\ ChangedPasswordIsChecked
  BY DEF Init, Rows, Tokens, ChangedPasswordIsChecked, Places
<1>4. Flight /\ Owed
  BY <1>2 DEF Init, Flight, Relies, Progress, RegSteps, Owed, Offered, At
<1>5. Counted
  BY <1>2, ConstantsAssumption DEF Init, Counted, Using, RegSteps
<1> QED BY <1>1, <1>3, <1>4, <1>5 DEF IInv, Core

\* Links and sessions stay, so a step that changes no password keeps the promise.
LEMMA StaleSame ==
  ASSUME ChangedPasswordIsChecked, stale' = stale, links \subseteq links', held \subseteq held'
  PROVE  ChangedPasswordIsChecked'
  BY DEF ChangedPasswordIsChecked

LEMMA RegistrationStale ==
  ASSUME ChangedPasswordIsChecked, NEW h \in Handlers, RegistrationStep(h)
  PROVE  ChangedPasswordIsChecked'
<1>1. stale' = stale /\ links \subseteq links' /\ held \subseteq held'
  <2>1. CASE \E pw \in Passwords : \/ \E c \in Codes : Register(h, c, pw)
                                   \/ \E i \in Mails : RegisterInvited(h, i, pw)
                                   \/ \E p \in Schools : RegisterWithPass(h, p, pw)
    BY <2>1 DEF Register, RegisterInvited, RegisterWithPass, store, history
  <2>2. CASE GetParent(h) \/ GetUser(h) \/ CreateParent(h) \/ CreateUser(h)
    BY <2>2 DEF GetParent, GetUser, CreateParent, CreateUser, store, history
  <2>3. CASE AddParentTenantLink(h) \/ UpsertUserTenantMap(h) \/ FinishRegistration(h)
    BY <2>3 DEF AddParentTenantLink, UpsertUserTenantMap, FinishRegistration, store, history
  <2> QED BY <2>1, <2>2, <2>3 DEF RegistrationStep
<1> QED BY <1>1, StaleSame

LEMMA OtherStale ==
  ASSUME ChangedPasswordIsChecked, NEW h \in Handlers,
         (LoginStep(h) /\ ~UpdatePasswordHash(h)) \/ AdminStep(h) \/ Stop(h)
  PROVE  ChangedPasswordIsChecked'
<1>1. stale' = stale /\ links \subseteq links' /\ held \subseteq held'
  <2>1. CASE LoginStep(h) /\ ~UpdatePasswordHash(h)
    BY <2>1 DEF LoginStep, Login, CompleteLogin, IssueSelectionChallenge,
      RedeemSelectionChallenge, LoginRedeem, ChangePassword, UpdateMirror, store, history
  <2>2. CASE AdminStep(h) \/ Stop(h)
    BY <2>2 DEF AdminStep, CreateInvitationRecord, InviteMap, DeleteUser, RemoveUserTenantMap,
      Stop, store, history
  <2> QED BY <2>1, <2>2
<1> QED BY <1>1, StaleSame

LEMMA RegistrationInv ==
  ASSUME IInv, NEW h \in Handlers, RegistrationStep(h)
  PROVE  IInv'
<1>1. Core /\ Types /\ Counted
  BY DEF IInv, Core
<1> SUFFICES Core' /\ Counted'
  BY RegistrationStale DEF IInv
<1>2. ASSUME NEW pw \in Passwords, NEW c \in Codes, Register(h, c, pw) PROVE Core' /\ Counted'
  <2>1. Core' /\ Alone(h) /\ Usable(c) /\ req[h].pc = "idle" /\ req'[h].code = c
    BY <1>1, <1>2, RegisterCore
  <2>2. uses' = uses
    BY <1>2 DEF Register, codes
  <2> QED BY <1>1, <2>1, <2>2, RegisterCounted
<1>3. ASSUME NEW pw \in Passwords,
             \/ \E i \in Mails : RegisterInvited(h, i, pw)
             \/ \E p \in Schools : RegisterWithPass(h, p, pw)
      PROVE  Core' /\ Counted'
  <2>1. Core' /\ Alone(h) /\ req'[h].code \notin Codes
    BY <1>1, <1>3, RegisterUncountedCore
  <2>2. uses' = uses
    BY <1>3 DEF RegisterInvited, RegisterWithPass, codes
  <2> QED BY <1>1, <2>1, <2>2, AloneCounted
<1>4. CASE GetParent(h) \/ CreateParent(h) \/ AddParentTenantLink(h)
  <2>1. /\ uses' = uses /\ req[h].pc \in RegSteps
        /\ Reject(h) \/ \E l \in RegSteps : To(h, l)
    BY <1>4 DEF GetParent, CreateParent, AddParentTenantLink, At, RegSteps, codes
  <2> QED BY <1>1, <1>4, <2>1, GetParentCore, CreateParentCore, AddParentTenantLinkCore,
        RegistrationCounted
<1>5. CASE GetUser(h) \/ CreateUser(h) \/ UpsertUserTenantMap(h)
  <2>1. /\ uses' = uses /\ req[h].pc \in RegSteps
        /\ Reject(h) \/ \E l \in RegSteps : To(h, l)
    BY <1>5 DEF GetUser, CreateUser, UpsertUserTenantMap, At, RegSteps, codes
  <2> QED BY <1>1, <1>5, <2>1, GetUserCore, CreateUserCore, UpsertUserTenantMapCore,
        RegistrationCounted
<1>6. CASE FinishRegistration(h)
  BY <1>1, <1>6, FinishRegistrationCore, FinishCounted
<1> QED BY <1>2, <1>3, <1>4, <1>5, <1>6 DEF RegistrationStep

LEMMA LoginInv ==
  ASSUME IInv, NEW h \in Handlers, LoginStep(h)
  PROVE  IInv'
<1>1. Core /\ Types /\ Counted /\ ChangedPasswordIsChecked
  BY DEF IInv, Core
<1>2. uses' = uses
  BY DEF LoginStep, Login, CompleteLogin, IssueSelectionChallenge, RedeemSelectionChallenge,
    LoginRedeem, ChangePassword, UpdatePasswordHash, UpdateMirror, codes
<1> SUFFICES /\ Core' /\ Alone(h) /\ ChangedPasswordIsChecked'
             /\ \/ req'[h].pc \in {"idle", "matched", "redeemed", "change", "mirror"}
                \/ req'[h].code \notin Codes
  BY <1>1, <1>2, AloneCounted DEF IInv, RegSteps
<1>3. CASE UpdatePasswordHash(h)
  BY <1>1, <1>3, UpdatePasswordHashCore
<1>4. CASE ~UpdatePasswordHash(h)
  <2>1. ChangedPasswordIsChecked'
    BY <1>1, <1>4, OtherStale
  <2> QED BY <1>1, <1>4, <2>1, LoginCore, CompleteLoginCore, IssueCore, RedeemCore,
        LoginRedeemCore, ChangePasswordCore, UpdateMirrorCore DEF LoginStep
<1> QED BY <1>3, <1>4

LEMMA AdminInv ==
  ASSUME IInv, NEW h \in Handlers, AdminStep(h) \/ Stop(h)
  PROVE  IInv'
<1>1. Core /\ Types /\ Counted /\ ChangedPasswordIsChecked'
  BY OtherStale DEF IInv, Core
<1>2. ASSUME NEW p \in Schools, DeleteUser(h, p) PROVE Core' /\ Counted'
  <2>1. /\ Core' /\ uses' = uses
        /\ \A g \in Handlers : req'[g] = req[g] \/ req'[g].pc \in {"idle", "unmap"}
    BY <1>1, <1>2, DeleteUserCore
  <2> QED BY <1>1, <2>1, UsingShrinks DEF RegSteps
<1>3. CASE ~\E p \in Schools : DeleteUser(h, p)
  <2>1. Core' /\ Alone(h) /\ req'[h].pc \in {"idle", "invite"} /\ uses' = uses
    BY <1>1, <1>3, AdminCore, StopCore DEF AdminStep
  <2> QED BY <1>1, <2>1, AloneCounted DEF IInv, RegSteps
<1> QED BY <1>1, <1>2, <1>3 DEF IInv

LEMMA OutsideInv ==
  ASSUME IInv,
         \/ \E c \in Codes : CreateInvitation(c) \/ ExpireInvitation(c)
         \/ \E k \in Challenges : ExpireChallenge(k)
         \/ UNCHANGED vars
  PROVE  IInv'
<1>1. Core /\ Types /\ Counted /\ ChangedPasswordIsChecked
  BY DEF IInv, Core
<1>2. ChangedPasswordIsChecked'
  BY <1>1, StaleSame DEF CreateInvitation, ExpireInvitation, ExpireChallenge, store, history, vars
<1>3. ASSUME NEW c \in Codes, CreateInvitation(c) \/ ExpireInvitation(c) PROVE Core' /\ Counted'
  BY <1>1, <1>3, InvitationCore, InvitationCounted
<1>4. ASSUME NEW k \in Challenges, ExpireChallenge(k) PROVE Core' /\ Counted'
  <2>1. Core' /\ req' = req /\ uses' = uses
    BY <1>1, <1>4, ExpireChallengeCore
  <2>2. \A c \in Codes : Using(c)' \subseteq Using(c)
    BY <2>1 DEF Using
  <2> QED BY <1>1, <2>1, <2>2, CountedShrinks
<1>5. ASSUME UNCHANGED vars PROVE Core' /\ Counted'
  <2>1. UNCHANGED <<users, parent, links, mapped, uses, active, mailed, challenge, held, req,
                    cut, gone, stale>>
    BY <1>5 DEF vars, store, codes, history
  <2>2. TypeOK' /\ Grows /\ \A c \in active' : uses'[c] # None
    BY <1>1, <2>1 DEF Types, TypeOK, Grows, Core, Rows
  <2>3. Counted'
    BY <1>1, <2>1, CountedShrinks DEF Using
  <2> QED BY <1>1, <2>1, <2>2, <2>3, BesideCore
<1> QED BY <1>2, <1>3, <1>4, <1>5 DEF IInv

\* The inductive invariant holds throughout, whatever the requests interleave.
THEOREM Invariant == Spec => []IInv
<1>1. Init => IInv
  BY InitInv
<1>2. IInv /\ [Next]_vars => IInv'
  BY RegistrationInv, LoginInv, AdminInv, OutsideInv DEF Next
<1> QED BY <1>1, <1>2, PTL DEF Spec

\* The tables keep their domains: no registration, login or deletion writes
\* anything else.
THEOREM TypeCorrect == Spec => []TypeOK
<1>1. IInv => TypeOK
  BY DEF IInv, Core, Types
<1> QED BY <1>1, Invariant, PTL

\* However many registrations race on a row of invitations, it is overused by
\* fewer uses than there are requests in flight.  (A mailed invitation has no
\* such bound.)
THEOREM OveruseBound == Spec => []OveruseIsBounded
<1>1. IInv => OveruseIsBounded
  <2> SUFFICES ASSUME IInv, NEW c \in Codes, uses[c] # None
               PROVE  uses[c] <= CodeOf[c].max + Cardinality(Handlers) - 1
    BY DEF OveruseIsBounded
  <2>1. uses[c] \in Nat /\ CodeOf[c].max \in Nat
    BY ConstantsAssumption DEF IInv, Core, Types, TypeOK
  <2>2. uses[c] + Cardinality(Using(c)) <= CodeOf[c].max + Cardinality(Handlers) - 1
    BY DEF IInv, Counted
  <2> QED BY <2>1, <2>2, UsingIsFinite, HandlersCount
<1> QED BY <1>1, Invariant, PTL

\* A place that an open challenge offers has the local account that the
\* redemption resolves, unless a request still owes it, was cut short before
\* it wrote it, or the account was deleted where a link, a login or a
\* challenge still led.
THEOREM OffersWork == Spec => []OfferedPlacesWork
<1>1. IInv => OfferedPlacesWork
  BY DEF IInv, Core, Types, TypeOK, Owed, Offered, Backed, OfferedPlacesWork
<1> QED BY <1>1, Invariant, PTL

\* A changed password that login does not accept belongs to a linked parent
\* who has a staff session at the same school.
THEOREM ChangedPasswords == Spec => []ChangedPasswordIsChecked
<1>1. IInv => ChangedPasswordIsChecked
  BY DEF IInv
<1> QED BY <1>1, Invariant, PTL
===============================================================================
