------------------------------- MODULE Accounts -------------------------------
(***************************************************************************)
(* AuthService: registration with an invitation, login with the choice of  *)
(* a school, the single-use selection challenge, and the change of a       *)
(* password, for one e-mail address whose accounts administrators delete.  *)
(*                                                                         *)
(* An address may own three kinds of record: a row of users in the schema  *)
(* of each school, one control-plane row of parents for all schools it is  *)
(* linked to, and a row of super_admins.  Each holds a password.  The      *)
(* super_admins row is written here as the account of the place Platform   *)
(* (tenant_id "").  A step is what runs between two awaits.                *)
(***************************************************************************)
EXTENDS Integers, FiniteSets

CONSTANTS
  Schools, Platform,
  Passwords,
  Codes, CodeOf,   \* CodeOf[c]: the place, role and max_uses of a row of invitations
  Mails, MailOf,   \* MailOf[i]: the school and role of a row of user_invitations
  Challenges,
  Handlers,
  None

Places == Schools \cup {Platform}

Row == [role : {"parent", "staff", "super"}, pw : Passwords]

ASSUME ConstantsAssumption ==
  /\ None \notin Places \cup Passwords \cup Challenges \cup Row \cup Nat
  /\ IsFiniteSet(Handlers) /\ Handlers # {}
  /\ Platform \notin Schools /\ None \notin Codes \cup Mails /\ Codes \cap Mails = {}
  /\ CodeOf \in [Codes -> [place : Places, role : {"parent", "staff", "super"}, max : Nat]]
  /\ \A c \in Codes : (CodeOf[c].role = "super") = (CodeOf[c].place = Platform)
  /\ MailOf \in [Mails -> [place : Schools, role : {"parent", "staff"}]]

VARIABLES
  users,      \* users[p]: the row of the address at p, or None
  parent,     \* the password of its parents row, or None
  links,      \* parent_tenant_links
  mapped,     \* user_tenant_map
  uses,       \* invitations.uses_count; None: no such row yet
  active,     \* rows with is_active set and expires_at ahead
  mailed,     \* rows of user_invitations, which stay pending
  challenge,  \* challenge[k]: matched_tenants and whether it can be redeemed
  held,       \* sessions handed out: place and role of the token
  req,        \* per handler: the request in progress
  cut,        \* history: schools where a request stopped before it wrote the row it owed
  gone,       \* history: schools whose account was deleted although a link, a login
              \* or a challenge still led there
  stale,      \* history: places whose password was changed in a store login does not read
  joined      \* history: mailed invitations that a registration was finished with

store == <<users, parent, links, mapped>>
codes == <<uses, active, mailed>>
history == <<cut, gone, stale, joined>>
vars == <<store, codes, challenge, held, req, history>>

Idle == [pc |-> "idle"]

\* Domains of the tables.
TypeOK ==
  /\ users \in [Places -> Row \cup {None}]
  /\ parent \in Passwords \cup {None}
  /\ links \subseteq Schools /\ mapped \subseteq Schools
  /\ uses \in [Codes -> Nat \cup {None}] /\ active \subseteq Codes /\ mailed \subseteq Mails
  /\ challenge \in [Challenges -> [matched : SUBSET Places,
                                   st : {"none", "open", "consumed", "expired"}]]
  /\ held \subseteq [place : Places, role : {"parent", "staff", "super"}]

Init ==
  /\ users = [p \in Places |-> None] /\ parent = None
  /\ links = {} /\ mapped = {}
  /\ uses = [c \in Codes |-> None] /\ active = {} /\ mailed = {}
  /\ challenge = [k \in Challenges |-> [matched |-> {}, st |-> "none"]]
  /\ held = {}
  /\ req = [h \in Handlers |-> Idle]
  /\ cut = {} /\ gone = {} /\ stale = {} /\ joined = {}

Goto(h, r) == req' = [req EXCEPT ![h] = r]
At(h, l) == req[h].pc = l
To(h, l) == Goto(h, [req[h] EXCEPT !.pc = l])
Reject(h) == Goto(h, Idle)

-------------------------------------------------------------------------------
(* Registration.  [pc, code, place, role, pw] *)

CreateInvitation(c) ==
  /\ uses[c] = None
  /\ uses' = [uses EXCEPT ![c] = 0]
  /\ active' = active \cup {c}
  /\ UNCHANGED <<store, mailed, challenge, held, req, history>>

ExpireInvitation(c) ==
  /\ active' = active \ {c}
  /\ UNCHANGED <<store, uses, mailed, challenge, held, req, history>>

\* send_user_invitation: the check for a pending one is several awaits earlier,
\* and the mapping comes next.
CreateInvitationRecord(h, i) ==
  /\ At(h, "idle") /\ i \notin mailed
  /\ mailed' = mailed \cup {i}
  /\ Goto(h, [pc |-> "invite", place |-> MailOf[i].place])
  /\ UNCHANGED <<store, uses, active, challenge, held, history>>

InviteMap(h) ==
  /\ At(h, "invite")
  /\ mapped' = mapped \cup {req[h].place}
  /\ Reject(h)
  /\ UNCHANGED <<users, parent, links, codes, challenge, held, history>>

Usable(c) == c \in active /\ uses[c] < CodeOf[c].max

\* A mutant of the next definition.
RegisterUnchecked(h, c, pw) ==
  /\ At(h, "idle") /\ uses[c] # None
  /\ Goto(h, [pc |-> CodeOf[c].role, code |-> c, place |-> CodeOf[c].place,
              role |-> CodeOf[c].role, pw |-> pw])
  /\ UNCHANGED <<store, codes, challenge, held, history>>

\* The code is read and checked; the password is then hashed in a thread.
Register(h, c, pw) ==
  /\ At(h, "idle") /\ Usable(c)
  /\ Goto(h, [pc |-> CodeOf[c].role, code |-> c, place |-> CodeOf[c].place,
              role |-> CodeOf[c].role, pw |-> pw])
  /\ UNCHANGED <<store, codes, challenge, held, history>>

\* A code that is no row of invitations, but finds a mailed one: it counts as
\* never used, has no end, and is reserved for the address.
RegisterInvited(h, i, pw) ==
  /\ At(h, "idle") /\ i \in mailed
  /\ Goto(h, [pc |-> MailOf[i].role, code |-> i, place |-> MailOf[i].place,
              role |-> MailOf[i].role, pw |-> pw])
  /\ UNCHANGED <<store, codes, challenge, held, history>>

\* A shared passphrase registers staff at the school the caller names.
RegisterWithPass(h, p, pw) ==
  /\ At(h, "idle") /\ p \in Schools
  /\ Goto(h, [pc |-> "staff", code |-> None, place |-> p, role |-> "staff", pw |-> pw])
  /\ UNCHANGED <<store, codes, challenge, held, history>>

GetParent(h) ==
  /\ At(h, "parent")
  /\ IF parent = None THEN To(h, "newparent")
     ELSE IF parent = req[h].pw THEN To(h, "link") ELSE Reject(h)
  /\ UNCHANGED <<store, codes, challenge, held, history>>

CreateParent(h) ==
  /\ At(h, "newparent")
  /\ IF parent = None THEN parent' = req[h].pw /\ To(h, "link")
     ELSE UNCHANGED parent /\ Reject(h)
  /\ UNCHANGED <<users, links, mapped, codes, challenge, held, history>>

AddParentTenantLink(h) ==
  /\ At(h, "link")
  /\ links' = links \cup {req[h].place}
  /\ To(h, "local")
  /\ UNCHANGED <<users, parent, mapped, codes, challenge, held, history>>

\* A mutant of the next definition.
GetUserSkipsParents(h) ==
  /\ req[h].pc \in {"local", "staff", "super"}
  /\ IF At(h, "local") THEN To(h, "map")
     ELSE IF users[req[h].place] = None THEN To(h, "newuser") ELSE Reject(h)
  /\ UNCHANGED <<store, codes, challenge, held, history>>

\* A login of a parent comes here too.  The parent branch keeps an existing local row, the others refuse it.
GetUser(h) ==
  /\ req[h].pc \in {"local", "staff", "super"}
  /\ IF users[req[h].place] = None THEN To(h, "newuser")
     ELSE IF At(h, "local") THEN To(h, "map") ELSE Reject(h)
  /\ UNCHANGED <<store, codes, challenge, held, history>>

CreateUser(h) ==
  /\ At(h, "newuser")
  /\ LET p == req[h].place IN
     IF users[p] = None
     THEN /\ users' = [users EXCEPT ![p] = [role |-> req[h].role, pw |-> req[h].pw]]
          /\ cut' = cut \ {p} /\ gone' = gone \ {p}
          /\ To(h, "map")
     ELSE UNCHANGED <<users, cut, gone>> /\ Reject(h)
  /\ UNCHANGED <<parent, links, mapped, codes, challenge, held, stale, joined>>

\* A mutant of UpsertUserTenantMap.
MapPlatform(h) ==
  /\ At(h, "map")
  /\ mapped' = mapped \cup {req[h].place}
  /\ To(h, "count")
  /\ UNCHANGED <<users, parent, links, codes, challenge, held, history>>

\* The sync to Keycloak comes first; it swallows its errors.
UpsertUserTenantMap(h) ==
  /\ At(h, "map")
  /\ mapped' = mapped \cup ({req[h].place} \cap Schools)
  /\ To(h, "count")
  /\ UNCHANGED <<users, parent, links, codes, challenge, held, history>>

\* Only a code of invitations has a row that the UPDATE matches.
IncrementInvitationUses(c) ==
  IF c \in Codes
  THEN /\ uses' = [uses EXCEPT ![c] = @ + 1]
       /\ active' = IF uses[c] + 1 >= CodeOf[c].max THEN active \ {c} ELSE active
  ELSE UNCHANGED <<uses, active>>

\* The use is counted and the session handed out: the last step of a login, too.
FinishRegistration(h) ==
  /\ At(h, "count")
  /\ IncrementInvitationUses(req[h].code)
  /\ joined' = joined \cup ({req[h].code} \cap Mails)
  /\ held' = held \cup {[place |-> req[h].place, role |-> req[h].role]}
  /\ Reject(h)
  /\ UNCHANGED <<store, mailed, challenge, cut, gone, stale>>

-------------------------------------------------------------------------------
(* Login.  [pc, matched, pw] *)

LoginTenants == mapped \cup (IF parent = None THEN {} ELSE links)
                       \cup {p \in {Platform} : users[p] # None}

\* The record whose hash a login at p is checked against.
LoginCandidate(p) ==
  IF parent # None /\ p \in links THEN [role |-> "parent", pw |-> parent] ELSE users[p]

Verifies(p, pw) == LoginCandidate(p) # None /\ LoginCandidate(p).pw = pw

\* The first school with a row in the scan of accounts that have no mapping.
LegacyScan == {p \in Schools : users[p] # None}

\* The school may be named in the body; a named school must be enumerated.
Verified(pw, named) ==
  IF named # None THEN {p \in {named} \cap LoginTenants : Verifies(p, pw)}
  ELSE IF LoginTenants # {} THEN {p \in LoginTenants : Verifies(p, pw)}
  ELSE LegacyScan \cap {p \in Schools : Verifies(p, pw)}

\* What the login goes on with: every match, or the one the scan stopped at.
Matches(pw, named) ==
  LET c == {[place |-> p, role |-> LoginCandidate(p).role] : p \in Verified(pw, named)}
  IN IF named = None /\ LoginTenants = {} THEN {{m} : m \in c} ELSE {c} \ {{}}

Login(h, pw, named) ==
  /\ At(h, "idle")
  /\ \E m \in Matches(pw, named) : Goto(h, [pc |-> "matched", matched |-> m, pw |-> pw])
  /\ UNCHANGED <<store, codes, challenge, held, history>>

\* Exactly one place matched.  A parent's local row is looked up, and made if there
\* is none (links are never taken back, so the link still is there); a school is
\* mapped; the session comes last.
CompleteLogin(h) ==
  /\ At(h, "matched")
  /\ \E m \in req[h].matched :
       /\ req[h].matched = {m}
       /\ Goto(h, [pc |-> CASE m.role = "parent" -> "local" [] m.role = "staff" -> "map"
                             [] OTHER -> "count",
                   code |-> None, place |-> m.place, role |-> m.role, pw |-> req[h].pw])
  /\ UNCHANGED <<store, codes, challenge, held, history>>

IssueSelectionChallenge(h, k) ==
  /\ At(h, "matched") /\ Cardinality(req[h].matched) > 1
  /\ challenge[k].st = "none"
  /\ challenge' = [challenge EXCEPT ![k] = [matched |-> {m.place : m \in req[h].matched},
                                           st |-> "open"]]
  /\ Reject(h)
  /\ UNCHANGED <<store, codes, held, history>>

-------------------------------------------------------------------------------
(* Redemption of a challenge.  [pc, place] *)

\* One UPDATE ... RETURNING consumes the row, whatever school was asked for.
RedeemSelectionChallenge(h, k, p) ==
  /\ At(h, "idle") /\ challenge[k].st = "open"
  /\ challenge' = [challenge EXCEPT ![k].st = "consumed"]
  /\ IF p \in challenge[k].matched THEN Goto(h, [pc |-> "redeemed", place |-> p])
     ELSE UNCHANGED req
  /\ UNCHANGED <<store, codes, held, history>>

ExpireChallenge(k) ==
  /\ challenge[k].st = "open"
  /\ challenge' = [challenge EXCEPT ![k].st = "expired"]
  /\ UNCHANGED <<store, codes, held, req, history>>

\* _resolve_local_account: the role the account has now.  A hint of parent
\* is kept only when the local row says the same, so it is the row's role.
LoginRedeem(h) ==
  /\ At(h, "redeemed")
  /\ LET p == req[h].place IN
     held' = IF users[p] = None THEN held
             ELSE held \cup {[place |-> p, role |-> users[p].role]}
  /\ Reject(h)
  /\ UNCHANGED <<store, codes, challenge, history>>

-------------------------------------------------------------------------------
(* Change of a password, in the store the role of the session names. *)

StoreHolds(s, old) ==
  IF s.role = "parent" THEN parent = old
  ELSE users[s.place] # None /\ users[s.place].pw = old

\* A mutant of the next definition.
WriteLocal(s, pw) ==
  /\ users' = IF users[s.place] = None THEN users ELSE [users EXCEPT ![s.place].pw = pw]
  /\ UNCHANGED parent

\* The parents row for a parent, and the users row for everybody else.
WritePassword(s, pw) ==
  IF s.role = "parent" THEN parent' = pw /\ UNCHANGED users
  ELSE users' = [users EXCEPT ![s.place].pw = pw] /\ UNCHANGED parent

\* The current password is verified, and the new one hashed, before the write.
ChangePassword(h, s, old, pw) ==
  /\ At(h, "idle") /\ s \in held /\ old # pw /\ StoreHolds(s, old)
  /\ Goto(h, [pc |-> "change", sess |-> s, pw |-> pw])
  /\ UNCHANGED <<store, codes, challenge, held, history>>

UpdatePasswordHash(h) ==
  /\ At(h, "change")
  /\ UNCHANGED <<links, mapped, codes, challenge, held, cut, gone, joined>>
  /\ \E s \in {req[h].sess}, pw \in {req[h].pw} :
       /\ WritePassword(s, pw)
       /\ stale' = IF Verifies(s.place, pw)' THEN stale \ {s.place} ELSE stale \cup {s.place}
       /\ IF s.role = "parent" THEN To(h, "mirror") ELSE Reject(h)

\* Then the parent's local row, when there is one.
UpdateMirror(h) ==
  /\ At(h, "mirror")
  /\ LET p == req[h].sess.place IN
       users' = IF users[p] = None THEN users ELSE [users EXCEPT ![p].pw = req[h].pw]
  /\ Reject(h)
  /\ UNCHANGED <<parent, links, mapped, codes, challenge, held, history>>

-------------------------------------------------------------------------------
(* delete_tenant_user, and the end of requests. *)

\* A login has matched the account of p, or a challenge offers it.
Offered(p) ==
  \/ \E k \in Challenges : challenge[k].st = "open" /\ p \in challenge[k].matched
  \/ \E h \in Handlers : At(h, "matched") /\ \E m \in req[h].matched : m.place = p

\* A change of password that has verified the row updates it by its id, in vain.
DeleteUser(h, p) ==
  /\ At(h, "idle") /\ p \in Schools /\ users[p] # None
  /\ users' = [users EXCEPT ![p] = None]
  /\ gone' = IF p \in links \/ Offered(p) THEN gone \cup {p} ELSE gone
  /\ req' = [g \in Handlers |->
       IF g = h THEN [pc |-> "unmap", place |-> p]
       ELSE IF At(g, "change") /\ req[g].sess.role # "parent" /\ req[g].sess.place = p
            THEN Idle ELSE req[g]]
  /\ UNCHANGED <<parent, links, mapped, codes, challenge, held, cut, stale, joined>>

\* The links of a parent stay.
RemoveUserTenantMap(h) ==
  /\ At(h, "unmap")
  /\ mapped' = mapped \ {req[h].place}
  /\ Reject(h)
  /\ UNCHANGED <<users, parent, links, codes, challenge, held, history>>

\* The request is about to write the account of p.
Registering(h, p) == req[h].pc \in {"local", "newuser"} /\ req[h].place = p

\* The server stops, or a statement raises: the request ends where it is.
Stop(h) ==
  /\ ~At(h, "idle")
  /\ cut' = cut \cup {p \in Schools : Registering(h, p) /\ users[p] = None}
  /\ Reject(h)
  /\ UNCHANGED <<store, codes, challenge, held, gone, stale, joined>>

RegistrationStep(h) ==
  \/ \E pw \in Passwords : \/ \E c \in Codes : Register(h, c, pw)
                           \/ \E i \in Mails : RegisterInvited(h, i, pw)
                           \/ \E p \in Schools : RegisterWithPass(h, p, pw)
  \/ GetParent(h) \/ CreateParent(h) \/ AddParentTenantLink(h)
  \/ GetUser(h) \/ CreateUser(h) \/ UpsertUserTenantMap(h) \/ FinishRegistration(h)

LoginStep(h) ==
  \/ \E pw \in Passwords, named \in Places \cup {None} : Login(h, pw, named)
  \/ CompleteLogin(h)
  \/ \E k \in Challenges : IssueSelectionChallenge(h, k)
  \/ \E k \in Challenges, p \in Places : RedeemSelectionChallenge(h, k, p)
  \/ LoginRedeem(h)
  \/ \E s \in held, old, pw \in Passwords : ChangePassword(h, s, old, pw)
  \/ UpdatePasswordHash(h) \/ UpdateMirror(h)

AdminStep(h) ==
  \/ \E i \in Mails : CreateInvitationRecord(h, i)
  \/ InviteMap(h)
  \/ \E p \in Schools : DeleteUser(h, p)
  \/ RemoveUserTenantMap(h)

Next ==
  \/ \E c \in Codes : CreateInvitation(c) \/ ExpireInvitation(c)
  \/ \E h \in Handlers : RegistrationStep(h) \/ LoginStep(h) \/ AdminStep(h) \/ Stop(h)
  \/ \E k \in Challenges : ExpireChallenge(k)

Spec == Init /\ [][Next]_vars
-------------------------------------------------------------------------------
(* uses_count is checked at the start of a registration and incremented at *)
(* its end: a code that is a row of invitations is overused by no more     *)
(* than the registrations that can run beside the last legitimate one.     *)
OveruseIsBounded ==
  \A c \in Codes : uses[c] # None => uses[c] <= CodeOf[c].max + Cardinality(Handlers) - 1

(* register_user says of a mailed invitation that it has max_uses 1: no    *)
(* second registration is finished with it.                                *)
InvitationIsUsedOnce ==
  [][\A h \in Handlers : FinishRegistration(h) => req[h].code \notin joined]_vars

(* Every school a challenge offers can be redeemed: its local account, which *)
(* login_redeem resolves and does not create, exists, unless a request that *)
(* is about to make it is under way or was cut short, or the account was   *)
(* deleted from under the parent's link, the login or the challenge.       *)
OfferedPlacesWork ==
  \A k \in Challenges : challenge[k].st = "open" =>
    \A p \in challenge[k].matched :
      users[p] # None \/ p \in cut \cup gone \/ \E h \in Handlers : Registering(h, p)

(* change_password writes the store login reads, whatever is cut or deleted *)
(* meanwhile: a new password that login at the same school does not accept *)
(* is possible only for a linked parent who has a staff session there.     *)
ChangedPasswordIsChecked ==
  \A p \in stale : p \in links /\ [place |-> p, role |-> "staff"] \in held
===============================================================================
