----------------------------- MODULE TenantAccess -----------------------------
(***************************************************************************)
(* get_current_user: which school a request acts in and with which roles,  *)
(* for one person who is no super_admin, while administrators invite,      *)
(* re-role, suspend and delete that person.  Every await of the function   *)
(* is a point where the others may run; every block that catches its       *)
(* exceptions may also fail.  A token of Keycloak says nothing of a school *)
(* but its organizations: the realm maps no other claim to one.            *)
(***************************************************************************)
EXTENDS Memberships, FiniteSets, Integers

CONSTANTS Requests, MaxEvents

ASSUME EventsAssumption == MaxEvents \in Nat
ASSUME ParentsAssumption == None \notin {"real", "managed"}

VARIABLES
  local,     \* local[s]: the role of the users row in the schema of s, or None
  real,      \* schools whose users row has a password of its own
  parents,   \* the password of the parents row: None, "real" or "managed"
  invites,   \* user_invitations, newest first
  addressed, \* the newest row of invitations with the person's e-mail, or None
  idp,       \* Keycloak: the organizations of the user, or None
  token,     \* the access token the person holds, or None
  req,       \* per request: the locals of get_current_user
  adm,       \* the administrator's request in progress
  ever,      \* history: ever[s]: roles somebody gave the person at s
  since,     \* history: per request and school, the roles of the users row since it came
  barred,    \* history: per request, schools suspended or revoked ever since it came
  hurt,      \* history: schools selected by a request that could not read their users row
  events     \* how often the person or an administrator did something

people == <<local, real, parents>>
mail == <<invites, addressed>>
watch == <<since, barred, hurt>>
vars == <<control, people, mail, idp, token, req, adm, ever, watch, events>>

Idle == [pc |-> "idle"]
Working(r) == req[r].pc \notin {"idle", "granted"}
Granted(r) == req[r].pc = "granted"

Invitation == [school : Schools, role : Roles]

Token == [kc : BOOLEAN, email : BOOLEAN, claim : Schools \cup {None},
          orgs : SUBSET Schools, role : Roles]

\* Domains of the tables and of the token.
TypeOK ==
  /\ MembershipsType
  /\ local \in [Schools -> Roles \cup {None}] /\ real \subseteq Schools
  /\ \A s \in real : local[s] # None
  /\ parents \in {None, "real", "managed"} /\ (links # {} => parents # None)
  /\ \A i \in DOMAIN invites : invites[i] \in Invitation
  /\ addressed \in Invitation \cup {None}
  /\ idp = None \/ idp \subseteq Schools
  /\ token \in Token \cup {None}
  /\ \A r \in Requests : Granted(r) =>
       req[r].tenant \in Schools /\ req[r].role \in req[r].roles /\ req[r].roles \subseteq Roles

Init ==
  /\ MembershipsInit
  /\ local = [s \in Schools |-> None] /\ real = {} /\ parents = None
  /\ invites = <<>> /\ addressed = None /\ idp = None /\ token = None
  /\ req = [r \in Requests |-> Idle] /\ adm = Idle
  /\ ever = [s \in Schools |-> {}]
  /\ since = [r \in Requests |-> [s \in Schools |-> {}]]
  /\ barred = [r \in Requests |-> {}] /\ hurt = {}
  /\ events = 0

Gives(s, role) == ever' = [ever EXCEPT ![s] = @ \cup {role}]
AddRow(s, role) == local' = [local EXCEPT ![s] = IF @ = None THEN role ELSE @]

-------------------------------------------------------------------------------
(* Keycloak.  Its calls may fail and mostly only warn when they do.        *)

AddUserToOrganization(s) == idp' = (IF idp = None THEN {} ELSE idp) \cup {s}
SyncUserToKeycloak(s) == AddUserToOrganization(s) \/ UNCHANGED idp
DeleteUserFromKeycloak == idp' \in {None, idp}

-------------------------------------------------------------------------------
(* The person: registration, the two kinds of login, a refresh.  The module *)
(* Accounts has registration and login step by step.                       *)

SessionToken(s, role, email) ==
  [kc |-> FALSE, email |-> email, claim |-> s, orgs |-> {}, role |-> role]

Register(s, role) ==
  /\ role # "pending"
  /\ \/ role = "parent" /\ parents # "managed"
     \/ role # "parent" /\ local[s] = None
  /\ parents' = IF role = "parent" THEN "real" ELSE parents
  /\ real' = IF local[s] = None THEN real \cup {s} ELSE real
  /\ AddRow(s, role)
  /\ WriteRow(s, role)
  /\ links' = IF role = "parent" THEN links \cup {s} ELSE links
  /\ cache' = None
  /\ SyncUserToKeycloak(s)
  /\ token' = SessionToken(s, role, TRUE)
  /\ Gives(s, role)
  /\ UNCHANGED <<mail, req, adm>>

LoginAsParent(s) ==
  /\ parents = "real" /\ s \in links
  /\ AddRow(s, "parent")
  /\ real' = IF local[s] = None THEN real \cup {s} ELSE real
  /\ UpsertUserTenantMap(s, "parent")
  /\ token' = SessionToken(s, "parent", TRUE)
  /\ UNCHANGED <<parents, mail, idp, req, adm, ever>>

LoginAsUser(s) ==
  /\ s \in real /\ (s \in Rows \/ MembershipSet = {}) /\ ~(parents # None /\ s \in links)
  /\ UpsertUserTenantMap(s, local[s])
  /\ token' = SessionToken(s, local[s], TRUE)
  /\ UNCHANGED <<people, mail, idp, req, adm, ever>>

\* The token of a refresh carries the role of the account as it is now, and
\* no e-mail address.
Refresh ==
  /\ token # None /\ ~token.kc /\ local[token.claim] # None
  /\ token' = SessionToken(token.claim, local[token.claim], FALSE)
  /\ UNCHANGED <<control, people, mail, idp, req, adm, ever>>

LoginSSO ==
  /\ idp # None
  /\ token' = [kc |-> TRUE, email |-> TRUE, claim |-> None, orgs |-> idp, role |-> "pending"]
  /\ UNCHANGED <<control, people, mail, idp, req, adm, ever>>

-------------------------------------------------------------------------------
(* The administrator.                                                      *)

Admin(l, s, role) == adm' = [pc |-> l, school |-> s, role |-> role]
AdminAt(l) == adm.pc = l
AdminTo(l) == adm' = [adm EXCEPT !.pc = l]

SendUserInvitation(s, role) ==
  /\ AdminAt("idle") /\ role # "pending"
  /\ \A i \in DOMAIN invites : invites[i].school # s
  /\ Admin("shell", s, role)
  /\ Gives(s, role)
  /\ UNCHANGED <<control, people, mail, idp, token, req>>

\* Without a Keycloak user the organization step is skipped; with one, its
\* failure ends the request.
InviteKeycloak ==
  /\ AdminAt("shell")
  /\ \/ AddUserToOrganization(adm.school) /\ AdminTo("record")
     \/ idp = None /\ UNCHANGED idp /\ AdminTo("record")
     \/ idp' = (IF idp = None THEN {} ELSE idp) /\ adm' = Idle
  /\ UNCHANGED <<control, people, mail, token, req, ever>>

CreateInvitationRecord ==
  /\ AdminAt("record")
  /\ invites' = <<[school |-> adm.school, role |-> adm.role]>> \o invites
  /\ AdminTo("invitemap")
  /\ UNCHANGED <<control, people, addressed, idp, token, req, ever>>

InviteMap ==
  /\ AdminAt("invitemap")
  /\ UpsertByInvitation(adm.school, adm.role)
  /\ adm' = Idle
  /\ UNCHANGED <<people, mail, idp, token, req, ever>>

\* A code of invitations that is addressed to the person (AuthService).
CreateInvitation(s, role) ==
  /\ role # "pending"
  /\ addressed' = [school |-> s, role |-> role]
  /\ Gives(s, role)
  /\ UNCHANGED <<control, people, invites, idp, token, req, adm>>

AssignUserRole(s, role) ==
  /\ AdminAt("idle")
  /\ local' = [local EXCEPT ![s] = role]
  /\ Admin("rolemap", s, role)
  /\ Gives(s, role)
  /\ UNCHANGED <<control, real, parents, mail, idp, token, req>>

UpdateTenantUserPermissions(s, role) ==
  /\ local[s] # None
  /\ AssignUserRole(s, role)

RoleMap ==
  /\ AdminAt("rolemap")
  /\ UpsertUserTenantMap(adm.school, adm.role)
  /\ adm' = Idle
  /\ UNCHANGED <<people, mail, idp, token, req, ever>>

DeleteTenantUser(s) ==
  /\ AdminAt("idle") /\ local[s] # None
  /\ local' = [local EXCEPT ![s] = None] /\ real' = real \ {s}
  /\ Admin("unmap", s, "pending")
  /\ UNCHANGED <<control, parents, mail, idp, token, req, ever>>

DeleteMap ==
  /\ AdminAt("unmap")
  /\ RemoveUserTenantMap(adm.school)
  /\ AdminTo("unsync")
  /\ UNCHANGED <<people, mail, idp, token, req, ever>>

DeleteKeycloak ==
  /\ AdminAt("unsync")
  /\ DeleteUserFromKeycloak
  /\ adm' = Idle
  /\ UNCHANGED <<control, people, mail, token, req, ever>>

\* The request dies, or the step that only warns fails and the rest is done.
AdminFails ==
  /\ ~AdminAt("idle")
  /\ IF AdminAt("unmap") THEN adm' = Idle \/ AdminTo("unsync") ELSE adm' = Idle
  /\ UNCHANGED <<control, people, mail, idp, token, req, ever>>

Lifecycle(s) ==
  /\ \/ AcceptMembership(s) \/ DeclineMembership(s)
     \/ SuspendMembership(s) \/ RestoreMembership(s) \/ RevokeMembership(s)
  /\ UNCHANGED <<people, mail, idp, token, req, adm, ever>>

CreateInvitedMembership(s, role) ==
  /\ role # "pending"
  /\ CreateInvited(s, role)
  /\ Gives(s, role)
  /\ UNCHANGED <<people, mail, idp, token, req, adm>>

-------------------------------------------------------------------------------
(* get_current_user.                                                       *)

At(r, l) == req[r].pc = l
Become(r, q) == req' = [req EXCEPT ![r] = q]
To(r, l) == Become(r, [req[r] EXCEPT !.pc = l])
Refuse(r) == Become(r, Idle)
\* A block caught its exception: the request goes on with what it has.
Caught(r, l) == To(r, l)
Same == UNCHANGED <<mail, idp, token, adm, ever>>

Ambiguous(q) == Cardinality(q.orgs) > 1
Claimed(q) == IF q.kc /\ Cardinality(q.orgs) = 1 THEN CHOOSE s \in q.orgs : TRUE ELSE q.claim

Arrive(r, header) ==
  /\ ~Working(r) /\ token # None
  /\ Become(r, [pc |-> IF token.email THEN "members" ELSE "select",
                 kc |-> token.kc, email |-> token.email, orgs |-> token.orgs,
                 claim |-> token.claim, header |-> header, mem |-> {},
                 tenant |-> token.claim, role |-> token.role, roles |-> {token.role},
                 sel |-> FALSE, unread |-> FALSE])
  /\ UNCHANGED <<control, people>> /\ Same

\* The rows of user_tenant_map, the parents row and its links are read in
\* statements of their own; where one of them fails, nothing was read.
ReadMemberships(r) ==
  /\ At(r, "members")
  /\ \/ cache # None /\ Become(r, [req[r] EXCEPT !.pc = "resolve", !.mem = cache])
     \/ cache = None /\ Become(r, [req[r] EXCEPT !.pc = "parentid", !.mem = Rows])
     \/ cache = None /\ Caught(r, "resolve")
  /\ UNCHANGED <<control, people>> /\ Same

ReadParentId(r) ==
  /\ At(r, "parentid")
  /\ \/ To(r, IF parents = None THEN "fill" ELSE "parentlinks")
     \/ Become(r, [req[r] EXCEPT !.pc = "resolve", !.mem = {}])
  /\ UNCHANGED <<control, people>> /\ Same

ReadParentLinks(r) ==
  /\ At(r, "parentlinks")
  /\ \/ Become(r, [req[r] EXCEPT !.pc = "fill", !.mem = @ \cup links])
     \/ Become(r, [req[r] EXCEPT !.pc = "resolve", !.mem = {}])
  /\ UNCHANGED <<control, people>> /\ Same

\* What was read is stored, whatever was invalidated meanwhile.
FillCache(r) ==
  /\ At(r, "fill")
  /\ cache' = req[r].mem
  /\ To(r, "resolve")
  /\ UNCHANGED <<utm, recent, links, people>> /\ Same

\* A role that was not settled by the token comes with the school.
Settled(q, s, role) ==
  [q EXCEPT !.tenant = s,
            !.role = IF q.role = "pending" THEN role ELSE q.role,
            !.roles = IF q.role = "pending" THEN q.roles \cup {role} ELSE q.roles]

\* A mutant of the next definition.
ResolveTenantByMap(r) ==
  LET q == [req[r] EXCEPT !.tenant = Claimed(req[r])]
      m == TenantForEmail
      found == IF m = None THEN q ELSE Settled(q, m, utm[m].role)
  IN /\ At(r, "resolve")
     /\ IF q.tenant # None /\ q.role # "pending"
        THEN Become(r, [q EXCEPT !.pc = "select"])
        ELSE Become(r, [found EXCEPT !.pc = IF m = None \/ found.role = "pending"
                                            THEN "invited" ELSE "select"])
     /\ UNCHANGED <<control, people>> /\ Same

ResolveTenant(r) ==
  LET q == [req[r] EXCEPT !.tenant = Claimed(req[r])]
      m == TenantForEmail
      found == IF m = None THEN q ELSE Settled(q, m, utm[m].role)
  IN /\ At(r, "resolve")
     /\ IF Ambiguous(q) \/ (q.tenant # None /\ q.role # "pending")
        THEN Become(r, [q EXCEPT !.pc = "select"])
        ELSE \/ Become(r, [found EXCEPT !.pc = IF m = None \/ found.role = "pending"
                                               THEN "invited" ELSE "select"])
             \/ Become(r, [q EXCEPT !.pc = "select"])
     /\ UNCHANGED <<control, people>> /\ Same

InvitedBy(r, i) ==
  Become(r, [req[r] EXCEPT !.pc = "heal", !.tenant = i.school, !.role = i.role,
                           !.roles = @ \cup {i.role}])

ReadInvitation(r) ==
  /\ At(r, "invited")
  /\ \/ invites # <<>> /\ InvitedBy(r, Head(invites))
     \/ invites = <<>> /\ To(r, "addressed")
     \/ Caught(r, "select")
  /\ UNCHANGED <<control, people>> /\ Same

ReadAddressed(r) ==
  /\ At(r, "addressed")
  /\ \/ addressed # None /\ InvitedBy(r, addressed)
     \/ To(r, "select")
  /\ UNCHANGED <<control, people>> /\ Same

Heal(r) ==
  /\ At(r, "heal")
  /\ \/ UpsertUserTenantMap(req[r].tenant, req[r].role) /\ To(r, "select")
     \/ Caught(r, "select") /\ UNCHANGED control
  /\ UNCHANGED people /\ Same

\* Where a request with a school, or without one, goes next.
Placed(r, q) ==
  CASE q.tenant # None -> Become(r, [q EXCEPT !.pc = IF q.email THEN "local" ELSE "granted"])
    [] q.tenant = None /\ q.mem = {} /\ ~Ambiguous(q) -> Become(r, [q EXCEPT !.pc = "scan"])
    [] OTHER -> Refuse(r)

\* The X-Tenant-ID header selects among the memberships and asserts nothing.
Select(r) ==
  LET q == req[r]
  IN /\ At(r, "select")
     /\ CASE q.header = None -> Placed(r, q)
          [] q.header \in q.mem ->
               Placed(r, [q EXCEPT !.tenant = q.header, !.sel = (q.header # q.tenant)])
          [] OTHER -> Refuse(r)
     /\ UNCHANGED <<control, people>> /\ Same

\* A school that cannot be read is passed over.
Scan(r) ==
  /\ At(r, "scan")
  /\ \/ \E s \in Schools :
          /\ local[s] # None
          /\ Become(r, [req[r] EXCEPT !.pc = "scanned", !.tenant = s,
                        !.role = IF local[s] = "pending" THEN @ ELSE local[s],
                        !.roles = IF local[s] = "pending" THEN @ ELSE @ \cup {local[s]}])
     \/ Refuse(r)
  /\ UNCHANGED <<control, people>> /\ Same

ScanHeal(r) ==
  /\ At(r, "scanned")
  /\ \/ UpsertUserTenantMap(req[r].tenant, req[r].role) /\ To(r, "local")
     \/ Caught(r, "local") /\ UNCHANGED control
  /\ UNCHANGED people /\ Same

\* A parent known to Keycloak is provisioned before the status is read.
Onward(q) == IF q.kc /\ q.role = "parent" THEN "provision" ELSE "probe"
Forward(r, q) == Become(r, [q EXCEPT !.pc = Onward(q)])

\* Two mutants of the definition after them.
WithRowRoleOnly(q, role) == [q EXCEPT !.role = role]
WithRowUnion(q, role) ==
  [q EXCEPT !.roles = @ \cup {role},
            !.role = IF q.sel \/ @ = "pending" THEN role ELSE @]

\* The users row is added to the roles of the token, or replaces them when
\* another school was selected; a pending row replaces them always.
WithRow(q, role) ==
  IF role = "pending" THEN [q EXCEPT !.role = role, !.roles = {role}]
  ELSE [q EXCEPT !.roles = (IF q.sel THEN {} ELSE @) \cup {role},
                 !.role = IF q.sel \/ @ = "pending" THEN role ELSE @]

\* A mutant of the next definition.
ReadLocalProvisions(r) ==
  LET q == req[r]  row == local[q.tenant]
  IN /\ At(r, "local")
     /\ IF row # None THEN Forward(r, WithRow(q, row)) ELSE To(r, "jit")
     /\ UNCHANGED <<control, people>> /\ Same

ReadLocal(r) ==
  LET q == req[r]  row == local[q.tenant]
  IN /\ At(r, "local")
     /\ \/ row # None /\ Forward(r, WithRow(q, row))
        \/ row = None /\ q.sel /\ Refuse(r)
        \/ row = None /\ ~q.sel /\ To(r, "jit")
        \/ Forward(r, [q EXCEPT !.unread = TRUE])
     /\ UNCHANGED <<control, people>> /\ Same

Jit(r) ==
  /\ At(r, "jit")
  /\ AddRow(req[r].tenant, req[r].role)
  /\ To(r, "jitmap")
  /\ UNCHANGED <<control, real, parents>> /\ Same

JitMap(r) ==
  /\ At(r, "jitmap")
  /\ \/ UpsertUserTenantMap(req[r].tenant, req[r].role) /\ Forward(r, req[r])
     \/ Forward(r, req[r]) /\ UNCHANGED control
  /\ UNCHANGED people /\ Same

\* INSERT ... ON CONFLICT DO NOTHING; a parents row is never deleted.
ProvisionParent(r) ==
  /\ At(r, "provision")
  /\ \/ parents' = (IF parents = None THEN "managed" ELSE parents) /\ To(r, "link")
     \/ Caught(r, "probe") /\ UNCHANGED parents
  /\ UNCHANGED <<control, local, real>> /\ Same

ProvisionLink(r) ==
  /\ At(r, "link")
  /\ \/ links' = links \cup {req[r].tenant} /\ To(r, "parent")
     \/ Caught(r, "probe") /\ UNCHANGED links
  /\ UNCHANGED <<utm, recent, cache, people>> /\ Same

ProvisionLocal(r) ==
  /\ At(r, "parent")
  /\ \/ AddRow(req[r].tenant, "parent") /\ To(r, "parentmap")
     \/ Caught(r, "probe") /\ UNCHANGED local
  /\ UNCHANGED <<control, real, parents>> /\ Same

ProvisionMap(r) ==
  /\ At(r, "parentmap")
  /\ \/ UpsertUserTenantMap(req[r].tenant, "parent") /\ To(r, "probe")
     \/ Caught(r, "probe") /\ UNCHANGED control
  /\ UNCHANGED people /\ Same

\* The status of the membership; a failing probe lets the request pass.
Probe(r) ==
  /\ At(r, "probe")
  /\ \/ req[r].tenant \in Barred /\ Refuse(r)
     \/ req[r].tenant \notin Barred /\ To(r, "granted")
     \/ Caught(r, "granted")
  /\ UNCHANGED <<control, people>> /\ Same

-------------------------------------------------------------------------------
(* Composition.                                                            *)

RequestStep(r) ==
  \/ ReadMemberships(r) \/ ReadParentId(r) \/ ReadParentLinks(r) \/ FillCache(r)
  \/ ResolveTenant(r) \/ ReadInvitation(r) \/ ReadAddressed(r)
  \/ Heal(r) \/ Select(r) \/ Scan(r) \/ ScanHeal(r) \/ ReadLocal(r)
  \/ Jit(r) \/ JitMap(r)
  \/ ProvisionParent(r) \/ ProvisionLink(r) \/ ProvisionLocal(r) \/ ProvisionMap(r) \/ Probe(r)

AdminStep ==
  \/ InviteKeycloak \/ CreateInvitationRecord \/ InviteMap \/ RoleMap
  \/ DeleteMap \/ DeleteKeycloak \/ AdminFails

Person ==
  \/ LoginSSO \/ Refresh
  \/ \E s \in Schools : LoginAsParent(s) \/ LoginAsUser(s)
  \/ \E s \in Schools, role \in Roles : Register(s, role)
  \/ \E r \in Requests, header \in Schools \cup {None} : Arrive(r, header)

Administrator ==
  \/ \E s \in Schools : DeleteTenantUser(s) \/ Lifecycle(s)
  \/ \E s \in Schools, role \in Roles :
       \/ SendUserInvitation(s, role) \/ CreateInvitation(s, role) \/ AssignUserRole(s, role)
       \/ UpdateTenantUserPermissions(s, role) \/ CreateInvitedMembership(s, role)

\* The server starts again: requests are lost, the cache is empty.
Restart ==
  /\ Backfill
  /\ req' = [r \in Requests |-> Idle] /\ adm' = Idle
  /\ UNCHANGED <<people, mail, idp, token, ever>>

ExpireCache ==
  /\ cache # None /\ cache' = None
  /\ UNCHANGED <<utm, recent, links, people, req>> /\ Same

Watch ==
  /\ since' = [r \in Requests |-> [s \in Schools |->
                 (IF Working(r) THEN since[r][s] ELSE {}) \cup ({local'[s]} \ {None})]]
  /\ barred' = [r \in Requests |-> (IF Working(r) THEN barred[r] ELSE Schools) \cap Barred']
  /\ hurt' = hurt \cup {req'[r].tenant : r \in {x \in Requests :
                           Working(x)' /\ req'[x].sel /\ req'[x].unread}}

Next ==
  /\ \/ /\ events < MaxEvents /\ events' = events + 1
        /\ Person \/ Administrator \/ Restart
     \/ /\ UNCHANGED events
        /\ AdminStep \/ ExpireCache \/ \E r \in Requests : RequestStep(r)
  /\ Watch

Spec == Init /\ [][Next]_vars

-------------------------------------------------------------------------------
Grants(r) == ~Granted(r) /\ Granted(r)'

(* A token with several organizations never lands in a school nobody chose *)
(* (org_ambiguous): not by the map, an invitation, a scan or a default.    *)
AmbiguousNeverGuessed ==
  \A r \in Requests : Granted(r) /\ Ambiguous(req[r]) => req[r].tenant = req[r].header

(* A request that selects another school, and could read its users row     *)
(* there, acts with roles that row had during the request and with none of *)
(* the token's.                                                            *)
SelectedRolesAreLocal ==
  [][\A r \in Requests : (Grants(r) /\ req'[r].sel /\ ~req'[r].unread) =>
       req'[r].roles \subseteq since'[r][req'[r].tenant]]_vars

(* No step of a request carries a role from one school to another or makes *)
(* one up: users and user_tenant_map hold roles somebody gave at that      *)
(* school at some time, so no school has a member nobody there asked for.  *)
(* Not covered is a school that a request selected while its users row     *)
(* could not be read: such a request keeps the roles of its token.         *)
RolesStayInTheirSchool ==
  \A s \in Schools \ hurt :
    /\ local[s] # None => local[s] \in ever[s] \cup {"pending"}
    /\ utm[s] # None => utm[s].role \in ever[s] \cup {"pending"}

\* The step lifts no suspension and no revocation, or is one that should.
KeepsBars ==
  \A s \in Barred :
    \/ s \in Barred' \/ DeleteMap \/ RestoreMembership(s)
    \/ \E role \in Roles : CreateInvited(s, role)

(* A bar is lifted by an administrator only: whatever a suspended or       *)
(* revoked person does (registers, logs in, comes with any token, is       *)
(* healed, scanned or provisioned on the way), and whatever role or        *)
(* invitation is written meanwhile, user_tenant_map keeps the bar until    *)
(* the membership is restored, invited anew, or its row is deleted.        *)
BarStays == [][KeepsBars]_vars

(* "revocation takes effect on the next request, not on the next token":   *)
(* the promise of the status probe, for every token the server issues.  It *)
(* is about requests that pass without it: one that reaches the probe can  *)
(* pass only where the membership is not barred or the statement fails.    *)
RevocationIsImmediate ==
  [][\A r \in Requests : (Grants(r) /\ ~At(r, "probe")) =>
       req'[r].tenant \notin barred'[r]]_vars

===============================================================================
