------------------------------ MODULE Memberships -----------------------------
(***************************************************************************)
(* The control plane's record of one person's schools: the rows of         *)
(* user_tenant_map with their life cycle (ControlPlaneRepository), the     *)
(* links of a parent, and the membership cache of a server process.        *)
(* The operators here are the repository's statements; the module          *)
(* TenantAccess makes actions of them.                                     *)
(***************************************************************************)
EXTENDS Sequences, SequencesExt

CONSTANTS Schools, Roles, None

VARIABLES
  utm,     \* utm[s]: role and status of the row for s, or None
  recent,  \* the schools of the rows, latest updated_at first
  links,   \* parent_tenant_links of the person's parents row
  cache    \* _MEMBERSHIP_CACHE: the schools cached for the person, or None

control == <<utm, recent, links, cache>>

Statuses == {"invited", "active", "suspended", "revoked"}
Row == [role : Roles, status : Statuses]

ASSUME ConstantsAssumption ==
  /\ None \notin Schools \cup Roles \cup Row
  /\ IsFiniteSet(Schools) /\ {"parent", "pending"} \subseteq Roles

Rows == {s \in Schools : utm[s] # None}
Barred == {s \in Rows : utm[s].status \in {"suspended", "revoked"}}

MembershipsType ==
  /\ utm \in [Schools -> Row \cup {None}]
  /\ recent \in Seq(Schools) /\ IsInjective(recent) /\ ToSet(recent) = Rows
  /\ links \subseteq Schools
  /\ cache \in (SUBSET Schools) \cup {None}

MembershipsInit ==
  /\ utm = [s \in Schools |-> None] /\ recent = <<>>
  /\ links = {} /\ cache = None

Latest(s) == <<s>> \o RemoveFirst(recent, s)

\* A mutant of the next definition.
WriteActiveRow(s, role) ==
  /\ utm' = [utm EXCEPT ![s] = [role |-> role, status |-> "active"]]
  /\ recent' = Latest(s)

\* INSERT ... ON CONFLICT (email, tenant_id) DO UPDATE SET role, updated_at.
WriteRow(s, role) ==
  /\ utm' = [utm EXCEPT ![s] = IF @ = None THEN [role |-> role, status |-> "active"]
                               ELSE [@ EXCEPT !.role = role]]
  /\ recent' = Latest(s)

UpsertUserTenantMap(s, role) ==
  /\ WriteRow(s, role)
  /\ cache' = None
  /\ UNCHANGED links

\* The same statement in InvitationRepository, which knows of no cache.
UpsertByInvitation(s, role) == WriteRow(s, role) /\ UNCHANGED <<links, cache>>

RemoveUserTenantMap(s) ==
  /\ utm' = [utm EXCEPT ![s] = None]
  /\ recent' = RemoveFirst(recent, s)
  /\ UNCHANGED <<links, cache>>

SetStatus(s, from, to) ==
  /\ utm[s] # None /\ utm[s].status \in from
  /\ utm' = [utm EXCEPT ![s].status = to]
  /\ UNCHANGED <<recent, links, cache>>

CreateInvited(s, role) ==
  /\ \/ /\ utm[s] = None
        /\ recent' = Latest(s)
     \/ /\ utm[s] # None /\ utm[s].status = "revoked"
        /\ UNCHANGED recent
  /\ utm' = [utm EXCEPT ![s] = [role |-> role, status |-> "invited"]]
  /\ UNCHANGED <<links, cache>>

AcceptMembership(s) == SetStatus(s, {"invited"}, "active")

DeclineMembership(s) ==
  /\ utm[s] # None /\ utm[s].status = "invited"
  /\ RemoveUserTenantMap(s)

SuspendMembership(s) == SetStatus(s, {"active"}, "suspended")

RestoreMembership(s) == SetStatus(s, {"suspended"}, "active")
RevokeMembership(s) == SetStatus(s, Statuses \ {"revoked"}, "revoked")

\* What a start of the server does to the tables: a row for every link
\* without one.  The cache is process memory.
Backfill ==
  /\ utm' = [s \in Schools |-> IF s \in links /\ utm[s] = None
                               THEN [role |-> "parent", status |-> "active"] ELSE utm[s]]
  /\ \E new \in SetToSeqs(links \ Rows) : recent' = new \o recent
  /\ cache' = None
  /\ UNCHANGED links

\* get_tenant_for_email: the most recently updated row.
TenantForEmail == IF recent = <<>> THEN None ELSE Head(recent)

\* get_tenants_for_email and get_tenants_for_parent together.
MembershipSet == Rows \cup links
===============================================================================
