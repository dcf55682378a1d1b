# SAMS backend: a TLA+ model of its core

SAMS is a multi-tenant backend for school events: FastAPI routers call services,
services call repositories, and each statement of a repository runs on an
asyncpg pool whose `search_path` is the schema of one school (tenant). A
control-plane schema holds the tenants, the memberships and the sessions;
Keycloak holds the identities. Several workers and many asyncio tasks serve
requests at once. **Most handlers do not run in a transaction**: each `await` of
a repository method is a transaction of its own, so whatever a handler has read
may be out of date when it writes. That is where the system is hard to test, and
what this project models.

## 1. Inventory

| Component | State | Operations | Interacts with | What is hard | What makes it correct |
|---|---|---|---|---|---|
| Year rollover and placement (`tenant/service.py` 2060-2290, `tenant_repository.py` 614-663, 901-1201, 2346-2702, `students/router.py` 895-1019) | `academic_years`, `class`, `students.class_id/status`, `year_rollover`, `year_rollover_line`, `student_class_history` | create year, generate, preview, override, commit; create, deactivate and delete a class; reassign, upsert a student | every writer of `class_id` writes between the steps of a plan | unlocked reads, stale plans, plans that compete for a year, repeated commits | one active year; closed years stay closed; a plan is applied whole; overrides survive; history agrees with the placement |
| Enrollment and payments (`tenant/service.py` 842-1043, `students/router.py` 655-836) | `event_class_map`, `enrollment`, `payments` | enroll, decide, cancel, pay; price edit; deletion of class or event; move of a student | lifecycle (published?), classes, placement | check-then-act over four to six statements, retries, partial failure | consent before the teacher; one row per map; priced enrollments have a payment; no orphan payment |
| Event lifecycle (`tenant/service.py` 546-587, 1511-1752, `events/router.py`, `events/service.py`) | `event.status` and its stamps, `rejection_reason`, `notifications` | create, submit, approve, reject, publish, edit the audience, delete | enrollment is open while published; notifications | the status is read, many notifications are sent, then it is overwritten | nothing unreviewed is published; reason iff returned; the audience is told |
| Tenant pools (`core/database.py` 1246-1411) | `_tenant_dbs`, `_locks`, `Database.pool`, `tenants` rows, tables | `get_pool`, `get_control_plane_pool`, `disconnect_all` | every request starts here | nested asyncio locks, exceptions, fast path without lock, restart | one initializer; callers get initialised pools; no deadlock |
| Sessions (`auth/service.py` 177-292, `control_plane_repository.py` 719-769) | `refresh_tokens`, families | issue, rotate, detect a reuse, revoke a family | login, the browser's saved token | two tabs redeem one token, a cut between mint and rotate, lost answers | one redeemable token per login; a reuse ends the family; nobody is logged out without a reason |
| Login, registration, passwords (`auth/service.py` 303-1152) | `users` of each school, `parents`, `parent_tenant_links`, `invitations`, `auth_selection_challenges` | register, log in, choose a school, change the password | Keycloak, memberships | one person in up to three stores, written one after another | codes are used as often as they allow; an offered school works; login reads the password that was changed |
| Memberships (`control_plane_repository.py` 329-605) and the resolution of a request (`core/dependencies.py` 190-1053) | `user_tenant_map`, the membership cache, the token | invite, accept, suspend, restore, revoke; `get_current_user` | every request; invitations, permissions | a function of some 850 lines that reads six stores, writes four and swallows failures | nobody acts in a school nobody chose, with a role of another school, or while suspended |
| Invitations (`invitations/`) | `user_invitations`, Keycloak users and organizations | invite | Keycloak, the map | no transaction spans the stores | an invitation gives its role at its school and nowhere else |
| School setup (`school/`, `core/dependencies.py` 1089-1141) | `school_profile`, campuses, contacts, the mirror in the control plane | edit, commit, activate, the gate of unfinished schools | academic structure | checks in reads of their own, a best-effort mirror | stages only go forward and rest on what was on record; a live school keeps its code and curriculum |
| Academic structure and import (`tenant_repository.py` 56-511, 845-1137, 1276-1444) | `levels`, `class`, placements, enrolments | save by the wizard, import, edit, delete | setup, rollover, enrolment history | whole-structure saves from a stale page, long batches | no section disappears that nobody removed |
| User permissions and deletion (`tenant/service.py` 1770-2037) | roles and users in three stores | update, delete | Keycloak, the map | partial failure, requests that provision in between | no role survives or appears that nobody gave |
| Resources and costing (`events/service.py` 84-190, `tenant/service.py` 1324-1433) | `resources`, `resource_cost`, the currency, the connections of the pool | add, edit, price, delete, replace all, change the currency | lifecycle (editable?), school profile, pool | quantity and price written apart, a connection held while another is awaited | totals are price times quantity; the currency of money is fixed; every request ends |
| Notifications, audit log, family overview, analytics, authorization, schema, gateway | - | - | - | - | see `PROJECT.json` for why each is not modelled |

## 2. Modules

| Module | Models | Properties and proofs |
|---|---|---|
| `AcademicCalendar` | abstract: define a year; hand over from the active year to a planned one | implemented by `YearRollover` |
| `YearRollover` | rollover engine and every writer of `class_id` | `YearRolloverProofs`, `MCYearRollover` |
| `TripEnrollment` | enrollment, decisions, cancellation, payment for one event | `TripEnrollmentProofs`, `MCTripEnrollment` |
| `EventStatus` | abstract: the promised lifecycle of an event | implemented by `EventLifecycle` for one request at a time (by proof only), and in any case but for stale writes |
| `EventLifecycle` | the lifecycle endpoints and `transition_event` for one event | `EventLifecycleProofs`, `MCEventLifecycle` |
| `TenantPools` | `DatabaseManager` | `TenantPoolsProofs`, `MCTenantPools` |
| `TokenFamily` | abstract: a login is a chain of tokens of which one is good | implemented by `Sessions` |
| `Sessions` | issue, rotation and reuse of refresh tokens | `SessionsProofs`, `MCSessions` |
| `Accounts` | registration, login, selection challenge, password, for one address | `AccountsProofs`, `MCAccounts` |
| `Memberships` | the rows of `user_tenant_map` and every statement that writes them | extended by `TenantAccess` |
| `TenantAccess` | `get_current_user`, and the administrators' changes to one person over the school, the control plane and Keycloak | `TenantAccessProofs`, `MCTenantAccess` |
| `SetupStages` | abstract: setup, committed, live | implemented by `SchoolSetup` |
| `AcademicStructure` | what a transaction does to levels, sections and pupils (operators, no state) | extended by `SchoolSetup`; lemmas in `SchoolSetupProofs` |
| `SchoolSetup` | school profile, stages, gate, and the structure endpoints | `SchoolSetupProofs`, `MCSchoolSetup` |
| `ResourceCosting` | resource lines, prices, currency, connections | `TenantPoolsProofs` (as the instance `Costing`), `MCResourceCosting` |

`TenantAccess` composes the memberships with login, invitation, permission and
deletion; `SchoolSetup` composes the setup of a school with the editing of its
structure and with pupils and enrolments.

Common conventions. A variable is a column (or a set of rows); an action is what
runs between two points where another request can run: a single statement, a
transaction, or, in `TenantPools`, the code between two awaits. `req`, `job` and
`upsert` hold the local variables of handlers in flight. Operators keep the names
of the code. An operator whose comment calls it a mutant is a faulty variant of
the definition named, or else of the next one; the checks substitute it to
confirm that a property notices. Three MC modules (`MCYearRollover`, `MCAccounts`,
`MCSchoolSetup`) restrict what happens in a behaviour, by a variable that never
changes or by which rows were made first, so that one run can ask two questions
that need different bounds.

### YearRollover
`status`, `class`, `cls`, `sstat`, `rollover`, `lines`, `hist` are the tables;
`job[a]` is the generate or preview request of admin `a`. Generate is
`GenerateReadFrom`, `GenerateReadTo`, `GenerateInsert`, `ReadFacts`,
`UpsertLines`; preview is `PreviewStart`, `ReadFacts`, `UpsertLines`,
`PreviewCheck`, `PreviewSet`; commit is a single step because the code runs it
in a transaction under `FOR UPDATE`. A commit that would raise takes no step.

Abstractions: levels and ordinals are constant, classes are not renamed or moved
to another level, and a class is identified by year, level and section (so a
request in flight may confuse a class with one of the same name made since; the
code would fail it on the id); `create_class` reads the active year and inserts in one
step; `override_rollover_line` reads and writes in one step. `delete_class` is
`DeleteClassRead` (which students are in the class, read without a lock) and
`DeleteClassWrite`, whose statements hold the unlinked rows; its check of
enrollment history is in `TripEnrollment`, and `delete_level`, which makes the
same statements for several classes, is left out. `hist` follows the order in
which history rows are inserted (their ids); the listing sorts by `changed_at`,
the time at which the writing transaction began. At most one `create_student` per student is in flight, and the class it asks for is
chosen when it writes, the first time it matters; capacity, exception codes and
summaries are left out.

### TripEnrollment
`EnrollStart` .. `EnrollPayment` are the statements of `enroll_student`, and so
on for the others. `Fail` ends any handler between two statements. `consent`
and `excused` are history variables: the first remembers which rows a parent
approved or a teacher created, the second which enroll requests failed or met no
price.

Abstractions: one event; class map and event are read in one step; read-back and
payment insert are one step; amounts are reduced to "priced or not".
`CurrencyDefault` tells whether `payments.currency` has a default: it has none in
a schema made by `_initialize_tenant_tables`, where step 23 makes the column NOT
NULL, and `create_payment` names no currency. `Headless` classes have no head
teacher, which makes the notification of a cancellation fail. `delete_level` and
`save_academic_structure` make the same check as `delete_class`.

### EventLifecycle
`SubmitEvent`, `ManagerDecision` and `PublishEvent` are the endpoints; they all
run `TransitionRead`, any number of `Announce` steps and `TransitionWrite`. The
history variable `late` holds the classes mapped while a publish was between its
read and its write, or afterwards; `stale` the transitions about to write whose
status another request has changed since they read it. `Next` keeps it.

Abstractions: one event; one notification per class stands for those to its
students and their parents; only actions an endpoint can ask for are in
`Transitions` (the table of the code has none for `event_teacher_decision`, which
always answers 400); descriptive fields are left out.

### TenantPools
A lock is the queue of the tasks that want it, its head being the holder
(`asyncio.Lock` is FIFO). `_locks_guard` is left out: it is held over no await.
`Restart` stands for a restart of the process and for `disconnect_all`.

### Sessions
`fam`, `revoked`, `expired` and `next` are the columns of `refresh_tokens`; a
family is a login and `jar[f]` the token its browser saved last. A refresh is
`Refresh` (a tab sends the saved token), `GetRefreshToken`, then `Reuse`, or
`ResolveLocalAccount`, `Mint`, `Rotate`, `Deliver`. `Stop` ends a request at any
await; in state `answer` that is a lost answer. The history variables
`overlapped` and `lossy` record the two events after which the code promises
less. The refinement maps a family to its handed-out tokens, redeemable and
spent, and to nothing once two of its requests have overlapped: a token that was
minted and never handed out is invisible. Hashes, user agents and addresses are
left out.

### Accounts
One address, which may own a `users` row in each school, a `parents` row with
links to schools, and a `super_admins` row (the account of the place `Platform`).
A registration is admitted by a row of `invitations` (`Codes`, `Register`), by the
code that `send_user_invitation` mails, a row of `user_invitations` (`Mails`,
`RegisterInvited`: `register_user` takes its `uses_count` for 0 each time and the
increment matches no row), or by the passphrase (`RegisterWithPass`). Then come
`GetParent`, `CreateParent`, `AddParentTenantLink` for a parent, and `GetUser`,
`CreateUser`, `UpsertUserTenantMap`, `FinishRegistration` for everybody. Login is
`Login`, then `CompleteLogin` for one match, which goes on with the same statements
from `GetUser` (a parent), the map (staff) or the session (the platform), or
`IssueSelectionChallenge` for several, and `RedeemSelectionChallenge`,
`LoginRedeem`. A password is written by `UpdatePasswordHash` and, for a parent,
`UpdateMirror` an await later. `DeleteUser` and `RemoveUserTenantMap` are
`delete_tenant_user`, which leaves a parent's link. Every request may end at any
await (`Stop`). Histories: `cut`, `gone`, `stale`, `joined`.

Abstractions: the padding of the password checks and the rate limits are left
out; the sync to Keycloak swallows its errors and is part of the next step; the
candidates of a login are read and verified in one step, as is the account a
redemption resolves; the expiry and acceptance of mailed invitations, super
administrators who are mailed an invitation and the deletion of a `super_admins`
row are left out.

### Memberships and TenantAccess
One person who is no super administrator, over `Schools`. `req[r]` holds the
locals of `get_current_user`: token claims, header, memberships, tenant, roles.
Its path is `Arrive`, `ReadMemberships`, `ReadParentId`, `ReadParentLinks`,
`FillCache`, `ResolveTenant`, `ReadInvitation`, `ReadAddressed`, `Heal`, `Select`,
`Scan`, `ScanHeal`, `ReadLocal`, `Jit`, `JitMap`, `ProvisionParent`,
`ProvisionLink`, `ProvisionLocal`, `ProvisionMap`, `Probe`; every block the code
wraps in `try ... except` may fail. `req[r].unread` remembers one of these
failures: the users row could not be read. `invites` holds the rows of
`user_invitations`, `addressed` the newest row of `invitations` for the person's
address, which is looked up when there is no other. `adm` is the
administrator's request: an invitation, a role assignment, a permission update
or a deletion, each over the users row, the map and Keycloak. Keycloak is
external: `idp` is the set of organizations of the user. Histories: `ever` (roles
somebody gave at a school; it never shrinks, so `RolesStayInTheirSchool` does not
see that a deleted person is provisioned anew with an old role, or a demoted one
written back with it), `since` (roles the users row had during a request),
`barred` (schools suspended during all of a request), `hurt` (schools that a
request selected by the header without being able to read its users row there;
such a request keeps its token's roles, see below).

Abstractions: registration and login are single steps here (they are step by step
in `Accounts`); realm roles, groups and individual permissions are left out; roles
are `staff`, `parent`, `pending`. `Claimed` knows two sources of a school, the
`tenant_id` claim of the server's own tokens and the single organization of
Keycloak's. The code also looks at a `tenant_id` claim, attributes, groups and the
realm of a Keycloak token (`dependencies.py` 338, 384-410); the realm as deployed
gives them nothing: its one protocol mapper adds an audience (`SAMS-realm.json`),
Keycloak drops the user attribute (`keycloak_admin.py` 117-124), no group is made,
and the realm's name is one of those that are ignored.

### SchoolSetup and AcademicStructure
`school` is the `school_profile` row with its required fields reduced to the
code and "the others are filled"; `db` is a record of levels, sections, pupils
and enrolled sections on which the operators of `AcademicStructure` work as
transactions do (`ok = FALSE` rolls back). The transactions that remove sections
run READ COMMITTED and are two steps each: up to the check for enrolments
(`SaveChecks`, `BlockIfClassesHaveEnrollmentHistory`), and the writes with the
commit (`SaveAcademicStructure`, `Delete`), which remove the sections found before
the check and cascade away what was enrolled since. `get_academic_structure` is
read in statements: `ReadLevels`, then `HasStructure`, by the activation and the
gate, and `GetAcademicStructure`, `GetLevelsAndClasses` by the wizard. Commit,
activation, the gate, the import (row by row) and the single-row endpoints are a
step per statement. The wizard edits the structure it fetched: the payloads of a
save are the fetched structure as it is or with one edit (a grade or a section
added, a grade switched on or off, a section dropped, renamed or moved to another
grade). Histories: `facts`, `opened` and `filled` (levels that were active, or had
a section, at some time before the school was live), `early` (the requests in
flight when the school went live), `late` (sections enrolled in since the check of
a removal), `blurred`. Left out: ordinals, capacities, blackout dates, the preview
of an import and the parsing of its file, and what other writers of the structure
commit between two writes of one save: the settings row is no lock, because a
fresh school has none.

### ResourceCosting
The lines of one event. A request gets a connection (`Get`, `running`), runs one
statement on it and gives it back; `add_resources_to_event` keeps another
(`Acquire`, `holds`) while its statements come and go, so both wait for a free
one. `ReadProfile` takes each way `update_profile` can go with a currency: to the
money check only for a live school whose currency would change (`why`), else
straight to the write. `overlapped`, `torn`, `priced` and `crossed` record the
cases in which the code leaves a stale total or currency. Left out: resource
types, subsidy, cloning; payments count as money only through the ticket price
they need. `UpdateTicketPrices` is one statement and one step.

## 3. Runs

Every property has a comment in its module that states it in words.

| Run | Checks | Shows |
|---|---|---|
| `rollover_two_years` | `TypeOK`, `ExactlyOneActiveYear`, `CalendarSpec`, `OverrideSurvivesRecompute`, `CommitAppliesWholePlan`, `HistoryDivergesOnlyByStaleRead` | with plans, overrides, previews, repeated commits, deletions and reassignments in any order the tables stay consistent; with a deletion and an upsert among them, history leaves the placement through a stale unlocked read only |
| `enrollment_races` | `TypeOK`, `ConsentBeforeTeacher`, `OneRowPerMap`, `PricedEnrollmentHasPayment` | two handlers that may die anywhere, with price, class and event changing under them |
| `lifecycle_races` | `TypeOK`, `PublishedWasReviewed`, `AudienceAnnounced`, `LeavesLifecycleOnlyStale` | three requests of a teacher, a manager and an administrator race on one event |
| `pools_concurrent` | `TypeOK`, `UninitializedIsTransient`, `NoCircularWait`, `EveryCallReturns` | three tasks, nested locks, failures, a restart |
| `sessions_races` | `TypeOK`, `NoSpontaneousLogout`, `ReuseEndsFamily`, `ImplementsTokenFamily` | two refreshes at once, cut anywhere, with lost answers, expiry and deleted accounts |
| `accounts_login` | `TypeOK`, `OveruseIsBounded`, `OfferedPlacesWork`, `ChangedPasswordIsChecked` | two requests of one person over a school, the parents table and the platform race on a code that may be used once, beside a mailed invitation, with challenges, cuts and deletions |
| `access_person` | `TypeOK`, `AmbiguousNeverGuessed`, `RolesStayInTheirSchool`, `SelectedRolesAreLocal`, `BarStays` | two requests of one person with two schools while administrators change that person |
| `school_setup` | `TypeOK`, `MirrorFollows`, `ImplementsStages`, `LiveSchoolIsFrozen`, `SectionsAreKept` | two administrators set a school up from different gaps, the structure among them; and they save, import, edit and delete while a pupil is placed and enrols |
| `costing_lines` | `TypeOK`, `TotalsAgree`, `CurrencyOfMoneyIsFixed`, `RequestsEnd` | two requests on the lines of an event and the currency, while the school goes live; two replacements want more connections than the three there are, so that one waits, and both finish |

Three runs check a statement of the repository that the code does not keep; TLC
prints a sequence of steps:

| Run | Statement | What happens |
|---|---|---|
| `access_revoked` | `RevocationIsImmediate`: "revocation takes effect on the next request, not on the next token" (`core/dependencies.py` 1007) | the access token that a refresh hands out carries no email, and the status is probed only for users with an email |
| `accounts_invited` | `InvitationIsUsedOnce`: a mailed invitation has "max_uses": 1 (`auth/service.py` 346), and a code that has reached it is refused (379) | its uses are counted nowhere: two registrations, one after the other, finish with it |
| `costing_pool` | `RequestsEnd`: contention no longer queues "indefinitely instead of failing fast" (`core/config.py` 75-77) | as many replacements of lines as the pool has connections each hold one and wait for another, for which there is no timeout |

### Further disagreements

Met while modelling; each follows from the actions named and has no run of its
own.

Rollover, enrolment, lifecycle, pools:
- A preview in flight while its rollover is committed writes `previewed` over
  `committed` (`PreviewSet`; `tenant/service.py` 2274), although the commit is
  "irreversible" (`students/router.py` 1003).
- `reassign_student_class` and `create_student` accept a class of a closed year,
  although "nothing writes `class_id` to point at a non-active year's class"
  (ADR 0003:152). A student without a line stays in a closed year's class, or is
  placed although graduated (ADR 0003:154).
- The newest history row differs from the placement after a stale upsert, or when
  a student of a class that is being deleted is reassigned before it is unlinked
  (`tenant_repository.py` 617-620; bounded by `HistoryDivergesOnlyByStaleRead`).
- A payment that completes between the check and the delete of a cancellation is
  cascaded away ("Cannot cancel enrollment after payment", `tenant/service.py`
  1002). Two enroll requests that meet in `ON CONFLICT` both insert a payment
  ("one payment per enrollment", `tenant_repository.py` 1903). Without a default
  of `payments.currency` the insert fails after the enrolment is committed.
- Two maps let a student who changes class enroll twice (`tenant/service.py`
  881); a stale parent decision overwrites a later one (`students/router.py`
  767); an enrolment that commits between the history check and the delete of its
  class is lost (`tenant_repository.py` 1018).
- A publish in flight writes `published` over the `proposed` of a stale submit
  ("there is deliberately NO proposed -> published shortcut", `tenant/service.py`
  1536). A class added during a publish is not told (bounded by
  `AudienceAnnounced`). `create_event` notifies students of a draft
  (`tenant/service.py` 575, 859-861).
- The fast path of `get_pool` returns a pool whose tables are still being
  created, or were never created after a failure (ADR 0001:74).

Accounts and access:
- Concurrent registrations exceed `max_uses` (bounded by `OveruseIsBounded` for the
  rows of `invitations`, and by nothing for a mailed invitation).
- `delete_tenant_user` leaves the link of a parent. Login still offers the school,
  but the redemption of a challenge finds no account (`auth/service.py` 227-228);
  a login with no other match makes the account anew (against
  `tenant/service.py` 1995). `OfferedPlacesWork` excuses such a school (`gone`).
- Someone who is a linked parent and staff of one school changes one password
  and is checked against another (bounded by `ChangedPasswordIsChecked`).
- A registration cut before it writes the map leaves an account that login does
  not find when the person is mapped elsewhere. `login_redeem` consumes the
  challenge also when the school asked for was not offered.
- The token's role is joined with the users row (`dependencies.py` 711-742), so a
  demotion waits for the next token, against "take effect on the very next
  request" (`control_plane_repository.py` 489-491). A failure while the users row
  is read leaves the token's roles (against 704-710).
- Memberships "never cached" (293-295) are cached for 30 seconds.
- `_OverrideActor` and `_DeniedActor` (503-506, 536-539) are classes whose bodies
  name enclosing locals they reassign: creating them raises NameError, which is
  swallowed, so those audit records are never written (against 493-498).
- A deleted user whose request is in flight is provisioned again, and
  `delete_user_from_keycloak` removes the account for every school (against
  `tenant/service.py` 1996). The one organization of a Keycloak token gives way
  to the most recent row of the map.

School setup and structure:
- A new school that saves its structure before committing its profile is taken
  live by the rule for old schools (`dependencies.py` 1090-1096).
- Levels and classes are read apart. A level that was switched off after the first
  read and a section added before the second make a structure that never was, and
  an activation or the gate takes the school live on it (against
  `school/service.py` 282-284, "structure"). `ImplementsStages` promises no more
  than a level active at some time that had a section at some time.
- An enrolment that commits between the check of a removal and its delete is
  cascaded away with its payment (against `tenant_repository.py` 1018);
  `SectionsAreKept` excuses these (`late`).
- The curriculum lock is passed by a save that names no system (it writes the
  default, `tenant_repository.py` 192) and by one admitted before activation; a
  late request that resends an unchanged code undoes an early one's change.
- An import stops with an error at a row that violates a constraint, with the
  rows before it applied (against `tenant_repository.py` 1284). Two campuses can
  both be primary. The mirror lags after a swallowed failure.
- A save whose payload lists a grade that was deleted since it was fetched looks
  that grade up by name (`tenant_repository.py` 299-316). If another grade of the
  payload was renamed to that name meanwhile, both entries write one row, and the
  sections of the first end up under a grade that has the second one's name. So
  `SectionsAreKept` promises the grade of a listed section only when every listed
  grade is still there; the section and its pupils are kept in any case.

Costing:
- The currency "is immutable once payments, resource costs, or ticket prices have
  been recorded" (`school/service.py` 189-191) only from activation on, and a
  request that resends the currency it has read undoes a change made since
  (bounded by `CurrencyOfMoneyIsFixed`).
- An edit of the description writes back the quantity it read, without new
  totals. `add_resources_to_event` opens a transaction its statements do not run
  in: a failure half way leaves part of the list. Lines priced in different
  currencies are summed.

### Bounds
- Rollover: two years, two levels with a class each in the first year (so that
  promotion, graduation and hold are all proposed), one section, one student,
  one planning request, one deletion; overrides name the upper level. Where
  students are upserted (`upserting`) no class of the lower level is ever made. One
  rollover with any number of generates, previews and commits of it
  is enough for every interleaving of a plan with the other writers; what needs
  three years (plans that compete for a year) is covered by the theorems.
- Enrollment: one student, one map, two requests, two enrollment ids
  (`MaxEnrollments`), so that a row is cancelled and enrolled again while a
  handler still holds the old id. Free tickets occur through the price edit.
- Lifecycle: three requests, because the shortcut takes two stale ones and a
  third; one class; a teacher, a manager and an administrator, who is both.
- Pools: three tasks (holder, waiter, newcomer on the fast path), one tenant and
  the control plane, two failures (`MaxFailures`), one restart (`MaxRestarts`).
- Sessions: two logins, two requests, four tokens: a login, a rotation, a cut
  after a mint and the rotation of the retry fit into one family while the other
  one runs.
- Accounts: one school and the platform, two passwords, two requests, a code that
  may be used once, a mailed invitation of the school, the passphrase and one
  challenge. The code is one of the school or, in other behaviours, one of the
  platform (`OneCode`), without which login has nothing to choose between; that one
  does not expire before its use (`Lasting`). One request is enough for the violation.
- Access: two schools, two requests of one person, at most four things the person
  or an administrator does (`MaxEvents`), which is enough for a login, an
  invitation elsewhere, a suspension and a deletion in any order; three roles.
  The violation needs one request.
- Setup: two requests at a time and three in all (`MaxRequests`), two of them on
  the structure (`MaxEdits`), two grades, two sections. The school starts with one
  of two halves of its setup missing (`Gaps`), so that every check has something to
  miss, and then has no pupils; or with nothing missing, when there is a pupil to
  be placed and the code is let alone (`complete`).
- Costing: two requests, which may be one after the other, lists of two lines, two
  quantities, prices and currencies, and a pool of three connections, one less than
  two replacements want at once; for the violation two connections, as many as
  replacements, and one value of each. With three a request waits and gets its
  turn, with two it waits forever. Two requests are enough for each case in which
  the totals or the currency are excused. The code has `TENANT_POOL_MAX` = 5
  connections and any number of requests.
- Symmetry is used for safety only, never with `EveryCallReturns` or
  `RequestsEnd`.

### Fairness
`TenantPools` and `ResourceCosting` state fairness: weak fairness, for each task
or request, of "it makes its next step, or its statement raises". The event loop
runs every runnable task, and a database call returns or raises; a database that
hangs is excluded by this assumption. Waiting for a connection is not a
statement: a request that waits while none is free is disabled, so its fairness
does not help it. Weak fairness is enough because only `MaxRequests` requests
come, so nobody is overtaken forever; asyncpg serves its waiters in order.
Nothing is fair about new calls, failures or restarts. The other modules claim no
liveness.

## 4. Proofs

Every theorem holds for every value of the constants: any number of schools,
students, codes, tokens and concurrent requests, any number of failures. Each
rests on the named assumptions of its module and on nothing else: `None` (SQL
NULL) differs from every id and row, parameters have their types, and
- `Accounts.ConstantsAssumption`: finitely many requests at a time (their number
  is the bound of `OveruseIsBounded`), at least one; a code makes a super
  administrator exactly when it is one of the platform; a mailed invitation is one
  of a school, and no row of `invitations`;
- `Memberships.ConstantsAssumption`: finitely many schools, because
  `user_tenant_map` is ordered by time of update, and the two roles that the code
  itself writes, `parent` and `pending`, are roles;
- `TenantPools.ConstantsAssumption`: the control plane is no tenant;
- `ResourceCosting.ConstantsAssumption`: finitely many requests at a time,
  quantities, prices and the size of the pool are numbers. The theorems about the
  instance `Costing` state it as their hypothesis `Costing!Constants`;
- `SchoolSetup.SetupAssumption`: finitely many requests at a time, at least one
  (at most so many campuses are inserted), and `US`, which the code writes for a
  save that names no system, is one of at least two systems.

TLC evaluates the assumptions in every run of the module. Hardly any of the
properties is inductive. Each proof module starts with the invariant that is, as
a conjunction of named parts, and has one lemma per action or group of actions
that keeps it.

- **YearRolloverProofs**: `TypeCorrect`; `OneActiveYear`; `ImplementsCalendar`;
  `OverridesSurvive`; `WholePlans`; `HistoryAgrees`.
  `ExactlyOneActiveYear` is not inductive: a commit closes `r[1]` and activates
  `r[2]`, which is a hand-over only if `r[1]` is active and `r[2]` planned.
  `CalendarInv` adds that every stored plan, and every request about to store
  one, leaves from a year that has been active and goes to a year that is still
  planned as long as the first one is active. If `r[1]` has been closed, some
  other year is active, so the unique index fails the commit (or the target is that active
  year, and nothing changes). The three action properties need only the types:
  only its own commit stamps a rollover, and it partitions the unapplied lines by
  their effective action; every writer of `class_id` but the unlocked upsert and
  the class deletion computes history from the row it writes.
- **TripEnrollmentProofs**: `TypeCorrect`; `ConsentFirst` (a decision in flight
  by a teacher concerns a row that has consent, or an id whose row is gone for
  good, because ids are not used twice); `RowsSound` (ids from `nextId` on are
  fresh, so an insert without conflict makes no second row and revives no
  payment); `Billed` (an enrollment without a payment is awaited by a request in
  state `payment` or excused; the number of payments of a row never drops).
- **EventLifecycleProofs**: `TypeCorrect`; `Reviewed` (stamps are never cleared
  and a request in flight was admitted from a status whose stamps were set, so a
  stale write cannot publish what was never reviewed); `Announced` (a publish in
  flight has announced, or still holds, each class that is not `late`);
  `StaleWritesOnly` (`FreshUnlessStale`: what a transition has read is the status,
  unless it is `stale`; then its write is a step of the promise or stale);
  `SerialImplementsLifecycle` (with one slot, what a transition read is still
  true when it writes).
- **TenantPoolsProofs**: `TypeCorrect`; `PoolsBecomeReady`; `DeadlockFree`.
  `Owners` says which locks a task holds at each await, `Queued` that a queue has
  no task twice and only tasks that hold or want its lock, `Waiting` that whoever
  waits is in the queue. So the holder of a tenant's lock either runs or waits for
  the control plane's, and the holder of that one waits for nothing. The
  exceptions are the hard part: a task that fails under both locks must leave both
  queues.
- **SessionsProofs**: `TypeCorrect`; `QuietBrowserStaysIn`; `ReuseIsFinal`;
  `RotationImplementsPromise` (`Sessions` implements
  `TokenFamily`). `Flight` says that
  a request redeems a token that was handed out and that the one it minted is its
  own and unknown to others; `Single` that, until two of its requests overlap, a
  family has one redeemable token and the one request past its check holds it (so
  a rotation is a redemption of the promise and a mint is invisible); `Calm` that,
  until an answer is lost too, the requests in flight present the saved token and
  that token is good unless an answer is on its way.
- **AccountsProofs**: `TypeCorrect`; `OveruseBound`; `OffersWork`;
  `ChangedPasswords`. Links, sessions and counts are never taken back, but a users
  row is, so the invariant says what a request in flight may still rely on: `Rows`
  relates the stores, `Flight` says what each request has established, `Tokens`
  which sessions there are. `Owed` is the heart of `OffersWork`: a place that is
  linked, matched by a login or offered by a challenge has its account, or the
  account was cut or deleted, or a request in flight is about to write it. It covers
  links and logins too because a challenge is made of what a login matched, and a
  login matches what is linked. `Counted` strengthens the bound on a code: uses plus registrations past the check stay
  below the maximum plus the number of requests. A registration that passes the
  check saw a use left, and at most all the other requests are past it as well.
- **TenantAccessProofs**: `TypeCorrect`; `NeverGuessed`; `RolesStay`;
  `SelectedRoles`; `BarsStay`. The invariant follows the locals of
  `get_current_user` through its awaits. `Requested` says for each request that
  with several organizations it takes no school but the header's, and that the
  role it may write was given at its school, unless that school is in `hurt`; `Promised` the same for the invitations and for
  what the administrator's request still has to write (`Mailed`: both kinds of
  invitation); `WellGiven` for the users
  rows, the map and the links; `TokenKinds` which claims a token of each kind has.
  `SelectedRoles` is a property of the step that lets a request through. `BarsStay`
  goes through the writers of `user_tenant_map`: an upsert of an existing row keeps
  its status, healing and provisioning are such upserts, and the backfill of a
  restart inserts only rows that are missing.
- **SchoolSetupProofs**: `MirrorIsRight`; `LiveIsFrozen`;
  `SetupImplementsStages` (`SchoolSetup` implements `SetupStages`). `Mirrored`
  says that the one update of the mirror under way carries the code of the
  profile; `Frozen` that a request which is not `early` has compared code and
  system with those of the live school; `Recorded` that whatever a request has
  seen on its way to a stamp was on record at some time: the levels it holds were
  `opened`, and one of them is `filled` when it goes on.
- **SchoolSetupProofs**, the structure: `SetupTyped`; `SectionsStay`; both from
  `SetupTInv`, which is `IInv`, `TInv` and `Watched`. `Sound(d)` is a database in the middle of a transaction: rows in
  their domains, foreign keys kept, and section names unique as long as nothing
  rolled back. One lemma per statement (`WriteClassSound` .. `RemoveClassesSound`)
  says what it makes of a sound database, `SaveSectionsFiles` and `SaveLevelsIs`
  what the two loops of `save_academic_structure` make of it, and
  `SaveStructureIs` what a whole save does: nothing listed and nothing beyond the
  sections found before its check is lost, pupils stay, and the listed sections are under the rows of their grades.
  That needs a payload in which every level and section has one place
  (`Payload`): `FetchedLevelsFresh` and `FetchedClassesFresh` show that of what a
  client fetches in two statements, and `EditsArePayloads` that its edits keep it. `Carries` follows the payloads, rows
  and names that a request holds from one statement to the next; `Room` counts the
  requests that saw no campus, each of which may still insert one.
- **TenantPoolsProofs**, the instance `Costing` of `ResourceCosting`:
  `CostingTyped`; `TotalsStayRight`; `CurrencyIsFixed`. `Marked` says that two
  requests on one line have marked it `overlapped`; `Current` that on an unmarked
  line the quantity a request has read or written is still the line's; `Agree`
  that the total of an unmarked, untorn line is right or awaited by an update past
  its first write; `Noticed` that what let a currency change pass (no money,
  or the same currency) still holds or its end is known to it; `Counted` that kept
  and used connections are within the pool. The theorem about the sum rests on the sums of
  equal functions being equal; no sum is computed.

The loops of a save are recursive functions over the length of the payload.
What they compute is proved by induction over the set of indices for which it
holds: `NatMin`, `SetInduction` and `UpTo` take a set in place of a predicate and
rest on the library's `WFMin`.

TLC checked each inductive invariant on its run's instance before it was proved.

Only model-checked: `EveryCallReturns` and `RequestsEnd`, liveness under
fairness, which is out of the prover's reach. `DeadlockFree` is the safety half of
the first. Every other property of a passing run is stated by a theorem.

## 5. Not modelled, and the plan

What is left, in this order:

1. Notifications: one recipient at a time with failures and repeats
   (`create_event`, `transition_event`), which the sets of `EventLifecycle` cannot
   count.
2. The composite-role expansion of `authz.py` as operators.
3. Rollover with three years and two plans by TLC (today by the theorems only).

Left out for good: DDL and migrations (their constraints are in the models that
rely on them), the OPA policies, the gateway, seeding scripts, metrics, read-only
listings, the family overview and analytics, the append-only audit log, access
requests and the default membership (no endpoint calls them), the parsing of
import files, Keycloak's realm roles and groups, and super administrators beyond
their account.
