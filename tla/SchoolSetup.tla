------------------------------ MODULE SchoolSetup -----------------------------
(***************************************************************************)
(* The setup of a school and the editing of its structure: SchoolService,  *)
(* the gate require_tenant_live, and the structure endpoints of            *)
(* students/router.  Requests run concurrently; every await between two    *)
(* statements is a step of its own.  A transaction that saves or deletes   *)
(* checks in one step and writes in another: what others commit in between *)
(* is READ COMMITTED's to see.                                             *)
(***************************************************************************)
EXTENDS AcademicStructure

CONSTANTS Requests, MaxRequests, MaxEdits, Codes, Systems, Gaps

\* US is the system of a save that names none; a draft has another.
ASSUME SetupAssumption ==
  /\ IsFiniteSet(Requests) /\ Requests # {} /\ MaxRequests \in Nat /\ MaxEdits \in Nat
  /\ "US" \in Systems /\ \E s \in Systems : s # "US"

\* Values of school_code: NULL, the empty string, or a code.
Blank == ""
CodeValues == Codes \cup {Blank, None}

VARIABLES
  school,    \* the school_profile row; filled: the other required fields are set
  campuses,  \* rows of school_campus
  contacts,  \* rows of school_contact that count as an emergency contact
  system,    \* academic_settings.system
  db,        \* levels, classes, placements and sections with enrolments (AcademicStructure)
  mirror,    \* tenants.school_code of the control plane
  req,       \* the requests in flight
  sent,      \* how many requests were started; at most MaxRequests
  edits,     \* how many of them edit the structure; at most MaxEdits
  facts,     \* history: what was on record at some time
  opened,    \* history: levels that were active at some time before the school was live
  filled,    \* history: levels that had a section at some time before
  early,     \* history: requests in flight when the school went live or its
             \* system was reset, and the ones that overlap those
  late,      \* history: sections with an enrolment since the check of a removal
  blurred    \* history: a mirror update failed, or two ran at once

stored == <<school, campuses, contacts, system, db, mirror>>
vars == <<stored, req, sent, edits, facts, opened, filled, early, late, blurred>>

Idle == [op |-> "none", pc |-> "idle", payload |-> <<>>, rows |-> <<>>, name |-> None,
         id |-> 0, class |-> 0, ids |-> {}, to |-> None, active |-> TRUE]

Holding ==
  {f \in {"fields", "campus", "contact"} :
     CASE f = "fields" -> school.filled /\ school.code \notin {Blank, None}
       [] f = "campus" -> campuses > 0
       [] f = "contact" -> contacts > 0}

Ops == {"none", "profile", "campus", "contact", "commit", "activate", "look", "save",
        "import", "edit", "class", "level"}

\* Domains of the stored rows and of the requests.
TypeOK ==
  /\ school \in [filled : BOOLEAN, code : CodeValues, committed : BOOLEAN, live : BOOLEAN]
  /\ campuses \in 0 .. Cardinality(Requests) /\ contacts \in Nat
  /\ system \in Systems /\ mirror \in CodeValues
  /\ DOMAIN db.levels \cup DOMAIN db.classes \subseteq 1 .. db.next - 1
  /\ \A l \in DOMAIN db.levels : db.levels[l] \in [name : Grades, active : BOOLEAN]
  /\ \A c \in DOMAIN db.classes : db.classes[c] \in [name : Sections, level : DOMAIN db.levels]
  /\ \A c, d \in DOMAIN db.classes : db.classes[c].name = db.classes[d].name => c = d
  /\ \A s \in Students : db.placed[s] \in DOMAIN db.classes \cup {0}
  /\ db.kept = {} /\ db.ok
  /\ \A r \in Requests : req[r].op \in Ops
  /\ sent \in 0 .. MaxRequests /\ edits \in 0 .. MaxEdits

-------------------------------------------------------------------------------
(* Requests. *)

Editing == {"save", "import", "edit", "class", "level"}

Begin(r, q) ==
  /\ req[r] = Idle /\ sent < MaxRequests
  /\ req' = [req EXCEPT ![r] = q]
  /\ sent' = sent + 1
  /\ edits' = IF q.op \in Editing THEN edits + 1 ELSE edits
  /\ edits' <= MaxEdits
  /\ early' = IF early = {} THEN {} ELSE early \cup {r}
  /\ UNCHANGED <<late, blurred>>

\* The request goes on as q; Idle: it was answered.
Go(r, q) ==
  /\ req' = [req EXCEPT ![r] = q]
  /\ early' = IF q = Idle THEN early \ {r} ELSE early
  /\ UNCHANGED <<sent, edits, late>>

Then(r, q) == Go(r, q) /\ UNCHANGED blurred
To(r, pc) == Then(r, [req[r] EXCEPT !.pc = pc])
Answer(r) == Then(r, Idle)
At(r, op, pc) == req[r].op = op /\ req[r].pc = pc

Others(r) == {o \in Requests \ {r} : req[o] # Idle}

\* activated_at and curriculum_locked_at are stamped.
GoLive(r, q) ==
  /\ school' = [school EXCEPT !.committed = TRUE, !.live = TRUE]
  /\ req' = [req EXCEPT ![r] = q]
  /\ early' = (IF school.live THEN early ELSE Others(r) \cup {r}) \ (IF q = Idle THEN {r} ELSE {})
  /\ UNCHANGED <<campuses, contacts, system, db, mirror, sent, edits, late, blurred>>

\* get_academic_structure as far as has_structure goes: the active levels are
\* read, and then whether a class is under one of them.
ReadLevels(r, pc) == Then(r, [req[r] EXCEPT !.pc = pc, !.ids = ActiveLevels(db)])
HasStructure(r) == req[r].ids \cap FilledLevels(db) # {}

-------------------------------------------------------------------------------
(* The profile and its mirror. *)

Patches == [code : Codes \cup {Blank}, filled : {None}] \cup [code : {None}, filled : BOOLEAN]

UpdateProfileCheck(r, p) ==
  /\ ~(school.live /\ p.code # None /\ p.code # school.code)
  /\ Begin(r, [Idle EXCEPT !.op = "profile", !.pc = "write", !.to = p.code, !.active = p.filled])
  /\ UNCHANGED stored

\* A mutant of the next definition.
UpdateProfileSyncsOld(r) ==
  /\ At(r, "profile", "write")
  /\ school' = [school EXCEPT !.code = IF req[r].to = None THEN @ ELSE req[r].to,
                              !.filled = IF req[r].active = None THEN @ ELSE req[r].active]
  /\ Then(r, [req[r] EXCEPT !.pc = "mirror", !.to = school.code])
  /\ UNCHANGED <<campuses, contacts, system, db, mirror>>

\* UPDATE ... RETURNING: the mirror gets the row as this statement left it.
UpdateProfile(r) ==
  /\ At(r, "profile", "write")
  /\ school' = [school EXCEPT !.code = IF req[r].to = None THEN @ ELSE req[r].to,
                              !.filled = IF req[r].active = None THEN @ ELSE req[r].active]
  /\ Then(r, [req[r] EXCEPT !.pc = "mirror", !.to = school'.code])
  /\ UNCHANGED <<campuses, contacts, system, db, mirror>>

\* The last step of update_profile, commit_profile and activate; errors are
\* swallowed.
SyncTenantMirror(r) ==
  /\ req[r].pc = "mirror"
  /\ \/ /\ mirror' = IF req[r].to = None THEN mirror ELSE req[r].to
        /\ blurred' = (blurred \/ \E o \in Requests \ {r} : req[o].pc = "mirror")
     \/ UNCHANGED mirror /\ blurred' = TRUE
  /\ Go(r, Idle)
  /\ UNCHANGED <<school, campuses, contacts, system, db>>

-------------------------------------------------------------------------------
(* Campus and contacts. *)

UpsertCampusRead(r) ==
  /\ Begin(r, [Idle EXCEPT !.op = "campus", !.pc = IF campuses > 0 THEN "update" ELSE "insert"])
  /\ UNCHANGED stored

UpsertCampus(r) ==
  /\ req[r].op = "campus"
  /\ campuses' = IF req[r].pc = "insert" THEN campuses + 1 ELSE campuses
  /\ Answer(r)
  /\ UNCHANGED <<school, contacts, system, db, mirror>>

\* create_contact, update_contact and delete_contact are one statement each.
WriteContact(r) ==
  /\ req[r] = Idle /\ sent < MaxRequests
  /\ \/ contacts' = contacts + 1
     \/ contacts > 0 /\ contacts' = contacts - 1
  /\ sent' = sent + 1
  /\ UNCHANGED <<school, campuses, system, db, mirror, req, edits, early, late, blurred>>

-------------------------------------------------------------------------------
(* commit_profile and activate. *)

CommitProfileCheck(r) ==
  /\ ~school.committed /\ school.filled /\ school.code \notin {Blank, None}
  /\ Begin(r, [Idle EXCEPT !.op = "commit", !.pc = "campus"])
  /\ UNCHANGED stored

\* A mutant of the next definition.
CommitProfileSkipsCampus(r) ==
  /\ \/ At(r, "commit", "campus") /\ To(r, "contact")
     \/ At(r, "commit", "contact")
        /\ IF contacts > 0 THEN To(r, "stamp") ELSE Answer(r)
  /\ UNCHANGED stored

CommitProfileReads(r) ==
  /\ \/ At(r, "commit", "campus")
        /\ IF campuses > 0 THEN To(r, "contact") ELSE Answer(r)
     \/ At(r, "commit", "contact")
        /\ IF contacts > 0 THEN To(r, "stamp") ELSE Answer(r)
  /\ UNCHANGED stored

StampProfileCommitted(r) ==
  /\ At(r, "commit", "stamp")
  /\ school' = [school EXCEPT !.committed = TRUE]
  /\ To(r, "reread")
  /\ UNCHANGED <<campuses, contacts, system, db, mirror>>

ActivateCheck(r) ==
  /\ ~school.live /\ school.committed
  /\ Begin(r, [Idle EXCEPT !.op = "activate", !.pc = "structure"])
  /\ UNCHANGED stored

ActivateReads(r) ==
  /\ \/ At(r, "activate", "structure") /\ ReadLevels(r, "classes")
     \/ At(r, "activate", "classes")
        /\ IF HasStructure(r) THEN Then(r, [req[r] EXCEPT !.pc = "stamp", !.ids = {}]) ELSE Answer(r)
  /\ UNCHANGED stored

Activate(r) ==
  /\ At(r, "activate", "stamp")
  /\ GoLive(r, [req[r] EXCEPT !.pc = "reread"])

\* get_profile_row, for the mirror.
Reread(r) ==
  /\ req[r].pc = "reread"
  /\ Then(r, [req[r] EXCEPT !.pc = "mirror", !.to = school.code])
  /\ UNCHANGED stored

-------------------------------------------------------------------------------
(* require_tenant_live, in front of every gated endpoint, and              *)
(* get_setup_state, which makes the same reads.                            *)

Gated == {[op |-> "look", name |-> None, id |-> 0, active |-> TRUE]}
         \cup [op : {"import"}, name : Grades, id : {0}, active : BOOLEAN]
         \cup [op : {"edit"}, name : Grades, id : DOMAIN db.levels, active : {None}]
         \cup [op : {"edit"}, name : {None}, id : DOMAIN db.levels, active : BOOLEAN]
         \cup [op : {"class"}, name : {None}, id : DOMAIN db.classes, active : {TRUE}]
         \cup [op : {"level"}, name : {None}, id : DOMAIN db.levels, active : {TRUE}]

\* Request q past the gate: create_level is an import of one grade.
Endpoint(q) ==
  CASE q.op = "look" -> Idle
    [] q.op = "import" -> [q EXCEPT !.pc = "grade", !.ids = {}, !.rows = <<[grade |-> q.name, class |-> None]>>]
    [] OTHER -> [q EXCEPT !.pc = "read", !.ids = {}]

\* The first read; a super_admin passes without it.
GateRead(r, g) ==
  /\ LET q == [Idle EXCEPT !.op = g.op, !.name = g.name, !.id = g.id, !.active = g.active] IN
       IF school.live THEN g.op # "look" /\ Begin(r, Endpoint(q))
       ELSE Begin(r, [q EXCEPT !.pc = "structure?"])
  /\ UNCHANGED stored

\* An error in the gate lets the request pass.
GateReadsStructure(r) ==
  /\ \/ req[r].pc = "structure?" /\ ReadLevels(r, "classes?")
     \/ req[r].pc = "classes?" /\ IF HasStructure(r) THEN To(r, "grandfather") ELSE Answer(r)
     \/ req[r].pc \in {"structure?", "classes?"} /\ Then(r, Endpoint(req[r]))
  /\ UNCHANGED stored

\* UPDATE ... WHERE activated_at IS NULL.
GrandfatherActivateIfMissing(r) ==
  /\ req[r].pc = "grandfather"
  /\ GoLive(r, Endpoint(req[r]))

-------------------------------------------------------------------------------
(* The structure wizard. *)

\* GET /structure: what the client will edit, the system first, then the levels,
\* then the classes of those.
GetAcademicStructure(r) ==
  /\ Begin(r, [Idle EXCEPT !.op = "save", !.pc = "levels", !.to = system])
  /\ UNCHANGED stored

GetLevelsAndClasses(r) ==
  /\ \/ At(r, "save", "levels")
        /\ Then(r, [req[r] EXCEPT !.pc = "classes", !.payload = FetchedLevels(db)])
     \/ At(r, "save", "classes")
        /\ Then(r, [req[r] EXCEPT !.pc = "fetched", !.payload = FetchedClasses(db, @)])
  /\ UNCHANGED stored

\* POST /structure/setup, with one edit of the structure or of the system, which
\* may be left empty; it reads curriculum_locked_at.
PostAcademicStructure(r, p, s) ==
  /\ At(r, "save", "fetched")
  /\ p = req[r].payload \/ s = req[r].to
  /\ Then(r, [req[r] EXCEPT !.payload = p, !.to = s,
                            !.pc = IF school.live THEN "compare" ELSE "save"])
  /\ UNCHANGED stored

\* A mutant of the next definition.
CompareNothing(r) ==
  /\ At(r, "save", "compare")
  /\ To(r, "save")
  /\ UNCHANGED stored

CompareSystem(r) ==
  /\ At(r, "save", "compare")
  /\ IF req[r].to \in {Blank, system} THEN To(r, "save") ELSE Answer(r)
  /\ UNCHANGED stored

\* The transaction up to the check of the sections it is going to remove.
SaveChecks(r) ==
  /\ At(r, "save", "save")
  /\ LET d == SaveStructure(db, req[r].payload, DOMAIN db.classes)
         gone == DOMAIN db.classes \ DOMAIN d.classes
     IN IF d.ok /\ gone \cap db.enrolled = {}
        THEN Then(r, [req[r] EXCEPT !.pc = "remove", !.ids = gone]) ELSE Answer(r)
  /\ UNCHANGED stored

\* A pupil who is placed after the classes were emptied stops their deletion.
Held(cs) == \E s \in Students : db.placed[s] \in cs

\* Its writes, and the commit.
SaveAcademicStructure(r) ==
  /\ At(r, "save", "remove")
  /\ LET d == SaveStructure(db, req[r].payload, req[r].ids) IN
       \/ /\ d.ok
          /\ db' = d /\ system' = IF req[r].to = Blank THEN "US" ELSE req[r].to
       \/ /\ ~d.ok \/ Held(req[r].ids)
          /\ UNCHANGED <<db, system>>
  /\ req' = [req EXCEPT ![r] = Idle]
  /\ early' = IF school.live /\ req[r].to = Blank THEN Others(r) ELSE early \ {r}
  /\ UNCHANGED <<school, campuses, contacts, mirror, sent, edits, late, blurred>>

-------------------------------------------------------------------------------
(* The import of grades and classes, a row at a time and no transaction;    *)
(* create_level is its first half.                                          *)

Files == LET row == [grade : Grades, class : Sections]
         IN {f \in {<<a, b>> : a, b \in row} : f[1] # f[2]}

CommitStructureImport(r, file) ==
  /\ Begin(r, [Idle EXCEPT !.op = "import", !.pc = "grade", !.rows = file])
  /\ UNCHANGED stored

NextRow(r) ==
  IF Len(req[r].rows) = 1 THEN Idle
  ELSE [req[r] EXCEPT !.rows = Tail(@), !.pc = "grade", !.id = 0, !.class = 0]

GetLevelByName(r) ==
  /\ At(r, "import", "grade")
  /\ Then(r, [req[r] EXCEPT !.pc = "upsert grade", !.id = LevelNamed(db, Head(req[r].rows).grade)])
  /\ UNCHANGED stored

\* The level may be gone: either update_level sees it and the row is skipped, or
\* its UPDATE finds nothing.
UpsertLevelByName(r) ==
  /\ At(r, "import", "upsert grade")
  /\ LET row == Head(req[r].rows)
         l == IF req[r].id = 0 THEN db.next ELSE req[r].id
         on == IF row.class = None THEN NextRow(r) ELSE [req[r] EXCEPT !.pc = "class", !.id = l]
     IN \/ /\ req[r].id = 0
           /\ db' = InsertLevel(db, row.grade, req[r].active)
           /\ Then(r, on)
        \/ /\ req[r].id \in DOMAIN db.levels
           /\ db' = WriteLevel(db, l, row.grade, req[r].active)
           /\ Then(r, on)
        \/ /\ req[r].id \notin DOMAIN db.levels \cup {0}
           /\ Then(r, on) \/ Then(r, NextRow(r))
           /\ UNCHANGED db
  /\ UNCHANGED <<school, campuses, contacts, system, mirror>>

GetClassByNameAndLevel(r) ==
  /\ At(r, "import", "class")
  /\ LET c == ClassNamed(db, req[r].id, Head(req[r].rows).class)
     IN Then(r, [req[r] EXCEPT !.pc = "upsert class", !.class = c])
  /\ UNCHANGED stored

\* A violated constraint is no ValueError: it ends the whole import.
UpsertClassByNameAndLevel(r) ==
  /\ At(r, "import", "upsert class")
  /\ LET d == UpsertClass(db, req[r].class, Head(req[r].rows).class, req[r].id)
         ok == d.ok /\ (d.classes = db.classes \/ req[r].id \in DOMAIN db.levels)
     IN /\ db' = IF ok THEN d ELSE db
        /\ Then(r, IF ok THEN NextRow(r) ELSE Idle)
  /\ UNCHANGED <<school, campuses, contacts, system, mirror>>

-------------------------------------------------------------------------------
(* update_level, delete_level and delete_class, behind the gate. *)

GetLevelById(r) ==
  /\ At(r, "edit", "read")
  /\ IF req[r].id \in DOMAIN db.levels
     THEN LET row == db.levels[req[r].id] IN
            Then(r, [req[r] EXCEPT !.pc = "write",
                                   !.name = IF @ = None THEN row.name ELSE @,
                                   !.active = IF @ = None THEN row.active ELSE @])
     ELSE Answer(r)
  /\ UNCHANGED stored

\* All columns are written back, the ones that were only read too.
UpdateLevel(r) ==
  /\ At(r, "edit", "write")
  /\ db' = IF req[r].id \in DOMAIN db.levels
           THEN WriteLevel(db, req[r].id, req[r].name, req[r].active) ELSE db
  /\ Answer(r)
  /\ UNCHANGED <<school, campuses, contacts, system, mirror>>

BlockIfClassesHaveEnrollmentHistory(r) ==
  /\ req[r].op \in {"class", "level"} /\ req[r].pc = "read"
  /\ LET there == IF req[r].op = "class" THEN DOMAIN db.classes ELSE DOMAIN db.levels
         ids == IF req[r].op = "class" THEN {req[r].id} ELSE ClassesOf(db, req[r].id)
     IN IF req[r].id \in there /\ ids \cap db.enrolled = {}
        THEN Then(r, [req[r] EXCEPT !.pc = "remove", !.ids = ids])
        ELSE Answer(r)
  /\ UNCHANGED stored

Delete(r) ==
  /\ req[r].op \in {"class", "level"} /\ req[r].pc = "remove"
  /\ LET d == IF req[r].op = "class" THEN DeleteClass(db, req[r].id)
              ELSE DeleteLevel(db, req[r].id, req[r].ids)
     IN \/ d.ok /\ db' = d
        \/ (~d.ok \/ Held(req[r].ids)) /\ UNCHANGED db
  /\ Answer(r)
  /\ UNCHANGED <<school, campuses, contacts, system, mirror>>

-------------------------------------------------------------------------------
(* A new pupil is put in a class and enrols for a trip of its class. *)

PlaceStudent(s, c) ==
  /\ school.live /\ db.placed[s] = 0
  /\ db' = [db EXCEPT !.placed[s] = c]
  /\ UNCHANGED <<school, campuses, contacts, system, mirror, req, sent, edits, early, late, blurred>>

EnrollStudent(s) ==
  /\ school.live /\ db.placed[s] \notin db.enrolled \cup {0}
  /\ db' = [db EXCEPT !.enrolled = @ \cup {db.placed[s]}]
  /\ late' = IF \E r \in Requests : req[r].pc = "remove" /\ db.placed[s] \in req[r].ids
             THEN late \cup {db.placed[s]} ELSE late
  /\ UNCHANGED <<school, campuses, contacts, system, mirror, req, sent, edits, early, blurred>>

-------------------------------------------------------------------------------
\* Draft structures: a grade with a section, and one without.
Draft(g, h, n) == InsertClass(InsertLevel(InsertLevel(EmptyDb, g, TRUE), h, TRUE), n, 1)
Drafts == UNION {{Draft(g, h, n) : h \in Grades \ {g}, n \in Sections} : g \in Grades}

\* A school in setup; lacks: what was not entered yet.
Init ==
  /\ \E lacks \in Gaps :
       /\ school \in [filled : {"fields" \notin lacks}, committed : {FALSE}, live : {FALSE},
                      code : IF "code" \in lacks THEN {None} ELSE Codes]
       /\ campuses = IF "campus" \in lacks THEN 0 ELSE 1
       /\ contacts = IF "contact" \in lacks THEN 0 ELSE 1
       /\ db \in IF "structure" \in lacks THEN {EmptyDb} ELSE Drafts
  /\ system = CHOOSE s \in Systems : s # "US"
  /\ mirror = school.code
  /\ req = [r \in Requests |-> Idle] /\ sent = 0 /\ edits = 0
  /\ facts = Holding /\ opened = ActiveLevels(db) /\ filled = FilledLevels(db)
  /\ early = {} /\ late = {} /\ blurred = FALSE

Step ==
  \/ \E r \in Requests :
       \/ \E p \in Patches : UpdateProfileCheck(r, p)
       \/ UpdateProfile(r) \/ SyncTenantMirror(r)
       \/ UpsertCampusRead(r) \/ UpsertCampus(r) \/ WriteContact(r)
       \/ CommitProfileCheck(r) \/ CommitProfileReads(r) \/ StampProfileCommitted(r)
       \/ ActivateCheck(r) \/ ActivateReads(r) \/ Activate(r) \/ Reread(r)
       \/ \E g \in Gated : GateRead(r, g)
       \/ GateReadsStructure(r) \/ GrandfatherActivateIfMissing(r)
       \/ GetAcademicStructure(r) \/ GetLevelsAndClasses(r)
       \/ \E p \in Edits(req[r].payload), s \in Systems \cup {Blank} : PostAcademicStructure(r, p, s)
       \/ CompareSystem(r) \/ SaveChecks(r) \/ SaveAcademicStructure(r)
       \/ \E f \in Files : CommitStructureImport(r, f)
       \/ GetLevelByName(r) \/ UpsertLevelByName(r)
       \/ GetClassByNameAndLevel(r) \/ UpsertClassByNameAndLevel(r)
       \/ GetLevelById(r) \/ UpdateLevel(r)
       \/ BlockIfClassesHaveEnrollmentHistory(r) \/ Delete(r)
  \/ \E s \in Students : (\E c \in DOMAIN db.classes : PlaceStudent(s, c)) \/ EnrollStudent(s)

Next ==
  /\ Step
  /\ facts' = facts \cup Holding'
  /\ opened' = IF school.live THEN opened ELSE opened \cup ActiveLevels(db')
  /\ filled' = IF school.live THEN filled ELSE filled \cup FilledLevels(db')
Spec == Init /\ [][Next]_vars

-------------------------------------------------------------------------------
(* Properties. *)

Stages == INSTANCE SetupStages WITH
  stage <- IF school.live THEN "live" ELSE IF school.committed THEN "committed" ELSE "setup",
  Facts <- {"fields", "campus", "contact", "structure"},
  facts <- facts \cup IF opened \cap filled # {} THEN {"structure"} ELSE {}

\* Setup implements the staged promise although commit_profile, activate and the
\* gate read the profile, the campuses, the contacts, the levels and the classes
\* in statements of their own.  What they promise of the structure is less than
\* has_structure says: a level that was active at some time, and had a section at
\* some time, but perhaps not at once.
ImplementsStages == Stages!Spec

\* Once a school is live and the requests that were in flight then, and the ones
\* that overlapped them, are done, no update changes its code and no save its
\* curriculum system, short of a save that names no system and gets the default.
LiveSchoolIsFrozen ==
  [][school.live /\ early = {} =>
       /\ school'.code = school.code
       /\ system' # system =>
            \E r \in Requests : At(r, "save", "remove") /\ req[r].to = Blank]_vars

\* However saves, imports and deletions interleave, a section goes only when a
\* save left it out or a delete named it or its level.  With one that a save left
\* out, or that delete_class named, no enrolments go but ones that came in after
\* the check of a removal.  A save keeps every section it lists that is still there,
\* with its pupils, and under the grade that lists it as long as no grade that
\* it lists has been deleted since.
SectionsAreKept ==
  [][/\ \A c \in DOMAIN db.classes \ DOMAIN db'.classes : \E r \in Requests :
          \/ /\ \/ At(r, "save", "remove") /\ c \notin Listed(req[r].payload)
                \/ At(r, "class", "remove") /\ c = req[r].id
             /\ c \in db.enrolled => c \in late
          \/ At(r, "level", "remove") /\ db.classes[c].level = req[r].id
     /\ \A r \in Requests :
          At(r, "save", "remove") /\ req'[r] = Idle /\ db' # db =>
            \A i \in DOMAIN req[r].payload : \A j \in DOMAIN req[r].payload[i].sections :
              LET c == req[r].payload[i].sections[j].id IN
              c \in DOMAIN db.classes =>
                /\ c \in DOMAIN db'.classes
                /\ \A s \in Students : db.placed[s] = c => db'.placed[s] = c
                /\ (\A k \in DOMAIN req[r].payload : req[r].payload[k].id \in DOMAIN db.levels \cup {0})
                     => db'.levels[db'.classes[c].level].name = req[r].payload[i].name]_vars

\* With no mirror update outstanding, none lost and none overlapping, the control
\* plane shows the code of the school.
MirrorFollows ==
  ~blurred /\ (\A r \in Requests : req[r].pc # "mirror") => mirror = school.code
===============================================================================
