----------------------------- MODULE YearRollover -----------------------------
(***************************************************************************)
(* The year-rollover engine of a tenant (ADR 0003) together with every     *)
(* other writer of students.class_id: academic years, the classes of each  *)
(* year, the students' placements, the rollover plans with one line per    *)
(* student, and the last row of each student's placement history.          *)
(*                                                                         *)
(* A transaction that locks what it reads is one step.  A handler that     *)
(* runs several statements outside a transaction (generate, preview), or   *)
(* reads without a lock what it writes from later (create_student,         *)
(* delete_class; transactions are READ COMMITTED) is several steps, and    *)
(* any other handler may run between them.                                 *)
(***************************************************************************)
EXTENDS Integers, FiniteSets

CONSTANTS
  Years,          \* ids of academic_years
  FirstYear,      \* the year the tenant schema is seeded with
  Levels,         \* ids of levels
  Ordinal,        \* Ordinal[l]: levels.ordinal, not necessarily unique
  Sections,       \* section labels that a class name can be parsed to
  AdminClasses,   \* classes that admins create or deactivate by hand in this instance
  OverrideTargets,\* <<to_level_id, to_section_label>> pairs sent with overrides
  Students,       \* ids of students
  Updated,        \* students for whom create_student runs again in this instance
  Admins,         \* concurrent generate / preview requests
  Removers,       \* concurrent delete_class requests
  None            \* SQL NULL

\* A class is identified by its year and its name "<level> - <section>"; a
\* label of None stands for a name without a parseable section.  Deleting a
\* class clears every stored reference to it; a request in flight may take a
\* class of the same name made since for it, where the code's ids differ.
Label   == Sections \cup {None}
ClassId == [year : Years, level : Levels, label : Label]

ASSUME ConstantsAssumption ==
  /\ Ordinal \in [Levels -> Nat]
  /\ FirstYear \in Years
  /\ Updated \subseteq Students
  /\ AdminClasses \subseteq ClassId
  /\ OverrideTargets \subseteq (Levels \cup {None}) \X Label
  /\ None \notin Years /\ None \notin Levels /\ None \notin Sections /\ None \notin ClassId

VARIABLES
  status,     \* academic_years.status, "absent" before the row exists
  class,      \* class[c]: "absent", or whether the class row is_active
  cls,        \* students.class_id
  sstat,      \* students.status
  rollover,   \* year_rollover.state of the row <<from_year, to_year>>
  lines,      \* lines[r][s]: the year_rollover_line of student s, or None
  hist,       \* new_class_id of the student_class_history row inserted last, None if none
  job,        \* job[a]: the generate or preview request admin a has in flight
  upsert,     \* upsert[s]: the create_student transaction in flight, or None
  removal     \* removal[d]: the delete_class transaction in flight, or None

vars == <<status, class, cls, sstat, rollover, lines, hist, job, upsert, removal>>

Rollovers == Years \X Years
Placement == ClassId \cup {None}
Actions   == {"promote", "graduate", "hold", "withdraw"}
Proposal  == [from : Placement, level : Levels \cup {None}, label : Label,
              proposed : {"promote", "graduate", "hold"}]
Line      == [from : Placement, level : Levels \cup {None}, label : Label,
              proposed : {"promote", "graduate", "hold"},
              override : Actions \cup {None}, applied : BOOLEAN]
Job       == [pc : {"idle", "target", "insert", "facts", "upsert", "check", "set"},
              op : {"generate", "preview"},
              r : Rollovers \cup {None},
              plan : [Students -> Proposal \cup {None}]]
NoPlan    == [s \in Students |-> None]
IdleJob   == [pc |-> "idle", op |-> "generate", r |-> None, plan |-> NoPlan]

\* Domains of the tenant tables and of the requests in flight.
TypeOK ==
  /\ status \in [Years -> {"absent", "planned", "active", "closed"}]
  /\ class \in [ClassId -> {"absent", "active", "inactive"}]
  /\ cls \in [Students -> Placement]
  /\ sstat \in [Students -> {"enrolled", "graduated", "withdrawn"}]
  /\ rollover \in [Rollovers -> {"none", "draft", "previewed", "committed"}]
  /\ lines \in [Rollovers -> [Students -> Line \cup {None}]]
  /\ hist \in [Students -> Placement]
  /\ job \in [Admins -> Job]
  /\ upsert \in [Students -> [seen : Placement] \cup {None}]
  /\ removal \in [Removers -> [of : ClassId, seen : SUBSET Students] \cup {None}]

\* The tenant's schema is seeded with one active year; nobody is placed yet.
Init ==
  /\ status = [y \in Years |-> IF y = FirstYear THEN "active" ELSE "absent"]
  /\ class = [c \in ClassId |-> "absent"]
  /\ cls = [s \in Students |-> None]
  /\ sstat = [s \in Students |-> "enrolled"]
  /\ rollover = [r \in Rollovers |-> "none"]
  /\ lines = [r \in Rollovers |-> [s \in Students |-> None]]
  /\ hist = [s \in Students |-> None]
  /\ job = [a \in Admins |-> IdleJob]
  /\ upsert = [s \in Students |-> None]
  /\ removal = [d \in Removers |-> None]

-------------------------------------------------------------------------------
(* Academic years and classes *)

CreateYear(y) ==
  /\ status[y] = "absent"
  /\ status' = [status EXCEPT ![y] = "planned"]
  /\ UNCHANGED <<class, cls, sstat, rollover, lines, hist, job, upsert, removal>>

\* create_class resolves the active year; a name that exists there is updated.
CreateClass(c) ==
  /\ status[c.year] = "active"
  /\ class[c] # "active"
  /\ class' = [class EXCEPT ![c] = "active"]
  /\ UNCHANGED <<status, cls, sstat, rollover, lines, hist, job, upsert, removal>>

DeactivateClass(c) ==
  /\ class[c] = "active"
  /\ class' = [class EXCEPT ![c] = "inactive"]
  /\ UNCHANGED <<status, cls, sstat, rollover, lines, hist, job, upsert, removal>>

\* delete_class reads the students of the class without a lock,
DeleteClassRead(d, c) ==
  /\ removal[d] = None
  /\ class[c] # "absent"
  /\ removal' = [removal EXCEPT ![d] = [of |-> c, seen |-> {s \in Students : cls[s] = c}]]
  /\ UNCHANGED <<status, class, cls, sstat, rollover, lines, hist, job, upsert>>

\* A reference to the deleted class becomes NULL: students are unlinked by
\* delete_class itself, plan lines and history by ON DELETE SET NULL.
Cleared(x, c) == IF x = c THEN None ELSE x

\* unlinks whoever is in it by then, adds a history row (to no class) for each
\* student it read, and deletes the class.  The unlinked rows stay locked, so
\* these statements are one step.
DeleteClassWrite(d) ==
  LET c == removal[d].of IN
  /\ removal[d] # None
  /\ class[c] # "absent"
  /\ class' = [class EXCEPT ![c] = "absent"]
  /\ cls' = [s \in Students |-> Cleared(cls[s], c)]
  /\ lines' = [r \in Rollovers |-> [s \in Students |->
                 IF lines[r][s] = None THEN None
                 ELSE [lines[r][s] EXCEPT !.from = Cleared(@, c)]]]
  /\ hist' = [s \in Students |-> IF s \in removal[d].seen THEN None ELSE Cleared(hist[s], c)]
  /\ removal' = [removal EXCEPT ![d] = None]
  /\ UNCHANGED <<status, sstat, rollover, job, upsert>>

\* A student placed in the class between the unlinking and the DELETE fails its
\* foreign key, as does a class that is gone; the transaction is rolled back.
DeleteClassFail(d) ==
  /\ removal[d] # None
  /\ removal' = [removal EXCEPT ![d] = None]
  /\ UNCHANGED <<status, class, cls, sstat, rollover, lines, hist, job, upsert>>

-------------------------------------------------------------------------------
(* Placements outside the rollover *)

\* Mutant: history is written for a first placement only.
RecordedOnce(s, old, new) == IF old # None THEN hist[s] ELSE new

\* _record_class_change, when the class really changes.
Recorded(s, old, new) == IF old = new THEN hist[s] ELSE new

\* reassign_student_class and bulk_reassign_students: the rows are locked FOR
\* UPDATE; the target is any class row, of any year, or NULL.
Reassign(S, c) ==
  /\ c # None => class[c] # "absent"
  /\ cls' = [s \in Students |-> IF s \in S THEN c ELSE cls[s]]
  /\ hist' = [s \in Students |-> IF s \in S THEN Recorded(s, cls[s], c) ELSE hist[s]]
  /\ UNCHANGED <<status, class, sstat, rollover, lines, job, upsert, removal>>

\* create_student for an existing id: the current class is read without a lock,
UpsertStudentRead(s) ==
  /\ upsert[s] = None
  /\ upsert' = [upsert EXCEPT ![s] = [seen |-> cls[s]]]
  /\ UNCHANGED <<status, class, cls, sstat, rollover, lines, hist, job, removal>>

\* then the row is upserted to the class c of the request, which matters from
\* here on only, and history written from what was read.
UpsertStudentWrite(s, c) ==
  LET seen == upsert[s].seen IN
  /\ upsert[s] # None
  /\ \A d \in {c, seen} : d # None => class[d] # "absent"
  /\ upsert' = [upsert EXCEPT ![s] = None]
  /\ cls' = [cls EXCEPT ![s] = c]
  /\ hist' = [hist EXCEPT ![s] = Recorded(s, seen, c)]
  /\ UNCHANGED <<status, class, sstat, rollover, lines, job, removal>>

\* A class that does not exist, or was deleted since the read, fails a foreign
\* key and rolls the transaction back.
UpsertStudentFail(s) ==
  /\ upsert[s] # None
  /\ upsert' = [upsert EXCEPT ![s] = None]
  /\ UNCHANGED <<status, class, cls, sstat, rollover, lines, hist, job, removal>>

-------------------------------------------------------------------------------
(* Planning: generate and preview share _recompute_rollover_lines *)

\* get_rollover_plan_facts and the clone rule: what the engine proposes for s
\* when l is the level joined on ordinal + 1 (None when there is none).
InYear(s, y) == sstat[s] = "enrolled" /\ cls[s] # None /\ cls[s].year = y

NextLevels(s, y) ==
  LET above == {l \in Levels : InYear(s, y) /\ Ordinal[l] = Ordinal[cls[s].level] + 1}
  IN IF above = {} THEN {None} ELSE above

\* Mutant: pupils of the top level are withdrawn instead of graduated.
ProposeWithdrawsTop(s, l) ==
  [from |-> cls[s], level |-> l, label |-> cls[s].label,
   proposed |-> IF l = None THEN "withdraw" ELSE "promote"]

Propose(s, l) ==
  LET c == cls[s] IN
  IF l = None
  THEN [from |-> c, level |-> None, label |-> None, proposed |-> "graduate"]
  ELSE IF class[c] # "active" \/ c.label = None
  THEN [from |-> c, level |-> None, label |-> None, proposed |-> "hold"]
  ELSE [from |-> c, level |-> l, label |-> c.label, proposed |-> "promote"]

\* Mutant: the recompute rewrites the target of an overridden line too.
UpsertLineClobbers(old, p) ==
  IF p = None THEN None
  ELSE [from |-> p.from, level |-> p.level, label |-> p.label, proposed |-> p.proposed,
        override |-> IF old = None THEN None ELSE old.override, applied |-> FALSE]

\* upsert_rollover_lines for one student: a line nobody is left for is deleted,
\* a line with an override keeps the override and the target chosen with it.
UpsertLine(old, p) ==
  IF p = None THEN None
  ELSE IF old = None
  THEN [from |-> p.from, level |-> p.level, label |-> p.label,
        proposed |-> p.proposed, override |-> None, applied |-> FALSE]
  ELSE [from |-> p.from,
        level |-> IF old.override = None THEN p.level ELSE old.level,
        label |-> IF old.override = None THEN p.label ELSE old.label,
        proposed |-> p.proposed, override |-> old.override, applied |-> old.applied]

Effective(line) == IF line.override = None THEN line.proposed ELSE line.override

GenerateReadFrom(a, y, z) ==
  /\ job[a].pc = "idle"
  /\ status[y] = "active"
  /\ job' = [job EXCEPT ![a] = [IdleJob EXCEPT !.pc = "target", !.r = <<y, z>>]]
  /\ UNCHANGED <<status, class, cls, sstat, rollover, lines, hist, upsert, removal>>

\* Any target that is not 'planned' is an error and ends the request.
GenerateReadTo(a) ==
  /\ job[a].pc = "target"
  /\ job' = [job EXCEPT ![a] = IF status[job[a].r[2]] = "planned"
                               THEN [@ EXCEPT !.pc = "insert"] ELSE IdleJob]
  /\ UNCHANGED <<status, class, cls, sstat, rollover, lines, hist, upsert, removal>>

\* create_year_rollover: INSERT ... ON CONFLICT DO NOTHING keeps an old row.
GenerateInsert(a) ==
  LET r == job[a].r IN
  /\ job[a].pc = "insert"
  /\ rollover' = IF rollover[r] = "none" THEN [rollover EXCEPT ![r] = "draft"] ELSE rollover
  /\ job' = [job EXCEPT ![a].pc = "facts"]
  /\ UNCHANGED <<status, class, cls, sstat, lines, hist, upsert, removal>>

PreviewStart(a, r) ==
  /\ job[a].pc = "idle"
  /\ rollover[r] \notin {"none", "committed"}
  /\ job' = [job EXCEPT ![a] = [IdleJob EXCEPT !.pc = "facts", !.op = "preview", !.r = r]]
  /\ UNCHANGED <<status, class, cls, sstat, rollover, lines, hist, upsert, removal>>

\* With several levels on the next ordinal the join yields several rows per
\* student and the last upserted wins: any of them.
ReadFacts(a) ==
  LET y == job[a].r[1] IN
  /\ job[a].pc = "facts"
  /\ \E next \in [Students -> Levels \cup {None}] :
       /\ \A s \in Students : next[s] \in NextLevels(s, y)
       /\ job' = [job EXCEPT
            ![a].pc = "upsert",
            ![a].plan = [s \in Students |-> IF InYear(s, y) THEN Propose(s, next[s]) ELSE None]]
  /\ UNCHANGED <<status, class, cls, sstat, rollover, lines, hist, upsert, removal>>

\* One transaction; a class deleted since the facts were read fails the
\* foreign key of from_class_id, and the request ends in an error.
UpsertLines(a) ==
  LET r == job[a].r
      plan == job[a].plan
      alive == \A s \in Students : plan[s] # None => class[plan[s].from] # "absent"
  IN /\ job[a].pc = "upsert"
     /\ lines' = IF alive
                 THEN [lines EXCEPT ![r] = [s \in Students |-> UpsertLine(@[s], plan[s])]]
                 ELSE lines
     /\ job' = [job EXCEPT ![a] = IF alive /\ job[a].op = "preview"
                                  THEN [@ EXCEPT !.pc = "check", !.plan = NoPlan]
                                  ELSE IdleJob]
     /\ UNCHANGED <<status, class, cls, sstat, rollover, hist, upsert, removal>>

Holds(r) == {s \in Students : lines[r][s] # None /\ Effective(lines[r][s]) = "hold"}

PreviewCheck(a) ==
  /\ job[a].pc = "check"
  /\ job' = [job EXCEPT ![a] = IF Holds(job[a].r) = {} THEN [@ EXCEPT !.pc = "set"] ELSE IdleJob]
  /\ UNCHANGED <<status, class, cls, sstat, rollover, lines, hist, upsert, removal>>

\* update_rollover_state carries no condition on the state it overwrites.
PreviewSet(a) ==
  /\ job[a].pc = "set"
  /\ rollover' = [rollover EXCEPT ![job[a].r] = "previewed"]
  /\ job' = [job EXCEPT ![a] = IdleJob]
  /\ UNCHANGED <<status, class, cls, sstat, lines, hist, upsert, removal>>

\* override_rollover_line: omitted targets (None) keep the line's own; there is
\* no condition on the rollover's state.
Override(r, s, action, target) ==
  LET line == lines[r][s]
      toLevel == IF target[1] = None THEN line.level ELSE target[1]
      toLabel == IF target[2] = None THEN line.label ELSE target[2]
  IN /\ line # None
     /\ action = "promote" => toLevel # None /\ toLabel # None
     /\ lines' = [lines EXCEPT ![r][s] = [line EXCEPT !.override = action,
                                                      !.level = toLevel,
                                                      !.label = toLabel]]
     /\ UNCHANGED <<status, class, cls, sstat, rollover, hist, job, upsert, removal>>

-------------------------------------------------------------------------------
(* Commit: one transaction, under FOR UPDATE on the rollover row *)

\* Mutant: the commit applies the proposed action, not the overridden one.
PendingIgnoresOverride(r, action) == {s \in Students : /\ lines[r][s] # None
                                                       /\ ~lines[r][s].applied
                                                       /\ lines[r][s].proposed = action}

Pending(r, action) == {s \in Students : /\ lines[r][s] # None
                                        /\ ~lines[r][s].applied
                                        /\ Effective(lines[r][s]) = action}

TargetClass(r, s) == [year |-> r[2], level |-> lines[r][s].level, label |-> lines[r][s].label]

\* The classes resolved (found by name in the target year, or cloned): only a
\* line whose source class still exists can resolve one.
Resolved(r) == {TargetClass(r, s) : s \in {t \in Pending(r, "promote") : lines[r][t].from # None}}

\* Mutant: the commit forgets to activate the target year.
FlipClosesOnly(r) == [status EXCEPT ![r[1]] = "closed"]

\* from_year is closed before to_year is activated.
Flip(r) == [[status EXCEPT ![r[1]] = "closed"] EXCEPT ![r[2]] = "active"]

\* The unique index one_active_academic_year.
OneActiveIndex(st) == \A y, z \in Years : st[y] = "active" /\ st[z] = "active" => y = z

\* A promote line without a level or without a resolved class, or a clash on
\* the one-active-year index, rolls everything back: no step.
Commit(r) ==
  LET promoted == Pending(r, "promote")
      exited   == Pending(r, "graduate") \cup Pending(r, "withdraw")
  IN /\ rollover[r] = "previewed"
     /\ \A s \in promoted : lines[r][s].level # None /\ TargetClass(r, s) \in Resolved(r)
     /\ class' = [c \in ClassId |-> IF c \in Resolved(r) /\ class[c] = "absent"
                                    THEN "active" ELSE class[c]]
     /\ cls' = [s \in Students |-> IF s \in promoted THEN TargetClass(r, s)
                                   ELSE IF s \in exited THEN None ELSE cls[s]]
     /\ sstat' = [s \in Students |-> IF s \in Pending(r, "graduate") THEN "graduated"
                                     ELSE IF s \in Pending(r, "withdraw") THEN "withdrawn"
                                     ELSE sstat[s]]
     /\ hist' = [s \in Students |->
                   IF s \in promoted \cup exited THEN cls'[s] ELSE hist[s]]
     /\ lines' = [lines EXCEPT ![r] = [s \in Students |->
                     IF s \in promoted \cup exited THEN [@[s] EXCEPT !.applied = TRUE] ELSE @[s]]]
     /\ status' = Flip(r)
     /\ OneActiveIndex(Flip(r))
     /\ rollover' = [rollover EXCEPT ![r] = "committed"]
     /\ UNCHANGED <<job, upsert, removal>>

-------------------------------------------------------------------------------
Planning(a) ==
  \/ \E y, z \in Years : GenerateReadFrom(a, y, z)
  \/ GenerateReadTo(a)
  \/ GenerateInsert(a)
  \/ \E r \in Rollovers : PreviewStart(a, r)
  \/ ReadFacts(a)
  \/ UpsertLines(a)
  \/ PreviewCheck(a)
  \/ PreviewSet(a)

\* What the rollover flow alone does: years, classes, plans and commits.
RolloverNext ==
  \/ \E y \in Years : CreateYear(y)
  \/ \E c \in AdminClasses : CreateClass(c)
  \/ \E c \in AdminClasses : DeactivateClass(c)
  \/ \E a \in Admins : Planning(a)
  \/ \E r \in Rollovers, s \in Students, act \in Actions \cup {None},
        target \in OverrideTargets : Override(r, s, act, target)
  \/ \E r \in Rollovers : Commit(r)

\* The other writers of students.class_id.
PlacementNext ==
  \/ \E d \in Removers, c \in ClassId : DeleteClassRead(d, c)
  \/ \E d \in Removers : DeleteClassWrite(d) \/ DeleteClassFail(d)
  \/ \E S \in SUBSET Students \ {{}}, c \in Placement : Reassign(S, c)
  \/ \E s \in Updated : UpsertStudentRead(s) \/ UpsertStudentFail(s)
  \/ \E s \in Updated, c \in Placement : UpsertStudentWrite(s, c)

Next == RolloverNext \/ PlacementNext

Spec == Init /\ [][Next]_vars

-------------------------------------------------------------------------------
(* Properties *)

\* A tenant always has exactly one active academic year.  The unique index of
\* academic_years only forbids two; that a commit never leaves the tenant with
\* none, whatever stale plan is committed and however often, is argued here.
ExactlyOneActiveYear == \E y \in Years : \A z \in Years : status[z] = "active" <=> z = y

\* A rollover row, or a generate request about to insert one, leaves from a
\* year that has been active, and as long as that year still is, the target is
\* still planned: the inductive fact behind the calendar.
FromWasActive(r) == status[r[1]] \in {"active", "closed"}
TargetPlanned(r) == status[r[1]] = "active" => status[r[2]] = "planned"

CalendarInv ==
  /\ \A r \in Rollovers : rollover[r] # "none" => FromWasActive(r) /\ TargetPlanned(r)
  /\ \A a \in Admins :
       /\ job[a].pc # "idle" => FromWasActive(job[a].r)
       /\ job[a].pc \notin {"idle", "target"} => TargetPlanned(job[a].r)

\* The abstract calendar: generate, preview, override and commit, in any
\* interleaving, retried or stale, only ever define a year or roll the active
\* one over into a planned one; a closed year never reopens.
Calendar == INSTANCE AcademicCalendar
CalendarSpec == Calendar!Spec

\* _recompute_rollover_lines: "any override_action an admin already set on a
\* line survives the recompute untouched", with the target chosen with it, even
\* when the recompute works from facts that are stale by the time it writes.
OverrideSurvivesRecompute ==
  [][\A a \in Admins : UpsertLines(a) =>
       \A r \in Rollovers, s \in Students :
         LET old == lines[r][s] new == lines'[r][s]
         IN old # None /\ new # None /\ old.override # None
              => /\ new.override = old.override
                 /\ new.level = old.level
                 /\ new.label = old.label]_vars

\* commit_year_rollover never half-applies a plan: when a rollover is stamped
\* committed, no line is left unapplied except the ones still on hold, and
\* everybody it moved is in a class of the year that is now active, or out.
CommitAppliesWholePlan ==
  [][\A r \in Rollovers : rollover[r] # "committed" /\ rollover'[r] = "committed" =>
       \A s \in Students : lines'[r][s] # None =>
         /\ ~lines'[r][s].applied => Effective(lines'[r][s]) = "hold"
         /\ cls'[s] # cls[s] /\ cls'[s] # None
              => status'[cls'[s].year] = "active" /\ class'[cls'[s]] # "absent"]_vars

\* _record_class_change: "history can never disagree with the current class_id
\* snapshot".  It can, but only through an unlocked read that is stale by the
\* time its transaction writes: create_student's of the old class, or
\* delete_class's of the students to record.
StaleUpsert(s) == upsert[s] # None /\ upsert'[s] = None /\ upsert[s].seen # cls[s]

StaleRemoval(d, s) == /\ removal[d] # None /\ removal'[d] = None
                      /\ s \in removal[d].seen /\ cls[s] # removal[d].of

HistoryDivergesOnlyByStaleRead ==
  [][\A s \in Students : hist[s] = cls[s] /\ hist'[s] # cls'[s]
       => StaleUpsert(s) \/ \E d \in Removers : StaleRemoval(d, s)]_vars
===============================================================================
