-------------------------- MODULE YearRolloverProofs --------------------------
(***************************************************************************)
(* Proofs about YearRollover, for every set of years, levels, sections,    *)
(* classes, students and concurrent requests.                              *)
(***************************************************************************)
EXTENDS YearRollover, TLAPS

\* A request that is past "idle" names a rollover.
JobNamesRollover == \A a \in Admins : job[a].pc # "idle" => job[a].r \in Rollovers

Typed == TypeOK /\ JobNamesRollover

LEMMA IdleJobType == IdleJob \in Job
  BY DEF IdleJob, Job, NoPlan

LEMMA InitTyped == Init => Typed
  BY IdleJobType DEF Init, Typed, TypeOK, JobNamesRollover, IdleJob, Placement

LEMMA UpsertLineType ==
  ASSUME NEW old \in Line \cup {None}, NEW p \in Proposal \cup {None}
  PROVE  UpsertLine(old, p) \in Line \cup {None}
<1>1. CASE p = None
  BY <1>1 DEF UpsertLine
<1>2. CASE p # None /\ old = None
  BY <1>2 DEF UpsertLine, Line, Proposal
<1>3. CASE p # None /\ old # None
  <2>1. old \in Line /\ p \in Proposal
    BY <1>3
  <2> QED
    BY <1>3, <2>1 DEF UpsertLine, Line, Proposal
<1> QED
  BY <1>1, <1>2, <1>3

LEMMA ProposeType ==
  ASSUME NEW s \in Students, NEW l \in Levels \cup {None}, cls[s] \in ClassId
  PROVE  Propose(s, l) \in Proposal
  BY DEF Propose, Proposal, Placement, ClassId, Label

LEMMA TargetClassType ==
  ASSUME TypeOK, NEW r \in Rollovers, NEW s \in Students,
         lines[r][s] # None, lines[r][s].level # None
  PROVE  TargetClass(r, s) \in ClassId
<1>1. lines[r][s] \in Line
  BY DEF TypeOK
<1> QED
  BY <1>1 DEF TargetClass, ClassId, Line, Rollovers

\* A planning step writes job, and UpsertLines also lines; none touches status.
LEMMA PlanningTyped ==
  ASSUME Typed, NEW a \in Admins, Planning(a)
  PROVE  Typed'
<1> USE IdleJobType DEF Typed, JobNamesRollover
<1>1. job[a] \in Job
  BY DEF TypeOK
<1>2. ASSUME NEW y \in Years, NEW z \in Years, GenerateReadFrom(a, y, z)
      PROVE  Typed'
  <2>1. [IdleJob EXCEPT !.pc = "target", !.r = <<y, z>>] \in Job
    BY DEF IdleJob, Job, NoPlan, Rollovers
  <2> QED
    BY <1>2, <2>1 DEF GenerateReadFrom, TypeOK, Rollovers, Job, IdleJob
<1>3. CASE GenerateReadTo(a)
  BY <1>1, <1>3 DEF GenerateReadTo, TypeOK, Job, IdleJob
<1>4. CASE GenerateInsert(a)
  BY <1>1, <1>4 DEF GenerateInsert, TypeOK, Job
<1>5. ASSUME NEW r \in Rollovers, PreviewStart(a, r)
      PROVE  Typed'
  <2>1. [IdleJob EXCEPT !.pc = "facts", !.op = "preview", !.r = r] \in Job
    BY DEF IdleJob, Job, NoPlan
  <2> QED
    BY <1>5, <2>1 DEF PreviewStart, TypeOK, Job, IdleJob
<1>6. CASE ReadFacts(a)
  <2> DEFINE y == job[a].r[1]
  <2>1. PICK next \in [Students -> Levels \cup {None}] :
          job' = [job EXCEPT ![a].pc = "upsert",
                    ![a].plan = [s \in Students |-> IF InYear(s, y) THEN Propose(s, next[s]) ELSE None]]
    BY <1>6 DEF ReadFacts
  <2>2. \A s \in Students : InYear(s, y) => Propose(s, next[s]) \in Proposal
    BY ProposeType DEF InYear, TypeOK, Placement
  <2>3. [s \in Students |-> IF InYear(s, y) THEN Propose(s, next[s]) ELSE None]
          \in [Students -> Proposal \cup {None}]
    BY <2>2
  <2> QED
    BY <1>1, <1>6, <2>1, <2>3 DEF ReadFacts, TypeOK, Job
<1>7. CASE UpsertLines(a)
  <2>1. job' \in [Admins -> Job] /\ JobNamesRollover'
    BY <1>1, <1>7 DEF UpsertLines, TypeOK, Job, IdleJob, NoPlan
  <2>2. lines' \in [Rollovers -> [Students -> Line \cup {None}]]
    <3>0. /\ job[a].plan \in [Students -> Proposal \cup {None}]
          /\ lines[job[a].r] \in [Students -> Line \cup {None}]
      BY <1>1, <1>7 DEF UpsertLines, TypeOK, Job
    <3>1. \A s \in Students : UpsertLine(lines[job[a].r][s], job[a].plan[s]) \in Line \cup {None}
      BY <3>0, UpsertLineType
    <3> QED
      BY <1>7, <3>1 DEF UpsertLines, TypeOK
  <2> QED
    BY <1>7, <2>1, <2>2 DEF UpsertLines, TypeOK
<1>8. CASE PreviewCheck(a)
  BY <1>1, <1>8 DEF PreviewCheck, TypeOK, Job, IdleJob
<1>9. CASE PreviewSet(a)
  BY <1>1, <1>9 DEF PreviewSet, TypeOK, Job, IdleJob
<1> QED
  BY <1>2, <1>3, <1>4, <1>5, <1>6, <1>7, <1>8, <1>9 DEF Planning

LEMMA OverrideTyped ==
  ASSUME Typed, NEW r \in Rollovers, NEW s \in Students, NEW act \in Actions \cup {None},
         NEW target \in OverrideTargets, Override(r, s, act, target)
  PROVE  Typed'
<1> DEFINE line == lines[r][s]
           toLevel == IF target[1] = None THEN line.level ELSE target[1]
           toLabel == IF target[2] = None THEN line.label ELSE target[2]
<1>1. line \in Line
  BY DEF Override, Typed, TypeOK
<1>2. target[1] \in Levels \cup {None} /\ target[2] \in Label
  BY ConstantsAssumption
<1>3. toLevel \in Levels \cup {None} /\ toLabel \in Label
  BY <1>1, <1>2 DEF Line
<1>4. [line EXCEPT !.override = act, !.level = toLevel, !.label = toLabel] \in Line
  BY <1>1, <1>3 DEF Line
<1>5. lines' \in [Rollovers -> [Students -> Line \cup {None}]]
  BY <1>4 DEF Override, Typed, TypeOK
<1> QED
  BY <1>5 DEF Override, Typed, TypeOK, JobNamesRollover

LEMMA CommitTyped ==
  ASSUME Typed, NEW r \in Rollovers, Commit(r)
  PROVE  Typed'
<1> DEFINE promoted == Pending(r, "promote")
           exited == Pending(r, "graduate") \cup Pending(r, "withdraw")
<1>1. r[1] \in Years /\ r[2] \in Years
  BY DEF Rollovers
<1>2. \A s \in promoted : TargetClass(r, s) \in ClassId
  BY TargetClassType DEF Commit, Pending, Typed
<1>3. cls' \in [Students -> Placement]
  BY <1>2 DEF Commit, Typed, TypeOK, Placement
<1>4. hist' \in [Students -> Placement]
  BY <1>3 DEF Commit, Typed, TypeOK
<1>5. lines' \in [Rollovers -> [Students -> Line \cup {None}]]
  <2>1. \A s \in promoted \cup exited : lines[r][s] \in Line
    BY DEF Pending, Typed, TypeOK
  <2>2. \A s \in promoted \cup exited : [lines[r][s] EXCEPT !.applied = TRUE] \in Line
    BY <2>1 DEF Line
  <2> QED
    BY <2>2 DEF Commit, Typed, TypeOK
<1>6. status' \in [Years -> {"absent", "planned", "active", "closed"}]
  BY <1>1 DEF Commit, Flip, Typed, TypeOK
<1>7. sstat' \in [Students -> {"enrolled", "graduated", "withdrawn"}]
  BY DEF Commit, Typed, TypeOK
<1>8. /\ class' \in [ClassId -> {"absent", "active", "inactive"}]
      /\ rollover' \in [Rollovers -> {"none", "draft", "previewed", "committed"}]
      /\ UNCHANGED <<job, upsert, removal>>
  BY DEF Commit, Typed, TypeOK
<1> QED
  BY <1>3, <1>4, <1>5, <1>6, <1>7, <1>8 DEF Typed, TypeOK, JobNamesRollover

LEMMA PlacementTyped ==
  ASSUME Typed, PlacementNext
  PROVE  Typed'
<1> USE DEF Typed, JobNamesRollover
<1>1. ASSUME NEW d \in Removers, DeleteClassWrite(d)
      PROVE  Typed'
  <2> DEFINE c == removal[d].of
  <2>0. removal[d] \in [of : ClassId, seen : SUBSET Students] /\ c \in ClassId
    BY <1>1 DEF DeleteClassWrite, TypeOK
  <2>1. \A x \in Placement : Cleared(x, c) \in Placement
    BY DEF Cleared, Placement
  <2>2. \A q \in Rollovers, s \in Students : lines[q][s] # None =>
           [lines[q][s] EXCEPT !.from = Cleared(@, c)] \in Line
    <3> SUFFICES ASSUME NEW q \in Rollovers, NEW s \in Students, lines[q][s] # None
                 PROVE  [lines[q][s] EXCEPT !.from = Cleared(@, c)] \in Line
      OBVIOUS
    <3>1. lines[q][s] \in Line
      BY DEF TypeOK
    <3> QED
      BY <2>1, <3>1 DEF Line
  <2>3. lines' \in [Rollovers -> [Students -> Line \cup {None}]]
    BY <1>1, <2>2 DEF DeleteClassWrite, TypeOK
  <2>4. cls' \in [Students -> Placement]
    BY <1>1, <2>1 DEF DeleteClassWrite, TypeOK
  <2>5. hist' \in [Students -> Placement]
    BY <1>1, <2>1 DEF DeleteClassWrite, TypeOK, Placement
  <2>6. /\ class' \in [ClassId -> {"absent", "active", "inactive"}]
        /\ removal' \in [Removers -> [of : ClassId, seen : SUBSET Students] \cup {None}]
    BY <1>1, <2>0 DEF DeleteClassWrite, TypeOK
  <2> QED
    BY <1>1, <2>3, <2>4, <2>5, <2>6 DEF DeleteClassWrite, TypeOK
<1>1a. ASSUME NEW d \in Removers, NEW c \in ClassId, DeleteClassRead(d, c)
       PROVE  Typed'
  BY <1>1a DEF DeleteClassRead, TypeOK
<1>1b. ASSUME NEW d \in Removers, DeleteClassFail(d)
       PROVE  Typed'
  BY <1>1b DEF DeleteClassFail, TypeOK
<1>2. ASSUME NEW S \in SUBSET Students, NEW c \in Placement, Reassign(S, c)
      PROVE  Typed'
  BY <1>2 DEF Reassign, Recorded, TypeOK
<1>3. ASSUME NEW s \in Students, UpsertStudentRead(s) \/ UpsertStudentFail(s)
      PROVE  Typed'
  BY <1>3 DEF UpsertStudentRead, UpsertStudentFail, TypeOK
<1>4. ASSUME NEW s \in Students, NEW c \in Placement, UpsertStudentWrite(s, c)
      PROVE  Typed'
  <2>1. upsert[s] \in [seen : Placement]
    BY <1>4 DEF UpsertStudentWrite, TypeOK
  <2> QED
    BY <1>4, <2>1 DEF UpsertStudentWrite, Recorded, TypeOK
<1> QED
  BY <1>1, <1>1a, <1>1b, <1>2, <1>3, <1>4, ConstantsAssumption DEF PlacementNext

LEMMA NextTyped == Typed /\ [Next]_vars => Typed'
<1> SUFFICES ASSUME Typed, [Next]_vars PROVE Typed'
  OBVIOUS
<1>1. ASSUME NEW y \in Years, CreateYear(y)
      PROVE  Typed'
  BY <1>1 DEF CreateYear, Typed, TypeOK, JobNamesRollover
<1>2. ASSUME NEW c \in AdminClasses, CreateClass(c)
      PROVE  Typed'
  BY <1>2 DEF CreateClass, Typed, TypeOK, JobNamesRollover
<1>3. ASSUME NEW c \in AdminClasses, DeactivateClass(c)
      PROVE  Typed'
  BY <1>3 DEF DeactivateClass, Typed, TypeOK, JobNamesRollover
<1>4. CASE UNCHANGED vars
  BY <1>4 DEF vars, Typed, TypeOK, JobNamesRollover
<1> QED
  BY <1>1, <1>2, <1>3, <1>4, PlanningTyped, OverrideTyped, CommitTyped, PlacementTyped
     DEF Next, RolloverNext

\* Every table and every request in flight keeps its domain, whatever handlers
\* interleave.
THEOREM TypeCorrect == Spec => []TypeOK
<1>1. Typed => TypeOK
  BY DEF Typed
<1> QED
  BY <1>1, InitTyped, NextTyped, PTL DEF Spec

-------------------------------------------------------------------------------
(* The calendar *)

IInv == Typed /\ ExactlyOneActiveYear /\ CalendarInv

LEMMA InitIInv == Init => IInv
<1> SUFFICES ASSUME Init PROVE IInv
  OBVIOUS
<1>1. ExactlyOneActiveYear
  BY ConstantsAssumption DEF Init, ExactlyOneActiveYear
<1>2. CalendarInv
  BY DEF Init, CalendarInv, IdleJob
<1> QED
  BY <1>1, <1>2, InitTyped DEF IInv

\* The heart of the argument: a commit that gets past the unique index either
\* rolls the active year over into a planned one, or leaves the years alone.
LEMMA CommitRollsOver ==
  ASSUME IInv, NEW r \in Rollovers, Commit(r)
  PROVE  \/ Calendar!RollOver(r[1], r[2])
         \/ status' = status
<1>1. r[1] \in Years /\ r[2] \in Years
  BY DEF Rollovers
<1>2. FromWasActive(r) /\ TargetPlanned(r)
  BY DEF Commit, IInv, CalendarInv
<1>3. status \in [Years -> {"absent", "planned", "active", "closed"}]
  BY DEF IInv, Typed, TypeOK
<1>4. status' = Flip(r) /\ OneActiveIndex(Flip(r))
  BY DEF Commit
<1>5. CASE status[r[1]] = "active"
  <2>1. status[r[2]] = "planned"
    BY <1>2, <1>5 DEF TargetPlanned
  <2>2. Flip(r) = [status EXCEPT ![r[1]] = "closed", ![r[2]] = "active"]
    BY DEF Flip
  <2> QED
    BY <1>4, <1>5, <2>1, <2>2 DEF Calendar!RollOver
<1>6. CASE status[r[1]] = "closed"
  <2>1. PICK y \in Years : \A z \in Years : status[z] = "active" <=> z = y
    BY DEF IInv, ExactlyOneActiveYear
  <2>2. y # r[1]
    BY <1>1, <1>6, <2>1
  <2>3. Flip(r)[y] = "active" /\ Flip(r)[r[2]] = "active"
    BY <1>1, <1>3, <2>1, <2>2 DEF Flip
  <2>4. y = r[2]
    BY <1>1, <1>4, <2>3 DEF OneActiveIndex
  <2>5. Flip(r) = status
    BY <1>1, <1>3, <1>6, <2>1, <2>2, <2>4 DEF Flip
  <2> QED
    BY <1>4, <2>5
<1> QED
  BY <1>2, <1>5, <1>6 DEF FromWasActive

\* Only defining a year and committing a rollover write academic_years.
LEMMA StatusSteps ==
  ASSUME IInv, [Next]_vars
  PROVE  \/ status' = status
         \/ \E y \in Years : Calendar!Define(y)
         \/ \E y, z \in Years : Calendar!RollOver(y, z)
<1>1. ASSUME NEW y \in Years, CreateYear(y)
      PROVE  Calendar!Define(y)
  BY <1>1 DEF CreateYear, Calendar!Define
<1>2. ASSUME NEW a \in Admins, Planning(a)
      PROVE  status' = status
  BY <1>2 DEF Planning, GenerateReadFrom, GenerateReadTo, GenerateInsert, PreviewStart,
              ReadFacts, UpsertLines, PreviewCheck, PreviewSet
<1>3. ASSUME NEW r \in Rollovers, Commit(r)
      PROVE  status' = status \/ \E y, z \in Years : Calendar!RollOver(y, z)
  BY <1>3, CommitRollsOver DEF Rollovers
<1>4. ASSUME PlacementNext
      PROVE  status' = status
  BY <1>4 DEF PlacementNext, DeleteClassRead, DeleteClassWrite, DeleteClassFail, Reassign,
              UpsertStudentRead, UpsertStudentWrite, UpsertStudentFail
<1>5. ASSUME NEW c \in ClassId, CreateClass(c) \/ DeactivateClass(c)
      PROVE  status' = status
  BY <1>5 DEF CreateClass, DeactivateClass
<1>6. ASSUME NEW r \in Rollovers, NEW s \in Students, NEW act \in Actions \cup {None},
             NEW target \in OverrideTargets, Override(r, s, act, target)
      PROVE  status' = status
  BY <1>6 DEF Override
<1>7. CASE UNCHANGED vars
  BY <1>7 DEF vars
<1> QED
  BY <1>1, <1>2, <1>3, <1>4, <1>5, <1>6, <1>7, ConstantsAssumption DEF Next, RolloverNext

\* A calendar step keeps the calendar facts of any pair of years.
LEMMA PairKept ==
  ASSUME IInv, [Next]_vars, NEW r \in Rollovers, FromWasActive(r)
  PROVE  FromWasActive(r)' /\ (TargetPlanned(r) => TargetPlanned(r)')
<1>0. r[1] \in Years /\ r[2] \in Years /\ status \in [Years -> {"absent", "planned", "active", "closed"}]
  BY DEF Rollovers, IInv, Typed, TypeOK
<1>1. CASE status' = status
  BY <1>1 DEF FromWasActive, TargetPlanned
<1>2. ASSUME NEW y \in Years, Calendar!Define(y)
      PROVE  FromWasActive(r)' /\ (TargetPlanned(r) => TargetPlanned(r)')
  BY <1>0, <1>2 DEF Calendar!Define, FromWasActive, TargetPlanned
<1>3. ASSUME NEW y \in Years, NEW z \in Years, Calendar!RollOver(y, z)
      PROVE  FromWasActive(r)' /\ (TargetPlanned(r) => TargetPlanned(r)')
  <2>1. PICK w \in Years : \A x \in Years : status[x] = "active" <=> x = w
    BY DEF IInv, ExactlyOneActiveYear
  <2> QED
    BY <1>0, <1>3, <2>1 DEF Calendar!RollOver, FromWasActive, TargetPlanned
<1> QED
  BY <1>1, <1>2, <1>3, StatusSteps

LEMMA OneActiveKept ==
  ASSUME IInv, [Next]_vars
  PROVE  ExactlyOneActiveYear'
<1>0. status \in [Years -> {"absent", "planned", "active", "closed"}]
  BY DEF IInv, Typed, TypeOK
<1>1. PICK y \in Years : \A z \in Years : status[z] = "active" <=> z = y
  BY DEF IInv, ExactlyOneActiveYear
<1>2. CASE status' = status
  BY <1>1, <1>2 DEF ExactlyOneActiveYear
<1>3. ASSUME NEW x \in Years, Calendar!Define(x)
      PROVE  ExactlyOneActiveYear'
  BY <1>0, <1>1, <1>3 DEF Calendar!Define, ExactlyOneActiveYear
<1>4. ASSUME NEW x \in Years, NEW w \in Years, Calendar!RollOver(x, w)
      PROVE  ExactlyOneActiveYear'
  <2>1. x = y
    BY <1>1, <1>4 DEF Calendar!RollOver
  <2>2. \A z \in Years : status'[z] = "active" <=> z = w
    BY <1>0, <1>1, <1>4, <2>1 DEF Calendar!RollOver
  <2> QED
    BY <2>2 DEF ExactlyOneActiveYear
<1> QED
  BY <1>2, <1>3, <1>4, StatusSteps

\* A rollover row that exists after a step existed before it, or belongs to a
\* request that has passed both checks of generate_rollover_plan.
LEMMA RowOrigin ==
  ASSUME IInv, [Next]_vars, NEW r \in Rollovers, rollover'[r] # "none"
  PROVE  \/ rollover[r] # "none"
         \/ \E a \in Admins : job[a].pc \notin {"idle", "target"} /\ job[a].r = r
<1> DEFINE Goal == \/ rollover[r] # "none"
                   \/ \E a \in Admins : job[a].pc \notin {"idle", "target"} /\ job[a].r = r
<1>1. rollover \in [Rollovers -> {"none", "draft", "previewed", "committed"}]
  BY DEF IInv, Typed, TypeOK
<1>2. ASSUME NEW a \in Admins, Planning(a)
      PROVE  Goal
  <2>1. CASE GenerateInsert(a)
    BY <1>1, <2>1 DEF GenerateInsert
  <2>2. CASE PreviewSet(a)
    BY <1>1, <2>2 DEF PreviewSet
  <2>3. CASE rollover' = rollover
    BY <2>3
  <2> QED
    BY <1>2, <2>1, <2>2, <2>3 DEF Planning, GenerateReadFrom, GenerateReadTo, PreviewStart,
                                  ReadFacts, UpsertLines, PreviewCheck
<1>3. ASSUME NEW q \in Rollovers, Commit(q)
      PROVE  Goal
  BY <1>1, <1>3 DEF Commit
<1>4. CASE PlacementNext
  BY <1>4 DEF PlacementNext, DeleteClassRead, DeleteClassWrite, DeleteClassFail, Reassign,
              UpsertStudentRead, UpsertStudentWrite, UpsertStudentFail
<1>5. ASSUME NEW q \in Rollovers, NEW s \in Students, NEW act \in Actions \cup {None},
             NEW target \in OverrideTargets, Override(q, s, act, target)
      PROVE  Goal
  BY <1>5 DEF Override
<1>6. CASE UNCHANGED vars
  BY <1>6 DEF vars
<1>7. ASSUME NEW y \in Years, CreateYear(y)
      PROVE  Goal
  BY <1>7 DEF CreateYear
<1>8. ASSUME NEW c \in ClassId, CreateClass(c) \/ DeactivateClass(c)
      PROVE  Goal
  BY <1>8 DEF CreateClass, DeactivateClass
<1> QED
  BY <1>2, <1>3, <1>4, <1>5, <1>6, <1>7, <1>8, ConstantsAssumption DEF Next, RolloverNext

\* What one planning step does to the rollover its request names.
LEMMA PlanningJob ==
  ASSUME IInv, NEW a \in Admins, Planning(a), NEW b \in Admins, job'[b].pc # "idle"
  PROVE  /\ FromWasActive(job'[b].r)
         /\ job'[b].pc # "target" => TargetPlanned(job'[b].r)
<1>1. Typed /\ CalendarInv /\ job \in [Admins -> Job]
  BY DEF IInv, Typed, TypeOK
<1>2. CASE b # a
  <2>1. job'[b] = job[b]
    BY <1>1, <1>2 DEF Planning, GenerateReadFrom, GenerateReadTo, GenerateInsert, PreviewStart,
                      ReadFacts, UpsertLines, PreviewCheck, PreviewSet
  <2> QED
    BY <1>1, <2>1 DEF CalendarInv
<1>3. CASE b = a
  <2>1. ASSUME NEW y \in Years, NEW z \in Years, GenerateReadFrom(a, y, z)
        PROVE  job'[a].pc = "target" /\ job'[a].r = <<y, z>> /\ status[y] = "active"
    BY <1>1, <2>1 DEF GenerateReadFrom, IdleJob
  <2>2. CASE GenerateReadTo(a)
    <3>1. job'[a].r = job[a].r /\ status[job[a].r[2]] = "planned" /\ job[a].pc = "target"
      BY <1>1, <1>3, <2>2 DEF GenerateReadTo, IdleJob, Job
    <3> QED
      BY <1>1, <1>3, <3>1 DEF CalendarInv, TargetPlanned
  <2>3. ASSUME NEW r \in Rollovers, PreviewStart(a, r)
        PROVE  job'[a].r = r /\ rollover[r] # "none"
    BY <1>1, <2>3 DEF PreviewStart, IdleJob
  <2>4. CASE GenerateInsert(a) \/ ReadFacts(a) \/ UpsertLines(a) \/ PreviewCheck(a) \/ PreviewSet(a)
    <3>1. job'[a].r = job[a].r /\ job[a].pc \notin {"idle", "target"}
      <4>1. CASE GenerateInsert(a)
        BY <1>1, <4>1 DEF GenerateInsert, Job
      <4>2. CASE ReadFacts(a)
        BY <1>1, <4>2 DEF ReadFacts, Job
      <4>3. CASE UpsertLines(a)
        BY <1>1, <1>3, <4>3 DEF UpsertLines, Job, IdleJob
      <4>4. CASE PreviewCheck(a)
        BY <1>1, <1>3, <4>4 DEF PreviewCheck, Job, IdleJob
      <4>5. CASE PreviewSet(a)
        BY <1>1, <1>3, <4>5 DEF PreviewSet, IdleJob
      <4> QED
        BY <2>4, <4>1, <4>2, <4>3, <4>4, <4>5
    <3> QED
      BY <1>1, <1>3, <3>1 DEF CalendarInv
  <2> QED
    BY <1>1, <1>3, <2>1, <2>2, <2>3, <2>4 DEF Planning, CalendarInv, FromWasActive
<1> QED
  BY <1>2, <1>3

LEMMA CalendarInvKept ==
  ASSUME IInv, [Next]_vars
  PROVE  CalendarInv'
<1>1. Typed /\ CalendarInv
  BY DEF IInv
<1>2. Typed'
  BY <1>1, NextTyped
<1>3. ASSUME NEW r \in Rollovers, rollover'[r] # "none"
      PROVE  FromWasActive(r)' /\ TargetPlanned(r)'
  <2>1. FromWasActive(r) /\ TargetPlanned(r)
    BY <1>1, <1>3, RowOrigin DEF CalendarInv
  <2> QED
    BY <2>1, PairKept
<1>4. ASSUME NEW b \in Admins, job'[b].pc # "idle"
      PROVE  /\ FromWasActive(job'[b].r)
             /\ job'[b].pc # "target" => TargetPlanned(job'[b].r)
  <2>1. CASE \E a \in Admins : Planning(a)
    BY <1>4, <2>1, PlanningJob
  <2>2. CASE job' = job
    BY <1>1, <1>4, <2>2 DEF CalendarInv
  <2>3. ASSUME NEW r \in Rollovers, Commit(r)
        PROVE  job' = job
    BY <2>3 DEF Commit
  <2>4. CASE PlacementNext
    BY <2>2, <2>4 DEF PlacementNext, DeleteClassRead, DeleteClassWrite, DeleteClassFail, Reassign,
              UpsertStudentRead, UpsertStudentWrite, UpsertStudentFail
  <2> QED
    BY <2>1, <2>2, <2>3, <2>4 DEF Next, RolloverNext, CreateYear, CreateClass, DeactivateClass,
                                  Override, vars
<1>5. ASSUME NEW b \in Admins, job'[b].pc # "idle"
      PROVE  /\ FromWasActive(job[b].r)'
             /\ job'[b].pc # "target" => TargetPlanned(job[b].r)'
  <2>1. job'[b].r \in Rollovers
    BY <1>2, <1>5 DEF Typed, JobNamesRollover
  <2>2. PICK r \in Rollovers : r = job'[b].r
    BY <2>1
  <2>3. FromWasActive(r) /\ (job'[b].pc # "target" => TargetPlanned(r))
    BY <1>4, <1>5, <2>2
  <2>4. FromWasActive(r)' /\ (job'[b].pc # "target" => TargetPlanned(r)')
    BY <2>3, PairKept
  <2> QED
    BY <2>2, <2>4 DEF FromWasActive, TargetPlanned
<1> QED
  BY <1>3, <1>5 DEF CalendarInv

LEMMA NextIInv == IInv /\ [Next]_vars => IInv'
  BY NextTyped, OneActiveKept, CalendarInvKept DEF IInv

\* A tenant never finds itself without its one active academic year, and the
\* facts about plans that make this inductive hold of every plan, however stale.
THEOREM OneActiveYear == Spec => [](ExactlyOneActiveYear /\ CalendarInv)
<1>1. IInv => ExactlyOneActiveYear /\ CalendarInv
  BY DEF IInv
<1> QED
  BY <1>1, InitIInv, NextIInv, PTL DEF Spec

\* The rollover engine implements the abstract calendar: under any interleaving
\* of planning, overriding, committing and re-committing, years only go from
\* planned to active to closed, one hand-over at a time.
THEOREM ImplementsCalendar == Spec => CalendarSpec
<1>1. Init => Calendar!Init
  BY DEF Init, Calendar!Init
<1>2. IInv /\ [Next]_vars => [Calendar!Next]_status
  BY StatusSteps DEF Calendar!Next
<1> QED
  BY <1>1, <1>2, InitIInv, NextIInv, PTL DEF Spec, CalendarSpec, Calendar!Spec
-------------------------------------------------------------------------------
(* What a step may never do *)

\* upsert_rollover_lines leaves an overridden line its override and target.
LEMMA UpsertLineKeepsOverride ==
  ASSUME NEW old \in Line, NEW p \in Proposal \cup {None}, old # None,
         UpsertLine(old, p) # None, old.override # None
  PROVE  /\ UpsertLine(old, p).override = old.override
         /\ UpsertLine(old, p).level = old.level
         /\ UpsertLine(old, p).label = old.label
  BY DEF UpsertLine

\* The override an admin set on a line, and the target chosen with it, survive
\* every recompute of every plan, however stale the facts it was computed from,
\* for any number of students, plans and concurrent requests.
THEOREM OverridesSurvive == Spec => OverrideSurvivesRecompute
<1> DEFINE Keeps(r, s) == lines[r][s] # None /\ lines'[r][s] # None /\ lines[r][s].override # None
                            => /\ lines'[r][s].override = lines[r][s].override
                               /\ lines'[r][s].level = lines[r][s].level
                               /\ lines'[r][s].label = lines[r][s].label
<1>1. ASSUME Typed, NEW a \in Admins, UpsertLines(a), NEW r \in Rollovers, NEW s \in Students
      PROVE  Keeps(r, s)
  <2>1. job[a].r \in Rollovers /\ job[a] \in Job
    BY <1>1 DEF UpsertLines, Typed, TypeOK, JobNamesRollover
  <2>2. /\ lines \in [Rollovers -> [Students -> Line \cup {None}]]
        /\ job[a].plan[s] \in Proposal \cup {None}
    BY <1>1, <2>1 DEF Typed, TypeOK, Job
  <2>3. lines'[r][s] = lines[r][s] \/ lines'[r][s] = UpsertLine(lines[r][s], job[a].plan[s])
    BY <1>1, <2>1, <2>2 DEF UpsertLines
  <2>4. CASE lines'[r][s] = lines[r][s]
    BY <2>4
  <2>5. CASE lines'[r][s] = UpsertLine(lines[r][s], job[a].plan[s])
    <3> SUFFICES ASSUME lines[r][s] # None, lines'[r][s] # None, lines[r][s].override # None
                 PROVE  /\ lines'[r][s].override = lines[r][s].override
                        /\ lines'[r][s].level = lines[r][s].level
                        /\ lines'[r][s].label = lines[r][s].label
      OBVIOUS
    <3>1. lines[r][s] \in Line
      BY <2>2
    <3> QED
      BY <2>2, <2>5, <3>1, UpsertLineKeepsOverride
  <2> QED
    BY <2>3, <2>4, <2>5
<1>2. Typed /\ [Next]_vars =>
        [\A a \in Admins : UpsertLines(a) => \A r \in Rollovers, s \in Students : Keeps(r, s)]_vars
  BY <1>1
<1> QED
  BY <1>2, InitTyped, NextTyped, PTL DEF Spec, OverrideSurvivesRecompute

\* Only its own commit stamps a rollover committed.
LEMMA CommittedByCommit ==
  ASSUME Typed, [Next]_vars, NEW r \in Rollovers,
         rollover[r] # "committed", rollover'[r] = "committed"
  PROVE  Commit(r)
<1>1. rollover \in [Rollovers -> {"none", "draft", "previewed", "committed"}]
  BY DEF Typed, TypeOK
<1>2. ASSUME NEW a \in Admins, Planning(a)
      PROVE  FALSE
  <2>1. CASE GenerateInsert(a)
    BY <1>1, <2>1 DEF GenerateInsert, Typed, JobNamesRollover
  <2>2. CASE PreviewSet(a)
    BY <1>1, <2>2 DEF PreviewSet, Typed, JobNamesRollover
  <2>3. CASE rollover' = rollover
    BY <2>3
  <2> QED
    BY <1>2, <2>1, <2>2, <2>3 DEF Planning, GenerateReadFrom, GenerateReadTo, PreviewStart,
                                  ReadFacts, UpsertLines, PreviewCheck
<1>3. ASSUME NEW q \in Rollovers, Commit(q)
      PROVE  q = r
  BY <1>1, <1>3 DEF Commit
<1>4. ~(rollover' = rollover)
  OBVIOUS
<1>5. ~PlacementNext
  BY <1>4 DEF PlacementNext, DeleteClassRead, DeleteClassWrite, DeleteClassFail, Reassign,
              UpsertStudentRead, UpsertStudentWrite, UpsertStudentFail
<1> QED
  BY <1>2, <1>3, <1>4, <1>5 DEF Next, RolloverNext, CreateYear, CreateClass, DeactivateClass,
                                Override, vars

\* A commit settles the line of every student: applied, or on hold; and whoever
\* it moved is out or in a class, that exists, of the year it activated.
LEMMA CommitSettles ==
  ASSUME Typed, NEW r \in Rollovers, Commit(r), NEW s \in Students, lines'[r][s] # None
  PROVE  /\ ~lines'[r][s].applied => Effective(lines'[r][s]) = "hold"
         /\ cls'[s] # cls[s] /\ cls'[s] # None
              => status'[cls'[s].year] = "active" /\ class'[cls'[s]] # "absent"
<1> DEFINE promoted == Pending(r, "promote")
           exited == Pending(r, "graduate") \cup Pending(r, "withdraw")
<1>0. /\ lines \in [Rollovers -> [Students -> Line \cup {None}]]
      /\ status \in [Years -> {"absent", "planned", "active", "closed"}]
      /\ class \in [ClassId -> {"absent", "active", "inactive"}]
      /\ r[2] \in Years
  BY DEF Typed, TypeOK, Rollovers
<1>1. lines'[r][s] = IF s \in promoted \cup exited
                     THEN [lines[r][s] EXCEPT !.applied = TRUE] ELSE lines[r][s]
  BY <1>0 DEF Commit
<1>2. CASE s \in promoted \cup exited
  <2>1. lines[r][s] \in Line
    BY <1>0, <1>2 DEF Pending
  <2>2. lines'[r][s].applied
    BY <1>1, <1>2, <2>1 DEF Line
  <2>3. CASE s \in promoted
    <3>1. /\ cls'[s] = TargetClass(r, s)
          /\ TargetClass(r, s) \in Resolved(r)
          /\ lines[r][s].level # None
      BY <2>3 DEF Commit
    <3>2. TargetClass(r, s) \in ClassId
      BY <2>3, <3>1, TargetClassType DEF Pending, Typed
    <3>3. cls'[s].year = r[2]
      BY <3>1 DEF TargetClass
    <3>4. status'[r[2]] = "active"
      BY <1>0 DEF Commit, Flip
    <3>5. class'[TargetClass(r, s)] # "absent"
      BY <1>0, <3>1, <3>2 DEF Commit
    <3> QED
      BY <2>2, <3>1, <3>3, <3>4, <3>5
  <2>4. CASE s \notin promoted
    <3>1. cls'[s] = None
      BY <1>2, <2>4 DEF Commit
    <3> QED
      BY <2>2, <3>1
  <2> QED
    BY <2>3, <2>4
<1>3. CASE s \notin promoted \cup exited
  <2>1. lines'[r][s] = lines[r][s] /\ lines[r][s] \in Line
    BY <1>0, <1>1, <1>3
  <2>2. Effective(lines[r][s]) \in Actions
    BY <2>1 DEF Effective, Line, Actions
  <2>3. ~lines[r][s].applied => Effective(lines[r][s]) = "hold"
    BY <1>3, <2>1, <2>2 DEF Pending, Actions
  <2>4. cls'[s] = cls[s]
    BY <1>3 DEF Commit
  <2> QED
    BY <2>1, <2>3, <2>4
<1> QED
  BY <1>2, <1>3

\* A commit never half-applies its plan, for any number of students, years and
\* competing plans, and however stale the plan is.
THEOREM WholePlans == Spec => CommitAppliesWholePlan
<1> DEFINE Whole == \A r \in Rollovers : rollover[r] # "committed" /\ rollover'[r] = "committed" =>
              \A s \in Students : lines'[r][s] # None =>
                /\ ~lines'[r][s].applied => Effective(lines'[r][s]) = "hold"
                /\ cls'[s] # cls[s] /\ cls'[s] # None
                     => status'[cls'[s].year] = "active" /\ class'[cls'[s]] # "absent"
<1>1. Typed /\ [Next]_vars => [Whole]_vars
  BY CommittedByCommit, CommitSettles
<1> QED
  BY <1>1, InitTyped, NextTyped, PTL DEF Spec, CommitAppliesWholePlan, Effective

\* The newest history row of a student follows every writer of class_id but two.
LEMMA HistoryFollows ==
  ASSUME Typed, [Next]_vars, NEW s \in Students, hist[s] = cls[s], hist'[s] # cls'[s]
  PROVE  StaleUpsert(s) \/ \E d \in Removers : StaleRemoval(d, s)
<1>0. TypeOK
  BY DEF Typed
<1>1. ~(hist' = hist /\ cls' = cls)
  OBVIOUS
<1>2. ASSUME NEW a \in Admins
      PROVE  ~Planning(a)
  BY <1>1 DEF Planning, GenerateReadFrom, GenerateReadTo, GenerateInsert, PreviewStart,
              ReadFacts, UpsertLines, PreviewCheck, PreviewSet
<1>3. ASSUME NEW r \in Rollovers
      PROVE  ~Commit(r)
  <2> SUFFICES ASSUME Commit(r) PROVE FALSE
    OBVIOUS
  <2>1. CASE s \in Pending(r, "promote") \cup (Pending(r, "graduate") \cup Pending(r, "withdraw"))
    BY <2>1 DEF Commit
  <2>2. CASE s \notin Pending(r, "promote") \cup (Pending(r, "graduate") \cup Pending(r, "withdraw"))
    BY <2>2 DEF Commit
  <2> QED
    BY <2>1, <2>2
<1>4. ASSUME NEW d \in Removers, DeleteClassWrite(d)
      PROVE  StaleRemoval(d, s)
  <2>1. /\ cls'[s] = Cleared(cls[s], removal[d].of)
        /\ hist'[s] = IF s \in removal[d].seen THEN None ELSE Cleared(hist[s], removal[d].of)
        /\ removal'[d] = None /\ removal[d] # None
    BY <1>0, <1>4 DEF DeleteClassWrite, TypeOK
  <2>2. s \in removal[d].seen /\ cls[s] # removal[d].of
    BY <2>1 DEF Cleared
  <2> QED
    BY <2>1, <2>2 DEF StaleRemoval
<1>5. ASSUME NEW S \in SUBSET Students, NEW c \in Placement
      PROVE  ~Reassign(S, c)
  BY DEF Reassign, Recorded
<1>6. ASSUME NEW t \in Students, NEW c \in Placement, UpsertStudentWrite(t, c)
      PROVE  StaleUpsert(s)
  <2>1. /\ cls' = [cls EXCEPT ![t] = c]
        /\ hist' = [hist EXCEPT ![t] = Recorded(t, upsert[t].seen, c)]
        /\ upsert' = [upsert EXCEPT ![t] = None]
        /\ upsert[t] # None
    BY <1>6 DEF UpsertStudentWrite
  <2>2. t = s
    BY <1>0, <2>1 DEF TypeOK
  <2>3. upsert'[s] = None /\ cls'[s] = c /\ hist'[s] = Recorded(s, upsert[s].seen, c)
    BY <1>0, <2>1, <2>2 DEF TypeOK
  <2>4. upsert[s].seen # cls[s]
    BY <2>3 DEF Recorded
  <2> QED
    BY <2>1, <2>2, <2>3, <2>4 DEF StaleUpsert
<1>7. \/ ~PlacementNext
      \/ \E t \in Students, c \in Placement : UpsertStudentWrite(t, c)
      \/ \E d \in Removers : DeleteClassWrite(d)
  BY <1>1, <1>5, ConstantsAssumption DEF PlacementNext, UpsertStudentRead, UpsertStudentFail,
                                         DeleteClassRead, DeleteClassFail
<1> QED
  BY <1>1, <1>2, <1>3, <1>4, <1>6, <1>7 DEF Next, RolloverNext, CreateYear, CreateClass,
                                            DeactivateClass, Override, vars

\* The history of a student leaves the placement in two ways only: through a
\* create_student, or a delete_class, that writes from an unlocked read that is
\* no longer true.  Whatever else moves students, in bulk or by a commit, keeps
\* the two together.
THEOREM HistoryAgrees == Spec => HistoryDivergesOnlyByStaleRead
<1> DEFINE Follows == \A s \in Students : hist[s] = cls[s] /\ hist'[s] # cls'[s]
                        => StaleUpsert(s) \/ \E d \in Removers : StaleRemoval(d, s)
<1>1. Typed /\ [Next]_vars => [Follows]_vars
  BY HistoryFollows
<1> QED
  BY <1>1, InitTyped, NextTyped, PTL DEF Spec, HistoryDivergesOnlyByStaleRead, StaleUpsert, StaleRemoval
===============================================================================
