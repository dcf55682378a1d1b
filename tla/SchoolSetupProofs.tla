--------------------------- MODULE SchoolSetupProofs ---------------------------
(***************************************************************************)
(* Proofs about the setup of a school, for any number of requests, codes,  *)
(* systems and students and for structures of any size: its mirror in the  *)
(* control plane, the freeze of a live school, the refinement of           *)
(* SetupStages, the rows of the database and the locals of the requests,   *)
(* and what saves, imports and deletions may do to a section.              *)
(*                                                                         *)
(* IInv is about the school and the requests; of the structure it needs    *)
(* only which levels are active and which have a section.  TInv adds the   *)
(* rows and what each request carries to them; it rests on IInv.           *)
(***************************************************************************)
EXTENDS SchoolSetup, SequenceTheorems, FiniteSetTheorems, WellFoundedInduction, TLAPS

Fields == {"op", "pc", "payload", "rows", "name", "id", "class", "ids", "to", "active"}

\* Every request has its locals, and the profile its columns.
Shape ==
  /\ DOMAIN req = Requests /\ \A r \in Requests : DOMAIN req[r] = Fields
  /\ DOMAIN school = {"filled", "code", "committed", "live"} /\ school.live \in BOOLEAN

\* The one update of the mirror that is under way carries the code of the school.
Mirrored ==
  /\ school.code = None =>
       mirror = None /\ \A r \in Requests : req[r].pc = "mirror" => req[r].to = None
  /\ MirrorFollows
  /\ \A r \in Requests :
       ~blurred /\ req[r].pc = "mirror" /\ (\A o \in Requests \ {r} : req[o].pc # "mirror")
         => req[r].to = school.code
  /\ \A r \in Requests : req[r].pc \in {"reread", "mirror"} => req[r].op # "campus"

\* What request q may still do to a live school once the early ones are done.
Harmless(q) ==
  /\ q.op = "profile" /\ q.pc = "write" => q.to \in {None, school.code}
  /\ q.op = "save" /\ q.pc \in {"save", "remove"} => q.to \in {Blank, system}

\* While one early request is under way all that are under way count as early.
Frozen ==
  school.live =>
    /\ early # {} => \A r \in Requests : req[r] # Idle => r \in early
    /\ early = {} => \A r \in Requests : Harmless(req[r])

\* What request q has seen by now.
Seen(q) ==
  IF q.op = "commit" /\ q.pc = "campus" THEN {"fields"}
  ELSE IF q.op = "commit" /\ q.pc = "contact" THEN {"fields", "campus"}
  ELSE IF q.op = "commit" /\ q.pc = "stamp" THEN {"fields", "campus", "contact"}
  ELSE {}

\* What request q knows of the structure of a school that is not live was so once.
Backed(q) ==
  /\ (q.op = "activate" /\ q.pc = "classes") \/ q.pc = "classes?" => q.ids \subseteq opened
  /\ (q.op = "activate" /\ q.pc = "stamp") \/ q.pc = "grandfather" => opened \cap filled # {}

AllFacts == {"fields", "campus", "contact"}

\* Whatever was seen was on record.
Recorded ==
  /\ Holding \subseteq facts /\ facts \subseteq AllFacts
  /\ \A r \in Requests : Seen(req[r]) \subseteq facts
  /\ ~school.live =>
       /\ ActiveLevels(db) \subseteq opened /\ FilledLevels(db) \subseteq filled
       /\ \A r \in Requests : Backed(req[r])

IInv == Shape /\ Mirrored /\ Frozen /\ Recorded

-------------------------------------------------------------------------------
(* Steps of one request.                                                    *)

\* What every step adds to the history.
Remembers ==
  /\ facts' = facts \cup Holding'
  /\ opened' = IF school.live THEN opened ELSE opened \cup ActiveLevels(db')
  /\ filled' = IF school.live THEN filled ELSE filled \cup FilledLevels(db')

\* Request r goes on as q.
Moved(r, q) == req' = [req EXCEPT ![r] = q] /\ DOMAIN q = Fields

\* What becomes of the early requests when r starts, and when it goes on as q.
Starts(r) == early' = IF early = {} THEN {} ELSE early \cup {r}
Goes(r, q) == req[r] # Idle /\ early' = IF q = Idle THEN early \ {r} ELSE early

LEMMA IdleShape ==
  DOMAIN Idle = Fields /\ Idle.pc = "idle" /\ Idle.op = "none" /\ Idle.to = None
  BY DEF Idle, Fields

LEMMA MovedTo ==
  ASSUME Shape, NEW r \in Requests, NEW q, Moved(r, q)
  PROVE  /\ req'[r] = q /\ (\A o \in Requests \ {r} : req'[o] = req[o])
         /\ DOMAIN req' = Requests /\ \A o \in Requests : DOMAIN req'[o] = Fields
  BY DEF Shape, Moved

\* Harmless after the step.
HarmlessNext(q) ==
  /\ q.op = "profile" /\ q.pc = "write" => q.to \in {None, school'.code}
  /\ q.op = "save" /\ q.pc \in {"save", "remove"} => q.to \in {Blank, system'}

LEMMA FrozenStep ==
  ASSUME Shape, Frozen, NEW r \in Requests, NEW q, Moved(r, q), Starts(r) \/ Goes(r, q),
         school'.live = school.live,
         school.live /\ early = {} =>
           school'.code = school.code /\ system' = system /\ Harmless(q)
  PROVE  Frozen'
<1> SUFFICES ASSUME school.live
             PROVE  /\ early' # {} => \A o \in Requests : req'[o] # Idle => o \in early'
                    /\ early' = {} => \A o \in Requests : HarmlessNext(req'[o])
  BY DEF Frozen, Harmless, HarmlessNext
<1>1. req'[r] = q /\ \A o \in Requests \ {r} : req'[o] = req[o]
  BY MovedTo
<1>2. CASE early = {}
  <2>1. early' = {} /\ school'.code = school.code /\ system' = system /\ Harmless(q)
    BY <1>2 DEF Starts, Goes
  <2>2. \A o \in Requests : Harmless(req'[o])
    BY <1>1, <1>2, <2>1 DEF Frozen
  <2> QED BY <2>1, <2>2 DEF Harmless, HarmlessNext
<1>3. CASE early # {} /\ Starts(r)
  <2>1. early' = early \cup {r} /\ early' # {}
    BY <1>3 DEF Starts
  <2> QED BY <1>1, <1>3, <2>1 DEF Frozen
<1>4. CASE early # {} /\ Goes(r, q) /\ q # Idle
  <2>1. early' = early
    BY <1>4 DEF Goes
  <2>2. req[r] # Idle
    BY <1>4 DEF Goes
  <2> QED BY <1>1, <1>4, <2>1, <2>2 DEF Frozen
<1>5. CASE early # {} /\ Goes(r, q) /\ q = Idle
  <2>1. early' = early \ {r}
    BY <1>5 DEF Goes
  <2>2. \A o \in Requests : req'[o] # Idle => o \in early'
    BY <1>1, <1>5, <2>1 DEF Frozen
  <2>3. early' = {} => \A o \in Requests : req'[o] = Idle
    BY <2>2
  <2>4. \A o \in Requests : req'[o] = Idle => HarmlessNext(req'[o])
    BY IdleShape DEF HarmlessNext
  <2> QED BY <2>2, <2>3, <2>4
<1> QED BY <1>2, <1>3, <1>4, <1>5

LEMMA MirroredStep ==
  ASSUME Shape, Mirrored, NEW r \in Requests, NEW q, Moved(r, q),
         req[r].pc # "mirror", q.pc # "mirror", q.pc = "reread" => q.op # "campus",
         school'.code = school.code, mirror' = mirror, blurred' = blurred
  PROVE  Mirrored'
<1>1. req'[r] = q /\ \A o \in Requests \ {r} : req'[o] = req[o]
  BY MovedTo
<1>2. \A o \in Requests : req'[o].pc = "mirror" <=> req[o].pc = "mirror"
  BY <1>1
<1>3. \A o \in Requests : req[o].pc = "mirror" => req'[o] = req[o]
  BY <1>1
<1>4. MirrorFollows'
  BY <1>2 DEF Mirrored, MirrorFollows
<1>5. (school.code = None =>
         mirror = None /\ \A o \in Requests : req[o].pc = "mirror" => req[o].to = None)'
  BY <1>2, <1>3 DEF Mirrored
<1>6. ASSUME NEW o \in Requests, ~blurred', req'[o].pc = "mirror",
             \A x \in Requests \ {o} : req'[x].pc # "mirror"
      PROVE  req'[o].to = school'.code
  BY <1>2, <1>3, <1>6 DEF Mirrored
<1>7. \A o \in Requests : req'[o].pc \in {"reread", "mirror"} => req'[o].op # "campus"
  BY <1>1 DEF Mirrored
<1> QED BY <1>4, <1>5, <1>6, <1>7 DEF Mirrored

LEMMA RecordedStep ==
  ASSUME Shape, Recorded, Remembers, NEW r \in Requests, NEW q, Moved(r, q),
         Seen(q) \subseteq facts, school.live => school'.live, ~school.live => Backed(q)
  PROVE  Recorded'
<1>1. req'[r] = q /\ \A o \in Requests \ {r} : req'[o] = req[o]
  BY MovedTo
<1>2. Holding' \subseteq AllFacts
  BY DEF Holding, AllFacts
<1>3. \A o \in Requests : Seen(req'[o]) \subseteq facts
  BY <1>1 DEF Recorded
<1>4. ASSUME ~school'.live
      PROVE  /\ ActiveLevels(db') \subseteq opened' /\ FilledLevels(db') \subseteq filled'
             /\ \A o \in Requests : Backed(req[o])'
  <2>1. ~school.live /\ \A o \in Requests : Backed(req'[o])
    BY <1>1, <1>4 DEF Recorded
  <2>2. opened' = opened \cup ActiveLevels(db') /\ filled' = filled \cup FilledLevels(db')
    BY <2>1 DEF Remembers
  <2> QED BY <2>1, <2>2 DEF Backed
<1> QED BY <1>2, <1>3, <1>4 DEF Recorded, Seen, Remembers

\* A step of r that touches neither the profile, nor the system, nor the mirror.
LEMMA QuietStep ==
  ASSUME IInv, Remembers, NEW r \in Requests, NEW q, Moved(r, q),
         Starts(r) \/ Goes(r, q), UNCHANGED <<system, mirror, blurred>>,
         DOMAIN school' = DOMAIN school, school'.live = school.live, school'.code = school.code,
         req[r].pc # "mirror", q.pc # "mirror", q.pc = "reread" => q.op # "campus",
         school.live /\ early = {} => Harmless(q), Seen(q) \subseteq facts,
         ~school.live => Backed(q)
  PROVE  IInv'
<1>1. Shape'
  BY MovedTo DEF IInv, Shape
<1>2. Frozen'
  BY FrozenStep DEF IInv
<1>3. Mirrored'
  BY MirroredStep DEF IInv
<1>4. Recorded'
  BY RecordedStep DEF IInv
<1> QED BY <1>1, <1>2, <1>3, <1>4 DEF IInv

\* Where nothing has to be known.
Plain(q) ==
  /\ DOMAIN q = Fields /\ q.pc \notin {"mirror", "reread", "classes?", "grandfather", "save"}
  /\ q.op \in {"commit", "activate"} => q.pc \notin {"campus", "contact", "classes", "stamp"}
  /\ ~(q.op = "profile" /\ q.pc = "write") /\ ~(q.op = "save" /\ q.pc = "remove")

LEMMA PlainStep ==
  ASSUME IInv, Remembers, NEW r \in Requests, NEW q,
         req' = [req EXCEPT ![r] = q], Plain(q), Starts(r) \/ Goes(r, q),
         UNCHANGED <<school, system, mirror, blurred>>, req[r].pc # "mirror"
  PROVE  IInv'
<1>1. /\ Moved(r, q) /\ Harmless(q) /\ Seen(q) = {} /\ q.pc # "mirror" /\ q.pc # "reread"
      /\ Backed(q)
  BY DEF Moved, Plain, Harmless, Seen, Backed
<1> QED BY <1>1, QuietStep

LEMMA PlainIdle == Plain(Idle)
  BY IdleShape DEF Plain

\* A step of nobody's request.
LEMMA BesideStep ==
  ASSUME IInv, Remembers, UNCHANGED <<school, system, mirror, req, early, blurred>>
  PROVE  IInv'
<1>1. Shape' /\ Frozen'
  BY DEF IInv, Shape, Frozen, Harmless
<1>2. Mirrored'
  BY DEF IInv, Mirrored, MirrorFollows
<1>3. Holding' \subseteq AllFacts
  BY DEF Holding, AllFacts
<1>4. Recorded'
  BY <1>3 DEF IInv, Recorded, Seen, Remembers, Backed
<1> QED BY <1>1, <1>2, <1>4 DEF IInv

LEMMA NewRequest ==
  ASSUME NEW r \in Requests, NEW q, Begin(r, q)
  PROVE  /\ req' = [req EXCEPT ![r] = q] /\ Starts(r) /\ blurred' = blurred
         /\ req[r] = Idle /\ req[r].pc # "mirror"
  BY IdleShape DEF Begin, Starts

LEMMA OldRequest ==
  ASSUME NEW r \in Requests, NEW q, Then(r, q), req[r].pc # "idle"
  PROVE  req' = [req EXCEPT ![r] = q] /\ Goes(r, q) /\ blurred' = blurred
  BY IdleShape DEF Then, Go, Goes

LEMMA Untouched ==
  ASSUME UNCHANGED stored
  PROVE  UNCHANGED <<school, campuses, contacts, system, db, mirror>> /\ Holding' = Holding
  BY DEF stored, Holding

LEMMA PcShape ==
  ASSUME NEW q, DOMAIN q = Fields, NEW l
  PROVE  LET z == [q EXCEPT !.pc = l]
         IN DOMAIN z = Fields /\ z.pc = l /\ z.op = q.op /\ z.to = q.to
  BY DEF Fields

-------------------------------------------------------------------------------
(* The profile, the campus and the mirror.                                  *)

LEMMA UpdateProfileCheckInv ==
  ASSUME IInv, Remembers, NEW r \in Requests, NEW p, UpdateProfileCheck(r, p)
  PROVE  IInv'
<1>1. PICK q : /\ q = [Idle EXCEPT !.op = "profile", !.pc = "write", !.to = p.code, !.active = p.filled]
               /\ Begin(r, q) /\ UNCHANGED stored
  BY DEF UpdateProfileCheck
<1>2. DOMAIN q = Fields /\ q.op = "profile" /\ q.pc = "write" /\ q.to = p.code
  BY <1>1 DEF Idle, Fields
<1>3. school.live => Harmless(q)
  BY <1>2 DEF UpdateProfileCheck, Harmless
<1>4. Seen(q) = {} /\ Backed(q)
  BY <1>2 DEF Seen, Backed
<1>5. Moved(r, q) /\ Starts(r) /\ blurred' = blurred /\ req[r].pc # "mirror"
  BY <1>1, <1>2, NewRequest DEF Moved
<1> QED BY <1>1, <1>2, <1>3, <1>4, <1>5, Untouched, QuietStep

LEMMA UpdateProfileInv ==
  ASSUME IInv, Remembers, NEW r \in Requests, UpdateProfile(r)
  PROVE  IInv'
<1>1. /\ req[r].op = "profile" /\ req[r].pc = "write" /\ DOMAIN req[r] = Fields
      /\ DOMAIN school = {"filled", "code", "committed", "live"}
  BY DEF UpdateProfile, At, IInv, Shape
<1>2. /\ DOMAIN school' = DOMAIN school /\ school'.live = school.live
      /\ school'.code = IF req[r].to = None THEN school.code ELSE req[r].to
  BY <1>1 DEF UpdateProfile
<1>3. PICK q : /\ q = [req[r] EXCEPT !.pc = "mirror", !.to = school'.code] /\ Then(r, q)
  BY DEF UpdateProfile
<1>4. DOMAIN q = Fields /\ q.op = "profile" /\ q.pc = "mirror" /\ q.to = school'.code
  BY <1>1, <1>3 DEF Fields
<1>5. /\ Moved(r, q) /\ Goes(r, q) /\ blurred' = blurred
      /\ UNCHANGED <<campuses, contacts, system, db, mirror>>
  BY <1>1, <1>3, <1>4, OldRequest DEF Moved, UpdateProfile
<1>6. Shape'
  BY <1>2, <1>5, MovedTo DEF IInv, Shape
<1>7. Frozen'
  <2>1. Harmless(q)
    BY <1>4 DEF Harmless
  <2>2. school.live /\ early = {} => school'.code = school.code
    BY <1>1, <1>2 DEF IInv, Frozen, Harmless
  <2> QED BY <1>2, <1>5, <2>1, <2>2, FrozenStep DEF IInv
<1>8. Mirrored'
  <2>1. req'[r] = q /\ \A o \in Requests \ {r} : req'[o] = req[o]
    BY <1>5, MovedTo DEF IInv
  <2>2. MirrorFollows'
    BY <1>4, <2>1 DEF MirrorFollows
  <2>3. school'.code = None => school.code = None /\ school'.code = school.code
    BY <1>2
  <2>4. (school.code = None =>
           mirror = None /\ \A o \in Requests : req[o].pc = "mirror" => req[o].to = None)'
    BY <1>4, <1>5, <2>1, <2>3 DEF IInv, Mirrored
  <2>5. \A o \in Requests \ {r} : ~\A x \in Requests \ {o} : req'[x].pc # "mirror"
    BY <1>4, <2>1
  <2>6. \A o \in Requests : req'[o].pc \in {"reread", "mirror"} => req'[o].op # "campus"
    BY <1>4, <2>1 DEF IInv, Mirrored
  <2> QED BY <1>4, <2>1, <2>2, <2>4, <2>5, <2>6 DEF Mirrored
<1>9. Recorded'
  BY <1>2, <1>4, <1>5, RecordedStep DEF IInv, Seen, Backed
<1> QED BY <1>6, <1>7, <1>8, <1>9 DEF IInv

LEMMA SyncTenantMirrorInv ==
  ASSUME IInv, Remembers, NEW r \in Requests, SyncTenantMirror(r)
  PROVE  IInv'
<1>1. req[r].pc = "mirror" /\ UNCHANGED <<school, campuses, contacts, system, db>> /\ Go(r, Idle)
  BY DEF SyncTenantMirror
<1>2. Moved(r, Idle) /\ Goes(r, Idle)
  BY <1>1, IdleShape DEF Go, Goes, Moved
<1>3. Shape'
  BY <1>1, <1>2, MovedTo DEF IInv, Shape
<1>4. Frozen'
  <2>1. Harmless(Idle)
    BY IdleShape DEF Harmless
  <2> QED BY <1>1, <1>2, <2>1, FrozenStep DEF IInv
<1>5. Mirrored'
  <2>1. req'[r] = Idle /\ \A o \in Requests \ {r} : req'[o] = req[o]
    BY <1>2, MovedTo DEF IInv
  <2>2. \A o \in Requests : req'[o].pc \in {"reread", "mirror"} => req'[o].op # "campus"
    BY <2>1, IdleShape DEF IInv, Mirrored
  <2>3. (school.code = None =>
           mirror = None /\ \A o \in Requests : req[o].pc = "mirror" => req[o].to = None)'
    BY <1>1, <2>1, IdleShape DEF IInv, Mirrored, SyncTenantMirror
  <2>4. ~blurred' => /\ ~blurred /\ (\A o \in Requests \ {r} : req[o].pc # "mirror")
                     /\ mirror' = IF req[r].to = None THEN mirror ELSE req[r].to
    BY DEF SyncTenantMirror
  <2>5. ~blurred' => mirror' = school'.code
    BY <1>1, <2>4 DEF IInv, Mirrored
  <2>6. ~blurred' => \A o \in Requests : req'[o].pc # "mirror"
    BY <2>1, <2>4, IdleShape
  <2> QED BY <2>2, <2>3, <2>5, <2>6 DEF Mirrored, MirrorFollows
<1>6. Recorded'
  BY <1>1, <1>2, IdleShape, RecordedStep DEF IInv, Seen, Backed
<1> QED BY <1>3, <1>4, <1>5, <1>6 DEF IInv

LEMMA RereadInv ==
  ASSUME IInv, Remembers, NEW r \in Requests, Reread(r)
  PROVE  IInv'
<1>1. /\ req[r].pc = "reread" /\ req[r].op # "campus" /\ DOMAIN req[r] = Fields
  BY DEF Reread, IInv, Shape, Mirrored
<1>2. PICK q : q = [req[r] EXCEPT !.pc = "mirror", !.to = school.code] /\ Then(r, q)
  BY DEF Reread
<1>3. DOMAIN q = Fields /\ q.op = req[r].op /\ q.pc = "mirror" /\ q.to = school.code
  BY <1>1, <1>2 DEF Fields
<1>4. /\ Moved(r, q) /\ Goes(r, q) /\ blurred' = blurred
      /\ UNCHANGED <<school, campuses, contacts, system, db, mirror>>
  BY <1>1, <1>2, <1>3, OldRequest, Untouched DEF Moved, Reread
<1>5. Shape'
  BY <1>4, MovedTo DEF IInv, Shape
<1>6. Frozen'
  <2>1. Harmless(q)
    BY <1>3 DEF Harmless
  <2> QED BY <1>4, <2>1, FrozenStep DEF IInv
<1>7. Mirrored'
  <2>1. req'[r] = q /\ \A o \in Requests \ {r} : req'[o] = req[o]
    BY <1>4, MovedTo DEF IInv
  <2>2. MirrorFollows'
    BY <1>3, <2>1 DEF MirrorFollows
  <2>3. (school.code = None =>
           mirror = None /\ \A o \in Requests : req[o].pc = "mirror" => req[o].to = None)'
    BY <1>3, <1>4, <2>1 DEF IInv, Mirrored
  <2>4. \A o \in Requests \ {r} : ~\A x \in Requests \ {o} : req'[x].pc # "mirror"
    BY <1>3, <2>1
  <2>5. \A o \in Requests : req'[o].pc \in {"reread", "mirror"} => req'[o].op # "campus"
    BY <1>1, <1>3, <2>1 DEF IInv, Mirrored
  <2> QED BY <1>3, <1>4, <2>1, <2>2, <2>3, <2>4, <2>5 DEF Mirrored
<1>8. Recorded'
  <2>1. Seen(q) = {} /\ Backed(q)
    BY <1>3 DEF Seen, Backed
  <2> QED BY <1>4, <2>1, RecordedStep DEF IInv
<1> QED BY <1>5, <1>6, <1>7, <1>8 DEF IInv

LEMMA UpsertCampusReadInv ==
  ASSUME IInv, Remembers, NEW r \in Requests, UpsertCampusRead(r)
  PROVE  IInv'
<1>1. PICK q : /\ q = [Idle EXCEPT !.op = "campus", !.pc = IF campuses > 0 THEN "update" ELSE "insert"]
               /\ Begin(r, q)
  BY DEF UpsertCampusRead
<1>2. Plain(q)
  BY <1>1 DEF Plain, Idle, Fields
<1> QED BY <1>1, <1>2, NewRequest, Untouched, PlainStep DEF UpsertCampusRead

LEMMA UpsertCampusInv ==
  ASSUME IInv, Remembers, NEW r \in Requests, UpsertCampus(r)
  PROVE  IInv'
<1>1. /\ req[r].op = "campus" /\ Answer(r) /\ UNCHANGED <<school, system, mirror>>
  BY DEF UpsertCampus
<1>2. req[r].pc # "mirror" /\ req[r] # Idle
  BY <1>1, IdleShape DEF IInv, Mirrored
<1>3. req' = [req EXCEPT ![r] = Idle] /\ Goes(r, Idle) /\ blurred' = blurred
  BY <1>1, <1>2 DEF Answer, Then, Go, Goes
<1> QED BY <1>1, <1>2, <1>3, PlainIdle, PlainStep

LEMMA WriteContactInv ==
  ASSUME IInv, Remembers, NEW r \in Requests, WriteContact(r)
  PROVE  IInv'
  BY BesideStep DEF WriteContact

-------------------------------------------------------------------------------
(* commit_profile, activate and the gate.                                   *)

LEMMA CommitProfileCheckInv ==
  ASSUME IInv, Remembers, NEW r \in Requests, CommitProfileCheck(r)
  PROVE  IInv'
<1>1. PICK q : q = [Idle EXCEPT !.op = "commit", !.pc = "campus"] /\ Begin(r, q) /\ UNCHANGED stored
  BY DEF CommitProfileCheck
<1>2. DOMAIN q = Fields /\ q.op = "commit" /\ q.pc = "campus"
  BY <1>1 DEF Idle, Fields
<1>3. "fields" \in Holding
  BY DEF CommitProfileCheck, Holding
<1>4. Seen(q) \subseteq facts /\ Harmless(q) /\ Backed(q)
  BY <1>2, <1>3 DEF Seen, Harmless, Backed, IInv, Recorded
<1>5. Moved(r, q) /\ Starts(r) /\ blurred' = blurred /\ req[r].pc # "mirror"
  BY <1>1, <1>2, NewRequest DEF Moved
<1> QED BY <1>1, <1>2, <1>4, <1>5, Untouched, QuietStep

\* A request that goes on at l, for which what it saw is on record.
LEMMA SeenStep ==
  ASSUME IInv, Remembers, NEW r \in Requests, NEW l, To(r, l),
         UNCHANGED <<system, mirror>>, DOMAIN school' = DOMAIN school,
         school'.live = school.live, school'.code = school.code,
         req[r].op \in {"commit", "activate"} \/ l = "grandfather",
         req[r].pc \notin {"idle", "mirror"}, l \notin {"mirror", "write", "save", "remove"},
         l = "reread" => req[r].op # "campus",
         \A q : q.op = req[r].op /\ q.pc = l =>
                  Seen(q) \subseteq facts /\ (~school.live => Backed(q))
  PROVE  IInv'
<1>1. PICK q : q = [req[r] EXCEPT !.pc = l] /\ Then(r, q)
  BY DEF To
<1>2. DOMAIN req[r] = Fields
  BY DEF IInv, Shape
<1>3. DOMAIN q = Fields /\ q.op = req[r].op /\ q.pc = l
  BY <1>1, <1>2, PcShape
<1>4. Harmless(q) /\ Seen(q) \subseteq facts /\ (~school.live => Backed(q))
  BY <1>3 DEF Harmless
<1>5. Moved(r, q) /\ Goes(r, q) /\ blurred' = blurred
  BY <1>1, <1>3, OldRequest DEF Moved
<1> QED BY <1>3, <1>4, <1>5, QuietStep

LEMMA AnswerInv ==
  ASSUME IInv, Remembers, NEW r \in Requests, Answer(r),
         req[r].pc \notin {"idle", "mirror"}, UNCHANGED <<school, system, mirror>>
  PROVE  IInv'
<1>1. req' = [req EXCEPT ![r] = Idle] /\ Goes(r, Idle) /\ blurred' = blurred
  BY OldRequest DEF Answer
<1> QED BY <1>1, PlainIdle, PlainStep

LEMMA CommitProfileReadsInv ==
  ASSUME IInv, Remembers, NEW r \in Requests, CommitProfileReads(r)
  PROVE  IInv'
<1>1. UNCHANGED <<school, system, mirror>> /\ Holding' = Holding /\ DOMAIN req[r] = Fields
  BY Untouched DEF CommitProfileReads, IInv, Shape
<1>2. Seen(req[r]) \subseteq facts /\ Holding \subseteq facts
  BY DEF IInv, Recorded
<1>3. CASE Answer(r)
  BY <1>1, <1>3, AnswerInv DEF CommitProfileReads, At
<1>4. CASE At(r, "commit", "campus") /\ campuses > 0 /\ To(r, "contact")
  <2>1. "campus" \in Holding
    BY <1>4 DEF Holding
  <2>2. \A q : q.op = req[r].op /\ q.pc = "contact" => Seen(q) \subseteq facts /\ Backed(q)
    BY <1>2, <1>4, <2>1 DEF Seen, Backed, At
  <2> QED BY <1>1, <1>4, <2>2, SeenStep DEF At
<1>5. CASE At(r, "commit", "contact") /\ contacts > 0 /\ To(r, "stamp")
  <2>1. "contact" \in Holding
    BY <1>5 DEF Holding
  <2>2. \A q : q.op = req[r].op /\ q.pc = "stamp" => Seen(q) \subseteq facts /\ Backed(q)
    BY <1>2, <1>5, <2>1 DEF Seen, Backed, At
  <2> QED BY <1>1, <1>5, <2>2, SeenStep DEF At
<1> QED BY <1>3, <1>4, <1>5 DEF CommitProfileReads

LEMMA StampProfileCommittedInv ==
  ASSUME IInv, Remembers, NEW r \in Requests, StampProfileCommitted(r)
  PROVE  IInv'
<1>1. /\ req[r].op = "commit" /\ req[r].pc = "stamp" /\ To(r, "reread")
      /\ UNCHANGED <<system, mirror>> /\ DOMAIN req[r] = Fields
  BY DEF StampProfileCommitted, At, IInv, Shape
<1>2. DOMAIN school' = DOMAIN school /\ school'.live = school.live /\ school'.code = school.code
  BY DEF StampProfileCommitted, IInv, Shape
<1>3. \A q : q.op = req[r].op /\ q.pc = "reread" => Seen(q) \subseteq facts /\ Backed(q)
  BY <1>1 DEF Seen, Backed
<1> QED BY <1>1, <1>2, <1>3, SeenStep

LEMMA ActivateCheckInv ==
  ASSUME IInv, Remembers, NEW r \in Requests, ActivateCheck(r)
  PROVE  IInv'
<1>1. PICK q : q = [Idle EXCEPT !.op = "activate", !.pc = "structure"] /\ Begin(r, q) /\ UNCHANGED stored
  BY DEF ActivateCheck
<1>2. DOMAIN q = Fields /\ q.op = "activate" /\ q.pc = "structure"
  BY <1>1 DEF Idle, Fields
<1>3. Seen(q) = {} /\ Harmless(q) /\ Backed(q)
  BY <1>2 DEF Seen, Harmless, Backed
<1>4. Moved(r, q) /\ Starts(r) /\ blurred' = blurred /\ req[r].pc # "mirror"
  BY <1>1, <1>2, NewRequest DEF Moved
<1> QED BY <1>1, <1>2, <1>3, <1>4, Untouched, QuietStep

\* The first statement of a look at the structure.
LEMMA ReadLevelsInv ==
  ASSUME IInv, Remembers, NEW r \in Requests, NEW l, ReadLevels(r, l), UNCHANGED <<school, system, mirror>>,
         req[r].pc \notin {"idle", "mirror"}, (req[r].op = "activate" /\ l = "classes") \/ l = "classes?"
  PROVE  IInv'
<1>1. PICK q : q = [req[r] EXCEPT !.pc = l, !.ids = ActiveLevels(db)] /\ Then(r, q)
  BY DEF ReadLevels
<1>2. DOMAIN req[r] = Fields
  BY DEF IInv, Shape
<1>3. DOMAIN q = Fields /\ q.op = req[r].op /\ q.pc = l /\ q.ids = ActiveLevels(db)
  BY <1>1, <1>2 DEF Fields
<1>4. Harmless(q) /\ Seen(q) = {}
  BY <1>3 DEF Harmless, Seen
<1>5. ~school.live => Backed(q)
  BY <1>3 DEF Backed, IInv, Recorded
<1>6. Moved(r, q) /\ Goes(r, q) /\ blurred' = blurred
  BY <1>1, <1>3, OldRequest DEF Moved
<1> QED BY <1>3, <1>4, <1>5, <1>6, QuietStep

\* A structure that its second statement finds was there, if not at once.
LEMMA StructureWasThere ==
  ASSUME IInv, NEW r \in Requests, HasStructure(r), ~school.live,
         (req[r].op = "activate" /\ req[r].pc = "classes") \/ req[r].pc = "classes?"
  PROVE  opened \cap filled # {}
<1>1. req[r].ids \subseteq opened /\ FilledLevels(db) \subseteq filled
  BY DEF IInv, Recorded, Backed
<1> QED BY <1>1 DEF HasStructure

LEMMA ActivateReadsInv ==
  ASSUME IInv, Remembers, NEW r \in Requests, ActivateReads(r)
  PROVE  IInv'
<1>1. /\ UNCHANGED <<school, system, mirror>> /\ DOMAIN req[r] = Fields
      /\ req[r].op = "activate" /\ req[r].pc \in {"structure", "classes"}
  BY Untouched DEF ActivateReads, At, IInv, Shape
<1>2. CASE Answer(r)
  BY <1>1, <1>2, AnswerInv
<1>3. CASE ReadLevels(r, "classes")
  BY <1>1, <1>3, ReadLevelsInv
<1>4. CASE /\ req[r].pc = "classes" /\ HasStructure(r)
           /\ Then(r, [req[r] EXCEPT !.pc = "stamp", !.ids = {}])
  <2>1. PICK q : q = [req[r] EXCEPT !.pc = "stamp", !.ids = {}] /\ Then(r, q)
    BY <1>4
  <2>2. DOMAIN q = Fields /\ q.op = "activate" /\ q.pc = "stamp"
    BY <1>1, <2>1 DEF Fields
  <2>3. Harmless(q) /\ Seen(q) = {}
    BY <2>2 DEF Harmless, Seen
  <2>4. ~school.live => Backed(q)
    BY <1>1, <1>4, <2>2, StructureWasThere DEF Backed
  <2>5. Moved(r, q) /\ Goes(r, q) /\ blurred' = blurred
    BY <1>1, <2>1, <2>2, OldRequest DEF Moved
  <2> QED BY <1>1, <2>2, <2>3, <2>4, <2>5, QuietStep
<1> QED BY <1>2, <1>3, <1>4 DEF ActivateReads, At

\* The school goes live: whoever is in flight counts as early.
LEMMA GoLiveInv ==
  ASSUME IInv, Remembers, NEW r \in Requests, NEW q, GoLive(r, q),
         DOMAIN q = Fields, req[r].pc \notin {"idle", "mirror"},
         q.pc \notin {"mirror", "classes?", "grandfather", "save", "remove", "write", "stamp", "contact",
                     "campus", "classes"},
         q.pc = "reread" => q.op # "campus"
  PROVE  IInv'
<1>1. /\ Moved(r, q) /\ UNCHANGED <<campuses, contacts, system, db, mirror, blurred>>
      /\ early' = (IF school.live THEN early ELSE Others(r) \cup {r}) \ (IF q = Idle THEN {r} ELSE {})
  BY DEF GoLive, Moved
<1>2. DOMAIN school' = DOMAIN school /\ school'.live = TRUE /\ school'.code = school.code
  BY DEF GoLive, IInv, Shape
<1>3. Harmless(q) /\ Seen(q) = {} /\ Backed(q)
  BY DEF Harmless, Seen, Backed
<1>4. Shape'
  BY <1>1, <1>2, MovedTo DEF IInv, Shape
<1>5. Mirrored'
  BY <1>1, <1>2, MirroredStep DEF IInv
<1>6. Recorded'
  BY <1>1, <1>2, <1>3, RecordedStep DEF IInv
<1>7. Frozen'
  <2>1. req'[r] = q /\ \A o \in Requests \ {r} : req'[o] = req[o]
    BY <1>1, MovedTo DEF IInv
  <2>2. CASE school.live = TRUE
    <3>1. Goes(r, q)
      BY <1>1, <2>2, IdleShape DEF Goes
    <3> QED BY <1>1, <1>2, <1>3, <2>2, <3>1, FrozenStep DEF IInv
  <2>3. CASE ~school.live
    <3>1. \A o \in Requests : req'[o] # Idle => o \in early'
      BY <1>1, <2>1, <2>3 DEF Others
    <3>2. early' = {} => \A o \in Requests : HarmlessNext(req'[o])
      BY <3>1, IdleShape DEF HarmlessNext
    <3> QED BY <3>1, <3>2 DEF Frozen, Harmless, HarmlessNext
  <2> QED BY <2>2, <2>3 DEF IInv, Shape
<1> QED BY <1>4, <1>5, <1>6, <1>7 DEF IInv

LEMMA ActivateInv ==
  ASSUME IInv, Remembers, NEW r \in Requests, Activate(r)
  PROVE  IInv'
<1>1. PICK q : q = [req[r] EXCEPT !.pc = "reread"] /\ GoLive(r, q)
  BY DEF Activate
<1>2. req[r].op = "activate" /\ req[r].pc = "stamp" /\ DOMAIN req[r] = Fields
  BY DEF Activate, At, IInv, Shape
<1>3. DOMAIN q = Fields /\ q.pc = "reread" /\ q.op = "activate"
  BY <1>1, <1>2, PcShape
<1> QED BY <1>1, <1>2, <1>3, GoLiveInv

\* A request past the gate.
LEMMA EndpointShape ==
  ASSUME NEW q, DOMAIN q = Fields
  PROVE  /\ DOMAIN Endpoint(q) = Fields
         /\ Endpoint(q) = Idle \/ (Endpoint(q).op = q.op /\ Endpoint(q).pc \in {"grade", "read"})
<1>1. CASE q.op = "look"
  BY <1>1, IdleShape DEF Endpoint
<1>2. CASE q.op = "import"
  <2>1. Endpoint(q) = [q EXCEPT !.pc = "grade", !.ids = {},
                                !.rows = <<[grade |-> q.name, class |-> None]>>]
    BY <1>2 DEF Endpoint
  <2> QED BY <2>1 DEF Fields
<1>3. CASE q.op \notin {"look", "import"}
  <2>1. Endpoint(q) = [q EXCEPT !.pc = "read", !.ids = {}]
    BY <1>3 DEF Endpoint
  <2> QED BY <2>1 DEF Fields
<1> QED BY <1>1, <1>2, <1>3

LEMMA GateReadInv ==
  ASSUME IInv, Remembers, NEW r \in Requests, NEW g \in Gated, GateRead(r, g)
  PROVE  IInv'
<1>1. PICK q : q = [Idle EXCEPT !.op = g.op, !.name = g.name, !.id = g.id, !.active = g.active]
  OBVIOUS
<1>2. DOMAIN q = Fields
  BY <1>1 DEF Idle, Fields
<1>3. PICK z : Begin(r, z) /\ Plain(z)
  <2>1. CASE Begin(r, Endpoint(q))
    <3>1. Plain(Endpoint(q))
      BY <1>2, EndpointShape, PlainIdle DEF Plain
    <3> QED BY <2>1, <3>1
  <2>2. CASE Begin(r, [q EXCEPT !.pc = "structure?"])
    <3>1. PICK z : z = [q EXCEPT !.pc = "structure?"] /\ Begin(r, z)
      BY <2>2
    <3>2. DOMAIN z = Fields /\ z.pc = "structure?"
      BY <1>2, <3>1, PcShape
    <3>3. Plain(z)
      BY <3>2 DEF Plain
    <3> QED BY <3>1, <3>3
  <2> QED BY <1>1, <2>1, <2>2 DEF GateRead
<1> QED BY <1>3, NewRequest, Untouched, PlainStep DEF GateRead

LEMMA GateReadsStructureInv ==
  ASSUME IInv, Remembers, NEW r \in Requests, GateReadsStructure(r)
  PROVE  IInv'
<1>1. /\ UNCHANGED <<school, system, mirror>> /\ DOMAIN req[r] = Fields
      /\ req[r].pc \in {"structure?", "classes?"}
  BY Untouched DEF GateReadsStructure, IInv, Shape
<1>2. CASE Answer(r)
  BY <1>1, <1>2, AnswerInv
<1>3. CASE req[r].pc = "classes?" /\ HasStructure(r) /\ To(r, "grandfather")
  <2>1. ~school.live => opened \cap filled # {}
    BY <1>3, StructureWasThere
  <2>2. \A q : q.op = req[r].op /\ q.pc = "grandfather" =>
                 Seen(q) \subseteq facts /\ (~school.live => Backed(q))
    BY <2>1 DEF Seen, Backed
  <2> QED BY <1>1, <1>3, <2>2, SeenStep
<1>5. CASE ReadLevels(r, "classes?")
  BY <1>1, <1>5, ReadLevelsInv
<1>4. CASE Then(r, Endpoint(req[r]))
  <2>1. PICK q : q = Endpoint(req[r]) /\ Then(r, q) /\ Plain(q)
    <3>1. Plain(Endpoint(req[r]))
      BY <1>1, EndpointShape, PlainIdle DEF Plain
    <3> QED BY <1>4, <3>1
  <2> QED BY <1>1, <2>1, OldRequest, PlainStep
<1> QED BY <1>2, <1>3, <1>4, <1>5 DEF GateReadsStructure

LEMMA GrandfatherInv ==
  ASSUME IInv, Remembers, NEW r \in Requests, GrandfatherActivateIfMissing(r)
  PROVE  IInv'
<1>1. DOMAIN req[r] = Fields /\ req[r].pc = "grandfather"
  BY DEF GrandfatherActivateIfMissing, IInv, Shape
<1>2. PICK q : q = Endpoint(req[r]) /\ GoLive(r, q)
  BY DEF GrandfatherActivateIfMissing
<1>3. DOMAIN q = Fields /\ q.pc \in {"idle", "grade", "read"}
  BY <1>1, <1>2, EndpointShape, IdleShape
<1> QED BY <1>1, <1>2, <1>3, GoLiveInv

-------------------------------------------------------------------------------
(* The structure wizard.                                                    *)

LEMMA GetAcademicStructureInv ==
  ASSUME IInv, Remembers, NEW r \in Requests, GetAcademicStructure(r)
  PROVE  IInv'
<1>1. PICK q : q = [Idle EXCEPT !.op = "save", !.pc = "levels", !.to = system] /\ Begin(r, q)
  BY DEF GetAcademicStructure
<1>2. Plain(q)
  BY <1>1 DEF Plain, Idle, Fields
<1> QED BY <1>1, <1>2, NewRequest, Untouched, PlainStep DEF GetAcademicStructure

LEMMA GetLevelsAndClassesInv ==
  ASSUME IInv, Remembers, NEW r \in Requests, GetLevelsAndClasses(r)
  PROVE  IInv'
<1>1. /\ UNCHANGED <<school, system, mirror>> /\ DOMAIN req[r] = Fields
      /\ req[r].op = "save" /\ req[r].pc \in {"levels", "classes"}
  BY Untouched DEF GetLevelsAndClasses, At, IInv, Shape
<1>2. PICK l \in {"classes", "fetched"} :
        \E p : Then(r, [req[r] EXCEPT !.pc = l, !.payload = p])
  BY DEF GetLevelsAndClasses
<1>3. PICK p, q : q = [req[r] EXCEPT !.pc = l, !.payload = p] /\ Then(r, q)
  BY <1>2
<1>4. Plain(q)
  BY <1>1, <1>3 DEF Plain, Fields
<1>5. req' = [req EXCEPT ![r] = q] /\ Goes(r, q) /\ blurred' = blurred
  BY <1>1, <1>3, OldRequest
<1> QED BY <1>1, <1>4, <1>5, PlainStep

\* A save that goes on with its comparison, or with its transaction when it may.
LEMMA SaveGoesOn ==
  ASSUME IInv, Remembers, NEW r \in Requests, NEW q, Then(r, q),
         req[r].pc \notin {"idle", "mirror"}, UNCHANGED <<school, system, mirror>>,
         DOMAIN q = Fields, q.op = "save", q.pc \in {"compare", "save", "remove"},
         school.live /\ early = {} /\ q.pc # "compare" => q.to \in {Blank, system}
  PROVE  IInv'
<1>1. Moved(r, q) /\ Goes(r, q) /\ blurred' = blurred
  BY OldRequest DEF Moved
<1>2. Seen(q) = {} /\ Backed(q) /\ (school.live /\ early = {} => Harmless(q))
  BY DEF Seen, Backed, Harmless
<1> QED BY <1>1, <1>2, QuietStep

LEMMA PostAcademicStructureInv ==
  ASSUME IInv, Remembers, NEW r \in Requests, NEW p, NEW s,
         PostAcademicStructure(r, p, s)
  PROVE  IInv'
<1>1. /\ UNCHANGED <<school, system, mirror>> /\ DOMAIN req[r] = Fields
      /\ req[r].op = "save" /\ req[r].pc = "fetched"
  BY Untouched DEF PostAcademicStructure, At, IInv, Shape
<1>2. PICK l : l = IF school.live THEN "compare" ELSE "save"
  OBVIOUS
<1>3. PICK q : q = [req[r] EXCEPT !.payload = p, !.to = s, !.pc = l] /\ Then(r, q)
  BY <1>2 DEF PostAcademicStructure
<1>4. DOMAIN q = Fields /\ q.op = "save" /\ q.pc = l
  BY <1>1, <1>3 DEF Fields
<1>5. q.pc \in {"compare", "save"} /\ ~(school.live /\ q.pc = "save")
  BY <1>2, <1>4
<1> QED BY <1>1, <1>3, <1>4, <1>5, SaveGoesOn

LEMMA CompareSystemInv ==
  ASSUME IInv, Remembers, NEW r \in Requests, CompareSystem(r)
  PROVE  IInv'
<1>1. /\ UNCHANGED <<school, system, mirror>> /\ DOMAIN req[r] = Fields
      /\ req[r].op = "save" /\ req[r].pc = "compare"
  BY Untouched DEF CompareSystem, At, IInv, Shape
<1>2. CASE Answer(r)
  BY <1>1, <1>2, AnswerInv
<1>3. CASE req[r].to \in {Blank, system} /\ To(r, "save")
  <2>1. PICK q : q = [req[r] EXCEPT !.pc = "save"] /\ Then(r, q)
    BY <1>3 DEF To
  <2>2. DOMAIN q = Fields /\ q.op = "save" /\ q.pc = "save" /\ q.to = req[r].to
    BY <1>1, <2>1, PcShape
  <2> QED BY <1>1, <1>3, <2>1, <2>2, SaveGoesOn
<1> QED BY <1>2, <1>3 DEF CompareSystem

LEMMA SaveChecksInv ==
  ASSUME IInv, Remembers, NEW r \in Requests, SaveChecks(r)
  PROVE  IInv'
<1>1. /\ UNCHANGED <<school, system, mirror>> /\ DOMAIN req[r] = Fields
      /\ req[r].op = "save" /\ req[r].pc = "save"
  BY Untouched DEF SaveChecks, At, IInv, Shape
<1>2. CASE Answer(r)
  BY <1>1, <1>2, AnswerInv
<1>3. CASE \E ids : Then(r, [req[r] EXCEPT !.pc = "remove", !.ids = ids])
  <2>1. PICK ids : Then(r, [req[r] EXCEPT !.pc = "remove", !.ids = ids])
    BY <1>3
  <2>2. PICK q : q = [req[r] EXCEPT !.pc = "remove", !.ids = ids] /\ Then(r, q)
    BY <2>1
  <2>3. DOMAIN q = Fields /\ q.op = "save" /\ q.pc = "remove" /\ q.to = req[r].to
    BY <1>1, <2>2 DEF Fields
  <2>4. school.live /\ early = {} => q.to \in {Blank, system}
    BY <1>1, <2>3 DEF IInv, Frozen, Harmless
  <2> QED BY <1>1, <2>2, <2>3, <2>4, SaveGoesOn
<1> QED BY <1>2, <1>3 DEF SaveChecks

\* The transaction; a save without a system resets it, which starts the count of
\* early requests afresh.
LEMMA SaveAcademicStructureInv ==
  ASSUME IInv, Remembers, NEW r \in Requests, SaveAcademicStructure(r)
  PROVE  IInv'
<1>1. /\ req[r].op = "save" /\ req[r].pc = "remove" /\ req[r] # Idle
      /\ UNCHANGED <<school, mirror, blurred>>
      /\ early' = IF school.live /\ req[r].to = Blank THEN Others(r) ELSE early \ {r}
      /\ system' \in {system, IF req[r].to = Blank THEN "US" ELSE req[r].to}
  BY IdleShape DEF SaveAcademicStructure, At
<1>2. Moved(r, Idle)
  BY IdleShape DEF SaveAcademicStructure, Moved
<1>3. req'[r] = Idle /\ \A o \in Requests \ {r} : req'[o] = req[o]
  BY <1>2, MovedTo DEF IInv
<1>4. Shape'
  BY <1>1, <1>2, MovedTo DEF IInv, Shape
<1>5. Mirrored'
  BY <1>1, <1>2, IdleShape, MirroredStep DEF IInv
<1>6. Recorded'
  BY <1>1, <1>2, IdleShape, RecordedStep DEF IInv, Seen, Backed
<1>7. Frozen'
  <2>1. CASE school.live /\ req[r].to = Blank
    <3>1. \A o \in Requests : req'[o] # Idle => o \in early'
      BY <1>1, <1>3, <2>1 DEF Others
    <3>2. early' = {} => \A o \in Requests : HarmlessNext(req'[o])
      BY <3>1, IdleShape DEF HarmlessNext
    <3> QED BY <3>1, <3>2 DEF Frozen, Harmless, HarmlessNext
  <2>2. CASE ~(school.live /\ req[r].to = Blank)
    <3>1. Goes(r, Idle)
      BY <1>1, <2>2 DEF Goes
    <3>2. Harmless(Idle)
      BY IdleShape DEF Harmless
    <3>3. school.live /\ early = {} => system' = system
      BY <1>1, <2>2 DEF IInv, Frozen, Harmless
    <3> QED BY <1>1, <1>2, <3>1, <3>2, <3>3, FrozenStep DEF IInv
  <2> QED BY <2>1, <2>2
<1> QED BY <1>4, <1>5, <1>6, <1>7 DEF IInv

-------------------------------------------------------------------------------
(* The import, and the edits behind the gate.                               *)

LEMMA PlainThen ==
  ASSUME IInv, Remembers, NEW r \in Requests, NEW q, Then(r, q), Plain(q),
         req[r].pc \notin {"idle", "mirror"}, UNCHANGED <<school, system, mirror>>
  PROVE  IInv'
  BY OldRequest, PlainStep

LEMMA CommitStructureImportInv ==
  ASSUME IInv, Remembers, NEW r \in Requests, NEW file,
         CommitStructureImport(r, file)
  PROVE  IInv'
<1>1. PICK q : q = [Idle EXCEPT !.op = "import", !.pc = "grade", !.rows = file] /\ Begin(r, q)
  BY DEF CommitStructureImport
<1>2. Plain(q)
  BY <1>1 DEF Plain, Idle, Fields
<1> QED BY <1>1, <1>2, NewRequest, Untouched, PlainStep DEF CommitStructureImport

LEMMA NextRowPlain ==
  ASSUME NEW r \in Requests, DOMAIN req[r] = Fields
  PROVE  Plain(NextRow(r))
<1>1. CASE Len(req[r].rows) = 1
  BY <1>1, PlainIdle DEF NextRow
<1>2. CASE Len(req[r].rows) # 1
  <2>1. NextRow(r) = [req[r] EXCEPT !.rows = Tail(@), !.pc = "grade", !.id = 0, !.class = 0]
    BY <1>2 DEF NextRow
  <2>2. DOMAIN NextRow(r) = Fields /\ NextRow(r).pc = "grade"
    BY <2>1 DEF Fields
  <2> QED BY <2>2 DEF Plain
<1> QED BY <1>1, <1>2

LEMMA GetLevelByNameInv ==
  ASSUME IInv, Remembers, NEW r \in Requests, GetLevelByName(r)
  PROVE  IInv'
<1>1. DOMAIN req[r] = Fields /\ req[r].pc = "grade" /\ UNCHANGED <<school, system, mirror>>
  BY Untouched DEF GetLevelByName, At, IInv, Shape
<1>2. PICK q : /\ q = [req[r] EXCEPT !.pc = "upsert grade",
                                     !.id = LevelNamed(db, Head(req[r].rows).grade)]
               /\ Then(r, q)
  BY DEF GetLevelByName
<1>3. Plain(q)
  BY <1>1, <1>2 DEF Plain, Fields
<1> QED BY <1>1, <1>2, <1>3, PlainThen

LEMMA UpsertLevelByNameInv ==
  ASSUME IInv, Remembers, NEW r \in Requests, UpsertLevelByName(r)
  PROVE  IInv'
<1>1. DOMAIN req[r] = Fields /\ req[r].pc = "upsert grade" /\ UNCHANGED <<school, system, mirror>>
  BY DEF UpsertLevelByName, At, IInv, Shape
<1>2. PICK l : \/ Then(r, NextRow(r))
               \/ Then(r, [req[r] EXCEPT !.pc = "class", !.id = l])
  BY DEF UpsertLevelByName
<1>3. CASE Then(r, NextRow(r))
  BY <1>1, <1>3, NextRowPlain, PlainThen
<1>4. CASE Then(r, [req[r] EXCEPT !.pc = "class", !.id = l])
  <2>1. PICK q : q = [req[r] EXCEPT !.pc = "class", !.id = l] /\ Then(r, q)
    BY <1>4
  <2>2. Plain(q)
    BY <1>1, <2>1 DEF Plain, Fields
  <2> QED BY <1>1, <2>1, <2>2, PlainThen
<1> QED BY <1>2, <1>3, <1>4

LEMMA GetClassInv ==
  ASSUME IInv, Remembers, NEW r \in Requests, GetClassByNameAndLevel(r)
  PROVE  IInv'
<1>1. DOMAIN req[r] = Fields /\ req[r].pc = "class" /\ UNCHANGED <<school, system, mirror>>
  BY Untouched DEF GetClassByNameAndLevel, At, IInv, Shape
<1>2. PICK c : Then(r, [req[r] EXCEPT !.pc = "upsert class", !.class = c])
  BY DEF GetClassByNameAndLevel
<1>3. PICK q : q = [req[r] EXCEPT !.pc = "upsert class", !.class = c] /\ Then(r, q)
  BY <1>2
<1>4. Plain(q)
  BY <1>1, <1>3 DEF Plain, Fields
<1> QED BY <1>1, <1>3, <1>4, PlainThen

LEMMA UpsertClassInv ==
  ASSUME IInv, Remembers, NEW r \in Requests, UpsertClassByNameAndLevel(r)
  PROVE  IInv'
<1>1. DOMAIN req[r] = Fields /\ req[r].pc = "upsert class" /\ UNCHANGED <<school, system, mirror>>
  BY DEF UpsertClassByNameAndLevel, At, IInv, Shape
<1>2. Then(r, NextRow(r)) \/ Then(r, Idle)
  BY DEF UpsertClassByNameAndLevel
<1> QED BY <1>1, <1>2, NextRowPlain, PlainIdle, PlainThen

LEMMA GetLevelByIdInv ==
  ASSUME IInv, Remembers, NEW r \in Requests, GetLevelById(r)
  PROVE  IInv'
<1>1. /\ DOMAIN req[r] = Fields /\ req[r].op = "edit" /\ req[r].pc = "read"
      /\ UNCHANGED <<school, system, mirror>>
  BY Untouched DEF GetLevelById, At, IInv, Shape
<1>2. CASE Answer(r)
  BY <1>1, <1>2, AnswerInv
<1>3. CASE \E n, a : Then(r, [req[r] EXCEPT !.pc = "write", !.name = n, !.active = a])
  <2>1. PICK n, a : Then(r, [req[r] EXCEPT !.pc = "write", !.name = n, !.active = a])
    BY <1>3
  <2>2. PICK q : q = [req[r] EXCEPT !.pc = "write", !.name = n, !.active = a] /\ Then(r, q)
    BY <2>1
  <2>3. Plain(q)
    BY <1>1, <2>2 DEF Plain, Fields
  <2> QED BY <1>1, <2>2, <2>3, PlainThen
<1> QED BY <1>2, <1>3 DEF GetLevelById

LEMMA UpdateLevelInv ==
  ASSUME IInv, Remembers, NEW r \in Requests, UpdateLevel(r)
  PROVE  IInv'
  BY AnswerInv DEF UpdateLevel, At

LEMMA BlockInv ==
  ASSUME IInv, Remembers, NEW r \in Requests,
         BlockIfClassesHaveEnrollmentHistory(r)
  PROVE  IInv'
<1>1. /\ DOMAIN req[r] = Fields /\ req[r].op # "save" /\ req[r].pc = "read"
      /\ UNCHANGED <<school, system, mirror>>
  BY Untouched DEF BlockIfClassesHaveEnrollmentHistory, IInv, Shape
<1>2. CASE Answer(r)
  BY <1>1, <1>2, AnswerInv
<1>3. CASE \E ids : Then(r, [req[r] EXCEPT !.pc = "remove", !.ids = ids])
  <2>1. PICK ids : Then(r, [req[r] EXCEPT !.pc = "remove", !.ids = ids])
    BY <1>3
  <2>2. PICK q : q = [req[r] EXCEPT !.pc = "remove", !.ids = ids] /\ Then(r, q)
    BY <2>1
  <2>3. Plain(q)
    BY <1>1, <2>2 DEF Plain, Fields
  <2> QED BY <1>1, <2>2, <2>3, PlainThen
<1> QED BY <1>2, <1>3 DEF BlockIfClassesHaveEnrollmentHistory

LEMMA DeleteInv ==
  ASSUME IInv, Remembers, NEW r \in Requests, Delete(r)
  PROVE  IInv'
  BY AnswerInv DEF Delete

-------------------------------------------------------------------------------
(* The theorems.                                                            *)

LEMMA InitInv ==
  ASSUME Init
  PROVE  IInv
<1>1. PICK full, codes : school \in [filled : full, committed : {FALSE}, live : {FALSE}, code : codes]
  BY DEF Init
<1>2. Shape /\ ~school.live
  BY <1>1, IdleShape DEF Init, Shape
<1>3. \A r \in Requests : req[r].pc = "idle" /\ req[r].op = "none"
  BY IdleShape DEF Init
<1>4. Mirrored
  BY <1>3 DEF Init, Mirrored, MirrorFollows
<1>5. Frozen
  BY <1>2 DEF Frozen
<1>6. Recorded
  BY <1>3 DEF Init, Recorded, Seen, Backed, Holding, AllFacts
<1> QED BY <1>2, <1>4, <1>5, <1>6 DEF IInv

LEMMA StutterInv ==
  ASSUME IInv, UNCHANGED vars
  PROVE  IInv'
<1>1. /\ UNCHANGED <<school, system, db, mirror, req, early, blurred, facts, opened, filled>>
      /\ Holding' = Holding
  BY Untouched DEF vars
<1>2. Shape' /\ Frozen' /\ Mirrored'
  BY <1>1 DEF IInv, Shape, Frozen, Harmless, Mirrored, MirrorFollows
<1>3. Recorded'
  BY <1>1 DEF IInv, Recorded, Seen, Backed
<1> QED BY <1>2, <1>3 DEF IInv

LEMMA NextInv ==
  ASSUME IInv, [Next]_vars
  PROVE  IInv'
<1>1. CASE UNCHANGED vars
  BY <1>1, StutterInv
<1>2. CASE Next
  <2>1. Remembers
    BY <1>2 DEF Next, Remembers
  <2>2. CASE \E s \in Students : (\E c \in DOMAIN db.classes : PlaceStudent(s, c)) \/ EnrollStudent(s)
    BY <2>1, <2>2, BesideStep DEF PlaceStudent, EnrollStudent
  <2>3. ASSUME NEW r \in Requests,
               \/ \E p \in Patches : UpdateProfileCheck(r, p)
               \/ UpdateProfile(r) \/ SyncTenantMirror(r)
               \/ UpsertCampusRead(r) \/ UpsertCampus(r) \/ WriteContact(r)
               \/ CommitProfileCheck(r) \/ CommitProfileReads(r) \/ StampProfileCommitted(r)
               \/ ActivateCheck(r) \/ ActivateReads(r) \/ Activate(r) \/ Reread(r)
        PROVE  IInv'
    BY <2>1, <2>3, UpdateProfileCheckInv, UpdateProfileInv, SyncTenantMirrorInv,
       UpsertCampusReadInv, UpsertCampusInv, WriteContactInv, CommitProfileCheckInv,
       CommitProfileReadsInv, StampProfileCommittedInv, ActivateCheckInv, ActivateReadsInv,
       ActivateInv, RereadInv
  <2>4. ASSUME NEW r \in Requests,
               \/ \E g \in Gated : GateRead(r, g)
               \/ GateReadsStructure(r) \/ GrandfatherActivateIfMissing(r)
               \/ GetAcademicStructure(r) \/ GetLevelsAndClasses(r)
               \/ \E p \in Edits(req[r].payload), s \in Systems \cup {Blank} : PostAcademicStructure(r, p, s)
               \/ CompareSystem(r) \/ SaveChecks(r) \/ SaveAcademicStructure(r)
        PROVE  IInv'
    BY <2>1, <2>4, GateReadInv, GateReadsStructureInv, GrandfatherInv, GetAcademicStructureInv,
       GetLevelsAndClassesInv, PostAcademicStructureInv, CompareSystemInv, SaveChecksInv,
       SaveAcademicStructureInv
  <2>5. ASSUME NEW r \in Requests,
               \/ \E f \in Files : CommitStructureImport(r, f)
               \/ GetLevelByName(r) \/ UpsertLevelByName(r)
               \/ GetClassByNameAndLevel(r) \/ UpsertClassByNameAndLevel(r)
               \/ GetLevelById(r) \/ UpdateLevel(r)
               \/ BlockIfClassesHaveEnrollmentHistory(r) \/ Delete(r)
        PROVE  IInv'
    BY <2>1, <2>5, CommitStructureImportInv, GetLevelByNameInv, UpsertLevelByNameInv, GetClassInv,
       UpsertClassInv, GetLevelByIdInv, UpdateLevelInv, BlockInv, DeleteInv
  <2> QED BY <1>2, <2>2, <2>3, <2>4, <2>5 DEF Next, Step
<1> QED BY <1>1, <1>2

(* What holds between any two awaits of the setup's requests: the           *)
(* strengthening that the theorems below rest on.                           *)
THEOREM Invariant == Spec => []IInv
  BY InitInv, NextInv, PTL DEF Spec

(* tenants.school_code follows the profile: with no mirror update           *)
(* outstanding, lost or overlapping another, both show one code.            *)
THEOREM MirrorIsRight == Spec => []MirrorFollows
<1>1. IInv => MirrorFollows
  BY DEF IInv, Mirrored
<1> QED BY <1>1, Invariant, PTL

\* The steps that write the profile or the system.
LEMMA Writers ==
  ASSUME [Next]_vars
  PROVE  \/ UNCHANGED <<school, system>>
         \/ \E r \in Requests : UpdateProfile(r) \/ StampProfileCommitted(r) \/ Activate(r)
                                \/ GrandfatherActivateIfMissing(r)
         \/ \E r \in Requests : SaveAcademicStructure(r)
<1>1. CASE UNCHANGED stored
  BY <1>1, Untouched
<1>2. CASE \E s \in Students : (\E c \in DOMAIN db.classes : PlaceStudent(s, c)) \/ EnrollStudent(s)
  BY <1>2 DEF PlaceStudent, EnrollStudent
<1>3. ASSUME NEW r \in Requests,
             \/ UpsertCampus(r) \/ WriteContact(r) \/ SyncTenantMirror(r) \/ UpsertLevelByName(r)
             \/ UpsertClassByNameAndLevel(r) \/ UpdateLevel(r) \/ Delete(r)
      PROVE  UNCHANGED <<school, system>>
  BY <1>3 DEF UpsertCampus, WriteContact, SyncTenantMirror, UpsertLevelByName,
              UpsertClassByNameAndLevel, UpdateLevel, Delete
<1>4. ASSUME NEW r \in Requests,
             \/ \E p \in Patches : UpdateProfileCheck(r, p)
             \/ UpsertCampusRead(r) \/ CommitProfileCheck(r) \/ CommitProfileReads(r)
             \/ ActivateCheck(r) \/ ActivateReads(r) \/ Reread(r)
             \/ \E g \in Gated : GateRead(r, g)
             \/ GateReadsStructure(r) \/ GetAcademicStructure(r) \/ GetLevelsAndClasses(r)
             \/ \E p \in Edits(req[r].payload), s \in Systems \cup {Blank} : PostAcademicStructure(r, p, s)
             \/ CompareSystem(r) \/ SaveChecks(r)
             \/ \E f \in Files : CommitStructureImport(r, f)
             \/ GetLevelByName(r) \/ GetClassByNameAndLevel(r) \/ GetLevelById(r)
             \/ BlockIfClassesHaveEnrollmentHistory(r)
      PROVE  UNCHANGED stored
  BY <1>4 DEF UpdateProfileCheck, UpsertCampusRead, CommitProfileCheck, CommitProfileReads,
              ActivateCheck, ActivateReads, Reread, GateRead, GateReadsStructure,
              GetAcademicStructure, GetLevelsAndClasses, PostAcademicStructure, CompareSystem,
              SaveChecks, CommitStructureImport,
              GetLevelByName, GetClassByNameAndLevel, GetLevelById,
              BlockIfClassesHaveEnrollmentHistory
<1>5. CASE UNCHANGED vars
  BY <1>1, <1>5 DEF vars
<1>6. CASE Next
  <2>1. Step
    BY <1>6 DEF Next
  <2> QED BY <1>1, <1>2, <1>3, <1>4, <2>1 DEF Step
<1> QED BY <1>5, <1>6

(* A live school is frozen: once the requests that were in flight when it   *)
(* went live are done, the code stays and only a save that names no system  *)
(* changes the system.  The checks of update_profile and of the structure   *)
(* endpoint read in statements of their own, before the write.              *)
THEOREM LiveIsFrozen == Spec => LiveSchoolIsFrozen
<1> DEFINE A == school.live /\ early = {} =>
                  /\ school'.code = school.code
                  /\ system' # system =>
                       \E r \in Requests : At(r, "save", "remove") /\ req[r].to = Blank
<1>1. IInv /\ [Next]_vars => A
  <2> SUFFICES ASSUME IInv, [Next]_vars, school.live, early = {}
               PROVE  /\ school'.code = school.code
                      /\ system' # system =>
                           \E r \in Requests : At(r, "save", "remove") /\ req[r].to = Blank
    OBVIOUS
  <2>1. \A r \in Requests : Harmless(req[r])
    BY DEF IInv, Frozen
  <2>2. DOMAIN school = {"filled", "code", "committed", "live"}
    BY DEF IInv, Shape
  <2>3. CASE UNCHANGED <<school, system>>
    BY <2>3
  <2>4. ASSUME NEW r \in Requests, UpdateProfile(r)
        PROVE  school'.code = school.code /\ system' = system
    BY <2>1, <2>2, <2>4 DEF UpdateProfile, At, Harmless
  <2>5. ASSUME NEW r \in Requests,
               StampProfileCommitted(r) \/ Activate(r) \/ GrandfatherActivateIfMissing(r)
        PROVE  school'.code = school.code /\ system' = system
    BY <2>2, <2>5 DEF StampProfileCommitted, Activate, GrandfatherActivateIfMissing, GoLive
  <2>6. ASSUME NEW r \in Requests, SaveAcademicStructure(r)
        PROVE  /\ school'.code = school.code
               /\ system' # system => At(r, "save", "remove") /\ req[r].to = Blank
    BY <2>1, <2>6 DEF SaveAcademicStructure, At, Harmless
  <2> QED BY <2>3, <2>4, <2>5, <2>6, Writers
<1>2. IInv /\ [Next]_vars => [A]_vars
  BY <1>1
<1> QED BY <1>2, Invariant, PTL DEF Spec, LiveSchoolIsFrozen

-------------------------------------------------------------------------------
(* The refinement of SetupStages.                                           *)

Stage == IF school.live THEN "live" ELSE IF school.committed THEN "committed" ELSE "setup"

\* What is on record of the required facts, in the words of SetupStages.
OnRecord == facts \cup IF opened \cap filled # {} THEN {"structure"} ELSE {}

LEMMA HistoryGrows ==
  ASSUME [Next]_vars
  PROVE  opened \subseteq opened' /\ filled \subseteq filled'
  BY DEF Next, vars

LEMMA FactsGrow ==
  ASSUME IInv, [Next]_vars
  PROVE  OnRecord' \in SUBSET (AllFacts \cup {"structure"}) /\ OnRecord \subseteq OnRecord'
<1>1. IInv'
  BY NextInv
<1>2. facts \subseteq facts' /\ facts' \subseteq AllFacts
  BY <1>1 DEF IInv, Recorded, Next, vars
<1> QED BY <1>2, HistoryGrows DEF OnRecord

LEMMA RecordStep ==
  ASSUME IInv, [Next]_vars, Stage' = Stage
  PROVE  Stages!Next
  BY FactsGrow DEF Stages!Next, Stages!Record, Stage, AllFacts, OnRecord

LEMMA NothingNew ==
  ASSUME IInv, [Next]_vars, UNCHANGED <<campuses, contacts, db>>,
         school'.code = school.code, school'.filled = school.filled
  PROVE  facts' = facts /\ opened' = opened /\ filled' = filled
<1>1. Holding' = Holding
  BY DEF Holding
<1>2. facts' = facts
  BY <1>1 DEF IInv, Recorded, Next, vars
<1>3. ~school.live => ActiveLevels(db') \subseteq opened /\ FilledLevels(db') \subseteq filled
  BY DEF IInv, Recorded
<1> QED BY <1>2, <1>3 DEF Next, vars

LEMMA CommitStep ==
  ASSUME IInv, [Next]_vars, NEW r \in Requests, StampProfileCommitted(r)
  PROVE  Stages!Next
<1>1. DOMAIN school = {"filled", "code", "committed", "live"}
  BY DEF IInv, Shape
<1>2. /\ school'.live = school.live /\ school'.committed = TRUE
      /\ school'.code = school.code /\ school'.filled = school.filled
      /\ UNCHANGED <<campuses, contacts, db>>
  BY <1>1 DEF StampProfileCommitted
<1>3. facts' = facts /\ opened' = opened /\ filled' = filled
  BY <1>2, NothingNew
<1>4. {"fields", "campus", "contact"} \subseteq facts
  BY DEF StampProfileCommitted, At, IInv, Recorded, Seen
<1>5. CASE school.live \/ school.committed
  BY <1>2, <1>5, RecordStep DEF Stage
<1>6. CASE ~school.live /\ ~school.committed
  BY <1>2, <1>3, <1>4, <1>6 DEF Stages!Next, Stages!Commit
<1> QED BY <1>5, <1>6

LEMMA LiveStep ==
  ASSUME IInv, [Next]_vars, NEW r \in Requests, Activate(r) \/ GrandfatherActivateIfMissing(r)
  PROVE  Stages!Next
<1>1. DOMAIN school = {"filled", "code", "committed", "live"}
  BY DEF IInv, Shape
<1>2. /\ school'.live = TRUE /\ school'.code = school.code /\ school'.filled = school.filled
      /\ UNCHANGED <<campuses, contacts, db>>
  BY <1>1 DEF Activate, GrandfatherActivateIfMissing, GoLive
<1>3. facts' = facts /\ opened' = opened /\ filled' = filled
  BY <1>2, NothingNew
<1>4. ~school.live => opened \cap filled # {}
  BY DEF Activate, GrandfatherActivateIfMissing, At, IInv, Recorded, Backed
<1>5. CASE school.live
  BY <1>2, <1>5, RecordStep DEF Stage
<1>6. CASE ~school.live
  BY <1>2, <1>3, <1>4, <1>6 DEF Stages!Next, Stages!GoLive
<1> QED BY <1>5, <1>6

(* Setup implements the staged promise: no school is committed without its  *)
(* fields, a campus and a contact having been on record, none goes live     *)
(* without a structure, none goes back; with any requests interleaved       *)
(* between the reads and the stamps.                                        *)
THEOREM SetupImplementsStages == Spec => ImplementsStages
<1>1. Init => Stages!Init
  <2> SUFFICES ASSUME Init
               PROVE  Stages!Init
    OBVIOUS
  <2>1. IInv
    BY InitInv
  <2>2. PICK full, codes : school \in [filled : full, committed : {FALSE}, live : {FALSE}, code : codes]
    BY DEF Init
  <2> QED BY <2>1, <2>2 DEF IInv, Recorded, AllFacts, Stages!Init
<1>2. IInv /\ [Next]_vars => [Stages!Next]_(Stages!vars)
  <2> SUFFICES ASSUME IInv, [Next]_vars
               PROVE  Stages!Next
    OBVIOUS
  <2>1. CASE UNCHANGED school
    BY <2>1, RecordStep DEF Stage
  <2>2. ASSUME NEW r \in Requests, UpdateProfile(r)
        PROVE  Stages!Next
    <3>1. school'.live = school.live /\ school'.committed = school.committed
      BY <2>2 DEF UpdateProfile, IInv, Shape
    <3> QED BY <3>1, RecordStep DEF Stage
  <2>3. ASSUME NEW r \in Requests, SaveAcademicStructure(r)
        PROVE  UNCHANGED school
    BY <2>3 DEF SaveAcademicStructure
  <2> QED BY <2>1, <2>2, <2>3, CommitStep, LiveStep, Writers
<1> QED BY <1>1, <1>2, Invariant, PTL DEF Spec, ImplementsStages, Stages!Spec

-------------------------------------------------------------------------------
(* Induction, over sets of numbers: the library's theorems of induction take an *)
(* operator, these take a set.  Then what the statements of save_academic_structure *)
(* make of a sound database, and what the whole loop makes of it.              *)

\* A set of numbers that is not empty has a least one.
LEMMA NatMin ==
  ASSUME NEW T \in SUBSET Nat, T # {}
  PROVE  \E x \in T : \A y \in T : x <= y
<1>1. IsWellFoundedOn({ss \in Nat \X Nat : ss[1] < ss[2]}, Nat)
  BY NatLessThanWellFounded DEF OpToRel
<1>2. \E x \in T : \A y \in T : ~ (<<y, x>> \in {ss \in Nat \X Nat : ss[1] < ss[2]})
  BY <1>1, WFMin
<1>3. PICK x \in T : \A y \in T : ~ (<<y, x>> \in {ss \in Nat \X Nat : ss[1] < ss[2]})
  BY <1>2
<1>4. ASSUME NEW y \in T PROVE x <= y
  <2>1. ~(<<y, x>> \in {ss \in Nat \X Nat : ss[1] < ss[2]})
    BY <1>3
  <2>2. y \in Nat /\ x \in Nat
    OBVIOUS
  <2>3. ~(y < x)
    BY <2>1, <2>2
  <2> QED BY <2>2, <2>3
<1> QED BY <1>4

\* Induction over the numbers, for a set in place of a predicate.
LEMMA SetInduction ==
  ASSUME NEW T \in SUBSET Nat, 0 \in T, \A n \in T : n + 1 \in T
  PROVE  T = Nat
<1> SUFFICES ASSUME Nat \ T # {} PROVE FALSE
  OBVIOUS
<1>1. PICK x \in Nat \ T : \A y \in Nat \ T : x <= y
  BY NatMin
<1> QED BY <1>1

\* Induction up to n.
LEMMA UpTo ==
  ASSUME NEW n \in Nat, NEW T, 0 \in T, \A m \in 0 .. n - 1 : m \in T => m + 1 \in T
  PROVE  \A m \in 0 .. n : m \in T
<1> DEFINE U == {m \in Nat : m <= n => m \in T}
<1>1. 0 \in U
  OBVIOUS
<1>2. ASSUME NEW m \in U PROVE m + 1 \in U
  <2>1. m \in Nat /\ (m <= n => m \in T)
    OBVIOUS
  <2>2. m + 1 <= n => m \in 0 .. n - 1 /\ m <= n
    BY <2>1
  <2> QED BY <2>1, <2>2
<1>3. U = Nat
  <2>1. U \in SUBSET Nat
    OBVIOUS
  <2> HIDE DEF U
  <2> QED BY <1>1, <1>2, <2>1, SetInduction
<1> QED BY <1>3

DbFields == {"levels", "classes", "placed", "enrolled", "next", "kept", "ok"}

\* A database in the middle of a transaction: only ok vouches for the names.
Sound(d) ==
  /\ DOMAIN d = DbFields /\ d.next \in Nat \ {0} /\ d.ok \in BOOLEAN
  /\ DOMAIN d.levels \subseteq 1 .. d.next - 1 /\ DOMAIN d.classes \subseteq 1 .. d.next - 1
  /\ \A l \in DOMAIN d.levels : d.levels[l] \in [name : Grades, active : BOOLEAN]
  /\ \A c \in DOMAIN d.classes : d.classes[c] \in [name : Sections, level : DOMAIN d.levels]
  /\ DOMAIN d.placed = Students
  /\ \A s \in Students : d.placed[s] \in DOMAIN d.classes \cup {0}
  /\ d.ok => \A a, b \in DOMAIN d.classes : d.classes[a].name = d.classes[b].name => a = b

\* The first of several rows is one of them.
LEMMA FirstIsOne ==
  ASSUME NEW ids \in SUBSET (Nat \ {0})
  PROVE  IF ids = {} THEN FirstOf(ids) = 0 ELSE FirstOf(ids) \in ids
<1>1. CASE ids = {}
  BY <1>1 DEF FirstOf
<1>2. CASE ids # {}
  <2>1. \E i \in ids : \A j \in ids : i <= j
    BY <1>2, NatMin
  <2> QED BY <1>2, <2>1 DEF FirstOf
<1> QED BY <1>1, <1>2

\* What UPDATE and INSERT make of the table of classes.
LEMMA WriteClassIs ==
  ASSUME NEW d, DOMAIN d = DbFields, NEW c, NEW name, NEW l, NEW x, x = WriteClass(d, c, name, l)
  PROVE  /\ DOMAIN x = DbFields
         /\ x.classes = Put(d.classes, c, [name |-> name, level |-> l])
         /\ x.ok = (d.ok /\ \A y \in DOMAIN d.classes \ {c} : d.classes[y].name # name)
         /\ x.levels = d.levels /\ x.placed = d.placed /\ x.enrolled = d.enrolled
         /\ x.next = d.next /\ x.kept = d.kept
BY DEF WriteClass, DbFields

\* An UPDATE of a class that is there.
LEMMA WriteClassSound ==
  ASSUME NEW d, Sound(d), NEW c, c \in DOMAIN d.classes, NEW name \in Sections,
         NEW l \in DOMAIN d.levels, NEW x, x = WriteClass(d, c, name, l)
  PROVE  /\ Sound(x) /\ DOMAIN x.classes = DOMAIN d.classes /\ x.levels = d.levels
         /\ x.classes[c] = [name |-> name, level |-> l]
         /\ \A y \in DOMAIN d.classes : y # c => x.classes[y] = d.classes[y]
         /\ x.placed = d.placed /\ x.enrolled = d.enrolled /\ x.next = d.next /\ x.kept = d.kept
         /\ x.ok => d.ok
<1>1. /\ DOMAIN x = DbFields
      /\ x.classes = Put(d.classes, c, [name |-> name, level |-> l])
      /\ x.ok = (d.ok /\ \A y \in DOMAIN d.classes \ {c} : d.classes[y].name # name)
      /\ x.levels = d.levels /\ x.placed = d.placed /\ x.enrolled = d.enrolled
      /\ x.next = d.next /\ x.kept = d.kept
  BY WriteClassIs DEF Sound
<1>2. /\ DOMAIN x.classes = DOMAIN d.classes
      /\ x.classes[c] = [name |-> name, level |-> l]
      /\ \A y \in DOMAIN d.classes : y # c => x.classes[y] = d.classes[y]
  <2>1. PICK v : v = [name |-> name, level |-> l]
    OBVIOUS
  <2>2. x.classes = Put(d.classes, c, v)
    BY <1>1, <2>1
  <2> QED BY <2>1, <2>2 DEF Put
<1>3. x.ok \in BOOLEAN /\ (x.ok => d.ok)
  BY <1>1
<1>4. ASSUME x.ok, NEW a \in DOMAIN x.classes, NEW b \in DOMAIN x.classes, x.classes[a].name = x.classes[b].name
      PROVE  a = b
  <2>1. d.ok /\ \A y \in DOMAIN d.classes \ {c} : d.classes[y].name # name
    BY <1>1, <1>4
  <2>2. x.classes[c].name = name
    BY <1>2
  <2> QED BY <1>2, <1>4, <2>1, <2>2 DEF Sound
<1>5. \A y \in DOMAIN x.classes : x.classes[y] \in [name : Sections, level : DOMAIN x.levels]
  BY <1>1, <1>2 DEF Sound
<1>6. Sound(x)
  BY <1>1, <1>2, <1>3, <1>4, <1>5 DEF Sound
<1> QED BY <1>1, <1>2, <1>3, <1>6

\* Row x.next of class is new.
Inserted(d, x, name, l) ==
  /\ DOMAIN x.classes = DOMAIN d.classes \cup {d.next} /\ d.next \notin DOMAIN d.classes
  /\ x.classes[d.next] = [name |-> name, level |-> l]
  /\ \A y \in DOMAIN d.classes : x.classes[y] = d.classes[y]
  /\ x.levels = d.levels /\ x.placed = d.placed /\ x.enrolled = d.enrolled
  /\ x.ok => d.ok

\* An INSERT of a class.
LEMMA InsertClassSound ==
  ASSUME NEW d, Sound(d), NEW name \in Sections, NEW l \in DOMAIN d.levels, NEW x, x = InsertClass(d, name, l)
  PROVE  Sound(x) /\ Inserted(d, x, name, l)
<1> DEFINE c == d.next
<1>0. c \in Nat /\ c \notin DOMAIN d.classes
  BY DEF Sound
<1>w. PICK w : w = WriteClass(d, c, name, l)
  OBVIOUS
<1>1. /\ DOMAIN w = DbFields
      /\ w.classes = Put(d.classes, c, [name |-> name, level |-> l])
      /\ w.ok = (d.ok /\ \A y \in DOMAIN d.classes \ {c} : d.classes[y].name # name)
      /\ w.levels = d.levels /\ w.placed = d.placed /\ w.enrolled = d.enrolled
      /\ w.next = d.next /\ w.kept = d.kept
  BY <1>w, WriteClassIs DEF Sound
<1>v. x = [w EXCEPT !.next = @ + 1]
  BY <1>w DEF InsertClass
<1>2. /\ DOMAIN x = DbFields /\ x.classes = w.classes /\ x.ok = w.ok /\ x.levels = d.levels
      /\ x.placed = d.placed /\ x.enrolled = d.enrolled /\ x.next = d.next + 1 /\ x.kept = d.kept
  BY <1>v, <1>1 DEF DbFields
<1>3. /\ DOMAIN x.classes = DOMAIN d.classes \cup {c}
      /\ x.classes[c] = [name |-> name, level |-> l]
      /\ \A y \in DOMAIN d.classes : x.classes[y] = d.classes[y]
  <2>1. PICK v : v = [name |-> name, level |-> l]
    OBVIOUS
  <2>2. x.classes = Put(d.classes, c, v)
    BY <1>1, <1>2, <2>1
  <2> QED BY <1>0, <2>1, <2>2 DEF Put
<1>4. x.ok \in BOOLEAN /\ (x.ok => d.ok)
  BY <1>1, <1>2
<1>5. ASSUME x.ok, NEW a \in DOMAIN x.classes, NEW b \in DOMAIN x.classes, x.classes[a].name = x.classes[b].name
      PROVE  a = b
  <2>1. d.ok /\ \A y \in DOMAIN d.classes : d.classes[y].name # name
    BY <1>0, <1>1, <1>2, <1>5
  <2>2. x.classes[c].name = name
    BY <1>3
  <2> QED BY <1>3, <1>5, <2>1, <2>2 DEF Sound
<1>6. \A y \in DOMAIN x.classes : x.classes[y] \in [name : Sections, level : DOMAIN x.levels]
  BY <1>2, <1>3 DEF Sound
<1>7. /\ x.next \in Nat \ {0} /\ DOMAIN x.levels \subseteq 1 .. x.next - 1 /\ DOMAIN x.classes \subseteq 1 .. x.next - 1
  BY <1>2, <1>3 DEF Sound
<1>8. Sound(x)
  BY <1>2, <1>3, <1>4, <1>5, <1>6, <1>7 DEF Sound
<1> QED BY <1>0, <1>2, <1>3, <1>4, <1>8 DEF Inserted

\* What saving sections under level l leaves of d; the ids are the ones it met.
Filed(d, x, l, ids) ==
  /\ Sound(x) /\ x.levels = d.levels /\ x.placed = d.placed /\ x.enrolled = d.enrolled
  /\ x.ok => d.ok
  /\ DOMAIN d.classes \subseteq DOMAIN x.classes
  /\ \A c \in DOMAIN d.classes :
       \/ x.classes[c].level = d.classes[c].level /\ c \notin ids
       \/ x.classes[c].level = l /\ c \in ids
       \/ x.classes[c].level = l /\ d.classes[c].level = l

\* One section of the payload is saved.
LEMMA SaveSectionFiles ==
  ASSUME NEW d, Sound(d), NEW section \in [id : Nat, name : Sections], NEW l \in DOMAIN d.levels,
         NEW active \in BOOLEAN, NEW x, x = SaveSection(d, section, l, active)
  PROVE  Filed(d, x, l, {section.id})
<1> DEFINE named == {y \in ClassesOf(d, l) : d.classes[y].name = section.name}
           c == IF section.id \in DOMAIN d.classes THEN section.id ELSE FirstOf(named)
<1>1. named \in SUBSET (Nat \ {0}) /\ named \subseteq DOMAIN d.classes
      /\ \A y \in named : d.classes[y].level = l
  BY DEF ClassesOf, Sound
<1>2. /\ c = 0 \/ c \in DOMAIN d.classes
      /\ c # 0 => c = section.id \/ d.classes[c].level = l
      /\ section.id \in DOMAIN d.classes => c = section.id
      /\ 0 \notin DOMAIN d.classes
  <2>1. 0 \notin DOMAIN d.classes
    BY DEF Sound
  <2>2. CASE section.id \in DOMAIN d.classes
    BY <2>1, <2>2
  <2>3. CASE section.id \notin DOMAIN d.classes
    <3>1. c = FirstOf(named)
      BY <2>3
    <3> HIDE DEF named, c
    <3>2. IF named = {} THEN c = 0 ELSE c \in named
      BY <1>1, <3>1, FirstIsOne
    <3> QED BY <1>1, <2>1, <2>3, <3>2
  <2> QED BY <2>2, <2>3
<1>3. x = CASE c # 0 -> [WriteClass(d, c, section.name, l) EXCEPT !.kept = @ \cup {c}]
            [] c = 0 /\ active -> [InsertClass(d, section.name, l) EXCEPT !.kept = @ \cup {d.next}]
            [] OTHER -> d
  BY DEF SaveSection, ClassNamed
<1> HIDE DEF c, named
<1>4. CASE c # 0
  <2>1. PICK w : w = WriteClass(d, c, section.name, l)
    OBVIOUS
  <2>2. x = [w EXCEPT !.kept = @ \cup {c}] /\ c \in DOMAIN d.classes
    BY <1>2, <1>3, <1>4, <2>1
  <2>3. /\ Sound(w) /\ DOMAIN w.classes = DOMAIN d.classes /\ w.levels = d.levels
        /\ w.classes[c] = [name |-> section.name, level |-> l]
        /\ \A y \in DOMAIN d.classes : y # c => w.classes[y] = d.classes[y]
        /\ w.placed = d.placed /\ w.enrolled = d.enrolled /\ w.next = d.next /\ w.kept = d.kept
        /\ w.ok => d.ok
    BY <2>1, <2>2, WriteClassSound
  <2>4. /\ DOMAIN x = DbFields /\ x.classes = w.classes /\ x.levels = w.levels /\ x.placed = w.placed
        /\ x.enrolled = w.enrolled /\ x.next = w.next /\ x.ok = w.ok
    BY <2>2, <2>3 DEF Sound, DbFields
  <2>5. Sound(x)
    BY <2>3, <2>4 DEF Sound
  <2>6. w.classes[c].level = l
    BY <2>3
  <2> QED BY <1>2, <1>4, <2>2, <2>3, <2>4, <2>5, <2>6 DEF Filed
<1>5. CASE c = 0 /\ active
  <2>1. PICK w : w = InsertClass(d, section.name, l)
    OBVIOUS
  <2>2. x = [w EXCEPT !.kept = @ \cup {d.next}]
    BY <1>3, <1>5, <2>1
  <2>3. /\ Sound(w) /\ DOMAIN w.classes = DOMAIN d.classes \cup {d.next} /\ w.levels = d.levels
        /\ \A y \in DOMAIN d.classes : w.classes[y] = d.classes[y]
        /\ w.placed = d.placed /\ w.enrolled = d.enrolled
        /\ w.ok => d.ok
    <3>1. section.name \in Sections
      OBVIOUS
    <3>2. Sound(w) /\ Inserted(d, w, section.name, l)
      BY <2>1, <3>1, InsertClassSound
    <3> QED BY <3>2 DEF Inserted
  <2>4. /\ DOMAIN x = DbFields /\ x.classes = w.classes /\ x.levels = w.levels /\ x.placed = w.placed
        /\ x.enrolled = w.enrolled /\ x.next = w.next /\ x.ok = w.ok
    BY <2>2, <2>3 DEF Sound, DbFields
  <2>5. Sound(x)
    BY <2>3, <2>4 DEF Sound
  <2>6. section.id \notin DOMAIN d.classes
    BY <1>2, <1>5
  <2> QED BY <2>3, <2>4, <2>5, <2>6 DEF Filed
<1>6. CASE c = 0 /\ ~active
  <2>1. x = d
    BY <1>3, <1>6
  <2>2. section.id \notin DOMAIN d.classes
    BY <1>2, <1>6
  <2> QED BY <2>1, <2>2 DEF Filed
<1> QED BY <1>4, <1>5, <1>6

\* Saving some sections and then others.
LEMMA FiledTwice ==
  ASSUME NEW d, NEW x, NEW y, NEW l, NEW ids, NEW more, Filed(d, x, l, ids), Filed(x, y, l, more)
  PROVE  Filed(d, y, l, ids \cup more)
<1>1. /\ Sound(y) /\ y.levels = d.levels /\ y.placed = d.placed /\ y.enrolled = d.enrolled
      /\ y.ok => d.ok
      /\ DOMAIN d.classes \subseteq DOMAIN y.classes
  BY DEF Filed
<1>2. ASSUME NEW c \in DOMAIN d.classes
      PROVE  \/ y.classes[c].level = d.classes[c].level /\ c \notin ids \cup more
             \/ y.classes[c].level = l /\ c \in ids \cup more
             \/ y.classes[c].level = l /\ d.classes[c].level = l
  <2>1. c \in DOMAIN x.classes
    BY DEF Filed
  <2>2. \/ x.classes[c].level = d.classes[c].level /\ c \notin ids
        \/ x.classes[c].level = l /\ c \in ids
        \/ x.classes[c].level = l /\ d.classes[c].level = l
    BY DEF Filed
  <2>3. \/ y.classes[c].level = x.classes[c].level /\ c \notin more
        \/ y.classes[c].level = l /\ c \in more
        \/ y.classes[c].level = l /\ x.classes[c].level = l
    BY <2>1 DEF Filed
  <2> QED BY <2>2, <2>3
<1> QED BY <1>1, <1>2 DEF Filed

\* The recursion of SaveSections.
SectionFold(f, d, level, l, n) ==
  f = [j \in 0 .. n |-> IF j = 0 THEN d ELSE SaveSection(f[j - 1], level.sections[j], l, level.active)]

\* The recursive function of SaveSections exists.
LEMMA SectionFoldExists ==
  ASSUME NEW d, NEW level, NEW l, NEW n \in Nat
  PROVE  \E f : SectionFold(f, d, level, l, n)
<1> DEFINE T == {m \in Nat : \E f : SectionFold(f, d, level, l, m)}
<1>1. 0 \in T
  <2>1. SectionFold([j \in 0 .. 0 |-> d], d, level, l, 0)
    BY DEF SectionFold
  <2> QED BY <2>1
<1>2. ASSUME NEW m \in T PROVE m + 1 \in T
  <2>0. m \in Nat
    OBVIOUS
  <2>1. PICK f : SectionFold(f, d, level, l, m)
    OBVIOUS
  <2> DEFINE g == [j \in 0 .. m + 1 |-> IF j = 0 THEN d ELSE SaveSection(f[j - 1], level.sections[j], l, level.active)]
  <2>2. \A j \in 0 .. m : g[j] = f[j]
    BY <2>0, <2>1 DEF SectionFold
  <2>3. \A j \in 0 .. m + 1 : j # 0 => g[j - 1] = f[j - 1]
    <3> HIDE DEF g
    <3>1. \A j \in 0 .. m + 1 : j # 0 => j - 1 \in 0 .. m
      BY <2>0
    <3> QED BY <2>2, <3>1
  <2>4. SectionFold(g, d, level, l, m + 1)
    BY <2>3 DEF SectionFold
  <2> QED BY <2>4
<1>3. T \in SUBSET Nat
  OBVIOUS
<1>4. T = Nat
  <2> HIDE DEF T
  <2> QED BY <1>1, <1>2, <1>3, SetInduction
<1> QED BY <1>4

\* SaveSections saves its sections one after the other.
LEMMA SaveSectionsUnfolds ==
  ASSUME NEW d, NEW level, NEW l, Len(level.sections) \in Nat
  PROVE  \E f : SectionFold(f, d, level, l, Len(level.sections))
                /\ SaveSections(d, level, l) = f[Len(level.sections)]
<1>1. PICK f : SectionFold(f, d, level, l, Len(level.sections))
  BY SectionFoldExists
<1>2. f = [j \in 0 .. Len(level.sections) |->
            IF j = 0 THEN d ELSE SaveSection(f[j - 1], level.sections[j], l, level.active)]
  BY <1>1 DEF SectionFold
<1> QED BY <1>2 DEF SaveSections, SectionFold

Section == [id : Nat, name : Sections]
Level == [id : Nat, name : Grades, active : BOOLEAN, sections : Seq(Section)]
SectionIds(level) == {level.sections[j].id : j \in 1 .. Len(level.sections)}

\* All sections of a level are saved.
LEMMA SaveSectionsFiles ==
  ASSUME NEW d, Sound(d), NEW level \in Level, NEW l \in DOMAIN d.levels, NEW x, x = SaveSections(d, level, l)
  PROVE  Filed(d, x, l, SectionIds(level))
<1> DEFINE n == Len(level.sections)
           ids(j) == {level.sections[k].id : k \in 1 .. j}
<1>1. /\ level.sections \in Seq(Section) /\ n \in Nat /\ level.active \in BOOLEAN
      /\ \A j \in 1 .. n : level.sections[j] \in [id : Nat, name : Sections]
  BY ElementOfSeq, LenProperties DEF Level, Section
<1>2. PICK f : SectionFold(f, d, level, l, n) /\ x = f[n]
  BY <1>1, SaveSectionsUnfolds
<1>3. /\ f[0] = d
      /\ \A j \in 1 .. n : f[j] = SaveSection(f[j - 1], level.sections[j], l, level.active)
  <2> HIDE DEF n
  <2>1. f = [j \in 0 .. n |-> IF j = 0 THEN d ELSE SaveSection(f[j - 1], level.sections[j], l, level.active)]
    BY <1>2 DEF SectionFold
  <2>2. 0 \in 0 .. n /\ \A j \in 1 .. n : j \in 0 .. n /\ j # 0
    BY <1>1
  <2> QED BY <2>1, <2>2
<1> DEFINE T == {j \in 0 .. n : Filed(d, f[j], l, ids(j))}
<1>4. 0 \in T
  <2>1. ids(0) = {}
    OBVIOUS
  <2>2. Filed(d, d, l, {})
    BY DEF Filed
  <2> HIDE DEF ids, n
  <2>3. 0 \in 0 .. n
    BY <1>1
  <2> QED BY <1>3, <2>1, <2>2, <2>3
<1>5. ASSUME NEW m \in 0 .. n - 1, m \in T PROVE m + 1 \in T
  <2>1. m + 1 \in 1 .. n /\ (m + 1) - 1 = m
    BY <1>1
  <2>2. Filed(d, f[m], l, ids(m))
    BY <1>5
  <2>3. Sound(f[m]) /\ l \in DOMAIN f[m].levels
    BY <2>2 DEF Filed
  <2>4. f[m + 1] = SaveSection(f[m], level.sections[m + 1], l, level.active)
    BY <1>3, <2>1
  <2>5. level.sections[m + 1] \in [id : Nat, name : Sections]
    BY <1>1, <2>1
  <2>6. Filed(f[m], f[m + 1], l, {level.sections[m + 1].id})
    BY <1>1, <2>3, <2>4, <2>5, SaveSectionFiles
  <2>7. ids(m + 1) = ids(m) \cup {level.sections[m + 1].id}
    BY <2>1
  <2> HIDE DEF ids
  <2>8. Filed(d, f[m + 1], l, ids(m + 1))
    BY <2>2, <2>6, <2>7, FiledTwice
  <2> QED BY <2>1, <2>8
<1>6. n \in T
  <2> HIDE DEF T, n
  <2>1. \A m \in 0 .. n : m \in T
    BY <1>1, <1>4, <1>5, UpTo
  <2> QED BY <1>1, <2>1
<1> QED BY <1>2, <1>6 DEF SectionIds

\* Row l of levels is written; nothing else changes but the next id.
Levelled(d, x, l, name) ==
  /\ DOMAIN x.levels = DOMAIN d.levels \cup {l} /\ x.levels[l].name = name
  /\ \A m \in DOMAIN d.levels : m # l => x.levels[m] = d.levels[m]
  /\ x.classes = d.classes /\ x.placed = d.placed /\ x.enrolled = d.enrolled /\ x.ok = d.ok

\* What UPDATE and INSERT make of the table of levels.
LEMMA WriteLevelIs ==
  ASSUME NEW d, DOMAIN d = DbFields, NEW l, NEW name, NEW active, NEW x, x = WriteLevel(d, l, name, active)
  PROVE  /\ DOMAIN x = DbFields
         /\ x.levels = Put(d.levels, l, [name |-> name, active |-> active])
         /\ x.classes = d.classes /\ x.placed = d.placed /\ x.enrolled = d.enrolled
         /\ x.next = d.next /\ x.kept = d.kept /\ x.ok = d.ok
BY DEF WriteLevel, DbFields

\* A database with one row of levels written.
LEMMA LevelRow ==
  ASSUME NEW d, Sound(d), NEW l, NEW name \in Grades, NEW active \in BOOLEAN, NEW x,
         DOMAIN x = DbFields, x.levels = Put(d.levels, l, [name |-> name, active |-> active]),
         x.classes = d.classes, x.placed = d.placed, x.enrolled = d.enrolled, x.ok = d.ok,
         x.next \in Nat, d.next <= x.next, l \in 1 .. x.next - 1
  PROVE  Sound(x) /\ Levelled(d, x, l, name)
<1>1. PICK v : v = [name |-> name, active |-> active]
  OBVIOUS
<1>2. /\ DOMAIN x.levels = DOMAIN d.levels \cup {l} /\ x.levels[l] = v
      /\ \A m \in DOMAIN d.levels : m # l => x.levels[m] = d.levels[m]
  BY <1>1 DEF Put
<1>3. v \in [name : Grades, active : BOOLEAN] /\ v.name = name
  BY <1>1
<1>4. \A m \in DOMAIN x.levels : x.levels[m] \in [name : Grades, active : BOOLEAN]
  BY <1>2, <1>3 DEF Sound
<1>5. \A c \in DOMAIN x.classes : x.classes[c] \in [name : Sections, level : DOMAIN x.levels]
  <2>1. DOMAIN d.levels \subseteq DOMAIN x.levels
    BY <1>2
  <2> QED BY <2>1 DEF Sound
<1>6. /\ x.next \in Nat \ {0} /\ DOMAIN x.levels \subseteq 1 .. x.next - 1
      /\ DOMAIN x.classes \subseteq 1 .. x.next - 1
  BY <1>2 DEF Sound
<1>7. Sound(x)
  BY <1>4, <1>5, <1>6 DEF Sound
<1> QED BY <1>2, <1>3, <1>7 DEF Levelled

\* An UPDATE of a level that is there.
LEMMA WriteLevelSound ==
  ASSUME NEW d, Sound(d), NEW l \in DOMAIN d.levels, NEW name \in Grades, NEW active \in BOOLEAN,
         NEW x, x = WriteLevel(d, l, name, active)
  PROVE  Sound(x) /\ Levelled(d, x, l, name) /\ x.kept = d.kept
<1>1. /\ DOMAIN x = DbFields
      /\ x.levels = Put(d.levels, l, [name |-> name, active |-> active])
      /\ x.classes = d.classes /\ x.placed = d.placed /\ x.enrolled = d.enrolled
      /\ x.next = d.next /\ x.kept = d.kept /\ x.ok = d.ok
  BY WriteLevelIs DEF Sound
<1>2. x.next \in Nat /\ d.next <= x.next /\ l \in 1 .. x.next - 1
  <2>1. d.next \in Nat /\ l \in 1 .. d.next - 1
    BY DEF Sound
  <2> QED BY <1>1, <2>1
<1> QED BY <1>1, <1>2, LevelRow

\* An INSERT of a level.
LEMMA InsertLevelSound ==
  ASSUME NEW d, Sound(d), NEW name \in Grades, NEW active \in BOOLEAN,
         NEW x, x = InsertLevel(d, name, active)
  PROVE  Sound(x) /\ Levelled(d, x, d.next, name) /\ d.next \notin DOMAIN d.levels /\ x.kept = d.kept
<1>1. PICK w : w = WriteLevel(d, d.next, name, active)
  OBVIOUS
<1>2. /\ DOMAIN w = DbFields
      /\ w.levels = Put(d.levels, d.next, [name |-> name, active |-> active])
      /\ w.classes = d.classes /\ w.placed = d.placed /\ w.enrolled = d.enrolled
      /\ w.next = d.next /\ w.kept = d.kept /\ w.ok = d.ok
  BY <1>1, WriteLevelIs DEF Sound
<1>3. x = [w EXCEPT !.next = @ + 1]
  BY <1>1 DEF InsertLevel
<1>4. /\ DOMAIN x = DbFields /\ x.levels = w.levels /\ x.classes = d.classes
      /\ x.placed = d.placed /\ x.enrolled = d.enrolled
      /\ x.next = d.next + 1 /\ x.kept = d.kept /\ x.ok = d.ok
  BY <1>2, <1>3 DEF DbFields
<1>5. d.next \in Nat \ {0} /\ d.next \notin DOMAIN d.levels
  BY DEF Sound
<1>6. x.next \in Nat /\ d.next <= x.next /\ d.next \in 1 .. x.next - 1
  BY <1>4, <1>5
<1>7. x.levels = Put(d.levels, d.next, [name |-> name, active |-> active])
  BY <1>2, <1>4
<1> QED BY <1>4, <1>5, <1>6, <1>7, LevelRow

\* Sections cs go with their enrolments and their pupils' placements.
LEMMA RemoveClassesSound ==
  ASSUME NEW d, Sound(d), NEW cs, NEW x, x = RemoveClasses(d, cs)
  PROVE  /\ Sound(x) /\ x.levels = d.levels /\ x.enrolled \subseteq d.enrolled
         /\ DOMAIN x.classes = DOMAIN d.classes \ cs
         /\ \A c \in DOMAIN x.classes : x.classes[c] = d.classes[c]
         /\ \A s \in Students : d.placed[s] \notin cs => x.placed[s] = d.placed[s]
         /\ x.ok = d.ok /\ x.kept = d.kept
<1>1. /\ DOMAIN x = DbFields /\ x.classes = Drop(d.classes, cs)
      /\ x.placed = [s \in Students |-> IF d.placed[s] \in cs THEN 0 ELSE d.placed[s]]
      /\ x.ok = d.ok /\ x.kept = d.kept
      /\ x.levels = d.levels /\ x.enrolled = d.enrolled \ cs /\ x.next = d.next
  BY DEF RemoveClasses, DbFields, Sound
<1>2. /\ DOMAIN x.classes = DOMAIN d.classes \ cs
      /\ \A c \in DOMAIN x.classes : x.classes[c] = d.classes[c]
  BY <1>1 DEF Drop
<1>4. /\ DOMAIN x.placed = Students
      /\ \A s \in Students : d.placed[s] \notin cs => x.placed[s] = d.placed[s]
      /\ \A s \in Students : x.placed[s] \in DOMAIN x.classes \cup {0}
  BY <1>1, <1>2 DEF Sound
<1>5. \A c \in DOMAIN x.classes : x.classes[c] \in [name : Sections, level : DOMAIN x.levels]
  BY <1>1, <1>2 DEF Sound
<1>6. x.ok => \A a, b \in DOMAIN x.classes : x.classes[a].name = x.classes[b].name => a = b
  BY <1>1, <1>2 DEF Sound
<1>7. Sound(x)
  BY <1>1, <1>2, <1>4, <1>5, <1>6 DEF Sound
<1> QED BY <1>1, <1>2, <1>4, <1>7

\* From d to x nothing on the list got lost, and nothing that had not been read.
Survives(d, x, listed, read) ==
  /\ Sound(x) /\ x.enrolled \subseteq d.enrolled
  /\ x.ok => d.ok
  /\ DOMAIN d.levels \subseteq DOMAIN x.levels
  /\ \A c \in DOMAIN d.classes \ DOMAIN x.classes : c \notin listed /\ c \in read
  /\ \A s \in Students : d.placed[s] \in listed => x.placed[s] = d.placed[s]

\* Row l stands for level in x, and the sections it lists are under it.
Stands(d, x, l, level) ==
  /\ l \in DOMAIN x.levels /\ x.levels[l].name = level.name
  /\ \A m \in DOMAIN d.levels : m # l => x.levels[m] = d.levels[m]
  /\ level.id \in DOMAIN d.levels => l = level.id
  /\ level.id \notin DOMAIN d.levels /\ l \in DOMAIN d.levels => d.levels[l].name = level.name
  /\ \A c \in DOMAIN d.classes \cap DOMAIN x.classes :
       \/ x.classes[c].level = d.classes[c].level /\ c \notin SectionIds(level)
       \/ x.classes[c].level = l /\ c \in SectionIds(level)
       \/ x.classes[c].level = l /\ d.classes[c].level = l

\* One level of the payload is saved, with its sections.
LEMMA SaveLevelStands ==
  ASSUME NEW d, Sound(d), NEW level \in Level, NEW listed, NEW read, NEW x,
         x = SaveLevel(d, level, listed, read)
  PROVE  Survives(d, x, listed, read) /\ \E l : Stands(d, x, l, level)
<1> DEFINE named == {m \in DOMAIN d.levels : d.levels[m].name = level.name}
           found == IF level.id \in DOMAIN d.levels THEN level.id ELSE FirstOf(named)
           l == IF found = 0 THEN d.next ELSE found
           row == IF found = 0 THEN InsertLevel(d, level.name, level.active)
                  ELSE WriteLevel(d, l, level.name, level.active)
           start == [row EXCEPT !.kept = {}]
           saved == SaveSections(start, level, l)
           gone == (ClassesOf(saved, l) \cap read) \ (saved.kept \cup listed)
<1>0. level.name \in Grades /\ level.active \in BOOLEAN
  BY DEF Level
<1>1. /\ found = 0 \/ found \in DOMAIN d.levels
      /\ level.id \in DOMAIN d.levels => found = level.id
      /\ level.id \notin DOMAIN d.levels /\ found # 0 => d.levels[found].name = level.name
      /\ 0 \notin DOMAIN d.levels
  <2>1. 0 \notin DOMAIN d.levels /\ named \in SUBSET (Nat \ {0})
    BY DEF Sound
  <2>2. CASE level.id \in DOMAIN d.levels
    BY <2>1, <2>2
  <2>3. CASE level.id \notin DOMAIN d.levels
    <3>1. found = FirstOf(named)
      BY <2>3
    <3>2. \A m \in named : m \in DOMAIN d.levels /\ d.levels[m].name = level.name
      OBVIOUS
    <3> HIDE DEF named, found
    <3>3. IF named = {} THEN found = 0 ELSE found \in named
      BY <2>1, <3>1, FirstIsOne
    <3> QED BY <2>1, <2>3, <3>2, <3>3
  <2> QED BY <2>2, <2>3
<1>2. x = RemoveClasses(saved, gone)
  BY DEF SaveLevel, LevelNamed
<1> HIDE DEF named, found
<1>3. Sound(row) /\ Levelled(d, row, l, level.name)
      /\ (level.id \in DOMAIN d.levels => l = level.id)
      /\ (level.id \notin DOMAIN d.levels /\ l \in DOMAIN d.levels => d.levels[l].name = level.name)
  <2>1. CASE found = 0
    <3>1. row = InsertLevel(d, level.name, level.active) /\ l = d.next
      BY <2>1
    <3> HIDE DEF row, l
    <3>2. Sound(row) /\ Levelled(d, row, d.next, level.name) /\ d.next \notin DOMAIN d.levels
      BY <1>0, <3>1, InsertLevelSound
    <3> QED BY <1>1, <2>1, <3>1, <3>2
  <2>2. CASE found # 0
    <3>1. row = WriteLevel(d, l, level.name, level.active) /\ l = found /\ l \in DOMAIN d.levels
      BY <1>1, <2>2
    <3> HIDE DEF row, l
    <3>2. Sound(row) /\ Levelled(d, row, l, level.name)
      BY <1>0, <3>1, WriteLevelSound
    <3> QED BY <1>1, <2>2, <3>1, <3>2
  <2> QED BY <2>1, <2>2
<1> HIDE DEF l, row
<1>4. Sound(start) /\ Levelled(d, start, l, level.name)
  <2>1. /\ DOMAIN start = DbFields /\ start.levels = row.levels /\ start.classes = row.classes
        /\ start.placed = row.placed /\ start.enrolled = row.enrolled /\ start.next = row.next
        /\ start.ok = row.ok
    BY <1>3 DEF DbFields, Sound
  <2> HIDE DEF start
  <2>2. Sound(start)
    BY <1>3, <2>1 DEF Sound
  <2> QED BY <1>3, <2>1, <2>2 DEF Levelled
<1> HIDE DEF start
<1>5. Filed(start, saved, l, SectionIds(level))
  <2>1. l \in DOMAIN start.levels
    BY <1>4 DEF Levelled
  <2> QED BY <1>4, <2>1, SaveSectionsFiles
<1> HIDE DEF saved
<1>6. gone \subseteq read /\ gone \cap listed = {}
  OBVIOUS
<1> HIDE DEF gone
<1>7. /\ Sound(x) /\ x.levels = saved.levels /\ x.enrolled \subseteq saved.enrolled
      /\ DOMAIN x.classes = DOMAIN saved.classes \ gone
      /\ \A c \in DOMAIN x.classes : x.classes[c] = saved.classes[c]
      /\ \A s \in Students : saved.placed[s] \notin gone => x.placed[s] = saved.placed[s]
      /\ x.ok => saved.ok
  <2>1. Sound(saved)
    BY <1>5 DEF Filed
  <2> QED BY <1>2, <2>1, RemoveClassesSound
<1>8. /\ saved.levels = start.levels /\ saved.placed = start.placed
      /\ saved.enrolled = start.enrolled /\ (saved.ok => start.ok)
      /\ DOMAIN start.classes \subseteq DOMAIN saved.classes
      /\ \A c \in DOMAIN start.classes :
           \/ saved.classes[c].level = start.classes[c].level /\ c \notin SectionIds(level)
           \/ saved.classes[c].level = l /\ c \in SectionIds(level)
           \/ saved.classes[c].level = l /\ start.classes[c].level = l
  BY <1>5 DEF Filed
<1>9. /\ DOMAIN start.levels = DOMAIN d.levels \cup {l} /\ start.levels[l].name = level.name
      /\ \A m \in DOMAIN d.levels : m # l => start.levels[m] = d.levels[m]
      /\ start.classes = d.classes /\ start.placed = d.placed
      /\ start.enrolled = d.enrolled /\ start.ok = d.ok
  BY <1>4 DEF Levelled
<1>10. Survives(d, x, listed, read)
  <2>1. \A c \in DOMAIN d.classes \ DOMAIN x.classes : c \in gone
    BY <1>7, <1>8, <1>9
  <2>2. \A c \in DOMAIN d.classes \ DOMAIN x.classes : c \notin listed /\ c \in read
    BY <2>1, <1>6
  <2>3. \A s \in Students : d.placed[s] \in listed => x.placed[s] = d.placed[s]
    BY <1>6, <1>7, <1>8, <1>9
  <2> QED BY <2>2, <2>3, <1>7, <1>8, <1>9 DEF Survives
<1>11. Stands(d, x, l, level)
  <2>1. \A c \in DOMAIN d.classes \cap DOMAIN x.classes :
       \/ x.classes[c].level = d.classes[c].level /\ c \notin SectionIds(level)
       \/ x.classes[c].level = l /\ c \in SectionIds(level)
       \/ x.classes[c].level = l /\ d.classes[c].level = l
    BY <1>7, <1>8, <1>9
  <2> QED BY <2>1, <1>3, <1>7, <1>8, <1>9 DEF Stands
<1> QED BY <1>10, <1>11

\* The recursion of SaveLevels.
LevelFold(f, d, p, listed, read, n) ==
  f = [i \in 0 .. n |-> IF i = 0 THEN d ELSE SaveLevel(f[i - 1], p[i], listed, read)]

\* The recursive function of SaveLevels exists.
LEMMA LevelFoldExists ==
  ASSUME NEW d, NEW p, NEW listed, NEW read, NEW n \in Nat
  PROVE  \E f : LevelFold(f, d, p, listed, read, n)
<1> DEFINE T == {m \in Nat : \E f : LevelFold(f, d, p, listed, read, m)}
<1>1. 0 \in T
  <2>1. LevelFold([i \in 0 .. 0 |-> d], d, p, listed, read, 0)
    BY DEF LevelFold
  <2> QED BY <2>1
<1>2. ASSUME NEW m \in T PROVE m + 1 \in T
  <2>0. m \in Nat
    OBVIOUS
  <2>1. PICK f : LevelFold(f, d, p, listed, read, m)
    OBVIOUS
  <2> DEFINE g == [i \in 0 .. m + 1 |-> IF i = 0 THEN d ELSE SaveLevel(f[i - 1], p[i], listed, read)]
  <2>2. \A i \in 0 .. m : g[i] = f[i]
    BY <2>0, <2>1 DEF LevelFold
  <2>3. \A i \in 0 .. m + 1 : i # 0 => g[i - 1] = f[i - 1]
    <3> HIDE DEF g
    <3>1. \A i \in 0 .. m + 1 : i # 0 => i - 1 \in 0 .. m
      BY <2>0
    <3> QED BY <2>2, <3>1
  <2>4. LevelFold(g, d, p, listed, read, m + 1)
    BY <2>3 DEF LevelFold
  <2> QED BY <2>4
<1>3. T \in SUBSET Nat
  OBVIOUS
<1>4. T = Nat
  <2> HIDE DEF T
  <2> QED BY <1>1, <1>2, <1>3, SetInduction
<1> QED BY <1>4

\* SaveLevels saves its levels one after the other.
LEMMA SaveLevelsUnfolds ==
  ASSUME NEW d, NEW p, NEW listed, NEW read, Len(p) \in Nat
  PROVE  \E f : LevelFold(f, d, p, listed, read, Len(p)) /\ SaveLevels(d, p, listed, read) = f[Len(p)]
<1>1. PICK f : LevelFold(f, d, p, listed, read, Len(p))
  BY LevelFoldExists
<1>2. f = [i \in 0 .. Len(p) |-> IF i = 0 THEN d ELSE SaveLevel(f[i - 1], p[i], listed, read)]
  BY <1>1 DEF LevelFold
<1> QED BY <1>2 DEF SaveLevels, LevelFold

\* Survival from d to x and from x to y.
LEMMA SurvivesTwice ==
  ASSUME NEW d, NEW x, NEW y, NEW listed, NEW read, Sound(d),
         Survives(d, x, listed, read), Survives(x, y, listed, read)
  PROVE  Survives(d, y, listed, read)
<1>1. /\ Sound(y) /\ y.enrolled \subseteq d.enrolled /\ (y.ok => d.ok)
      /\ DOMAIN d.levels \subseteq DOMAIN y.levels
  BY DEF Survives
<1>2. \A c \in DOMAIN d.classes \ DOMAIN y.classes : c \notin listed /\ c \in read
  BY DEF Survives
<1>3. \A s \in Students : d.placed[s] \in listed => y.placed[s] = d.placed[s]
  BY DEF Survives
<1> QED BY <1>1, <1>2, <1>3 DEF Survives

\* What a client sends back: a level and a section have one place in it, and a
\* new level has new sections only.
Payload(p) ==
  /\ p \in Seq(Level)
  /\ \A i, k \in 1 .. Len(p) : p[i].id = p[k].id /\ p[i].id # 0 => i = k
  /\ \A i \in 1 .. Len(p) : p[i].id = 0 => \A j \in 1 .. Len(p[i].sections) : p[i].sections[j].id = 0
  /\ \A i, k \in 1 .. Len(p) :
       \A j \in 1 .. Len(p[i].sections), m \in 1 .. Len(p[k].sections) :
         p[i].sections[j].id = p[k].sections[m].id /\ p[i].sections[j].id # 0 => i = k /\ j = m

\* The parts of a payload have their types.
LEMMA PayloadParts ==
  ASSUME NEW p, Payload(p)
  PROVE  /\ Len(p) \in Nat /\ DOMAIN p = 1 .. Len(p)
         /\ \A i \in 1 .. Len(p) : /\ p[i] \in Level
                                   /\ Len(p[i].sections) \in Nat
                                   /\ DOMAIN p[i].sections = 1 .. Len(p[i].sections)
<1>1. p \in Seq(Level)
  BY DEF Payload
<1>2. Len(p) \in Nat /\ DOMAIN p = 1 .. Len(p) /\ \A i \in 1 .. Len(p) : p[i] \in Level
  BY <1>1, LenProperties, ElementOfSeq
<1>3. \A i \in 1 .. Len(p) : p[i].sections \in Seq(Section)
  BY <1>2 DEF Level
<1>4. \A i \in 1 .. Len(p) : Len(p[i].sections) \in Nat /\ DOMAIN p[i].sections = 1 .. Len(p[i].sections)
  BY <1>3, LenProperties
<1> QED BY <1>2, <1>4

\* Listed is the ids of all sections of the payload.
LEMMA SectionsAreListed ==
  ASSUME NEW p, Payload(p), NEW i \in 1 .. Len(p), NEW c \in SectionIds(p[i])
  PROVE  c \in Listed(p)
<1>1. i \in DOMAIN p /\ DOMAIN p[i].sections = 1 .. Len(p[i].sections)
  BY PayloadParts
<1>2. c \in {p[i].sections[j].id : j \in DOMAIN p[i].sections}
  BY <1>1 DEF SectionIds
<1> QED BY <1>1, <1>2 DEF Listed

\* The sections of the first n levels of p are under them.
Under(d, x, p, n) ==
  \A i \in 1 .. n : \A c \in SectionIds(p[i]) \cap DOMAIN d.classes :
    x.classes[c].level = p[i].id /\ x.levels[p[i].id].name = p[i].name

\* With one more level saved, the sections of the earlier ones stay under them.
LEMMA UnderStep ==
  ASSUME NEW d, Sound(d), NEW p, Payload(p), NEW n \in 0 .. Len(p) - 1, NEW x, NEW y, NEW l,
         NEW read, \A k \in 1 .. Len(p) : p[k].id \in DOMAIN d.levels \cup {0},
         Survives(d, x, Listed(p), read), Survives(x, y, Listed(p), read), Stands(x, y, l, p[n + 1]), Under(d, x, p, n)
  PROVE  Under(d, y, p, n + 1)
<1>1. Len(p) \in Nat /\ n \in Nat /\ n + 1 \in 1 .. Len(p) /\ 1 .. n \subseteq 1 .. Len(p)
  <2>1. Len(p) \in Nat
    BY PayloadParts
  <2> QED BY <2>1
<1>2. Sound(x) /\ 0 \notin DOMAIN d.classes /\ 0 \notin DOMAIN x.levels /\ DOMAIN d.levels \subseteq DOMAIN x.levels
  BY DEF Survives, Sound
<1>3. ASSUME NEW i \in 1 .. Len(p), NEW c \in SectionIds(p[i]) \cap DOMAIN d.classes
      PROVE  /\ c \in DOMAIN x.classes /\ c \in DOMAIN y.classes
             /\ p[i].id # 0 /\ p[i].id \in DOMAIN x.levels
             /\ \A k \in 1 .. Len(p) : c \in SectionIds(p[k]) => k = i
  <2>1. c \in Listed(p)
    BY SectionsAreListed
  <2>2. c \in DOMAIN x.classes
    BY <2>1 DEF Survives
  <2>3. c \in DOMAIN y.classes
    BY <2>1, <2>2 DEF Survives
  <2>4. c # 0
    BY <1>2
  <2>5. PICK j \in 1 .. Len(p[i].sections) : c = p[i].sections[j].id
    BY DEF SectionIds
  <2>6. p[i].id # 0
    BY <2>4, <2>5 DEF Payload
  <2>7. ASSUME NEW k \in 1 .. Len(p), c \in SectionIds(p[k]) PROVE k = i
    <3>1. PICK m \in 1 .. Len(p[k].sections) : c = p[k].sections[m].id
      BY <2>7 DEF SectionIds
    <3> QED BY <2>4, <2>5, <3>1 DEF Payload
  <2> QED BY <1>2, <2>2, <2>3, <2>6, <2>7
<1>4. p[n + 1].id # 0 => l = p[n + 1].id
  BY <1>1, <1>2 DEF Stands
<1>5. ASSUME NEW i \in 1 .. n, NEW c \in SectionIds(p[i]) \cap DOMAIN d.classes
      PROVE  y.classes[c].level = p[i].id /\ y.levels[p[i].id].name = p[i].name
  <2>1. i \in 1 .. Len(p) /\ i # n + 1
    BY <1>1
  <2>2. /\ c \in DOMAIN x.classes /\ c \in DOMAIN y.classes /\ p[i].id # 0 /\ p[i].id \in DOMAIN x.levels
        /\ c \notin SectionIds(p[n + 1])
    BY <1>1, <1>3, <2>1
  <2>3. x.classes[c].level = p[i].id /\ x.levels[p[i].id].name = p[i].name
    BY DEF Under
  <2>4. y.classes[c].level = p[i].id
    BY <2>2, <2>3 DEF Stands
  <2>5. CASE p[i].id # l
    BY <2>2, <2>3, <2>4, <2>5 DEF Stands
  <2>6. CASE p[i].id = l
    <3>1. p[n + 1].id = 0
      BY <1>1, <1>4, <2>1, <2>2, <2>6 DEF Payload
    <3>2. x.levels[l].name = p[n + 1].name /\ y.levels[l].name = p[n + 1].name
      BY <1>2, <2>2, <2>6, <3>1 DEF Stands
    <3> QED BY <2>3, <2>4, <2>6, <3>2
  <2> QED BY <2>5, <2>6
<1>6. ASSUME NEW c \in SectionIds(p[n + 1]) \cap DOMAIN d.classes
      PROVE  y.classes[c].level = p[n + 1].id /\ y.levels[p[n + 1].id].name = p[n + 1].name
  <2>1. c \in DOMAIN x.classes /\ c \in DOMAIN y.classes /\ p[n + 1].id # 0
    BY <1>1, <1>3
  <2> QED BY <1>4, <2>1 DEF Stands
<1> QED BY <1>1, <1>5, <1>6 DEF Under

\* All levels of a payload are saved.
LEMMA SaveLevelsIs ==
  ASSUME NEW d, Sound(d), NEW p, Payload(p), NEW read, NEW x,
         x = SaveLevels(d, p, Listed(p), read)
  PROVE  /\ Survives(d, x, Listed(p), read)
         /\ (\A k \in 1 .. Len(p) : p[k].id \in DOMAIN d.levels \cup {0}) => Under(d, x, p, Len(p))
<1> DEFINE n == Len(p)
           listed == Listed(p)
           alive == \A k \in 1 .. n : p[k].id \in DOMAIN d.levels \cup {0}
<1>1. n \in Nat /\ \A i \in 1 .. n : p[i] \in Level
  BY PayloadParts
<1>2. PICK f : LevelFold(f, d, p, listed, read, n) /\ x = f[n]
  BY <1>1, SaveLevelsUnfolds
<1>3. /\ f[0] = d
      /\ \A i \in 1 .. n : f[i] = SaveLevel(f[i - 1], p[i], listed, read)
  <2> HIDE DEF n
  <2>1. f = [i \in 0 .. n |-> IF i = 0 THEN d ELSE SaveLevel(f[i - 1], p[i], listed, read)]
    BY <1>2 DEF LevelFold
  <2>2. 0 \in 0 .. n /\ \A i \in 1 .. n : i \in 0 .. n /\ i # 0
    BY <1>1
  <2> QED BY <2>1, <2>2
<1> DEFINE T == {i \in 0 .. n : Survives(d, f[i], listed, read) /\ (alive => Under(d, f[i], p, i))}
<1>4. 0 \in T
  <2>1. Survives(d, d, listed, read)
    BY DEF Survives
  <2>2. Under(d, d, p, 0)
    BY DEF Under
  <2> HIDE DEF n, listed, alive
  <2>3. 0 \in 0 .. n
    BY <1>1
  <2> QED BY <1>3, <2>1, <2>2, <2>3
<1>5. ASSUME NEW m \in 0 .. n - 1, m \in T PROVE m + 1 \in T
  <2>1. m + 1 \in 1 .. n /\ m + 1 \in 0 .. n /\ (m + 1) - 1 = m
    BY <1>1
  <2>2. Survives(d, f[m], listed, read) /\ (alive => Under(d, f[m], p, m))
    BY <1>5
  <2>3. f[m + 1] = SaveLevel(f[m], p[m + 1], listed, read)
    BY <1>3, <2>1
  <2>4. p[m + 1] \in Level /\ Sound(f[m])
    BY <1>1, <2>1, <2>2 DEF Survives
  <2>5. Survives(f[m], f[m + 1], listed, read) /\ \E l : Stands(f[m], f[m + 1], l, p[m + 1])
    BY <2>3, <2>4, SaveLevelStands
  <2>6. Survives(d, f[m + 1], listed, read)
    BY <2>2, <2>5, SurvivesTwice
  <2>7. ASSUME alive PROVE Under(d, f[m + 1], p, m + 1)
    <3>1. PICK l : Stands(f[m], f[m + 1], l, p[m + 1])
      BY <2>5
    <3> QED BY <2>2, <2>5, <2>7, <3>1, UnderStep
  <2> QED BY <2>1, <2>6, <2>7
<1>6. n \in T
  <2> HIDE DEF T, n
  <2>1. \A m \in 0 .. n : m \in T
    BY <1>1, <1>4, <1>5, UpTo
  <2> QED BY <1>1, <2>1
<1> QED BY <1>2, <1>6

\* What save_academic_structure makes of a sound database, for a payload of any length.
LEMMA SaveStructureIs ==
  ASSUME NEW d, Sound(d), NEW p, Payload(p), NEW read, NEW x, x = SaveStructure(d, p, read)
  PROVE  /\ Survives(d, x, Listed(p), read) /\ x.kept = {}
         /\ (\A k \in 1 .. Len(p) : p[k].id \in DOMAIN d.levels \cup {0}) => Under(d, x, p, Len(p))
<1>1. PICK y : y = SaveLevels(d, p, Listed(p), read)
  OBVIOUS
<1>2. /\ Survives(d, y, Listed(p), read)
      /\ (\A k \in 1 .. Len(p) : p[k].id \in DOMAIN d.levels \cup {0}) => Under(d, y, p, Len(p))
  BY <1>1, SaveLevelsIs
<1>3. x = [y EXCEPT !.kept = {}]
  BY <1>1 DEF SaveStructure
<1>4. /\ DOMAIN x = DbFields /\ x.levels = y.levels /\ x.classes = y.classes
      /\ x.placed = y.placed /\ x.enrolled = y.enrolled /\ x.next = y.next /\ x.ok = y.ok /\ x.kept = {}
  BY <1>2, <1>3 DEF DbFields, Survives, Sound
<1>5. Sound(x)
  BY <1>2, <1>4 DEF Survives, Sound
<1>6. Survives(d, x, Listed(p), read)
  BY <1>2, <1>4, <1>5 DEF Survives
<1> QED BY <1>2, <1>4, <1>6 DEF Under

-------------------------------------------------------------------------------
(* The structure a client fetches: it is listed in order, and names everything *)
(* once.                                                                       *)

\* What get_academic_structure returns is in order.
Increasing(s, n) == \A i, j \in 1 .. n : i < j => s[i] < s[j]

\* A finite set of numbers can be listed in order.
LEMMA OrderExists ==
  ASSUME NEW ids \in SUBSET Nat, IsFiniteSet(ids)
  PROVE  \E s \in [1 .. Cardinality(ids) -> ids] : Increasing(s, Cardinality(ids))
<1> DEFINE Sorted(S, n) == \E s \in [1 .. n -> S] : Increasing(s, n)
           T == {n \in Nat : \A S \in SUBSET Nat : IsFiniteSet(S) /\ Cardinality(S) = n => Sorted(S, n)}
<1>1. 0 \in T
  <2>1. ASSUME NEW S PROVE Sorted(S, 0)
    <3>1. [i \in 1 .. 0 |-> 0] \in [1 .. 0 -> S]
      OBVIOUS
    <3>2. Increasing([i \in 1 .. 0 |-> 0], 0)
      BY DEF Increasing
    <3> QED BY <3>1, <3>2
  <2> HIDE DEF Sorted
  <2> QED BY <2>1
<1>2. ASSUME NEW n \in T PROVE n + 1 \in T
  <2>0. n \in Nat
    OBVIOUS
  <2>1. ASSUME NEW S \in SUBSET Nat, IsFiniteSet(S), Cardinality(S) = n + 1
        PROVE  Sorted(S, n + 1)
    <3>1. S # {}
      BY <2>0, <2>1, FS_EmptySet
    <3>2. PICK x \in S : \A y \in S : x <= y
      BY <3>1, NatMin
    <3>3. S \ {x} \in SUBSET Nat /\ IsFiniteSet(S \ {x}) /\ Cardinality(S \ {x}) = n
      <4>1. IsFiniteSet(S \ {x}) /\ Cardinality(S \ {x}) = Cardinality(S) - 1
        BY <2>1, <3>2, FS_RemoveElement
      <4> QED BY <2>0, <2>1, <4>1
    <3>4. Sorted(S \ {x}, n)
      BY <3>3
    <3>5. PICK s \in [1 .. n -> S \ {x}] : Increasing(s, n)
      BY <3>4
    <3> DEFINE t == [i \in 1 .. n + 1 |-> IF i = 1 THEN x ELSE s[i - 1]]
    <3>6. \A i \in 1 .. n + 1 : i # 1 => i - 1 \in 1 .. n /\ s[i - 1] \in S /\ s[i - 1] # x
      BY <2>0, <3>5
    <3>7. t \in [1 .. n + 1 -> S]
      BY <3>2, <3>6
    <3>8. ASSUME NEW i \in 1 .. n + 1, NEW j \in 1 .. n + 1, i < j PROVE t[i] < t[j]
      <4>1. j # 1 /\ j - 1 \in 1 .. n /\ t[j] = s[j - 1] /\ t[j] \in S /\ t[j] # x
        BY <2>0, <3>6, <3>8
      <4>2. CASE i = 1
        <5>1. t[i] = x /\ x <= t[j] /\ x \in Nat /\ t[j] \in Nat
          BY <3>2, <4>1, <4>2
        <5> HIDE DEF t
        <5> QED BY <4>1, <5>1
      <4>3. CASE i # 1
        <5>1. t[i] = s[i - 1] /\ i - 1 \in 1 .. n /\ i - 1 < j - 1
          BY <2>0, <3>6, <3>8, <4>3
        <5> HIDE DEF t
        <5> QED BY <3>5, <4>1, <5>1 DEF Increasing
      <4> QED BY <4>2, <4>3
    <3>9. Increasing(t, n + 1)
      <4> HIDE DEF t
      <4> QED BY <3>8 DEF Increasing
    <3> HIDE DEF t
    <3> QED BY <3>7, <3>9
  <2> HIDE DEF Sorted
  <2> QED BY <2>0, <2>1
<1>3. T = Nat
  <2>1. T \in SUBSET Nat
    OBVIOUS
  <2> HIDE DEF T
  <2> QED BY <1>1, <1>2, <2>1, SetInduction
<1>4. Cardinality(ids) \in Nat
  BY FS_CardinalityType
<1> HIDE DEF Sorted
<1>5. Sorted(ids, Cardinality(ids))
  BY <1>3, <1>4
<1> QED BY <1>5 DEF Sorted

\* InOrder lists each element once.
LEMMA InOrderIs ==
  ASSUME NEW ids \in SUBSET Nat, IsFiniteSet(ids)
  PROVE  /\ Cardinality(ids) \in Nat
         /\ InOrder(ids) \in [1 .. Cardinality(ids) -> ids]
         /\ \A i, j \in 1 .. Cardinality(ids) : InOrder(ids)[i] = InOrder(ids)[j] => i = j
<1>1. Cardinality(ids) \in Nat
  BY FS_CardinalityType
<1>2. PICK n : n = Cardinality(ids)
  OBVIOUS
<1>3. PICK s \in [1 .. n -> ids] : Increasing(s, n)
  BY <1>2, OrderExists
<1>4. \A i, j \in DOMAIN s : i < j => s[i] < s[j]
  BY <1>3 DEF Increasing
<1>5. InOrder(ids) \in [1 .. n -> ids] /\ \A i, j \in DOMAIN InOrder(ids) : i < j => InOrder(ids)[i] < InOrder(ids)[j]
  BY <1>2, <1>3, <1>4 DEF InOrder
<1>6. PICK t \in [1 .. n -> ids] : t = InOrder(ids)
  BY <1>5
<1>7. ASSUME NEW i \in 1 .. n, NEW j \in 1 .. n, t[i] = t[j] PROVE i = j
  <2>0. t[i] \in Nat
    BY <1>6
  <2>1. ~(t[i] < t[j]) /\ ~(t[j] < t[i])
    BY <1>7, <2>0
  <2>2. ~(i < j) /\ ~(j < i)
    BY <1>5, <1>6, <2>1
  <2> QED BY <1>1, <1>2, <2>2
<1> QED BY <1>1, <1>2, <1>6, <1>7

\* A fetched payload has no new level.
Fresh(p) == Payload(p) /\ \A i \in 1 .. Len(p) : p[i].id # 0

\* A function over 1 .. n is a sequence.
LEMMA FunIsSeq ==
  ASSUME NEW S, NEW n \in Nat, NEW f \in [1 .. n -> S]
  PROVE  f \in Seq(S) /\ Len(f) = n
<1>1. f \in Seq(S)
  BY SeqDef
<1>2. Len(f) \in Nat /\ DOMAIN f = 1 .. Len(f) /\ DOMAIN f = 1 .. n
  BY <1>1, LenProperties
<1> QED BY <1>1, <1>2

\* The rows of a database can be listed in order.
LEMMA RowsInOrder ==
  ASSUME NEW d, Sound(d)
  PROVE  /\ \E n \in Nat : /\ InOrder(DOMAIN d.levels) \in [1 .. n -> DOMAIN d.levels]
                           /\ \A i, j \in 1 .. n : InOrder(DOMAIN d.levels)[i] = InOrder(DOMAIN d.levels)[j] => i = j
         /\ \A l : \E n \in Nat :
              /\ InOrder(ClassesOf(d, l)) \in [1 .. n -> ClassesOf(d, l)]
              /\ \A i, j \in 1 .. n : InOrder(ClassesOf(d, l))[i] = InOrder(ClassesOf(d, l))[j] => i = j
<1>0. d.next \in Nat /\ DOMAIN d.levels \subseteq 1 .. d.next - 1 /\ DOMAIN d.classes \subseteq 1 .. d.next - 1
  BY DEF Sound
<1>1. IsFiniteSet(1 .. d.next - 1)
  BY <1>0, FS_Interval
<1>2. IsFiniteSet(DOMAIN d.levels) /\ DOMAIN d.levels \in SUBSET Nat
  BY <1>0, <1>1, FS_Subset
<1>3. \A l : ClassesOf(d, l) \subseteq 1 .. d.next - 1
  BY <1>0 DEF ClassesOf
<1>4. \A l : ClassesOf(d, l) \in SUBSET Nat
  BY <1>0, <1>3
<1>5. \A l : IsFiniteSet(ClassesOf(d, l))
  BY <1>1, <1>3, FS_Subset
<1> QED BY <1>2, <1>4, <1>5, InOrderIs

\* The levels a client fetches are named once, and have no sections yet.
LEMMA FetchedLevelsFresh ==
  ASSUME NEW d, Sound(d)
  PROVE  Fresh(FetchedLevels(d))
<1> DEFINE ls == InOrder(DOMAIN d.levels)
           level(l) == [id |-> l, name |-> d.levels[l].name, active |-> d.levels[l].active,
                        sections |-> <<>>]
           p == [i \in DOMAIN ls |-> level(ls[i])]
<1>1. PICK n \in Nat : /\ ls \in [1 .. n -> DOMAIN d.levels]
                       /\ \A i, j \in 1 .. n : ls[i] = ls[j] => i = j
  BY RowsInOrder
<1>2. FetchedLevels(d) = p
  BY DEF FetchedLevels
<1> HIDE DEF ls
<1>3. ASSUME NEW l \in DOMAIN d.levels
      PROVE  level(l) \in Level /\ level(l).id = l /\ l # 0 /\ level(l).sections = <<>>
  <2>1. /\ l \in Nat /\ l # 0 /\ d.levels[l].name \in Grades /\ d.levels[l].active \in BOOLEAN
    BY DEF Sound
  <2>2. <<>> \in Seq(Section)
    OBVIOUS
  <2> QED BY <2>1, <2>2 DEF Level
<1> HIDE DEF level
<1>4. p \in [1 .. n -> Level] /\ \A i \in 1 .. n : p[i] = level(ls[i]) /\ ls[i] \in DOMAIN d.levels
  BY <1>1, <1>3
<1> HIDE DEF p
<1>5. p \in Seq(Level) /\ Len(p) = n
  BY <1>4, FunIsSeq
<1>6. \A i \in 1 .. n : p[i].id = ls[i] /\ p[i].id # 0 /\ p[i].sections = <<>>
  BY <1>3, <1>4
<1>7. \A i \in 1 .. Len(p) : Len(p[i].sections) = 0
  BY <1>5, <1>6
<1>8. Payload(p)
  BY <1>1, <1>5, <1>6, <1>7 DEF Payload
<1> QED BY <1>2, <1>5, <1>6, <1>8 DEF Fresh

\* The sections that are read for them are each under one of them.
LEMMA FetchedClassesFresh ==
  ASSUME NEW d, Sound(d), NEW o, Fresh(o)
  PROVE  Fresh(FetchedClasses(d, o))
<1> DEFINE section(c) == [id |-> c, name |-> d.classes[c].name]
           cs(l) == InOrder(ClassesOf(d, l))
           sections(l) == [j \in DOMAIN cs(l) |-> section(cs(l)[j])]
           p == [i \in DOMAIN o |-> [o[i] EXCEPT !.sections = sections(o[i].id)]]
<1>1. ASSUME NEW l
      PROVE  \E m \in Nat : /\ cs(l) \in [1 .. m -> ClassesOf(d, l)]
                            /\ \A i, j \in 1 .. m : cs(l)[i] = cs(l)[j] => i = j
  BY RowsInOrder
<1>2. FetchedClasses(d, o) = p
  BY DEF FetchedClasses
<1> HIDE DEF cs
<1>3. ASSUME NEW l
      PROVE  /\ sections(l) \in Seq(Section)
             /\ \A j \in 1 .. Len(sections(l)) :
                  sections(l)[j].id \in DOMAIN d.classes /\ d.classes[sections(l)[j].id].level = l
             /\ \A j, k \in 1 .. Len(sections(l)) : sections(l)[j].id = sections(l)[k].id => j = k
  <2>1. PICK m \in Nat : /\ cs(l) \in [1 .. m -> ClassesOf(d, l)]
                         /\ \A i, j \in 1 .. m : cs(l)[i] = cs(l)[j] => i = j
    BY <1>1
  <2>2. PICK c : c = cs(l)
    OBVIOUS
  <2> DEFINE ss == [j \in 1 .. m |-> [id |-> c[j], name |-> d.classes[c[j]].name]]
  <2>3. \A j \in 1 .. m : /\ c[j] \in Nat /\ c[j] \in DOMAIN d.classes /\ d.classes[c[j]].level = l
                          /\ d.classes[c[j]].name \in Sections
    <3>1. \A x \in ClassesOf(d, l) : x \in DOMAIN d.classes /\ d.classes[x].level = l
      BY DEF ClassesOf
    <3>2. \A x \in DOMAIN d.classes : x \in Nat /\ d.classes[x].name \in Sections
      BY DEF Sound
    <3> QED BY <2>1, <2>2, <3>1, <3>2
  <2>4. ss \in [1 .. m -> Section]
    BY <2>3 DEF Section
  <2>5. ss \in Seq(Section) /\ Len(ss) = m
    BY <2>4, FunIsSeq
  <2>6. sections(l) = ss
    BY <2>1, <2>2
  <2>9. \A j \in 1 .. m : ss[j].id = c[j]
    OBVIOUS
  <2> HIDE DEF ss, sections
  <2>10. /\ \A j \in 1 .. m : ss[j].id \in DOMAIN d.classes /\ d.classes[ss[j].id].level = l
         /\ \A j, k \in 1 .. m : ss[j].id = ss[k].id => j = k
    BY <2>1, <2>2, <2>3, <2>9
  <2> QED BY <2>5, <2>6, <2>10
<1> HIDE DEF sections
<1>4. /\ o \in Seq(Level) /\ Len(o) \in Nat /\ DOMAIN o = 1 .. Len(o)
      /\ \A i \in 1 .. Len(o) : o[i] \in Level /\ o[i].id # 0
      /\ \A i, k \in 1 .. Len(o) : o[i].id = o[k].id => i = k
  BY PayloadParts DEF Fresh, Payload
<1>5. PICK n \in Nat : n = Len(o)
  BY <1>4
<1>6. ASSUME NEW i \in 1 .. n
      PROVE  p[i] \in Level /\ p[i].id = o[i].id /\ p[i].sections = sections(o[i].id)
  <2>1. o[i] \in Level /\ sections(o[i].id) \in Seq(Section)
    BY <1>3, <1>4, <1>5
  <2>2. p[i] = [o[i] EXCEPT !.sections = sections(o[i].id)]
    BY <1>4, <1>5
  <2> HIDE DEF p
  <2> QED BY <2>1, <2>2 DEF Level
<1>7. p \in [1 .. n -> Level]
  BY <1>4, <1>5, <1>6
<1> HIDE DEF p
<1>8. p \in Seq(Level) /\ Len(p) = n
  BY <1>7, FunIsSeq
<1>9. ASSUME NEW i \in 1 .. n, NEW k \in 1 .. n, NEW j \in 1 .. Len(p[i].sections),
             NEW m \in 1 .. Len(p[k].sections), p[i].sections[j].id = p[k].sections[m].id
      PROVE  i = k /\ j = m
  <2>1. d.classes[p[i].sections[j].id].level = o[i].id
    BY <1>3, <1>6
  <2>2. d.classes[p[k].sections[m].id].level = o[k].id
    BY <1>3, <1>6
  <2>3. i = k
    BY <1>4, <1>5, <1>9, <2>1, <2>2
  <2>4. j = m
    BY <1>3, <1>6, <1>9, <2>3
  <2> QED BY <2>3, <2>4
<1>10. /\ \A i \in 1 .. n : p[i].id # 0
       /\ \A i, k \in 1 .. n : p[i].id = p[k].id => i = k
  BY <1>4, <1>5, <1>6
<1>11. Payload(p)
  BY <1>8, <1>9, <1>10 DEF Payload
<1> QED BY <1>2, <1>8, <1>10, <1>11 DEF Fresh

-------------------------------------------------------------------------------
(* What a client may make of it before it posts it back.                       *)

\* A sequence of sections without the one at j, and with one more.
LEMMA Without ==
  ASSUME NEW S, NEW s \in Seq(S), NEW j \in 1 .. Len(s), NEW t, t = RemoveAt(s, j)
  PROVE  /\ t \in Seq(S) /\ Len(t) = Len(s) - 1 /\ Len(s) \in Nat
         /\ \A m \in 1 .. Len(t) : t[m] = IF m < j THEN s[m] ELSE s[m + 1]
<1>1. Len(s) \in Nat /\ \A m \in 1 .. Len(s) : s[m] \in S
  BY LenProperties, ElementOfSeq
<1> DEFINE a == SubSeq(s, 1, j - 1)
           b == SubSeq(s, j + 1, Len(s))
<1>2. a \in Seq(S) /\ Len(a) = j - 1 /\ \A m \in 1 .. j - 1 : a[m] = s[m]
  <2>1. \A m \in 1 .. j - 1 : s[m] \in S
    BY <1>1
  <2>2. /\ a \in Seq(S) /\ Len(a) = IF 1 <= j - 1 THEN (j - 1) - 1 + 1 ELSE 0
        /\ \A m \in 1 .. (j - 1) - 1 + 1 : a[m] = s[1 + m - 1]
    <3>1. 1 \in Int /\ j - 1 \in Int
      BY <1>1
    <3> QED BY <2>1, <3>1, SubSeqProperties
  <2> HIDE DEF a
  <2> QED BY <1>1, <2>2
<1>3. b \in Seq(S) /\ Len(b) = Len(s) - j /\ \A m \in 1 .. Len(s) - j : b[m] = s[j + m]
  <2>1. \A m \in j + 1 .. Len(s) : s[m] \in S
    BY <1>1
  <2>2. /\ b \in Seq(S) /\ Len(b) = IF j + 1 <= Len(s) THEN Len(s) - (j + 1) + 1 ELSE 0
        /\ \A m \in 1 .. Len(s) - (j + 1) + 1 : b[m] = s[(j + 1) + m - 1]
    <3>1. j + 1 \in Int /\ Len(s) \in Int
      BY <1>1
    <3> QED BY <2>1, <3>1, SubSeqProperties
  <2> HIDE DEF b
  <2> QED BY <1>1, <2>2
<1>4. t = a \o b
  BY DEF RemoveAt
<1> HIDE DEF a, b
<1>5. /\ t \in Seq(S) /\ Len(t) = Len(a) + Len(b)
      /\ \A m \in 1 .. Len(a) + Len(b) : t[m] = IF m <= Len(a) THEN a[m] ELSE b[m - Len(a)]
  <2>1. /\ a \o b \in Seq(S) /\ Len(a \o b) = Len(a) + Len(b)
        /\ \A m \in 1 .. Len(a) + Len(b) : (a \o b)[m] = IF m <= Len(a) THEN a[m] ELSE b[m - Len(a)]
    BY ONLY <1>2, <1>3, ConcatProperties, Zenon
  <2> QED BY ONLY <1>4, <2>1, Zenon
<1>6. Len(t) = Len(s) - 1
  BY <1>1, <1>2, <1>3, <1>5
<1>7. ASSUME NEW m \in 1 .. Len(t) PROVE t[m] = IF m < j THEN s[m] ELSE s[m + 1]
  <2>1. m \in 1 .. Len(a) + Len(b)
    BY <1>5, <1>6
  <2>2. CASE m < j
    <3>1. m <= Len(a) /\ m \in 1 .. j - 1
      BY <1>1, <1>2, <2>2
    <3> QED BY <1>2, <1>5, <2>1, <2>2, <3>1
  <2>3. CASE ~(m < j)
    <3>1. ~(m <= Len(a)) /\ m - Len(a) \in 1 .. Len(s) - j /\ j + (m - Len(a)) = m + 1
      BY <1>1, <1>2, <1>6, <2>3
    <3> QED BY <1>3, <1>5, <2>1, <2>3, <3>1
  <2> QED BY <2>2, <2>3
<1> QED BY <1>1, <1>5, <1>6, <1>7

LEMMA WithOneMore ==
  ASSUME NEW S, NEW s \in Seq(S), NEW v \in S, NEW t, t = Append(s, v)
  PROVE  /\ t \in Seq(S) /\ Len(t) = Len(s) + 1 /\ Len(s) \in Nat
         /\ t[Len(s) + 1] = v /\ \A m \in 1 .. Len(s) : t[m] = s[m]
<1>1. Len(s) \in Nat
  BY LenProperties
<1> QED BY <1>1, AppendProperties

\* No section is twice in ss; none of ss is in a level of p other than i.
Distinct(ss) == \A j, m \in 1 .. Len(ss) : ss[j].id = ss[m].id /\ ss[j].id # 0 => j = m
Apart(ss, p, i) ==
  \A j \in 1 .. Len(ss), k \in (1 .. Len(p)) \ {i} : \A m \in 1 .. Len(p[k].sections) :
    ss[j].id # 0 => ss[j].id # p[k].sections[m].id

\* An old section of that id is in no level of p.
Nowhere(p, id) ==
  id # 0 => \A k \in 1 .. Len(p) : \A m \in 1 .. Len(p[k].sections) : p[k].sections[m].id # id

\* Level i of p is given the sections ss.
LEMMA Resection ==
  ASSUME NEW p, Fresh(p), NEW i \in 1 .. Len(p), NEW ss \in Seq(Section), NEW q,
         q = Resect(p, i, ss), Distinct(ss), Apart(ss, p, i)
  PROVE  /\ Fresh(q) /\ Len(q) = Len(p) /\ q[i].sections = ss
         /\ \A k \in 1 .. Len(p) : k # i => q[k] = p[k]
<1>1. p \in Seq(Level) /\ Len(p) \in Nat /\ DOMAIN p = 1 .. Len(p) /\ p[i] \in Level
  BY PayloadParts DEF Fresh, Payload
<1>2. PICK e : e = [p[i] EXCEPT !.sections = ss]
  OBVIOUS
<1>3. e \in Level /\ e.id = p[i].id /\ e.sections = ss
  BY <1>1, <1>2 DEF Level
<1>4. q = [p EXCEPT ![i] = e]
  BY <1>1, <1>2 DEF Resect
<1>5. /\ q \in Seq(Level) /\ Len(q) = Len(p)
      /\ \A k \in 1 .. Len(p) : q[k] = IF k = i THEN e ELSE p[k]
  BY <1>1, <1>3, <1>4, ExceptSeq
<1>6. \A k \in 1 .. Len(p) : q[k].id = p[k].id /\ q[k].id # 0
  BY <1>3, <1>5 DEF Fresh
<1>7. \A k, m \in 1 .. Len(p) : q[k].id = q[m].id => k = m
  BY <1>6 DEF Fresh, Payload
<1>8. Len(q) = Len(p)
  BY <1>5
<1>9. \A k, n \in 1 .. Len(q) :
        \A j \in 1 .. Len(q[k].sections), m \in 1 .. Len(q[n].sections) :
          q[k].sections[j].id = q[n].sections[m].id /\ q[k].sections[j].id # 0 => k = n /\ j = m
  <2> TAKE k, n \in 1 .. Len(q)
  <2> TAKE j \in 1 .. Len(q[k].sections), m \in 1 .. Len(q[n].sections)
  <2>1. HAVE q[k].sections[j].id = q[n].sections[m].id /\ q[k].sections[j].id # 0
  <2>2. k \in 1 .. Len(p) /\ n \in 1 .. Len(p)
    BY <1>8
  <2>3. CASE k = i /\ n = i
    <3>1. q[k].sections = ss /\ q[n].sections = ss
      BY <1>3, <1>5, <2>2, <2>3
    <3> QED BY <2>1, <2>3, <3>1 DEF Distinct
  <2>4. CASE k = i /\ n # i
    <3>1. q[k].sections = ss /\ q[n] = p[n]
      BY <1>3, <1>5, <2>2, <2>4
    <3> QED BY <2>1, <2>2, <2>4, <3>1 DEF Apart
  <2>5. CASE k # i /\ n = i
    <3>1. q[n].sections = ss /\ q[k] = p[k]
      BY <1>3, <1>5, <2>2, <2>5
    <3> QED BY <2>1, <2>2, <2>5, <3>1 DEF Apart
  <2>6. CASE k # i /\ n # i
    <3>1. q[n] = p[n] /\ q[k] = p[k]
      BY <1>5, <2>2, <2>6
    <3>2. \A x \in 1 .. Len(p[k].sections), y \in 1 .. Len(p[n].sections) :
            p[k].sections[x].id = p[n].sections[y].id /\ p[k].sections[x].id # 0 => k = n /\ x = y
      BY <2>2 DEF Fresh, Payload
    <3> QED BY <2>1, <3>1, <3>2
  <2> QED BY <2>3, <2>4, <2>5, <2>6
<1>10. \A k \in 1 .. Len(q) : q[k].id = 0 => \A j \in 1 .. Len(q[k].sections) : q[k].sections[j].id = 0
  BY <1>5, <1>6
<1>11. \A k, m \in 1 .. Len(q) : q[k].id = q[m].id /\ q[k].id # 0 => k = m
  BY <1>5, <1>7
<1>12. Payload(q)
  BY ONLY <1>5, <1>9, <1>10, <1>11 DEF Payload
<1> QED BY <1>3, <1>5, <1>6, <1>12 DEF Fresh

\* A fetched structure, part by part.
LEMMA FreshParts ==
  ASSUME NEW p, Fresh(p), NEW i \in 1 .. Len(p)
  PROVE  /\ i \in DOMAIN p /\ p[i] \in Level /\ p[i].sections \in Seq(Section) /\ Len(p[i].sections) \in Nat
         /\ \A j \in 1 .. Len(p[i].sections) : p[i].sections[j] \in Section
         /\ Distinct(p[i].sections) /\ Apart(p[i].sections, p, i)
<1>1. /\ i \in DOMAIN p /\ p[i] \in Level /\ p[i].sections \in Seq(Section) /\ Len(p[i].sections) \in Nat
  BY PayloadParts DEF Fresh, Level
<1>2. \A j \in 1 .. Len(p[i].sections) : p[i].sections[j] \in Section
  BY <1>1, ElementOfSeq
<1> QED BY <1>1, <1>2 DEF Fresh, Payload, Distinct, Apart

\* One more section at the end of level i, a new one or one that is nowhere in p.
LEMMA AddSection ==
  ASSUME NEW p, Fresh(p), NEW i \in 1 .. Len(p), NEW v \in Section, NEW q,
         q = Added(p, i, v), Nowhere(p, v.id)
  PROVE  Fresh(q)
<1>1. /\ i \in DOMAIN p /\ p[i].sections \in Seq(Section) /\ Len(p[i].sections) \in Nat
      /\ Distinct(p[i].sections) /\ Apart(p[i].sections, p, i)
  BY FreshParts
<1>2. PICK s, ss : s = p[i].sections /\ ss = Append(s, v)
  OBVIOUS
<1>3. /\ ss \in Seq(Section) /\ Len(ss) = Len(s) + 1
      /\ ss[Len(s) + 1] = v /\ \A m \in 1 .. Len(s) : ss[m] = s[m]
  BY <1>1, <1>2, WithOneMore
<1>4. q = Resect(p, i, ss)
  BY <1>2 DEF Added
<1>5. \A j \in 1 .. Len(ss) : j \in 1 .. Len(s) \/ j = Len(s) + 1
  BY <1>1, <1>2, <1>3
<1>6. ASSUME NEW j \in 1 .. Len(ss), NEW m \in 1 .. Len(ss), ss[j].id = ss[m].id, ss[j].id # 0 PROVE j = m
  <2>1. CASE j = Len(s) + 1 /\ m = Len(s) + 1
    BY <2>1
  <2>2. CASE j \in 1 .. Len(s) /\ m \in 1 .. Len(s)
    BY <1>1, <1>2, <1>3, <1>6, <2>2 DEF Distinct
  <2>3. CASE j = Len(s) + 1 /\ m \in 1 .. Len(s)
    BY <1>2, <1>3, <1>6, <2>3 DEF Nowhere
  <2>4. CASE m = Len(s) + 1 /\ j \in 1 .. Len(s)
    BY <1>2, <1>3, <1>6, <2>4 DEF Nowhere
  <2> QED BY <1>5, <2>1, <2>2, <2>3, <2>4
<1>7. ASSUME NEW j \in 1 .. Len(ss), NEW k \in (1 .. Len(p)) \ {i}, NEW m \in 1 .. Len(p[k].sections), ss[j].id # 0
      PROVE  ss[j].id # p[k].sections[m].id
  <2>1. CASE j = Len(s) + 1
    BY <1>3, <1>7, <2>1 DEF Nowhere
  <2>2. CASE j \in 1 .. Len(s)
    BY <1>1, <1>2, <1>3, <1>7, <2>2 DEF Apart
  <2> QED BY <1>5, <2>1, <2>2
<1>8. Distinct(ss) /\ Apart(ss, p, i)
  BY <1>6, <1>7 DEF Distinct, Apart
<1> QED BY <1>3, <1>4, <1>8, Resection

\* The client leaves a section out.
LEMMA RemoveSection ==
  ASSUME NEW p, Fresh(p), NEW i \in 1 .. Len(p), NEW j \in 1 .. Len(p[i].sections), NEW q,
         q = Removed(p, i, j)
  PROVE  Fresh(q) /\ Len(q) = Len(p) /\ Nowhere(q, p[i].sections[j].id)
<1>1. /\ i \in DOMAIN p /\ p[i].sections \in Seq(Section) /\ Len(p[i].sections) \in Nat
      /\ Distinct(p[i].sections) /\ Apart(p[i].sections, p, i)
  BY FreshParts
<1>2. PICK s, ss : s = p[i].sections /\ ss = RemoveAt(s, j)
  OBVIOUS
<1>3. /\ ss \in Seq(Section) /\ Len(ss) = Len(s) - 1
      /\ \A m \in 1 .. Len(ss) : ss[m] = IF m < j THEN s[m] ELSE s[m + 1]
  BY <1>1, <1>2, Without
<1>4. q = Resect(p, i, ss)
  BY <1>2 DEF Removed
<1> DEFINE at(m) == IF m < j THEN m ELSE m + 1
<1>5. \A m \in 1 .. Len(ss) : at(m) \in 1 .. Len(s) /\ at(m) # j /\ ss[m] = s[at(m)]
  BY <1>1, <1>2, <1>3
<1>10. \A a, m \in 1 .. Len(ss) : at(a) = at(m) => a = m
  BY <1>1, <1>2, <1>3
<1> HIDE DEF at
<1>6. ASSUME NEW a \in 1 .. Len(ss), NEW m \in 1 .. Len(ss), ss[a].id = ss[m].id, ss[a].id # 0 PROVE a = m
  <2>1. at(a) = at(m)
    <3>1. /\ at(a) \in 1 .. Len(s) /\ at(m) \in 1 .. Len(s)
          /\ s[at(a)].id = s[at(m)].id /\ s[at(a)].id # 0
      BY <1>5, <1>6
    <3> QED BY <1>1, <1>2, <3>1 DEF Distinct
  <2> QED BY <1>10, <2>1
<1>7. ASSUME NEW a \in 1 .. Len(ss), NEW k \in (1 .. Len(p)) \ {i}, NEW m \in 1 .. Len(p[k].sections), ss[a].id # 0
      PROVE  ss[a].id # p[k].sections[m].id
  <2>1. at(a) \in 1 .. Len(p[i].sections) /\ ss[a] = p[i].sections[at(a)]
    BY <1>2, <1>5
  <2> QED BY <1>1, <1>7, <2>1 DEF Apart
<1>11. Distinct(ss) /\ Apart(ss, p, i)
  BY <1>6, <1>7 DEF Distinct, Apart
<1>8. /\ Fresh(q) /\ Len(q) = Len(p) /\ q[i].sections = ss
      /\ \A k \in 1 .. Len(p) : k # i => q[k] = p[k]
  <2>1. ss \in Seq(Section)
    BY <1>3
  <2> QED BY <1>4, <1>11, <2>1, Resection
<1>9. ASSUME p[i].sections[j].id # 0, NEW k \in 1 .. Len(q), NEW m \in 1 .. Len(q[k].sections)
      PROVE  q[k].sections[m].id # p[i].sections[j].id
  <2>1. CASE k # i
    <3>1. q[k] = p[k] /\ k \in (1 .. Len(p)) \ {i}
      BY <1>8, <2>1
    <3> QED BY <1>1, <1>9, <3>1 DEF Apart
  <2>2. CASE k = i
    <3>1. m \in 1 .. Len(ss) /\ q[k].sections[m] = ss[m]
      BY <1>8, <2>2
    <3>2. s[at(m)].id # s[j].id
      BY <1>1, <1>2, <1>5, <1>9, <3>1 DEF Distinct
    <3> QED BY <1>2, <1>5, <3>1, <3>2
  <2> QED BY <2>1, <2>2
<1> QED BY <1>8, <1>9 DEF Nowhere

\* The client renames a section.
LEMMA RenameSection ==
  ASSUME NEW p, Fresh(p), NEW i \in 1 .. Len(p), NEW j \in 1 .. Len(p[i].sections), NEW n \in Sections, NEW q,
         q = Renamed(p, i, j, n)
  PROVE  Fresh(q)
<1>1. /\ i \in DOMAIN p /\ p[i] \in Level /\ p[i].sections \in Seq(Section) /\ Len(p[i].sections) \in Nat
      /\ p[i].sections[j] \in Section
      /\ Distinct(p[i].sections) /\ Apart(p[i].sections, p, i)
  BY FreshParts
<1>2. PICK s, e, ss : s = p[i].sections /\ e = [s[j] EXCEPT !.name = n] /\ ss = [s EXCEPT ![j] = e]
  OBVIOUS
<1>3. e \in Section /\ e.id = s[j].id
  BY <1>1, <1>2 DEF Section
<1>4. /\ ss \in Seq(Section) /\ Len(ss) = Len(s)
      /\ \A m \in 1 .. Len(s) : ss[m] = IF m = j THEN e ELSE s[m]
  BY <1>1, <1>2, <1>3, ExceptSeq
<1>5. q = Resect(p, i, ss)
  <2>1. ss = [s EXCEPT ![j].name = n]
    BY <1>1, <1>2
  <2> QED BY <1>2, <2>1 DEF Renamed
<1>6. \A m \in 1 .. Len(s) : ss[m].id = s[m].id
  BY <1>3, <1>4
<1>7. Distinct(ss)
  BY <1>1, <1>2, <1>4, <1>6 DEF Distinct
<1>8. Apart(ss, p, i)
  BY <1>1, <1>2, <1>4, <1>6 DEF Apart
<1> QED BY <1>4, <1>5, <1>7, <1>8, Resection

\* The client switches a level on or off.
LEMMA ToggleActive ==
  ASSUME NEW p, Fresh(p), NEW i \in 1 .. Len(p), NEW q, q = Toggled(p, i)
  PROVE  Payload(q)
<1>1. p \in Seq(Level) /\ Len(p) \in Nat /\ DOMAIN p = 1 .. Len(p) /\ p[i] \in Level
  BY PayloadParts DEF Fresh, Payload
<1>2. PICK e : e = [p[i] EXCEPT !.active = ~p[i].active]
  OBVIOUS
<1>3. e \in Level /\ e.id = p[i].id /\ e.sections = p[i].sections
  BY <1>1, <1>2 DEF Level
<1>4. q = [p EXCEPT ![i] = e]
  BY <1>1, <1>2 DEF Toggled
<1>5. /\ q \in Seq(Level) /\ Len(q) = Len(p)
      /\ \A k \in 1 .. Len(p) : q[k] = IF k = i THEN e ELSE p[k]
  BY <1>1, <1>3, <1>4, ExceptSeq
<1>6. \A k \in 1 .. Len(p) : q[k].id = p[k].id /\ q[k].sections = p[k].sections
  BY <1>3, <1>5
<1>7. q \in Seq(Level) /\ Len(q) = Len(p)
  BY <1>5
<1>8. Payload(p)
  BY DEF Fresh
<1>9. \A k, n \in 1 .. Len(q) :
        \A j \in 1 .. Len(q[k].sections), m \in 1 .. Len(q[n].sections) :
          q[k].sections[j].id = q[n].sections[m].id /\ q[k].sections[j].id # 0 => k = n /\ j = m
  <2> SUFFICES ASSUME NEW k \in 1 .. Len(q), NEW n \in 1 .. Len(q)
               PROVE  \A j \in 1 .. Len(q[k].sections), m \in 1 .. Len(q[n].sections) :
                        q[k].sections[j].id = q[n].sections[m].id /\ q[k].sections[j].id # 0
                          => k = n /\ j = m
    OBVIOUS
  <2>1. k \in 1 .. Len(p) /\ n \in 1 .. Len(p)
    BY <1>7
  <2>2. \A j \in 1 .. Len(p[k].sections), m \in 1 .. Len(p[n].sections) :
          p[k].sections[j].id = p[n].sections[m].id /\ p[k].sections[j].id # 0 => k = n /\ j = m
    BY ONLY <1>8, <2>1 DEF Payload
  <2>3. q[k].sections = p[k].sections /\ q[n].sections = p[n].sections
    BY <1>6, <2>1
  <2> QED BY ONLY <2>2, <2>3
<1>10. \A k \in 1 .. Len(q) : q[k].id = 0 => \A j \in 1 .. Len(q[k].sections) : q[k].sections[j].id = 0
  <2> SUFFICES ASSUME NEW k \in 1 .. Len(q)
               PROVE  q[k].id = 0 => \A j \in 1 .. Len(q[k].sections) : q[k].sections[j].id = 0
    OBVIOUS
  <2>1. k \in 1 .. Len(p)
    BY <1>7
  <2>2. p[k].id = 0 => \A j \in 1 .. Len(p[k].sections) : p[k].sections[j].id = 0
    BY ONLY <1>8, <2>1 DEF Payload
  <2>3. q[k].id = p[k].id /\ q[k].sections = p[k].sections
    BY <1>6, <2>1
  <2> QED BY ONLY <2>2, <2>3
<1>11. \A k, n \in 1 .. Len(q) : q[k].id = q[n].id /\ q[k].id # 0 => k = n
  <2> SUFFICES ASSUME NEW k \in 1 .. Len(q), NEW n \in 1 .. Len(q), q[k].id = q[n].id, q[k].id # 0
               PROVE  k = n
    OBVIOUS
  <2>1. k \in 1 .. Len(p) /\ n \in 1 .. Len(p)
    BY <1>7
  <2>2. q[k].id = p[k].id /\ q[n].id = p[n].id
    BY <1>6, <2>1
  <2> QED BY <1>8, <2>1, <2>2 DEF Payload
<1> QED BY ONLY <1>7, <1>9, <1>10, <1>11 DEF Payload

\* The client adds a level.
LEMMA AddLevel ==
  ASSUME NEW p, Fresh(p), NEW g \in Grades, NEW n \in Sections, NEW q,
         q = Append(p, NewLevel(g, n))
  PROVE  Payload(q)
<1>1. p \in Seq(Level) /\ Len(p) \in Nat
  BY PayloadParts DEF Fresh, Payload
<1>2. PICK v : v = NewLevel(g, n) /\ v = [id |-> 0, name |-> g, active |-> TRUE, sections |-> <<NewSection(n)>>]
  BY DEF NewLevel
<1>3. NewSection(n) \in Section /\ NewSection(n).id = 0
  BY DEF NewSection, Section
<1>4. v.sections \in Seq(Section) /\ Len(v.sections) = 1 /\ v.sections[1].id = 0
  BY <1>2, <1>3
<1>5. v \in Level /\ v.id = 0
  BY <1>2, <1>4 DEF Level
<1>6. \A m \in 1 .. Len(v.sections) : v.sections[m].id = 0
  BY <1>4
<1>7. /\ q \in Seq(Level) /\ Len(q) = Len(p) + 1
      /\ q[Len(p) + 1] = v /\ \A k \in 1 .. Len(p) : q[k] = p[k]
  BY <1>1, <1>2, <1>5, WithOneMore
<1>8. \A k \in 1 .. Len(q) : k \in 1 .. Len(p) \/ k = Len(p) + 1
  BY <1>1, <1>7
<1>9. \A i, k \in 1 .. Len(q) : q[i].id = q[k].id /\ q[i].id # 0 => i = k
  BY <1>5, <1>7, <1>8 DEF Fresh, Payload
<1>10. \A i \in 1 .. Len(q) : q[i].id = 0 => \A j \in 1 .. Len(q[i].sections) : q[i].sections[j].id = 0
  BY <1>6, <1>7, <1>8 DEF Fresh, Payload
<1>11. \A i, k \in 1 .. Len(q) :
         \A j \in 1 .. Len(q[i].sections), m \in 1 .. Len(q[k].sections) :
           q[i].sections[j].id = q[k].sections[m].id /\ q[i].sections[j].id # 0 => i = k /\ j = m
  <2> TAKE i, k \in 1 .. Len(q)
  <2> TAKE j \in 1 .. Len(q[i].sections), m \in 1 .. Len(q[k].sections)
  <2>1. HAVE q[i].sections[j].id = q[k].sections[m].id /\ q[i].sections[j].id # 0
  <2>2. i \in 1 .. Len(p) /\ k \in 1 .. Len(p)
    BY <1>6, <1>7, <1>8, <2>1
  <2>3. q[i] = p[i] /\ q[k] = p[k]
    BY <1>7, <2>2
  <2>4. \A x \in 1 .. Len(p[i].sections), y \in 1 .. Len(p[k].sections) :
          p[i].sections[x].id = p[k].sections[y].id /\ p[i].sections[x].id # 0 => i = k /\ x = y
    BY <2>2 DEF Fresh, Payload
  <2> QED BY <2>1, <2>3, <2>4
<1>12. q \in Seq(Level)
  BY <1>7
<1> QED BY ONLY <1>9, <1>10, <1>11, <1>12 DEF Payload

\* The client moves a section to another level.
LEMMA MoveSection ==
  ASSUME NEW p, Fresh(p), NEW i \in 1 .. Len(p), NEW j \in 1 .. Len(p[i].sections), NEW k \in 1 .. Len(p)
  PROVE  Fresh(Added(Removed(p, i, j), k, p[i].sections[j]))
<1>1. PICK v, q : v = p[i].sections[j] /\ q = Removed(p, i, j)
  OBVIOUS
<1>2. v \in Section
  BY <1>1, FreshParts
<1>3. Fresh(q) /\ Len(q) = Len(p) /\ Nowhere(q, v.id)
  BY <1>1, RemoveSection
<1>4. Fresh(Added(q, k, v))
  BY <1>2, <1>3, AddSection
<1> QED BY <1>1, <1>4

(* Every edit of a freshly fetched structure is a payload: each level and    *)
(* each section has one place in it.                                        *)
LEMMA EditsArePayloads ==
  ASSUME NEW p, Fresh(p), NEW e \in Edits(p)
  PROVE  Payload(e)
<1>1. DOMAIN p = 1 .. Len(p) /\ \A i \in 1 .. Len(p) : DOMAIN p[i].sections = 1 .. Len(p[i].sections)
  BY PayloadParts DEF Fresh
<1>2. ASSUME NEW i \in DOMAIN p, NEW j \in DOMAIN p[i].sections, NEW x \in SectionEdits(p, i, j)
      PROVE  Fresh(x)
  <2>1. i \in 1 .. Len(p) /\ j \in 1 .. Len(p[i].sections)
    BY <1>1
  <2>2. Fresh(Removed(p, i, j))
    BY <2>1, RemoveSection
  <2>3. \A k \in DOMAIN p : Fresh(Added(Removed(p, i, j), k, p[i].sections[j]))
    BY <1>1, <2>1, MoveSection
  <2>4. \A n \in Sections : Fresh(Renamed(p, i, j, n))
    BY <2>1, RenameSection
  <2> QED BY <2>2, <2>3, <2>4 DEF SectionEdits
<1>3. ASSUME NEW i \in DOMAIN p, NEW x \in LevelEdits(p, i)
      PROVE  Payload(x)
  <2>1. Payload(Toggled(p, i))
    BY <1>1, ToggleActive
  <2>2. \A n \in Sections : NewSection(n) \in Section /\ Nowhere(p, NewSection(n).id)
    BY DEF NewSection, Section, Nowhere
  <2>3. \A n \in Sections : Fresh(Added(p, i, NewSection(n)))
    BY <1>1, <2>2, AddSection
  <2>4. \/ x = Toggled(p, i) \/ \E n \in Sections : x = Added(p, i, NewSection(n))
        \/ \E j \in DOMAIN p[i].sections : x \in SectionEdits(p, i, j)
    BY DEF LevelEdits
  <2> QED BY <1>2, <2>1, <2>3, <2>4 DEF Fresh
<1>4. \A g \in Grades, n \in Sections : Payload(Append(p, NewLevel(g, n)))
  BY AddLevel
<1>5. \/ e = p \/ \E g \in Grades, n \in Sections : e = Append(p, NewLevel(g, n))
      \/ \E i \in DOMAIN p : e \in LevelEdits(p, i)
  BY DEF Edits
<1> QED BY <1>3, <1>4, <1>5 DEF Fresh

-------------------------------------------------------------------------------
(* The other writers of the structure.                                         *)

\* delete_class leaves the database sound.
LEMMA DeleteClassSound ==
  ASSUME NEW d, Sound(d), NEW c, NEW x, x = DeleteClass(d, c)
  PROVE  /\ Sound(x) /\ x.ok = d.ok /\ x.kept = d.kept /\ x.enrolled \subseteq d.enrolled
         /\ DOMAIN x.classes = DOMAIN d.classes \ {c}
<1>1. PICK cs : cs = {c}
  OBVIOUS
<1>2. x = RemoveClasses(d, cs)
  BY <1>1 DEF DeleteClass
<1> QED BY <1>1, <1>2, RemoveClassesSound

\* delete_level leaves the database sound.
LEMMA DeleteLevelSound ==
  ASSUME NEW d, Sound(d), NEW l, NEW read, NEW x, x = DeleteLevel(d, l, read)
  PROVE  /\ Sound(x) /\ x.kept = d.kept /\ x.enrolled \subseteq d.enrolled
         /\ DOMAIN x.classes = DOMAIN d.classes \ ClassesOf(d, l)
<1>1. PICK cs, held : cs = ClassesOf(d, l) /\ held = {s \in Students : d.placed[s] \in cs \ read}
  OBVIOUS
<1>2. PICK w : w = RemoveClasses(d, cs)
  OBVIOUS
<1>3. /\ Sound(w) /\ w.levels = d.levels /\ w.enrolled \subseteq d.enrolled
      /\ DOMAIN w.classes = DOMAIN d.classes \ cs
      /\ \A c \in DOMAIN w.classes : w.classes[c] = d.classes[c]
      /\ w.ok = d.ok /\ w.kept = d.kept
  BY <1>2, RemoveClassesSound
<1>4. x = [w EXCEPT !.levels = Drop(@, {l}), !.ok = @ /\ held = {}]
  BY <1>1, <1>2 DEF DeleteLevel
<1>5. /\ DOMAIN x = DbFields /\ x.classes = w.classes /\ x.levels = Drop(d.levels, {l})
      /\ x.placed = w.placed /\ x.enrolled = w.enrolled /\ x.next = w.next /\ x.kept = w.kept
      /\ x.ok = (d.ok /\ held = {})
  BY <1>3, <1>4 DEF Sound, DbFields
<1>6. /\ DOMAIN x.levels = DOMAIN d.levels \ {l}
      /\ \A m \in DOMAIN x.levels : x.levels[m] = d.levels[m]
  BY <1>5 DEF Drop
<1>7. \A c \in DOMAIN x.classes : x.classes[c] \in [name : Sections, level : DOMAIN x.levels]
  <2>1. \A c \in DOMAIN x.classes : d.classes[c].level # l
    BY <1>1, <1>3, <1>5 DEF ClassesOf
  <2>2. \A c \in DOMAIN x.classes : x.classes[c] \in [name : Sections, level : DOMAIN d.levels]
    BY <1>3, <1>5 DEF Sound
  <2>3. \A c \in DOMAIN x.classes : x.classes[c].level = d.classes[c].level
    BY <1>3, <1>5
  <2> QED BY <1>6, <2>1, <2>2, <2>3
<1>8. x.ok \in BOOLEAN /\ (x.ok => w.ok)
  BY <1>3, <1>5 DEF Sound
<1>9. Sound(x)
  <2>1. x.ok => \A a, b \in DOMAIN x.classes : x.classes[a].name = x.classes[b].name => a = b
    BY <1>3, <1>5, <1>8 DEF Sound
  <2>2. \A m \in DOMAIN x.levels : x.levels[m] \in [name : Grades, active : BOOLEAN]
    BY <1>6 DEF Sound
  <2>3. /\ x.next \in Nat \ {0} /\ DOMAIN x.levels \subseteq 1 .. x.next - 1
        /\ DOMAIN x.classes \subseteq 1 .. x.next - 1
        /\ DOMAIN x.placed = Students /\ \A s \in Students : x.placed[s] \in DOMAIN x.classes \cup {0}
    BY <1>3, <1>5, <1>6 DEF Sound
  <2> QED BY <1>5, <1>7, <1>8, <2>1, <2>2, <2>3 DEF Sound
<1> QED BY <1>1, <1>3, <1>5, <1>9

\* upsert_class_by_name_and_level, whatever class it found.
LEMMA UpsertClassSound ==
  ASSUME NEW d, Sound(d), d.ok, d.kept = {}, NEW c, NEW name \in Sections, NEW l, NEW x,
         x = UpsertClass(d, c, name, l),
         x.ok, x.classes = d.classes \/ l \in DOMAIN d.levels
  PROVE  Sound(x) /\ x.kept = {} /\ x.enrolled = d.enrolled /\ DOMAIN d.classes \subseteq DOMAIN x.classes
<1>1. CASE x = d
  BY <1>1
<1>2. 0 \notin DOMAIN d.classes /\ d.next \notin DOMAIN d.classes /\ DOMAIN d = DbFields
  BY DEF Sound
<1>3. CASE c = 0
  <2>1. x = InsertClass(d, name, l)
    BY <1>2, <1>3 DEF UpsertClass
  <2>2. PICK w : w = WriteClass(d, d.next, name, l)
    OBVIOUS
  <2>3. DOMAIN w = DbFields /\ w.classes = Put(d.classes, d.next, [name |-> name, level |-> l]) /\ w.kept = d.kept
    BY <1>2, <2>2, WriteClassIs
  <2>4. x.classes = w.classes /\ x.kept = w.kept
    BY <2>1, <2>2, <2>3 DEF InsertClass, DbFields
  <2>5. d.next \in DOMAIN x.classes
    BY <2>3, <2>4 DEF Put
  <2>6. l \in DOMAIN d.levels
    BY <1>2, <2>5
  <2>7. Sound(x) /\ Inserted(d, x, name, l)
    BY <2>1, <2>6, InsertClassSound
  <2> QED BY <2>3, <2>4, <2>7 DEF Inserted
<1>4. CASE c \in DOMAIN d.classes /\ l \in DOMAIN d.levels
  <2>1. x = WriteClass(d, c, name, l)
    BY <1>2, <1>4 DEF UpsertClass
  <2>2. Sound(x) /\ DOMAIN x.classes = DOMAIN d.classes /\ x.kept = d.kept /\ x.enrolled = d.enrolled
    <3>1. PICK y : y = WriteClass(d, c, name, l)
      OBVIOUS
    <3>2. /\ Sound(y) /\ DOMAIN y.classes = DOMAIN d.classes /\ y.levels = d.levels
          /\ y.classes[c] = [name |-> name, level |-> l]
          /\ \A z \in DOMAIN d.classes : z # c => y.classes[z] = d.classes[z]
          /\ y.placed = d.placed /\ y.enrolled = d.enrolled /\ y.next = d.next /\ y.kept = d.kept
          /\ y.ok => d.ok
      BY <1>4, <3>1, WriteClassSound
    <3> QED BY <2>1, <3>1, <3>2
  <2> QED BY <2>2
<1>5. CASE c \in DOMAIN d.classes /\ l \notin DOMAIN d.levels
  <2>1. x = WriteClass(d, c, name, l)
    BY <1>2, <1>5 DEF UpsertClass
  <2>2. /\ DOMAIN x = DbFields /\ x.classes = d.classes /\ x.levels = d.levels /\ x.placed = d.placed
        /\ x.next = d.next /\ x.kept = d.kept /\ x.enrolled = d.enrolled /\ x.ok \in BOOLEAN
    <3>1. /\ DOMAIN x = DbFields /\ x.levels = d.levels /\ x.placed = d.placed
          /\ x.next = d.next /\ x.kept = d.kept /\ x.enrolled = d.enrolled
          /\ x.ok \in BOOLEAN
      BY ONLY <1>2, <2>1 DEF WriteClass, DbFields
    <3> QED BY <1>5, <3>1
  <2> QED BY <2>2 DEF Sound
<1>6. c # 0 /\ c \notin DOMAIN d.classes => x = d
  BY DEF UpsertClass
<1> QED BY <1>1, <1>3, <1>4, <1>5, <1>6

\* A school starts with an empty structure.
LEMMA EmptySound == Sound(EmptyDb) /\ EmptyDb.ok /\ EmptyDb.kept = {} /\ EmptyDb.next = 1
  BY DEF EmptyDb, Sound, DbFields

\* What a client posts for a school without a structure.
LEMMA DraftsSound ==
  ASSUME NEW d \in Drafts
  PROVE  Sound(d) /\ d.ok /\ d.kept = {}
<1>1. PICK g \in Grades, h \in Grades, n \in Sections :
        d = InsertClass(InsertLevel(InsertLevel(EmptyDb, g, TRUE), h, TRUE), n, 1)
  <2>1. PICK g \in Grades, h \in Grades, n \in Sections : d = Draft(g, h, n)
    BY DEF Drafts
  <2> QED BY <2>1 DEF Draft
<1>2. PICK a : a = InsertLevel(EmptyDb, g, TRUE)
  OBVIOUS
<1>3. PICK b : b = InsertLevel(a, h, TRUE)
  OBVIOUS
<1>4. Sound(a) /\ Levelled(EmptyDb, a, 1, g) /\ a.kept = {}
  BY <1>2, EmptySound, InsertLevelSound
<1>5. Sound(b) /\ Levelled(a, b, a.next, h) /\ b.kept = {}
  BY <1>3, <1>4, InsertLevelSound
<1>6. 1 \in DOMAIN b.levels /\ b.classes = EmptyDb.classes /\ b.ok
  BY <1>4, <1>5, EmptySound DEF Levelled
<1>7. DOMAIN b.classes = {} /\ DOMAIN b = DbFields
  BY <1>5, <1>6 DEF EmptyDb, Sound
<1>8. d = InsertClass(b, n, 1)
  BY <1>1, <1>2, <1>3
<1>9. Sound(d)
  BY <1>5, <1>6, <1>8, InsertClassSound
<1>10. PICK w : w = WriteClass(b, b.next, n, 1)
  OBVIOUS
<1>11. DOMAIN w = DbFields /\ w.ok /\ w.kept = {}
  <2>1. /\ DOMAIN w = DbFields /\ w.kept = b.kept
        /\ w.ok = (b.ok /\ \A y \in DOMAIN b.classes \ {b.next} : b.classes[y].name # n)
    BY ONLY <1>7, <1>10 DEF WriteClass, DbFields
  <2>2. w.ok = b.ok
    BY <1>5, <1>6, <1>7, <2>1 DEF Sound
  <2> QED BY <1>5, <1>6, <2>1, <2>2
<1>12. d.ok = w.ok /\ d.kept = w.kept
  BY <1>8, <1>10, <1>11 DEF InsertClass, DbFields
<1> QED BY <1>9, <1>11, <1>12

-------------------------------------------------------------------------------
(* The rows and the locals of the requests: TInv, and the actions that keep it. *)

\* The rows of the tenant's database.
Rows ==
  /\ school \in [filled : BOOLEAN, code : CodeValues, committed : BOOLEAN, live : BOOLEAN]
  /\ contacts \in Nat /\ system \in Systems /\ mirror \in CodeValues
  /\ Sound(db) /\ db.ok /\ db.kept = {}

FileRow == [grade : Grades, class : Sections \cup {None}]

\* The endpoints behind the gate, and the statements of the gate.
Gatekept == {"look", "import", "edit", "class", "level"}
AtGate == {"structure?", "classes?", "grandfather"}

\* What request q carries from statement to statement.
Carries(q) ==
  /\ q.op \in Ops
  /\ q.op = "profile" /\ q.pc = "write" => q.to \in CodeValues /\ q.active \in BOOLEAN \cup {None}
  /\ q.pc = "mirror" => q.to \in CodeValues
  /\ q.pc \in AtGate => q.op \in Gatekept
  /\ q.op = "save" /\ q.pc \in {"classes", "fetched"} => Fresh(q.payload)
  /\ q.op = "save" /\ q.pc \in {"compare", "save", "remove"} =>
       Payload(q.payload) /\ q.to \in Systems \cup {Blank}
  /\ q.op = "class" /\ q.pc = "remove" => q.ids = {q.id}
  /\ q.op = "import" =>
       /\ q.active \in BOOLEAN
       /\ q.pc \in AtGate => q.name \in Grades
       /\ q.pc \in {"grade", "upsert grade", "class", "upsert class"} =>
            q.rows \in Seq(FileRow) /\ q.rows # <<>>
       /\ q.pc \in {"class", "upsert class"} => Head(q.rows).class \in Sections
  /\ q.op = "edit" =>
       /\ q.name \in Grades \cup {None} /\ q.active \in BOOLEAN \cup {None}
       /\ q.pc = "write" => q.name \in Grades /\ q.active \in BOOLEAN

Counted == sent \in 0 .. MaxRequests /\ edits \in 0 .. MaxEdits

\* Every request that saw no campus may still insert one.
Inserting == {r \in Requests : req[r].op = "campus" /\ req[r].pc = "insert"}
Room == campuses \in Nat /\ campuses + Cardinality(Inserting) <= Cardinality(Requests)

TInv == Rows /\ (\A r \in Requests : Carries(req[r])) /\ Counted /\ Room

\* What the types need.
LEMMA TInvImpliesTypeOK ==
  ASSUME TInv
  PROVE  TypeOK
<1>1. IsFiniteSet(Requests) /\ Inserting \subseteq Requests
  BY SetupAssumption DEF Inserting
<1>2. Cardinality(Requests) \in Nat /\ Cardinality(Inserting) \in Nat
  BY <1>1, FS_CardinalityType, FS_Subset
<1>3. campuses \in 0 .. Cardinality(Requests)
  BY <1>2 DEF TInv, Room
<1>4. \A r \in Requests : req[r].op \in Ops
  BY DEF TInv, Carries
<1>5. /\ DOMAIN db.levels \cup DOMAIN db.classes \subseteq 1 .. db.next - 1
      /\ \A l \in DOMAIN db.levels : db.levels[l] \in [name : Grades, active : BOOLEAN]
      /\ \A c \in DOMAIN db.classes : db.classes[c] \in [name : Sections, level : DOMAIN db.levels]
      /\ \A c, d \in DOMAIN db.classes : db.classes[c].name = db.classes[d].name => c = d
      /\ \A s \in Students : db.placed[s] \in DOMAIN db.classes \cup {0}
  BY DEF TInv, Rows, Sound
<1> QED BY <1>3, <1>4, <1>5 DEF TInv, Rows, Counted, TypeOK

\* Starting a request keeps the bounds.
LEMMA CountedStep ==
  ASSUME TInv, NEW r \in Requests, NEW q, Begin(r, q)
  PROVE  Counted'
  BY SetupAssumption DEF TInv, Counted, Begin

\* A step of r that inserts no campus, and finds one missing only if there is none.
LEMMA RoomStep ==
  ASSUME Shape, Room, NEW r \in Requests, NEW q, req' = [req EXCEPT ![r] = q], campuses' = campuses,
         q.op = "campus" /\ q.pc = "insert" => campuses = 0
  PROVE  Room'
<1>1. req'[r] = q /\ \A o \in Requests \ {r} : req'[o] = req[o]
  BY DEF Shape
<1>2. IsFiniteSet(Requests) /\ Inserting \subseteq Requests /\ Inserting' \subseteq Requests
  BY SetupAssumption DEF Inserting
<1>3. /\ IsFiniteSet(Inserting) /\ Cardinality(Requests) \in Nat /\ Cardinality(Inserting) \in Nat
      /\ Cardinality(Inserting') \in Nat /\ Cardinality(Inserting') <= Cardinality(Requests)
  BY <1>2, FS_CardinalityType, FS_Subset
<1>4. CASE campuses = 0
  BY <1>3, <1>4 DEF Room
<1>5. CASE campuses # 0
  <2>1. Inserting' \subseteq Inserting
    BY <1>1, <1>5 DEF Inserting
  <2>2. Cardinality(Inserting') <= Cardinality(Inserting)
    BY <1>3, <2>1, FS_Subset
  <2> QED BY <1>3, <2>2 DEF Room
<1> QED BY <1>4, <1>5

\* A step of r changes what r carries.
LEMMA CarriesStep ==
  ASSUME Shape, \A o \in Requests : Carries(req[o]), NEW r \in Requests, NEW q,
         req' = [req EXCEPT ![r] = q], Carries(q)
  PROVE  \A o \in Requests : Carries(req[o])'
<1>1. req'[r] = q /\ \A o \in Requests \ {r} : req'[o] = req[o]
  BY DEF Shape
<1>2. \A o \in Requests : Carries(req'[o])
  BY <1>1
<1> QED BY <1>2 DEF Carries

\* A step that writes no row.
LEMMA SameRows ==
  ASSUME TInv, UNCHANGED stored
  PROVE  Rows' /\ campuses' = campuses
  BY DEF TInv, Rows, stored

\* A request begins.
LEMMA BeginTyped ==
  ASSUME Shape, TInv, NEW r \in Requests, NEW q, Begin(r, q), UNCHANGED stored, Carries(q),
         q.op = "campus" /\ q.pc = "insert" => campuses = 0
  PROVE  TInv'
<1>1. Rows' /\ campuses' = campuses /\ Counted'
  BY SameRows, CountedStep
<1>2. req' = [req EXCEPT ![r] = q]
  BY DEF Begin
<1>3. Room'
  BY <1>1, <1>2, RoomStep DEF TInv
<1>4. \A o \in Requests : Carries(req[o])'
  BY <1>2, CarriesStep DEF TInv
<1> QED BY <1>1, <1>3, <1>4 DEF TInv

\* A request goes on.
LEMMA GoesTyped ==
  ASSUME Shape, TInv, NEW r \in Requests, NEW q, req' = [req EXCEPT ![r] = q],
         UNCHANGED <<sent, edits, campuses>>, Rows', Carries(q), q.op # "campus"
  PROVE  TInv'
<1>1. Counted'
  BY DEF TInv, Counted
<1>2. Room'
  BY RoomStep DEF TInv
<1>3. \A o \in Requests : Carries(req[o])'
  BY CarriesStep DEF TInv
<1> QED BY <1>1, <1>2, <1>3 DEF TInv

\* A request goes to its next statement.
LEMMA ThenTyped ==
  ASSUME Shape, TInv, NEW r \in Requests, NEW q, Then(r, q), campuses' = campuses, Rows',
         Carries(q), q.op # "campus"
  PROVE  TInv'
<1>1. req' = [req EXCEPT ![r] = q] /\ UNCHANGED <<sent, edits, campuses>>
  BY DEF Then, Go
<1> QED BY <1>1, GoesTyped

\* An answered request carries nothing.
LEMMA IdleCarries == Carries(Idle) /\ Idle.op # "campus"
  BY DEF Carries, Idle, Ops, AtGate

\* A request is answered.
LEMMA AnswerTyped ==
  ASSUME Shape, TInv, NEW r \in Requests, Answer(r), campuses' = campuses, Rows'
  PROVE  TInv'
  BY IdleCarries, ThenTyped DEF Answer

\* A step of nobody's request.
LEMMA BesideTyped ==
  ASSUME TInv, UNCHANGED <<req, edits, campuses>>, sent' \in 0 .. MaxRequests, Rows'
  PROVE  TInv'
<1>1. Room' /\ Counted'
  BY DEF TInv, Room, Inserting, Counted
<1>2. \A o \in Requests : Carries(req[o])'
  BY DEF TInv, Carries
<1> QED BY <1>1, <1>2 DEF TInv

\* Rows with another database.
LEMMA DbRows ==
  ASSUME TInv, UNCHANGED <<school, contacts, system, mirror>>, Sound(db'), db'.ok, db'.kept = {}
  PROVE  Rows'
  BY DEF TInv, Rows, Sound

\* Moving on to a statement that needs no more than the last one.
LEMMA PcCarries ==
  ASSUME NEW q, DOMAIN q = Fields, NEW l, NEW z, z = [q EXCEPT !.pc = l]
  PROVE  /\ DOMAIN z = Fields /\ z.pc = l /\ z.op = q.op /\ z.to = q.to /\ z.active = q.active
         /\ z.name = q.name /\ z.rows = q.rows /\ z.payload = q.payload
  BY DEF Fields

-------------------------------------------------------------------------------
(* Profile, campus, contacts, commit and activation.                           *)

LEMMA UpdateProfileCheckTyped ==
  ASSUME Shape, TInv, NEW r \in Requests, NEW p \in Patches, UpdateProfileCheck(r, p)
  PROVE  TInv'
<1>1. PICK q : /\ q = [Idle EXCEPT !.op = "profile", !.pc = "write", !.to = p.code, !.active = p.filled]
               /\ Begin(r, q) /\ UNCHANGED stored
  BY DEF UpdateProfileCheck
<1>2. p.code \in CodeValues /\ p.filled \in BOOLEAN \cup {None}
  BY DEF Patches, CodeValues
<1>3. q.op = "profile" /\ q.pc = "write" /\ q.to = p.code /\ q.active = p.filled
  BY <1>1 DEF Idle
<1>4. Carries(q)
  BY <1>2, <1>3 DEF Carries, Ops, AtGate
<1> QED BY <1>1, <1>3, <1>4, BeginTyped

LEMMA UpdateProfileTyped ==
  ASSUME Shape, TInv, NEW r \in Requests, UpdateProfile(r)
  PROVE  TInv'
<1>1. req[r].op = "profile" /\ req[r].pc = "write" /\ DOMAIN req[r] = Fields
  BY DEF UpdateProfile, At, Shape
<1>2. req[r].to \in CodeValues /\ req[r].active \in BOOLEAN \cup {None}
  BY <1>1 DEF TInv, Carries
<1>3. school' \in [filled : BOOLEAN, code : CodeValues, committed : BOOLEAN, live : BOOLEAN]
  BY <1>2 DEF UpdateProfile, TInv, Rows
<1>4. PICK q : q = [req[r] EXCEPT !.pc = "mirror", !.to = school'.code] /\ Then(r, q)
  BY DEF UpdateProfile
<1>5. q.op = "profile" /\ q.pc = "mirror" /\ q.to = school'.code
  BY <1>1, <1>4 DEF Fields
<1>6. Carries(q)
  BY <1>3, <1>5 DEF Carries, Ops, AtGate
<1>7. UNCHANGED <<campuses, contacts, system, db, mirror>>
  BY DEF UpdateProfile
<1>8. Rows'
  BY <1>3, <1>7 DEF TInv, Rows, Sound
<1> QED BY <1>4, <1>5, <1>6, <1>7, <1>8, ThenTyped

LEMMA SyncTenantMirrorTyped ==
  ASSUME Shape, TInv, NEW r \in Requests, SyncTenantMirror(r)
  PROVE  TInv'
<1>1. req[r].to \in CodeValues
  BY DEF SyncTenantMirror, TInv, Carries
<1>2. UNCHANGED <<school, campuses, contacts, system, db>> /\ mirror' \in CodeValues
  BY <1>1 DEF SyncTenantMirror, TInv, Rows
<1>3. Rows'
  BY <1>2 DEF TInv, Rows, Sound
<1>4. req' = [req EXCEPT ![r] = Idle] /\ UNCHANGED <<sent, edits>>
  BY DEF SyncTenantMirror, Go
<1> QED BY <1>2, <1>3, <1>4, IdleCarries, GoesTyped

LEMMA UpsertCampusReadTyped ==
  ASSUME Shape, TInv, NEW r \in Requests, UpsertCampusRead(r)
  PROVE  TInv'
<1>1. PICK l : l = IF campuses > 0 THEN "update" ELSE "insert"
  OBVIOUS
<1>2. PICK q : q = [Idle EXCEPT !.op = "campus", !.pc = l] /\ Begin(r, q) /\ UNCHANGED stored
  BY <1>1 DEF UpsertCampusRead
<1>3. q.op = "campus" /\ q.pc = l
  BY <1>2 DEF Idle
<1>4. Carries(q)
  BY <1>1, <1>3 DEF Carries, Ops, AtGate
<1>5. q.pc = "insert" => campuses = 0
  BY <1>1, <1>3 DEF TInv, Room
<1> QED BY <1>2, <1>4, <1>5, BeginTyped

LEMMA UpsertCampusTyped ==
  ASSUME Shape, TInv, NEW r \in Requests, UpsertCampus(r)
  PROVE  TInv'
<1>1. req' = [req EXCEPT ![r] = Idle] /\ UNCHANGED <<sent, edits, school, contacts, system, db, mirror>>
  BY DEF UpsertCampus, Answer, Then, Go
<1>2. Rows' /\ Counted'
  BY <1>1 DEF TInv, Rows, Counted, Sound
<1>3. \A o \in Requests : Carries(req[o])'
  BY <1>1, IdleCarries, CarriesStep DEF TInv
<1>4. Room'
  <2>1. CASE req[r].pc # "insert"
    <3>1. campuses' = campuses
      BY <2>1 DEF UpsertCampus
    <3> QED BY <1>1, <3>1, IdleCarries, RoomStep DEF TInv
  <2>2. CASE req[r].pc = "insert"
    <3>1. campuses' = campuses + 1 /\ r \in Inserting
      BY <2>2 DEF UpsertCampus, Inserting
    <3>2. req'[r] = Idle /\ \A o \in Requests \ {r} : req'[o] = req[o]
      BY <1>1 DEF Shape
    <3>3. Inserting' = Inserting \ {r}
      BY <3>2, IdleCarries DEF Inserting
    <3>4. IsFiniteSet(Inserting) /\ Cardinality(Requests) \in Nat /\ Cardinality(Inserting) \in Nat
      <4>1. IsFiniteSet(Requests) /\ Inserting \subseteq Requests
        BY SetupAssumption DEF Inserting
      <4> QED BY <4>1, FS_CardinalityType, FS_Subset
    <3>5. Cardinality(Inserting') = Cardinality(Inserting) - 1
      BY <3>1, <3>3, <3>4, FS_RemoveElement
    <3> QED BY <3>1, <3>4, <3>5 DEF TInv, Room
  <2> QED BY <2>1, <2>2
<1> QED BY <1>2, <1>3, <1>4 DEF TInv

LEMMA WriteContactTyped ==
  ASSUME Shape, TInv, NEW r \in Requests, WriteContact(r)
  PROVE  TInv'
<1>1. UNCHANGED <<school, campuses, system, db, mirror, req, edits>> /\ contacts' \in Nat
  BY DEF WriteContact, TInv, Rows
<1>2. sent' \in 0 .. MaxRequests
  BY SetupAssumption DEF WriteContact, TInv, Counted
<1>3. Rows'
  BY <1>1 DEF TInv, Rows, Sound
<1> QED BY <1>1, <1>2, <1>3, BesideTyped

\* Requests that carry nothing.
LEMMA BareCarries ==
  ASSUME NEW q, q.op \in {"commit", "activate"}, q.pc \notin AtGate \cup {"mirror"}
  PROVE  Carries(q) /\ q.op # "campus"
  BY DEF Carries, Ops

LEMMA CommitProfileCheckTyped ==
  ASSUME Shape, TInv, NEW r \in Requests, CommitProfileCheck(r) \/ ActivateCheck(r)
  PROVE  TInv'
<1>1. PICK q : /\ Begin(r, q) /\ UNCHANGED stored
               /\ \/ q = [Idle EXCEPT !.op = "commit", !.pc = "campus"]
                  \/ q = [Idle EXCEPT !.op = "activate", !.pc = "structure"]
  BY DEF CommitProfileCheck, ActivateCheck
<1>2. q.op \in {"commit", "activate"} /\ q.pc \notin AtGate \cup {"mirror"}
  BY <1>1 DEF Idle, AtGate
<1> QED BY <1>1, <1>2, BareCarries, BeginTyped

\* Commit and activate on their way to the stamp.
LEMMA BareTyped ==
  ASSUME Shape, TInv, NEW r \in Requests, NEW l, To(r, l), req[r].op \in {"commit", "activate"},
         l \notin AtGate \cup {"mirror"}, Rows', campuses' = campuses
  PROVE  TInv'
<1>1. PICK q : q = [req[r] EXCEPT !.pc = l] /\ Then(r, q)
  BY DEF To
<1>2. q.op = req[r].op /\ q.pc = l
  BY <1>1, PcShape DEF Shape
<1>3. Carries(q) /\ q.op # "campus"
  BY <1>2 DEF Carries, Ops
<1> QED BY <1>1, <1>3, ThenTyped

LEMMA CommitProfileReadsTyped ==
  ASSUME Shape, TInv, NEW r \in Requests, CommitProfileReads(r)
  PROVE  TInv'
<1>1. Rows' /\ campuses' = campuses
  BY SameRows DEF CommitProfileReads
<1>2. req[r].op \in {"commit", "activate"}
  BY DEF CommitProfileReads, At
<1>3. Answer(r) \/ To(r, "contact") \/ To(r, "stamp")
  BY DEF CommitProfileReads
<1>4. {"contact", "stamp"} \cap (AtGate \cup {"mirror"}) = {}
  BY DEF AtGate
<1> QED BY <1>1, <1>2, <1>3, <1>4, AnswerTyped, BareTyped

LEMMA ActivateReadsTyped ==
  ASSUME Shape, TInv, NEW r \in Requests, ActivateReads(r)
  PROVE  TInv'
<1>1. Rows' /\ campuses' = campuses /\ req[r].op = "activate" /\ DOMAIN req[r] = Fields
  BY SameRows DEF ActivateReads, At, Shape
<1>2. CASE Answer(r)
  BY <1>1, <1>2, AnswerTyped
<1>3. CASE \E l \in {"classes", "stamp"} :
             \E ids : Then(r, [req[r] EXCEPT !.pc = l, !.ids = ids])
  <2>0. PICK l \in {"classes", "stamp"} : \E ids : Then(r, [req[r] EXCEPT !.pc = l, !.ids = ids])
    BY <1>3
  <2>1. PICK ids, q : q = [req[r] EXCEPT !.pc = l, !.ids = ids] /\ Then(r, q)
    BY <2>0
  <2>2. q.op = "activate" /\ q.pc = l
    BY <1>1, <2>1 DEF Fields
  <2>3. Carries(q) /\ q.op # "campus"
    BY <2>2, BareCarries DEF AtGate
  <2> QED BY <1>1, <2>1, <2>3, ThenTyped
<1> QED BY <1>2, <1>3 DEF ActivateReads, ReadLevels

LEMMA StampProfileCommittedTyped ==
  ASSUME Shape, TInv, NEW r \in Requests, StampProfileCommitted(r)
  PROVE  TInv'
<1>1. /\ req[r].op = "commit" /\ To(r, "reread") /\ UNCHANGED <<campuses, contacts, system, db, mirror>>
      /\ school' = [school EXCEPT !.committed = TRUE]
  BY DEF StampProfileCommitted, At
<1>2. school' \in [filled : BOOLEAN, code : CodeValues, committed : BOOLEAN, live : BOOLEAN]
  BY <1>1 DEF TInv, Rows
<1>3. Rows'
  BY <1>1, <1>2 DEF TInv, Rows, Sound
<1>4. "reread" \notin AtGate \cup {"mirror"}
  BY DEF AtGate
<1> QED BY <1>1, <1>3, <1>4, BareTyped

LEMMA RereadTyped ==
  ASSUME Shape, TInv, NEW r \in Requests, Reread(r), req[r].op # "campus"
  PROVE  TInv'
<1>1. Rows' /\ campuses' = campuses
  BY SameRows DEF Reread
<1>2. PICK q : q = [req[r] EXCEPT !.pc = "mirror", !.to = school.code] /\ Then(r, q)
  BY DEF Reread
<1>3. q.op = req[r].op /\ q.pc = "mirror" /\ q.to = school.code /\ q.name = req[r].name /\ q.active = req[r].active
  BY <1>2 DEF Shape, Fields
<1>4. school.code \in CodeValues
  BY DEF TInv, Rows
<1>5. Carries(q)
  BY <1>3, <1>4 DEF TInv, Carries, AtGate
<1> QED BY <1>1, <1>2, <1>3, <1>5, ThenTyped

LEMMA GoLiveTyped ==
  ASSUME Shape, TInv, NEW r \in Requests, NEW q, GoLive(r, q), Carries(q), q.op # "campus"
  PROVE  TInv'
<1>1. /\ req' = [req EXCEPT ![r] = q] /\ UNCHANGED <<campuses, contacts, system, db, mirror, sent, edits>>
      /\ school' = [school EXCEPT !.committed = TRUE, !.live = TRUE]
  BY DEF GoLive
<1>2. school' \in [filled : BOOLEAN, code : CodeValues, committed : BOOLEAN, live : BOOLEAN]
  BY <1>1 DEF TInv, Rows
<1>3. Rows'
  BY <1>1, <1>2 DEF TInv, Rows, Sound
<1> QED BY <1>1, <1>3, GoesTyped

LEMMA ActivateTyped ==
  ASSUME Shape, TInv, NEW r \in Requests, Activate(r)
  PROVE  TInv'
<1>1. PICK q : q = [req[r] EXCEPT !.pc = "reread"] /\ GoLive(r, q)
  BY DEF Activate
<1>2. q.op = "activate" /\ q.pc = "reread"
  BY <1>1, PcShape DEF Activate, At, Shape
<1>3. Carries(q) /\ q.op # "campus"
  BY <1>2, BareCarries DEF AtGate
<1> QED BY <1>1, <1>3, GoLiveTyped

-------------------------------------------------------------------------------
\* A request at the gate, and past it.
LEMMA EndpointCarries ==
  ASSUME NEW q, DOMAIN q = Fields, Carries(q), q.op \in Gatekept, q.op = "import" => q.name \in Grades
  PROVE  Carries(Endpoint(q)) /\ Endpoint(q).op # "campus"
<1>1. CASE q.op = "look"
  BY <1>1, IdleCarries DEF Endpoint
<1>2. CASE q.op = "import"
  <2>1. PICK rows : rows = <<[grade |-> q.name, class |-> None]>>
    OBVIOUS
  <2>2. [grade |-> q.name, class |-> None] \in FileRow
    BY <1>2 DEF FileRow
  <2>3. rows \in Seq(FileRow) /\ rows # <<>>
    BY <2>1, <2>2
  <2>4. PICK z : z = Endpoint(q) /\ z = [q EXCEPT !.pc = "grade", !.ids = {}, !.rows = rows]
    BY <1>2, <2>1 DEF Endpoint
  <2>5. z.op = "import" /\ z.pc = "grade" /\ z.rows = rows /\ z.active = q.active
    BY <1>2, <2>4 DEF Fields
  <2> QED BY <1>2, <2>3, <2>4, <2>5 DEF Carries, Ops, AtGate
<1>3. CASE q.op \in {"edit", "class", "level"}
  <2>1. PICK z : z = Endpoint(q) /\ z = [q EXCEPT !.pc = "read", !.ids = {}]
    BY <1>3 DEF Endpoint
  <2>2. z.op = q.op /\ z.pc = "read" /\ z.name = q.name /\ z.active = q.active
    BY <2>1 DEF Fields
  <2> QED BY <1>3, <2>1, <2>2 DEF Carries, AtGate
<1> QED BY <1>1, <1>2, <1>3 DEF Gatekept

LEMMA GateReadTyped ==
  ASSUME Shape, TInv, NEW r \in Requests, NEW g \in Gated, GateRead(r, g)
  PROVE  TInv'
<1>1. PICK q : q = [Idle EXCEPT !.op = g.op, !.name = g.name, !.id = g.id, !.active = g.active]
  OBVIOUS
<1>2. DOMAIN q = Fields /\ q.op = g.op /\ q.name = g.name /\ q.active = g.active /\ q.pc = "idle"
  BY <1>1 DEF Idle, Fields
<1>3. /\ g.op \in Gatekept
      /\ g.op = "import" => g.name \in Grades /\ g.active \in BOOLEAN
      /\ g.op = "edit" => g.name \in Grades \cup {None} /\ g.active \in BOOLEAN \cup {None}
  <2>1. CASE g = [op |-> "look", name |-> None, id |-> 0, active |-> TRUE]
    BY <2>1 DEF Gatekept
  <2>2. CASE g \in [op : {"import"}, name : Grades, id : {0}, active : BOOLEAN]
    BY <2>2 DEF Gatekept
  <2>3. CASE g \in [op : {"edit"}, name : Grades, id : DOMAIN db.levels, active : {None}]
    BY <2>3 DEF Gatekept
  <2>4. CASE g \in [op : {"edit"}, name : {None}, id : DOMAIN db.levels, active : BOOLEAN]
    BY <2>4 DEF Gatekept
  <2>5. CASE g \in [op : {"class"}, name : {None}, id : DOMAIN db.classes, active : {TRUE}]
    BY <2>5 DEF Gatekept
  <2>6. CASE g \in [op : {"level"}, name : {None}, id : DOMAIN db.levels, active : {TRUE}]
    BY <2>6 DEF Gatekept
  <2> QED BY <2>1, <2>2, <2>3, <2>4, <2>5, <2>6 DEF Gated
<1>4. Carries(q)
  BY <1>2, <1>3 DEF Carries, Gatekept, Ops, AtGate
<1>5. CASE Begin(r, Endpoint(q))
  <2>1. Carries(Endpoint(q)) /\ Endpoint(q).op # "campus"
    BY <1>2, <1>3, <1>4, EndpointCarries
  <2> QED BY <1>5, <2>1, BeginTyped DEF GateRead
<1>6. CASE Begin(r, [q EXCEPT !.pc = "structure?"])
  <2>1. PICK z : z = [q EXCEPT !.pc = "structure?"] /\ Begin(r, z)
    BY <1>6
  <2>2. z.op = q.op /\ z.pc = "structure?" /\ z.name = q.name /\ z.active = q.active
    BY <1>2, <2>1, PcCarries
  <2>3. Carries(z) /\ z.op # "campus"
    BY <1>2, <1>3, <2>2 DEF Carries, Gatekept, Ops, AtGate
  <2> QED BY <2>1, <2>3, BeginTyped DEF GateRead
<1> QED BY <1>1, <1>5, <1>6 DEF GateRead

-------------------------------------------------------------------------------
(* The structure endpoints.                                                    *)

LEMMA GateReadsStructureTyped ==
  ASSUME Shape, TInv, NEW r \in Requests, GateReadsStructure(r)
  PROVE  TInv'
<1>1. Rows' /\ campuses' = campuses
  BY SameRows DEF GateReadsStructure
<1>2. Carries(req[r]) /\ DOMAIN req[r] = Fields /\ req[r].pc \in AtGate
  BY DEF TInv, Shape, GateReadsStructure, AtGate
<1>3. CASE Answer(r)
  BY <1>1, <1>3, AnswerTyped
<1>4. CASE To(r, "grandfather") \/ ReadLevels(r, "classes?")
  <2>1. PICK q : /\ Then(r, q)
                 /\ \/ q = [req[r] EXCEPT !.pc = "grandfather"]
                    \/ q = [req[r] EXCEPT !.pc = "classes?", !.ids = ActiveLevels(db)]
    BY <1>4 DEF To, ReadLevels
  <2>2. /\ q.op = req[r].op /\ q.pc \in {"classes?", "grandfather"}
        /\ q.name = req[r].name /\ q.active = req[r].active
    BY <1>2, <2>1 DEF Fields
  <2>3. Carries(q) /\ q.op # "campus"
    BY <1>2, <2>2 DEF Carries, Gatekept, AtGate
  <2> QED BY <1>1, <2>1, <2>3, ThenTyped
<1>5. CASE Then(r, Endpoint(req[r]))
  <2>1. Carries(Endpoint(req[r])) /\ Endpoint(req[r]).op # "campus"
    BY <1>2, EndpointCarries DEF Carries
  <2> QED BY <1>1, <1>5, <2>1, ThenTyped
<1> QED BY <1>3, <1>4, <1>5 DEF GateReadsStructure

LEMMA GrandfatherTyped ==
  ASSUME Shape, TInv, NEW r \in Requests, GrandfatherActivateIfMissing(r)
  PROVE  TInv'
<1>1. Carries(req[r]) /\ DOMAIN req[r] = Fields /\ req[r].pc \in AtGate
  BY DEF TInv, Shape, GrandfatherActivateIfMissing, AtGate
<1>2. Carries(Endpoint(req[r])) /\ Endpoint(req[r]).op # "campus"
  BY <1>1, EndpointCarries DEF Carries
<1> QED BY <1>2, GoLiveTyped DEF GrandfatherActivateIfMissing

LEMMA GetAcademicStructureTyped ==
  ASSUME Shape, TInv, NEW r \in Requests, GetAcademicStructure(r)
  PROVE  TInv'
<1>1. PICK q : /\ q = [Idle EXCEPT !.op = "save", !.pc = "levels", !.to = system]
               /\ Begin(r, q) /\ UNCHANGED stored
  BY DEF GetAcademicStructure
<1>2. q.op = "save" /\ q.pc = "levels"
  BY <1>1 DEF Idle
<1>3. Carries(q)
  BY <1>2 DEF Carries, Ops, AtGate
<1> QED BY <1>1, <1>2, <1>3, BeginTyped

LEMMA GetLevelsAndClassesTyped ==
  ASSUME Shape, TInv, NEW r \in Requests, GetLevelsAndClasses(r)
  PROVE  TInv'
<1>1. Rows' /\ campuses' = campuses /\ DOMAIN req[r] = Fields /\ req[r].op = "save" /\ Sound(db)
  BY SameRows DEF GetLevelsAndClasses, At, Shape, TInv, Rows
<1>2. CASE At(r, "save", "levels")
  <2>1. PICK p : p = FetchedLevels(db)
    OBVIOUS
  <2>2. Fresh(p)
    BY <1>1, <2>1, FetchedLevelsFresh
  <2>3. PICK q : q = [req[r] EXCEPT !.pc = "classes", !.payload = p] /\ Then(r, q)
    BY <1>2, <2>1 DEF GetLevelsAndClasses, At
  <2>4. q.op = "save" /\ q.pc = "classes" /\ q.payload = p
    BY <1>1, <2>3 DEF Fields
  <2>5. Carries(q) /\ q.op # "campus"
    BY <2>2, <2>4 DEF Carries, Ops, AtGate
  <2> QED BY <1>1, <2>3, <2>5, ThenTyped
<1>3. CASE At(r, "save", "classes")
  <2>1. PICK p : p = FetchedClasses(db, req[r].payload)
    OBVIOUS
  <2>2. Fresh(req[r].payload)
    BY <1>3 DEF TInv, Carries, At
  <2>3. Fresh(p)
    BY <1>1, <2>1, <2>2, FetchedClassesFresh
  <2>4. PICK q : q = [req[r] EXCEPT !.pc = "fetched", !.payload = p] /\ Then(r, q)
    BY <1>1, <1>3, <2>1 DEF GetLevelsAndClasses, At, Fields
  <2>5. q.op = "save" /\ q.pc = "fetched" /\ q.payload = p
    BY <1>1, <2>4 DEF Fields
  <2>6. Carries(q) /\ q.op # "campus"
    BY <2>3, <2>5 DEF Carries, Ops, AtGate
  <2> QED BY <1>1, <2>4, <2>6, ThenTyped
<1> QED BY <1>2, <1>3 DEF GetLevelsAndClasses

LEMMA SaveCarries ==
  ASSUME NEW q, q.op = "save", q.pc \in {"compare", "save", "remove"}, Payload(q.payload),
         q.to \in Systems \cup {Blank}
  PROVE  Carries(q) /\ q.op # "campus"
  BY DEF Carries, Ops, AtGate

LEMMA PostAcademicStructureTyped ==
  ASSUME Shape, TInv, NEW r \in Requests, NEW p \in Edits(req[r].payload), NEW s \in Systems \cup {Blank},
         PostAcademicStructure(r, p, s)
  PROVE  TInv'
<1>1. /\ Rows' /\ campuses' = campuses /\ req[r].op = "save" /\ req[r].pc = "fetched"
      /\ DOMAIN req[r] = Fields
  BY SameRows DEF PostAcademicStructure, At, Shape
<1>2. Payload(p)
  BY <1>1, EditsArePayloads DEF TInv, Carries
<1>3. PICK l : l = IF school.live THEN "compare" ELSE "save"
  OBVIOUS
<1>4. PICK q : q = [req[r] EXCEPT !.payload = p, !.to = s, !.pc = l] /\ Then(r, q)
  BY <1>3 DEF PostAcademicStructure
<1>5. q.op = "save" /\ q.pc = l /\ q.payload = p /\ q.to = s
  BY <1>1, <1>4 DEF Fields
<1>6. Carries(q) /\ q.op # "campus"
  BY <1>2, <1>3, <1>5, SaveCarries
<1> QED BY <1>1, <1>4, <1>6, ThenTyped

LEMMA CompareSystemTyped ==
  ASSUME Shape, TInv, NEW r \in Requests, CompareSystem(r)
  PROVE  TInv'
<1>1. /\ Rows' /\ campuses' = campuses /\ req[r].op = "save" /\ req[r].pc = "compare"
      /\ DOMAIN req[r] = Fields
  BY SameRows DEF CompareSystem, At, Shape
<1>2. Payload(req[r].payload) /\ req[r].to \in Systems \cup {Blank}
  BY <1>1 DEF TInv, Carries
<1>3. CASE Answer(r)
  BY <1>1, <1>3, AnswerTyped
<1>4. CASE To(r, "save")
  <2>1. PICK q : q = [req[r] EXCEPT !.pc = "save"] /\ Then(r, q)
    BY <1>4 DEF To
  <2>2. q.op = "save" /\ q.pc = "save" /\ q.payload = req[r].payload /\ q.to = req[r].to
    BY <1>1, <2>1, PcCarries
  <2>3. Carries(q) /\ q.op # "campus"
    BY <1>2, <2>2, SaveCarries
  <2> QED BY <1>1, <2>1, <2>3, ThenTyped
<1> QED BY <1>3, <1>4 DEF CompareSystem

LEMMA SaveChecksTyped ==
  ASSUME Shape, TInv, NEW r \in Requests, SaveChecks(r)
  PROVE  TInv'
<1>1. /\ Rows' /\ campuses' = campuses /\ req[r].op = "save" /\ req[r].pc = "save"
      /\ DOMAIN req[r] = Fields
  BY SameRows DEF SaveChecks, At, Shape
<1>2. Payload(req[r].payload) /\ req[r].to \in Systems \cup {Blank}
  BY <1>1 DEF TInv, Carries
<1>3. CASE Answer(r)
  BY <1>1, <1>3, AnswerTyped
<1>4. CASE \E ids : Then(r, [req[r] EXCEPT !.pc = "remove", !.ids = ids])
  <2>1. PICK ids, q : q = [req[r] EXCEPT !.pc = "remove", !.ids = ids] /\ Then(r, q)
    BY <1>4
  <2>2. q.op = "save" /\ q.pc = "remove" /\ q.payload = req[r].payload /\ q.to = req[r].to
    BY <1>1, <2>1 DEF Fields
  <2>3. Carries(q) /\ q.op # "campus"
    BY <1>2, <2>2, SaveCarries
  <2> QED BY <1>1, <2>1, <2>3, ThenTyped
<1> QED BY <1>3, <1>4 DEF SaveChecks

LEMMA SaveAcademicStructureTyped ==
  ASSUME Shape, TInv, NEW r \in Requests, SaveAcademicStructure(r)
  PROVE  TInv' /\ db'.enrolled \subseteq db.enrolled
<1>1. Payload(req[r].payload) /\ req[r].to \in Systems \cup {Blank}
  BY DEF TInv, Carries, SaveAcademicStructure, At
<1>2. PICK d : d = SaveStructure(db, req[r].payload, req[r].ids)
  OBVIOUS
<1>3. Survives(db, d, Listed(req[r].payload), req[r].ids) /\ d.kept = {}
  BY <1>1, <1>2, SaveStructureIs DEF TInv, Rows
<1>4. /\ \/ d.ok /\ db' = d /\ system' = (IF req[r].to = Blank THEN "US" ELSE req[r].to)
         \/ db' = db /\ system' = system
      /\ req' = [req EXCEPT ![r] = Idle] /\ UNCHANGED <<school, campuses, contacts, mirror, sent, edits>>
  BY <1>2 DEF SaveAcademicStructure
<1>5. system' \in Systems
  BY <1>1, <1>4, SetupAssumption DEF TInv, Rows
<1>6. Sound(db') /\ db'.ok /\ db'.kept = {} /\ db'.enrolled \subseteq db.enrolled
  BY <1>3, <1>4 DEF TInv, Rows, Survives
<1>7. Rows'
  BY <1>4, <1>5, <1>6 DEF TInv, Rows, Sound
<1> QED BY <1>4, <1>6, <1>7, IdleCarries, GoesTyped

-------------------------------------------------------------------------------
(* The import. *)

LEMMA CommitStructureImportTyped ==
  ASSUME Shape, TInv, NEW r \in Requests, NEW file \in Files, CommitStructureImport(r, file)
  PROVE  TInv'
<1>1. PICK q : q = [Idle EXCEPT !.op = "import", !.pc = "grade", !.rows = file] /\ Begin(r, q) /\ UNCHANGED stored
  BY DEF CommitStructureImport
<1>2. q.op = "import" /\ q.pc = "grade" /\ q.rows = file /\ q.active = TRUE
  BY <1>1 DEF Idle
<1>3. PICK a \in [grade : Grades, class : Sections], b \in [grade : Grades, class : Sections] : file = <<a, b>>
  BY DEF Files
<1>4. a \in FileRow /\ b \in FileRow
  BY DEF FileRow
<1>5. file \in Seq(FileRow) /\ file # <<>>
  BY <1>3, <1>4
<1>6. Carries(q)
  BY <1>2, <1>5 DEF Carries, Ops, AtGate
<1> QED BY <1>1, <1>2, <1>6, BeginTyped

Importing == {"grade", "upsert grade", "class", "upsert class"}

\* The row at which an import is.
LEMMA ImportRow ==
  ASSUME TInv, Shape, NEW r \in Requests, req[r].op = "import", req[r].pc \in Importing
  PROVE  /\ req[r].active \in BOOLEAN /\ req[r].rows \in Seq(FileRow) /\ req[r].rows # <<>>
         /\ Head(req[r].rows) \in FileRow
         /\ Head(req[r].rows).grade \in Grades /\ Head(req[r].rows).class \in Sections \cup {None}
         /\ DOMAIN req[r] = Fields
<1>1. req[r].active \in BOOLEAN /\ req[r].rows \in Seq(FileRow) /\ req[r].rows # <<>> /\ DOMAIN req[r] = Fields
  BY DEF TInv, Carries, Importing, Shape
<1>2. Head(req[r].rows) \in FileRow
  BY <1>1, HeadTailProperties
<1> QED BY <1>1, <1>2 DEF FileRow

LEMMA ImportCarries ==
  ASSUME NEW q, q.op = "import", q.pc \in Importing, q.active \in BOOLEAN, q.rows \in Seq(FileRow), q.rows # <<>>,
         q.pc \in {"class", "upsert class"} => Head(q.rows).class \in Sections
  PROVE  Carries(q) /\ q.op # "campus"
  BY DEF Carries, Ops, Importing, AtGate

LEMMA NextRowCarries ==
  ASSUME TInv, Shape, NEW r \in Requests, req[r].op = "import", req[r].pc \in Importing
  PROVE  Carries(NextRow(r)) /\ NextRow(r).op # "campus"
<1>1. CASE Len(req[r].rows) = 1
  BY <1>1, IdleCarries DEF NextRow
<1>2. CASE Len(req[r].rows) # 1
  <2>1. PICK t : t = Tail(req[r].rows)
    OBVIOUS
  <2>2. PICK q : q = NextRow(r) /\ q = [req[r] EXCEPT !.rows = t, !.pc = "grade", !.id = 0, !.class = 0]
    BY <1>2, <2>1 DEF NextRow
  <2>3. q.op = "import" /\ q.pc = "grade" /\ q.rows = t /\ q.active = req[r].active
    BY <2>2, ImportRow DEF Fields
  <2>4. /\ req[r].rows \in Seq(FileRow) /\ req[r].rows # <<>> /\ Len(req[r].rows) \in Nat \ {0}
        /\ req[r].active \in BOOLEAN
    BY ImportRow, EmptySeq
  <2>5. t \in Seq(FileRow) /\ Len(t) = Len(req[r].rows) - 1
    BY <2>1, <2>4, HeadTailProperties
  <2>6. Len(t) # 0
    BY <1>2, <2>4, <2>5
  <2>7. t # <<>>
    BY <2>6
  <2>8. Carries(q) /\ q.op # "campus"
    BY <2>3, <2>4, <2>5, <2>7, ImportCarries DEF Importing
  <2> QED BY <2>2, <2>8
<1> QED BY <1>1, <1>2

LEMMA GetLevelByNameTyped ==
  ASSUME Shape, TInv, NEW r \in Requests, GetLevelByName(r)
  PROVE  TInv'
<1>1. Rows' /\ campuses' = campuses /\ req[r].op = "import" /\ req[r].pc \in Importing
  BY SameRows DEF GetLevelByName, At, Importing
<1>2. PICK l, q : q = [req[r] EXCEPT !.pc = "upsert grade", !.id = l] /\ Then(r, q)
  BY DEF GetLevelByName
<1>3. q.op = "import" /\ q.pc = "upsert grade" /\ q.rows = req[r].rows /\ q.active = req[r].active
  BY <1>1, <1>2, ImportRow DEF Fields
<1>4. Carries(q) /\ q.op # "campus"
  BY <1>1, <1>3, ImportRow, ImportCarries DEF Importing
<1> QED BY <1>1, <1>2, <1>4, ThenTyped

LEMMA GetClassTyped ==
  ASSUME Shape, TInv, NEW r \in Requests, GetClassByNameAndLevel(r)
  PROVE  TInv'
<1>1. Rows' /\ campuses' = campuses /\ req[r].op = "import" /\ req[r].pc \in Importing /\ req[r].pc = "class"
  BY SameRows DEF GetClassByNameAndLevel, At, Importing
<1>2. PICK c, q : q = [req[r] EXCEPT !.pc = "upsert class", !.class = c] /\ Then(r, q)
  BY DEF GetClassByNameAndLevel
<1>3. q.op = "import" /\ q.pc = "upsert class" /\ q.rows = req[r].rows /\ q.active = req[r].active
  BY <1>1, <1>2, ImportRow DEF Fields
<1>4. Head(req[r].rows).class \in Sections
  BY <1>1 DEF TInv, Carries
<1>5. Carries(q) /\ q.op # "campus"
  BY <1>1, <1>3, <1>4, ImportRow, ImportCarries DEF Importing
<1> QED BY <1>1, <1>2, <1>5, ThenTyped

LEMMA UpsertLevelByNameTyped ==
  ASSUME Shape, TInv, NEW r \in Requests, UpsertLevelByName(r)
  PROVE  TInv' /\ DOMAIN db.classes \subseteq DOMAIN db'.classes /\ db'.enrolled = db.enrolled
<1>1. /\ req[r].op = "import" /\ req[r].pc \in Importing
      /\ UNCHANGED <<school, campuses, contacts, system, mirror>>
  BY DEF UpsertLevelByName, At, Importing
<1>2. Sound(db) /\ db.ok /\ db.kept = {}
  BY DEF TInv, Rows
<1>3. PICK row : row = Head(req[r].rows) /\ row.grade \in Grades /\ row.class \in Sections \cup {None}
  BY <1>1, ImportRow
<1>4. req[r].active \in BOOLEAN /\ DOMAIN req[r] = Fields
  BY <1>1, ImportRow
<1>5. Sound(db') /\ db'.ok /\ db'.kept = {} /\ db'.classes = db.classes /\ db'.enrolled = db.enrolled
  <2>1. CASE db' = InsertLevel(db, row.grade, req[r].active)
    <3>1. Sound(db') /\ Levelled(db, db', db.next, row.grade) /\ db'.kept = db.kept
      BY <1>2, <1>3, <1>4, <2>1, InsertLevelSound
    <3> QED BY <1>2, <3>1 DEF Levelled
  <2>2. CASE req[r].id \in DOMAIN db.levels /\ req[r].id # 0 /\ db' = WriteLevel(db, req[r].id, row.grade, req[r].active)
    <3>1. Sound(db') /\ Levelled(db, db', req[r].id, row.grade) /\ db'.kept = db.kept
      BY <1>2, <1>3, <1>4, <2>2, WriteLevelSound
    <3> QED BY <1>2, <3>1 DEF Levelled
  <2>3. CASE db' = db
    BY <1>2, <2>3
  <2>4. 0 \notin DOMAIN db.levels
    BY <1>2 DEF Sound
  <2> QED BY <1>3, <2>1, <2>2, <2>3, <2>4 DEF UpsertLevelByName
<1>6. Rows'
  BY <1>1, <1>5, DbRows
<1>7. CASE Then(r, NextRow(r))
  BY <1>1, <1>5, <1>6, <1>7, NextRowCarries, ThenTyped
<1>8. CASE row.class # None /\ \E l : Then(r, [req[r] EXCEPT !.pc = "class", !.id = l])
  <2>1. PICK l, q : q = [req[r] EXCEPT !.pc = "class", !.id = l] /\ Then(r, q)
    BY <1>8
  <2>2. q.op = "import" /\ q.pc = "class" /\ q.rows = req[r].rows /\ q.active = req[r].active
    BY <1>1, <1>4, <2>1 DEF Fields
  <2>3. Carries(q) /\ q.op # "campus"
    BY <1>1, <1>3, <1>8, <2>2, ImportRow, ImportCarries DEF Importing
  <2> QED BY <1>1, <1>5, <1>6, <2>1, <2>3, ThenTyped
<1> QED BY <1>3, <1>5, <1>7, <1>8 DEF UpsertLevelByName

LEMMA UpsertClassTyped ==
  ASSUME Shape, TInv, NEW r \in Requests, UpsertClassByNameAndLevel(r)
  PROVE  TInv' /\ DOMAIN db.classes \subseteq DOMAIN db'.classes /\ db'.enrolled = db.enrolled
<1>1. /\ req[r].op = "import" /\ req[r].pc \in Importing /\ req[r].pc = "upsert class"
      /\ UNCHANGED <<school, campuses, contacts, system, mirror>>
  BY DEF UpsertClassByNameAndLevel, At, Importing
<1>2. Sound(db) /\ db.ok /\ db.kept = {}
  BY DEF TInv, Rows
<1>3. PICK name, c, l : name = Head(req[r].rows).class /\ c = req[r].class /\ l = req[r].id
  OBVIOUS
<1>4. name \in Sections
  BY <1>1, <1>3 DEF TInv, Carries
<1>5. PICK d : d = UpsertClass(db, c, name, l)
  OBVIOUS
<1>6. LET ok == d.ok /\ (d.classes = db.classes \/ l \in DOMAIN db.levels)
      IN db' = (IF ok THEN d ELSE db) /\ Then(r, IF ok THEN NextRow(r) ELSE Idle)
  BY <1>3, <1>5 DEF UpsertClassByNameAndLevel
<1>7. /\ Sound(db') /\ db'.ok /\ db'.kept = {} /\ DOMAIN db.classes \subseteq DOMAIN db'.classes
      /\ db'.enrolled = db.enrolled
  <2>1. CASE d.ok /\ (d.classes = db.classes \/ l \in DOMAIN db.levels)
    <3>1. Sound(d) /\ d.kept = {} /\ d.enrolled = db.enrolled /\ DOMAIN db.classes \subseteq DOMAIN d.classes
      BY <1>2, <1>4, <1>5, <2>1, UpsertClassSound
    <3> QED BY <1>6, <2>1, <3>1
  <2>2. CASE ~(d.ok /\ (d.classes = db.classes \/ l \in DOMAIN db.levels))
    BY <1>2, <1>6, <2>2
  <2> QED BY <2>1, <2>2
<1>8. Rows'
  BY <1>1, <1>7, DbRows
<1>9. CASE Then(r, NextRow(r))
  BY <1>1, <1>7, <1>8, <1>9, NextRowCarries, ThenTyped
<1>10. CASE Then(r, Idle)
  BY <1>1, <1>7, <1>8, <1>10, IdleCarries, ThenTyped
<1> QED BY <1>6, <1>7, <1>9, <1>10

-------------------------------------------------------------------------------
(* The edits of one level and one class, and the pupils.                       *)

LEMMA GetLevelByIdTyped ==
  ASSUME Shape, TInv, NEW r \in Requests, GetLevelById(r)
  PROVE  TInv'
<1>1. /\ Rows' /\ campuses' = campuses /\ req[r].op = "edit" /\ req[r].pc = "read"
      /\ DOMAIN req[r] = Fields
  BY SameRows DEF GetLevelById, At, Shape
<1>2. req[r].name \in Grades \cup {None} /\ req[r].active \in BOOLEAN \cup {None}
  BY <1>1 DEF TInv, Carries
<1>3. CASE req[r].id \notin DOMAIN db.levels
  BY <1>1, <1>3, AnswerTyped DEF GetLevelById
<1>4. CASE req[r].id \in DOMAIN db.levels
  <2>1. PICK row : row = db.levels[req[r].id] /\ row.name \in Grades /\ row.active \in BOOLEAN
    BY <1>4 DEF TInv, Rows, Sound
  <2>2. PICK n, a : /\ n = IF req[r].name = None THEN row.name ELSE req[r].name
                    /\ a = IF req[r].active = None THEN row.active ELSE req[r].active
    OBVIOUS
  <2>3. PICK q : q = [req[r] EXCEPT !.pc = "write", !.name = n, !.active = a] /\ Then(r, q)
    BY <1>1, <1>4, <2>1, <2>2 DEF GetLevelById, Fields
  <2>4. q.op = "edit" /\ q.pc = "write" /\ q.name = n /\ q.active = a
    BY <1>1, <2>3 DEF Fields
  <2>5. n \in Grades /\ a \in BOOLEAN
    BY <1>2, <2>1, <2>2
  <2>6. Carries(q) /\ q.op # "campus"
    BY <2>4, <2>5 DEF Carries, Ops, AtGate
  <2> QED BY <1>1, <2>3, <2>6, ThenTyped
<1> QED BY <1>3, <1>4

LEMMA UpdateLevelTyped ==
  ASSUME Shape, TInv, NEW r \in Requests, UpdateLevel(r)
  PROVE  TInv' /\ DOMAIN db.classes \subseteq DOMAIN db'.classes /\ db'.enrolled = db.enrolled
<1>1. Answer(r) /\ UNCHANGED <<school, campuses, contacts, system, mirror>>
  BY DEF UpdateLevel
<1>2. req[r].name \in Grades /\ req[r].active \in BOOLEAN
  BY DEF UpdateLevel, At, TInv, Carries
<1>3. Sound(db) /\ db.ok /\ db.kept = {}
  BY DEF TInv, Rows
<1>4. Sound(db') /\ db'.ok /\ db'.kept = {} /\ db'.classes = db.classes /\ db'.enrolled = db.enrolled
  <2>1. CASE req[r].id \in DOMAIN db.levels
    <3>1. Sound(db') /\ Levelled(db, db', req[r].id, req[r].name) /\ db'.kept = db.kept
      BY <1>2, <1>3, <2>1, WriteLevelSound DEF UpdateLevel
    <3> QED BY <1>3, <3>1 DEF Levelled
  <2>2. CASE req[r].id \notin DOMAIN db.levels
    BY <1>3, <2>2 DEF UpdateLevel
  <2> QED BY <2>1, <2>2
<1>5. Rows'
  BY <1>1, <1>4, DbRows
<1> QED BY <1>1, <1>4, <1>5, AnswerTyped

LEMMA BlockTyped ==
  ASSUME Shape, TInv, NEW r \in Requests, BlockIfClassesHaveEnrollmentHistory(r)
  PROVE  TInv'
<1>1. /\ Rows' /\ campuses' = campuses /\ req[r].op \in {"class", "level"} /\ DOMAIN req[r] = Fields
  BY SameRows DEF BlockIfClassesHaveEnrollmentHistory, Shape
<1>2. CASE Answer(r)
  BY <1>1, <1>2, AnswerTyped
<1>3. PICK ids : ids = IF req[r].op = "class" THEN {req[r].id} ELSE ClassesOf(db, req[r].id)
  OBVIOUS
<1>4. CASE Then(r, [req[r] EXCEPT !.pc = "remove", !.ids = ids])
  <2>1. PICK q : q = [req[r] EXCEPT !.pc = "remove", !.ids = ids] /\ Then(r, q)
    BY <1>4
  <2>2. q.op = req[r].op /\ q.pc = "remove" /\ q.ids = ids /\ q.id = req[r].id
    BY <1>1, <2>1 DEF Fields
  <2>3. Carries(q) /\ q.op # "campus"
    BY <1>1, <1>3, <2>2 DEF Carries, Ops, AtGate
  <2> QED BY <1>1, <2>1, <2>3, ThenTyped
<1> QED BY <1>2, <1>3, <1>4 DEF BlockIfClassesHaveEnrollmentHistory

\* A class goes because a delete named it or its level.
LEMMA DeleteTyped ==
  ASSUME Shape, TInv, NEW r \in Requests, Delete(r)
  PROVE  /\ TInv' /\ db'.enrolled \subseteq db.enrolled
         /\ \A c \in DOMAIN db.classes \ DOMAIN db'.classes :
              \/ At(r, "class", "remove") /\ c = req[r].id /\ c \in req[r].ids
              \/ At(r, "level", "remove") /\ db.classes[c].level = req[r].id
<1>1. Answer(r) /\ UNCHANGED <<school, campuses, contacts, system, mirror>>
  BY DEF Delete
<1>2. Sound(db) /\ db.ok /\ db.kept = {}
  BY DEF TInv, Rows
<1>3. /\ Sound(db') /\ db'.ok /\ db'.kept = {} /\ db'.enrolled \subseteq db.enrolled
      /\ \A c \in DOMAIN db.classes \ DOMAIN db'.classes :
           \/ At(r, "class", "remove") /\ c = req[r].id /\ c \in req[r].ids
           \/ At(r, "level", "remove") /\ db.classes[c].level = req[r].id
  <2>1. CASE At(r, "class", "remove")
    <3>1. PICK d : d = DeleteClass(db, req[r].id)
      OBVIOUS
    <3>2. /\ Sound(d) /\ d.kept = db.kept /\ d.enrolled \subseteq db.enrolled
          /\ DOMAIN d.classes = DOMAIN db.classes \ {req[r].id}
      BY <1>2, <3>1, DeleteClassSound
    <3>3. (d.ok /\ db' = d) \/ db' = db
      BY <2>1, <3>1 DEF Delete, At
    <3>4. req[r].ids = {req[r].id}
      BY <2>1 DEF TInv, Carries, At
    <3> QED BY <1>2, <2>1, <3>2, <3>3, <3>4
  <2>2. CASE At(r, "level", "remove")
    <3>1. PICK d : d = DeleteLevel(db, req[r].id, req[r].ids)
      OBVIOUS
    <3>2. /\ Sound(d) /\ d.kept = db.kept /\ d.enrolled \subseteq db.enrolled
          /\ DOMAIN d.classes = DOMAIN db.classes \ ClassesOf(db, req[r].id)
      BY <1>2, <3>1, DeleteLevelSound
    <3>3. (d.ok /\ db' = d) \/ db' = db
      BY <2>2, <3>1 DEF Delete, At
    <3>4. CASE db' = db
      BY <1>2, <3>4
    <3>5. CASE d.ok /\ db' = d
      <4>1. \A c \in DOMAIN db.classes \ DOMAIN db'.classes : db.classes[c].level = req[r].id
        BY <3>2, <3>5 DEF ClassesOf
      <4> QED BY <1>2, <2>2, <3>2, <3>5, <4>1
    <3> QED BY <3>3, <3>4, <3>5
  <2> QED BY <2>1, <2>2 DEF Delete, At
<1>4. Rows'
  BY <1>1, <1>3, DbRows
<1> QED BY <1>1, <1>3, <1>4, AnswerTyped

LEMMA PupilTyped ==
  ASSUME TInv, NEW s \in Students,
         (\E c \in DOMAIN db.classes : PlaceStudent(s, c)) \/ EnrollStudent(s)
  PROVE  TInv' /\ db'.classes = db.classes
<1>1. Sound(db) /\ db.ok /\ db.kept = {}
  BY DEF TInv, Rows
<1>2. UNCHANGED <<school, campuses, contacts, system, mirror, req, sent, edits>>
  BY DEF PlaceStudent, EnrollStudent
<1>3. Sound(db') /\ db'.ok /\ db'.kept = {} /\ db'.classes = db.classes
  <2>1. ASSUME NEW c \in DOMAIN db.classes, PlaceStudent(s, c)
        PROVE  Sound(db') /\ db'.ok /\ db'.kept = {} /\ db'.classes = db.classes
    <3>1. PICK p : p = [db.placed EXCEPT ![s] = c]
      OBVIOUS
    <3>2. db' = [db EXCEPT !.placed = p]
      BY <1>1, <2>1, <3>1 DEF PlaceStudent, Sound, DbFields
    <3>3. /\ DOMAIN db' = DbFields /\ db'.placed = p /\ db'.classes = db.classes /\ db'.levels = db.levels
          /\ db'.next = db.next /\ db'.kept = db.kept /\ db'.ok = db.ok
      BY <1>1, <3>2 DEF Sound, DbFields
    <3>4. DOMAIN p = Students /\ \A x \in Students : p[x] \in DOMAIN db.classes \cup {0}
      BY <1>1, <3>1 DEF Sound
    <3>5. Sound(db')
      BY <1>1, <3>3, <3>4 DEF Sound
    <3> QED BY <1>1, <3>3, <3>5
  <2>2. ASSUME EnrollStudent(s)
        PROVE  Sound(db') /\ db'.ok /\ db'.kept = {} /\ db'.classes = db.classes
    <3>1. /\ DOMAIN db' = DbFields /\ db'.placed = db.placed /\ db'.classes = db.classes /\ db'.levels = db.levels
          /\ db'.next = db.next /\ db'.kept = db.kept /\ db'.ok = db.ok
      BY <1>1, <2>2 DEF EnrollStudent, Sound, DbFields
    <3>2. Sound(db')
      BY <1>1, <3>1 DEF Sound
    <3> QED BY <1>1, <3>1, <3>2
  <2> QED BY <2>1, <2>2
<1>4. Rows'
  BY <1>2, <1>3, DbRows
<1>5. sent' \in 0 .. MaxRequests
  BY <1>2 DEF TInv, Counted
<1> QED BY <1>2, <1>3, <1>4, <1>5, BesideTyped

LEMMA InitTyped ==
  ASSUME Init
  PROVE  TInv
<1>1. PICK lacks \in Gaps :
        /\ school \in [filled : {"fields" \notin lacks}, committed : {FALSE}, live : {FALSE},
                       code : IF "code" \in lacks THEN {None} ELSE Codes]
        /\ campuses = IF "campus" \in lacks THEN 0 ELSE 1
        /\ contacts = IF "contact" \in lacks THEN 0 ELSE 1
        /\ db \in IF "structure" \in lacks THEN {EmptyDb} ELSE Drafts
  BY DEF Init
<1>2. school \in [filled : BOOLEAN, code : CodeValues, committed : BOOLEAN, live : BOOLEAN]
  BY <1>1 DEF CodeValues
<1>3. Sound(db) /\ db.ok /\ db.kept = {}
  BY <1>1, EmptySound, DraftsSound
<1>4. system \in Systems
  BY SetupAssumption DEF Init
<1>5. mirror \in CodeValues
  BY <1>2 DEF Init
<1>6. Rows
  BY <1>1, <1>2, <1>3, <1>4, <1>5 DEF Rows
<1>7. \A r \in Requests : req[r] = Idle
  BY DEF Init
<1>8. Counted
  BY SetupAssumption DEF Init, Counted
<1>9. Room
  <2>1. Inserting = {}
    BY <1>7, IdleCarries DEF Inserting
  <2>2. Cardinality(Inserting) = 0
    BY <2>1, FS_EmptySet
  <2>3. Cardinality(Requests) \in Nat /\ Cardinality(Requests) # 0
    BY SetupAssumption, FS_CardinalityType, FS_EmptySet
  <2> QED BY <1>1, <2>2, <2>3 DEF Room
<1> QED BY <1>6, <1>7, <1>8, <1>9, IdleCarries DEF TInv

\* What a save does to the classes and pupils it lists.
LEMMA SaveKeeps ==
  ASSUME Shape, TInv, NEW r \in Requests, SaveAcademicStructure(r)
  PROVE  /\ \A c \in DOMAIN db.classes \ DOMAIN db'.classes :
              c \notin Listed(req[r].payload) /\ c \in req[r].ids
         /\ db' # db =>
              \A i \in DOMAIN req[r].payload : \A j \in DOMAIN req[r].payload[i].sections :
                LET c == req[r].payload[i].sections[j].id IN
                c \in DOMAIN db.classes =>
                  /\ c \in DOMAIN db'.classes
                  /\ \A s \in Students : db.placed[s] = c => db'.placed[s] = c
                  /\ (\A k \in DOMAIN req[r].payload : req[r].payload[k].id \in DOMAIN db.levels \cup {0})
                       => db'.levels[db'.classes[c].level].name = req[r].payload[i].name
<1>1. PICK p : p = req[r].payload /\ Payload(p)
  BY DEF TInv, Carries, SaveAcademicStructure, At
<1>2. PICK d : d = SaveStructure(db, p, req[r].ids)
  OBVIOUS
<1>3. Sound(db)
  BY DEF TInv, Rows
<1>4. /\ Survives(db, d, Listed(p), req[r].ids)
      /\ (\A k \in 1 .. Len(p) : p[k].id \in DOMAIN db.levels \cup {0}) => Under(db, d, p, Len(p))
  BY <1>1, <1>2, <1>3, SaveStructureIs
<1>5. db' = d \/ db' = db
  BY <1>1, <1>2 DEF SaveAcademicStructure
<1>6. \A c \in DOMAIN db.classes \ DOMAIN db'.classes : c \notin Listed(p) /\ c \in req[r].ids
  BY <1>4, <1>5 DEF Survives
<1>7. ASSUME db' # db, NEW i \in DOMAIN p, NEW j \in DOMAIN p[i].sections, NEW c, c = p[i].sections[j].id,
             c \in DOMAIN db.classes
      PROVE  /\ c \in DOMAIN db'.classes
             /\ \A s \in Students : db.placed[s] = c => db'.placed[s] = c
             /\ (\A k \in DOMAIN p : p[k].id \in DOMAIN db.levels \cup {0})
                  => db'.levels[db'.classes[c].level].name = p[i].name
  <2>1. db' = d
    BY <1>5, <1>7
  <2>2. i \in 1 .. Len(p) /\ DOMAIN p = 1 .. Len(p) /\ j \in 1 .. Len(p[i].sections)
    BY <1>1, PayloadParts
  <2>3. c \in SectionIds(p[i])
    BY <1>7, <2>2 DEF SectionIds
  <2>4. c \in Listed(p)
    BY <1>1, <2>2, <2>3, SectionsAreListed
  <2>5. c \in DOMAIN d.classes /\ \A s \in Students : db.placed[s] = c => d.placed[s] = c
    BY <1>4, <1>7, <2>4 DEF Survives
  <2>6. ASSUME \A k \in DOMAIN p : p[k].id \in DOMAIN db.levels \cup {0}
        PROVE  d.levels[d.classes[c].level].name = p[i].name
    <3>1. Under(db, d, p, Len(p))
      BY <1>4, <2>2, <2>6
    <3> QED BY <1>7, <2>2, <2>3, <3>1 DEF Under
  <2> QED BY <2>1, <2>5, <2>6
<1>8. ASSUME db' # db
      PROVE  \A i \in DOMAIN p : \A j \in DOMAIN p[i].sections :
               LET c == p[i].sections[j].id IN
               c \in DOMAIN db.classes =>
                 /\ c \in DOMAIN db'.classes
                 /\ \A s \in Students : db.placed[s] = c => db'.placed[s] = c
                 /\ (\A k \in DOMAIN p : p[k].id \in DOMAIN db.levels \cup {0})
                      => db'.levels[db'.classes[c].level].name = p[i].name
  BY <1>7, <1>8
<1> QED BY <1>1, <1>6, <1>8

-------------------------------------------------------------------------------
(* The theorems about the rows and the structure.                              *)

LEMMA NextTyped ==
  ASSUME IInv, TInv, [Next]_vars
  PROVE  TInv'
<1>0. Shape
  BY DEF IInv
<1>1. CASE UNCHANGED vars
  <2>1. UNCHANGED stored /\ UNCHANGED <<req, sent, edits>>
    BY <1>1 DEF vars
  <2>2. Rows' /\ campuses' = campuses
    BY <2>1, SameRows
  <2>3. sent' \in 0 .. MaxRequests
    BY <2>1 DEF TInv, Counted
  <2> QED BY <2>1, <2>2, <2>3, BesideTyped
<1>2. CASE Next
  <2>2. CASE \E s \in Students : (\E c \in DOMAIN db.classes : PlaceStudent(s, c)) \/ EnrollStudent(s)
    BY <2>2, PupilTyped
  <2>3. ASSUME NEW r \in Requests,
               \/ \E p \in Patches : UpdateProfileCheck(r, p)
               \/ UpdateProfile(r) \/ SyncTenantMirror(r)
               \/ UpsertCampusRead(r) \/ UpsertCampus(r) \/ WriteContact(r)
               \/ CommitProfileCheck(r) \/ CommitProfileReads(r) \/ StampProfileCommitted(r)
               \/ ActivateCheck(r) \/ ActivateReads(r) \/ Activate(r) \/ Reread(r)
        PROVE  TInv'
    <3>1. Reread(r) => req[r].op # "campus"
      BY DEF Reread, IInv, Mirrored
    <3> QED BY <1>0, <2>3, <3>1, UpdateProfileCheckTyped, UpdateProfileTyped, SyncTenantMirrorTyped,
       UpsertCampusReadTyped, UpsertCampusTyped, WriteContactTyped, CommitProfileCheckTyped,
       CommitProfileReadsTyped, ActivateReadsTyped, StampProfileCommittedTyped, ActivateTyped, RereadTyped
  <2>4. ASSUME NEW r \in Requests,
               \/ \E g \in Gated : GateRead(r, g)
               \/ GateReadsStructure(r) \/ GrandfatherActivateIfMissing(r)
               \/ GetAcademicStructure(r) \/ GetLevelsAndClasses(r)
               \/ \E p \in Edits(req[r].payload), s \in Systems \cup {Blank} : PostAcademicStructure(r, p, s)
               \/ CompareSystem(r) \/ SaveChecks(r) \/ SaveAcademicStructure(r)
        PROVE  TInv'
    BY <1>0, <2>4, GateReadTyped, GateReadsStructureTyped, GrandfatherTyped, GetAcademicStructureTyped,
       GetLevelsAndClassesTyped, PostAcademicStructureTyped, CompareSystemTyped, SaveChecksTyped,
       SaveAcademicStructureTyped
  <2>5. ASSUME NEW r \in Requests,
               \/ \E f \in Files : CommitStructureImport(r, f)
               \/ GetLevelByName(r) \/ UpsertLevelByName(r)
               \/ GetClassByNameAndLevel(r) \/ UpsertClassByNameAndLevel(r)
               \/ GetLevelById(r) \/ UpdateLevel(r)
               \/ BlockIfClassesHaveEnrollmentHistory(r) \/ Delete(r)
        PROVE  TInv'
    BY <1>0, <2>5, CommitStructureImportTyped, GetLevelByNameTyped, UpsertLevelByNameTyped, GetClassTyped,
       UpsertClassTyped, GetLevelByIdTyped, UpdateLevelTyped, BlockTyped, DeleteTyped
  <2> QED BY <1>2, <2>2, <2>3, <2>4, <2>5 DEF Next, Step
<1> QED BY <1>1, <1>2

-------------------------------------------------------------------------------
(* The enrolments of the sections that a request is going to remove.           *)

\* Whatever such a section has in enrolments came in after the check.
Watched ==
  \A r \in Requests : req[r].pc = "remove" => \A c \in req[r].ids \cap db.enrolled : c \in late

\* The steps that write the structure.
LEMMA StructureWriters ==
  ASSUME [Next]_vars, db' # db
  PROVE  \/ \E s \in Students : (\E c \in DOMAIN db.classes : PlaceStudent(s, c)) \/ EnrollStudent(s)
         \/ \E r \in Requests : \/ UpsertLevelByName(r) \/ UpsertClassByNameAndLevel(r)
                                \/ UpdateLevel(r) \/ Delete(r)
         \/ \E r \in Requests : SaveAcademicStructure(r)
<1>1. ~UNCHANGED stored /\ Next
  BY Untouched DEF vars
<1>2. ASSUME NEW r \in Requests,
             \/ UpdateProfile(r) \/ SyncTenantMirror(r) \/ UpsertCampus(r) \/ WriteContact(r)
             \/ StampProfileCommitted(r) \/ Activate(r) \/ GrandfatherActivateIfMissing(r)
      PROVE  FALSE
  BY <1>2 DEF UpdateProfile, SyncTenantMirror, UpsertCampus, WriteContact, StampProfileCommitted,
              Activate, GrandfatherActivateIfMissing, GoLive
<1>3. ASSUME NEW r \in Requests,
             \/ \E p \in Patches : UpdateProfileCheck(r, p)
             \/ UpsertCampusRead(r) \/ CommitProfileCheck(r) \/ CommitProfileReads(r)
             \/ ActivateCheck(r) \/ ActivateReads(r) \/ Reread(r)
             \/ \E g \in Gated : GateRead(r, g)
             \/ GateReadsStructure(r) \/ GetAcademicStructure(r) \/ GetLevelsAndClasses(r)
             \/ \E p \in Edits(req[r].payload), s \in Systems \cup {Blank} : PostAcademicStructure(r, p, s)
             \/ CompareSystem(r) \/ SaveChecks(r)
             \/ \E f \in Files : CommitStructureImport(r, f)
             \/ GetLevelByName(r) \/ GetClassByNameAndLevel(r) \/ GetLevelById(r)
             \/ BlockIfClassesHaveEnrollmentHistory(r)
      PROVE  FALSE
  BY <1>1, <1>3 DEF UpdateProfileCheck, UpsertCampusRead, CommitProfileCheck, CommitProfileReads,
              ActivateCheck, ActivateReads, Reread, GateRead, GateReadsStructure,
              GetAcademicStructure, GetLevelsAndClasses, PostAcademicStructure, CompareSystem,
              SaveChecks, CommitStructureImport,
              GetLevelByName, GetClassByNameAndLevel, GetLevelById,
              BlockIfClassesHaveEnrollmentHistory
<1>4. Step
  BY <1>1 DEF Next
<1> QED BY <1>2, <1>3, <1>4 DEF Step

\* Enrolments come in by EnrollStudent only.
LEMMA EnrolledGrows ==
  ASSUME Shape, TInv, [Next]_vars, ~(db'.enrolled \subseteq db.enrolled)
  PROVE  \E s \in Students : EnrollStudent(s)
<1>1. db' # db
  OBVIOUS
<1>2. ASSUME NEW s \in Students, NEW c \in DOMAIN db.classes, PlaceStudent(s, c)
      PROVE  FALSE
  <2>1. DOMAIN db = DbFields
    BY DEF TInv, Rows, Sound
  <2>2. db'.enrolled = db.enrolled
    BY <1>2, <2>1 DEF PlaceStudent, DbFields
  <2> QED BY <2>2
<1>3. ASSUME NEW r \in Requests,
             UpsertLevelByName(r) \/ UpsertClassByNameAndLevel(r) \/ UpdateLevel(r) \/ Delete(r)
      PROVE  FALSE
  BY <1>3, UpsertLevelByNameTyped, UpsertClassTyped, UpdateLevelTyped, DeleteTyped
<1>4. ASSUME NEW r \in Requests, SaveAcademicStructure(r)
      PROVE  FALSE
  BY <1>4, SaveAcademicStructureTyped
<1> QED BY <1>1, <1>2, <1>3, <1>4, StructureWriters

\* A step of request o changes no other one.
LEMMA OwnStep ==
  ASSUME Shape, NEW o \in Requests, NEW q, req' = [req EXCEPT ![o] = q],
         NEW r \in Requests, req'[r] # req[r]
  PROVE  r = o /\ req'[r] = q
  BY DEF Shape

\* Another pc.
LEMMA PcIs ==
  ASSUME Shape, NEW r \in Requests, NEW l, To(r, l), req'[r] # req[r]
  PROVE  req'[r].pc = l
<1>1. PICK q : q = [req[r] EXCEPT !.pc = l] /\ req' = [req EXCEPT ![r] = q]
  BY DEF To, Then, Go
<1> QED BY <1>1, PcShape DEF Shape

\* A step of o that ends in one of these ways sends o nowhere near a removal.
LEMMA NotRemoving ==
  ASSUME Shape, NEW o \in Requests, NEW q, req' = [req EXCEPT ![o] = q], q.pc # "remove",
         NEW r \in Requests, req'[r] # req[r]
  PROVE  req'[r].pc # "remove"
  BY OwnStep

LEMMA SetupNotRemoving ==
  ASSUME Shape, NEW o \in Requests, NEW r \in Requests, req'[r] # req[r],
         \/ \E p \in Patches : UpdateProfileCheck(o, p)
         \/ UpdateProfile(o) \/ SyncTenantMirror(o)
         \/ UpsertCampusRead(o) \/ UpsertCampus(o) \/ WriteContact(o)
         \/ CommitProfileCheck(o) \/ CommitProfileReads(o) \/ StampProfileCommitted(o)
         \/ ActivateCheck(o) \/ ActivateReads(o) \/ Activate(o) \/ Reread(o)
  PROVE  req'[r].pc # "remove"
<1>0. DOMAIN req[o] = Fields /\ Idle.pc = "idle" /\ DOMAIN Idle = Fields
  BY IdleShape DEF Shape
<1>1. CASE \/ \E p \in Patches : UpdateProfileCheck(o, p)
           \/ UpsertCampusRead(o) \/ CommitProfileCheck(o) \/ ActivateCheck(o)
  <2>1. PICK q : /\ Begin(o, q)
                 /\ \/ \E p \in Patches : q = [Idle EXCEPT !.op = "profile", !.pc = "write", !.to = p.code,
                                                         !.active = p.filled]
                    \/ q = [Idle EXCEPT !.op = "campus", !.pc = IF campuses > 0 THEN "update" ELSE "insert"]
                    \/ q = [Idle EXCEPT !.op = "commit", !.pc = "campus"]
                    \/ q = [Idle EXCEPT !.op = "activate", !.pc = "structure"]
    BY <1>1 DEF UpdateProfileCheck, UpsertCampusRead, CommitProfileCheck, ActivateCheck
  <2>2. q.pc \in {"write", "update", "insert", "campus", "structure"}
    BY <2>1 DEF Idle
  <2> QED BY <2>1, <2>2, NotRemoving DEF Begin
<1>2. CASE ActivateReads(o) \/ Activate(o)
  <2>1. PICK q : /\ req' = [req EXCEPT ![o] = q]
                 /\ \/ q = Idle
                    \/ q = [req[o] EXCEPT !.pc = "classes", !.ids = ActiveLevels(db)]
                    \/ q = [req[o] EXCEPT !.pc = "stamp", !.ids = {}]
                    \/ q = [req[o] EXCEPT !.pc = "reread"]
    BY <1>2 DEF ActivateReads, Activate, ReadLevels, Answer, Then, Go, GoLive
  <2>2. q.pc \in {"idle", "classes", "stamp", "reread"}
    BY <1>0, <2>1 DEF Fields
  <2> QED BY <2>1, <2>2, NotRemoving
<1>5. CASE UpdateProfile(o) \/ Reread(o)
  <2>1. PICK q : /\ Then(o, q)
                 /\ \/ q = [req[o] EXCEPT !.pc = "mirror", !.to = school'.code]
                    \/ q = [req[o] EXCEPT !.pc = "mirror", !.to = school.code]
    BY <1>5 DEF UpdateProfile, Reread
  <2>2. q.pc = "mirror"
    BY <1>0, <2>1 DEF Fields
  <2> QED BY <2>1, <2>2, NotRemoving DEF Then, Go
<1>3. CASE CommitProfileReads(o) \/ StampProfileCommitted(o)
  <2>1. PICK q : /\ req' = [req EXCEPT ![o] = q]
                 /\ q = Idle \/ \E l \in {"contact", "stamp", "reread"} : q = [req[o] EXCEPT !.pc = l]
    BY <1>3 DEF CommitProfileReads, StampProfileCommitted, To, Answer, Then, Go
  <2>2. q.pc \in {"idle", "contact", "stamp", "reread"}
    BY <1>0, <2>1 DEF Fields
  <2> QED BY <2>1, <2>2, NotRemoving
<1>4. CASE SyncTenantMirror(o) \/ UpsertCampus(o) \/ WriteContact(o)
  <2>1. req' = [req EXCEPT ![o] = Idle] \/ req' = req
    BY <1>4 DEF SyncTenantMirror, UpsertCampus, WriteContact, Answer, Then, Go
  <2> QED BY <1>0, <2>1, NotRemoving
<1> QED BY <1>1, <1>2, <1>3, <1>4, <1>5

LEMMA WizardNotRemoving ==
  ASSUME Shape, NEW o \in Requests, NEW r \in Requests, req'[r] # req[r],
         \/ \E g \in Gated : GateRead(o, g)
         \/ GateReadsStructure(o) \/ GrandfatherActivateIfMissing(o)
         \/ GetAcademicStructure(o) \/ GetLevelsAndClasses(o)
         \/ \E p \in Edits(req[o].payload), s \in Systems \cup {Blank} : PostAcademicStructure(o, p, s)
         \/ CompareSystem(o) \/ SaveAcademicStructure(o)
  PROVE  req'[r].pc # "remove"
<1>0. DOMAIN req[o] = Fields /\ Idle.pc = "idle" /\ DOMAIN Idle = Fields
  BY IdleShape DEF Shape
<1>1. ASSUME NEW q, DOMAIN q = Fields PROVE Endpoint(q).pc # "remove"
  BY <1>0, <1>1 DEF Endpoint, Fields
<1>2. ASSUME NEW g \in Gated, GateRead(o, g)
      PROVE  req'[r].pc # "remove"
  <2>1. PICK q : q = [Idle EXCEPT !.op = g.op, !.name = g.name, !.id = g.id, !.active = g.active]
    OBVIOUS
  <2>2. DOMAIN q = Fields
    BY <2>1 DEF Idle, Fields
  <2>3. PICK z : /\ Begin(o, z)
                 /\ z = Endpoint(q) \/ z = [q EXCEPT !.pc = "structure?"]
    BY <1>2, <2>1 DEF GateRead
  <2>4. z.pc # "remove"
    <3>1. CASE z = Endpoint(q)
      BY <1>1, <2>2, <3>1
    <3>2. CASE z = [q EXCEPT !.pc = "structure?"]
      BY <2>2, <3>2 DEF Fields
    <3> QED BY <2>3, <3>1, <3>2
  <2> QED BY <2>3, <2>4, NotRemoving DEF Begin
<1>3. CASE GateReadsStructure(o) \/ GrandfatherActivateIfMissing(o)
  <2>1. PICK q : /\ req' = [req EXCEPT ![o] = q]
                 /\ \/ q = Idle \/ q = Endpoint(req[o])
                    \/ q = [req[o] EXCEPT !.pc = "classes?", !.ids = ActiveLevels(db)]
                    \/ q = [req[o] EXCEPT !.pc = "grandfather"]
    BY <1>3 DEF GateReadsStructure, GrandfatherActivateIfMissing, ReadLevels, To, Answer, Then, Go, GoLive
  <2>2. q.pc # "remove"
    BY <1>0, <1>1, <2>1 DEF Fields
  <2> QED BY <2>1, <2>2, NotRemoving
<1>4. CASE GetAcademicStructure(o)
  <2>1. PICK q : q = [Idle EXCEPT !.op = "save", !.pc = "levels", !.to = system] /\ Begin(o, q)
    BY <1>4 DEF GetAcademicStructure
  <2>2. q.pc = "levels"
    BY <2>1 DEF Idle
  <2> QED BY <2>1, <2>2, NotRemoving DEF Begin
<1>5. CASE GetLevelsAndClasses(o)
  <2>1. PICK q : /\ req' = [req EXCEPT ![o] = q]
                 /\ \E p : \/ q = [req[o] EXCEPT !.pc = "classes", !.payload = p]
                           \/ q = [req[o] EXCEPT !.pc = "fetched", !.payload = p]
    <3>1. CASE At(o, "save", "levels")
      BY <1>5, <3>1 DEF GetLevelsAndClasses, At, Then, Go
    <3>2. CASE At(o, "save", "classes")
      <4>1. Then(o, [req[o] EXCEPT !.pc = "fetched", !.payload = FetchedClasses(db, @)])
        BY <1>5, <3>2 DEF GetLevelsAndClasses, At
      <4>2. PICK p : p = FetchedClasses(db, req[o].payload)
        OBVIOUS
      <4>3. Then(o, [req[o] EXCEPT !.pc = "fetched", !.payload = p])
        BY <1>0, <4>1, <4>2 DEF Fields
      <4> QED BY <4>3 DEF Then, Go
    <3> QED BY <1>5, <3>1, <3>2 DEF GetLevelsAndClasses
  <2>2. q.pc \in {"classes", "fetched"}
    BY <1>0, <2>1 DEF Fields
  <2> QED BY <2>1, <2>2, NotRemoving
<1>6. ASSUME NEW p \in Edits(req[o].payload), NEW s \in Systems \cup {Blank}, PostAcademicStructure(o, p, s)
      PROVE  req'[r].pc # "remove"
  <2>1. PICK l : l = IF school.live THEN "compare" ELSE "save"
    OBVIOUS
  <2>2. PICK q : q = [req[o] EXCEPT !.payload = p, !.to = s, !.pc = l] /\ req' = [req EXCEPT ![o] = q]
    BY <1>6, <2>1 DEF PostAcademicStructure, Then, Go
  <2>3. q.pc = l
    BY <1>0, <2>2 DEF Fields
  <2> QED BY <2>1, <2>2, <2>3, NotRemoving
<1>7. CASE CompareSystem(o) \/ SaveAcademicStructure(o)
  <2>1. PICK q : req' = [req EXCEPT ![o] = q] /\ (q = Idle \/ q = [req[o] EXCEPT !.pc = "save"])
    BY <1>7 DEF CompareSystem, SaveAcademicStructure, To, Answer, Then, Go
  <2>2. q.pc \in {"idle", "save"}
    BY <1>0, <2>1 DEF Fields
  <2> QED BY <2>1, <2>2, NotRemoving
<1> QED BY <1>2, <1>3, <1>4, <1>5, <1>6, <1>7

LEMMA EndpointsNotRemoving ==
  ASSUME Shape, NEW o \in Requests, NEW r \in Requests, req'[r] # req[r],
         \/ \E f \in Files : CommitStructureImport(o, f)
         \/ GetLevelByName(o) \/ UpsertLevelByName(o)
         \/ GetClassByNameAndLevel(o) \/ UpsertClassByNameAndLevel(o)
         \/ GetLevelById(o) \/ UpdateLevel(o) \/ Delete(o)
  PROVE  req'[r].pc # "remove"
<1>0. DOMAIN req[o] = Fields /\ Idle.pc = "idle" /\ DOMAIN Idle = Fields
  BY IdleShape DEF Shape
<1>1. NextRow(o).pc # "remove"
  <2>1. PICK t : t = Tail(req[o].rows)
    OBVIOUS
  <2>2. NextRow(o) = Idle \/ NextRow(o) = [req[o] EXCEPT !.rows = t, !.pc = "grade", !.id = 0, !.class = 0]
    BY <1>0, <2>1 DEF NextRow, Fields
  <2> QED BY <1>0, <2>2 DEF Fields
<1>2. ASSUME NEW f \in Files, CommitStructureImport(o, f)
      PROVE  req'[r].pc # "remove"
  <2>1. PICK q : q = [Idle EXCEPT !.op = "import", !.pc = "grade", !.rows = f] /\ Begin(o, q)
    BY <1>2 DEF CommitStructureImport
  <2>2. q.pc = "grade"
    BY <2>1 DEF Idle
  <2> QED BY <2>1, <2>2, NotRemoving DEF Begin
<1>3. CASE GetLevelByName(o) \/ UpsertLevelByName(o) \/ GetClassByNameAndLevel(o) \/ UpsertClassByNameAndLevel(o)
  <2>1. PICK q : /\ req' = [req EXCEPT ![o] = q]
                 /\ \/ q = Idle \/ q = NextRow(o)
                    \/ \E l : q = [req[o] EXCEPT !.pc = "upsert grade", !.id = l]
                    \/ \E l : q = [req[o] EXCEPT !.pc = "class", !.id = l]
                    \/ \E c : q = [req[o] EXCEPT !.pc = "upsert class", !.class = c]
    BY <1>3 DEF GetLevelByName, UpsertLevelByName, GetClassByNameAndLevel, UpsertClassByNameAndLevel, Then, Go
  <2>2. q.pc # "remove"
    BY <1>0, <1>1, <2>1 DEF Fields
  <2> QED BY <2>1, <2>2, NotRemoving
<1>4. CASE GetLevelById(o)
  <2>1. PICK n, a : \/ Answer(o)
                    \/ Then(o, [req[o] EXCEPT !.pc = "write", !.name = n, !.active = a])
    BY <1>0, <1>4 DEF GetLevelById, Fields
  <2>2. PICK q : /\ req' = [req EXCEPT ![o] = q]
                 /\ q = Idle \/ q = [req[o] EXCEPT !.pc = "write", !.name = n, !.active = a]
    BY <2>1 DEF Answer, Then, Go
  <2>3. q.pc \in {"idle", "write"}
    BY <1>0, <2>2 DEF Fields
  <2> QED BY <2>2, <2>3, NotRemoving
<1>5. CASE UpdateLevel(o) \/ Delete(o)
  <2>1. req' = [req EXCEPT ![o] = Idle]
    BY <1>5 DEF UpdateLevel, Delete, Answer, Then, Go
  <2> QED BY <1>0, <2>1, NotRemoving
<1> QED BY <1>2, <1>3, <1>4, <1>5

\* The checks of a removal find no enrolments.
LEMMA ChecksAreClear ==
  ASSUME Shape, TInv, NEW o \in Requests, NEW r \in Requests, req'[r] # req[r], req'[r].pc = "remove",
         SaveChecks(o) \/ BlockIfClassesHaveEnrollmentHistory(o)
  PROVE  req'[r].ids \cap db.enrolled = {} /\ db' = db
<1>0. DOMAIN req[o] = Fields /\ Idle.pc = "idle" /\ db' = db
  BY IdleShape, Untouched DEF Shape, SaveChecks, BlockIfClassesHaveEnrollmentHistory
<1>1. PICK q : /\ req' = [req EXCEPT ![o] = q]
               /\ \/ q = Idle
                  \/ \E ids : q = [req[o] EXCEPT !.pc = "remove", !.ids = ids] /\ ids \cap db.enrolled = {}
  <2>1. CASE SaveChecks(o)
    <3>1. PICK d, ids : d = SaveStructure(db, req[o].payload, DOMAIN db.classes)
                        /\ ids = DOMAIN db.classes \ DOMAIN d.classes
      OBVIOUS
    <3>2. \/ Then(o, [req[o] EXCEPT !.pc = "remove", !.ids = ids]) /\ ids \cap db.enrolled = {}
          \/ Answer(o)
      BY <2>1, <3>1 DEF SaveChecks
    <3> QED BY <3>2 DEF Answer, Then, Go
  <2>2. CASE BlockIfClassesHaveEnrollmentHistory(o)
    <3>1. PICK ids : ids = IF req[o].op = "class" THEN {req[o].id} ELSE ClassesOf(db, req[o].id)
      OBVIOUS
    <3>2. \/ Then(o, [req[o] EXCEPT !.pc = "remove", !.ids = ids]) /\ ids \cap db.enrolled = {}
          \/ Answer(o)
      BY <2>2, <3>1 DEF BlockIfClassesHaveEnrollmentHistory
    <3> QED BY <3>2 DEF Answer, Then, Go
  <2> QED BY <2>1, <2>2
<1>2. r = o /\ req'[r] = q
  BY <1>1, OwnStep
<1>3. PICK ids : q = [req[o] EXCEPT !.pc = "remove", !.ids = ids] /\ ids \cap db.enrolled = {}
  BY <1>0, <1>1, <1>2
<1>4. q.ids = ids
  BY <1>0, <1>3 DEF Fields
<1> QED BY <1>0, <1>2, <1>3, <1>4

\* Where the removals of a request come from.
LEMMA Removers ==
  ASSUME Shape, TInv, [Next]_vars, NEW r \in Requests, req'[r] # req[r], req'[r].pc = "remove"
  PROVE  req'[r].ids \cap db.enrolled = {} /\ db' = db
<1>1. Step
  BY DEF Next, vars
<1>2. ~\E s \in Students : (\E c \in DOMAIN db.classes : PlaceStudent(s, c)) \/ EnrollStudent(s)
  BY DEF PlaceStudent, EnrollStudent
<1>3. PICK o \in Requests : SaveChecks(o) \/ BlockIfClassesHaveEnrollmentHistory(o)
  BY <1>1, <1>2, SetupNotRemoving, WizardNotRemoving, EndpointsNotRemoving DEF Step
<1> QED BY <1>3, ChecksAreClear

\* The late sections are not forgotten.
LEMMA LateGrows ==
  ASSUME [Next]_vars
  PROVE  late \subseteq late'
<1>1. CASE UNCHANGED vars
  BY <1>1 DEF vars
<1>2. ASSUME NEW r \in Requests,
             \/ \E p \in Patches : UpdateProfileCheck(r, p)
             \/ UpdateProfile(r) \/ SyncTenantMirror(r)
             \/ UpsertCampusRead(r) \/ UpsertCampus(r) \/ WriteContact(r)
             \/ CommitProfileCheck(r) \/ CommitProfileReads(r) \/ StampProfileCommitted(r)
             \/ ActivateCheck(r) \/ ActivateReads(r) \/ Activate(r) \/ Reread(r)
      PROVE  late' = late
  BY <1>2 DEF UpdateProfileCheck, UpdateProfile, SyncTenantMirror, UpsertCampusRead, UpsertCampus,
              WriteContact, CommitProfileCheck, CommitProfileReads, StampProfileCommitted,
              ActivateCheck, ActivateReads, Activate, Reread, ReadLevels, Begin, To, Answer, Then, Go, GoLive
<1>3. ASSUME NEW r \in Requests,
             \/ \E g \in Gated : GateRead(r, g)
             \/ GateReadsStructure(r) \/ GrandfatherActivateIfMissing(r)
             \/ GetAcademicStructure(r) \/ GetLevelsAndClasses(r)
             \/ \E p \in Edits(req[r].payload), s \in Systems \cup {Blank} : PostAcademicStructure(r, p, s)
             \/ CompareSystem(r) \/ SaveChecks(r) \/ SaveAcademicStructure(r)
      PROVE  late' = late
  BY <1>3 DEF GateRead, GateReadsStructure, GrandfatherActivateIfMissing, GetAcademicStructure,
              GetLevelsAndClasses, PostAcademicStructure, CompareSystem, SaveChecks,
              SaveAcademicStructure, ReadLevels, Begin, To, Answer, Then, Go, GoLive
<1>4. ASSUME NEW r \in Requests,
             \/ \E f \in Files : CommitStructureImport(r, f)
             \/ GetLevelByName(r) \/ UpsertLevelByName(r)
             \/ GetClassByNameAndLevel(r) \/ UpsertClassByNameAndLevel(r)
             \/ GetLevelById(r) \/ UpdateLevel(r)
             \/ BlockIfClassesHaveEnrollmentHistory(r) \/ Delete(r)
      PROVE  late' = late
  BY <1>4 DEF CommitStructureImport, GetLevelByName, UpsertLevelByName, GetClassByNameAndLevel,
              UpsertClassByNameAndLevel, GetLevelById, UpdateLevel, BlockIfClassesHaveEnrollmentHistory,
              Delete, Begin, Answer, Then, Go
<1>5. ASSUME NEW s \in Students, (\E c \in DOMAIN db.classes : PlaceStudent(s, c)) \/ EnrollStudent(s)
      PROVE  late \subseteq late'
  BY <1>5 DEF PlaceStudent, EnrollStudent
<1> QED BY <1>1, <1>2, <1>3, <1>4, <1>5 DEF Next, Step

\* Every enrolment of a section about to go is a late one.
LEMMA WatchedStep ==
  ASSUME Shape, TInv, Watched, [Next]_vars
  PROVE  Watched'
<1> SUFFICES ASSUME NEW r \in Requests, req'[r].pc = "remove", NEW c \in req'[r].ids \cap db'.enrolled
             PROVE  c \in late'
  BY DEF Watched
<1>1. CASE req'[r] # req[r]
  BY <1>1, Removers
<1>2. CASE req'[r] = req[r] /\ c \in db.enrolled
  BY <1>2, LateGrows DEF Watched
<1>3. CASE req'[r] = req[r] /\ c \notin db.enrolled
  <2>1. PICK s \in Students : EnrollStudent(s)
    BY <1>3, EnrolledGrows
  <2>2. db'.enrolled = db.enrolled \cup {db.placed[s]}
    BY <2>1 DEF EnrollStudent, TInv, Rows, Sound, DbFields
  <2>3. c = db.placed[s]
    BY <1>3, <2>2
  <2> QED BY <1>3, <2>1, <2>3 DEF EnrollStudent
<1> QED BY <1>1, <1>2, <1>3

(* Whatever a request carries from one statement to the next fits the rows   *)
(* it will be written to, every structure a client posts names each level    *)
(* and section once, and an enrolment of a section that a request is about   *)
(* to remove came in after the request's check.                              *)
THEOREM SetupTInv == Spec => [](IInv /\ TInv /\ Watched)
<1>1. Init => IInv /\ TInv /\ Watched
  <2>1. Init => Watched
    BY IdleShape DEF Init, Watched
  <2> QED BY <2>1, InitInv, InitTyped
<1>2. IInv /\ TInv /\ Watched /\ [Next]_vars => (IInv /\ TInv /\ Watched)'
  BY NextInv, NextTyped, WatchedStep DEF IInv
<1> QED BY <1>1, <1>2, PTL DEF Spec

(* The rows keep their domains and their constraints. *)
THEOREM SetupTyped == Spec => []TypeOK
<1>1. IInv /\ TInv => TypeOK
  BY TInvImpliesTypeOK
<1> QED BY <1>1, SetupTInv, PTL

-------------------------------------------------------------------------------
(* What may happen to a section.                                               *)

\* The first half of SectionsAreKept.
Removals ==
  \A c \in DOMAIN db.classes \ DOMAIN db'.classes : \E r \in Requests :
    \/ /\ \/ At(r, "save", "remove") /\ c \notin Listed(req[r].payload)
          \/ At(r, "class", "remove") /\ c = req[r].id
       /\ c \in db.enrolled => c \in late
    \/ At(r, "level", "remove") /\ db.classes[c].level = req[r].id

\* The second half, for one save.
Keeps(r) ==
  \A i \in DOMAIN req[r].payload : \A j \in DOMAIN req[r].payload[i].sections :
    LET c == req[r].payload[i].sections[j].id IN
    c \in DOMAIN db.classes =>
      /\ c \in DOMAIN db'.classes
      /\ \A s \in Students : db.placed[s] = c => db'.placed[s] = c
      /\ (\A k \in DOMAIN req[r].payload : req[r].payload[k].id \in DOMAIN db.levels \cup {0})
           => db'.levels[db'.classes[c].level].name = req[r].payload[i].name

LEMMA StepRemoves ==
  ASSUME IInv, TInv, Watched, [Next]_vars
  PROVE  Removals
<1>0. Shape
  BY DEF IInv
<1>1. CASE DOMAIN db.classes \subseteq DOMAIN db'.classes
  BY <1>1 DEF Removals
<1>2. ASSUME NEW r \in Requests, SaveAcademicStructure(r) PROVE Removals
  <2>1. At(r, "save", "remove") /\ \A c \in req[r].ids \cap db.enrolled : c \in late
    BY <1>2 DEF SaveAcademicStructure, Watched, At
  <2>2. \A c \in DOMAIN db.classes \ DOMAIN db'.classes :
          c \notin Listed(req[r].payload) /\ c \in req[r].ids
    BY <1>0, <1>2, SaveKeeps
  <2> QED BY <2>1, <2>2 DEF Removals
<1>3. ASSUME NEW r \in Requests, Delete(r) PROVE Removals
  <2>1. \A c \in req[r].ids \cap db.enrolled : c \in late
    BY <1>3 DEF Delete, Watched
  <2>2. \A c \in DOMAIN db.classes \ DOMAIN db'.classes :
          \/ At(r, "class", "remove") /\ c = req[r].id /\ c \in req[r].ids
          \/ At(r, "level", "remove") /\ db.classes[c].level = req[r].id
    BY <1>0, <1>3, DeleteTyped
  <2> QED BY <2>1, <2>2 DEF Removals
<1>4. ASSUME NEW r \in Requests, UpsertLevelByName(r) \/ UpsertClassByNameAndLevel(r) \/ UpdateLevel(r)
      PROVE  DOMAIN db.classes \subseteq DOMAIN db'.classes
  BY <1>0, <1>4, UpsertLevelByNameTyped, UpsertClassTyped, UpdateLevelTyped
<1>5. ASSUME NEW s \in Students, (\E c \in DOMAIN db.classes : PlaceStudent(s, c)) \/ EnrollStudent(s)
      PROVE  DOMAIN db.classes \subseteq DOMAIN db'.classes
  BY <1>5, PupilTyped
<1>6. CASE db' = db
  BY <1>1, <1>6
<1> QED BY <1>1, <1>2, <1>3, <1>4, <1>5, <1>6, StructureWriters

LEMMA StepKeeps ==
  ASSUME IInv, TInv, [Next]_vars, NEW r \in Requests, At(r, "save", "remove"), req'[r] = Idle, db' # db
  PROVE  Keeps(r)
<1>0. Shape /\ req[r] # Idle
  BY IdleShape DEF IInv, At
<1>1. ASSUME NEW o \in Requests, o # r, NEW q, req' = [req EXCEPT ![o] = q] PROVE FALSE
  BY <1>0, <1>1 DEF Shape
<1>2. ~UNCHANGED req
  BY <1>0
<1>3. ~\E s \in Students : (\E c \in DOMAIN db.classes : PlaceStudent(s, c)) \/ EnrollStudent(s)
  BY <1>2 DEF PlaceStudent, EnrollStudent
<1>4. ASSUME NEW o \in Requests,
             UpsertLevelByName(o) \/ UpsertClassByNameAndLevel(o) \/ UpdateLevel(o) \/ Delete(o)
      PROVE  FALSE
  <2>1. o # r
    BY <1>4 DEF UpsertLevelByName, UpsertClassByNameAndLevel, UpdateLevel, Delete, At
  <2>2. \E q : req' = [req EXCEPT ![o] = q]
    BY <1>4 DEF UpsertLevelByName, UpsertClassByNameAndLevel, UpdateLevel, Delete, Answer, Then, Go
  <2> QED BY <1>1, <2>1, <2>2
<1>5. ASSUME NEW o \in Requests, SaveAcademicStructure(o)
      PROVE  o = r
  BY <1>1, <1>5 DEF SaveAcademicStructure
<1>6. SaveAcademicStructure(r)
  BY <1>3, <1>4, <1>5, StructureWriters
<1> QED BY <1>0, <1>6, SaveKeeps DEF Keeps

(* However saves, imports and deletions interleave, for structures of any    *)
(* size: a section goes only when a save left it out or a delete named it or *)
(* its level; what goes with one that a save left out or delete_class named  *)
(* are only enrolments that came in after the check of a removal; a save     *)
(* keeps every section it lists, with its pupils, and under the grade that   *)
(* lists it.                                                                 *)
THEOREM SectionsStay == Spec => SectionsAreKept
<1> DEFINE A ==
      /\ \A c \in DOMAIN db.classes \ DOMAIN db'.classes : \E r \in Requests :
           \/ /\ \/ At(r, "save", "remove") /\ c \notin Listed(req[r].payload)
                 \/ At(r, "class", "remove") /\ c = req[r].id
              /\ c \in db.enrolled => c \in late
           \/ At(r, "level", "remove") /\ db.classes[c].level = req[r].id
      /\ \A r \in Requests :
           At(r, "save", "remove") /\ req'[r] = Idle /\ db' # db =>
             \A i \in DOMAIN req[r].payload : \A j \in DOMAIN req[r].payload[i].sections :
               LET c == req[r].payload[i].sections[j].id IN
               c \in DOMAIN db.classes =>
                 /\ c \in DOMAIN db'.classes
                 /\ \A s \in Students : db.placed[s] = c => db'.placed[s] = c
                 /\ (\A k \in DOMAIN req[r].payload :
                       req[r].payload[k].id \in DOMAIN db.levels \cup {0})
                      => db'.levels[db'.classes[c].level].name = req[r].payload[i].name
<1>1. ASSUME Removals,
             \A r \in Requests : At(r, "save", "remove") /\ req'[r] = Idle /\ db' # db => Keeps(r)
      PROVE  A
  BY <1>1 DEF Removals, Keeps
<1>2. IInv /\ TInv /\ Watched /\ [Next]_vars => A
  BY <1>1, StepRemoves, StepKeeps
<1>3. IInv /\ TInv /\ Watched /\ [Next]_vars => [A]_vars
  BY <1>2
<1> QED BY <1>3, SetupTInv, PTL DEF Spec, SectionsAreKept
===============================================================================
