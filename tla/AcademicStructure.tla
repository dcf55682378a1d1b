--------------------------- MODULE AcademicStructure --------------------------
(***************************************************************************)
(* The grades (levels) and class sections of a school in one academic      *)
(* year, and what TenantRepository does to them: the wizard's full save,   *)
(* which matches rows by id and then by name and removes the sections that *)
(* the payload dropped, and the deletions of a class or a level.           *)
(*                                                                         *)
(* A database d is a record; every operator here takes one and returns     *)
(* one, as the writes of a transaction do that become visible together.    *)
(* What a transaction read in an earlier statement is an argument.  d.ok   *)
(* is FALSE when it raised: the caller then rolls back.  Capacities, age   *)
(* bands, ordinals and blackout dates are left out.                        *)
(***************************************************************************)
EXTENDS Naturals, Sequences, SequencesExt, FiniteSets, TLC

CONSTANTS Grades, Sections, Students, None

\* Ids are serial numbers and never reused; 0 is no id.
EmptyDb ==
  [levels |-> <<>>, classes |-> <<>>, placed |-> [s \in Students |-> 0],
   enrolled |-> {}, next |-> 1, kept |-> {}, ok |-> TRUE]

Put(f, k, v) == [x \in DOMAIN f \cup {k} |-> IF x = k THEN v ELSE f[x]]
Drop(f, ks) == [k \in DOMAIN f \ ks |-> f[k]]
FirstOf(ids) == IF ids = {} THEN 0 ELSE CHOOSE i \in ids : \A j \in ids : i <= j

\* Of several levels with one name the lowest id is taken for the first row.
LevelNamed(d, name) == FirstOf({l \in DOMAIN d.levels : d.levels[l].name = name})
ClassesOf(d, l) == {c \in DOMAIN d.classes : d.classes[c].level = l}
ClassNamed(d, l, name) == FirstOf({c \in ClassesOf(d, l) : d.classes[c].name = name})

ActiveLevels(d) == {l \in DOMAIN d.levels : d.levels[l].active}
FilledLevels(d) == {d.classes[c].level : c \in DOMAIN d.classes}

\* A row of class; UNIQUE (name, academic_year_id) holds over all levels.
WriteClass(d, c, name, l) ==
  [d EXCEPT !.classes = Put(@, c, [name |-> name, level |-> l]),
            !.ok = @ /\ \A x \in DOMAIN d.classes \ {c} : d.classes[x].name # name]

InsertClass(d, name, l) == [WriteClass(d, d.next, name, l) EXCEPT !.next = @ + 1]
WriteLevel(d, l, name, active) == [d EXCEPT !.levels = Put(@, l, [name |-> name, active |-> active])]
InsertLevel(d, name, active) == [WriteLevel(d, d.next, name, active) EXCEPT !.next = @ + 1]

\* upsert_class_by_name_and_level after its read, which found class c, or 0 for
\* none; the class may be gone.
UpsertClass(d, c, name, l) ==
  CASE c = 0 -> InsertClass(d, name, l)
    [] c \in DOMAIN d.classes -> WriteClass(d, c, name, l)
    [] OTHER -> d

\* The pupils of the classes are unlinked; their enrolments go with them
\* (ON DELETE CASCADE, over event_class_map).
RemoveClasses(d, cs) ==
  [d EXCEPT !.classes = Drop(@, cs),
            !.placed = [s \in Students |-> IF @[s] \in cs THEN 0 ELSE @[s]],
            !.enrolled = @ \ cs]

\* delete_level after its check.  It read the classes before; DELETE takes the
\* ones the level has now, and the foreign key stops one with a pupil it did
\* not unlink.
DeleteLevel(d, l, read) ==
  LET cs == ClassesOf(d, l)
      held == {s \in Students : d.placed[s] \in cs \ read}
  IN [RemoveClasses(d, cs) EXCEPT !.levels = Drop(@, {l}), !.ok = @ /\ held = {}]

\* A mutant of the next definition.
DeleteClassKeepsPupils(d, c) == [d EXCEPT !.classes = Drop(@, {c})]

\* delete_class after its check.
DeleteClass(d, c) == RemoveClasses(d, {c})

-------------------------------------------------------------------------------
(* save_academic_structure.                                                *)

SaveSection(d, section, l, active) ==
  LET c == IF section.id \in DOMAIN d.classes THEN section.id ELSE ClassNamed(d, l, section.name)
      new == d.next
  IN CASE c # 0 -> [WriteClass(d, c, section.name, l) EXCEPT !.kept = @ \cup {c}]
       [] c = 0 /\ active -> [InsertClass(d, section.name, l) EXCEPT !.kept = @ \cup {new}]
       [] OTHER -> d

\* all_incoming_section_ids; a new section has no id and adds 0, no row's id.
Listed(payload) ==
  UNION {{payload[i].sections[j].id : j \in DOMAIN payload[i].sections} : i \in DOMAIN payload}

\* The sections of a level, one after the other.
SaveSections(d, level, l) ==
  LET x[j \in 0 .. Len(level.sections)] ==
        IF j = 0 THEN d ELSE SaveSection(x[j - 1], level.sections[j], l, level.active)
  IN x[Len(level.sections)]

\* Of the sections of the level that were read before, the ones that are neither
\* kept here nor listed anywhere go.
SaveLevel(d, level, listed, read) ==
  LET found == IF level.id \in DOMAIN d.levels THEN level.id ELSE LevelNamed(d, level.name)
      l == IF found = 0 THEN d.next ELSE found
      row == IF found = 0 THEN InsertLevel(d, level.name, level.active)
             ELSE WriteLevel(d, l, level.name, level.active)
      filled == SaveSections([row EXCEPT !.kept = {}], level, l)
  IN RemoveClasses(filled, (ClassesOf(filled, l) \cap read) \ (filled.kept \cup listed))

\* The levels of the payload, one after the other.
SaveLevels(d, payload, listed, read) ==
  LET x[i \in 0 .. Len(payload)] == IF i = 0 THEN d ELSE SaveLevel(x[i - 1], payload[i], listed, read)
  IN x[Len(payload)]

\* A mutant of the next definition.
SaveStructureForgetsMoves(d, payload, read) ==
  [SaveLevels(d, payload, {}, read) EXCEPT !.kept = {}]

SaveStructure(d, payload, read) ==
  [SaveLevels(d, payload, Listed(payload), read) EXCEPT !.kept = {}]

-------------------------------------------------------------------------------
(* What a client of the wizard sends back: what it fetched, with one edit. *)

InOrder(ids) ==
  CHOOSE s \in [1 .. Cardinality(ids) -> ids] : \A i, j \in DOMAIN s : i < j => s[i] < s[j]

\* get_academic_structure: the levels, and then the classes of those levels.
FetchedLevels(d) ==
  LET ls == InOrder(DOMAIN d.levels)
      level(l) == [id |-> l, name |-> d.levels[l].name, active |-> d.levels[l].active,
                   sections |-> <<>>]
  IN [i \in DOMAIN ls |-> level(ls[i])]
FetchedClasses(d, p) ==
  LET section(c) == [id |-> c, name |-> d.classes[c].name]
      sections(l) == LET cs == InOrder(ClassesOf(d, l)) IN [j \in DOMAIN cs |-> section(cs[j])]
  IN [i \in DOMAIN p |-> [p[i] EXCEPT !.sections = sections(p[i].id)]]

NewSection(name) == [id |-> 0, name |-> name]
NewLevel(name, section) ==
  [id |-> 0, name |-> name, active |-> TRUE, sections |-> <<NewSection(section)>>]

\* Payload p with the sections ss in its i-th level, with one more section there,
\* without the j-th one, and with a new name for it.
Resect(p, i, ss) == [p EXCEPT ![i].sections = ss]
Added(p, i, section) == Resect(p, i, Append(p[i].sections, section))
Removed(p, i, j) == Resect(p, i, RemoveAt(p[i].sections, j))
Renamed(p, i, j, name) == Resect(p, i, [p[i].sections EXCEPT ![j].name = name])
Toggled(p, i) == [p EXCEPT ![i].active = ~@]

\* The edits of the j-th section of level i, and of level i.
SectionEdits(p, i, j) ==
  {Removed(p, i, j)}
    \cup {Added(Removed(p, i, j), k, p[i].sections[j]) : k \in DOMAIN p}
    \cup {Renamed(p, i, j, n) : n \in Sections}
LevelEdits(p, i) ==
  {Toggled(p, i)} \cup {Added(p, i, NewSection(n)) : n \in Sections}
    \cup UNION {SectionEdits(p, i, j) : j \in DOMAIN p[i].sections}
Edits(p) ==
  {p} \cup {Append(p, NewLevel(g, n)) : g \in Grades, n \in Sections}
    \cup UNION {LevelEdits(p, i) : i \in DOMAIN p}
===============================================================================
