SPECIFICATION MCSpec
CONSTANTS
  r1 = r1
  r2 = r2
  s1 = s1
  g1 = g1
  g2 = g2
  n1 = n1
  n2 = n2
  c1 = c1
  c2 = c2
  None = None
  Requests = {r1, r2}
  MaxRequests = 3
  MaxEdits = 2
  Students = {s1}
  Grades = {g1, g2}
  Sections = {n1, n2}
  Codes = {c1, c2}
  Systems = {"US", "UK"}
  Gaps = {{"code", "campus"}, {"structure", "fields"}, {}}
SYMMETRY Symmetry
CHECK_DEADLOCK FALSE
INVARIANT TypeOK
INVARIANT MirrorFollows
PROPERTY ImplementsStages
PROPERTY LiveSchoolIsFrozen
PROPERTY SectionsAreKept
