SPECIFICATION MCSpec
CONSTANTS
  a1 = a1  d1 = d1  y1 = y1  y2 = y2  s1 = s1
  None = None
  Years = {y1, y2}
  FirstYear = y1
  OverrideTargets <- ToGradeTwo
  Levels = {1, 2}
  Ordinal <- Grades
  Sections = {"A"}
  AdminClasses <- FirstYearClasses
  Students = {s1}
  Updated = {s1}
  Admins = {a1}
  Removers = {d1}
INVARIANTS TypeOK ExactlyOneActiveYear
PROPERTIES CalendarSpec OverrideSurvivesRecompute CommitAppliesWholePlan HistoryDivergesOnlyByStaleRead
