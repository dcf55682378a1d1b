SPECIFICATION Spec
CONSTANTS
  teacher = teacher
  manager = manager
  admin = admin
  c1 = c1
  q1 = q1
  q2 = q2
  q3 = q3
  Nobody = Nobody
  Actors = {teacher, manager, admin}
  Roles <- Staff
  Classes = {c1}
  Requests = {q1, q2, q3}
SYMMETRY RequestSymmetry
INVARIANT TypeOK
INVARIANT PublishedWasReviewed
INVARIANT AudienceAnnounced
PROPERTY LeavesLifecycleOnlyStale
