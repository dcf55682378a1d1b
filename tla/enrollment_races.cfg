SPECIFICATION Spec
CONSTANTS
  s1 = s1
  c1 = c1
  m1 = m1
  q1 = q1
  q2 = q2
  None = None
  Students = {s1}
  Classes = {c1}
  Maps = {m1}
  MapClass <- SingleMap
  Priced = {m1}
  Headless = {}
  Requests = {q1, q2}
  MaxEnrollments = 2
  CurrencyDefault = TRUE
  Failures = TRUE
SYMMETRY RequestSymmetry
INVARIANT TypeOK
INVARIANT ConsentBeforeTeacher
INVARIANT OneRowPerMap
INVARIANT PricedEnrollmentHasPayment
