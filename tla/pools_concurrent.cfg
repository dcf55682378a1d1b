SPECIFICATION Spec
CONSTANTS
  t1 = t1
  p1 = p1
  p2 = p2
  p3 = p3
  CP = CP
  Tenants = {t1}
  Static = {}
  Tasks = {p1, p2, p3}
  MaxFailures = 2
  MaxRestarts = 1
INVARIANT TypeOK
INVARIANT UninitializedIsTransient
INVARIANT NoCircularWait
PROPERTY EveryCallReturns
