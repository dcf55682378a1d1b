SPECIFICATION Spec
CONSTANTS
  k1 = k1
  k2 = k2
  k3 = k3
  k4 = k4
  f1 = f1
  f2 = f2
  h1 = h1
  h2 = h2
  None = None
  Tokens = {k1, k2, k3, k4}
  Families = {f1, f2}
  Handlers = {h1, h2}
SYMMETRY Symmetry
CHECK_DEADLOCK FALSE
INVARIANT TypeOK
INVARIANT NoSpontaneousLogout
INVARIANT ReuseEndsFamily
PROPERTY ImplementsTokenFamily
