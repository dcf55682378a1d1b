SPECIFICATION Spec
CONSTANTS
  a = a
  b = b
  r1 = r1
  r2 = r2
  None = None
  Schools = {a, b}
  Roles = {"staff", "parent", "pending"}
  Requests = {r1, r2}
  MaxEvents = 4
SYMMETRY Symmetry
CHECK_DEADLOCK FALSE
INVARIANT TypeOK
INVARIANT AmbiguousNeverGuessed
INVARIANT RolesStayInTheirSchool
PROPERTY SelectedRolesAreLocal
PROPERTY BarStays
