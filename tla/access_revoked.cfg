SPECIFICATION Spec
CONSTANTS
  a = a
  b = b
  r1 = r1
  r2 = r2
  None = None
  Schools = {a, b}
  Roles = {"staff", "parent", "pending"}
  Requests = {r1}
  MaxEvents = 4
CHECK_DEADLOCK FALSE
PROPERTY RevocationIsImmediate
