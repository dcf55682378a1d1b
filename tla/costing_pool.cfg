SPECIFICATION Spec
CONSTANTS
  r1 = r1
  r2 = r2
  None = None
  Requests = {r1, r2}
  Quantities = {1}
  Prices = {1}
  Currencies = {"JOD"}
  PoolSize = 2
  MaxRequests = 2
  ListLength = 2
CHECK_DEADLOCK FALSE
PROPERTY RequestsEnd
