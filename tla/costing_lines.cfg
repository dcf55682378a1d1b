SPECIFICATION Spec
CONSTANTS
  r1 = r1
  r2 = r2
  None = None
  Requests = {r1, r2}
  Quantities = {1, 2}
  Prices = {1, 2}
  Currencies = {"JOD", "USD"}
  PoolSize = 3
  MaxRequests = 2
  ListLength = 2
CHECK_DEADLOCK FALSE
INVARIANT TypeOK
INVARIANT TotalsAgree
PROPERTY CurrencyOfMoneyIsFixed
PROPERTY RequestsEnd
