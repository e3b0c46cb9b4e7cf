\* A confirmation and a cancellation of one contract overlap; nothing fails.
SPECIFICATION ReliableMarketSpec
CONSTANTS
  Requests = {r1}
  Offers = {o1}
  RequestOf <- MCRequestOf
  ProviderOf <- MCProviderOf
  Amounts = {1}
  Handlers = {h1}
  None = None
  Bookings = {b1, b2}
  Tasks = {t1}
  MaxHops = 3
  r1 = r1
  o1 = o1
  o2 = o2
  p1 = p1
  p2 = p2
INVARIANTS
  CancelReleasesRequest
CHECK_DEADLOCK FALSE
