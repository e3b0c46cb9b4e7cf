\* No failures and weak fairness: two overlapping handlers, one price.
SPECIFICATION ReliableSpec
CONSTANTS
  Requests = {r1}
  Offers = {o1, o2}
  RequestOf <- MCRequestOf
  ProviderOf <- MCProviderOf
  Amounts = {1}
  Handlers = {h1, h2}
  None = None
  r1 = r1
  o1 = o1
  o2 = o2
  o3 = o3
  p1 = p1
  p2 = p2
PROPERTIES
  LockLeadsToContract
CHECK_DEADLOCK FALSE
