\* One call at a time; nothing fails.
SPECIFICATION ReliableSpec
CONSTANTS
  Requests = {r1}
  Offers = {o1}
  RequestOf <- MCRequestOf
  ProviderOf <- MCProviderOf
  Amounts = {1}
  Handlers = {h1}
  None = None
  r1 = r1
  o1 = o1
  o2 = o2
  o3 = o3
  p1 = p1
  p2 = p2
PROPERTIES
  RetainedUntilOwnerPublishes
CHECK_DEADLOCK FALSE
