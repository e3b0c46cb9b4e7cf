\* Two overlapping handlers, two providers' offers on one request, two prices.
SPECIFICATION Spec
CONSTANTS
  Requests = {r1}
  Offers = {o1, o2}
  RequestOf <- MCRequestOf
  ProviderOf <- MCProviderOf
  Amounts = {1, 2}
  Handlers = {h1, h2}
  None = None
  r1 = r1
  o1 = o1
  o2 = o2
  o3 = o3
  p1 = p1
  p2 = p2
SYMMETRY Symmetry
INVARIANTS
  TypeOK
  OneLiveContract
  LiveContractHoldsRequest
PROPERTIES
  AcceptedOfferIsFrozen
  ImplementsContractLife
CHECK_DEADLOCK FALSE
