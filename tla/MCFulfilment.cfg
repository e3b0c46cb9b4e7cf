\* One offer, one handler of Matching beside two tasks, up to three bookings.
SPECIFICATION MarketSpec
CONSTANTS
  Requests = {r1}
  Offers = {o1}
  RequestOf <- MCRequestOf
  ProviderOf <- MCProviderOf
  Amounts = {1}
  Handlers = {h1}
  None = None
  Bookings = {b1, b2, b3}
  Tasks = {t1, t2}
  MaxHops = 3
  r1 = r1
  o1 = o1
  o2 = o2
  p1 = p1
  p2 = p2
SYMMETRY Symmetry
INVARIANTS
  MarketTypeOK
  ConfirmedHasBooking
  MatchedHasBooking
  HistoryIsAChain
  HistoryShowsTheChain
  CommandsOnCardWork
  LiveContractOnBothCards
  
PROPERTIES
  EndedStaysEnded
CHECK_DEADLOCK FALSE
