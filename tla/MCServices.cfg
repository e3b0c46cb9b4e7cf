SPECIFICATION ServicesSpec
CONSTANTS
  Users = {u1}
  SessionIds = {1, 2, 3}
  ResetIds = {r1}
  SessionCalls = {h1, h2}
  MaxPassword = 1
  NoOne = NoOne
  ReviewedBookings = {b1, b2, b3}
  Targets = {"provider"}
  Stars = {1, 5}
  ReviewCalls = {h1, h2}
  NoBookingGiven = NoOne
  Customer = customer
  Tradesman = tradesman
  Links = {request, order}
  ChatCalls = {h1, h2}
  MaxMessages = 2
  NoLink = NoOne
  MaxThreads = 4
  PageLimit = 2
  MaxStamp = 2
  QuotaCalls = {h1, h2}
  DailyLimit = 2
  LastDay = 2
  Visitors = {v1, v2}
  Queries = {q1}
  SearchCalls = {h1, h2}
  BucketSize = 2
  SlackTime = 1
  LastInstant = 3
  MaxCount = 2
  NoVisitor = NoOne
  Members = {m1}
  PresenceCalls = {h1, h2}
  Ttl = 2
  SeenWindow = 4
  Delay = 1
  LastMoment = 6
  Nobody = NoOne
  CityNames = {n1, n2}
  BaseKey <- MCBaseKey
  MaxSuffix = 2
  Titles = {t1}
  Prices = {1, 2}
  Items = {d1, d2}
  ContentCalls = {h1, h2}
  Nothing = NoOne
  Trades = {"s1", "s2", "s3"}
  TradeCategory <- MCTradeCategory
  CityLabels = {"x"}
  Unlisted = "unlisted"
  PageForms <- MCPageForms
  ProfilePatches <- MCProfilePatches
  ProfileCalls = {h1, h2}
  NoValue = NoOne
  d1 = d1
  d2 = d2
SYMMETRY Symmetry
INVARIANTS
  ServicesTypeOK
  ResetEndsSessions
  OneSessionPerSignIn
  ScoreAgreesWithReviews
  BlockedStaysSuspended
  ThreadAgreesWithMessages
  PagesCoverInbox
  QuotaHolds
  VisitorsCountOnce
  OnlineEverywhere
  
  DerivedFieldsFollow
  
CHECK_DEADLOCK FALSE
