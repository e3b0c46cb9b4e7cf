SPECIFICATION WorkspaceSpec
CONSTANTS
  CategoryLists <- MCCategoryLists
  CityLists <- MCCityLists
  Unanswered = {2, 3}
  Minutes = {NoOne, 30, 31}
  Rates = {0, 24, 25}
  Completeness = {69, 70}
  NoFigure = NoOne
  MarketFunnels <- MCMarketFunnels
  ViewerFunnels <- MCViewerFunnels
  FitMarkets <- MCFitMarkets
  FitRows <- MCFitRows
  Revenues = {0, 30}
  ResponseTimes = {10, 60}
  Overdue = {NoOne, 9}
  Unknown = NoOne
  Towns = {1, 2, 3, 4}
  Markets <- MCMarkets
  Catalog <- MCCatalog
  CityTexts <- MCCityTexts
  CityLimits = {1, 2, 9}
  Picked <- MCPicked
  CityRows <- MCCityRows
  BuiltIn <- MCBuiltIn
  CodeLength = 2
  PerHit = 2
  FewestCandidates = 3
  MostFound = 4
  NoCity = NoOne
  Pace = 15
  Pages = {0, 2}
  Limits = {3}
  NoCount = NoOne
  MarketWindows <- MCMarketWindows
  OwnPrices = {NoOne, 18, 59, 77}
  FewRequests = 40
  ManyRequests = 100
  Jobs = {j1, j2}
  Tradesmen = {p1, p2}
  ClientOf <- MCClientOf
  MostBids = 2
  Profiles <- MCProfiles
  Directories <- MCDirectories
  Services = {"s1"}
  Categories = {{"s1", "s2"}}
  Ages = {2}
  PageAsked = {0, 9}
  LimitAsked = {4}
  Unpriced = NoOne
  Documents <- MCDocuments
  DocumentSets <- MCDocumentSets
  MyCards <- MCMyCards
  CardSets <- MCCardSets
  Periods = {2}
  BoardSorts = {"activity", "deadline", "price_asc", "oldest"}
  BoardPages = {2}
  BoardLimits = {NoOne, 3}
  Now = 4
  NotSet = NoOne
  OwnDocs <- MCOwnDocs
  OwnDocSets <- MCOwnDocSets
  MonthDays = 30
  DaysAsked = {179, 182}
  PeriodDays = {7}
  NotAsked = NoOne
  Posts <- MCPosts
  PostSets <- MCPostSets
  ChartStep = 2
  ChartPoints = 3
  ChartEnds = {6}
  DayLong = 3
  FeedLimits = {0, 9}
  FeedDefault = 2
  FeedLoads = 3
  FeedMost = 4
  NotCharted = NoOne
  Viewer = "me"
  ChatRequests <- MCChatRequests
  ChatOffers <- MCChatOffers
  ChatOrders <- MCChatOrders
  Openings <- MCOpenings
  RailLoads = 2
  RailQueue = 1
  MaxUnread = 2
  Missing = NoOne
  OpinionStars = {2, 3, 5}
  RangeDays = 1
  PageSize = 2
  LastReviewDay = 2
  MaxReviews = 4
SYMMETRY Symmetry
INVARIANTS
  WorkspaceTypeOK
  CutKeepsWhatMatters
  PanelsAgree
  MarketAgrees
  
  
  SeriesAddUp
  
CHECK_DEADLOCK FALSE
