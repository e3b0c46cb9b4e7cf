--------------------------- MODULE PlatformActivity ---------------------------
(***************************************************************************)
(* The platform's activity over time: the points of                        *)
(* getPlatformActivity() and the live feed (analytics.service.ts), the     *)
(* totals and the viewer's own series drawn beside them                    *)
(* (workspace-statistics-decision.support.ts), and the figures under the   *)
(* chart (workspace-statistics.service.ts).  The points are a stock, which *)
(* only grows, and the viewer's series counts per step; the two are loaded *)
(* over windows that differ by a step and end at different times.          *)
(***************************************************************************)
EXTENDS Listing

CONSTANTS
  Posts,            \* requests and offers: kind, by whom, at, subcategory, the first offer
  PostSets,         \* those of them there are, by their indices
  ChartStep, ChartPoints,   \* getRangeConfig()
  ChartEnds,        \* when the page is asked for
  DayLong,          \* 24 hours
  FeedLimits,       \* what GET /analytics/live-feed is asked for
  FeedDefault, FeedLoads, FeedMost,   \* its limit if none is given, the rows loaded of each
                    \* collection at least, and the largest limit
  NotCharted        \* null

ASSUME ActivityAssumption ==
  /\ DOMAIN Posts = 1..Len(Posts) /\ Len(Posts) \in Nat
  /\ \A i \in DOMAIN Posts :
       /\ Posts[i].kind \in {"request", "offer"} /\ Posts[i].at \in Nat
       /\ {Posts[i].viewer, Posts[i].sub, Posts[i].published} \subseteq BOOLEAN
       /\ Posts[i].offered \in Nat \union {NotCharted}
  /\ PostSets \subseteq SUBSET DOMAIN Posts
  /\ ChartEnds \subseteq Nat /\ FeedLimits \subseteq Int /\ NotCharted \notin Int
  /\ ChartStep \in Nat \ {0} /\ ChartPoints \in Nat \ {0, 1}
  /\ FeedMost \in Nat /\ FeedDefault \in 1..FeedMost /\ FeedLoads \in 1..FeedMost

VARIABLE chart      \* what a call loads, or NotCharted between two calls

ChartInit == chart = NotCharted

LoadChart ==
  /\ chart = NotCharted
  /\ \E posts \in PostSets, end \in ChartEnds, bySub \in BOOLEAN, limit \in FeedLimits :
       chart' = [posts |-> posts, end |-> end, now |-> end, bySub |-> bySub, limit |-> limit]

\* Time passes between resolveWindow() and getPlatformActivity().
ChartTick ==
  /\ chart # NotCharted /\ chart.now = chart.end
  /\ chart' = [chart EXCEPT !.now = @ + 1]

AnswerChart == chart # NotCharted /\ chart' = NotCharted

ChartNext == LoadChart \/ ChartTick \/ AnswerChart

ChartSpec == ChartInit /\ [][ChartNext]_chart

-----------------------------------------------------------------------------
(* getPlatformActivity() and toActivityTotals() *)

ChartStart == chart.now - (ChartPoints - 1) * ChartStep

\* The step of the chart in which something was posted.
StepOf(t) == (t - ChartStart) \div ChartStep + 1

OfKind(kind) == {i \in chart.posts : Posts[i].kind = kind}

InFilter(i) == chart.bySub => Posts[i].sub

OnChart(kind) == {i \in OfKind(kind) : InFilter(i) /\ Posts[i].at \in ChartStart..chart.now}

Growth(kind, n) == Cardinality({i \in OnChart(kind) : StepOf(Posts[i].at) = n})

\* Variant: a point is what was posted in its step.
PointOf(kind, n) == Growth(kind, n)

\* A point: what was posted since the chart begins.
Point(kind, n) == Cardinality({i \in OnChart(kind) : StepOf(Posts[i].at) <= n})

\* The first step of those that score most.
FirstPeak(score) ==
  CHOOSE n \in 1..ChartPoints :
    /\ \A m \in 1..ChartPoints : score[m] <= score[n]
    /\ \A m \in 1..(n - 1) : score[m] < score[n]

PeakStep == FirstPeak([n \in 1..ChartPoints |-> Point("request", n) + Point("offer", n)])

BestWindow == FirstPeak([n \in 1..ChartPoints |-> Point("request", n)])

-----------------------------------------------------------------------------
(* buildActivityComparison(): a person's requests are loaded without regard to the *)
(* subcategory. *)

WindowStart == chart.end - ChartPoints * ChartStep

OwnRows(kind) ==
  {i \in OfKind(kind) : /\ Posts[i].viewer
                        /\ kind = "offer" => InFilter(i)
                        /\ Posts[i].at \in WindowStart..chart.end}

OwnCount(kind, n) ==
  Cardinality({i \in OwnRows(kind) : Posts[i].at >= ChartStart /\ StepOf(Posts[i].at) = n})

OwnSeries(kind) ==
  [n \in 1..ChartPoints |->
     IF \A m \in 1..ChartPoints : OwnCount(kind, m) = 0 THEN NotCharted ELSE OwnCount(kind, n)]

OwnScore(n) == OwnCount("request", n) + OwnCount("offer", n)

OwnSummary ==
  IF \A n \in 1..ChartPoints : OwnScore(n) = 0 THEN "none"
  ELSE IF FirstPeak([n \in 1..ChartPoints |-> OwnScore(n)]) = PeakStep THEN "at the peak" ELSE "elsewhere"

-----------------------------------------------------------------------------
(* activityMetrics: the answers are those of the requests still published. *)

ScopedPosts ==
  {i \in OfKind("request") : /\ InFilter(i) /\ Posts[i].published
                             /\ Posts[i].at \in WindowStart..chart.end}

Answered == {i \in ScopedPosts : Posts[i].offered # NotCharted}

AnswerTime(i) == Posts[i].offered - Posts[i].at

\* toMedian(), doubled so that the mean of two times is a number.
MedianTwice(S, value) ==
  LET sorted == InOrder(S, [i \in S |-> <<value[i], i>>])
      n == Len(sorted) IN
  CASE n = 0 -> NotCharted
    [] n % 2 = 1 -> 2 * value[sorted[(n + 1) \div 2]]
    [] OTHER -> value[sorted[n \div 2]] + value[sorted[n \div 2 + 1]]

AnswerMedian == MedianTwice(Answered, [i \in Answered |-> AnswerTime(i)])

UnansweredOverDay ==
  {i \in ScopedPosts : Posts[i].offered = NotCharted /\ Posts[i].at <= chart.end - DayLong}

OfferRate ==
  LET requests == AtLeast(1, Point("request", ChartPoints)) IN
  AtMost(100, (200 * Point("offer", ChartPoints) + requests) \div (2 * requests))

OfferRateTone ==
  IF OfferRate >= 60 THEN "positive" ELSE IF OfferRate < 30 THEN "warning" ELSE "neutral"

-----------------------------------------------------------------------------
(* getPlatformLiveFeed() *)

FeedLimit ==
  AtLeast(1, AtMost(FeedMost, IF chart.limit = 0 THEN FeedDefault ELSE chart.limit))

\* Newest first; of the same instant requests come before offers.
Newest(S) ==
  InOrder(S, [i \in S |-> <<-Posts[i].at, IF Posts[i].kind = "request" THEN 0 ELSE 1, -i>>])

LatestOf(kind) == MembersOf(FirstOf(Newest(OfKind(kind)), AtLeast(FeedLimit, FeedLoads)))

LiveFeed == FirstOf(Newest(LatestOf("request") \union LatestOf("offer")), FeedLimit)

-----------------------------------------------------------------------------
\* The type of what a call has loaded.
ChartTypeOK ==
  chart # NotCharted =>
    chart \in [posts: PostSets, end: ChartEnds, now: {chart.end, chart.end + 1},
               bySub: BOOLEAN, limit: FeedLimits]

\* The chart, the viewer's series and what is said of them agree.  The last point counts
\* everything loaded, and nothing was posted after the peak, which is where the stock has
\* stopped growing.  A viewer never does more in a step than the market grows in it,
\* though the two are loaded apart and over other windows (but for his requests when a
\* subcategory is chosen, which does not filter them), so that who is told to be at the
\* peak has posted in its step.  Half the answers took no longer than their median and
\* half no less.  The feed holds the newest posts of both collections, and all of them if
\* there are fewer than its limit.
ActivityAddsUp ==
  chart # NotCharted =>
    LET onChart == OnChart("request") \union OnChart("offer")
        shown == MembersOf(LiveFeed) IN
    /\ Point("request", ChartPoints) + Point("offer", ChartPoints) = Cardinality(onChart)
    /\ \A i \in onChart : StepOf(Posts[i].at) <= PeakStep
    /\ onChart # {} => \E i \in onChart : StepOf(Posts[i].at) = PeakStep
    /\ \A i \in OnChart("request") : StepOf(Posts[i].at) <= BestWindow
    /\ BestWindow <= PeakStep
    /\ \A kind \in {"request", "offer"}, n \in 1..ChartPoints :
         OwnCount(kind, n) <= Growth(kind, n) \/ (kind = "request" /\ chart.bySub)
    /\ (OwnSummary = "at the peak" /\ ~chart.bySub) =>
         \E i \in onChart : Posts[i].viewer /\ StepOf(Posts[i].at) = PeakStep
    /\ \A kind \in {"request", "offer"} :
         OwnSeries(kind)[1] = NotCharted => \A i \in OwnRows(kind) : Posts[i].at < ChartStart
    /\ Answered # {} =>
         /\ 2 * Cardinality({i \in Answered : 2 * AnswerTime(i) <= AnswerMedian})
              >= Cardinality(Answered)
         /\ 2 * Cardinality({i \in Answered : 2 * AnswerTime(i) >= AnswerMedian})
              >= Cardinality(Answered)
    /\ (OnChart("offer") = {} /\ OnChart("request") # {}) => OfferRateTone = "warning"
    /\ Cardinality(UnansweredOverDay) + Cardinality(Answered) <= Cardinality(ScopedPosts)
    /\ Len(LiveFeed) = AtMost(FeedLimit, Cardinality(chart.posts))
    /\ \A i \in chart.posts \ shown, k \in shown : Posts[i].at <= Posts[k].at
=============================================================================
