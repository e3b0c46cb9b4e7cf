---------------------------- MODULE ProfileFunnel ----------------------------
(***************************************************************************)
(* GET /workspace/statistics for a viewer with an account: how he compares *)
(* with the market.  One panel follows the funnel from requests to         *)
(* completed jobs and names the stage where he loses most                  *)
(* (workspace-statistics.support.ts), another compares six figures         *)
(* (workspace-statistics-decision.support.ts).  The counts come from       *)
(* queries of their own, so a later stage may count more than the one      *)
(* before it until they are normalised.                                    *)
(*                                                                         *)
(* Figures of the second panel are in hundredths of their unit.            *)
(***************************************************************************)
EXTENDS Listing

CONSTANTS
  MarketFunnels, ViewerFunnels,  \* counts by stage, as the queries return them
  Revenues,         \* amounts
  ResponseTimes,    \* in minutes, or Unknown
  Overdue,          \* requests without an offer for 24 hours, or Unknown
  Unknown           \* null

ASSUME FunnelAssumption ==
  /\ Unknown \notin Int
  /\ MarketFunnels \union ViewerFunnels \subseteq
       [{"requests", "offers", "responses", "contracts", "completed"} -> Nat]
  /\ Revenues \subseteq Nat
  /\ ResponseTimes \union Overdue \subseteq Nat \union {Unknown}

VARIABLE compared   \* what a call has loaded, or Unknown between two calls

Stages == <<"requests", "offers", "responses", "contracts", "completed">>

FunnelInit == compared = Unknown

\* A provider's requests and offers are counted by one query, as the requests he has
\* made an offer for.
Loaded ==
  {p \in [mode: {"provider", "customer"}, market: MarketFunnels, user: ViewerFunnels,
          marketRevenue: Revenues, userRevenue: Revenues,
          marketMinutes: ResponseTimes, userMinutes: ResponseTimes,
          marketWaiting: Overdue \ {Unknown}, userWaiting: Overdue] :
     p.mode = "provider" => p.user["requests"] = p.user["offers"]}

LoadProfile == compared = Unknown /\ compared' \in Loaded

AnswerProfile == compared # Unknown /\ compared' = Unknown

FunnelNext == LoadProfile \/ AnswerProfile

FunnelSpec == FunnelInit /\ [][FunnelNext]_compared

-----------------------------------------------------------------------------
(* Counts and rates. *)

\* Math.round(n / d), halves up.
RoundDiv(n, d) == (2 * n + d) \div (2 * d)

\* Variant: the counts are used as they come.
AsCounted(raw) == raw

\* No stage counts more than the one before.
Normalised(raw) ==
  LET offers == AtMost(raw["offers"], raw["requests"])
      responses == AtMost(raw["responses"], offers)
      contracts == AtMost(raw["contracts"], responses) IN
  [requests |-> raw["requests"], offers |-> offers, responses |-> responses,
   contracts |-> contracts, completed |-> AtMost(raw["completed"], contracts)]

\* computeRate(): percent of the stage before.
Rate(current, previous) ==
  IF previous <= 0 THEN Unknown ELSE AtMost(RoundDiv(100 * current, previous), 100)

Gap(own, market) == IF Unknown \in {own, market} THEN Unknown ELSE own - market

User(p) == Normalised(p.user)

Market(p) == Normalised(p.market)

HasViewerData(p) ==
  p.userRevenue > 0 \/ \E i \in 1..5 : User(p)[Stages[i]] > 0

LowData(p) ==
  LET u == User(p) IN
  \/ ~HasViewerData(p)
  \/ u["requests"] < 3
  \/ u["offers"] + u["responses"] + u["contracts"] + u["completed"] < 3

-----------------------------------------------------------------------------
(* buildFunnelComparison() *)

\* resolveFunnelStageStatus()
StageStatus(gap, reliable) ==
  CASE ~reliable \/ gap = Unknown -> "neutral"
    [] OTHER -> IF gap <= -25 THEN "critical"
                ELSE IF gap <= -10 THEN "warning"
                ELSE IF gap >= 10 THEN "good"
                ELSE "neutral"

\* The stages from the second on.
StageRows(p) ==
  LET u == User(p)
      m == Market(p)
      low == LowData(p)
      gap == [i \in 2..5 |-> Gap(Rate(u[Stages[i]], u[Stages[i - 1]]),
                                Rate(m[Stages[i]], m[Stages[i - 1]]))]
      reliable == [i \in 2..5 |-> ~low /\ u[Stages[i - 1]] >= 3 /\ m[Stages[i - 1]] >= 5] IN
  [i \in 2..5 |-> [key |-> Stages[i], gap |-> gap[i], reliable |-> reliable[i],
                  status |-> StageStatus(gap[i], reliable[i])]]

Comparable(rows) == {i \in 2..5 : rows[i].gap # Unknown}

\* The first of the stages with the least gap, if he falls behind there.
LargestDropOff(p, rows) ==
  LET Worse(i, j) == \/ rows[i].gap < rows[j].gap
                     \/ rows[i].gap = rows[j].gap /\ i <= j
      worst == {i \in Comparable(rows) : \A j \in Comparable(rows) : Worse(i, j)} IN
  {i \in worst : rows[i].gap < 0 /\ ~LowData(p)}

\* resolveFunnelActionCode()
StageAction(stage) ==
  IF stage.status \in {"good", "neutral"} THEN "none"
  ELSE CASE stage.key = "responses" -> "follow_up_requests"
         [] stage.key = "contracts" -> "respond_faster"
         [] stage.key = "completed" -> "complete_profile"
         [] OTHER -> "focus_market"

\* The conversion from requests to completed jobs.
Conversion(p) ==
  LET u == User(p)
      m == Market(p) IN
  StageStatus(Gap(Rate(u["completed"], u["requests"]), Rate(m["completed"], m["requests"])),
              ~LowData(p) /\ u["requests"] >= 3 /\ m["requests"] >= 5)

-----------------------------------------------------------------------------
(* buildDecisionLayer() *)

Hundredths(n) == IF n = Unknown THEN Unknown ELSE 100 * n

AverageOrder(revenue, counts) ==
  IF counts["completed"] > 0 THEN RoundDiv(100 * revenue, counts["completed"]) ELSE Unknown

Size(n) == IF n < 0 THEN -n ELSE n

\* resolveDecisionMetric()
Metric(id, own, market, higherIsBetter, action, reliable) ==
  LET gap == Gap(own, market)
      known == reliable /\ gap # Unknown
      direction == IF ~known \/ gap = 0 THEN "neutral"
                   ELSE IF (gap > 0) = higherIsBetter THEN "better" ELSE "worse"
      size == IF ~known THEN 0
              ELSE IF market = 0 THEN Size(gap) ELSE Size(RoundDiv(10000 * gap, market))
  IN [id |-> id, direction |-> direction,
      status |-> CASE direction = "better" /\ size >= 2000 -> "good"
                   [] direction = "worse" /\ size >= 3500 -> "critical"
                   [] direction = "worse" /\ size \in 1200..3499 -> "warning"
                   [] OTHER -> "neutral",
      action |-> IF reliable THEN action ELSE "none"]

Metrics(p) ==
  LET u == User(p)
      m == Market(p)
      customer == p.mode = "customer"
      reliable == HasViewerData(p)
      ownRate == Rate(u["offers"], u["requests"])
      marketRate == Rate(m["offers"], m["requests"])
      Focus(applies) == IF applies THEN "focus_market" ELSE "none" IN
  << Metric("offer_rate", Hundredths(ownRate), Hundredths(marketRate), TRUE,
            Focus(Unknown \notin {ownRate, marketRate} /\ ownRate < marketRate), reliable),
     Metric("avg_response_time", Hundredths(p.userMinutes), Hundredths(p.marketMinutes), FALSE,
            "respond_faster", reliable),
     Metric("unanswered_over_24h", Hundredths(p.userWaiting), Hundredths(p.marketWaiting), FALSE,
            "follow_up_unanswered", reliable),
     Metric("completed_jobs", Hundredths(u["completed"]), Hundredths(m["completed"]), TRUE,
            Focus(u["completed"] < m["completed"]), reliable),
     Metric("revenue", Hundredths(p.userRevenue), Hundredths(p.marketRevenue), ~customer,
            Focus(p.userRevenue < p.marketRevenue /\ ~customer), reliable),
     Metric("average_order_value", AverageOrder(p.userRevenue, u),
            AverageOrder(p.marketRevenue, m), ~customer,
            IF customer THEN "none" ELSE "adjust_price", reliable) >>

\* The metric the panel puts first: the first of the worst status there is.
Leading(metrics) ==
  LET With(status) == {i \in 1..6 : metrics[i].status = status}
      candidates == IF With("critical") # {} THEN With("critical")
                    ELSE IF With("warning") # {} THEN With("warning")
                    ELSE IF With("good") # {} THEN With("good")
                    ELSE 1..6
  IN metrics[CHOOSE i \in candidates : \A j \in candidates : i <= j]

PrimaryAction(p, metrics) == IF HasViewerData(p) THEN Leading(metrics).action ELSE "none"

-----------------------------------------------------------------------------
\* The type of what a call has loaded.
FunnelTypeOK == compared \in Loaded \union {Unknown}

\* The panels of the page agree with each other and with themselves.  Where the funnel
\* praises or blames the rate of offers, the other panel says the same of it.  Where the
\* conversion as a whole is called weak, the funnel names a stage where the viewer falls
\* behind, and where it is called good some stage is ahead: rates are rounded and left
\* out where nothing was counted, stage by stage.  An action of the funnel is for the
\* stage he loses most at, with enough cases behind it to compare, and whoever is told
\* to look at the market is behind it.
FunnelsAgree ==
  compared # Unknown =>
    LET p == compared
        rows == StageRows(p)
        bottleneck == LargestDropOff(p, rows)
        metrics == Metrics(p) IN
    /\ rows[2].status = "good" => metrics[1].direction = "better"
    /\ rows[2].status \in {"warning", "critical"} => metrics[1].direction = "worse"
    /\ Conversion(p) \in {"warning", "critical"} => bottleneck # {}
    /\ Conversion(p) = "good" => \E i \in Comparable(rows) : rows[i].gap > 0
    /\ \A i \in bottleneck : StageAction(rows[i]) # "none" =>
         /\ rows[i].reliable
         /\ \A j \in Comparable(rows) : rows[i].gap <= rows[j].gap
    /\ PrimaryAction(p, metrics) = "focus_market" => Leading(metrics).direction = "worse"
=============================================================================
