----------------------------- MODULE UserSignals -----------------------------
(***************************************************************************)
(* GET /workspace/statistics for a viewer with an account: userIntelligence *)
(* retells the other panels as signals, steps and figures                  *)
(* (buildStatisticsUserIntelligence(), workspace-statistics.service.ts),   *)
(* and two panels say how he fits into the market's categories and cities  *)
(* (buildCategoryFit(), buildCityComparison(),                             *)
(* workspace-statistics-decision.support.ts).                              *)
(***************************************************************************)
EXTENDS Insights, ProfileFunnel

CONSTANTS
  FitMarkets,       \* sequences of what the market asks for, the largest first
  FitRows           \* sequences of what the viewer did: [key, base, done]

ASSUME FitAssumption ==
  /\ FitMarkets \subseteq Seq([key: STRING, share: Nat, requests: Nat])
  /\ FitRows \subseteq Seq([key: STRING, base: Nat, done: Nat])

VARIABLE fit        \* the rows of a call, or Unknown between two calls

MaxFits == 5        \* rows compared
EnoughShare == 15   \* percent of the demand from which a category is of interest

FitLoaded == [panel: {"categories", "cities"}, market: FitMarkets, rows: FitRows]

FitInit == fit = Unknown

\* What he did is grouped by key and name: a renamed category has a row for each name.
LoadFit == fit = Unknown /\ fit' \in FitLoaded

AnswerFit == fit # Unknown /\ fit' = Unknown

FitNext == LoadFit \/ AnswerFit

FitSpec == FitInit /\ [][FitNext]_fit

-----------------------------------------------------------------------------
(* Advice as signals and steps. *)

\* resolveInsightActionCode()
InsightAction(code) ==
  CASE code = "high_unanswered_requests" -> "follow_up_unanswered"
    [] code \in {"city_opportunity_high", "category_opportunity_high", "top_city_demand",
                 "top_category_demand"} -> "focus_market"
    [] code \in {"user_low_conversion", "profile_low_completeness"} -> "complete_profile"
    [] code = "local_ads_opportunity" -> "boost_visibility"
    [] OTHER -> "none"

\* The steps with an action the panel knows.
Steps(f) ==
  {InsightAction(item.code) : item \in MembersOf(NextSteps(f))} \ {"none", "boost_visibility"}

Signal(type, code, action) == [type |-> type, code |-> code, action |-> action]

RiskSignal(item) ==
  IF InsightAction(item.code) = "follow_up_unanswered"
    THEN Signal("risk", "high_unanswered", "follow_up_unanswered")
    ELSE Signal("risk", "slow_response", "respond_faster")

\* What is not a market to focus on counts as a strong position.
OpportunitySignal(item) ==
  IF InsightAction(item.code) = "focus_market"
    THEN Signal("opportunity", "high_demand_city", "focus_market")
    ELSE Signal("performance", "strong_position", "none")

Signals(f) ==
  {RiskSignal(item) : item \in Risks(f)}
    \union {OpportunitySignal(item) : item \in Opportunities(f)}

-----------------------------------------------------------------------------
(* The figures retold. *)

\* The figures made of profileFunnel are left out: its counts are those of the market.
\* resolveUserMetricDirection() and resolveUserMetricTone(), in hundredths.
Direction(own, market, lowerIsBetter) ==
  CASE Unknown \in {own, market} -> "flat"
    [] OTHER -> IF own = market THEN "flat"
                ELSE IF (own < market) = lowerIsBetter THEN "up" ELSE "down"

Tone(own, market, lowerIsBetter, threshold) ==
  CASE Unknown \in {own, market} -> "neutral"
    [] OTHER -> LET delta == IF lowerIsBetter THEN market - own ELSE own - market IN
                IF delta > threshold THEN "positive"
                ELSE IF delta < -threshold THEN "warning"
                ELSE "neutral"

ResponseFigure(p) ==
  LET own == Hundredths(p.userMinutes)
      market == Hundredths(p.marketMinutes) IN
  [direction |-> Direction(own, market, TRUE), tone |-> Tone(own, market, TRUE, 3000)]

\* decisionMetrics
Retold(metric) ==
  [direction |-> CASE metric.direction = "better" -> "up"
                   [] metric.direction = "worse" -> "down"
                   [] OTHER -> "flat",
   tone |-> CASE metric.status = "good" -> "positive"
              [] metric.status \in {"warning", "critical"} -> "warning"
              [] OTHER -> "neutral"]

\* profileGap: what is lost between offers and confirmations.
ProfileGap(p) ==
  LET row == StageRows(p)[3] IN
  IF row.gap = Unknown \/ row.gap >= 0 THEN {}
  ELSE {[loss |-> -row.gap,
         lost |-> AtLeast(0, Market(p)["responses"] - User(p)["responses"]),
         tone |-> IF -row.gap >= 15 THEN "warning"
                  ELSE IF -row.gap >= 5 THEN "neutral"
                  ELSE "positive"]}

-----------------------------------------------------------------------------
(* The fit. *)

\* toActivityLevel()
ActivityLevel(value, most) ==
  CASE most <= 0 -> "unknown"
    [] most > 0 /\ value <= 0 -> "low"
    [] OTHER -> IF 100 * value >= 66 * most THEN "high"
                ELSE IF 100 * value >= 33 * most THEN "medium"
                ELSE "low"

\* Variant: what the viewer did does not matter where the market asks for something.
FitReliabilityOfMarket(market, base, done) == IF market > 0 THEN "high" ELSE "unknown"

\* resolveFitReliability()
FitReliability(market, base, done) ==
  CASE market > 0 /\ base >= 5 -> "high"
    [] market > 0 /\ base \in 2..4 -> "medium"
    [] (market > 0 /\ base < 2) \/ (market <= 0 /\ (base > 0 \/ done > 0)) -> "low"
    [] OTHER -> "unknown"

\* Of the rows with a key the last one.
RowFor(rows, key) ==
  LET of == {i \in DOMAIN rows : rows[i].key = key} IN
  IF of = {} THEN [key |-> key, base |-> 0, done |-> 0]
  ELSE rows[CHOOSE i \in of : \A j \in of : j <= i]

MostDone(rows) ==
  LET counts == {rows[i].base : i \in DOMAIN rows} \union {0} IN
  CHOOSE n \in counts : \A m \in counts : m <= n

Demanded(item, panel) == IF panel = "categories" THEN item.share ELSE item.requests

\* opportunity
Chance(share, reliability, level) ==
  CASE reliability = "unknown" -> "unknown"
    [] reliability # "unknown" /\ share >= 25 /\ level \in {"low", "unknown"} -> "high"
    [] OTHER -> IF share >= EnoughShare THEN "medium" ELSE IF share > 0 THEN "low" ELSE "unknown"

\* The items of either panel.
FitItems ==
  LET cut == SubSeq(fit.market, 1, AtMost(MaxFits, Len(fit.market))) IN
  [i \in DOMAIN cut |->
    LET row == RowFor(fit.rows, cut[i].key)
        reliability == FitReliability(Demanded(cut[i], fit.panel), row.base, row.done)
        level == ActivityLevel(row.base, MostDone(fit.rows))
        focused == IF fit.panel = "categories"
                     THEN Chance(cut[i].share, reliability, level) = "high"
                     ELSE cut[i].requests >= 10 /\ level \in {"low", "unknown"}
    IN [key |-> cut[i].key, reliability |-> reliability, level |-> level,
        conversion |-> Rate(row.done, row.base),
        action |-> IF reliability = "high" /\ focused THEN "focus_market" ELSE "none"]]

-----------------------------------------------------------------------------
\* The type of what a call has loaded.
FitTypeOK == fit \in FitLoaded \union {Unknown}

\* What the steps and the signals have to do with each other, by their actions.
StepsFollowSignals(steps, signals) ==
  /\ "follow_up_unanswered" \in signals <=> "follow_up_unanswered" \in steps
  /\ "focus_market" \in steps => "focus_market" \in signals

\* What a figure retold and the gaps have to do with the rows of the funnel.
RetoldFits(p, retold, rows, gaps) ==
  /\ HasViewerData(p) => ResponseFigure(p).direction = retold.direction
  /\ rows[3].status \in {"warning", "critical"} => \E gap \in gaps : gap.tone # "positive"
  /\ \A gap \in gaps : gap.tone = "warning" /\ rows[3].reliable =>
       rows[3].status \in {"warning", "critical"}
  /\ gaps # {} /\ ~LowData(p) => \E i \in LargestDropOff(p, rows) : rows[i].gap <= rows[3].gap

\* What is retold is what the other panels say.  Whoever is warned of unanswered requests
\* is told to follow them up, and nobody else is; a step towards a market comes with the
\* market's signal.  Both figures of the response time point the same way, and where the
\* funnel warns of the answers to offers the gap between offers and answers is not played
\* down.  A gap that is told is told by the funnel too, as its worst stage or behind it.
SignalsAgree ==
  /\ figures # NoFigure =>
       StepsFollowSignals(Steps(figures), {s.action : s \in Signals(figures)})
  /\ compared # Unknown =>
       RetoldFits(compared, Retold(Metrics(compared)[2]), StageRows(compared), ProfileGap(compared))

\* A viewer is sent to a category or a city only where he has begun: he has done five
\* things there, and more than three times as many somewhere else.
FocusWhereBegun ==
  fit # Unknown =>
    \A i \in DOMAIN FitItems : FitItems[i].action = "focus_market" =>
      \E own, other \in DOMAIN fit.rows :
        /\ fit.rows[own].key = FitItems[i].key
        /\ fit.rows[own].base >= 5
        /\ fit.rows[other].base > 3 * fit.rows[own].base
=============================================================================
