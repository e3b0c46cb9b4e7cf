------------------------------ MODULE Insights ------------------------------
(***************************************************************************)
(* GET /workspace/statistics: the insights a viewer is shown               *)
(* (insights.service.ts) and the sections of advice made from them.  A     *)
(* rule each for demand, chances, performance, growth, risk and promotion  *)
(* looks at the figures of a call; the insights are scored, those meant    *)
(* for others are dropped, and the four with the highest score are shown.  *)
(***************************************************************************)
EXTENDS Listing

CONSTANTS
  CategoryLists,    \* sequences of [requests, share], those with most requests first
  CityLists,        \* sequences of [requests, jobSearches, providerSearches], ranked
  Unanswered,       \* numbers of requests without an offer for 24 hours
  Minutes,          \* response times, or NoFigure
  Rates,            \* success rates in percent
  Completeness,     \* of the viewer's profile, in percent
  NoFigure          \* null

ASSUME InsightsAssumption ==
  /\ NoFigure \notin Int
  /\ CategoryLists \subseteq Seq([requests: Nat, share: Nat])
  /\ CityLists \subseteq Seq([requests: Nat, jobSearches: Nat, providerSearches: Nat])
  /\ Unanswered \subseteq Nat

VARIABLE figures    \* what a call has loaded, or NoFigure between two calls

Viewers == {"guest", "client", "provider"}

\* A guest is shown the platform; to a viewer with an account it is shown as to his role.
Figures == [viewer: Viewers, categories: CategoryLists, cities: CityLists,
            unanswered: Unanswered, marketMinutes: Minutes, ownMinutes: Minutes,
            successRate: Rates, completeness: Completeness]

InsightsInit == figures = NoFigure

LoadFigures == figures = NoFigure /\ figures' \in Figures

AnswerViewer == figures # NoFigure /\ figures' = NoFigure

InsightsNext == LoadFigures \/ AnswerViewer

InsightsSpec == InsightsInit /\ [][InsightsNext]_figures

-----------------------------------------------------------------------------
(* The rules. *)

\* The weights, in hundredths, and Math.round().
ScoreOf(impact, relevance, confidence, freshness) ==
  (35 * impact + 30 * relevance + 20 * confidence + 15 * freshness + 50) \div 100

\* The insight of a rule, if the rule applies.
Where(applies, rule, type, audience, code, score) ==
  IF applies
    THEN {[rule |-> rule, type |-> type, audience |-> audience, code |-> code, score |-> score]}
    ELSE {}

\* How many providers are looked for to one job that is, in hundredths, or no figure.
DemandSupplyRatio(city) ==
  IF city.jobSearches > 0
    THEN (200 * city.providerSearches + city.jobSearches) \div (2 * city.jobSearches)
  ELSE IF city.providerSearches > 0 THEN 100 * city.providerSearches
  ELSE NoFigure

RatioAtLeast(city, hundredths) ==
  DemandSupplyRatio(city) # NoFigure /\ DemandSupplyRatio(city) >= hundredths

Some(list, Test(_)) == \E i \in DOMAIN list : Test(list[i])

LeaderHas(list, requests) == list # <<>> /\ list[1].requests >= requests

DemandInsights(f) ==
  Where(LeaderHas(f.categories, 3), 1, "demand", "all", "top_category_demand",
        ScoreOf(75, 70, 85, 72))
  \union Where(LeaderHas(f.cities, 3), 2, "demand", "all", "top_city_demand", ScoreOf(74, 68, 82, 72))

OpportunityInsights(f) ==
  Where(f.viewer # "client" /\ Some(f.cities, LAMBDA city : RatioAtLeast(city, 150)),
        3, "opportunity", f.viewer, "city_opportunity_high", ScoreOf(88, 84, 83, 75))
  \union Where(f.viewer # "client" /\ Some(f.categories, LAMBDA category : category.share >= 15),
           4, "opportunity", f.viewer, "category_opportunity_high", ScoreOf(82, 80, 76, 72))

ResponseMinutes(f) ==
  IF f.viewer = "guest" \/ f.ownMinutes = NoFigure THEN f.marketMinutes ELSE f.ownMinutes

PerformanceInsights(f) ==
  Where(f.viewer # "guest" /\ ResponseMinutes(f) # NoFigure /\ ResponseMinutes(f) \in 1..30,
        5, "performance", "provider", "user_fast_response", ScoreOf(70, 82, 74, 70))
  \union Where(f.viewer # "guest" /\ f.successRate \in 1..24,
           6, "performance", "provider", "user_low_conversion", ScoreOf(80, 86, 78, 75))

\* The snapshot says of everyone that he has a photo.
GrowthInsights(f) ==
  Where(f.viewer # "guest" /\ f.completeness < 70,
        7, "growth", "provider", "profile_low_completeness", ScoreOf(62, 79, 81, 67))

RiskInsights(f) ==
  Where(f.unanswered >= 3, 8, "risk", "all", "high_unanswered_requests", ScoreOf(85, 75, 86, 80))

PromotionInsights(f) ==
  Where(f.viewer # "client" /\ Some(f.cities, LAMBDA city : RatioAtLeast(city, 170)
                                                        /\ city.providerSearches >= 2),
        9, "promotion", f.viewer, "local_ads_opportunity", ScoreOf(78, 74, 72, 73))

RawInsights(f) ==
  DemandInsights(f) \union OpportunityInsights(f) \union PerformanceInsights(f)
    \union GrowthInsights(f) \union RiskInsights(f) \union PromotionInsights(f)

-----------------------------------------------------------------------------
(* What is shown. *)

MaxInsights == 4

\* Variant: the insights stay in the order of the rules.
RankedAsBuilt(items) == InOrder(items, [item \in items |-> <<item.rule>>])

\* By score, and equal ones in the order of the rules: sort() is stable.  No two
\* insights share a context, so none is dropped as a duplicate.
Ranked(items) == InOrder(items, [item \in items |-> <<-item.score, item.rule>>])

Fallback ==
  [rule |-> 0, type |-> "growth", audience |-> "all", code |-> "insufficient_data", score |-> 10]

Allowed(f) == {item \in RawInsights(f) : item.audience \in {"all", f.viewer}}

\* Of risks and of promotions one is shown; no rule makes two.
Shown(f) ==
  IF Allowed(f) = {} THEN <<Fallback>> ELSE FirstOf(Ranked(Allowed(f)), MaxInsights)

\* The sections of advice, which a guest does not get.
Risks(f) == {item \in MembersOf(Shown(f)) : item.type = "risk"}

Opportunities(f) ==
  {item \in MembersOf(Shown(f)) : item.type \in {"demand", "opportunity", "growth"}}

NextSteps(f) == IF Shown(f) = <<Fallback>> THEN <<>> ELSE FirstOf(Shown(f), 3)

-----------------------------------------------------------------------------
\* The type of the figures of a call.
InsightsTypeOK == figures \in Figures \union {NoFigure}

CodeAt(list, code, i) == i \in DOMAIN list /\ list[i].code = code

\* Whatever chances the market has to offer, they never push the warning of unanswered
\* requests out of the next steps; and nobody is advised to pay for local promotion
\* without being shown, before it, the chance in a city that the advice rests on.
CutKeepsWhatMatters ==
  figures # NoFigure =>
    /\ figures.unanswered >= 3 =>
         /\ \E i \in 1..3 : CodeAt(NextSteps(figures), "high_unanswered_requests", i)
         /\ Risks(figures) # {}
    /\ \A i \in 1..MaxInsights :
         CodeAt(Shown(figures), "local_ads_opportunity", i)
           => \E j \in 1..(i - 1) :
                /\ CodeAt(Shown(figures), "city_opportunity_high", j)
                /\ Shown(figures)[j] \in Opportunities(figures)
=============================================================================
