----------------------------- MODULE PriceAdvice -----------------------------
(***************************************************************************)
(* GET /workspace/statistics for a short range: where its window holds too *)
(* little, getStatisticsOverview() calls itself for thirty days and fills  *)
(* the gaps, field by field, with what that call answers a moment later.   *)
(* What comes of it are the cities of CityRanking and a price with its     *)
(* range (buildPriceIntelligence()), and what a person is told of his own  *)
(* (buildPersonalizedPricing(), workspace-statistics-decision.support.ts). *)
(*                                                                         *)
(* Prices are in euros.                                                    *)
(***************************************************************************)
EXTENDS CityRanking

CONSTANTS
  MarketWindows,    \* what a window may hold: completed contracts and what they came to,
                    \* whether there is a category, and towns
  OwnPrices,        \* average order values of the person who asks
  FewRequests, ManyRequests   \* the requests from which a price is medium and highly reliable

ASSUME PriceAssumption ==
  /\ FewRequests \in Nat /\ ManyRequests \in Nat /\ FewRequests <= ManyRequests
  /\ OwnPrices \subseteq Nat \union {NoCount} /\ NoCount \notin MarketWindows
  /\ \A w \in MarketWindows :
       /\ w.revenue \in Nat /\ w.jobs \in Nat /\ w.category \in BOOLEAN
       /\ IsFiniteSet(DOMAIN w.towns) /\ DOMAIN w.towns \subseteq Towns
       /\ \A t \in DOMAIN w.towns :
            /\ w.towns[t] \in [requests: Nat, filtered: Nat, searched: BOOLEAN,
                               jobs: Nat \union {NoCount}, providers: Nat \union {NoCount},
                               place: Int \union {NoCount}]
            /\ w.towns[t].filtered <= w.towns[t].requests

VARIABLE advice     \* a call between its queries, or NoCount

-----------------------------------------------------------------------------
(* Cities: a town of a window has its published requests, whatever the filter, those of *)
(* the filter (zero if no row is loaded for it), whether its searches were counted, and *)
(* the counts, of which those for jobs may be missing. *)

\* The cities of the public overview with the figures of the statistics' rows.
CountedTowns(w) ==
  [t \in DOMAIN w.towns |->
    LET town == w.towns[t]
        nothing == [requests |-> town.requests, jobs |-> NoCount, providers |-> NoCount,
                    balance |-> NoCount, place |-> town.place]
        m == SearchMetrics([town EXCEPT !.requests = town.filtered]) IN
    IF town.filtered = 0 THEN nothing
    ELSE [nothing EXCEPT !.jobs = m.jobs, !.providers = m.providers, !.balance = m.balance]]

\* hasCitySignalCoverageGap, hasIncompleteCitySearchSignals()
HasGap(w) ==
  \E t \in DOMAIN w.towns : w.towns[t].requests > 0 /\ (w.towns[t].filtered = 0 \/ ~w.towns[t].searched)

HasSearches(market) ==
  \E t \in DOMAIN market : {market[t].jobs, market[t].providers} \ {0, NoCount} # {}

MergedTown(town, older) ==
  LET m == SearchMetrics([town EXCEPT !.jobs = OfEither(@, older.jobs),
                                      !.providers = OfEither(@, older.providers)]) IN
  [town EXCEPT !.jobs = m.jobs, !.providers = m.providers, !.balance = m.balance]

\* mergeCitySearchSignals()
MergedTowns(market, older) ==
  IF DOMAIN market = {} THEN older
  ELSE [t \in DOMAIN market |-> IF t \in DOMAIN older THEN MergedTown(market[t], older[t]) ELSE market[t]]

Query(market) == [market |-> market, focus |-> advice.focus]

\* The cities that a call over thirty days answers.
OlderTowns ==
  LET market == CountedTowns(advice.older)
      listed == ListedTowns(Query(market)) IN
  [t \in {listed[i] : i \in DOMAIN listed} |-> market[t]]

-----------------------------------------------------------------------------
(* The price. *)

\* roundToNearestStep(n / d, 5)
ToFive(n, d) == AtLeast(5, 5 * Nearest(n, 5 * d))

HasRevenue(w) == w.jobs > 0 /\ w.revenue > 0

NoPrice == [min |-> NoCount, max |-> NoCount, average |-> NoCount, low |-> NoCount,
            high |-> NoCount, smart |-> NoCount, town |-> NoCount, demand |-> NoCount]

\* buildPriceIntelligence(): the range, the best part of it and the price proposed, for
\* a city that has a demand.
PriceFor(w, market, town) ==
  LET min == ToFive(85 * w.revenue, 100 * w.jobs)
      max == ToFive(115 * w.revenue, 100 * w.jobs)
      low == Nearest(100 * min + 35 * (max - min), 100)
      high == Nearest(10 * min + 7 * (max - min), 10)
      named == [NoPrice EXCEPT !.town = town,
                               !.demand = IF town = NoCount THEN NoCount ELSE Demand(market[town])]
      ranged == [named EXCEPT !.min = min, !.max = max, !.average = ToFive(w.revenue, w.jobs)] IN
  IF ~HasRevenue(w) THEN named
  ELSE IF min = max THEN ranged
  ELSE [ranged EXCEPT !.low = low, !.high = high, !.smart = ToFive(low + high, 2)]

HasPrice(price) == price.average # NoCount

\* hasProfitPotentialSignal(): a potential is told of every city.
HasPotential(price) == price.town # NoCount

FirstTown(list) == IF list = <<>> THEN NoCount ELSE list[1]

BestTown(market) == FirstTown(RankTowns(market, DOMAIN market))

\* The price for the first city on the radar or, without a radar, for the best one.
PriceOnRadar(w, market, radar) ==
  PriceFor(w, market, IF radar = <<>> THEN BestTown(market) ELSE radar[1])

ScopedPrice(w, market) ==
  PriceOnRadar(w, market, Radar(Query(market), ListedTowns(Query(market))))

Chosen(scoped, price) ==
  IF HasPrice(scoped) \/ (~HasPrice(price) /\ HasPotential(scoped)) THEN scoped ELSE price

-----------------------------------------------------------------------------
(* The call. *)

\* A later window of thirty days around a shorter one.
Holds(older, short) ==
  /\ older.jobs >= short.jobs /\ older.revenue >= short.revenue
  /\ older.jobs = short.jobs => older.revenue = short.revenue
  /\ short.category => older.category
  /\ \A t \in DOMAIN short.towns :
       t \in DOMAIN older.towns /\ older.towns[t].requests >= short.towns[t].requests

OwnTowns == CountedTowns(advice.own)

InitialPrice == PriceFor(advice.own, OwnTowns, BestTown(OwnTowns))

FillCities ==
  \/ advice.range = "24h" /\ (HasGap(advice.own) \/ ~HasSearches(OwnTowns))
  \/ advice.range = "7d" /\ HasGap(advice.own)

FillPrice == advice.range = "24h" /\ ~HasPrice(InitialPrice)

AsksOlder ==
  \/ FillCities \/ FillPrice
  \/ advice.range = "24h" /\ (~advice.own.category \/ DOMAIN advice.own.towns = {})

AdviceInit == advice = NoCount

LoadOwnWindow ==
  /\ advice = NoCount
  /\ \E range \in {"24h", "7d", "30d"}, own \in MarketWindows, focus \in Towns \union {NoCount},
        price \in OwnPrices :
       advice' = [range |-> range, focus |-> focus, own |-> own, price |-> price, older |-> NoCount]

\* The call of itself, which reads everything anew.
LoadOlderWindow ==
  /\ advice # NoCount /\ advice.older = NoCount /\ AsksOlder
  /\ \E older \in MarketWindows :
       /\ Holds(older, advice.own)
       /\ advice' = [advice EXCEPT !.older = older]

Answerable == advice # NoCount /\ (AsksOlder => advice.older # NoCount)

AnswerAdvice == Answerable /\ advice' = NoCount

AdviceNext == LoadOwnWindow \/ LoadOlderWindow \/ AnswerAdvice

AdviceSpec == AdviceInit /\ [][AdviceNext]_advice

\* The cities and the price after the gaps are filled.
FilledTowns ==
  IF FillCities /\ DOMAIN OlderTowns # {} THEN MergedTowns(OwnTowns, OlderTowns) ELSE OwnTowns

OlderPrice ==
  LET market == CountedTowns(advice.older) IN
  Chosen(ScopedPrice(advice.older, market),
         PriceFor(advice.older, market, BestTown(market)))

Filled(initial, older) == IF HasPrice(older) \/ HasPotential(older) THEN older ELSE initial

FilledPrice == IF FillPrice THEN Filled(InitialPrice, OlderPrice) ELSE InitialPrice

FinalPrice == Chosen(ScopedPrice(advice.own, FilledTowns), FilledPrice)

FinalCities == ListedTowns(Query(FilledTowns))

\* decisionContext.lowData
TooLittle(cities, price) == advice.focus # NoCount /\ (cities = <<>> \/ ~HasPrice(price))

-----------------------------------------------------------------------------
(* buildPersonalizedPricing() *)

\* resolvePricingComparisonReliability(), resolvePriceConfidenceLevel()
Reliability(own, price) ==
  IF own = NoCount \/ ~HasPrice(price) THEN "unavailable"
  ELSE IF price.demand = NoCount THEN "low"
  ELSE IF price.demand >= ManyRequests THEN "high"
  ELSE IF price.demand >= FewRequests THEN "medium" ELSE "low"

Position(own, price) ==
  IF Reliability(own, price) = "unavailable" THEN "unknown"
  ELSE IF own < price.min THEN "below"
  ELSE IF own > price.max THEN "above" ELSE "within"

AdjustPrice(own, price) ==
  Reliability(own, price) \in {"high", "medium"} /\ Position(own, price) \in {"below", "above"}

-----------------------------------------------------------------------------
\* The type of what a call has loaded.
AdviceTypeOK ==
  advice # NoCount =>
    advice \in [range: {"24h", "7d", "30d"}, focus: Towns \union {NoCount}, own: MarketWindows,
                price: OwnPrices, older: MarketWindows \union {NoCount}]

\* What the cities of the window, those with the gaps filled, their list, its radar and
\* the price have to do with each other.
Fit(own, towns, cities, radar, price) ==
  LET filled == advice.older # NoCount IN
  /\ HasPrice(price) <=>
       (HasRevenue(advice.own) \/ (advice.range = "24h" /\ filled /\ HasRevenue(advice.older)))
  /\ HasRevenue(advice.own) => price.average = ToFive(advice.own.revenue, advice.own.jobs)
  /\ (radar # <<>> /\ price.town # radar[1]) =>
       filled /\ ~HasRevenue(advice.own) /\ HasRevenue(advice.older)
  /\ \A t \in DOMAIN own :
       /\ own[t].jobs # NoCount => towns[t].jobs >= own[t].jobs
       /\ own[t].providers # NoCount => towns[t].providers >= own[t].providers
  /\ \A t \in DOMAIN towns :
       \/ towns[t].balance = SearchMetrics(towns[t]).balance
       \/ towns[t].providers = 0 /\ \E w \in {advice.own, advice.older} \ {NoCount} :
            t \in DOMAIN w.towns /\ w.towns[t].filtered < w.towns[t].requests
  /\ HasPrice(price) => price.min <= price.average /\ price.average <= price.max
  /\ price.smart # NoCount =>
       /\ price.min <= price.low /\ price.low <= price.high /\ price.high <= price.max
       /\ price.smart \in price.min..price.max
  /\ AdjustPrice(advice.price, price) =>
       ~(price.average >= 70 /\ 10 * advice.price \in (9 * price.average)..(11 * price.average))
  /\ (HasRevenue(advice.own) /\ advice.focus \in DOMAIN own) => ~TooLittle(cities, price)

\* What is filled in fits what it is put beside.  A day without a completed contract is
\* given the price of the thirty days if those have one, and a range with contracts of
\* its own keeps their average; the price is that of the first city on the radar unless
\* it comes from the thirty days.  No count of a city shrinks by the filling, and every
\* balance is that of the counts beside it but where the filter hides requests.  Every
\* price lies in its range, the best part of the range too, and nobody is told to adjust
\* a price that is within a tenth of an average of seventy or more.  No city of the filter
\* is too little data if the window itself has contracts and the city.
AdviceFits ==
  Answerable =>
    Fit(OwnTowns, FilledTowns, FinalCities, Radar(Query(FilledTowns), FinalCities), FinalPrice)
=============================================================================
