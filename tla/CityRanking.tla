---------------------------- MODULE CityRanking ----------------------------
(***************************************************************************)
(* GET /workspace/statistics: the cities of the market, ranked, a page at  *)
(* a time, and the radar of chances beside them                            *)
(* (workspace-statistics-market.support.ts).  Without a city in the filter *)
(* the radar shows the best three; with one it shows that city and the two *)
(* it competes with, and the list is cut to its surroundings.              *)
(*                                                                         *)
(* Places are points of a line, in kilometres.  Ratios are in hundredths   *)
(* and scores in tenths, as the code rounds them.                          *)
(***************************************************************************)
EXTENDS Listing, FiniteSetsExt

CONSTANTS
  Towns,            \* integers, in the order of the alphabet
  Markets,          \* sets of functions from towns to what was counted in them
  Pace,             \* what growth and speed add to every score, in hundredths
  Pages, Limits,    \* what a caller asks for
  NoCount           \* null

\* A market names finitely many towns, each with its requests, the searches counted in
\* it and its place, if they are known.
ASSUME CitiesAssumption ==
  /\ Towns \subseteq Int /\ NoCount \notin Int /\ Pace \in Nat
  /\ Pages \subseteq Int /\ Limits \subseteq Int
  /\ \A market \in Markets :
       /\ IsFiniteSet(DOMAIN market) /\ DOMAIN market \subseteq Towns
       /\ \A t \in DOMAIN market :
            market[t] \in [requests: Nat, jobs: Nat \union {NoCount},
                           providers: Nat \union {NoCount}, place: Int \union {NoCount}]

VARIABLE cityQuery  \* what a call has loaded, or NoCount between two calls

CitiesInit == cityQuery = NoCount

CityQueries == [market: Markets, focus: Towns \union {NoCount}, page: Pages, limit: Limits]

LoadCities == cityQuery = NoCount /\ cityQuery' \in CityQueries

AnswerCities == cityQuery # NoCount /\ cityQuery' = NoCount

CitiesNext == LoadCities \/ AnswerCities

CitiesSpec == CitiesInit /\ [][CitiesNext]_cityQuery

-----------------------------------------------------------------------------
(* Figures of a city. *)

Nearest(n, d) == (2 * n + d) \div (2 * d)

\* A count that is missing beside one that is there follows the requests, or else
\* the other count.
Proxy(own, requests, other) ==
  IF own # NoCount THEN own
  ELSE IF other = NoCount THEN NoCount
  ELSE AtLeast(1, IF requests > 0 THEN requests ELSE other)

\* The searches, and how many there are for providers, or requests, to one for jobs.
Balanced(jobs, providers, requests) ==
  LET demand == IF providers = 0 THEN requests ELSE providers IN
  [jobs |-> jobs, providers |-> providers,
   balance |-> IF NoCount \in {jobs, providers} \/ (demand = 0 /\ jobs = 0) THEN NoCount
               ELSE Nearest(100 * demand, AtLeast(1, jobs))]

BalancedFor(city, jobs) ==
  Balanced(jobs, Proxy(city.providers, city.requests, jobs), city.requests)

\* resolveCitySearchMetrics(): searches for jobs, then those for providers, and the balance.
SearchMetrics(city) == BalancedFor(city, Proxy(city.jobs, city.requests, city.providers))

\* A city that has been merged carries its balance.
BalanceOf(city) ==
  IF "balance" \in DOMAIN city THEN city.balance ELSE SearchMetrics(city).balance

\* Of two counts the larger one, and of one the one that is there.
OfEither(m, n) == IF m = NoCount THEN n ELSE IF n = NoCount THEN m ELSE AtLeast(m, n)

Demand(city) == OfEither(SearchMetrics(city).providers, city.requests)

MaxDemand(market) == Max({1} \union {Demand(market[t]) : t \in DOMAIN market})

\* Four tenths for the demand, three for the balance, the rest for growth and speed.
Score(demand, balance, most) ==
  LET chance == IF balance = NoCount THEN 75 ELSE AtMost(balance, 150) IN
  Nearest(6000 * demand + (30 * chance + 150 * Pace) * most, 150 * most)

OpportunityScores(market) ==
  [t \in DOMAIN market |-> Score(Demand(market[t]), BalanceOf(market[t]), MaxDemand(market))]

-----------------------------------------------------------------------------
(* The ranking. *)

\* A set of towns by score, then by demand, then by name.
ByScore(towns, score, demand) ==
  InOrder(towns, [t \in towns |-> <<-score[t], -demand[t], t>>])

RankTowns(market, towns) ==
  ByScore(towns, OpportunityScores(market), [t \in towns |-> Demand(market[t])])

Distance(market, t, u) ==
  LET a == market[t].place
      b == market[u].place
  IN IF NoCount \in {a, b} THEN NoCount ELSE IF a < b THEN b - a ELSE a - b

Near(market, t, u) == Distance(market, t, u) \in 0..50

\* The towns of the list: all, or the one in the filter and those around it.
Around(q) ==
  {t \in DOMAIN q.market : q.focus # NoCount =>
     q.focus \in DOMAIN q.market /\ (t = q.focus \/ Near(q.market, q.focus, t))}

ListedTowns(q) == RankTowns(q.market, Around(q))

PlaceOf(list, t) == CHOOSE i \in DOMAIN list : list[i] = t

\* Variant: those ranked above are taken from the top.
CompetitorsFromTop(list, focus) ==
  LET at == PlaceOf(list, focus)
      others == SubSeq(list, 1, at - 1) \o SubSeq(list, at + 1, Len(list))
  IN FirstOf(others, 2)

\* Those ranked above him, the closest first, and then those below: two of them.
Competitors(list, focus) ==
  LET at == PlaceOf(list, focus)
      others == [k \in 1..(at - 1) |-> list[at - k]] \o SubSeq(list, at + 1, Len(list))
  IN FirstOf(others, 2)

\* The towns on the radar, its focus first.
Radar(q, list) ==
  IF list = <<>> THEN <<>>
  ELSE IF q.focus = NoCount THEN FirstOf(list, 3)
  ELSE <<q.focus>> \o Competitors(list, q.focus)

\* The role that each row of the list shows.
Roles(q, list) ==
  LET competitors == IF list = <<>> \/ q.focus = NoCount THEN <<>> ELSE Competitors(list, q.focus)
  IN [i \in DOMAIN list |->
        IF list[i] = q.focus THEN "focus"
        ELSE IF \E k \in DOMAIN competitors : competitors[k] = list[i] THEN "competitor"
        ELSE "none"]

\* paginateCityList()
PageOf(list, page, limit) ==
  LET size == AtMost(20, AtLeast(1, limit))
      pages == PageCount(list, size)
      p == AtMost(pages, AtLeast(1, page))
  IN [items |-> SubSeq(list, (p - 1) * size + 1, AtMost(p * size, Len(list))),
      page |-> p, pages |-> pages]

-----------------------------------------------------------------------------
\* The type of what a call has loaded.
CitiesTypeOK == cityQuery \in CityQueries \union {NoCount}

\* What a list, a page of it, the towns on the radar, the roles and the scores have to do
\* with each other.
Agree(q, list, shown, onRadar, roles, score) ==
  LET rivals == {i \in DOMAIN list : roles[i] = "competitor"} IN
  /\ shown.page \in 1..shown.pages
  /\ list # <<>> => shown.items # <<>>
  /\ \A i \in DOMAIN shown.items : \E j \in DOMAIN list :
       /\ list[j] = shown.items[i]
       /\ q.page = shown.page /\ q.limit \in 1..20 => j = (q.page - 1) * q.limit + i
  /\ onRadar \subseteq MembersOf(list)
  /\ q.focus = NoCount => \A t \in onRadar : \A u \in DOMAIN q.market \ onRadar :
       score[t] >= score[u]
  /\ list # <<>> /\ q.focus # NoCount =>
       LET at == PlaceOf(list, q.focus) IN
       /\ onRadar = {list[i] : i \in {j \in DOMAIN list : roles[j] # "none"}}
       /\ Cardinality(rivals) = AtMost(2, Len(list) - 1)
       /\ \A i \in rivals :
            /\ Near(q.market, q.focus, list[i])
            /\ \A k \in (i..at) \union (at..i) : list[k] \in onRadar
            /\ i > at => \A k \in 1..at : list[k] \in onRadar

OneStory(q, list) ==
  Agree(q, list, PageOf(list, q.page, q.limit), MembersOf(Radar(q, list)), Roles(q, list),
        OpportunityScores(q.market))

\* The list and the radar tell one story.  The page that is shown is a window of the
\* ranking, whatever page is asked for, and is not empty if the ranking is not.  The
\* towns on the radar are those that the list marks, all of them near the town of the
\* filter and none left out between them and it: the radar shows the rivals right above
\* it, and looks below only when there are no two above.
RadarAgreesWithList ==
  cityQuery # NoCount => OneStory(cityQuery, ListedTowns(cityQuery))
=============================================================================
