--------------------------- MODULE PrivateOverview ---------------------------
(***************************************************************************)
(* GET /workspace/private (workspace-private-overview.service.ts): what a  *)
(* person has under way, how this month compares with the last, and six    *)
(* months as bars and a line.  Twenty-one queries run in parallel, between *)
(* bounds taken before them; the bars' months are taken again after them,  *)
(* when a contract may have been completed and the month may have turned.  *)
(*                                                                         *)
(* Time is in days, and every month has MonthDays of them.                 *)
(***************************************************************************)
EXTENDS Integers, Sequences, FiniteSets

CONSTANTS
  OwnDocs,          \* the person's requests, offers and contracts
  OwnDocSets,       \* those of them there are, by their indices
  MonthDays,
  DaysAsked,        \* when the page is asked for
  PeriodDays,       \* PRIVATE_OVERVIEW_PERIOD_MS
  NotAsked          \* null

\* A contract is dated when it is completed, and nothing is dated after the page is asked for.
ASSUME OverviewAssumption ==
  /\ MonthDays \in Nat \ {0} /\ DaysAsked \subseteq Nat /\ NotAsked \notin Nat
  /\ DOMAIN OwnDocs = 1..Len(OwnDocs) /\ Len(OwnDocs) \in Nat
  /\ OwnDocSets \subseteq SUBSET DOMAIN OwnDocs
  /\ \A i \in DOMAIN OwnDocs :
       /\ OwnDocs[i].created \in Nat /\ OwnDocs[i].price \in Nat
       /\ OwnDocs[i].done # NotAsked <=> OwnDocs[i].status = "completed"
       /\ OwnDocs[i].status = "completed" => OwnDocs[i].done \in Nat
       /\ \A day \in DaysAsked :
            OwnDocs[i].created <= day /\ (OwnDocs[i].done \in Nat => OwnDocs[i].done <= day)
       /\ \/ /\ OwnDocs[i].kind = "contract"
             /\ OwnDocs[i].status \in
                  {"pending", "confirmed", "in_progress", "completed", "cancelled"}
          \/ /\ OwnDocs[i].kind = "request"
             /\ OwnDocs[i].status \in
                  {"draft", "published", "paused", "matched", "closed", "cancelled"}
          \/ /\ OwnDocs[i].kind = "offer"
             /\ OwnDocs[i].status \in {"sent", "accepted", "declined", "withdrawn"}

VARIABLE own        \* what a call loads, or NotAsked between two calls

-----------------------------------------------------------------------------
Contracts(side) == {i \in DOMAIN OwnDocs : OwnDocs[i].kind = "contract" /\ OwnDocs[i].side = side}

Requests == {i \in DOMAIN OwnDocs : OwnDocs[i].kind = "request"}

Offers(side) == {i \in DOMAIN OwnDocs : OwnDocs[i].kind = "offer" /\ OwnDocs[i].side = side}

OverviewInit == own = NotAsked

\* The queries, of which some may see a contract's completion and others not.
LoadOverview ==
  /\ own = NotAsked
  /\ \E docs \in OwnDocSets, asked \in DaysAsked, period \in PeriodDays, role \in {"client", "provider"},
        seen \in SUBSET {"status", "month", "series"} :
       \E ending \in {{}} \union {{i} : i \in {d \in docs : OwnDocs[d].done # NotAsked}} :
         own' = [docs |-> docs, asked |-> asked, now |-> asked, period |-> period, role |-> role,
                 ending |-> ending, seen |-> IF ending = {} THEN {} ELSE seen]

\* Midnight passes while the queries run.
OverviewNight ==
  /\ own # NotAsked /\ own.now = own.asked
  /\ own' = [own EXCEPT !.now = @ + 1]

AnswerOverview == own # NotAsked /\ own' = NotAsked

OverviewNext == LoadOverview \/ OverviewNight \/ AnswerOverview

OverviewSpec == OverviewInit /\ [][OverviewNext]_own

-----------------------------------------------------------------------------
(* Months and counts. *)

MonthOf(day) == day \div MonthDays

\* Variant: the first day of the next month belongs to the month.
InMonthOrNext(t, day, offset) ==
  LET start == (MonthOf(day) + offset) * MonthDays IN t \in start..(start + MonthDays)

\* monthBoundsUTC()
InMonth(t, day, offset) ==
  LET start == (MonthOf(day) + offset) * MonthDays IN t \in start..(start + MonthDays - 1)

\* The status that a query has seen.
StatusOf(i, query) ==
  IF i \in own.ending /\ query \notin own.seen THEN "in_progress" ELSE OwnDocs[i].status

\* toStatusCounts()
HowMany(docs, statuses) ==
  Cardinality({i \in docs \intersect own.docs : StatusOf(i, "status") \in statuses})

CompletedIn(side, offset) ==
  Cardinality({i \in Contracts(side) \intersect own.docs :
                 StatusOf(i, "month") = "completed" /\ InMonth(OwnDocs[i].done, own.asked, offset)})

\* buildDelta(): the percentage is Math.round() of the change.
Delta(current, previous) ==
  IF previous > 0
  THEN [kind |-> "percent",
        percent |-> (200 * (current - previous) + previous) \div (2 * previous)]
  ELSE [kind |-> IF current > 0 THEN "new" ELSE "none", percent |-> NotAsked]

-----------------------------------------------------------------------------
(* Six months. *)

SinceHalfYear(t) == t >= (MonthOf(own.asked) - 5) * MonthDays

LoadedContracts(side) ==
  {i \in Contracts(side) \intersect own.docs :
     StatusOf(i, "series") = "completed" /\ SinceHalfYear(OwnDocs[i].done)}

LoadedRequests == {i \in Requests \intersect own.docs : SinceHalfYear(OwnDocs[i].created)}

\* The documents of the month of a bar, the sixth being this month's.
OfBar(docs, n, field) == {i \in docs : InMonth(OwnDocs[i][field], own.now, n - 6)}

ProviderBar(n) == Cardinality(OfBar(LoadedContracts("provider"), n, "done"))

\* What contracts are worth together.
ValueOf(docs) ==
  LET upTo[n \in 0..Len(OwnDocs)] ==
        IF n = 0 THEN 0 ELSE upTo[n - 1] + (IF n \in docs THEN OwnDocs[n].price ELSE 0)
  IN upTo[Len(OwnDocs)]

ProviderLine(n) == ValueOf(OfBar(LoadedContracts("provider"), n, "done"))

ClientBar(n) == Cardinality(OfBar(LoadedRequests, n, "created"))

ClientLine(n) == Cardinality(OfBar(LoadedContracts("client"), n, "done"))

AllBars(Bar(_)) == Bar(1) + Bar(2) + Bar(3) + Bar(4) + Bar(5) + Bar(6)

-----------------------------------------------------------------------------
(* The role the page opens with, and the figures. *)

\* countItemsWithinPeriod(): requests have been loaded with createdAt alone.
ActiveDocs(docs) ==
  {i \in docs \intersect own.docs :
     (IF OwnDocs[i].kind = "request" THEN OwnDocs[i].created ELSE OwnDocs[i].updated)
       >= own.now - own.period}

CustomerLoad == Cardinality(ActiveDocs(Requests \union Offers("client") \union Contracts("client")))

ProviderLoad == Cardinality(ActiveDocs(Offers("provider") \union Contracts("provider")))

PreferredRole ==
  CASE CustomerLoad > ProviderLoad -> "customer"
    [] ProviderLoad > CustomerLoad -> "provider"
    [] OTHER -> IF own.role = "provider" THEN "provider" ELSE "customer"

KeptRequests == {i \in Requests : ~OwnDocs[i].archived}

OpenRequests == HowMany(KeptRequests, {"draft", "published", "paused", "matched"})

ActiveContracts(side) == HowMany(Contracts(side), {"pending", "confirmed", "in_progress"})

\* Percentages are rounded, halves up.
Percent(n, d) == (200 * n + d) \div (2 * d)

AcceptanceRate ==
  LET accepted == HowMany(Offers("provider"), {"accepted"})
      decided == HowMany(Offers("provider"), {"accepted", "declined"}) IN
  IF decided = 0 THEN 0 ELSE Percent(accepted, decided)

ActivityProgress ==
  LET accepted == HowMany(Offers("provider"), {"accepted"})
      base == HowMany(Offers("provider"), {"sent", "accepted"}) IN
  IF base = 0 THEN 12 ELSE Percent(accepted, base)

RecentOffers ==
  Cardinality({i \in Offers("provider") \intersect own.docs : OwnDocs[i].created >= own.asked - 7})

-----------------------------------------------------------------------------
\* The type of what a call has loaded.
OverviewTypeOK ==
  own # NotAsked =>
    own \in [docs: OwnDocSets, asked: DaysAsked, now: {own.asked, own.asked + 1},
             period: PeriodDays, role: {"client", "provider"},
             ending: SUBSET {i \in own.docs : OwnDocs[i].done # NotAsked},
             seen: SUBSET {"status", "month", "series"}]

\* What rounding hides: at most one in two hundred.
OfTwoHundred(part, whole) == 200 * part <= whole

\* The bars and the figures beside them, which come from different queries and clocks,
\* tell the same story.  This month's and last month's completed contracts are two of the
\* bars, at most one contract apart, and the month's turn moves them by one bar.  Every
\* document loaded is in exactly one bar, except that the oldest bar is dropped when the
\* month turns.  What grew in the bars did not shrink in the percentage, and whoever the
\* page greets in a role he does not have did something in it in the period.
OverviewAddsUp ==
  own # NotAsked =>
    LET shift == MonthOf(own.now) - MonthOf(own.asked)
        apart == Cardinality(own.ending)
        before == ProviderBar(5 - shift)
        grown == ProviderBar(6 - shift) - before
        delta == Delta(CompletedIn("provider", 0), CompletedIn("provider", -1))
        contracts == LoadedContracts("provider")
        gone == IF shift = 0 THEN {} ELSE {i \in contracts : InMonth(OwnDocs[i].done, own.asked, -5)}
        forgotten == IF shift = 0 THEN {}
                     ELSE {i \in LoadedRequests : InMonth(OwnDocs[i].created, own.asked, -5)} IN
    /\ \A m \in {0, 1} :
         ProviderBar(6 - m - shift) - CompletedIn("provider", -m) \in (0 - apart)..apart
    /\ AllBars(ProviderBar) = Cardinality(contracts \ gone)
    /\ AllBars(ProviderLine) = ValueOf(contracts \ gone)
    /\ AllBars(ClientBar) = Cardinality(LoadedRequests \ forgotten)
    /\ (apart = 0 /\ grown > 0) =>
         \/ delta.kind = "new" /\ before = 0
         \/ delta.kind = "percent" /\ (delta.percent > 0 \/ OfTwoHundred(grown, before))
    /\ (PreferredRole = "provider" /\ own.role = "client") => ProviderLoad > 0
    /\ (PreferredRole = "customer" /\ own.role = "provider") => CustomerLoad > 0
    /\ ActiveContracts("provider") + HowMany(Contracts("provider"), {"completed", "cancelled"})
         = Cardinality(Contracts("provider") \intersect own.docs)
    /\ CompletedIn("provider", 0) + CompletedIn("provider", -1)
         <= HowMany(Contracts("provider"), {"completed"}) + apart
    /\ OpenRequests + HowMany(KeptRequests, {"closed", "cancelled"})
         = Cardinality(KeptRequests \intersect own.docs)
    /\ AcceptanceRate = 100 =>
         OfTwoHundred(HowMany(Offers("provider"), {"declined"}),
                      HowMany(Offers("provider"), {"accepted", "declined"}))
    /\ ActivityProgress = 100 =>
         OfTwoHundred(HowMany(Offers("provider"), {"sent"}),
                      HowMany(Offers("provider"), {"sent", "accepted"}))
=============================================================================
