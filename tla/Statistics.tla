------------------------------ MODULE Statistics ------------------------------
(***************************************************************************)
(* What GET /workspace/statistics counts in the requests, offers and       *)
(* contracts collections.  The funnel of a provider, that of a customer    *)
(* and that of the market come from queries of their own                   *)
(* (workspace-statistics-viewer-snapshots.service.ts and                   *)
(* workspace-statistics-market-snapshots.service.ts), which select         *)
(* documents in different ways and should agree all the same.              *)
(*                                                                         *)
(* Here a handler of offers, requests or contracts is one action: Matching *)
(* and Fulfilment model how they overlap.  A time is one of three eras, so *)
(* that it lies before, in or after what a query asks for.                 *)
(***************************************************************************)
EXTENDS Naturals, FiniteSets

CONSTANTS
  Jobs,         \* requests
  Tradesmen,    \* providers
  ClientOf      \* whose request it is

ASSUME StatsAssumption == IsFiniteSet(Jobs) /\ IsFiniteSet(Tradesmen)

VARIABLES
  jobDoc,       \* requests: status, createdAt and assignedContractId
  bid,          \* offers: one of each provider on a request
  deal,         \* contracts: likewise
  era           \* now

statsVars == <<jobDoc, bid, deal, era>>

\* Before the longer period, in it, and in the last 24 hours.
Eras == 1..3

Unstamped == 0

Clients == {ClientOf[j] : j \in Jobs}

NotPosted == [status |-> "none", created |-> Unstamped, holder |-> {}]

StatsInit ==
  /\ jobDoc = [j \in Jobs |-> NotPosted]
  /\ bid = [j \in Jobs |-> [p \in Tradesmen |-> [status |-> "none", created |-> Unstamped]]]
  /\ deal = [j \in Jobs |-> [p \in Tradesmen |->
       [status |-> "none", confirmed |-> Unstamped, completed |-> Unstamped, cancelled |-> Unstamped]]]
  /\ era = 1

-----------------------------------------------------------------------------
(* The handlers that write what is counted. *)

JobExists(j) == jobDoc[j].status # "none"

HasBids(j) == \E p \in Tradesmen : bid[j][p].status # "none"

SetJob(j, status, holder) ==
  jobDoc' = [jobDoc EXCEPT ![j] = [@ EXCEPT !.status = status, !.holder = holder]]

SetBid(j, p, doc) == bid' = [bid EXCEPT ![j] = [bid[j] EXCEPT ![p] = doc]]

SetDeal(j, p, doc) == deal' = [deal EXCEPT ![j] = [deal[j] EXCEPT ![p] = doc]]

Post(j) ==
  /\ jobDoc[j] = NotPosted /\ ~HasBids(j)
  /\ \E status \in {"draft", "published"} :
       jobDoc' = [jobDoc EXCEPT ![j] = [status |-> status, created |-> era, holder |-> {}]]
  /\ UNCHANGED <<bid, deal, era>>

Publish(j) ==
  /\ jobDoc[j].status \in {"draft", "paused", "cancelled"}
  /\ SetJob(j, "published", jobDoc[j].holder)
  /\ UNCHANGED <<bid, deal, era>>

Unpublish(j) ==
  /\ jobDoc[j].status = "published" /\ ~HasBids(j)
  /\ SetJob(j, "paused", jobDoc[j].holder)
  /\ UNCHANGED <<bid, deal, era>>

\* What somebody still refers to is retained and purged later.
DeleteJob(j) ==
  /\ jobDoc[j].status \in {"draft", "published", "paused", "cancelled"}
  /\ \/ SetJob(j, "cancelled", jobDoc[j].holder)
     \/ /\ ~HasBids(j) \/ jobDoc[j].status = "cancelled"
        /\ jobDoc' = [jobDoc EXCEPT ![j] = NotPosted]
  /\ UNCHANGED <<bid, deal, era>>

SendOffer(j, p) ==
  /\ jobDoc[j].status = "published" /\ bid[j][p].status = "none"
  /\ deal[j][p].status = "none"
  /\ SetBid(j, p, [status |-> "sent", created |-> era])
  /\ UNCHANGED <<jobDoc, deal, era>>

WithdrawOffer(j, p) ==
  /\ bid[j][p].status = "sent"
  /\ SetBid(j, p, [status |-> "none", created |-> Unstamped])
  /\ UNCHANGED <<jobDoc, deal, era>>

\* Variant: an accepted offer may be declined when its work is done.
DeclineOfferAny(j, p) ==
  /\ bid[j][p].status \in {"sent", "accepted"} /\ JobExists(j)
  /\ jobDoc[j].status \notin {"matched", "paused"}
  /\ SetBid(j, p, [bid[j][p] EXCEPT !.status = "declined"])
  /\ UNCHANGED <<jobDoc, deal, era>>

DeclineOffer(j, p) ==
  /\ bid[j][p].status = "sent" /\ JobExists(j)
  /\ jobDoc[j].status \notin {"matched", "paused"}
  /\ SetBid(j, p, [bid[j][p] EXCEPT !.status = "declined"])
  /\ UNCHANGED <<jobDoc, deal, era>>

Accept(j, p) ==
  /\ bid[j][p].status = "sent"
  /\ jobDoc[j].status = "published" /\ jobDoc[j].holder = {}
  /\ SetJob(j, "paused", {p})
  /\ bid' = [bid EXCEPT ![j] = [x \in Tradesmen |->
       IF x = p THEN [bid[j][x] EXCEPT !.status = "accepted"]
       ELSE IF bid[j][x].status = "sent" THEN [bid[j][x] EXCEPT !.status = "declined"]
       ELSE bid[j][x]]]
  /\ SetDeal(j, p, [deal[j][p] EXCEPT !.status = "pending"])
  /\ UNCHANGED era

\* updateOne() of the request: nothing when it is gone or another's.
IfHeld(j, p, status, holder) ==
  IF JobExists(j) /\ jobDoc[j].holder \subseteq {p}
  THEN SetJob(j, status, holder)
  ELSE UNCHANGED jobDoc

Confirm(j, p) ==
  /\ deal[j][p].status = "pending"
  /\ SetDeal(j, p, [deal[j][p] EXCEPT !.status = "confirmed", !.confirmed = era])
  /\ IfHeld(j, p, "matched", {p})
  /\ UNCHANGED <<bid, era>>

\* The index of bookings may refuse before the request is closed.
Complete(j, p) ==
  /\ deal[j][p].status = "confirmed"
  /\ SetDeal(j, p, [deal[j][p] EXCEPT !.status = "completed", !.completed = era])
  /\ \/ jobDoc[j].holder = {p} /\ SetJob(j, "closed", {p})
     \/ UNCHANGED jobDoc
  /\ UNCHANGED <<bid, era>>

Cancel(j, p) ==
  /\ deal[j][p].status \in {"pending", "confirmed"}
  /\ SetDeal(j, p, [deal[j][p] EXCEPT !.status = "cancelled", !.cancelled = era])
  /\ IF jobDoc[j].holder = {p} THEN SetJob(j, "published", {}) ELSE UNCHANGED jobDoc
  /\ UNCHANGED <<bid, era>>

TimePasses == era < 3 /\ era' = era + 1 /\ UNCHANGED <<jobDoc, bid, deal>>

StatsNext ==
  \/ \E j \in Jobs : Post(j) \/ Publish(j) \/ Unpublish(j) \/ DeleteJob(j)
  \/ \E j \in Jobs, p \in Tradesmen :
       \/ SendOffer(j, p) \/ WithdrawOffer(j, p) \/ DeclineOffer(j, p)
       \/ Accept(j, p) \/ Confirm(j, p) \/ Complete(j, p) \/ Cancel(j, p)
  \/ TimePasses

StatsSpec == StatsInit /\ [][StatsNext]_statsVars
-----------------------------------------------------------------------------
(* What the queries select.  `from` is the era the period begins in.       *)

Within(stamp, from) == stamp >= from

\* funnelRequestRefScopeMatch: the request is there and was made in the period.
InScope(from) == {j \in Jobs : JobExists(j) /\ Within(jobDoc[j].created, from)}

Made(j, p) == bid[j][p].status # "none"

Accepted(j, p) == bid[j][p].status = "accepted"

Signed(j, p) == deal[j][p].status \in {"confirmed", "completed"}

Finished(j, p) == deal[j][p].status = "completed"

(* The funnel of a provider counts his requests by his own offer. *)

ProviderOffers(p, from) == {j \in InScope(from) : Made(j, p)}

ProviderContracts(p, from) == {j \in InScope(from) : Accepted(j, p) /\ Signed(j, p)}

ProviderCompleted(p, from) == {j \in InScope(from) : Accepted(j, p) /\ Finished(j, p)}

(* The market's funnel asks for any offer of the request, and that of a     *)
(* customer does so for his own; the market counts offers, not requests.    *)

MarketOffers(from) == {x \in Jobs \X Tradesmen : x[1] \in InScope(from) /\ Made(x[1], x[2])}

MarketContracts(from) ==
  {j \in InScope(from) : /\ \E p \in Tradesmen : Accepted(j, p)
                         /\ \E p \in Tradesmen : Signed(j, p)}

MarketCompleted(from) ==
  {j \in InScope(from) : /\ \E p \in Tradesmen : Accepted(j, p)
                         /\ \E p \in Tradesmen : Finished(j, p)}

Own(c) == {j \in Jobs : ClientOf[j] = c}

CustomerRequests(c, from) == Own(c) \cap InScope(from)

CustomerOffers(c, from) ==
  {j \in CustomerRequests(c, from) : \E p \in Tradesmen : Made(j, p)}

CustomerContracts(c, from) == Own(c) \cap MarketContracts(from)

CustomerCompleted(c, from) == Own(c) \cap MarketCompleted(from)

(* Without a viewer contracts are counted by their own times.               *)

Pairs == {x \in Jobs \X Tradesmen : JobExists(x[1])}

PlatformCompleted(from) ==
  {x \in Pairs : Finished(x[1], x[2]) /\ Within(deal[x[1]][x[2]].completed, from)}

LifecycleCompleted(from) == {x \in Pairs : Within(deal[x[1]][x[2]].completed, from)}

LifecycleCancelled(from) == {x \in Pairs : Within(deal[x[1]][x[2]].cancelled, from)}

(* Activity of providers, by the time of the offer.                         *)

OffersMade(from) == {x \in Pairs : Within(bid[x[1]][x[2]].created, from)}

ActiveProviders(from) == {x[2] : x \in OffersMade(from)}

OwnActivity(p, from) == {j \in Jobs : JobExists(j) /\ Within(bid[j][p].created, from)}

(* What has waited for more than 24 hours.                                  *)

LongAgo(stamp) == stamp # Unstamped /\ stamp < 3

ProviderWaiting(p, from) ==
  {j \in ProviderOffers(p, from) : LongAgo(bid[j][p].created) /\ ~Accepted(j, p)}

CustomerWaiting(c, from) ==
  {j \in CustomerRequests(c, from) : LongAgo(jobDoc[j].created) /\ ~HasBids(j)}

\* The rows of categories and cities count what is public.
Listed(from) == {j \in InScope(from) : jobDoc[j].status = "published"}

MarketWaiting(from) == {j \in Listed(from) : LongAgo(jobDoc[j].created) /\ ~HasBids(j)}

-----------------------------------------------------------------------------
\* The type of the collections.
StatsTypeOK ==
  /\ jobDoc \in [Jobs -> [status: {"none", "draft", "published", "paused", "matched",
                                   "closed", "cancelled"},
                          created: Eras \union {Unstamped}, holder: SUBSET Tradesmen]]
  /\ bid \in [Jobs -> [Tradesmen -> [status: {"none", "sent", "accepted", "declined"},
                                     created: Eras \union {Unstamped}]]]
  /\ deal \in [Jobs -> [Tradesmen ->
       [status: {"none", "pending", "confirmed", "completed", "cancelled"},
        confirmed: Eras \union {Unstamped}, completed: Eras \union {Unstamped},
        cancelled: Eras \union {Unstamped}]]]
  /\ era \in Eras

\* The panels count the same jobs.  A job that the market's funnel counts as contracted
\* or completed is counted for one provider, though a second offer of the request may
\* have been accepted before, and its revenue is his; so it is in the funnel of its
\* customer, and nobody else's.  Of the two panels that count completed jobs one asks
\* for the status and the other for the time, and a job they count is not among the
\* cancelled.  Who counts as an active provider has offers on his own panel, and a
\* request the market waits for is one its customer is told of, and no provider as one
\* that has not answered him.
StatisticsAddUp ==
  era > 1 => \A from \in 2..era :
    /\ \A j \in MarketContracts(from) :
         Cardinality({p \in Tradesmen : j \in ProviderContracts(p, from)}) = 1
    /\ \A j \in MarketCompleted(from) :
         Cardinality({p \in Tradesmen : j \in ProviderCompleted(p, from)}) = 1
    /\ \A p \in Tradesmen : \A j \in ProviderContracts(p, from) :
         {c \in Clients : j \in CustomerContracts(c, from)} = {ClientOf[j]}
    /\ \A p \in Tradesmen : \A j \in ProviderCompleted(p, from) :
         {c \in Clients : j \in CustomerCompleted(c, from)} = {ClientOf[j]}
    /\ PlatformCompleted(from) = LifecycleCompleted(from)
    /\ PlatformCompleted(from) \cap LifecycleCancelled(1) = {}
    /\ \A p \in Tradesmen : p \in ActiveProviders(from) <=> OwnActivity(p, from) # {}
    /\ Cardinality(MarketOffers(from)) >=
         Cardinality(UNION {CustomerOffers(c, from) : c \in Clients})
    /\ MarketWaiting(from) \subseteq UNION {CustomerWaiting(c, from) : c \in Clients}
    /\ \A p \in Tradesmen : ProviderWaiting(p, from) \cap MarketWaiting(from) = {}

-----------------------------------------------------------------------------
(* What makes it hold: the inductive invariant *)

\* A contract comes of an offer that was accepted, and stays so.
DealsAreAccepted ==
  \A j \in Jobs, p \in Tradesmen : deal[j][p].status # "none" => Accepted(j, p)

\* A request that is there belongs to the contract that is live or was completed: there
\* is no second one.
DealHoldsJob ==
  \A j \in Jobs, p \in Tradesmen :
    JobExists(j) /\ deal[j][p].status \in {"pending", "confirmed", "completed"}
      => jobDoc[j].holder = {p}

GoneIsUnheld == \A j \in Jobs : ~JobExists(j) => jobDoc[j].holder = {}

\* The times say how a contract has ended.
TimesGoWithStatus ==
  \A j \in Jobs, p \in Tradesmen :
    /\ (deal[j][p].completed # Unstamped <=> deal[j][p].status = "completed")
    /\ (deal[j][p].cancelled # Unstamped <=> deal[j][p].status = "cancelled")

StatsInv ==
  StatsTypeOK /\ DealsAreAccepted /\ DealHoldsJob /\ GoneIsUnheld /\ TimesGoWithStatus
=============================================================================
