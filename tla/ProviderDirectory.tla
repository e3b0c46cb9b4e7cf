------------------------- MODULE ProviderDirectory -------------------------
(***************************************************************************)
(* GET /workspace/providers (workspace-providers.service.ts): the profiles *)
(* a filter selects, counted, sorted and cut into pages, each with its     *)
(* card, and the queue of the five the viewer should look at first.        *)
(*                                                                         *)
(* Ratings are in tenths.  A profile has in `minutes` the time to answer   *)
(* that the code makes up from a hash of its id.                           *)
(***************************************************************************)
EXTENDS Listing

CONSTANTS
  Profiles,         \* a sequence of profiles; a profile is known by its place in it
  Directories,      \* sets of them: the collection, when a call reads it
  Services,         \* keys of services
  Categories,       \* sets of services
  Ages,             \* of the oldest update that still counts as recent
  PageAsked, LimitAsked,
  Unpriced          \* no basePrice, no filter

ASSUME DirectoryAssumption ==
  /\ \A p \in DOMAIN Profiles :
       /\ {Profiles[p].rating, Profiles[p].reviews, Profiles[p].jobs, Profiles[p].updated} \subseteq Nat
       /\ Profiles[p].price \in Nat \union {Unpriced} /\ Profiles[p].available \in BOOLEAN
  /\ DOMAIN Profiles = 1..Len(Profiles) /\ Len(Profiles) \in Nat
  /\ Directories \subseteq SUBSET DOMAIN Profiles
  /\ PageAsked \subseteq Int /\ LimitAsked \subseteq Int /\ Ages \subseteq Int

VARIABLE directory  \* what a call was asked and has loaded, or Unpriced

ProfileIds == DOMAIN Profiles

DirectoryInit == directory = Unpriced

DirectoryQueries ==
  [there: Directories, service: Services \union {Unpriced},
   category: Categories \union {Unpriced}, period: Ages, viewer: {"customer", "provider"},
   sort: {"date_desc", "date_asc", "price_asc", "price_desc"},
   page: PageAsked, limit: LimitAsked]

LoadProviders == directory = Unpriced /\ directory' \in DirectoryQueries

AnswerProviders == directory # Unpriced /\ directory' = Unpriced

DirectoryNext == LoadProviders \/ AnswerProviders

DirectorySpec == DirectoryInit /\ [][DirectoryNext]_directory

-----------------------------------------------------------------------------
(* What is selected and in which order. *)

\* A service wins over a category; a category without services selects nobody.
BaseMatch(q) ==
  {p \in q.there :
     /\ Profiles[p].status = "active" /\ ~Profiles[p].blocked
     /\ CASE q.service # Unpriced -> q.service \in Profiles[p].services
          [] q.service = Unpriced /\ q.category # Unpriced ->
               Profiles[p].services \intersect q.category # {}
          [] OTHER -> TRUE}

\* The database breaks the last ties as it likes: here by the place.
DatabaseKey ==
  [p \in ProfileIds |->
    <<-Profiles[p].rating, -Profiles[p].reviews, -Profiles[p].jobs, -Profiles[p].updated, p>>]

\* No price counts as an infinite one, whichever way the prices are sorted.
PriceOf(p) == IF Profiles[p].price = Unpriced THEN 1000 ELSE Profiles[p].price

\* Array.sort() is stable: what a comparison leaves equal stays in the order it had.
SortKey(sort) ==
  [p \in ProfileIds |->
    LET P == Profiles[p] IN
    (CASE sort = "date_asc" -> <<P.updated, -P.rating, -P.reviews, 0>>
       [] sort = "price_asc" -> <<PriceOf(p), -P.rating, -P.reviews, -P.updated>>
       [] sort = "price_desc" -> <<-PriceOf(p), -P.rating, -P.reviews, -P.updated>>
       [] OTHER -> <<-P.updated, -P.rating, -P.reviews, 0>>) \o DatabaseKey[p]]

ListOf(q) == InOrder(BaseMatch(q), SortKey(q.sort))

LimitOf(q) == AtMost(100, AtLeast(1, q.limit))

\* A page beyond the last is the last.
PageShown(q, list) == AtMost(AtLeast(1, q.page), PageCount(list, LimitOf(q)))

-----------------------------------------------------------------------------
(* What is said of a provider. *)

IsAvailable(p) == Profiles[p].available

IsTopRated(p) == Profiles[p].rating >= 48 /\ Profiles[p].reviews >= 10

IsTrusted(p) == Profiles[p].jobs >= 10 \/ Profiles[p].reviews >= 15

IsRecent(p, period) == Profiles[p].updated >= period

IsVerified(p) == Profiles[p].reviews >= 30 \/ Profiles[p].jobs >= 25

\* floor(log10(n) * 5), eight at most.
ReviewsPart(n) == Cardinality({k \in {2, 3, 4, 7, 10, 16, 26, 40} : k <= n})

ResponseRate(p) ==
  AtLeast(74, AtMost(99, (12 * Profiles[p].rating + 5) \div 10
                           + ReviewsPart(Profiles[p].reviews)
                           + AtMost(10, Profiles[p].jobs \div 25)))

Badges(p) ==
  LET fast == IF Profiles[p].minutes <= 20 THEN {"fast reply"} ELSE {} IN
  IF Profiles[p].rating >= 48 /\ Profiles[p].reviews >= 30 /\ ResponseRate(p) >= 80
  THEN {"top provider"}
  ELSE IF Profiles[p].rating >= 47 /\ Profiles[p].reviews >= 15
  THEN {"top service"} \union fast ELSE fast

Card(p) == [online |-> IsAvailable(p), verified |-> IsVerified(p), badges |-> Badges(p)]

Summary(q) ==
  LET S == BaseMatch(q) IN
  [all |-> Cardinality(S),
   available |-> Cardinality({p \in S : IsAvailable(p)}),
   topRated |-> Cardinality({p \in S : IsTopRated(p)}),
   trusted |-> Cardinality({p \in S : IsTrusted(p)})]

-----------------------------------------------------------------------------
(* The queue. *)

ActionPriority(p, period) ==
  CASE IsAvailable(p) /\ IsTopRated(p) -> 95
    [] IsAvailable(p) /\ ~IsTopRated(p) -> 82
    [] ~IsAvailable(p) /\ IsTopRated(p) -> 70
    [] ~IsAvailable(p) /\ ~IsTopRated(p) /\ IsTrusted(p) -> 58
    [] ~IsAvailable(p) /\ ~IsTopRated(p) /\ ~IsTrusted(p) /\ IsRecent(p, period) -> 42
    [] OTHER -> 0

ActionType(p, q) ==
  CASE ActionPriority(p, q.period) = 58 -> "review_trust"
    [] ActionPriority(p, q.period) = 95 /\ q.viewer = "customer" -> "contact_provider"
    [] ActionPriority(p, q.period) = 82 /\ q.viewer = "customer" -> "open_availability"
    [] OTHER -> "review_provider"

Candidates(q) == {p \in BaseMatch(q) : ActionPriority(p, q.period) > 0}

QueueKey(q) ==
  [p \in Candidates(q) |->
    <<-ActionPriority(p, q.period), -Profiles[p].rating, -Profiles[p].reviews,
      -Profiles[p].updated>> \o DatabaseKey[p]]

QueueLength == 5

\* Variant: the five best rated, put in order.
QueueOfBestRated(q) ==
  InOrder(MembersOf(FirstOf(InOrder(Candidates(q), DatabaseKey), QueueLength)), QueueKey(q))

Queue(q) == FirstOf(InOrder(Candidates(q), QueueKey(q)), QueueLength)

-----------------------------------------------------------------------------
\* The answer; its decision panel repeats the counts of the summary.
Answer(q) ==
  LET list == ListOf(q)
      page == PageShown(q, list) IN
  [summary |-> Summary(q), queue |-> Queue(q), totalPages |-> PageCount(list, LimitOf(q)),
   page |-> page, items |-> PageItems(list, LimitOf(q), page)]

\* The type of what a call has loaded.
DirectoryTypeOK == directory \in DirectoryQueries \union {Unpriced}

\* What the page says in several places comes from counts, cuts and orders of its own,
\* and agrees.  Turning the pages shows every provider once, and the page that is shown
\* is not empty unless all are.  Whoever is left out of the queue has no more urgent a
\* claim than those in it, and it is empty only if nobody is available, top rated, trusted
\* or recent; whoever leads it is available if anybody is.  Nobody is asked to contact a
\* provider, or to open his calendar, who is not available, and a card that praises its
\* provider is that of one whom the summary counts among the trusted.
DirectoryAgrees ==
  directory # Unpriced =>
    LET q == directory
        list == ListOf(q)
        answer == Answer(q)
        queue == answer.queue
        queued == MembersOf(queue)
        cards == MembersOf(list)
        Claim(p) == ActionPriority(p, q.period) IN
    /\ \A p \in BaseMatch(q) :
         Cardinality({n \in 1..answer.totalPages :
                        p \in PageItems(list, LimitOf(q), n)}) = 1
    /\ cards # {} => answer.items # {}
    /\ \A p \in cards \ queued : \A x \in queued : Claim(p) <= Claim(x)
    /\ queue = <<>> <=> \A p \in cards :
         ~(IsAvailable(p) \/ IsTopRated(p) \/ IsTrusted(p) \/ IsRecent(p, q.period))
    /\ queue # <<>> /\ answer.summary.available > 0 => IsAvailable(queue[1])
    /\ \A x \in queued : ActionType(x, q) \in {"contact_provider", "open_availability"} =>
         x \in cards /\ Card(x).online
    /\ Cardinality({p \in cards : Card(p).verified \/ "top service" \in Card(p).badges})
         <= answer.summary.trusted
=============================================================================
