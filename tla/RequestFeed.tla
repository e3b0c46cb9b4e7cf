----------------------------- MODULE RequestFeed -----------------------------
(***************************************************************************)
(* Which requests the public lists show and who may open one               *)
(* (requests.service.ts), computed from the documents of Fulfilment.       *)
(*                                                                         *)
(* A filter by place, service, price or period, and the page of a list,    *)
(* keep a part of what is said here; the sort orders it.                   *)
(***************************************************************************)
EXTENDS Fulfilment

FeedStates == {"all", "attention", "execution", "completed"}

\* Variant: work counts as under way from the acceptance of an offer.
FeedStatusFromLock(state) ==
  CASE state = "execution" -> {"matched", "paused"}
    [] state = "completed" -> {"closed"}
    [] OTHER -> {"published"}

FeedStatus(state) ==
  CASE state = "execution" -> {"matched"}
    [] state = "completed" -> {"closed"}
    [] OTHER -> {"published"}

Listed(r) == RequestExists(r) /\ ~request[r].archived

\* listPublic()
PublicFeed(state) == {r \in Requests : Listed(r) /\ request[r].status \in FeedStatus(state)}

\* countPublic() builds the same query.
CountPublic(state) == Cardinality(PublicFeed(state))

\* listVisibleByIdsForUser(), of the favorites of a user.
ShownAmongFavorites(r) == Listed(r) /\ request[r].status \in {"published", "cancelled"}

\* canViewerAccessRetainedRequest(); `kept` stands for the viewer's favorites and chats,
\* and `owner` says whether he is the owner.
Retained(r, p, owner, kept) ==
  owner \/ kept \/ \E o \in OffersFor(r) : ProviderOf[o] = p

\* getPublicById()
Opens(r, p, owner, kept) ==
  /\ Listed(r)
  /\ \/ request[r].status = "published"
     \/ request[r].status = "cancelled" /\ Retained(r, p, owner, kept)

\* What the public lists say of a request is so: work under way was agreed, with a
\* booking; completed work is over for good; and every request that is open, or that a
\* user has among his favorites, he can open.  Late writes of the owner, failed and
\* overlapping confirmations, completions and cancellations included.
FeedShowsTheWork ==
  /\ \A r \in PublicFeed("execution") :
       /\ request[r].contract # None
       /\ contract[request[r].contract].status \notin {"none", "pending"}
       /\ ContractHasBooking(request[r].contract)
  /\ \A r \in PublicFeed("completed") :
       /\ request[r].contract # None
       /\ contract[request[r].contract].status \in {"completed", "cancelled"}
       /\ ContractHasBooking(request[r].contract)
  /\ \A r \in Requests :
       /\ r \in PublicFeed("all") => Opens(r, None, FALSE, FALSE)
       /\ ShownAmongFavorites(r) => Opens(r, None, FALSE, TRUE)
=============================================================================
