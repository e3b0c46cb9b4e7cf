----------------------------- MODULE PartyLists -----------------------------
(***************************************************************************)
(* What the two parties of a job are shown of it in their own lists:       *)
(* the offers with the status of their request (offers.service.ts), the    *)
(* contracts with their booking and the reviews they may write             *)
(* (contracts.service.ts, reviews.service.ts) and the bookings             *)
(* (bookings.service.ts), computed from the documents of Fulfilment.  The  *)
(* client of a request is None here, a provider is himself.                *)
(***************************************************************************)
EXTENDS RequestFeed

Parties(o) == {None, ProviderOf[o]}

Owns(u, o) == u \in Parties(o)

\* listMy() and listMyClient() of the offers: the request is joined, and may be missing.
OfferRows(u) ==
  {[offer |-> o, status |-> offer[o].status, requestStatus |-> request[RequestOf[o]].status] :
     o \in {x \in Offers : OfferExists(x) /\ Owns(u, x)}}

\* listByRequestForClient(): of one request, for its owner only.
OffersOnRequest(u, r) ==
  IF u # None \/ ~RequestExists(r) THEN {} ELSE {o \in OffersFor(r) : OfferExists(o)}

\* getBookingSummaryMap(): of several bookings of a contract the last one read.
Appointment(o) ==
  LET mine == {b \in Bookings : booking[b].contract = o} IN
  IF mine = {} THEN {None} ELSE mine

\* getByRequestId()
BookingsOfRequest(r) ==
  {b \in Bookings : booking[b].offer # None /\ RequestOf[booking[b].offer] = r /\ Active(b)}

\* getBookingReviewStatusMap(): `written` are the sides that have been reviewed.
MayReview(b, side, written) ==
  b # None /\ booking[b].status = "completed" /\ side \notin written

\* A row of the contracts; it is made from three queries, here from one state.
ContractRow(o, b, written) ==
  [contract |-> o, status |-> contract[o].status, booking |-> b,
   reviewProvider |-> MayReview(b, "provider", written),
   reviewClient |-> MayReview(b, "client", written)]

\* listMy() of the contracts, for a role and a status or for all.
ContractList(u, role, statuses) ==
  {o \in Offers : /\ contract[o].status \in statuses
                  /\ role = "client" => u = None
                  /\ role = "provider" => u = ProviderOf[o]
                  /\ Owns(u, o)}

\* getByIdForUser()
OpensContract(u, o) == contract[o].status # "none" /\ Owns(u, o)

\* listMyClient() and listMyProvider() of the bookings.
BookingList(u, statuses) ==
  {b \in Bookings : booking[b].status \in statuses /\ Owns(u, booking[b].offer)}

\* Nothing writes the status "in_progress" that the schema has.
ContractStatuses == {"pending", "confirmed", "completed", "cancelled"}

AppointmentIsShown(o, row) ==
  row.booking # None /\ Active(row.booking) =>
    /\ BookingsOfRequest(RequestOf[o]) = {row.booking}
    /\ \A u \in Parties(o) :
         row.booking \in BookingList(u, {"confirmed", "completed"})

ReviewComesLast(o, row) ==
  row.reviewProvider \/ row.reviewClient =>
    \A u \in Parties(o) : \A x \in BookingList(u, {"confirmed"}) :
      RequestOf[booking[x].offer] # RequestOf[o]

AgreedHasAppointment(row) ==
  row.status \in {"confirmed", "completed"} => row.booking # None

OfferIsAnswered(o) ==
  \A u \in Parties(o) : \A made \in OfferRows(u) :
    made.offer = o =>
      /\ made.status # "sent"
      /\ made.requestStatus # "deleted" => o \in OffersOnRequest(None, RequestOf[o])

ContractIsFound(o) ==
  \A u \in {None} \union Providers : OpensContract(u, o) =>
    \E role \in {"client", "provider"}, s \in ContractStatuses :
      /\ o \in ContractList(u, role, {s})
      /\ \A other \in ContractStatuses \ {s} : o \notin ContractList(u, "all", {other})

\* The lists of the two parties tell one story of a job, whatever cancellations,
\* completions, reschedulings and late writes overlap: the appointment a contract shows,
\* unless cancelled, is the one that the bookings of both and the request show; a review
\* is offered only once no appointment of the request is left; an agreed contract is
\* never without one; the offer it was made of is not open; and whoever may open a
\* contract finds it in his list, under one role and one status.
PartyListsAgree ==
  \A o \in Offers : contract[o].status # "none" =>
    /\ \A b \in Appointment(o) : LET row == ContractRow(o, b, {}) IN
         AppointmentIsShown(o, row) /\ ReviewComesLast(o, row) /\ AgreedHasAppointment(row)
    /\ OfferIsAnswered(o)
    /\ ContractIsFound(o)

\* The public lists and those of the two parties show the work as it is.
ListsShowTheWork == FeedShowsTheWork /\ PartyListsAgree

-----------------------------------------------------------------------------
(* Why: the inductive strengthening of both. *)

\* A booking is of an offer, and of no other contract than that of the offer; the
\* unique index leaves one of them active per request, whatever handler makes,
\* moves, completes or cancels it.
OneAppointment ==
  /\ \A b \in Bookings : booking[b].status # "absent" =>
       booking[b].offer # None /\ booking[b].contract \in {None, booking[b].offer}
  /\ \A b, x \in Bookings : 
       Active(b) /\ Active(x) /\ RequestOf[booking[b].offer] = RequestOf[booking[x].offer]
         => b = x

Agreed(o) == contract[o].status \notin {"none", "pending"}

\* Only a confirmation matches a request, and it has tried to confirm the contract
\* before: by then that is confirmed or over.
MatchedIsAgreed ==
  /\ \A t \in Tasks : Stage(t, "confirm.request") => Agreed(task[t].on)
  /\ \A r \in Requests : request[r].status = "matched" =>
       request[r].contract # None /\ Agreed(request[r].contract)

ListsInv == OneAppointment /\ MatchedIsAgreed
=============================================================================
