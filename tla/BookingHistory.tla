--------------------------- MODULE BookingHistory ---------------------------
(***************************************************************************)
(* bookings.service.ts getHistory(): the walk over the bookings a job went *)
(* through, on the bookings of Fulfilment.  The service first walks back   *)
(* to the root of the chain and then forward from there, a bounded number  *)
(* of hops each, and answers 409 when it meets a booking twice.            *)
(***************************************************************************)
EXTENDS Fulfilment, Sequences, SequencesExt

CONSTANT MaxHops    \* MAX_HOPS, 200 in the code

ASSUME MaxHopsAssumption == MaxHops \in Nat \ {0}

-----------------------------------------------------------------------------
\* byId holds the bookings of the same request, offer, provider and client; the
\* offer determines the other three.  A link out of it ends a walk.
Linked(b, end) ==
  LET link == booking[b][end] IN
  IF link \in Bookings /\ booking[link].offer = booking[b].offer THEN link ELSE None

\* One hop from the last booking met.
Hop(walk, end) ==
  LET next == Linked(Last(walk), end) IN
  IF next = None THEN walk ELSE Append(walk, next)

\* The bookings met from b in at most MaxHops hops along one end of the links.
Walk(b, end) ==
  LET walk[n \in 0..MaxHops] == IF n = 0 THEN <<b>> ELSE Hop(walk[n - 1], end)
  IN walk[MaxHops]

Root(b) == Last(Walk(b, "from"))

\* Variant: the list begins at the booking that was asked for.
ItemsFromRequested(b) ==
  LET walk == Walk(b, "to") IN
  SubSeq(walk, 1, Min({Len(walk), MaxHops}))

\* A hop of the forward walk lists the booking it leaves, not the one it reaches.
Items(b) ==
  LET walk == Walk(Root(b), "to") IN
  SubSeq(walk, 1, Min({Len(walk), MaxHops}))

\* "Booking history cycle detected"
Conflict(b) ==
  ~IsInjective(Walk(b, "from")) \/ ~IsInjective(Walk(Root(b), "to"))

-----------------------------------------------------------------------------
(* Properties. *)

\* The bookings reached from b by links in either direction.
ChainOf(b) ==
  {x \in Bookings : \A S \in SUBSET Bookings :
     (/\ b \in S
      /\ \A y \in S : {booking[y].from, booking[y].to} \ {None} \subseteq S)
     => x \in S}

\* Whatever calls came before, the history of a booking is never refused; and
\* unless the chain is longer than the walk, it lists every booking of the
\* chain once, each behind the one it replaced, whichever of them is asked for.
HistoryShowsTheChain ==
  \A b \in Bookings : booking[b].status # "absent" =>
    /\ ~Conflict(b)
    /\ Cardinality(ChainOf(b)) <= MaxHops =>
         /\ ToSet(Items(b)) = ChainOf(b)
         /\ IsInjective(Items(b))
         /\ \A i \in 2..Len(Items(b)) : booking[Items(b)[i]].from = Items(b)[i - 1]

-----------------------------------------------------------------------------
(* Why: what the walk needs beside FulfilmentInv. *)

\* A booking is replaced by one of the same offer, so that no link leads out of byId.
LinksStayInOffer ==
  \A b \in Bookings : booking[b].to # None =>
    booking[booking[b].to].offer = booking[b].offer

\* However many ids there are, finitely many bookings have been written.
FinitelyManyBooked == IsFiniteSet({b \in Bookings : booking[b].status # "absent"})

HistoryInv == LinksStayInOffer /\ FinitelyManyBooked
=============================================================================
