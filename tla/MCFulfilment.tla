---------------------------- MODULE MCFulfilment ----------------------------
(* Instances of Fulfilment for TLC: one request, offers of two providers. *)
EXTENDS BookingHistory, WorkspaceCards, PartyLists, TLC

CONSTANTS r1, o1, o2, p1, p2

MCRequestOf  == [o \in Offers |-> r1]
MCProviderOf == [o \in Offers |-> IF o = o1 THEN p1 ELSE p2]

Symmetry ==
  Permutations(Handlers) \union Permutations(Tasks) \union Permutations(Bookings)
=============================================================================
