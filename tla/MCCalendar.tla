----------------------------- MODULE MCCalendar -----------------------------
(* Instances of Calendar for TLC: days of five hours, a week with a day off. *)
EXTENDS Calendar, TLC

Hours(zone, range, duration, buffer) ==
  [zone |-> zone, weekly |-> [d \in 0..6 |-> IF d = 6 THEN {} ELSE {range}],
   duration |-> duration, buffer |-> buffer, active |-> TRUE]

\* In UTC one slot of two hours; east of it two of one hour, an hour apart.
MCAvailabilities == {Hours(0, Span(1, 4), 2, 0), Hours(1, Span(1, 4), 1, 1)}

\* West of UTC: the provider's day begins at one in the morning UTC.
WestOfUtc == {Hours(-1, Span(0, 3), 1, 0)}

MCBlackouts == {Span(-2, 2), Span(2, 2)}

MCFirstTime == -1

Symmetry == Permutations(Handlers) \union Permutations(Bookings)
=============================================================================
