------------------------------- MODULE Slots --------------------------------
(***************************************************************************)
(* The slots of a provider: getSlots() of availability.service.ts and      *)
(* assertStartAtIsSlot() of bookings.service.ts, as functions of the       *)
(* documents they read.                                                    *)
(*                                                                         *)
(* Time is an integer counted from a UTC midnight.  A time zone is its     *)
(* offset, which never changes: no summer time.  The result is a set; the  *)
(* cut at 500 slots only shortens the answer for a long range.             *)
(***************************************************************************)
EXTENDS Integers

CONSTANT Day    \* the length of a day, 1440 minutes in the code

ASSUME DayAssumption == Day \in Nat \ {0}

-----------------------------------------------------------------------------
Span(start, end) == [start |-> start, end |-> end]

\* Variant: refuses only what begins at the same time.
BeginTogether(x, y) == x.start = y.start

\* intersectsAny(), and the filters of assertSlotFree().
Overlap(x, y) == x.start < y.end /\ x.end > y.start

\* DateTime.startOf('day') and .weekday % 7, in a zone.
Midnight(t, zone) == t - ((t + zone) % Day)

Weekday(t, zone) == ((t + zone) \div Day) % 7

\* The slots that begin `every` apart in a working range of the day.
SlotsOf(range, midnight, duration, every) ==
  {Span(midnight + m, midnight + m + duration) :
     m \in {n \in range.start..range.end :
              (n - range.start) % every = 0 /\ n + duration <= range.end}}

\* Variant: the buffer is forgotten.
PatternWithoutBuffer(a, midnight) ==
  UNION {SlotsOf(r, midnight, a.duration, a.duration) :
           r \in a.weekly[Weekday(midnight, a.zone)]}

\* The slots of a provider's day, free or not.
Pattern(a, midnight) ==
  UNION {SlotsOf(r, midnight, a.duration, a.duration + a.buffer) :
           r \in a.weekly[Weekday(midnight, a.zone)]}

\* Variant: only what begins in the range is read.
BeginsInRange(x, first, days) ==
  x.start >= first /\ x.start < first + (days + 1) * Day

\* The filter of the two find() of getSlots(): rangeStartUtc .. rangeEndUtc.
TouchesRange(x, first, days) ==
  x.start < first + (days + 1) * Day /\ x.end >= first

\* The slots of the provider's days that hold the midnights of the days asked
\* for.  `first` is a midnight in the zone of the caller.
Listed(a, first, days, now) ==
  {s \in UNION {Pattern(a, Midnight(first + i * Day, a.zone)) : i \in 0..days} :
     a.active /\ s.end > now}

ClearOf(s, busy, first, days) ==
  \A x \in busy : TouchesRange(x, first, days) => ~Overlap(s, x)

GetSlots(a, first, days, busy, now) ==
  {s \in Listed(a, first, days, now) : ClearOf(s, busy, first, days)}

\* assertStartAtIsSlot(): the day is the UTC day of the start, in zone 'UTC'.
IsSlot(a, s, busy, now) == s \in GetSlots(a, Midnight(s.start, 0), 0, busy, now)

-----------------------------------------------------------------------------
(* For the properties: what a provider means by working hours. *)

WorksAt(a, t) ==
  \E r \in a.weekly[Weekday(t, a.zone)] :
    r.start <= (t + a.zone) % Day /\ (t + a.zone) % Day < r.end

WorksDuring(a, s) == \A t \in s.start..(s.end - 1) : WorksAt(a, t)
=============================================================================
