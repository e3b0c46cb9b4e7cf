------------------------------ MODULE Calendar ------------------------------
(***************************************************************************)
(* The calendar of one provider: working hours and blackouts               *)
(* (availability.service.ts), and the bookings that clients of different   *)
(* requests make in it (createByClient(), reschedule() of                  *)
(* bookings.service.ts).  No index protects the provider's time: a call    *)
(* reads, decides and inserts.                                             *)
(*                                                                         *)
(* Fulfilment has the requests, contracts and unique indexes, which here   *)
(* are one more reason for which a call may fail.                          *)
(***************************************************************************)
EXTENDS Slots, FiniteSets

CONSTANTS
  Bookings,         \* ids of bookings
  Handlers,         \* booking calls that may be in flight together
  Availabilities,   \* the settings the provider chooses from
  Blackouts,        \* the spans the provider may enter as blackouts
  UtcDays,          \* the UTC midnights of the days clients book
  FirstTime, LastTime,  \* bound: the span of time
  None

\* parseRange(): minutes of one day, the last of which is 23:59.
WorkingRanges ==
  {r \in [start: 0..(Day - 1), end: 0..(Day - 1)] : r.start < r.end}

\* The documents the services accept: any working ranges of a weekday.
Settings ==
  [zone: Int, weekly: [0..6 -> SUBSET WorkingRanges],
   duration: Nat \ {0}, buffer: Nat, active: BOOLEAN]

ASSUME CalendarAssumption ==
  /\ None \notin Bookings
  /\ IsFiniteSet(Bookings) /\ IsFiniteSet(Handlers)
  /\ Availabilities \subseteq Settings
  /\ Blackouts \subseteq [start: Int, end: Int]
  /\ UtcDays \subseteq Int
  /\ \A d \in UtcDays : Midnight(d, 0) = d
  /\ FirstTime \in Int /\ LastTime \in Int /\ FirstTime <= LastTime

VARIABLES
  availability,     \* the provider's document in provider_availability
  blackout,         \* its active documents in provider_blackouts
  booking,          \* the bookings collection: status and time
  call,             \* the booking calls in flight
  now               \* Date.now()

vars == <<availability, blackout, booking, call, now>>

NoTime == Span(0, 0)

Busy(except) ==
  {booking[b].time : b \in {x \in Bookings \ except :
                              booking[x].status \in {"confirmed", "completed"}}}

NoOverlap(s, busy) == \A x \in busy : ~Overlap(x, s)

-----------------------------------------------------------------------------
(* Calls.  The booking to be replaced is `old`, None for a new one. *)

Idle == [at |-> "idle", slot |-> NoTime, old |-> None]

At(h, step) == call[h].at = step

Done(h) == call' = [call EXCEPT ![h] = Idle]

\* A read that lets the call go on or refuses it.
Check(h, step, passes, next) ==
  /\ At(h, step)
  /\ IF passes THEN call' = [call EXCEPT ![h] = [@ EXCEPT !.at = next]] ELSE Done(h)
  /\ UNCHANGED <<availability, blackout, booking, now>>

Init ==
  /\ availability \in Availabilities
  /\ blackout = {}
  /\ booking = [b \in Bookings |-> [status |-> "absent", time |-> NoTime]]
  /\ call = [h \in Handlers |-> Idle]
  /\ now = FirstTime

-----------------------------------------------------------------------------
(* bookings.service.ts: createByClient() and reschedule().                 *)
(* assertStartAtIsSlot() reads the availability, the blackouts and the     *)
(* bookings, assertSlotFree() counts bookings and blackouts again.         *)

BeginCall(h, old) ==
  /\ call[h] = Idle
  /\ \E d \in UtcDays : \E s \in Listed(availability, d, 0, now) :
       /\ Midnight(s.start, 0) = d
       /\ s.start > now
       /\ call' = [call EXCEPT ![h] = [at |-> "blackouts", slot |-> s, old |-> old]]
  /\ UNCHANGED <<availability, blackout, booking, now>>

CreateRead(h) == BeginCall(h, None)

RescheduleRead(h, b) == booking[b].status = "confirmed" /\ BeginCall(h, b)

SlotBlackouts(h) ==
  LET s == call[h].slot IN
  Check(h, "blackouts", ClearOf(s, blackout, Midnight(s.start, 0), 0), "bookings")

\* The booking to be replaced counts as busy here.
SlotBookings(h) ==
  LET s == call[h].slot IN
  Check(h, "bookings", ClearOf(s, Busy({}), Midnight(s.start, 0), 0), "free")

CountBookings(h) ==
  Check(h, "free", NoOverlap(call[h].slot, Busy({call[h].old})), "open")

CountBlackouts(h) ==
  Check(h, "open", NoOverlap(call[h].slot, blackout),
        IF call[h].old = None THEN "insert" ELSE "transaction")

Booked(s) == [status |-> "confirmed", time |-> s]

Insert(h) ==
  /\ At(h, "insert")
  /\ \E n \in Bookings :
       /\ booking[n].status = "absent"
       /\ booking' = [booking EXCEPT ![n] = Booked(call[h].slot)]
  /\ Done(h)
  /\ UNCHANGED <<availability, blackout, now>>

\* The transaction reads one snapshot: the old booking and both counts.
TransactionRead(h) ==
  Check(h, "transaction",
        /\ booking[call[h].old].status = "confirmed"
        /\ NoOverlap(call[h].slot, Busy({call[h].old}))
        /\ NoOverlap(call[h].slot, blackout),
        "commit")

\* It conflicts with another write of the old booking, and is then run again,
\* but not with the insert of an overlapping one.
TransactionCommit(h) ==
  LET old == call[h].old IN
  /\ At(h, "commit")
  /\ IF booking[old].status = "confirmed"
     THEN /\ \E n \in Bookings :
               /\ booking[n].status = "absent"
               /\ booking' = [booking EXCEPT ![old] = [@ EXCEPT !.status = "cancelled"],
                                             ![n] = Booked(call[h].slot)]
          /\ Done(h)
     ELSE /\ call' = [call EXCEPT ![h] = [@ EXCEPT !.at = "transaction"]]
          /\ UNCHANGED booking
  /\ UNCHANGED <<availability, blackout, now>>

\* The cancel handlers.  The late save() of cancelByClient() does not ask
\* whether the booking was completed meanwhile.
CancelBooking(b) ==
  /\ booking[b].status \in {"confirmed", "completed"}
  /\ booking' = [booking EXCEPT ![b] = [@ EXCEPT !.status = "cancelled"]]
  /\ UNCHANGED <<availability, blackout, call, now>>

FinishBooking(b) ==
  /\ booking[b].status = "confirmed"
  /\ booking[b].time.end <= now
  /\ booking' = [booking EXCEPT ![b] = [@ EXCEPT !.status = "completed"]]
  /\ UNCHANGED <<availability, blackout, call, now>>

-----------------------------------------------------------------------------
(* availability.service.ts *)

UpdateMy(a) ==
  /\ availability' = a
  /\ UNCHANGED <<blackout, booking, call, now>>

\* Variant: without "endAt must be after startAt".
AddMyBlackoutUnchecked(x) ==
  /\ blackout' = blackout \union {x}
  /\ UNCHANGED <<availability, booking, call, now>>

AddMyBlackout(x) ==
  /\ x.end > x.start
  /\ blackout' = blackout \union {x}
  /\ UNCHANGED <<availability, booking, call, now>>

RemoveMyBlackout(x) ==
  /\ x \in blackout
  /\ blackout' = blackout \ {x}
  /\ UNCHANGED <<availability, booking, call, now>>

-----------------------------------------------------------------------------
Tick ==
  /\ now < LastTime
  /\ now' = now + 1
  /\ UNCHANGED <<availability, blackout, booking, call>>

\* A failed operation, a duplicate key, a process that stops.
Fail(h) ==
  /\ call[h] # Idle
  /\ Done(h)
  /\ UNCHANGED <<availability, blackout, booking, now>>

Resume(h) ==
  \/ SlotBlackouts(h) \/ SlotBookings(h) \/ CountBookings(h) \/ CountBlackouts(h)
  \/ Insert(h) \/ TransactionRead(h) \/ TransactionCommit(h)

Step ==
  \/ \E h \in Handlers : CreateRead(h) \/ Resume(h)
  \/ \E h \in Handlers, b \in Bookings : RescheduleRead(h, b)
  \/ \E b \in Bookings : CancelBooking(b) \/ FinishBooking(b)
  \/ \E a \in Availabilities : UpdateMy(a)
  \/ \E x \in Blackouts : AddMyBlackout(x) \/ RemoveMyBlackout(x)
  \/ Tick

Next == Step \/ \E h \in Handlers : Fail(h)

Spec == Init /\ [][Next]_vars

\* No operation fails and no process stops.
ReliableSpec == Init /\ [][Step]_vars

-----------------------------------------------------------------------------
(* Properties. *)

CallSteps == {"blackouts", "bookings", "free", "open", "insert", "transaction", "commit"}

\* A span in a document or in a call has a positive length.
BookingDoc ==
  {doc \in [status: {"absent", "confirmed", "cancelled", "completed"},
            time: [start: Int, end: Int]] :
     doc.status # "absent" => doc.time.start < doc.time.end}

Call ==
  {c \in [at: {"idle"} \union CallSteps, slot: [start: Int, end: Int],
          old: Bookings \union {None}] :
     /\ c.at # "idle" => c.slot.start < c.slot.end
     /\ c.at = "insert" => c.old = None
     /\ c.at \in {"transaction", "commit"} => c.old \in Bookings}

\* Every document and every call in flight has its declared shape.
TypeOK ==
  /\ availability \in Availabilities
  /\ \A x \in blackout : x \in Blackouts /\ x.start < x.end
  /\ booking \in [Bookings -> BookingDoc]
  /\ call \in [Handlers -> Call]
  /\ now \in FirstTime..LastTime

Covers(s, t) == s.start <= t /\ t < s.end

Covering(t) ==
  {b \in Bookings : /\ booking[b].status \in {"confirmed", "completed"}
                    /\ Covers(booking[b].time, t)}

\* The checks protect a provider's time as far as calls do not overlap: at no
\* instant are more bookings active than calls run at a time.
OverlapNeedsOverlappingCalls ==
  \A b \in Bookings :
    Cardinality(Covering(booking[b].time.start)) <= Cardinality(Handlers)

\* What a provider's page shows without a time zone of its own: the midnights
\* of the provider.
OwnMidnights == {Midnight(d, availability.zone) : d \in UtcDays}

Shown(first, days) == GetSlots(availability, first, days, Busy({}) \union blackout, now)

\* Asked for the provider's own days, getSlots() shows no slot that is taken,
\* though it reads only bookings and blackouts around the range.
ShownSlotsAreFree ==
  \A first \in OwnMidnights, days \in {0, 1} : \A s \in Shown(first, days) :
    NoOverlap(s, Busy({}) \union blackout)

\* Nothing keeps the ranges of a weekday apart.
OneRangeADay == \A d \in 0..6 : \A r, q \in availability.weekly[d] : r = q

\* Whatever zone the days are asked for in, every slot lies wholly in the
\* provider's working hours of the local weekday; and who has one working range
\* a weekday has the buffer he asked for between two slots of it.
SlotsFitWorkDay ==
  \A first \in UtcDays \union OwnMidnights :
    /\ \A s \in Shown(first, 1) : s.end > now /\ WorksDuring(availability, s)
    /\ first \in OwnMidnights /\ OneRangeADay => \A s, t \in Shown(first, 1) :
         /\ s.start < t.start
         /\ WorksDuring(availability, Span(s.start, t.end))
         => s.end + availability.buffer <= t.start

-----------------------------------------------------------------------------
(* Why: the inductive strengthening of OverlapNeedsOverlappingCalls. *)

\* The call has found t free and is going to add a booking there.
Adds(h, t) ==
  /\ Covers(call[h].slot, t)
  /\ \/ call[h].at \in {"open", "insert"} /\ call[h].old = None
     \/ /\ At(h, "commit")
        /\ booking[call[h].old].status = "confirmed"
        /\ ~Covers(booking[call[h].old].time, t)

Adding(t) == {h \in Handlers : Adds(h, t)}

Capacity(t) ==
  Covering(t) # {} =>
    Cardinality(Covering(t)) + Cardinality(Adding(t)) <= Cardinality(Handlers)

\* Once a booking covers an instant, only the calls that found it free before
\* can still add one; what a reschedule moves has been booked.
CapacityInv ==
  /\ \A h \in Handlers :
       call[h].old # None => booking[call[h].old].status # "absent"
  /\ \A b \in Bookings :
       \A t \in booking[b].time.start..booking[b].time.end : Capacity(t)

-----------------------------------------------------------------------------
(* What the repository says beyond that. *)

\* What the bookings tests demand of a slot that is taken (409): the provider
\* is booked once at a time.  Two calls that overlap both find him free (see
\* the README).
NoDoubleBooking ==
  \A b, c \in Bookings : b # c /\ {booking[b].status, booking[c].status}
                                  \subseteq {"confirmed", "completed"}
    => ~Overlap(booking[b].time, booking[c].time)

\* What the message "not in provider availability" says of a refused start: the
\* provider does not offer it.  Days are cut in UTC when a start is looked up
\* and in the provider's zone when slots are shown (see the README).
ShownSlotsAreBookable ==
  \A first \in OwnMidnights : \A s \in Shown(first, 0) :
    s.start > now => IsSlot(availability, s, Busy({}) \union blackout, now)
=============================================================================
