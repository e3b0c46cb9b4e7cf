--------------------------- MODULE CalendarProofs ---------------------------
(* Theorems about Calendar, for every day length, settings and handlers. *)
EXTENDS Calendar, FiniteSetTheorems, TLAPS

Spans == [start: Int, end: Int]

-----------------------------------------------------------------------------
(* Type correctness. *)

LEMMA MidnightIsInt ==
  ASSUME NEW t \in Int, NEW zone \in Int
  PROVE  /\ Midnight(t, zone) \in Int
         /\ Weekday(t, zone) \in 0..6
<1>1. (t + zone) % Day \in Int
  BY DayAssumption
<1>2. (t + zone) \div Day \in Int
  BY DayAssumption
<1> QED
  BY <1>1, <1>2 DEF Midnight, Weekday

LEMMA PatternIsSpans ==
  ASSUME NEW a \in Settings, NEW t \in Int, NEW s \in Pattern(a, t)
  PROVE  s \in Spans /\ s.start < s.end
<1>1. a.zone \in Int /\ a.duration \in Nat \ {0}
  BY DEF Settings
<1>2. PICK r \in a.weekly[Weekday(t, a.zone)] :
        s \in SlotsOf(r, t, a.duration, a.duration + a.buffer)
  BY DEF Pattern
<1>3. r \in Spans
  <2>1. a.weekly[Weekday(t, a.zone)] \subseteq WorkingRanges
    BY <1>1, MidnightIsInt DEF Settings
  <2>2. r.start \in Int /\ r.end \in Int /\ r \in Spans
    BY <2>1, DayAssumption DEF WorkingRanges, Spans
  <2> QED
    BY <2>2
<1>4. PICK m \in r.start..r.end : s = Span(t + m, t + m + a.duration)
  BY <1>2 DEF SlotsOf
<1> QED
  BY <1>1, <1>3, <1>4 DEF Span, Spans

LEMMA ListedIsSpans ==
  ASSUME NEW a \in Availabilities, NEW first \in Int, NEW t,
         NEW s \in Listed(a, first, 0, t)
  PROVE  s \in Spans /\ s.start < s.end
<1>1. a \in Settings
  BY CalendarAssumption
<1>2. PICK i \in 0..0 : s \in Pattern(a, Midnight(first + i * Day, a.zone))
  BY DEF Listed
<1>3. first + i * Day \in Int /\ a.zone \in Int
  BY <1>1, DayAssumption DEF Settings
<1> QED
  BY <1>1, <1>2, <1>3, MidnightIsInt, PatternIsSpans

LEMMA IdleTyped == Idle \in Call
BY DEF Idle, Call, NoTime, Span

LEMMA InitTyped == Init => TypeOK
<1>1. NoTime \in Spans
  BY DEF NoTime, Span, Spans
<1> QED
  BY <1>1, IdleTyped, CalendarAssumption
  DEF Init, TypeOK, BookingDoc, Spans, Idle

LEMMA DoneTyped ==
  ASSUME TypeOK, NEW h \in Handlers, Done(h)
  PROVE  call' \in [Handlers -> Call]
BY IdleTyped DEF TypeOK, Done

LEMMA CheckTyped ==
  ASSUME TypeOK, NEW h \in Handlers, NEW step \in CallSteps, NEW passes,
         NEW next \in CallSteps, Check(h, step, passes, next),
         next = "insert" => call[h].old = None,
         next \in {"transaction", "commit"} => call[h].old \in Bookings
  PROVE  TypeOK'
<1>1. call[h] \in Call /\ call[h].at # "idle"
  BY DEF Check, At, CallSteps, TypeOK
<1>2. [call[h] EXCEPT !.at = next] \in Call
  BY <1>1 DEF Call, CallSteps
<1>3. call' \in [Handlers -> Call]
  BY <1>2, DoneTyped DEF Check, TypeOK
<1> QED
  BY <1>3 DEF TypeOK, Check

LEMMA BeginTyped ==
  ASSUME TypeOK, NEW h \in Handlers, NEW old \in Bookings \union {None},
         BeginCall(h, old)
  PROVE  TypeOK'
<1>1. PICK d \in UtcDays : \E s \in Listed(availability, d, 0, now) :
        call' = [call EXCEPT ![h] = [at |-> "blackouts", slot |-> s, old |-> old]]
  BY DEF BeginCall
<1>2. PICK s \in Listed(availability, d, 0, now) :
        call' = [call EXCEPT ![h] = [at |-> "blackouts", slot |-> s, old |-> old]]
  BY <1>1
<1>3. s \in Spans /\ s.start < s.end
  BY CalendarAssumption, ListedIsSpans DEF TypeOK
<1>4. [at |-> "blackouts", slot |-> s, old |-> old] \in Call
  BY <1>3 DEF Call, CallSteps, Spans
<1> QED
  BY <1>2, <1>4 DEF TypeOK, BeginCall

LEMMA BookedTyped ==
  ASSUME TypeOK, NEW h \in Handlers, call[h].at # "idle"
  PROVE  Booked(call[h].slot) \in BookingDoc
<1>1. call[h] \in Call
  BY DEF TypeOK
<1> QED
  BY <1>1 DEF Call, BookingDoc, Booked

LEMMA StatusTyped ==
  ASSUME TypeOK, NEW b \in Bookings, booking[b].status # "absent",
         NEW status \in {"cancelled", "completed"}
  PROVE  [booking[b] EXCEPT !.status = status] \in BookingDoc
<1>1. booking[b] \in BookingDoc
  BY DEF TypeOK
<1> QED
  BY <1>1 DEF BookingDoc

\* The call of a handler that resumes.
LEMMA ResumeTyped ==
  ASSUME TypeOK, NEW h \in Handlers, Resume(h)
  PROVE  TypeOK'
<1>1. CASE SlotBlackouts(h)
  BY <1>1, CheckTyped DEF SlotBlackouts, CallSteps
<1>2. CASE SlotBookings(h)
  BY <1>2, CheckTyped DEF SlotBookings, CallSteps
<1>3. CASE CountBookings(h)
  BY <1>3, CheckTyped DEF CountBookings, CallSteps
<1>4. CASE CountBlackouts(h)
  <2>1. call[h].old \in Bookings \union {None}
    BY DEF TypeOK, Call
  <2>2. CASE call[h].old = None
    BY <1>4, <2>2, CheckTyped DEF CountBlackouts, CallSteps
  <2>3. CASE call[h].old # None
    BY <1>4, <2>1, <2>3, CheckTyped DEF CountBlackouts, CallSteps
  <2> QED
    BY <2>2, <2>3
<1>5. CASE Insert(h)
  <2>1. call[h].at # "idle"
    BY <1>5 DEF Insert, At
  <2>2. booking' \in [Bookings -> BookingDoc]
    BY <1>5, <2>1, BookedTyped DEF Insert, TypeOK
  <2> QED
    BY <1>5, <2>2, DoneTyped DEF Insert, TypeOK
<1>6. CASE TransactionRead(h)
  <2>1. call[h].at = "transaction" /\ call[h].old \in Bookings
    BY <1>6 DEF TransactionRead, Check, At, TypeOK, Call
  <2> QED
    BY <1>6, <2>1, CheckTyped DEF TransactionRead, CallSteps
<1>7. CASE TransactionCommit(h)
  <2> DEFINE old == call[h].old
  <2>1. call[h] \in Call /\ call[h].at = "commit" /\ old \in Bookings
    BY <1>7 DEF TransactionCommit, At, TypeOK, Call
  <2>2. CASE booking[old].status = "confirmed"
    <3>1. PICK n \in Bookings :
            booking' = [booking EXCEPT ![old] = [@ EXCEPT !.status = "cancelled"],
                                       ![n] = Booked(call[h].slot)]
      BY <1>7, <2>2 DEF TransactionCommit
    <3>2. booking' \in [Bookings -> BookingDoc]
      BY <2>1, <2>2, <3>1, BookedTyped, StatusTyped DEF TypeOK
    <3> QED
      BY <1>7, <2>2, <3>2, DoneTyped DEF TransactionCommit, TypeOK
  <2>3. CASE booking[old].status # "confirmed"
    <3>1. [call[h] EXCEPT !.at = "transaction"] \in Call
      BY <2>1 DEF Call, CallSteps
    <3> QED
      BY <1>7, <2>3, <3>1 DEF TransactionCommit, TypeOK
  <2> QED
    BY <2>2, <2>3
<1> QED
  BY <1>1, <1>2, <1>3, <1>4, <1>5, <1>6, <1>7 DEF Resume

LEMMA NextTyped == TypeOK /\ [Next]_vars => TypeOK'
<1> SUFFICES ASSUME TypeOK, [Next]_vars PROVE TypeOK'
  OBVIOUS
<1>1. ASSUME NEW h \in Handlers, CreateRead(h) PROVE TypeOK'
  BY <1>1, BeginTyped DEF CreateRead
<1>2. ASSUME NEW h \in Handlers, NEW b \in Bookings, RescheduleRead(h, b)
      PROVE  TypeOK'
  BY <1>2, BeginTyped DEF RescheduleRead
<1>3. ASSUME NEW b \in Bookings, CancelBooking(b) PROVE TypeOK'
  BY <1>3, StatusTyped DEF CancelBooking, TypeOK
<1>4. ASSUME NEW b \in Bookings, FinishBooking(b) PROVE TypeOK'
  BY <1>4, StatusTyped DEF FinishBooking, TypeOK
<1>5. ASSUME NEW a \in Availabilities, UpdateMy(a) PROVE TypeOK'
  BY <1>5 DEF UpdateMy, TypeOK
<1>6. ASSUME NEW x \in Blackouts, AddMyBlackout(x) \/ RemoveMyBlackout(x)
      PROVE  TypeOK'
  BY <1>6 DEF AddMyBlackout, RemoveMyBlackout, TypeOK
<1>7. CASE Tick
  BY <1>7, CalendarAssumption DEF Tick, TypeOK
<1>8. ASSUME NEW h \in Handlers, Fail(h) PROVE TypeOK'
  BY <1>8, DoneTyped DEF Fail, TypeOK
<1>9. CASE UNCHANGED vars
  BY <1>9 DEF vars, TypeOK
<1> QED
  BY <1>1, <1>2, <1>3, <1>4, <1>5, <1>6, <1>7, <1>8, <1>9, ResumeTyped DEF Next, Step

\* Every document and every call in flight has its declared shape; spans have a
\* positive length, whatever settings the provider chooses.
THEOREM TypeCorrect == Spec => []TypeOK
  BY InitTyped, NextTyped, PTL DEF Spec

-----------------------------------------------------------------------------
(* Counting. *)

LEMMA Fewer ==
  ASSUME NEW H, IsFiniteSet(H), NEW C, IsFiniteSet(C),
         NEW A \in SUBSET H, NEW D \in SUBSET C, NEW B \in SUBSET A,
         C # {} => Cardinality(C) + Cardinality(A) <= Cardinality(H)
  PROVE  D # {} => Cardinality(D) + Cardinality(B) <= Cardinality(H)
<1>1. IsFiniteSet(A) /\ Cardinality(A) \in Nat /\ Cardinality(H) \in Nat
  BY FS_Subset, FS_CardinalityType
<1>2. Cardinality(B) \in Nat /\ Cardinality(B) <= Cardinality(A)
  BY <1>1, FS_Subset, FS_CardinalityType
<1>3. /\ Cardinality(C) \in Nat /\ Cardinality(D) \in Nat
      /\ Cardinality(D) <= Cardinality(C)
  BY FS_Subset, FS_CardinalityType
<1> QED
  BY <1>1, <1>2, <1>3

LEMMA Added ==
  ASSUME NEW S, IsFiniteSet(S), NEW x
  PROVE  /\ IsFiniteSet(S \union {x}) /\ Cardinality(S) \in Nat
         /\ Cardinality(S \union {x}) <= Cardinality(S) + 1
<1>1. Cardinality(S) \in Nat
  BY FS_CardinalityType
<1>2. /\ IsFiniteSet(S \union {x})
      /\ Cardinality(S \union {x}) = IF x \in S THEN Cardinality(S)
                                                ELSE Cardinality(S) + 1
  BY FS_AddElement
<1> QED
  BY <1>1, <1>2

LEMMA OneMore ==
  ASSUME NEW H, IsFiniteSet(H), NEW C, IsFiniteSet(C),
         NEW A \in SUBSET H, NEW n, NEW h \in A,
         NEW D \in SUBSET (C \union {n}), NEW B \in SUBSET (A \ {h}),
         C # {} => Cardinality(C) + Cardinality(A) <= Cardinality(H)
  PROVE  Cardinality(D) + Cardinality(B) <= Cardinality(H)
<1>1. /\ IsFiniteSet(A) /\ Cardinality(A) \in Nat /\ Cardinality(H) \in Nat
      /\ Cardinality(A) <= Cardinality(H)
  BY FS_Subset, FS_CardinalityType
<1>2. Cardinality(B) \in Nat /\ Cardinality(B) <= Cardinality(A) - 1
  <2>1. IsFiniteSet(A \ {h}) /\ Cardinality(A \ {h}) = Cardinality(A) - 1
    BY <1>1, FS_RemoveElement
  <2> QED
    BY <2>1, FS_Subset, FS_CardinalityType
<1>3. /\ Cardinality(C) \in Nat /\ Cardinality(D) \in Nat
      /\ Cardinality(D) <= Cardinality(C) + 1
  <2>1. /\ IsFiniteSet(C \union {n}) /\ Cardinality(C) \in Nat
        /\ Cardinality(C \union {n}) <= Cardinality(C) + 1
    BY Added
  <2> QED
    BY <2>1, FS_Subset, FS_CardinalityType
<1>4. C = {} => Cardinality(C) = 0
  BY FS_EmptySet
<1> QED
  BY <1>1, <1>2, <1>3, <1>4

LEMMA OneMoved ==
  ASSUME NEW H, IsFiniteSet(H), NEW C, IsFiniteSet(C),
         NEW A \in SUBSET H, NEW n, NEW old \in C,
         NEW D \in SUBSET ((C \ {old}) \union {n}), NEW B \in SUBSET A,
         Cardinality(C) + Cardinality(A) <= Cardinality(H)
  PROVE  Cardinality(D) + Cardinality(B) <= Cardinality(H)
<1>1. IsFiniteSet(A) /\ Cardinality(A) \in Nat /\ Cardinality(H) \in Nat
  BY FS_Subset, FS_CardinalityType
<1>2. Cardinality(B) \in Nat /\ Cardinality(B) <= Cardinality(A)
  BY <1>1, FS_Subset, FS_CardinalityType
<1>3. /\ IsFiniteSet(C \ {old}) /\ Cardinality(C) \in Nat
      /\ Cardinality(C \ {old}) = Cardinality(C) - 1
  BY FS_RemoveElement, FS_CardinalityType
<1>4. /\ IsFiniteSet((C \ {old}) \union {n})
      /\ Cardinality((C \ {old}) \union {n}) <= Cardinality(C)
  <2>1. /\ IsFiniteSet((C \ {old}) \union {n})
        /\ Cardinality((C \ {old}) \union {n}) <= Cardinality(C \ {old}) + 1
    BY <1>3, Added
  <2> QED
    BY <1>3, <2>1
<1>5. Cardinality(D) \in Nat /\ Cardinality(D) <= Cardinality(C)
  BY <1>3, <1>4, FS_Subset, FS_CardinalityType
<1> QED
  BY <1>1, <1>2, <1>3, <1>5

-----------------------------------------------------------------------------
(* At no instant more bookings than calls. *)

EveryInstant == \A t \in Int : Capacity(t)

OldWasBooked ==
  \A h \in Handlers :
    call[h].old # None => booking[call[h].old].status # "absent"

LEMMA CapacityMeans ==
  ASSUME TypeOK
  PROVE  CapacityInv <=> OldWasBooked /\ EveryInstant
<1>1. \A b \in Bookings : booking[b].time.start \in Int /\ booking[b].time.end \in Int
  BY DEF TypeOK, BookingDoc
<1>2. ASSUME CapacityInv, NEW t \in Int PROVE Capacity(t)
  <2>1. CASE Covering(t) = {}
    BY <2>1 DEF Capacity
  <2>2. ASSUME NEW b \in Covering(t) PROVE Capacity(t)
    <3>1. b \in Bookings /\ t \in booking[b].time.start..booking[b].time.end
      BY <1>1, <2>2 DEF Covering, Covers
    <3> QED
      BY <1>2, <3>1 DEF CapacityInv
  <2> QED
    BY <2>1, <2>2
<1>3. ASSUME OldWasBooked, EveryInstant PROVE CapacityInv
  BY <1>1, <1>3 DEF OldWasBooked, EveryInstant, CapacityInv
<1> QED
  BY <1>2, <1>3 DEF CapacityInv, OldWasBooked, EveryInstant

LEMMA Sets ==
  ASSUME NEW t
  PROVE  /\ IsFiniteSet(Handlers) /\ IsFiniteSet(Covering(t))
         /\ Adding(t) \in SUBSET Handlers
         /\ Adding(t)' \in SUBSET Handlers
BY CalendarAssumption, FS_Subset DEF Covering, Adding

\* A step that adds nothing at t.
LEMMA NothingAdded ==
  ASSUME NEW t \in Int, Capacity(t),
         Covering(t)' \subseteq Covering(t), Adding(t)' \subseteq Adding(t)
  PROVE  Capacity(t)'
<1>1. Covering(t)' # {} =>
        Cardinality(Covering(t)') + Cardinality(Adding(t)') <= Cardinality(Handlers)
  BY Sets, Fewer DEF Capacity
<1> QED
  BY <1>1 DEF Capacity

\* A step of one call that leaves the bookings alone.
LEMMA CallStep ==
  ASSUME TypeOK, EveryInstant, UNCHANGED booking, NEW h \in Handlers, NEW c,
         call' = [call EXCEPT ![h] = c],
         \A t \in Int : Adds(h, t)' => Adds(h, t) \/ Covering(t) = {}
  PROVE  EveryInstant'
<1> SUFFICES ASSUME NEW t \in Int PROVE Capacity(t)'
  BY DEF EveryInstant
<1>1. Covering(t)' = Covering(t)
  BY DEF Covering
<1>2. CASE Covering(t) = {}
  BY <1>1, <1>2 DEF Capacity
<1>3. CASE Covering(t) # {}
  <2>1. \A g \in Handlers : g # h => (Adds(g, t)' <=> Adds(g, t))
    BY DEF TypeOK, Adds, At
  <2>2. Adding(t)' \subseteq Adding(t)
    BY <1>3, <2>1 DEF Adding
  <2> QED
    BY <1>1, <2>2, NothingAdded DEF EveryInstant
<1> QED
  BY <1>2, <1>3

\* A call that ends, or that goes on to a step before its last check.
LEMMA HarmlessCall ==
  ASSUME TypeOK, EveryInstant, UNCHANGED booking, NEW h \in Handlers, NEW c,
         c.at \notin {"open", "insert", "commit"},
         call' = [call EXCEPT ![h] = c]
  PROVE  EveryInstant'
<1>1. call'[h] = c
  BY DEF TypeOK
<1>2. \A t \in Int : ~Adds(h, t)'
  BY <1>1 DEF Adds, At
<1> QED
  BY <1>2, CallStep

LEMMA EndedCall ==
  ASSUME TypeOK, EveryInstant, UNCHANGED booking, NEW h \in Handlers, Done(h)
  PROVE  EveryInstant'
BY HarmlessCall DEF Done, Idle

\* A booking that only changes from active to inactive or to completed.
LEMMA Released ==
  ASSUME TypeOK, EveryInstant, UNCHANGED call, NEW b \in Bookings,
         booking[b].status \in {"confirmed", "completed"},
         NEW status \in {"cancelled", "completed"},
         booking' = [booking EXCEPT ![b] = [@ EXCEPT !.status = status]]
  PROVE  EveryInstant'
<1>1. \A c \in Bookings : /\ booking'[c].time = booking[c].time
                          /\ booking'[c].status = booking[c].status \/ c = b
  BY DEF TypeOK, BookingDoc
<1>2. booking'[b].status = status
  BY DEF TypeOK, BookingDoc
<1> SUFFICES ASSUME NEW t \in Int PROVE Capacity(t)'
  BY DEF EveryInstant
<1>3. Covering(t)' \subseteq Covering(t)
  BY <1>1 DEF Covering
<1>4. ASSUME NEW h \in Handlers, Adds(h, t)' PROVE Adds(h, t)
  <2>1. CASE call[h].at # "commit"
    BY <1>4, <2>1 DEF Adds, At
  <2>2. CASE call[h].at = "commit"
    <3>1. call[h].old \in Bookings
      BY <2>2 DEF TypeOK, Call
    <3>2. /\ Covers(call[h].slot, t)
          /\ booking'[call[h].old].status = "confirmed"
          /\ ~Covers(booking'[call[h].old].time, t)
      BY <1>4, <2>2 DEF Adds, At
    <3> QED
      BY <1>1, <1>2, <2>2, <3>1, <3>2 DEF Adds, At
  <2> QED
    BY <2>1, <2>2
<1> QED
  BY <1>3, <1>4, NothingAdded DEF EveryInstant, Adding

\* A time no other booking overlaps is free at each of its instants.
LEMMA FreeMeansFree ==
  ASSUME TypeOK, NEW h \in Handlers, NEW old,
         NoOverlap(call[h].slot, Busy({old})),
         NEW t \in Int, Covers(call[h].slot, t)
  PROVE  Covering(t) \subseteq {old}
<1> SUFFICES ASSUME NEW b \in Covering(t), b # old PROVE FALSE
  OBVIOUS
<1>1. b \in Bookings /\ booking[b].time \in Busy({old})
  BY DEF Covering, Busy
<1>2. ~Overlap(booking[b].time, call[h].slot)
  BY <1>1 DEF NoOverlap
<1>3. /\ booking[b].time.start \in Int /\ booking[b].time.end \in Int
      /\ call[h].slot.start \in Int /\ call[h].slot.end \in Int
  BY <1>1 DEF TypeOK, BookingDoc, Call
<1>4. Covers(booking[b].time, t)
  BY DEF Covering
<1> QED
  BY <1>2, <1>3, <1>4 DEF Overlap, Covers

LEMMA InsertKeeps ==
  ASSUME TypeOK, EveryInstant, OldWasBooked, NEW h \in Handlers, Insert(h)
  PROVE  EveryInstant'
<1> DEFINE s == call[h].slot
<1>1. PICK n \in Bookings : /\ booking[n].status = "absent"
                            /\ booking' = [booking EXCEPT ![n] = Booked(s)]
  BY DEF Insert
<1>2. call' = [call EXCEPT ![h] = Idle] /\ call[h].at = "insert" /\ call[h].old = None
  BY DEF Insert, Done, At, TypeOK, Call
<1> SUFFICES ASSUME NEW t \in Int PROVE Capacity(t)'
  BY DEF EveryInstant
<1>3. Capacity(t)
  BY DEF EveryInstant
<1>4. booking'[n] = Booked(s) /\ \A b \in Bookings : b # n => booking'[b] = booking[b]
  BY <1>1 DEF TypeOK
<1>5. ASSUME NEW g \in Handlers, Adds(g, t)' PROVE g # h /\ Adds(g, t)
  <2>1. call'[h] = Idle /\ (g # h => call'[g] = call[g])
    BY <1>2 DEF TypeOK
  <2>2. g # h
    BY <1>5, <2>1 DEF Adds, At, Idle
  <2>3. CASE call[g].at # "commit"
    BY <1>5, <2>1, <2>2, <2>3 DEF Adds, At
  <2>4. CASE call[g].at = "commit"
    <3>1. call[g].old \in Bookings /\ call[g].old # n
      BY <1>1, <2>4, CalendarAssumption DEF OldWasBooked, TypeOK, Call
    <3>2. booking'[call[g].old] = booking[call[g].old]
      BY <1>4, <3>1
    <3> QED
      BY <1>5, <2>1, <2>2, <3>2 DEF Adds, At
  <2> QED
    BY <2>2, <2>3, <2>4
<1>6. CASE Covers(s, t)
  <2>1. h \in Adding(t)
    BY <1>2, <1>6 DEF Adding, Adds
  <2>2. Adding(t)' \subseteq Adding(t) \ {h}
    BY <1>5 DEF Adding
  <2>3. Covering(t)' \subseteq Covering(t) \union {n}
    BY <1>4 DEF Covering
  <2>4. Cardinality(Covering(t)') + Cardinality(Adding(t)') <= Cardinality(Handlers)
    BY <1>3, <2>1, <2>2, <2>3, Sets, OneMore, SMTT(30) DEF Capacity
  <2> QED
    BY <2>4 DEF Capacity
<1>7. CASE ~Covers(s, t)
  <2>1. Covering(t)' \subseteq Covering(t)
    BY <1>4, <1>7 DEF Covering, Booked
  <2>2. Adding(t)' \subseteq Adding(t)
    BY <1>5 DEF Adding
  <2> QED
    BY <1>3, <2>1, <2>2, NothingAdded
<1> QED
  BY <1>6, <1>7

LEMMA CommitKeeps ==
  ASSUME TypeOK, EveryInstant, OldWasBooked, NEW h \in Handlers,
         TransactionCommit(h)
  PROVE  EveryInstant'
<1> DEFINE s == call[h].slot
           old == call[h].old
<1>1. call[h].at = "commit" /\ old \in Bookings
  BY DEF TransactionCommit, At, TypeOK, Call
<1>2. CASE booking[old].status # "confirmed"
  <2>1. UNCHANGED booking /\ call' = [call EXCEPT ![h] = [@ EXCEPT !.at = "transaction"]]
    BY <1>2 DEF TransactionCommit
  <2>2. [call[h] EXCEPT !.at = "transaction"].at = "transaction"
    BY DEF TypeOK, Call
  <2> QED
    BY <2>1, <2>2, HarmlessCall
<1>3. CASE booking[old].status = "confirmed"
  <2>1. PICK n \in Bookings :
          /\ booking[n].status = "absent"
          /\ booking' = [booking EXCEPT ![old] = [@ EXCEPT !.status = "cancelled"],
                                        ![n] = Booked(s)]
    BY <1>3 DEF TransactionCommit
  <2>2. call' = [call EXCEPT ![h] = Idle]
    BY <1>3 DEF TransactionCommit, Done
  <2> SUFFICES ASSUME NEW t \in Int PROVE Capacity(t)'
    BY DEF EveryInstant
  <2>3. Capacity(t)
    BY DEF EveryInstant
  <2>4. /\ n # old
        /\ booking'[n] = Booked(s)
        /\ booking'[old].status = "cancelled"
        /\ \A b \in Bookings \ {old, n} : booking'[b] = booking[b]
    BY <1>1, <1>3, <2>1 DEF TypeOK, BookingDoc
  <2>5. ASSUME NEW g \in Handlers, Adds(g, t)' PROVE g # h /\ Adds(g, t)
    <3>1. call'[h] = Idle /\ (g # h => call'[g] = call[g])
      BY <2>2 DEF TypeOK
    <3>2. g # h
      BY <2>5, <3>1 DEF Adds, At, Idle
    <3>3. CASE call[g].at # "commit"
      BY <2>5, <3>1, <3>2, <3>3 DEF Adds, At
    <3>4. CASE call[g].at = "commit"
      <4>1. call[g].old \in Bookings /\ call[g].old # n
        BY <2>1, <3>4, CalendarAssumption DEF OldWasBooked, TypeOK, Call
      <4>2. booking'[call[g].old].status = "confirmed"
        BY <2>5, <3>1, <3>2, <3>4 DEF Adds, At
      <4>3. booking'[call[g].old] = booking[call[g].old]
        BY <2>4, <4>1, <4>2
      <4> QED
        BY <2>5, <3>1, <3>2, <4>3 DEF Adds, At
    <3> QED
      BY <3>2, <3>3, <3>4
  <2>6. /\ Covering(t)' \subseteq (Covering(t) \ {old}) \union {n}
        /\ ~Covers(s, t) => n \notin Covering(t)'
    BY <2>4 DEF Covering, Booked
  <2>7. Adding(t)' \subseteq Adding(t) \ {h}
    BY <2>5 DEF Adding
  <2>8. CASE old \in Covering(t)
    <3>1. Cardinality(Covering(t)) + Cardinality(Adding(t)) <= Cardinality(Handlers)
      BY <2>3, <2>8 DEF Capacity
    <3>2. /\ Covering(t)' \in SUBSET ((Covering(t) \ {old}) \union {n})
          /\ Adding(t)' \in SUBSET Adding(t)
      BY <2>6, <2>7
    <3>3. /\ IsFiniteSet(Handlers) /\ IsFiniteSet(Covering(t))
          /\ Adding(t) \in SUBSET Handlers
      BY Sets
    <3>4. Cardinality(Covering(t)') + Cardinality(Adding(t)') <= Cardinality(Handlers)
      <4> DEFINE C == Covering(t)
                 A == Adding(t)
                 D == Covering(t)'
                 B == Adding(t)'
      <4>1. /\ IsFiniteSet(Handlers) /\ IsFiniteSet(C) /\ A \in SUBSET Handlers
            /\ old \in C /\ D \in SUBSET ((C \ {old}) \union {n}) /\ B \in SUBSET A
            /\ Cardinality(C) + Cardinality(A) <= Cardinality(Handlers)
        BY <2>8, <3>1, <3>2, <3>3
      <4> HIDE DEF C, A, D, B, old
      <4>2. Cardinality(D) + Cardinality(B) <= Cardinality(Handlers)
        BY <4>1, OneMoved
      <4> QED
        BY <4>2 DEF D, B
    <3> QED
      BY <3>4 DEF Capacity
  <2>9. CASE old \notin Covering(t) /\ Covers(s, t)
    <3>1. ~Covers(booking[old].time, t)
      BY <1>1, <1>3, <2>9 DEF Covering
    <3>2. h \in Adding(t)
      BY <1>1, <1>3, <2>9, <3>1 DEF Adding, Adds, At
    <3>3. Covering(t)' \subseteq Covering(t) \union {n}
      BY <2>6
    <3>4. Cardinality(Covering(t)') + Cardinality(Adding(t)') <= Cardinality(Handlers)
      BY <2>3, <2>7, <3>2, <3>3, Sets, OneMore DEF Capacity
    <3> QED
      BY <3>4 DEF Capacity
  <2>10. CASE ~Covers(s, t)
    <3>1. Covering(t)' \subseteq Covering(t) /\ Adding(t)' \subseteq Adding(t)
      BY <2>6, <2>7, <2>10
    <3> QED
      BY <2>3, <3>1, NothingAdded
  <2> QED
    BY <2>8, <2>9, <2>10
<1> QED
  BY <1>2, <1>3

LEMMA ResumeKeeps ==
  ASSUME TypeOK, EveryInstant, OldWasBooked, NEW h \in Handlers, Resume(h)
  PROVE  EveryInstant'
<1>1. ASSUME NEW step, NEW passes, NEW next, Check(h, step, passes, next),
             next \notin {"open", "insert", "commit"}
      PROVE  EveryInstant'
  <2>1. UNCHANGED booking
    BY <1>1 DEF Check
  <2>2. CASE passes
    <3>1. call' = [call EXCEPT ![h] = [@ EXCEPT !.at = next]]
      BY <1>1, <2>2 DEF Check
    <3>2. [call[h] EXCEPT !.at = next].at = next
      BY DEF TypeOK, Call
    <3> QED
      BY <1>1, <2>1, <3>1, <3>2, HarmlessCall
  <2>3. CASE ~passes
    BY <1>1, <2>1, <2>3, EndedCall DEF Check
  <2> QED
    BY <2>2, <2>3
<1>2. CASE SlotBlackouts(h)
  BY <1>1, <1>2 DEF SlotBlackouts
<1>3. CASE SlotBookings(h)
  BY <1>1, <1>3 DEF SlotBookings
<1>4. CASE CountBookings(h)
  <2>1. UNCHANGED booking
    BY <1>4 DEF CountBookings, Check
  <2>2. CASE NoOverlap(call[h].slot, Busy({call[h].old}))
    <3> DEFINE c == [call[h] EXCEPT !.at = "open"]
    <3>1. call' = [call EXCEPT ![h] = c]
      BY <1>4, <2>2 DEF CountBookings, Check
    <3>2. c.at = "open" /\ c.slot = call[h].slot /\ c.old = call[h].old /\ call'[h] = c
      BY <3>1 DEF TypeOK, Call
    <3>3. ASSUME NEW t \in Int, Adds(h, t)' PROVE Covering(t) = {}
      <4>1. Covers(call[h].slot, t) /\ call[h].old = None
        BY <3>2, <3>3 DEF Adds, At
      <4>2. Covering(t) \subseteq {None}
        BY <2>2, <4>1, FreeMeansFree
      <4> QED
        BY <4>2, CalendarAssumption DEF Covering
    <3> QED
      BY <2>1, <3>1, <3>3, CallStep
  <2>3. CASE ~NoOverlap(call[h].slot, Busy({call[h].old}))
    BY <1>4, <2>1, <2>3, EndedCall DEF CountBookings, Check
  <2> QED
    BY <2>2, <2>3
<1>5. CASE CountBlackouts(h)
  <2>1. UNCHANGED booking /\ call[h].at = "open"
    BY <1>5 DEF CountBlackouts, Check, At
  <2>2. CASE NoOverlap(call[h].slot, blackout)
    <3> DEFINE next == IF call[h].old = None THEN "insert" ELSE "transaction"
               c == [call[h] EXCEPT !.at = next]
    <3>1. call' = [call EXCEPT ![h] = c]
      BY <1>5, <2>2 DEF CountBlackouts, Check
    <3>2. c.at = next /\ c.slot = call[h].slot /\ c.old = call[h].old /\ call'[h] = c
      BY <3>1 DEF TypeOK, Call
    <3>3. ASSUME NEW t \in Int, Adds(h, t)' PROVE Adds(h, t)
      BY <2>1, <3>2, <3>3 DEF Adds, At
    <3> QED
      BY <2>1, <3>1, <3>3, CallStep
  <2>3. CASE ~NoOverlap(call[h].slot, blackout)
    BY <1>5, <2>1, <2>3, EndedCall DEF CountBlackouts, Check
  <2> QED
    BY <2>2, <2>3
<1>6. CASE Insert(h)
  BY <1>6, InsertKeeps
<1>7. CASE TransactionRead(h)
  <2> DEFINE old == call[h].old
             passes == /\ booking[old].status = "confirmed"
                       /\ NoOverlap(call[h].slot, Busy({old}))
                       /\ NoOverlap(call[h].slot, blackout)
  <2>1. UNCHANGED booking /\ call[h].at = "transaction"
    BY <1>7 DEF TransactionRead, Check, At
  <2>2. CASE passes
    <3> DEFINE c == [call[h] EXCEPT !.at = "commit"]
    <3>1. call' = [call EXCEPT ![h] = c]
      BY <1>7, <2>2 DEF TransactionRead, Check
    <3>2. c.at = "commit" /\ c.slot = call[h].slot /\ c.old = old /\ call'[h] = c
      BY <3>1 DEF TypeOK, Call
    <3>3. ASSUME NEW t \in Int, Adds(h, t)' PROVE Covering(t) = {}
      <4>1. Covers(call[h].slot, t) /\ ~Covers(booking[old].time, t)
        BY <2>1, <3>2, <3>3 DEF Adds, At
      <4>2. Covering(t) \subseteq {old}
        BY <2>2, <4>1, FreeMeansFree
      <4> QED
        BY <4>1, <4>2 DEF Covering
    <3> QED
      BY <2>1, <3>1, <3>3, CallStep
  <2>3. CASE ~passes
    BY <1>7, <2>1, <2>3, EndedCall DEF TransactionRead, Check
  <2> QED
    BY <2>2, <2>3
<1>8. CASE TransactionCommit(h)
  BY <1>8, CommitKeeps
<1> QED
  BY <1>2, <1>3, <1>4, <1>5, <1>6, <1>7, <1>8 DEF Resume

LEMMA NextKeeps ==
  ASSUME TypeOK, EveryInstant, OldWasBooked, [Next]_vars
  PROVE  EveryInstant'
<1>1. ASSUME NEW h \in Handlers, NEW old, BeginCall(h, old) PROVE EveryInstant'
  <2>1. PICK d \in UtcDays : \E s \in Listed(availability, d, 0, now) :
          call' = [call EXCEPT ![h] = [at |-> "blackouts", slot |-> s, old |-> old]]
    BY <1>1 DEF BeginCall
  <2>2. PICK s \in Listed(availability, d, 0, now) :
          call' = [call EXCEPT ![h] = [at |-> "blackouts", slot |-> s, old |-> old]]
    BY <2>1
  <2>3. UNCHANGED booking
    BY <1>1 DEF BeginCall
  <2>4. [at |-> "blackouts", slot |-> s, old |-> old].at = "blackouts"
    OBVIOUS
  <2> QED
    BY <2>2, <2>3, <2>4, HarmlessCall
<1>2. ASSUME NEW b \in Bookings, CancelBooking(b) PROVE EveryInstant'
  BY <1>2, Released DEF CancelBooking
<1>3. ASSUME NEW b \in Bookings, FinishBooking(b) PROVE EveryInstant'
  BY <1>3, Released DEF FinishBooking
<1>4. ASSUME NEW h \in Handlers, Fail(h) PROVE EveryInstant'
  BY <1>4, EndedCall DEF Fail
<1>5. ASSUME UNCHANGED <<booking, call>> PROVE EveryInstant'
  BY <1>5 DEF EveryInstant, Capacity, Covering, Adding, Adds, At
<1>6. ASSUME NEW a \in Availabilities, UpdateMy(a) PROVE EveryInstant'
  BY <1>5, <1>6 DEF UpdateMy
<1>7. ASSUME NEW x \in Blackouts, AddMyBlackout(x) \/ RemoveMyBlackout(x)
      PROVE  EveryInstant'
  BY <1>5, <1>7 DEF AddMyBlackout, RemoveMyBlackout
<1>8. CASE Tick
  BY <1>5, <1>8 DEF Tick
<1>9. CASE UNCHANGED vars
  BY <1>5, <1>9 DEF vars
<1> QED
  BY <1>1, <1>2, <1>3, <1>4, <1>6, <1>7, <1>8, <1>9, ResumeKeeps
  DEF Next, Step, CreateRead, RescheduleRead

\* Bookings are never deleted, and only a confirmed one is rescheduled.
LEMMA OldStaysBooked ==
  ASSUME TypeOK, OldWasBooked, [Next]_vars
  PROVE  OldWasBooked'
<1>1. ASSUME NEW b \in Bookings, booking[b].status # "absent"
      PROVE  booking'[b].status # "absent"
  <2>1. ASSUME NEW h \in Handlers, Insert(h) \/ TransactionCommit(h)
        PROVE  booking'[b].status # "absent"
    BY <1>1, <2>1 DEF Insert, TransactionCommit, Booked, TypeOK, BookingDoc
  <2>2. ASSUME NEW c \in Bookings, CancelBooking(c) \/ FinishBooking(c)
        PROVE  booking'[b].status # "absent"
    BY <1>1, <2>2 DEF CancelBooking, FinishBooking, TypeOK, BookingDoc
  <2> QED
    BY <1>1, <2>1, <2>2
    DEF Next, Step, Resume, vars, CreateRead, RescheduleRead, BeginCall, Check,
        SlotBlackouts, SlotBookings, CountBookings, CountBlackouts, TransactionRead,
        UpdateMy, AddMyBlackout, RemoveMyBlackout, Tick, Fail
<1>2. ASSUME NEW g \in Handlers, call'[g].old # None
      PROVE  /\ call'[g].old \in Bookings
             /\ booking[call'[g].old].status # "absent"
  <2>1. CASE call'[g].old = call[g].old
    BY <1>2, <2>1 DEF OldWasBooked, TypeOK, Call
  <2>2. CASE call'[g].old # call[g].old
    <3>1. ASSUME NEW h \in Handlers, BeginCall(h, None) PROVE FALSE
      BY <1>2, <2>2, <3>1 DEF BeginCall, TypeOK
    <3>2. ASSUME NEW h \in Handlers, NEW b \in Bookings, RescheduleRead(h, b)
          PROVE  call'[g].old = b /\ booking[b].status = "confirmed"
      BY <1>2, <2>2, <3>2 DEF RescheduleRead, BeginCall, TypeOK
    <3>3. ASSUME NEW h \in Handlers, Done(h) PROVE FALSE
      BY <1>2, <2>2, <3>3 DEF Done, Idle, TypeOK
    <3>4. ASSUME NEW h \in Handlers, NEW step, NEW passes, NEW next,
                 Check(h, step, passes, next)
          PROVE  FALSE
      BY <1>2, <2>2, <3>3, <3>4 DEF Check, TypeOK, Call
    <3>5. ASSUME NEW h \in Handlers, TransactionCommit(h) PROVE FALSE
      BY <1>2, <2>2, <3>3, <3>5 DEF TransactionCommit, TypeOK, Call
    <3>6. ~UNCHANGED call
      BY <2>2
    <3> QED
      BY <3>1, <3>2, <3>3, <3>4, <3>5, <3>6
      DEF Next, Step, Resume, vars, CreateRead, SlotBlackouts, SlotBookings,
          CountBookings, CountBlackouts, Insert, TransactionRead, CancelBooking,
          FinishBooking, UpdateMy, AddMyBlackout, RemoveMyBlackout, Tick, Fail
  <2> QED
    BY <2>1, <2>2
<1> QED
  BY <1>1, <1>2 DEF OldWasBooked

LEMMA InitCapacity == Init => OldWasBooked /\ EveryInstant
BY DEF Init, Idle, OldWasBooked, EveryInstant, Capacity, Covering

LEMMA AlwaysCapacity == Spec => [](TypeOK /\ OldWasBooked /\ EveryInstant)
<1>1. Init => TypeOK /\ OldWasBooked /\ EveryInstant
  BY InitTyped, InitCapacity
<1>2. TypeOK /\ OldWasBooked /\ EveryInstant /\ [Next]_vars
        => (TypeOK /\ OldWasBooked /\ EveryInstant)'
  BY NextTyped, NextKeeps, OldStaysBooked
<1> QED
  BY <1>1, <1>2, PTL DEF Spec

\* The strengthening itself, as TLC checks it.
THEOREM CapacityIsKept == Spec => []CapacityInv
<1>1. TypeOK /\ OldWasBooked /\ EveryInstant => CapacityInv
  BY CapacityMeans
<1> QED
  BY <1>1, AlwaysCapacity, PTL

\* At no instant are more bookings of the provider active than calls can be in
\* flight, however they overlap, fail and reschedule.
THEOREM OverlapsNeedOverlappingCalls == Spec => []OverlapNeedsOverlappingCalls
<1>1. ASSUME TypeOK, EveryInstant PROVE OverlapNeedsOverlappingCalls
  <2> SUFFICES ASSUME NEW b \in Bookings
               PROVE  Cardinality(Covering(booking[b].time.start))
                        <= Cardinality(Handlers)
    BY DEF OverlapNeedsOverlappingCalls
  <2> DEFINE t == booking[b].time.start
  <2>1. t \in Int
    BY <1>1 DEF TypeOK, BookingDoc
  <2>2. /\ Cardinality(Covering(t)) \in Nat /\ Cardinality(Adding(t)) \in Nat
        /\ Cardinality(Handlers) \in Nat
    BY Sets, FS_Subset, FS_CardinalityType
  <2>3. Covering(t) = {} => Cardinality(Covering(t)) = 0
    BY FS_EmptySet
  <2> QED
    BY <1>1, <2>1, <2>2, <2>3 DEF EveryInstant, Capacity
<1> QED
  BY <1>1, AlwaysCapacity, PTL

\* When the calls for a provider come one at a time, no two of his bookings
\* overlap, whatever he does to his settings and blackouts meanwhile.
THEOREM OneCallAtATime ==
  ASSUME \A g, h \in Handlers : g = h
  PROVE  Spec => []NoDoubleBooking
<1>1. Cardinality(Handlers) \in Nat /\ Cardinality(Handlers) <= 1
  <2>1. CASE Handlers = {}
    BY <2>1, FS_EmptySet
  <2>2. ASSUME NEW h \in Handlers PROVE Cardinality(Handlers) = 1
    <3>1. Handlers = {h}
      OBVIOUS
    <3> QED
      BY <3>1, FS_Singleton
  <2> QED
    BY <2>1, <2>2
<1>2. ASSUME TypeOK, EveryInstant PROVE NoDoubleBooking
  <2> SUFFICES ASSUME NEW b \in Bookings, NEW c \in Bookings, b # c,
                      booking[b].status \in {"confirmed", "completed"},
                      booking[c].status \in {"confirmed", "completed"},
                      Overlap(booking[b].time, booking[c].time)
               PROVE  FALSE
    BY DEF NoDoubleBooking
  <2>1. booking[b] \in BookingDoc /\ booking[c] \in BookingDoc
    BY <1>2 DEF TypeOK
  <2>2. PICK t \in Int : Covers(booking[b].time, t) /\ Covers(booking[c].time, t)
    <3>1. CASE booking[b].time.start <= booking[c].time.start
      BY <2>1, <3>1 DEF Overlap, Covers, BookingDoc
    <3>2. CASE booking[c].time.start < booking[b].time.start
      BY <2>1, <3>2 DEF Overlap, Covers, BookingDoc
    <3> QED
      BY <2>1, <3>1, <3>2 DEF BookingDoc
  <2>3. {b, c} \in SUBSET Covering(t)
    BY <2>2 DEF Covering
  <2>4. Cardinality({b, c}) = 2
    <3>1. IsFiniteSet({b}) /\ Cardinality({b}) = 1 /\ {b, c} = {b} \union {c}
      BY FS_Singleton
    <3>2. Cardinality({b} \union {c}) = Cardinality({b}) + 1
      BY <3>1, FS_AddElement
    <3> QED
      BY <3>1, <3>2
  <2>5. /\ Cardinality(Covering(t)) \in Nat /\ Cardinality(Adding(t)) \in Nat
        /\ Cardinality({b, c}) <= Cardinality(Covering(t))
    BY <2>3, Sets, FS_Subset, FS_CardinalityType
  <2>6. Cardinality(Covering(t)) + Cardinality(Adding(t)) <= Cardinality(Handlers)
    BY <1>2, <2>3 DEF EveryInstant, Capacity
  <2> QED
    BY <1>1, <2>4, <2>5, <2>6
<1> QED
  BY <1>2, AlwaysCapacity, PTL

-----------------------------------------------------------------------------
(* Slots: days and hours. *)

LEMMA DayParts ==
  ASSUME NEW t \in Int
  PROVE  /\ t \div Day \in Int /\ t % Day \in 0..(Day - 1)
         /\ t = (t \div Day) * Day + (t % Day)
BY DayAssumption

LEMMA DayOf ==
  ASSUME NEW q \in Int, NEW e \in 0..(Day - 1)
  PROVE  (q * Day + e) \div Day = q /\ (q * Day + e) % Day = e
<1> DEFINE t == q * Day + e
           p == t \div Day
<1>1. PICK x \in Int : x = q * Day
  BY DayAssumption
<1>2. t \in Int
  BY <1>1, DayAssumption
<1>3. p \in Int /\ t % Day \in 0..(Day - 1) /\ t = p * Day + (t % Day)
  BY <1>2, DayParts
<1>4. p = q
  <2>1. CASE p < q
    <3>1. q * Day = p * Day + (q - p) * Day /\ (q - p) * Day >= Day
      BY <1>3, <2>1, DayAssumption
    <3> QED
      BY <1>1, <1>3, <3>1, DayAssumption
  <2>2. CASE q < p
    <3>1. p * Day = q * Day + (p - q) * Day /\ (p - q) * Day >= Day
      BY <1>3, <2>2, DayAssumption
    <3> QED
      BY <1>1, <1>3, <3>1, DayAssumption
  <2> QED
    BY <1>3, <2>1, <2>2
<1> QED
  BY <1>1, <1>3, <1>4, DayAssumption

\* Two multiples of a step are a step apart.
LEMMA StepApart ==
  ASSUME NEW step \in Nat \ {0}, NEW m \in Nat, NEW n \in Nat, m < n,
         m % step = 0, n % step = 0
  PROVE  m + step <= n
<1>1. PICK p \in Int : p = m \div step
  OBVIOUS
<1>2. PICK q \in Int : q = n \div step
  OBVIOUS
<1>3. m = p * step /\ n = q * step
  BY <1>1, <1>2
<1>4. p < q
  <2>1. CASE q <= p
    <3>1. p * step = q * step + (p - q) * step /\ (p - q) * step >= 0
      BY <2>1
    <3> QED
      BY <1>3, <3>1
  <2> QED
    BY <2>1
<1>5. q * step = p * step + (q - p) * step /\ (q - p) * step >= step
  BY <1>4
<1> QED
  BY <1>3, <1>5

\* The midnight that begins local day q.
Begins(a, q) == q * Day - a.zone

\* A slot of local day q, m minutes after its midnight, in working range r.
IsIn(a, q, s, m, r) ==
  /\ r \in a.weekly[q % 7]
  /\ r.start <= m /\ m + a.duration <= r.end
  /\ (m - r.start) % (a.duration + a.buffer) = 0
  /\ s = Span(Begins(a, q) + m, Begins(a, q) + m + a.duration)

LEMMA SettingsTyped ==
  ASSUME NEW a \in Settings
  PROVE  /\ a.zone \in Int /\ a.duration \in Nat \ {0} /\ a.buffer \in Nat
         /\ \A q \in Int : a.weekly[q % 7] \subseteq WorkingRanges
         /\ \A q \in Int : Begins(a, q) \in Int
<1>1. \A q \in Int : q % 7 \in 0..6
  OBVIOUS
<1> QED
  BY <1>1, DayAssumption DEF Settings, Begins

LEMMA MidnightBegins ==
  ASSUME NEW a \in Settings, NEW t \in Int
  PROVE  \E q \in Int : q = (t + a.zone) \div Day /\ Midnight(t, a.zone) = Begins(a, q)
<1>1. t + a.zone \in Int /\ a.zone \in Int
  BY SettingsTyped
<1>2. PICK q \in Int : q = (t + a.zone) \div Day
  BY <1>1, DayParts
<1>3. PICK e \in 0..(Day - 1) : e = (t + a.zone) % Day
  BY <1>1, DayParts
<1>4. PICK y \in Int : y = q * Day
  BY DayAssumption
<1>5. t + a.zone = y + e
  BY <1>1, <1>2, <1>3, <1>4, DayParts
<1>6. Midnight(t, a.zone) = t - e
  BY <1>3 DEF Midnight
<1>7. t - e = y - a.zone
  BY <1>1, <1>5, DayAssumption
<1> QED
  BY <1>2, <1>4, <1>6, <1>7 DEF Begins

LEMMA BeginsDay ==
  ASSUME NEW a \in Settings, NEW q \in Int, NEW e \in 0..(Day - 1), NEW t \in Int,
         t = Begins(a, q) + e
  PROVE  (t + a.zone) \div Day = q /\ (t + a.zone) % Day = e
<1>1. PICK y \in Int : y = q * Day
  BY DayAssumption
<1>2. t + a.zone = y + e
  BY <1>1, SettingsTyped, DayAssumption DEF Begins
<1> QED
  BY <1>1, <1>2, DayOf

LEMMA PatternIsIn ==
  ASSUME NEW a \in Settings, NEW q \in Int, NEW s \in Pattern(a, Begins(a, q))
  PROVE  \E m \in 0..(Day - 1), r \in WorkingRanges : IsIn(a, q, s, m, r)
<1>1. /\ a.zone \in Int /\ a.duration \in Nat \ {0} /\ a.buffer \in Nat
      /\ a.weekly[q % 7] \subseteq WorkingRanges
      /\ Begins(a, q) \in Int
  BY SettingsTyped
<1>2. Weekday(Begins(a, q), a.zone) = q % 7
  <2>1. Begins(a, q) = Begins(a, q) + 0 /\ 0 \in 0..(Day - 1)
    BY <1>1, DayAssumption
  <2> QED
    BY <1>1, <2>1, BeginsDay DEF Weekday
<1>3. PICK r \in a.weekly[q % 7] :
        s \in SlotsOf(r, Begins(a, q), a.duration, a.duration + a.buffer)
  BY <1>2 DEF Pattern
<1>4. r \in WorkingRanges /\ r.start \in 0..(Day - 1) /\ r.end \in 0..(Day - 1)
  BY <1>1 DEF WorkingRanges
<1>5. PICK m \in {n \in r.start..r.end :
              (n - r.start) % (a.duration + a.buffer) = 0 /\ n + a.duration <= r.end} :
        s = Span(Begins(a, q) + m, Begins(a, q) + m + a.duration)
  BY <1>3 DEF SlotsOf
<1>6. m \in 0..(Day - 1) /\ r.start <= m
  BY <1>1, <1>4, <1>5, DayAssumption
<1> QED
  BY <1>4, <1>5, <1>6 DEF IsIn

\* What getSlots() lists for the days first .. first + days.
LEMMA ListedIsIn ==
  ASSUME NEW a \in Settings, NEW first \in Int, NEW days \in Nat, NEW t,
         NEW s \in Listed(a, first, days, t)
  PROVE  \E i \in 0..days, q \in Int, m \in 0..(Day - 1), r \in WorkingRanges :
           /\ q = (first + i * Day + a.zone) \div Day
           /\ IsIn(a, q, s, m, r)
<1>1. PICK i \in 0..days : s \in Pattern(a, Midnight(first + i * Day, a.zone))
  BY DEF Listed
<1>2. first + i * Day \in Int
  BY DayAssumption
<1>3. PICK q \in Int : /\ q = (first + i * Day + a.zone) \div Day
                       /\ Midnight(first + i * Day, a.zone) = Begins(a, q)
  BY <1>2, MidnightBegins
<1> QED
  BY <1>1, <1>3, PatternIsIn

\* A slot lies in the working hours of its local day.
LEMMA InIsWork ==
  ASSUME NEW a \in Settings, NEW q \in Int, NEW s, NEW m \in 0..(Day - 1),
         NEW r \in WorkingRanges, IsIn(a, q, s, m, r)
  PROVE  WorksDuring(a, s)
<1>1. /\ a.zone \in Int /\ a.duration \in Nat \ {0} /\ Begins(a, q) \in Int
      /\ r.start \in 0..(Day - 1) /\ r.end \in 0..(Day - 1)
  BY SettingsTyped DEF WorkingRanges
<1> SUFFICES ASSUME NEW t \in s.start..(s.end - 1) PROVE WorksAt(a, t)
  BY DEF WorksDuring
<1>2. s.start = Begins(a, q) + m /\ s.end = Begins(a, q) + m + a.duration
  BY DEF IsIn, Span
<1>3. PICK e \in Int : e = t - Begins(a, q)
  BY <1>1, <1>2
<1>4. m <= e /\ e < m + a.duration /\ t = Begins(a, q) + e /\ t \in Int
  BY <1>1, <1>2, <1>3
<1>5. r.start <= e /\ e < r.end /\ e \in 0..(Day - 1)
  BY <1>1, <1>4, DayAssumption DEF IsIn
<1>6. (t + a.zone) \div Day = q /\ (t + a.zone) % Day = e
  BY <1>4, <1>5, BeginsDay
<1> QED
  BY <1>5, <1>6 DEF WorksAt, Weekday, IsIn

\* The days asked for with the provider's own midnight are his days.
LEMMA OwnDays ==
  ASSUME TypeOK, NEW first \in OwnMidnights
  PROVE  \E Q \in Int :
           /\ first = Begins(availability, Q)
           /\ \A i \in 0..1 : /\ (first + i * Day + availability.zone) \div Day = Q + i
                              /\ Begins(availability, Q + i) = first + i * Day
<1>1. availability \in Settings /\ availability.zone \in Int
  BY CalendarAssumption, SettingsTyped DEF TypeOK
<1>2. PICK d \in Int : first = Midnight(d, availability.zone)
  BY CalendarAssumption DEF OwnMidnights
<1>3. PICK Q \in Int : first = Begins(availability, Q)
  BY <1>1, <1>2, MidnightBegins
<1>4. PICK y \in Int : y = Q * Day
  BY DayAssumption
<1>5. (Q + 1) * Day = y + Day
  BY <1>4, DayAssumption
<1>6. first = y - availability.zone
  BY <1>3, <1>4 DEF Begins
<1>7. Begins(availability, Q + 1) = first + Day
  BY <1>1, <1>5, <1>6, DayAssumption DEF Begins
<1>8. (first + availability.zone) \div Day = Q
  <2>1. first = Begins(availability, Q) + 0 /\ 0 \in 0..(Day - 1) /\ first \in Int
    BY <1>1, <1>3, <1>4, <1>6, DayAssumption
  <2> QED
    BY <1>1, <2>1, BeginsDay
<1>9. (first + Day + availability.zone) \div Day = Q + 1
  <2>1. first + Day = Begins(availability, Q + 1) + 0 /\ first + Day \in Int
    BY <1>1, <1>4, <1>6, <1>7, DayAssumption
  <2>2. 0 \in 0..(Day - 1) /\ Q + 1 \in Int
    BY DayAssumption
  <2> QED
    BY <1>1, <2>1, <2>2, BeginsDay
<1>10. first \in Int
  BY <1>1, <1>4, <1>6
<1>11. \A i \in 0..1 :
         /\ (first + i * Day + availability.zone) \div Day = Q + i
         /\ Begins(availability, Q + i) = first + i * Day
  <2> SUFFICES ASSUME NEW i \in 0..1
               PROVE  /\ (first + i * Day + availability.zone) \div Day = Q + i
                      /\ Begins(availability, Q + i) = first + i * Day
    OBVIOUS
  <2>1. CASE i = 0
    <3>1. first + i * Day = first /\ Q + i = Q
      BY <1>10, <2>1, DayAssumption
    <3> QED
      BY <1>3, <1>8, <3>1
  <2>2. CASE i = 1
    <3>1. first + i * Day = first + Day /\ Q + i = Q + 1
      BY <1>10, <2>2, DayAssumption
    <3> QED
      BY <1>7, <1>9, <3>1
  <2> QED
    BY <2>1, <2>2
<1> QED
  BY <1>3, <1>11

\* A slot of the provider's own days, in the hours of its day.
LEMMA OwnSlot ==
  ASSUME TypeOK, NEW first \in OwnMidnights, NEW days \in 0..1,
         NEW s \in Shown(first, days), NEW Q \in Int,
         \A i \in 0..1 : /\ (first + i * Day + availability.zone) \div Day = Q + i
                         /\ Begins(availability, Q + i) = first + i * Day
  PROVE  \E i \in 0..days, m \in 0..(Day - 1), r \in WorkingRanges :
           /\ IsIn(availability, Q + i, s, m, r)
           /\ s.start = first + i * Day + m
           /\ s.end = first + i * Day + m + availability.duration
           /\ m + availability.duration < Day
<1>1. availability \in Settings
  BY CalendarAssumption DEF TypeOK
<1>2. first \in Int
  <2>1. PICK d \in Int : first = Midnight(d, availability.zone)
    BY CalendarAssumption DEF OwnMidnights
  <2> QED
    BY <1>1, <2>1, MidnightIsInt, SettingsTyped
<1>3. s \in Listed(availability, first, days, now)
  BY DEF Shown, GetSlots
<1>4. PICK i \in 0..days, q \in Int, m \in 0..(Day - 1), r \in WorkingRanges :
        /\ q = (first + i * Day + availability.zone) \div Day
        /\ IsIn(availability, q, s, m, r)
  BY <1>1, <1>2, <1>3, ListedIsIn
<1>5. i \in 0..1 /\ q = Q + i
  BY <1>4
<1>6. /\ s.start = first + i * Day + m
      /\ s.end = first + i * Day + m + availability.duration
  BY <1>4, <1>5 DEF IsIn, Span
<1>7. m + availability.duration < Day
  BY <1>1, <1>4, SettingsTyped, DayAssumption DEF IsIn, WorkingRanges
<1> QED
  BY <1>4, <1>5, <1>6, <1>7

LEMMA BusySpans ==
  ASSUME TypeOK, NEW x \in Busy({}) \union blackout
  PROVE  x.start \in Int /\ x.end \in Int
BY CalendarAssumption DEF TypeOK, Busy, BookingDoc

LEMMA ShownAreFree == TypeOK => ShownSlotsAreFree
<1> SUFFICES ASSUME TypeOK, NEW first \in OwnMidnights, NEW days \in {0, 1},
                    NEW s \in Shown(first, days), NEW x \in Busy({}) \union blackout,
                    Overlap(x, s)
             PROVE  FALSE
  BY DEF ShownSlotsAreFree, NoOverlap
<1>1. PICK Q \in Int :
        /\ first = Begins(availability, Q)
        /\ \A i \in 0..1 : /\ (first + i * Day + availability.zone) \div Day = Q + i
                           /\ Begins(availability, Q + i) = first + i * Day
  BY OwnDays
<1>2. PICK i \in 0..days, m \in 0..(Day - 1), r \in WorkingRanges :
        /\ s.start = first + i * Day + m
        /\ s.end = first + i * Day + m + availability.duration
        /\ m + availability.duration < Day
  BY <1>1, OwnSlot
<1>3. first \in Int /\ availability.duration \in Nat
  BY <1>1, CalendarAssumption, SettingsTyped DEF TypeOK
<1>4. PICK k \in Nat : k = i * Day
  BY DayAssumption
<1>5. k + Day <= (days + 1) * Day
  <2>1. CASE days = 0
    BY <1>2, <1>4, <2>1, DayAssumption
  <2>2. CASE days = 1
    BY <1>2, <1>4, <2>2, DayAssumption
  <2> QED
    BY <2>1, <2>2
<1>6. PICK all \in Nat : all = (days + 1) * Day
  BY DayAssumption
<1>7. first <= s.start /\ s.end < first + all /\ s.start \in Int /\ s.end \in Int
  BY <1>2, <1>3, <1>4, <1>5, <1>6, DayAssumption
<1>8. x.start \in Int /\ x.end \in Int
  BY BusySpans
<1>9. x.start < first + all /\ x.end >= first
  BY <1>3, <1>7, <1>8 DEF Overlap
<1>10. TouchesRange(x, first, days)
  BY <1>6, <1>9 DEF TouchesRange
<1>11. ~Overlap(s, x)
  BY <1>10 DEF Shown, GetSlots, ClearOf
<1> QED
  BY <1>7, <1>8, <1>11 DEF Overlap

LEMMA ShownFit == TypeOK => SlotsFitWorkDay
<1> SUFFICES ASSUME TypeOK PROVE SlotsFitWorkDay
  OBVIOUS
<1> DEFINE a == availability
<1>1. /\ a \in Settings /\ a.duration \in Nat \ {0} /\ a.buffer \in Nat
      /\ a.zone \in Int
  BY CalendarAssumption, SettingsTyped DEF TypeOK
<1>2. ASSUME NEW first \in UtcDays \union OwnMidnights, NEW s \in Shown(first, 1)
      PROVE  s.end > now /\ WorksDuring(a, s)
  <2>1. first \in Int
    <3>1. \A d \in UtcDays : Midnight(d, a.zone) \in Int
      BY <1>1, MidnightIsInt, CalendarAssumption
    <3> QED
      BY <3>1, CalendarAssumption DEF OwnMidnights
  <2>2. s \in Listed(a, first, 1, now)
    BY <1>2 DEF Shown, GetSlots
  <2>3. s.end > now
    BY <2>2 DEF Listed
  <2>4. PICK i \in 0..1, q \in Int, m \in 0..(Day - 1), r \in WorkingRanges :
          IsIn(a, q, s, m, r)
    BY <1>1, <2>1, <2>2, ListedIsIn
  <2> QED
    BY <1>1, <2>3, <2>4, InIsWork
<1>3. ASSUME NEW first \in OwnMidnights, OneRangeADay,
             NEW s \in Shown(first, 1), NEW t \in Shown(first, 1),
             s.start < t.start, WorksDuring(a, Span(s.start, t.end))
      PROVE  s.end + a.buffer <= t.start
  <2>1. PICK Q \in Int :
          /\ first = Begins(a, Q)
          /\ \A i \in 0..1 : /\ (first + i * Day + a.zone) \div Day = Q + i
                             /\ Begins(a, Q + i) = first + i * Day
    BY <1>3, OwnDays
  <2>2. PICK i \in 0..1, m \in 0..(Day - 1), r \in WorkingRanges :
          /\ IsIn(a, Q + i, s, m, r)
          /\ s.start = first + i * Day + m
          /\ s.end = first + i * Day + m + a.duration
          /\ m + a.duration < Day
    BY <1>3, <2>1, OwnSlot
  <2>3. PICK j \in 0..1, n \in 0..(Day - 1), p \in WorkingRanges :
          /\ IsIn(a, Q + j, t, n, p)
          /\ t.start = first + j * Day + n
          /\ t.end = first + j * Day + n + a.duration
          /\ n + a.duration < Day
    BY <1>3, <2>1, OwnSlot
  <2>4. first \in Int
    BY <1>1, <2>1, SettingsTyped
  <2>5. CASE i = j
    <3>1. PICK k \in Nat : k = i * Day
      BY DayAssumption
    <3>2. m < n
      BY <1>3, <2>2, <2>3, <2>4, <2>5, <3>1
    <3>3. r = p
      <4>1. (Q + i) % 7 \in 0..6
        OBVIOUS
      <4> QED
        BY <1>3, <2>2, <2>3, <2>5, <4>1 DEF IsIn, OneRangeADay
    <3>4. r.start \in Nat /\ r.start <= m /\ r.start <= n
      BY <2>2, <2>3, <3>3, DayAssumption DEF IsIn, WorkingRanges
    <3>5. PICK step \in Nat \ {0} : step = a.duration + a.buffer
      BY <1>1
    <3>6. (m - r.start) % step = 0 /\ (n - r.start) % step = 0
      BY <2>2, <2>3, <3>3, <3>5 DEF IsIn
    <3>7. m - r.start \in Nat /\ n - r.start \in Nat /\ m - r.start < n - r.start
      BY <3>2, <3>4
    <3>8. (m - r.start) + step <= n - r.start
      BY <3>6, <3>7, StepApart
    <3>9. m + a.duration + a.buffer <= n
      BY <1>1, <3>4, <3>5, <3>8
    <3> QED
      BY <1>1, <2>2, <2>3, <2>4, <2>5, <3>1, <3>9
  <2>6. CASE i = 0 /\ j = 1
    <3> DEFINE u == first + Day - 1
    <3>1. i * Day = 0 /\ j * Day = Day
      BY <2>6, DayAssumption
    <3>2. u \in s.start..(t.end - 1)
      BY <1>1, <2>2, <2>3, <2>4, <3>1, DayAssumption
    <3>3. WorksAt(a, u)
      BY <1>3, <3>2 DEF WorksDuring, Span
    <3>4. (u + a.zone) \div Day = Q /\ (u + a.zone) % Day = Day - 1
      <4>1. Day - 1 \in 0..(Day - 1) /\ u \in Int /\ u = Begins(a, Q) + (Day - 1)
        BY <2>1, <2>4, DayAssumption
      <4> QED
        BY <1>1, <4>1, BeginsDay
    <3>5. PICK w \in a.weekly[Q % 7] : Day - 1 < w.end
      BY <3>3, <3>4 DEF WorksAt, Weekday
    <3>6. w \in WorkingRanges
      BY <1>1, SettingsTyped
    <3> QED
      BY <3>5, <3>6, DayAssumption DEF WorkingRanges
  <2>7. CASE i = 1 /\ j = 0
    <3>1. i * Day = Day /\ j * Day = 0
      BY <2>7, DayAssumption
    <3> QED
      BY <1>1, <1>3, <2>2, <2>3, <2>4, <3>1, DayAssumption
  <2> QED
    BY <2>5, <2>6, <2>7
<1> QED
  BY <1>2, <1>3 DEF SlotsFitWorkDay

\* Whatever bookings, blackouts and settings there are: no slot that getSlots() shows
\* for the provider's own days overlaps one that is taken.
THEOREM ShownSlotsAreNotTaken == Spec => []ShownSlotsAreFree
BY TypeCorrect, ShownAreFree, PTL

\* For every day length, zone and settings: a slot lies wholly in the working hours of
\* its local weekday, and two of one working range are the buffer apart.
THEOREM ShownSlotsFit == Spec => []SlotsFitWorkDay
BY TypeCorrect, ShownFit, PTL
=============================================================================
