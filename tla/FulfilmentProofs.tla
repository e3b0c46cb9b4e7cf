-------------------------- MODULE FulfilmentProofs --------------------------
(* Theorems about Fulfilment running beside Matching, and about the cards, *)
(* lists and histories made from both, for every set of requests, offers,  *)
(* bookings, handlers and tasks.                                           *)
EXTENDS WorkspaceCards, PartyLists, BookingHistory, MatchingProofs,
        FiniteSetTheorems, WellFoundedInduction

-----------------------------------------------------------------------------
(* Type correctness. *)

LEMMA TaskTyping ==
  ASSUME MarketTypeOK, NEW t \in Tasks
  PROVE  /\ task[t].at \in ContractSteps => task[t].on \in Offers
         /\ task[t].at = "cancel.save" => task[t].on \in Bookings
BY DEF MarketTypeOK, Task, ContractSteps

LEMMA BeginTyped ==
  ASSUME MarketTypeOK, NEW t \in Tasks, NEW step, NEW subject,
         Begin(t, step, subject),
         \/ step \in ContractSteps /\ subject \in Offers
         \/ step = "cancel.save" /\ subject \in Bookings
  PROVE  task' \in [Tasks -> Task]
BY DEF MarketTypeOK, Begin, Task

LEMMA FinishTyped ==
  ASSUME MarketTypeOK, NEW t \in Tasks, Finish(t)
  PROVE  task' \in [Tasks -> Task]
BY DEF MarketTypeOK, Finish, Task, Rest

LEMMA ProceedTyped ==
  ASSUME MarketTypeOK, NEW t \in Tasks, NEW step, Proceed(t, step),
         task[t].at \in ContractSteps, step \in ContractSteps
  PROVE  task' \in [Tasks -> Task]
<1> DEFINE j == [task[t] EXCEPT !.at = step]
<1>1. task[t] \in [at: ContractSteps, on: Offers]
  BY DEF MarketTypeOK, Task, ContractSteps
<1>2. j \in [at: ContractSteps, on: Offers]
  BY <1>1
<1> QED
  BY <1>2 DEF MarketTypeOK, Proceed, Task

LEMMA ConfirmedTyped ==
  ASSUME NEW o \in Offers, NEW c \in Offers \union {None},
         NEW from \in Bookings \union {None}
  PROVE  Confirmed(o, c, from) \in BookingDoc
BY DEF Confirmed, BookingDoc

LEMMA InsertTyped ==
  ASSUME MarketTypeOK, NEW o \in Offers, NEW c \in Offers \union {None},
         NEW b \in Bookings, Insert(b, o, c)
  PROVE  booking' \in [Bookings -> BookingDoc]
BY ConfirmedTyped DEF Insert, MarketTypeOK

LEMMA SetBookingStatusTyped ==
  ASSUME MarketTypeOK, NEW b \in Bookings,
         NEW status \in {"cancelled", "completed"}, SetBookingStatus(b, status)
  PROVE  booking' \in [Bookings -> BookingDoc]
<1> DEFINE doc == [booking[b] EXCEPT !.status = status]
<1>1. booking[b] \in BookingDoc
  BY DEF MarketTypeOK
<1>2. doc \in BookingDoc
  BY <1>1 DEF BookingDoc
<1> QED
  BY <1>2 DEF SetBookingStatus, MarketTypeOK

LEMMA MarketInitTyped == MarketInit => MarketTypeOK
<1> SUFFICES ASSUME MarketInit PROVE MarketTypeOK
  OBVIOUS
<1>1. NoBooking \in BookingDoc
  BY DEF NoBooking, BookingDoc
<1> QED
  BY <1>1, InitTyped
     DEF MarketInit, FulfilmentInit, MarketTypeOK, Task, Rest

LEMMA RescheduleTyped ==
  ASSUME MarketTypeOK, NEW b \in Bookings, RescheduleBooking(b)
  PROVE  MarketTypeOK'
<1> DEFINE o == booking[b].offer
<1>1. PICK n \in Bookings :
        booking' = [booking EXCEPT
                      ![b] = [@ EXCEPT !.status = "cancelled", !.to = n],
                      ![n] = Confirmed(o, None, b)]
  BY DEF RescheduleBooking
<1>2. booking[b] \in BookingDoc
  BY DEF MarketTypeOK
<1>3. [booking[b] EXCEPT !.status = "cancelled", !.to = n] \in BookingDoc
  BY <1>2 DEF BookingDoc
<1>4. Confirmed(o, None, b) \in BookingDoc
  BY <1>2 DEF Confirmed, BookingDoc
<1>5. booking' \in [Bookings -> BookingDoc]
  BY <1>1, <1>3, <1>4 DEF MarketTypeOK
<1> QED
  BY <1>5 DEF RescheduleBooking, MarketTypeOK, TypeOK

LEMMA BookingCallTyped ==
  ASSUME MarketTypeOK, BookingCall
  PROVE  MarketTypeOK'
<1>1. ASSUME NEW o \in Offers, NEW c \in Offers \union {None}, BookDirectly(o, c)
      PROVE  MarketTypeOK'
  <2>1. booking' \in [Bookings -> BookingDoc]
    BY <1>1, InsertTyped DEF BookDirectly
  <2> QED
    BY <1>1, <2>1 DEF BookDirectly, MarketTypeOK, TypeOK
<1>2. ASSUME NEW b \in Bookings, CancelBookingAtomic(b) \/ FinishBooking(b)
      PROVE  MarketTypeOK'
  <2>1. booking' \in [Bookings -> BookingDoc]
    BY <1>2, SetBookingStatusTyped DEF CancelBookingAtomic, FinishBooking
  <2> QED
    BY <1>2, <2>1 DEF CancelBookingAtomic, FinishBooking, MarketTypeOK, TypeOK
<1> QED
  BY <1>1, <1>2, RescheduleTyped DEF BookingCall

LEMMA TaskCallTyped ==
  ASSUME MarketTypeOK, NEW t \in Tasks, TaskCall(t)
  PROVE  MarketTypeOK'
<1>1. task' \in [Tasks -> Task]
  BY BeginTyped DEF TaskCall, ConfirmRead, CompleteRead, CancelBookingRead,
                    ContractSteps
<1>2. UNCHANGED <<request, offer, contract, job, booking>>
  BY DEF TaskCall, ConfirmRead, CompleteRead, CancelBookingRead
<1> QED
  BY <1>1, <1>2 DEF MarketTypeOK, TypeOK

LEMMA TaskResumeTyped ==
  ASSUME MarketTypeOK, NEW t \in Tasks, TaskResume(t)
  PROVE  MarketTypeOK'
<1> DEFINE o == task[t].on
           r == RequestOf[o]
<1>1. offer' = offer /\ job' = job
  BY DEF TaskResume, ConfirmBook, ConfirmContract, ConfirmRequest,
         CompleteContract, CompleteBooking, CompleteRequest, CancelBookingSave
<1>2. CASE ConfirmBook(t)
  <2>1. o \in Offers
    BY <1>2, TaskTyping DEF ConfirmBook, Stage, ContractSteps
  <2>2. booking' \in [Bookings -> BookingDoc]
    BY <1>2, <2>1, InsertTyped DEF ConfirmBook, MarketTypeOK
  <2>3. task' \in [Tasks -> Task]
    BY <1>2, ProceedTyped, FinishTyped DEF ConfirmBook, Stage, ContractSteps
  <2> QED
    BY <1>1, <1>2, <2>2, <2>3 DEF ConfirmBook, MarketTypeOK, TypeOK
<1>3. CASE ConfirmContract(t) \/ CompleteContract(t)
  <2>1. o \in Offers
    BY <1>3, TaskTyping
       DEF ConfirmContract, CompleteContract, Stage, ContractSteps
  <2>2. contract[o] \in ContractDoc
    BY <2>1 DEF MarketTypeOK, TypeOK
  <2>3. /\ [contract[o] EXCEPT !.status = "confirmed"] \in ContractDoc
        /\ [contract[o] EXCEPT !.status = "completed"] \in ContractDoc
    BY <2>2 DEF ContractDoc
  <2>4. contract' \in [Offers -> ContractDoc]
    BY <1>3, <2>3 DEF ConfirmContract, CompleteContract, MarketTypeOK, TypeOK
  <2>5. task' \in [Tasks -> Task]
    BY <1>3, ProceedTyped
       DEF ConfirmContract, CompleteContract, Stage, ContractSteps
  <2> QED
    BY <1>1, <1>3, <2>4, <2>5
       DEF ConfirmContract, CompleteContract, MarketTypeOK, TypeOK
<1>4. CASE ConfirmRequest(t) \/ CompleteRequest(t)
  <2>1. o \in Offers /\ r \in Requests
    BY <1>4, TaskTyping, ConstantsAssumption
       DEF ConfirmRequest, CompleteRequest, Stage, ContractSteps
  <2>2. request[r] \in RequestDoc
    BY <2>1 DEF MarketTypeOK, TypeOK
  <2>3. /\ [request[r] EXCEPT !.status = "matched", !.contract = o] \in RequestDoc
        /\ [request[r] EXCEPT !.status = "closed"] \in RequestDoc
    BY <2>1, <2>2 DEF RequestDoc, RequestStatus
  <2>4. request' \in [Requests -> RequestDoc]
    BY <1>4, <2>3 DEF ConfirmRequest, CompleteRequest, MarketTypeOK, TypeOK
  <2>5. task' \in [Tasks -> Task]
    BY <1>4, FinishTyped DEF ConfirmRequest, CompleteRequest
  <2> QED
    BY <1>1, <1>4, <2>4, <2>5
       DEF ConfirmRequest, CompleteRequest, MarketTypeOK, TypeOK
<1>5. CASE CompleteBooking(t)
  <2>1. booking' \in [Bookings -> BookingDoc]
    BY <1>5, SetBookingStatusTyped DEF CompleteBooking, MarketTypeOK
  <2>2. task' \in [Tasks -> Task]
    BY <1>5, ProceedTyped, FinishTyped DEF CompleteBooking, Stage, ContractSteps
  <2> QED
    BY <1>1, <1>5, <2>1, <2>2 DEF CompleteBooking, MarketTypeOK, TypeOK
<1>6. CASE CancelBookingSave(t)
  <2>1. task[t].on \in Bookings
    BY <1>6, TaskTyping DEF CancelBookingSave, Stage
  <2>2. booking' \in [Bookings -> BookingDoc]
    BY <1>6, <2>1, SetBookingStatusTyped DEF CancelBookingSave
  <2> QED
    BY <1>1, <1>6, <2>2, FinishTyped DEF CancelBookingSave, MarketTypeOK, TypeOK
<1> QED
  BY <1>2, <1>3, <1>4, <1>5, <1>6 DEF TaskResume

LEMMA MarketNextTyped == MarketTypeOK /\ [MarketNext]_marketVars => MarketTypeOK'
<1> SUFFICES ASSUME MarketTypeOK, [MarketNext]_marketVars PROVE MarketTypeOK'
  OBVIOUS
<1>1. CASE Next /\ UNCHANGED <<booking, task>>
  BY <1>1, NextTyped DEF MarketTypeOK
<1>2. ASSUME NEW t \in Tasks, TaskFail(t) PROVE MarketTypeOK'
  BY <1>2, FinishTyped DEF TaskFail, MarketTypeOK, TypeOK
<1>3. CASE UNCHANGED marketVars
  BY <1>3 DEF marketVars, MarketTypeOK, TypeOK
<1> QED
  BY <1>1, <1>2, <1>3, BookingCallTyped, TaskCallTyped, TaskResumeTyped
     DEF MarketNext, FulfilmentStep

\* Every document and every job and task in flight keeps its shape.
THEOREM MarketTypeCorrect == MarketSpec => []MarketTypeOK
BY MarketInitTyped, MarketNextTyped, PTL DEF MarketSpec

-----------------------------------------------------------------------------
(* A contract that has ended stays ended. *)

Ended(c) == c.status \in {"completed", "cancelled"}

\* What the steps of Matching do to the contracts: they form them, pending, and
\* cancel them.
LEMMA ContractWrites ==
  ASSUME TypeOK, [Next]_vars, NEW o \in Offers
  PROVE  \/ contract'[o] = contract[o]
         \/ contract[o].status = "none" /\ contract'[o].status = "pending"
         \/ contract'[o].status = "cancelled"
<1>1. contract \in [Offers -> ContractDoc] /\ contract[o] \in ContractDoc
  BY DEF TypeOK
<1>2. ASSUME NEW h \in Handlers, AcceptContract(h)
      PROVE  \/ contract'[o] = contract[o]
             \/ contract[o].status = "none" /\ contract'[o].status = "pending"
  BY <1>1, <1>2 DEF AcceptContract
<1>3. ASSUME NEW h \in Handlers, CancelWrite(h)
      PROVE  contract'[o] = contract[o] \/ contract'[o].status = "cancelled"
  <2>1. \/ contract'[o] = contract[o]
        \/ contract'[o] = [contract[o] EXCEPT !.status = "cancelled"]
    BY <1>1, <1>3 DEF CancelWrite
  <2> QED
    BY <1>1, <2>1 DEF ContractDoc
<1> QED
  BY <1>2, <1>3, ContractActions

LEMMA EndedStep ==
  ASSUME MarketTypeOK, [MarketNext]_marketVars, NEW o \in Offers,
         Ended(contract[o])
  PROVE  Ended(contract[o])'
<1>1. contract \in [Offers -> ContractDoc] /\ contract[o] \in ContractDoc
  BY DEF MarketTypeOK, TypeOK
<1>2. CASE Next
  BY <1>2, ContractWrites DEF MarketTypeOK, Ended
<1>3. ASSUME NEW t \in Tasks, ConfirmContract(t) PROVE contract'[o] = contract[o]
  BY <1>1, <1>3 DEF ConfirmContract, Ended
<1>4. ASSUME NEW t \in Tasks, CompleteContract(t) PROVE Ended(contract[o])'
  <2>1. \/ contract'[o] = contract[o]
        \/ contract'[o] = [contract[o] EXCEPT !.status = "completed"]
    BY <1>1, <1>4 DEF CompleteContract
  <2> QED
    BY <1>1, <2>1 DEF ContractDoc, Ended
<1>5. ASSUME NEW t \in Tasks, TaskCall(t) \/ TaskResume(t) \/ TaskFail(t)
      PROVE  contract' = contract \/ ConfirmContract(t) \/ CompleteContract(t)
  BY <1>5 DEF TaskCall, ConfirmRead, CompleteRead, CancelBookingRead, TaskResume,
              ConfirmBook, ConfirmRequest, CompleteBooking, CompleteRequest,
              CancelBookingSave, TaskFail
<1>6. ASSUME BookingCall PROVE contract' = contract
  BY <1>6 DEF BookingCall, BookDirectly, CancelBookingAtomic, FinishBooking,
              RescheduleBooking
<1>7. CASE UNCHANGED marketVars
  BY <1>7 DEF marketVars, Ended
<1> QED
  BY <1>2, <1>3, <1>4, <1>5, <1>6, <1>7 DEF MarketNext, FulfilmentStep, Ended

\* No contract comes back to life, however its confirmation, completion and
\* cancellation overlap.
THEOREM EndedContractsStayEnded == MarketSpec => EndedStaysEnded
<1> DEFINE Keeps == \A o \in Offers :
                      contract[o].status \in {"completed", "cancelled"}
                        => contract'[o].status \in {"completed", "cancelled"}
<1>1. MarketTypeOK /\ [MarketNext]_marketVars => [Keeps]_marketVars
  BY EndedStep DEF Ended
<1> QED
  BY MarketInitTyped, MarketNextTyped, <1>1, PTL DEF MarketSpec, EndedStaysEnded

-----------------------------------------------------------------------------
(* The four ways the bookings collection is written. *)

\* The write of reschedule(): n takes the place of b.
Replaced(b, n) ==
  /\ b # n /\ booking[b].status = "confirmed" /\ booking[n].status = "absent"
  /\ NoOtherActive(booking[b].offer, {b, n})
  /\ booking' = [booking EXCEPT
                   ![b] = [@ EXCEPT !.status = "cancelled", !.to = n],
                   ![n] = Confirmed(booking[b].offer, None, b)]

\* A completion leaves b active, or finds nothing else active on the request of the
\* contract.
MayComplete(b) ==
  Active(b) \/ \E o \in Offers : booking[b].contract = o /\ NoOtherActive(o, {b})

BookingWrite ==
  \/ booking' = booking
  \/ \E b \in Bookings : \E o \in Offers : \E c \in {None, o} : Insert(b, o, c)
  \/ \E b \in Bookings : \E status \in {"cancelled", "completed"} :
       /\ booking[b].status # "absent" /\ SetBookingStatus(b, status)
       /\ status = "completed" => MayComplete(b)
  \/ \E b, n \in Bookings : Replaced(b, n)

LEMMA EveryBookingWrite ==
  ASSUME MarketTypeOK, FulfilmentInv, [MarketNext]_marketVars
  PROVE  BookingWrite
<1>1. ASSUME BookingCall PROVE BookingWrite
  <2>1. ASSUME NEW b \in Bookings, RescheduleBooking(b) PROVE BookingWrite
    <3>1. PICK n \in Bookings :
            /\ booking[n].status = "absent" /\ booking[b].status = "confirmed"
            /\ NoOtherActive(booking[b].offer, {b, n})
            /\ booking' = [booking EXCEPT
                             ![b] = [@ EXCEPT !.status = "cancelled", !.to = n],
                             ![n] = Confirmed(booking[b].offer, None, b)]
      BY <2>1 DEF RescheduleBooking
    <3>2. Replaced(b, n)
      BY <3>1 DEF Replaced
    <3> QED
      BY <3>2 DEF BookingWrite
  <2> QED
    BY <1>1, <2>1 DEF BookingCall, BookDirectly, CancelBookingAtomic,
                      FinishBooking, BookingWrite, MayComplete, Active
<1>2. ASSUME NEW t \in Tasks, TaskResume(t) PROVE BookingWrite
  <2>1. CASE ConfirmBook(t)
    <3>1. task[t].on \in Offers
      BY <2>1, TaskTyping DEF ConfirmBook, Stage, ContractSteps
    <3> QED
      BY <2>1, <3>1 DEF ConfirmBook, BookingWrite
  <2>2. CASE CompleteBooking(t)
    <3>1. \A b \in Bookings :
            booking[b].contract = task[t].on => booking[b].status # "absent"
      <4>1. task[t].on # None
        BY <2>2, TaskTyping, ConstantsAssumption
           DEF CompleteBooking, Stage, ContractSteps
      <4> QED
        BY <4>1 DEF FulfilmentInv, BookingsWellFormed, NoBooking
    <3>2. task[t].on \in Offers
      BY <2>2, TaskTyping DEF CompleteBooking, Stage, ContractSteps
    <3>3. ASSUME NEW b \in Bookings, booking[b].contract = task[t].on,
                 NoOtherActive(task[t].on, {b})
          PROVE  booking[b].status # "absent" /\ MayComplete(b)
      BY <3>1, <3>2, <3>3 DEF MayComplete
    <3> QED
      BY <2>2, <3>3 DEF CompleteBooking, BookingWrite
  <2>3. CASE CancelBookingSave(t)
    <3>1. task[t].on \in Bookings /\ booking[task[t].on].status # "absent"
      BY <2>3, TaskTyping
         DEF CancelBookingSave, Stage, FulfilmentInv, BookingsWellFormed
    <3> QED
      BY <2>3, <3>1 DEF CancelBookingSave, BookingWrite
  <2> QED
    BY <1>2, <2>1, <2>2, <2>3
       DEF TaskResume, ConfirmContract, ConfirmRequest, CompleteContract,
           CompleteRequest, BookingWrite
<1>3. ASSUME NEW t \in Tasks, TaskCall(t) \/ TaskFail(t) PROVE booking' = booking
  BY <1>3 DEF TaskCall, TaskFail, ConfirmRead, CompleteRead, CancelBookingRead
<1>4. CASE UNCHANGED marketVars
  BY <1>4 DEF marketVars, BookingWrite
<1> QED
  BY <1>1, <1>2, <1>3, <1>4 DEF MarketNext, FulfilmentStep, BookingWrite

\* What a write leaves in one document.
LEMMA InsertEffect ==
  ASSUME MarketTypeOK, NEW b \in Bookings, NEW o \in Offers,
         NEW c \in Offers \union {None}, Insert(b, o, c)
  PROVE  /\ booking[b].status = "absent"
         /\ booking'[b].status = "confirmed" /\ booking'[b].contract = c
         /\ booking'[b].offer = o
         /\ booking'[b].from = None /\ booking'[b].to = None
         /\ \A x \in Bookings \ {b} : booking'[x] = booking[x]
<1>1. /\ booking[b].status = "absent"
      /\ booking'[b] = Confirmed(o, c, None)
      /\ \A x \in Bookings \ {b} : booking'[x] = booking[x]
  BY DEF Insert, Insertable, MarketTypeOK
<1> QED
  BY <1>1 DEF Confirmed

LEMMA SetBookingStatusEffect ==
  ASSUME MarketTypeOK, NEW b \in Bookings, NEW status, SetBookingStatus(b, status)
  PROVE  /\ booking'[b].status = status
         /\ booking'[b].from = booking[b].from /\ booking'[b].to = booking[b].to
         /\ booking'[b].contract = booking[b].contract
         /\ booking'[b].offer = booking[b].offer
         /\ \A x \in Bookings \ {b} : booking'[x] = booking[x]
<1>1. booking \in [Bookings -> BookingDoc] /\ booking[b] \in BookingDoc
  BY DEF MarketTypeOK
<1>2. /\ booking'[b] = [booking[b] EXCEPT !.status = status]
      /\ \A x \in Bookings \ {b} : booking'[x] = booking[x]
  BY <1>1 DEF SetBookingStatus
<1> QED
  BY <1>1, <1>2 DEF BookingDoc

LEMMA ReplacedEffect ==
  ASSUME MarketTypeOK, NEW b \in Bookings, NEW n \in Bookings, Replaced(b, n)
  PROVE  /\ booking'[b].status = "cancelled" /\ booking'[b].to = n
         /\ booking'[b].from = booking[b].from
         /\ booking'[b].contract = booking[b].contract
         /\ booking'[b].offer = booking[b].offer
         /\ booking'[n].status = "confirmed" /\ booking'[n].contract = None
         /\ booking'[n].offer = booking[b].offer
         /\ booking'[n].from = b /\ booking'[n].to = None
         /\ \A x \in Bookings \ {b, n} : booking'[x] = booking[x]
<1>1. booking \in [Bookings -> BookingDoc] /\ booking[b] \in BookingDoc
  BY DEF MarketTypeOK
<1>2. /\ booking'[b] = [booking[b] EXCEPT !.status = "cancelled", !.to = n]
      /\ booking'[n] = Confirmed(booking[b].offer, None, b)
      /\ \A x \in Bookings \ {b, n} : booking'[x] = booking[x]
  BY <1>1 DEF Replaced
<1> QED
  BY <1>1, <1>2 DEF BookingDoc, Confirmed

\* A document once inserted stays, with the contract it was made for.
LEMMA BookingsStay ==
  ASSUME MarketTypeOK, BookingsWellFormed, BookingWrite
  PROVE  /\ \A b \in Bookings : booking[b].status # "absent" =>
              /\ booking'[b].status # "absent"
              /\ booking'[b].contract = booking[b].contract
         /\ \A b \in Bookings : booking[b].status = "absent" =>
              booking'[b] = booking[b] \/ booking'[b].status # "absent"
<1>1. CASE booking' = booking
  BY <1>1
<1>2. ASSUME NEW b \in Bookings, NEW o \in Offers,
             NEW c \in Offers \union {None}, Insert(b, o, c)
      PROVE  /\ booking[b].status = "absent" /\ booking'[b].status # "absent"
             /\ \A x \in Bookings \ {b} : booking'[x] = booking[x]
  BY <1>2, InsertEffect
<1>3. ASSUME NEW b \in Bookings, NEW status \in {"cancelled", "completed"},
             booking[b].status # "absent", SetBookingStatus(b, status)
      PROVE  /\ booking'[b].status # "absent"
             /\ booking'[b].contract = booking[b].contract
             /\ \A x \in Bookings \ {b} : booking'[x] = booking[x]
  BY <1>3, SetBookingStatusEffect
<1>4. ASSUME NEW b \in Bookings, NEW n \in Bookings, Replaced(b, n)
      PROVE  /\ booking[b].status # "absent" /\ booking'[b].status # "absent"
             /\ booking'[b].contract = booking[b].contract
             /\ booking[n].status = "absent" /\ booking'[n].status # "absent"
             /\ \A x \in Bookings \ {b, n} : booking'[x] = booking[x]
  <2>1. booking[b].status # "absent" /\ booking[n].status = "absent"
    BY <1>4 DEF Replaced
  <2> QED
    BY <1>4, <2>1, ReplacedEffect
<1> QED
  BY <1>1, <1>2, <1>3, <1>4 DEF BookingWrite

LEMMA BookedForever ==
  ASSUME MarketTypeOK, BookingsWellFormed, BookingWrite,
         NEW c \in Offers, ContractHasBooking(c)
  PROVE  ContractHasBooking(c)'
<1>1. PICK b \in Bookings : booking[b].contract = c
  BY DEF ContractHasBooking
<1>2. booking[b].status # "absent"
  BY <1>1, ConstantsAssumption DEF BookingsWellFormed, NoBooking
<1> QED
  BY <1>1, <1>2, BookingsStay DEF ContractHasBooking

-----------------------------------------------------------------------------
(* The history of a booking. *)

LEMMA SameLinks ==
  ASSUME HistoryIsAChain,
         \A b \in Bookings : /\ booking'[b].from = booking[b].from
                             /\ booking'[b].to = booking[b].to
                             /\ booking[b].to # None /\ booking'[b].status = "confirmed"
                                  => booking[b].status = "confirmed",
         \A b \in Bookings : /\ booking[b].to \in Bookings \union {None}
                             /\ booking[b].from \in Bookings \union {None}
  PROVE  HistoryIsAChain'
<1>1. ASSUME NEW b \in Bookings, booking'[b].to # None
      PROVE  booking'[booking'[b].to].from = b /\ booking'[b].status # "confirmed"
  BY <1>1 DEF HistoryIsAChain
<1>2. ASSUME NEW b \in Bookings, booking'[b].from # None
      PROVE  booking'[booking'[b].from].to = b
  BY <1>2 DEF HistoryIsAChain
<1>3. ASSUME NEW S \in (SUBSET Bookings) \ {{}}
      PROVE  \E b \in S : booking'[b].from \notin S
  BY <1>3 DEF HistoryIsAChain
<1> QED
  BY <1>1, <1>2, <1>3 DEF HistoryIsAChain

LEMMA ReplacedKeepsChain ==
  ASSUME MarketTypeOK, BookingsWellFormed, HistoryIsAChain,
         NEW b \in Bookings, NEW n \in Bookings, Replaced(b, n)
  PROVE  HistoryIsAChain'
<1>1. /\ b # n /\ booking[b].to = None
      /\ booking[n].to = None /\ booking[n].from = None
  BY DEF Replaced, HistoryIsAChain, BookingsWellFormed, NoBooking
<1>2. \A x \in Bookings : /\ booking[x].to \in Bookings \union {None}
                          /\ booking[x].from \in Bookings \union {None}
  BY DEF MarketTypeOK, BookingDoc
<1>3. /\ \A x \in Bookings : booking[x].to # None => booking[booking[x].to].from = x
      /\ \A x \in Bookings : booking[x].from # None => booking[booking[x].from].to = x
      /\ \A x \in Bookings : booking[x].to # None => booking[x].status # "confirmed"
  BY DEF HistoryIsAChain
<1>4. ASSUME NEW x \in Bookings, booking'[x].to # None
      PROVE  booking'[booking'[x].to].from = x /\ booking'[x].status # "confirmed"
  <2>1. CASE x = b
    BY <2>1, ReplacedEffect
  <2>2. CASE x \notin {b, n}
    <3>1. /\ booking'[x] = booking[x]
          /\ booking[x].to \in Bookings \ {n}
          /\ booking[booking[x].to].from = x
      BY <1>1, <1>2, <1>3, <1>4, <2>2, ReplacedEffect, BookingsAssumption
    <3> QED
      BY <1>3, <1>4, <3>1, ReplacedEffect
  <2> QED
    BY <1>4, <2>1, <2>2, ReplacedEffect
<1>5. ASSUME NEW x \in Bookings, booking'[x].from # None
      PROVE  booking'[booking'[x].from].to = x
  <2>1. CASE x = n
    BY <2>1, ReplacedEffect
  <2>2. CASE x # n
    <3>1. booking'[x].from = booking[x].from
      BY <2>2, ReplacedEffect
    <3>2. booking[x].from \in Bookings /\ booking[booking[x].from].to = x
      BY <1>2, <1>3, <1>5, <3>1
    <3>3. booking[x].from \notin {b, n}
      BY <1>1, <3>2, BookingsAssumption
    <3> QED
      BY <3>1, <3>2, <3>3, ReplacedEffect
  <2> QED
    BY <2>1, <2>2
<1>6. ASSUME NEW S \in (SUBSET Bookings) \ {{}}
      PROVE  \E x \in S : booking'[x].from \notin S
  <2>1. \A x \in Bookings \ {n} : booking'[x].from = booking[x].from
    BY ReplacedEffect
  <2>2. \A x \in Bookings : booking[x].from # n
    BY <1>1, <1>3, BookingsAssumption
  <2>3. CASE S = {n}
    BY <1>1, <2>3, ReplacedEffect
  <2>4. CASE S # {n}
    <3>1. S \ {n} \in (SUBSET Bookings) \ {{}}
      BY <1>6, <2>4
    <3>2. PICK x \in S \ {n} : booking[x].from \notin S \ {n}
      BY <3>1 DEF HistoryIsAChain
    <3>3. booking'[x].from \notin S
      BY <1>6, <2>1, <2>2, <3>2
    <3> QED
      BY <3>3
  <2> QED
    BY <2>3, <2>4
<1> QED
  BY <1>4, <1>5, <1>6 DEF HistoryIsAChain

LEMMA ChainKept ==
  ASSUME MarketTypeOK, BookingsWellFormed, HistoryIsAChain, BookingWrite
  PROVE  HistoryIsAChain'
<1>1. \A x \in Bookings : /\ booking[x].to \in Bookings \union {None}
                          /\ booking[x].from \in Bookings \union {None}
  BY DEF MarketTypeOK, BookingDoc
<1>2. CASE booking' = booking
  BY <1>2 DEF HistoryIsAChain
<1>3. ASSUME NEW b \in Bookings, NEW o \in Offers,
             NEW c \in Offers \union {None}, Insert(b, o, c)
      PROVE  HistoryIsAChain'
  <2>1. booking[b].from = None /\ booking[b].to = None
    BY <1>3, InsertEffect DEF BookingsWellFormed, NoBooking
  <2>2. booking'[b].from = None /\ booking'[b].to = None
    BY <1>3, InsertEffect
  <2> QED
    BY <1>1, <1>3, <2>1, <2>2, InsertEffect, SameLinks
<1>4. ASSUME NEW b \in Bookings, NEW status \in {"cancelled", "completed"},
             SetBookingStatus(b, status)
      PROVE  HistoryIsAChain'
  BY <1>1, <1>4, SetBookingStatusEffect, SameLinks
<1> QED
  BY <1>2, <1>3, <1>4, ReplacedKeepsChain DEF BookingWrite

-----------------------------------------------------------------------------
(* Bookings behind contracts and requests. *)

\* What the steps of Matching do to a request: none makes it matched or closed,
\* and none takes a matched one's contract away without changing its status.
LEMMA RequestWrites ==
  ASSUME TypeOK, [Next]_vars, NEW r \in Requests,
         request'[r].status \in {"matched", "closed"}
  PROVE  /\ request[r].status \in {"matched", "closed"}
         /\ \/ request'[r].contract = request[r].contract
            \/ request[r].contract = None
<1> DEFINE doc == request[r]
           Same == request' = request
           New == request'[r]
<1>1. request \in [Requests -> RequestDoc] /\ doc \in RequestDoc
  BY DEF TypeOK
<1>2. ASSUME NEW h \in Handlers, AcceptLock(h) PROVE New = doc
  <2>1. New = doc \/ New = [doc EXCEPT !.status = "paused",
                              !.provider = ProviderOf[job[h].on], !.contract = None]
    BY <1>1, <1>2 DEF AcceptLock
  <2> QED
    BY <1>1, <2>1 DEF RequestDoc
<1>3. ASSUME NEW h \in Handlers, CancelRelease(h) PROVE New = doc
  <2>1. New = doc \/ New = [doc EXCEPT !.status = "published", !.provider = None,
                                       !.contract = None]
    BY <1>1, <1>3 DEF CancelRelease
  <2> QED
    BY <1>1, <2>1 DEF RequestDoc
<1>4. ASSUME NEW h \in Handlers, AcceptAssign(h)
      PROVE  /\ New.status = doc.status
             /\ New.contract = doc.contract \/ doc.contract = None
  <2>1. \/ New = doc
        \/ doc.contract = None /\ New = [doc EXCEPT !.contract = job[h].on]
    BY <1>1, <1>4 DEF AcceptAssign
  <2> QED
    BY <1>1, <2>1 DEF RequestDoc
<1>5. ASSUME NEW h \in Handlers,
             PublishWrite(h) \/ UnpublishWrite(h) \/ DeleteRequestCancel(h)
      PROVE  New = doc
  <2>1. PICK status \in {"published", "paused", "cancelled"} :
          SetStatus(job[h].on, status)
    BY <1>5 DEF PublishWrite, UnpublishWrite, DeleteRequestCancel
  <2>2. New = doc \/ New = [doc EXCEPT !.status = status]
    BY <1>1, <2>1 DEF SetStatus
  <2> QED
    BY <1>1, <2>2 DEF RequestDoc
<1>6. ASSUME NEW q, request' = [request EXCEPT ![q] = Gone] PROVE New = doc
  <2>1. New = doc \/ New = Gone
    BY <1>1, <1>6
  <2> QED
    BY <2>1 DEF Gone
<1>7. ASSUME NEW q \in Requests, ArchiveRequest(q)
      PROVE  New.status = doc.status /\ New.contract = doc.contract
  <2>1. New = doc \/ New = [doc EXCEPT !.archived = TRUE]
    BY <1>1, <1>7 DEF ArchiveRequest
  <2> QED
    BY <1>1, <2>1 DEF RequestDoc
<1>8. ASSUME NEW h \in Handlers, NEW o \in Offers, OfferCall(h, o) PROVE Same
  BY <1>8 DEF OfferCall, CreateOfferRead, UpdateOfferRead, DeleteOfferRead,
              AcceptRead, DeclineRead, CancelRead
<1>9. ASSUME NEW h \in Handlers, NEW q \in Requests, RequestCall(h, q) PROVE Same
  BY <1>9 DEF RequestCall, PublishRead, UnpublishRead, DeleteRequestRead
<1>10. ASSUME NEW h \in Handlers, Resume(h)
       PROVE  \/ Same \/ AcceptLock(h) \/ CancelRelease(h) \/ AcceptAssign(h)
              \/ PublishWrite(h) \/ UnpublishWrite(h) \/ DeleteRequestCancel(h)
              \/ request' = [request EXCEPT ![job[h].on] = Gone]
  BY <1>10
     DEF Resume, CreateOfferInsert, UpdateOfferWrite, DeleteOfferWrite,
         AcceptMark, AcceptContract, AcceptDeclineOthers, DeclineReadRequest,
         DeclineWrite, UnpublishCount, DeleteRequestCount, DeleteRequestRemove,
         CancelWrite
<1>11. ASSUME NEW h \in Handlers, Resume(h)
       PROVE  /\ New.status = doc.status
              /\ New.contract = doc.contract \/ doc.contract = None
  BY <1>2, <1>3, <1>4, <1>5, <1>6, <1>10, <1>11
<1>12. ASSUME NEW q \in Requests, PurgeRequest(q) PROVE New = doc
  BY <1>6, <1>12 DEF PurgeRequest
<1>13. ASSUME NEW h \in Handlers, Fail(h) PROVE Same
  BY <1>13 DEF Fail
<1>14. CASE UNCHANGED vars
  BY <1>14 DEF vars
<1> QED
  BY <1>7, <1>8, <1>9, <1>11, <1>12, <1>13, <1>14 DEF Next, Step

LEMMA MarketInitInv == MarketInit => FulfilmentInv
<1> SUFFICES ASSUME MarketInit PROVE FulfilmentInv
  OBVIOUS
<1>1. /\ \A b \in Bookings : booking[b] = NoBooking
      /\ \A t \in Tasks : task[t].at = "idle"
      /\ \A o \in Offers : contract[o].status = "none"
      /\ \A r \in Requests : request[r].status \in {"draft", "published"}
  BY DEF MarketInit, FulfilmentInit, Init, Rest
<1>2. BookingsWellFormed /\ TasksHaveBookings
  BY <1>1 DEF BookingsWellFormed, TasksHaveBookings, Stage, BookedSteps,
              ContractSteps
<1>3. ConfirmedHasBooking /\ MatchedHasBooking
  BY <1>1 DEF ConfirmedHasBooking, MatchedHasBooking
<1>4. HistoryIsAChain
  BY <1>1, BookingsAssumption DEF HistoryIsAChain, NoBooking
<1> QED
  BY <1>2, <1>3, <1>4 DEF FulfilmentInv

\* The bookings a step needs are there when it is taken.
LEMMA TaskWrites ==
  ASSUME MarketTypeOK, FulfilmentInv, NEW t \in Tasks, TaskResume(t)
  PROVE  /\ \A o \in Offers : contract'[o].status \in {"confirmed", "completed"}
              => contract'[o] = contract[o] \/ ContractHasBooking(o)
         /\ \A r \in Requests : request'[r].status \in {"matched", "closed"}
              => \/ request'[r] = request[r]
                 \/ request'[r].contract \in Offers
                    /\ ContractHasBooking(request'[r].contract)
<1>1. CASE ConfirmContract(t) \/ CompleteContract(t)
  <2>1. ContractHasBooking(task[t].on)
    BY <1>1 DEF ConfirmContract, CompleteContract, Stage, FulfilmentInv,
                TasksHaveBookings, BookedSteps, ContractSteps
  <2>2. \A o \in Offers : o # task[t].on => contract'[o] = contract[o]
    BY <1>1 DEF ConfirmContract, CompleteContract, MarketTypeOK, TypeOK
  <2> QED
    BY <1>1, <2>1, <2>2 DEF ConfirmContract, CompleteContract
<1>2. CASE ConfirmRequest(t) \/ CompleteRequest(t)
  <2> DEFINE o == task[t].on
             r == RequestOf[o]
  <2>1. o \in Offers /\ ContractHasBooking(o)
    BY <1>2, TaskTyping
       DEF ConfirmRequest, CompleteRequest, Stage, FulfilmentInv,
           TasksHaveBookings, BookedSteps, ContractSteps
  <2>2. r \in Requests
    BY <2>1, ConstantsAssumption
  <2>3. request \in [Requests -> RequestDoc] /\ request[r] \in RequestDoc
    BY <2>2 DEF MarketTypeOK, TypeOK
  <2>4. /\ \A q \in Requests \ {r} : request'[q] = request[q]
        /\ \/ request'[r] = request[r]
           \/ request'[r] = [request[r] EXCEPT !.status = "matched", !.contract = o]
           \/ /\ request[r].contract = o
              /\ request'[r] = [request[r] EXCEPT !.status = "closed"]
    BY <1>2, <2>2, <2>3 DEF ConfirmRequest, CompleteRequest
  <2>5. request'[r] = request[r] \/ request'[r].contract = o
    BY <2>3, <2>4 DEF RequestDoc
  <2>6. contract' = contract
    BY <1>2 DEF ConfirmRequest, CompleteRequest
  <2> QED
    BY <2>1, <2>4, <2>5, <2>6
<1> QED
  BY <1>1, <1>2
     DEF TaskResume, ConfirmBook, CompleteBooking, CancelBookingSave

\* What else a step of the module does to contracts and requests: nothing.
LEMMA OtherWrites ==
  ASSUME FulfilmentStep \/ \E t \in Tasks : TaskFail(t),
         \A t \in Tasks : ~TaskResume(t)
  PROVE  contract' = contract /\ request' = request
BY DEF FulfilmentStep, BookingCall, BookDirectly, CancelBookingAtomic,
       FinishBooking, RescheduleBooking, TaskCall, ConfirmRead, CompleteRead,
       CancelBookingRead, TaskFail

\* A task goes on to a step that needs a booking with the booking made.
LEMMA TasksGoOn ==
  ASSUME MarketTypeOK, FulfilmentInv, [MarketNext]_marketVars, NEW t \in Tasks
  PROVE  /\ task'[t].at \in BookedSteps =>
              /\ task'[t].on \in Offers
              /\ \/ ContractHasBooking(task'[t].on)
                 \/ \E b \in Bookings : Insert(b, task'[t].on, task'[t].on)
         /\ task'[t].at = "cancel.save" =>
              /\ task'[t].on \in Bookings
              /\ booking[task'[t].on].status # "absent"
<1>1. /\ task \in [Tasks -> Task] /\ task[t] \in Task
      /\ task[t].at \in BookedSteps => /\ task[t].on \in Offers
                                       /\ ContractHasBooking(task[t].on)
      /\ task[t].at = "cancel.save" => /\ task[t].on \in Bookings
                                       /\ booking[task[t].on].status # "absent"
  BY TaskTyping DEF MarketTypeOK, FulfilmentInv, TasksHaveBookings, BookedSteps,
                    BookingsWellFormed, Stage
<1>2. CASE task'[t] = task[t]
  BY <1>1, <1>2
<1>3. ASSUME NEW x \in Tasks, TaskCall(x), task'[t] # task[t]
      PROVE  /\ task'[t].at \in BookedSteps => /\ task'[t].on \in Offers
                                               /\ ContractHasBooking(task'[t].on)
             /\ task'[t].at = "cancel.save" =>
                  /\ task'[t].on \in Bookings
                  /\ booking[task'[t].on].status # "absent"
  <2>1. ASSUME NEW o \in Offers, ConfirmRead(x, o)
        PROVE  task'[t] = [at |-> "confirm.book", on |-> o]
    BY <1>1, <1>3, <2>1 DEF ConfirmRead, Begin
  <2>2. ASSUME NEW o \in Offers, CompleteRead(x, o)
        PROVE  /\ task'[t] = [at |-> "complete.contract", on |-> o]
               /\ ContractHasBooking(o)
    BY <1>1, <1>3, <2>2 DEF CompleteRead, Begin, FulfilmentInv, ConfirmedHasBooking
  <2>3. ASSUME NEW b \in Bookings, CancelBookingRead(x, b)
        PROVE  /\ task'[t] = [at |-> "cancel.save", on |-> b]
               /\ booking[b].status = "confirmed"
    BY <1>1, <1>3, <2>3 DEF CancelBookingRead, Begin
  <2>4. \/ \E o \in Offers : task'[t] = [at |-> "confirm.book", on |-> o]
        \/ \E o \in Offers : /\ task'[t] = [at |-> "complete.contract", on |-> o]
                              /\ ContractHasBooking(o)
        \/ \E b \in Bookings : /\ task'[t] = [at |-> "cancel.save", on |-> b]
                                /\ booking[b].status = "confirmed"
    BY <1>3, <2>1, <2>2, <2>3 DEF TaskCall
  <2>5. ASSUME NEW o \in Offers, task'[t] = [at |-> "confirm.book", on |-> o]
        PROVE  task'[t].at \notin BookedSteps /\ task'[t].at # "cancel.save"
    BY <2>5 DEF BookedSteps, ContractSteps
  <2>6. ASSUME NEW o \in Offers,
               task'[t] = [at |-> "complete.contract", on |-> o]
        PROVE  task'[t].at # "cancel.save" /\ task'[t].on = o
    BY <2>6
  <2>7. ASSUME NEW b \in Bookings, task'[t] = [at |-> "cancel.save", on |-> b]
        PROVE  task'[t].at \notin BookedSteps /\ task'[t].on = b
    BY <2>7 DEF BookedSteps, ContractSteps
  <2>8. ASSUME NEW b \in Bookings, booking[b].status = "confirmed"
        PROVE  booking[b].status # "absent"
    BY <2>8
  <2> QED
    BY <2>4, <2>5, <2>6, <2>7, <2>8
<1>4. ASSUME NEW x \in Tasks, TaskResume(x), task'[t] # task[t]
      PROVE  /\ task'[t].at \in BookedSteps =>
                  /\ task'[t].on \in Offers
                  /\ \/ ContractHasBooking(task'[t].on)
                     \/ \E b \in Bookings : Insert(b, task'[t].on, task'[t].on)
             /\ task'[t].at # "cancel.save"
  <2>1. CASE Finish(x)
    BY <1>1, <1>4, <2>1 DEF Finish, Rest, BookedSteps, ContractSteps
  <2>2. CASE ConfirmBook(x) /\ ~Finish(x)
    <3>1. /\ task[x].at = "confirm.book" /\ task[x].on \in Offers
          /\ \E b \in Bookings : Insert(b, task[x].on, task[x].on)
          /\ Proceed(x, "confirm.contract")
      BY <2>2, TaskTyping DEF ConfirmBook, Stage, ContractSteps
    <3>2. t = x /\ task'[t].at = "confirm.contract" /\ task'[t].on = task[t].on
      BY <1>1, <1>4, <3>1 DEF Proceed, Task, ContractSteps
    <3> QED
      BY <3>1, <3>2
  <2>3. CASE ~ConfirmBook(x) /\ ~Finish(x)
    <3>1. PICK step \in {"confirm.request", "complete.booking", "complete.request"} :
            task[x].at \in BookedSteps /\ Proceed(x, step)
      BY <1>4, <2>3
         DEF TaskResume, ConfirmContract, ConfirmRequest, CompleteContract,
             CompleteBooking, CompleteRequest, CancelBookingSave, Stage,
             BookedSteps, ContractSteps
    <3>2. t = x /\ task'[t].at = step /\ task'[t].on = task[t].on
      BY <1>1, <1>4, <3>1 DEF Proceed, Task, BookedSteps, ContractSteps
    <3> QED
      BY <1>1, <3>1, <3>2
  <2> QED
    BY <2>1, <2>2, <2>3
<1>5. ASSUME NEW x \in Tasks, TaskFail(x), task'[t] # task[t]
      PROVE  task'[t].at = "idle"
  BY <1>1, <1>5 DEF TaskFail, Finish, Rest
<1>6. ASSUME BookingCall \/ UNCHANGED marketVars \/ UNCHANGED <<booking, task>>
      PROVE  task' = task
  BY <1>6 DEF BookingCall, BookDirectly, CancelBookingAtomic, FinishBooking,
              RescheduleBooking, marketVars
<1> QED
  BY <1>2, <1>3, <1>4, <1>5, <1>6
     DEF MarketNext, FulfilmentStep, BookedSteps, ContractSteps

LEMMA FulfilmentInvStep ==
  MarketTypeOK /\ FulfilmentInv /\ [MarketNext]_marketVars => FulfilmentInv'
<1> SUFFICES ASSUME MarketTypeOK, FulfilmentInv, [MarketNext]_marketVars
             PROVE  FulfilmentInv'
  OBVIOUS
<1>1. BookingWrite /\ BookingsWellFormed /\ MarketTypeOK'
  BY EveryBookingWrite, MarketNextTyped DEF FulfilmentInv
<1>2. \A c \in Offers : ContractHasBooking(c) => ContractHasBooking(c)'
  BY <1>1, BookedForever
<1>3. HistoryIsAChain'
  BY <1>1, ChainKept DEF FulfilmentInv
<1>4. BookingsWellFormed'
  <2>1. ASSUME NEW b \in Bookings, booking'[b].status = "absent"
        PROVE  booking'[b] = NoBooking
    BY <1>1, <2>1, BookingsStay DEF BookingsWellFormed
  <2>2. ASSUME NEW t \in Tasks, task'[t].at = "cancel.save"
        PROVE  booking'[task'[t].on].status # "absent"
    BY <1>1, <2>2, BookingsStay, TasksGoOn
  <2> QED
    BY <2>1, <2>2 DEF BookingsWellFormed, Stage
<1>5. TasksHaveBookings'
  <2>1. ASSUME NEW t \in Tasks, task'[t].at \in BookedSteps
        PROVE  \E b \in Bookings : booking'[b].contract = task'[t].on
    <3>1. task'[t].on \in Offers
      BY <2>1, TasksGoOn
    <3>2. CASE ContractHasBooking(task'[t].on)
      <4>1. PICK c \in Offers : c = task'[t].on
        BY <3>1
      <4>2. ContractHasBooking(c)'
        BY <1>2, <3>2, <4>1
      <4> QED
        BY <4>1, <4>2 DEF ContractHasBooking
    <3>3. ASSUME NEW b \in Bookings, Insert(b, task'[t].on, task'[t].on)
          PROVE  booking'[b].contract = task'[t].on
      BY <3>1, <3>3, InsertEffect
    <3> QED
      BY <2>1, <3>2, <3>3, TasksGoOn DEF ContractHasBooking
  <2> QED
    BY <2>1 DEF TasksHaveBookings, ContractHasBooking, BookedSteps, ContractSteps
<1>6. ASSUME Next \/ UNCHANGED marketVars
      PROVE  /\ \A o \in Offers : contract'[o].status \in {"confirmed", "completed"}
                  => ContractHasBooking(o)
             /\ \A r \in Requests : request'[r].status \in {"matched", "closed"}
                  => \/ request'[r].contract = request[r].contract
                        /\ request[r].status \in {"matched", "closed"}
                     \/ request'[r].contract \in Offers
                        /\ ContractHasBooking(request'[r].contract)
  <2>1. [Next]_vars /\ TypeOK
    BY <1>6 DEF marketVars, vars, MarketTypeOK
  <2> QED
    BY <2>1, ContractWrites, RequestWrites
       DEF FulfilmentInv, ConfirmedHasBooking, MatchedHasBooking
<1>7. ASSUME FulfilmentStep \/ \E t \in Tasks : TaskFail(t)
      PROVE  /\ \A o \in Offers : contract'[o].status \in {"confirmed", "completed"}
                  => ContractHasBooking(o)
             /\ \A r \in Requests : request'[r].status \in {"matched", "closed"}
                  => \/ request'[r].contract = request[r].contract
                        /\ request[r].status \in {"matched", "closed"}
                     \/ request'[r].contract \in Offers
                        /\ ContractHasBooking(request'[r].contract)
  <2>1. CASE contract' = contract /\ request' = request
    BY <2>1 DEF FulfilmentInv, ConfirmedHasBooking
  <2>2. ASSUME NEW t \in Tasks, TaskResume(t)
        PROVE  \A o \in Offers : contract'[o].status \in {"confirmed", "completed"}
                 => ContractHasBooking(o)
    BY <2>2, TaskWrites DEF FulfilmentInv, ConfirmedHasBooking
  <2> QED
    BY <1>7, <2>1, <2>2, TaskWrites, OtherWrites
<1>8. ConfirmedHasBooking'
  <2>1. ASSUME NEW o \in Offers, contract'[o].status \in {"confirmed", "completed"}
        PROVE  ContractHasBooking(o)'
    BY <1>2, <1>6, <1>7, <2>1 DEF MarketNext
  <2> QED
    BY <2>1 DEF ConfirmedHasBooking
<1>9. MatchedHasBooking'
  <2>1. ASSUME NEW r \in Requests, request'[r].status \in {"matched", "closed"}
        PROVE  /\ request'[r].contract # None
               /\ \E b \in Bookings : booking'[b].contract = request'[r].contract
    <3>1. /\ request'[r].contract \in Offers
          /\ ContractHasBooking(request'[r].contract)
      <4>1. request[r].status \in {"matched", "closed"} =>
              request[r].contract \in Offers /\ ContractHasBooking(request[r].contract)
        BY DEF FulfilmentInv, MatchedHasBooking, MarketTypeOK, TypeOK, RequestDoc
      <4> QED
        BY <1>6, <1>7, <2>1, <4>1 DEF MarketNext
    <3>2. PICK c \in Offers : c = request'[r].contract
      BY <3>1
    <3>3. ContractHasBooking(c)'
      BY <1>2, <3>1, <3>2
    <3> QED
      BY <3>2, <3>3, ConstantsAssumption DEF ContractHasBooking
  <2> QED
    BY <2>1 DEF MatchedHasBooking, ContractHasBooking
<1> QED
  BY <1>3, <1>4, <1>5, <1>8, <1>9 DEF FulfilmentInv

LEMMA FulfilmentInvAlways == MarketSpec => [](MarketTypeOK /\ FulfilmentInv)
BY MarketInitTyped, MarketNextTyped, MarketInitInv, FulfilmentInvStep, PTL
   DEF MarketSpec

\* The inductive invariant of bookings: at every step of every task the bookings it
\* goes on to confirm, cancel or follow exist and form chains, and the contracts and
\* requests written before rest on bookings of their own.
THEOREM TasksLeaveBookingsInOrder == MarketSpec => []FulfilmentInv
BY FulfilmentInvAlways, PTL

\* No contract is ever confirmed or completed without a booking of its own.
THEOREM ConfirmedContractsHaveBookings == MarketSpec => []ConfirmedHasBooking
<1>1. MarketTypeOK /\ FulfilmentInv => ConfirmedHasBooking
  BY DEF FulfilmentInv
<1> QED
  BY FulfilmentInvAlways, <1>1, PTL

\* A matched or closed request always leads to a contract with a booking.
THEOREM MatchedRequestsHaveBookings == MarketSpec => []MatchedHasBooking
<1>1. MarketTypeOK /\ FulfilmentInv => MatchedHasBooking
  BY DEF FulfilmentInv
<1> QED
  BY FulfilmentInvAlways, <1>1, PTL

\* However often a booking is rescheduled, and by whomever at once, its history
\* is one chain without a circle.
THEOREM HistoriesAreChains == MarketSpec => []HistoryIsAChain
<1>1. MarketTypeOK /\ FulfilmentInv => HistoryIsAChain
  BY DEF FulfilmentInv
<1> QED
  BY FulfilmentInvAlways, <1>1, PTL

-----------------------------------------------------------------------------
(* The cards of both parties. *)

\* What the steps of Matching do to the status of an offer.
LEMMA OfferWrites ==
  ASSUME TypeOK, [Next]_vars, NEW o \in Offers
  PROVE  \/ offer'[o].status = offer[o].status
         \/ offer[o].status \in {"absent", "sent"} /\ offer'[o].status # "absent"
              /\ (offer[o].status = "sent" => offer'[o].status # "sent")
         \/ offer'[o].status \in {"accepted", "declined"}
<1> DEFINE Good == \/ offer'[o].status = offer[o].status
                   \/ offer[o].status \in {"absent", "sent"}
                        /\ offer'[o].status # "absent"
                        /\ (offer[o].status = "sent" => offer'[o].status # "sent")
                   \/ offer'[o].status \in {"accepted", "declined"}
<1>1. offer \in [Offers -> OfferDoc] /\ offer[o] \in OfferDoc
  BY DEF TypeOK
<1>2. CASE offer' = offer
  BY <1>2
<1>3. ASSUME NEW s \in {"accepted", "declined"}, NEW x \in Offers,
             offer' = [offer EXCEPT ![x] = [@ EXCEPT !.status = s]]
      PROVE  Good
  <2>1. offer'[o] = offer[o] \/ offer'[o] = [offer[o] EXCEPT !.status = s]
    BY <1>1, <1>3
  <2> QED
    BY <1>1, <2>1 DEF OfferDoc
<1>4. ASSUME NEW h \in Handlers, CreateOfferInsert(h) PROVE Good
  BY <1>1, <1>4 DEF CreateOfferInsert, OfferDoc
<1>5. ASSUME NEW h \in Handlers, UpdateOfferWrite(h) PROVE Good
  <2>1. offer'[o] = offer[o] \/ offer'[o] = [offer[o] EXCEPT !.amount = job[h].amount]
    BY <1>1, <1>5 DEF UpdateOfferWrite
  <2> QED
    BY <1>1, <2>1 DEF OfferDoc
<1>6. ASSUME NEW h \in Handlers, DeleteOfferWrite(h) PROVE Good
  BY <1>1, <1>6 DEF DeleteOfferWrite, OfferDoc
<1>7. ASSUME NEW h \in Handlers, AcceptDeclineOthers(h) PROVE Good
  <2>1. offer'[o] = offer[o] \/ offer'[o] = [offer[o] EXCEPT !.status = "declined"]
    BY <1>1, <1>7 DEF AcceptDeclineOthers
  <2> QED
    BY <1>1, <2>1 DEF OfferDoc
<1>8. ASSUME NEW h \in Handlers, AcceptMark(h) \/ DeclineWrite(h) PROVE Good
  <2>1. job[h].on \in Offers
    BY <1>8, JobTyping DEF AcceptMark, DeclineWrite, At, OfferSteps, AcquireSteps
  <2> QED
    BY <1>2, <1>3, <1>8, <2>1 DEF AcceptMark, DeclineWrite
<1>9. ASSUME NEW h \in Handlers, NEW x \in Offers, OfferCall(h, x) PROVE Good
  BY <1>2, <1>9 DEF OfferCall, CreateOfferRead, UpdateOfferRead, DeleteOfferRead,
                    AcceptRead, DeclineRead, CancelRead
<1>10. ASSUME NEW h \in Handlers, NEW r \in Requests, RequestCall(h, r) PROVE Good
  BY <1>2, <1>10, SMTT(30) DEF RequestCall, PublishRead, UnpublishRead, DeleteRequestRead
<1>11. ASSUME NEW h \in Handlers, Resume(h) PROVE Good
  BY <1>2, <1>4, <1>5, <1>6, <1>7, <1>8, <1>11, SMTT(30)
     DEF Resume, AcceptLock, AcceptContract, AcceptAssign, DeclineReadRequest,
         PublishWrite, UnpublishCount, UnpublishWrite, DeleteRequestCount,
         DeleteRequestCancel, DeleteRequestRemove, CancelWrite, CancelRelease
<1> QED
  BY <1>2, <1>9, <1>10, <1>11 DEF Next, Step, ArchiveRequest, PurgeRequest, Fail, vars

LEMMA OtherOffers ==
  ASSUME FulfilmentStep \/ (\E t \in Tasks : TaskFail(t)) \/ UNCHANGED marketVars
  PROVE  UNCHANGED <<offer, job>>
BY DEF FulfilmentStep, BookingCall, BookDirectly, CancelBookingAtomic,
       FinishBooking, RescheduleBooking, TaskCall, ConfirmRead, CompleteRead,
       CancelBookingRead, TaskFail, TaskResume, ConfirmBook, ConfirmContract,
       ConfirmRequest, CompleteContract, CompleteBooking, CompleteRequest,
       CancelBookingSave, marketVars

\* An offer that was made stays made, and one that was answered answered.
LEMMA AnswersStay ==
  ASSUME MarketTypeOK, [MarketNext]_marketVars, NEW o \in Offers
  PROVE  /\ offer[o].status # "absent" => offer'[o].status # "absent"
         /\ Answered(o) => Answered(o)'
<1>1. CASE Next
  BY <1>1, OfferWrites DEF MarketTypeOK, Answered
<1>2. CASE UNCHANGED offer
  BY <1>2 DEF Answered
<1> QED
  BY <1>1, <1>2, OtherOffers DEF MarketNext

\* How a handler comes to the steps that the invariant is about.
Entering(h) ==
  \/ job'[h] = job[h]
  \/ /\ job'[h].at = "accept.lock" /\ job'[h].on \in Offers
     /\ offer[job'[h].on].status = "sent"
  \/ /\ job'[h].at = "accept.mark" /\ job'[h].on = job[h].on
     /\ At(h, "accept.lock")
  \/ job'[h].at = "accept.contract" /\ job'[h].on = job[h].on /\ AcceptMark(h)
  \/ job'[h].at = "accept.assign" /\ job'[h].on = job[h].on /\ AcceptContract(h)
  \/ /\ job'[h].at = "cancel.write" /\ job'[h].on \in Offers
     /\ Formed(job'[h].on)
  \/ job'[h].at \notin {"accept.lock", "accept.mark", "accept.contract",
                        "accept.assign", "cancel.write"}

LEMMA JobsEnter ==
  ASSUME TypeOK, [Next]_vars, NEW h \in Handlers
  PROVE  Entering(h)
<1>1. job \in [Handlers -> Job] /\ job[h] \in Job
  BY DEF TypeOK
<1>2. CASE job'[h] = job[h]
  BY <1>2 DEF Entering
<1>3. ASSUME NEW g \in Handlers, NEW o \in Offers, OfferCall(g, o), job'[h] # job[h]
      PROVE  Entering(h)
  <2>1. ASSUME NEW step, NEW amount, Start(g, step, o, amount)
        PROVE  job'[h].at = step /\ job'[h].on = o
    BY <1>1, <1>3, <2>1 DEF Start
  <2>2. CASE AcceptRead(g, o)
    BY <2>1, <2>2 DEF AcceptRead, Entering
  <2>3. CASE CancelRead(g, o)
    BY <2>1, <2>3 DEF CancelRead, Entering, Formed
  <2>4. CASE ~AcceptRead(g, o) /\ ~CancelRead(g, o)
    <3>1. job'[h].at \in {"create.insert", "update.write", "remove.delete",
                          "decline.request"}
      BY <1>3, <2>1, <2>4 DEF OfferCall, CreateOfferRead, UpdateOfferRead,
                              DeleteOfferRead, DeclineRead
    <3> QED
      BY <3>1 DEF Entering
  <2> QED
    BY <2>2, <2>3, <2>4
<1>4. ASSUME NEW g \in Handlers, NEW r \in Requests, RequestCall(g, r),
             job'[h] # job[h]
      PROVE  Entering(h)
  <2>1. ASSUME NEW step, Start(g, step, r, None) PROVE job'[h].at = step
    BY <1>1, <1>4, <2>1 DEF Start
  <2>2. job'[h].at \in {"publish.write", "unpublish.count", "delete.count"}
    BY <1>4, <2>1 DEF RequestCall, PublishRead, UnpublishRead, DeleteRequestRead
  <2> QED
    BY <2>2 DEF Entering
<1>5. ASSUME NEW g \in Handlers, Done(g), job'[h] # job[h] PROVE Entering(h)
  BY <1>1, <1>5 DEF Done, Idle, Entering
<1>6. ASSUME NEW g \in Handlers, NEW step, Goto(g, step), job'[h] # job[h],
             job[g].at # "idle"
      PROVE  g = h /\ job'[h].at = step /\ job'[h].on = job[h].on
  BY <1>1, <1>6 DEF Goto, Job, Idle
<1>7. ASSUME NEW g \in Handlers, Resume(g), job'[h] # job[h] PROVE Entering(h)
  <2>1. CASE AcceptLock(g)
    BY <1>5, <1>6, <1>7, <2>1 DEF AcceptLock, At, Entering
  <2>2. CASE AcceptMark(g)
    BY <1>6, <1>7, <2>2 DEF AcceptMark, At, Entering
  <2>3. CASE AcceptContract(g)
    BY <1>6, <1>7, <2>3 DEF AcceptContract, At, Entering
  <2>4. CASE AcceptAssign(g) \/ DeclineReadRequest(g) \/ UnpublishCount(g)
                \/ DeleteRequestCount(g) \/ CancelWrite(g)
    <3>1. \/ Done(g)
          \/ \E step \in {"accept.decline", "decline.write", "unpublish.write",
                          "delete.cancel", "delete.remove", "cancel.release"} :
               Goto(g, step) /\ job[g].at # "idle"
      BY <2>4 DEF AcceptAssign, DeclineReadRequest, UnpublishCount,
                  DeleteRequestCount, CancelWrite, At
    <3> QED
      BY <1>5, <1>6, <1>7, <3>1 DEF Entering
  <2> QED
    BY <1>5, <1>7, <2>1, <2>2, <2>3, <2>4
       DEF Resume, CreateOfferInsert, UpdateOfferWrite, DeleteOfferWrite,
           AcceptDeclineOthers, DeclineWrite, PublishWrite, UnpublishWrite,
           DeleteRequestCancel, DeleteRequestRemove, CancelRelease
<1>8. ASSUME NEW g \in Handlers, Fail(g), job'[h] # job[h] PROVE Entering(h)
  BY <1>5, <1>8 DEF Fail
<1> QED
  BY <1>2, <1>3, <1>4, <1>7, <1>8
     DEF Next, Step, ArchiveRequest, PurgeRequest, vars

\* What is formed stays formed.
LEMMA FormedStays ==
  ASSUME MarketTypeOK, [MarketNext]_marketVars, NEW o \in Offers, Formed(o)
  PROVE  Formed(o)'
<1>1. contract \in [Offers -> ContractDoc] /\ contract[o] \in ContractDoc
  BY DEF MarketTypeOK, TypeOK
<1>2. CASE Next
  <2>1. \/ contract'[o] = contract[o]
        \/ contract'[o].status \in {"pending", "cancelled"}
    BY <1>2, ContractWrites DEF MarketTypeOK
  <2> QED
    BY <2>1 DEF Formed
<1>3. ASSUME NEW t \in Tasks, ConfirmContract(t) \/ CompleteContract(t)
      PROVE  contract'[o].status # "none"
  <2>1. \/ contract'[o] = contract[o]
        \/ \E s \in {"confirmed", "completed"} :
             contract'[o] = [contract[o] EXCEPT !.status = s]
    BY <1>1, <1>3 DEF ConfirmContract, CompleteContract
  <2> QED
    BY <1>1, <2>1 DEF ContractDoc, Formed
<1>4. ASSUME NEW t \in Tasks, TaskResume(t)
      PROVE  contract' = contract \/ ConfirmContract(t) \/ CompleteContract(t)
  BY <1>4 DEF TaskResume, ConfirmBook, ConfirmRequest, CompleteBooking,
              CompleteRequest, CancelBookingSave
<1>5. CASE UNCHANGED marketVars
  BY <1>5 DEF marketVars, Formed
<1> QED
  BY <1>2, <1>3, <1>4, <1>5, OtherWrites DEF MarketNext, Formed

\* A contract is formed by acceptForClient() only.
LEMMA FormedByAcceptance ==
  ASSUME MarketTypeOK, CardsInv, [MarketNext]_marketVars, NEW o \in Offers,
         ~Formed(o), Formed(o)'
  PROVE  Answered(o)
<1>1. contract \in [Offers -> ContractDoc] /\ contract[o].status = "none"
  BY DEF MarketTypeOK, TypeOK, Formed
<1>2. contract'[o] # contract[o]
  BY <1>1 DEF Formed
<1>3. ASSUME NEW h \in Handlers, AcceptContract(h) PROVE Answered(o)
  <2>1. job[h].on = o
    BY <1>1, <1>2, <1>3 DEF AcceptContract
  <2> QED
    BY <1>3, <2>1 DEF CardsInv, FormedIsAnswered, AcceptContract
<1>4. ASSUME NEW h \in Handlers, CancelWrite(h) PROVE FALSE
  <2>1. job[h].on = o
    BY <1>1, <1>2, <1>4 DEF CancelWrite
  <2> QED
    BY <1>1, <1>4, <2>1 DEF CardsInv, FormedIsAnswered, CancelWrite, At, Formed
<1>5. ASSUME NEW t \in Tasks, ConfirmContract(t) \/ CompleteContract(t) PROVE FALSE
  <2>1. task[t].on = o /\ task[t].at \in ContractSteps
    BY <1>1, <1>2, <1>5
       DEF ConfirmContract, CompleteContract, Stage, ContractSteps
  <2> QED
    BY <1>1, <2>1 DEF CardsInv, WorkIsFormed, Formed
<1>6. ASSUME NEW t \in Tasks, TaskResume(t)
      PROVE  contract' = contract \/ ConfirmContract(t) \/ CompleteContract(t)
  BY <1>6 DEF TaskResume, ConfirmBook, ConfirmRequest, CompleteBooking,
              CompleteRequest, CancelBookingSave
<1>7. CASE Next
  BY <1>2, <1>3, <1>4, <1>7, ContractActions
<1> QED
  BY <1>2, <1>5, <1>6, <1>7, OtherWrites DEF MarketNext, marketVars

LEMMA FormedIsAnsweredStep ==
  ASSUME MarketTypeOK, CardsInv, [MarketNext]_marketVars
  PROVE  FormedIsAnswered'
<1>1. ASSUME NEW o \in Offers, Formed(o)' PROVE Answered(o)'
  <2>1. Answered(o)
    BY <1>1, FormedByAcceptance DEF CardsInv, FormedIsAnswered
  <2> QED
    BY <2>1, AnswersStay
<1>2. ASSUME NEW h \in Handlers
      PROVE  /\ job'[h].at \in {"accept.lock", "accept.mark"}
                  => offer'[job'[h].on].status # "absent"
             /\ job'[h].at = "accept.contract"
                  => offer'[job'[h].on].status \notin {"absent", "sent"}
             /\ job'[h].at \in {"accept.assign", "cancel.write"}
                  => contract'[job'[h].on].status # "none"
  <2>1. Entering(h)
    <3>1. CASE Next
      BY <3>1, JobsEnter DEF MarketTypeOK
    <3>2. CASE UNCHANGED job
      BY <3>2 DEF Entering
    <3> QED
      BY <3>1, <3>2, OtherOffers DEF MarketNext
  <2>2. job[h].at \in OfferSteps => job[h].on \in Offers
    BY JobTyping DEF MarketTypeOK
  <2>3. /\ job[h].at \in {"accept.lock", "accept.mark"}
             => job[h].on \in Offers /\ offer[job[h].on].status # "absent"
        /\ At(h, "accept.contract") => job[h].on \in Offers /\ Answered(job[h].on)
        /\ job[h].at \in {"accept.assign", "cancel.write"}
             => job[h].on \in Offers /\ Formed(job[h].on)
    BY <2>2 DEF CardsInv, FormedIsAnswered, OfferSteps, AcquireSteps, At
  <2>4. \A o \in Offers :
          /\ offer[o].status # "absent" => offer'[o].status # "absent"
          /\ Answered(o) => offer'[o].status \notin {"absent", "sent"}
          /\ Formed(o) => contract'[o].status # "none"
    BY AnswersStay, FormedStays DEF Answered, Formed
  <2>5. CASE job'[h] = job[h]
    BY <2>3, <2>4, <2>5 DEF At
  <2>6. CASE AcceptMark(h) /\ job'[h].at = "accept.contract" /\ job'[h].on = job[h].on
    <3>1. PICK o \in Offers : o = job[h].on
      BY <2>3, <2>6 DEF AcceptMark, At
    <3>2. offer[o].status # "absent"
      BY <2>3, <2>6, <3>1 DEF AcceptMark, At
    <3>3. offer[o] \in OfferDoc /\ offer \in [Offers -> OfferDoc]
      BY DEF MarketTypeOK, TypeOK
    <3>4. \/ offer'[o] = offer[o] /\ offer[o].status = "deleted"
          \/ offer'[o] = [offer[o] EXCEPT !.status = "accepted"]
      BY <2>6, <3>1, <3>2, <3>3 DEF AcceptMark, OfferExists
    <3>5. offer'[o].status \notin {"absent", "sent"}
      BY <3>3, <3>4 DEF OfferDoc
    <3> QED
      BY <2>6, <3>1, <3>5
  <2>7. CASE AcceptContract(h) /\ job'[h].at = "accept.assign" /\ job'[h].on = job[h].on
    <3>1. PICK o \in Offers : o = job[h].on
      BY <2>3, <2>7 DEF AcceptContract, At
    <3>2. contract'[o].status # "none"
      BY <2>7, <3>1 DEF AcceptContract, MarketTypeOK, TypeOK
    <3> QED
      BY <2>7, <3>1, <3>2
  <2>8. CASE job'[h].at = "accept.lock" /\ job'[h].on \in Offers
               /\ offer[job'[h].on].status = "sent"
    BY <2>4, <2>8
  <2>9. CASE job'[h].at = "accept.mark" /\ job'[h].on = job[h].on
               /\ At(h, "accept.lock")
    BY <2>3, <2>4, <2>9 DEF At
  <2>10. CASE job'[h].at = "cancel.write" /\ job'[h].on \in Offers
               /\ Formed(job'[h].on)
    BY <2>4, <2>10
  <2> QED
    BY <2>1, <2>5, <2>6, <2>7, <2>8, <2>9, <2>10 DEF Entering
<1> QED
  BY <1>1, <1>2 DEF FormedIsAnswered, Answered, Formed, At

\* How a task comes to the steps that the invariant is about.
TaskEntering(t) ==
  \/ task'[t] = task[t]
  \/ /\ task'[t].at \in {"confirm.book", "complete.contract"}
     /\ task'[t].on \in Offers /\ Formed(task'[t].on)
  \/ /\ task'[t].at = "confirm.contract"
     /\ task'[t].on = task[t].on /\ Stage(t, "confirm.book")
  \/ /\ task'[t].at = "confirm.request"
     /\ task'[t].on = task[t].on /\ ConfirmContract(t)
  \/ /\ task'[t].at = "complete.booking"
     /\ task'[t].on = task[t].on /\ CompleteContract(t)
  \/ /\ task'[t].at = "complete.request"
     /\ task'[t].on = task[t].on /\ Stage(t, "complete.booking")
  \/ task'[t].at \notin ContractSteps

LEMMA TasksEnter ==
  ASSUME MarketTypeOK, [MarketNext]_marketVars, NEW t \in Tasks
  PROVE  TaskEntering(t)
<1>1. task \in [Tasks -> Task] /\ task[t] \in Task
  BY DEF MarketTypeOK
<1>2. CASE task'[t] = task[t]
  BY <1>2 DEF TaskEntering
<1>3. ASSUME NEW x \in Tasks, TaskCall(x), task'[t] # task[t]
      PROVE  TaskEntering(t)
  <2>1. ASSUME NEW step, NEW subject, Begin(x, step, subject)
        PROVE  task'[t].at = step /\ task'[t].on = subject
    BY <1>1, <1>3, <2>1 DEF Begin
  <2>2. ASSUME NEW o \in Offers, ConfirmRead(x, o) \/ CompleteRead(x, o)
        PROVE  TaskEntering(t)
    BY <2>1, <2>2 DEF ConfirmRead, CompleteRead, TaskEntering, Formed
  <2>3. ASSUME NEW b \in Bookings, CancelBookingRead(x, b) PROVE TaskEntering(t)
    BY <2>1, <2>3 DEF CancelBookingRead, TaskEntering, ContractSteps
  <2> QED
    BY <1>3, <2>2, <2>3 DEF TaskCall
<1>4. ASSUME NEW x \in Tasks, Finish(x), task'[t] # task[t] PROVE TaskEntering(t)
  BY <1>1, <1>4 DEF Finish, Rest, TaskEntering, ContractSteps
<1>5. ASSUME NEW x \in Tasks, NEW step, Proceed(x, step), task'[t] # task[t],
             task[x].at \in ContractSteps
      PROVE  x = t /\ task'[t].at = step /\ task'[t].on = task[t].on
  BY <1>1, <1>5 DEF Proceed, Task, ContractSteps
<1>6. ASSUME NEW x \in Tasks, TaskResume(x), task'[t] # task[t]
      PROVE  TaskEntering(t)
  <2>1. CASE ConfirmBook(x)
    <3>1. task[x].at = "confirm.book" /\ task[x].at \in ContractSteps
      BY <2>1 DEF ConfirmBook, Stage, ContractSteps
    <3>2. Finish(x) \/ Proceed(x, "confirm.contract")
      BY <2>1 DEF ConfirmBook
    <3>3. CASE Proceed(x, "confirm.contract")
      <4>1. x = t /\ task'[t].at = "confirm.contract" /\ task'[t].on = task[t].on
        BY <1>5, <1>6, <3>1, <3>3
      <4> QED
        BY <3>1, <4>1 DEF TaskEntering, Stage
    <3> QED
      BY <1>4, <1>6, <3>2, <3>3
  <2>4. CASE ConfirmContract(x)
    <3>1. task[x].at \in ContractSteps /\ Proceed(x, "confirm.request")
      BY <2>4 DEF ConfirmContract, Stage, ContractSteps
    <3>2. x = t /\ task'[t].at = "confirm.request" /\ task'[t].on = task[t].on
      BY <1>5, <1>6, <3>1
    <3> QED
      BY <2>4, <3>2 DEF TaskEntering
  <2>2. CASE CompleteContract(x)
    <3>1. task[x].at \in ContractSteps
      BY <2>2 DEF CompleteContract, Stage, ContractSteps
    <3>2. Proceed(x, "complete.booking")
      BY <2>2 DEF CompleteContract
    <3>3. x = t /\ task'[t].at = "complete.booking" /\ task'[t].on = task[t].on
      BY <1>5, <1>6, <3>1, <3>2
    <3> QED
      BY <2>2, <3>3 DEF TaskEntering
  <2>3. CASE CompleteBooking(x)
    <3>1. task[x].at = "complete.booking" /\ task[x].at \in ContractSteps
      BY <2>3 DEF CompleteBooking, Stage, ContractSteps
    <3>2. Finish(x) \/ Proceed(x, "complete.request")
      BY <2>3 DEF CompleteBooking
    <3>3. CASE Proceed(x, "complete.request")
      <4>1. x = t /\ task'[t].at = "complete.request" /\ task'[t].on = task[t].on
        BY <1>5, <1>6, <3>1, <3>3
      <4> QED
        BY <3>1, <4>1 DEF TaskEntering, Stage
    <3> QED
      BY <1>4, <1>6, <3>2, <3>3
  <2> QED
    BY <1>4, <1>6, <2>1, <2>2, <2>3, <2>4
       DEF TaskResume, ConfirmRequest, CompleteRequest, CancelBookingSave
<1>7. ASSUME NEW x \in Tasks, TaskFail(x), task'[t] # task[t] PROVE TaskEntering(t)
  BY <1>4, <1>7 DEF TaskFail
<1>8. ASSUME BookingCall \/ UNCHANGED marketVars \/ UNCHANGED <<booking, task>>
      PROVE  task' = task
  BY <1>8 DEF BookingCall, BookDirectly, CancelBookingAtomic, FinishBooking,
              RescheduleBooking, marketVars
<1> QED
  BY <1>2, <1>3, <1>6, <1>7, <1>8 DEF MarketNext, FulfilmentStep

\* How a request comes to name a contract, and to be closed.
RequestEntering(r) ==
  \/ /\ request'[r].contract = request[r].contract
     /\ request'[r].status \in {"matched", "closed"} => request'[r].status = request[r].status
  \/ /\ request'[r].contract = None
     /\ request'[r].status \notin {"matched", "closed"}
  \/ /\ request[r].contract = None
     /\ request'[r].status = request[r].status
     /\ \E h \in Handlers : /\ At(h, "accept.assign") /\ job[h].on \in Offers
                            /\ request'[r].contract = job[h].on
                            /\ RequestOf[job[h].on] = r
  \/ /\ request'[r].status = "matched"
     /\ \E t \in Tasks : /\ Stage(t, "confirm.request") /\ task[t].on \in Offers
                         /\ request'[r].contract = task[t].on
                         /\ RequestOf[task[t].on] = r
  \/ /\ request'[r].contract = request[r].contract
     /\ request'[r].status # "matched"
     /\ \E t \in Tasks : /\ Stage(t, "complete.request") /\ task[t].on \in Offers
                         /\ request[r].contract = task[t].on

LEMMA MatchingRequests ==
  ASSUME TypeOK, [Next]_vars, NEW r \in Requests
  PROVE  RequestEntering(r)
<1> DEFINE doc == request[r]
           New == request'[r]
<1>1. request \in [Requests -> RequestDoc] /\ doc \in RequestDoc
  BY DEF TypeOK
<1>2. CASE New = doc
  BY <1>2 DEF RequestEntering
<1>3. ASSUME NEW h \in Handlers, AcceptLock(h) PROVE RequestEntering(r)
  <2>1. New = doc \/ New = [doc EXCEPT !.status = "paused",
                              !.provider = ProviderOf[job[h].on], !.contract = None]
    BY <1>1, <1>3 DEF AcceptLock
  <2> QED
    BY <1>1, <1>2, <2>1 DEF RequestDoc, RequestEntering
<1>4. ASSUME NEW h \in Handlers, CancelRelease(h) PROVE RequestEntering(r)
  <2>1. New = doc \/ New = [doc EXCEPT !.status = "published", !.provider = None,
                                       !.contract = None]
    BY <1>1, <1>4 DEF CancelRelease
  <2> QED
    BY <1>1, <1>2, <2>1 DEF RequestDoc, RequestEntering
<1>5. ASSUME NEW h \in Handlers, AcceptAssign(h) PROVE RequestEntering(r)
  <2>1. job[h].on \in Offers
    BY <1>5, JobTyping DEF AcceptAssign, At, OfferSteps, AcquireSteps
  <2>2. \/ New = doc
        \/ /\ doc.contract = None /\ RequestOf[job[h].on] = r
           /\ New = [doc EXCEPT !.contract = job[h].on]
    BY <1>1, <1>5, SMTT(30) DEF AcceptAssign
  <2>3. CASE New # doc
    <3>1. New.contract = job[h].on /\ New.status = doc.status
      BY <1>1, <2>2, <2>3 DEF RequestDoc
    <3> QED
      BY <1>5, <2>1, <2>2, <2>3, <3>1 DEF RequestEntering, AcceptAssign
  <2> QED
    BY <1>2, <2>3
<1>6. ASSUME NEW h \in Handlers,
             PublishWrite(h) \/ UnpublishWrite(h) \/ DeleteRequestCancel(h)
      PROVE  RequestEntering(r)
  <2>1. PICK status \in {"published", "paused", "cancelled"} :
          SetStatus(job[h].on, status)
    BY <1>6 DEF PublishWrite, UnpublishWrite, DeleteRequestCancel
  <2>2. New = doc \/ New = [doc EXCEPT !.status = status]
    BY <1>1, <2>1 DEF SetStatus
  <2> QED
    BY <1>1, <1>2, <2>2 DEF RequestDoc, RequestEntering
<1>7. ASSUME NEW q, request' = [request EXCEPT ![q] = Gone] PROVE RequestEntering(r)
  <2>1. New = doc \/ New = Gone
    BY <1>1, <1>7
  <2> QED
    BY <1>2, <2>1 DEF Gone, RequestEntering
<1>8. ASSUME NEW q \in Requests, ArchiveRequest(q) PROVE RequestEntering(r)
  <2>1. New = doc \/ New = [doc EXCEPT !.archived = TRUE]
    BY <1>1, <1>8 DEF ArchiveRequest
  <2> QED
    BY <1>1, <1>2, <2>1 DEF RequestDoc, RequestEntering
<1>9. ASSUME NEW h \in Handlers, NEW o \in Offers, OfferCall(h, o)
      PROVE  request' = request
  BY <1>9 DEF OfferCall, CreateOfferRead, UpdateOfferRead, DeleteOfferRead,
              AcceptRead, DeclineRead, CancelRead
<1>10. ASSUME NEW h \in Handlers, NEW q \in Requests, RequestCall(h, q)
       PROVE  request' = request
  BY <1>10 DEF RequestCall, PublishRead, UnpublishRead, DeleteRequestRead
<1>11. ASSUME NEW h \in Handlers, Resume(h)
       PROVE  \/ request' = request
              \/ AcceptLock(h) \/ CancelRelease(h) \/ AcceptAssign(h)
              \/ PublishWrite(h) \/ UnpublishWrite(h) \/ DeleteRequestCancel(h)
              \/ request' = [request EXCEPT ![job[h].on] = Gone]
  BY <1>11
     DEF Resume, CreateOfferInsert, UpdateOfferWrite, DeleteOfferWrite,
         AcceptMark, AcceptContract, AcceptDeclineOthers, DeclineReadRequest,
         DeclineWrite, UnpublishCount, DeleteRequestCount, DeleteRequestRemove,
         CancelWrite
<1>12. ASSUME NEW h \in Handlers, Resume(h) PROVE RequestEntering(r)
  BY <1>2, <1>3, <1>4, <1>5, <1>6, <1>7, <1>11, <1>12
<1>13. ASSUME NEW q \in Requests, PurgeRequest(q) PROVE RequestEntering(r)
  BY <1>7, <1>13 DEF PurgeRequest
<1> QED
  BY <1>2, <1>8, <1>9, <1>10, <1>12, <1>13 DEF Next, Step, Fail, vars

LEMMA RequestsEnter ==
  ASSUME MarketTypeOK, [MarketNext]_marketVars, NEW r \in Requests
  PROVE  RequestEntering(r)
<1>1. request \in [Requests -> RequestDoc] /\ request[r] \in RequestDoc
  BY DEF MarketTypeOK, TypeOK
<1>2. CASE request' = request
  BY <1>2 DEF RequestEntering
<1>3. CASE Next
  BY <1>3, MatchingRequests DEF MarketTypeOK
<1>4. ASSUME NEW t \in Tasks, ConfirmRequest(t) PROVE RequestEntering(r)
  <2>1. task[t].on \in Offers
    BY <1>4, TaskTyping DEF ConfirmRequest, Stage, ContractSteps
  <2>2. \/ request'[r] = request[r]
        \/ /\ RequestOf[task[t].on] = r
           /\ request'[r] = [request[r] EXCEPT !.status = "matched",
                                               !.contract = task[t].on]
    BY <1>1, <1>4 DEF ConfirmRequest
  <2>3. CASE request'[r] = [request[r] EXCEPT !.status = "matched",
                                              !.contract = task[t].on]
             /\ RequestOf[task[t].on] = r
    <3>1. request'[r].contract = task[t].on /\ request'[r].status = "matched"
      BY <1>1, <2>3, SMTT(30) DEF RequestDoc
    <3> QED
      BY <1>4, <2>1, <2>3, <3>1 DEF RequestEntering, ConfirmRequest
  <2> QED
    BY <2>2, <2>3 DEF RequestEntering
<1>5. ASSUME NEW t \in Tasks, CompleteRequest(t) PROVE RequestEntering(r)
  <2>1. task[t].on \in Offers
    BY <1>5, TaskTyping DEF CompleteRequest, Stage, ContractSteps
  <2>2. \/ request'[r] = request[r]
        \/ /\ request[r].contract = task[t].on
           /\ request'[r] = [request[r] EXCEPT !.status = "closed"]
    BY <1>1, <1>5 DEF CompleteRequest
  <2>3. request'[r].contract = request[r].contract
    BY <1>1, <2>2 DEF RequestDoc
  <2>4. request'[r] = request[r] \/ request'[r].status # "matched"
    BY <1>1, <2>2 DEF RequestDoc
  <2> QED
    BY <1>5, <2>1, <2>2, <2>3, <2>4 DEF RequestEntering, CompleteRequest
<1>6. ASSUME NEW t \in Tasks, TaskResume(t)
      PROVE  request' = request \/ ConfirmRequest(t) \/ CompleteRequest(t)
  BY <1>6 DEF TaskResume, ConfirmBook, ConfirmContract, CompleteContract,
              CompleteBooking, CancelBookingSave
<1> QED
  BY <1>2, <1>3, <1>4, <1>5, <1>6, OtherWrites DEF MarketNext, marketVars

LEMMA WorkIsFormedStep ==
  ASSUME MarketTypeOK, CardsInv, [MarketNext]_marketVars
  PROVE  WorkIsFormed'
<1>1. \A o \in Offers :
        /\ Formed(o) => contract'[o].status # "none"
        /\ Over(o) => contract'[o].status \in {"completed", "cancelled"}
  BY FormedStays, EndedStep DEF Formed, Over, Ended
<1>2. ASSUME NEW t \in Tasks
      PROVE  /\ task'[t].at \in ContractSteps => contract'[task'[t].on].status # "none"
             /\ task'[t].at \in {"complete.booking", "complete.request"}
                  => contract'[task'[t].on].status \in {"completed", "cancelled"}
  <2>1. /\ task[t].at \in ContractSteps => task[t].on \in Offers /\ Formed(task[t].on)
        /\ task[t].at \in {"complete.booking", "complete.request"}
             => task[t].on \in Offers /\ Over(task[t].on)
    BY TaskTyping DEF CardsInv, WorkIsFormed, ContractSteps
  <2>2. CASE task'[t] = task[t]
    BY <1>1, <2>1, <2>2
  <2>3. CASE task'[t].at \in {"confirm.book", "complete.contract"}
               /\ task'[t].on \in Offers /\ Formed(task'[t].on)
    BY <1>1, <2>3
  <2>4. CASE /\ task'[t].on = task[t].on
             /\ \/ task'[t].at = "confirm.contract" /\ Stage(t, "confirm.book")
                \/ task'[t].at = "confirm.request" /\ ConfirmContract(t)
    BY <1>1, <2>1, <2>4 DEF ConfirmContract, Stage, ContractSteps
  <2>5. CASE task'[t].at = "complete.booking"
               /\ task'[t].on = task[t].on /\ CompleteContract(t)
    <3>1. PICK o \in Offers : o = task[t].on
      BY <2>1, <2>5 DEF CompleteContract, Stage, ContractSteps
    <3>2. contract'[o] = [contract[o] EXCEPT !.status = "completed"]
      BY <2>5, <3>1 DEF CompleteContract, MarketTypeOK, TypeOK
    <3>3. contract'[o].status = "completed"
      BY <3>2 DEF MarketTypeOK, TypeOK, ContractDoc
    <3> QED
      BY <2>5, <3>1, <3>3
  <2>6. CASE task'[t].at = "complete.request"
               /\ task'[t].on = task[t].on /\ Stage(t, "complete.booking")
    BY <1>1, <2>1, <2>6 DEF Stage, ContractSteps
  <2>7. CASE task'[t].at \notin ContractSteps
    BY <2>7 DEF ContractSteps
  <2> QED
    BY <2>2, <2>3, <2>4, <2>5, <2>6, <2>7, TasksEnter DEF TaskEntering
<1>3. ASSUME NEW r \in Requests
      PROVE  /\ request'[r].contract # None
                  => /\ RequestOf[request'[r].contract] = r
                     /\ contract'[request'[r].contract].status # "none"
             /\ request'[r].status = "closed"
                  => /\ request'[r].contract # None
                     /\ contract'[request'[r].contract].status
                          \in {"completed", "cancelled"}
  <2> DEFINE c == request[r].contract
             d == request'[r].contract
  <2>1. c # None => c \in Offers /\ RequestOf[c] = r /\ Formed(c)
    BY DEF CardsInv, WorkIsFormed, MarketTypeOK, TypeOK, RequestDoc
  <2>2. request[r].status = "closed" => c # None /\ Over(c)
    BY DEF CardsInv, WorkIsFormed
  <2>3. CASE /\ d = c
             /\ request'[r].status \in {"matched", "closed"}
                  => request'[r].status = request[r].status
    BY <1>1, <2>1, <2>2, <2>3
  <2>4. CASE d = None /\ request'[r].status \notin {"matched", "closed"}
    BY <2>4
  <2>5. CASE /\ c = None
             /\ request'[r].status = request[r].status
             /\ \E h \in Handlers : /\ At(h, "accept.assign") /\ job[h].on \in Offers
                                    /\ d = job[h].on /\ RequestOf[job[h].on] = r
    <3>1. PICK h \in Handlers : /\ At(h, "accept.assign") /\ job[h].on \in Offers
                                /\ d = job[h].on /\ RequestOf[job[h].on] = r
      BY <2>5
    <3>2. Formed(job[h].on)
      BY <3>1 DEF CardsInv, FormedIsAnswered, At
    <3> QED
      BY <1>1, <2>2, <2>5, <3>1, <3>2
  <2>6. CASE /\ request'[r].status = "matched"
             /\ \E t \in Tasks : /\ Stage(t, "confirm.request") /\ task[t].on \in Offers
                                 /\ d = task[t].on /\ RequestOf[task[t].on] = r
    <3>1. PICK t \in Tasks : /\ Stage(t, "confirm.request") /\ task[t].on \in Offers
                             /\ d = task[t].on /\ RequestOf[task[t].on] = r
      BY <2>6
    <3>2. Formed(task[t].on)
      BY <3>1 DEF CardsInv, WorkIsFormed, Stage, ContractSteps
    <3> QED
      BY <1>1, <2>6, <3>1, <3>2
  <2>7. CASE /\ d = c
             /\ request'[r].status # "matched"
             /\ \E t \in Tasks : /\ Stage(t, "complete.request")
                                 /\ task[t].on \in Offers /\ c = task[t].on
    <3>1. PICK t \in Tasks : /\ Stage(t, "complete.request")
                             /\ task[t].on \in Offers /\ c = task[t].on
      BY <2>7
    <3>2. Over(c)
      BY <3>1 DEF CardsInv, WorkIsFormed, Stage
    <3> QED
      BY <1>1, <2>1, <2>7, <3>1, <3>2, ConstantsAssumption
  <2> HIDE DEF c, d
  <2>8. \/ /\ d = c
           /\ request'[r].status \in {"matched", "closed"}
                => request'[r].status = request[r].status
        \/ d = None /\ request'[r].status \notin {"matched", "closed"}
        \/ /\ c = None
           /\ request'[r].status = request[r].status
           /\ \E h \in Handlers : /\ At(h, "accept.assign") /\ job[h].on \in Offers
                                  /\ d = job[h].on /\ RequestOf[job[h].on] = r
        \/ /\ request'[r].status = "matched"
           /\ \E t \in Tasks : /\ Stage(t, "confirm.request") /\ task[t].on \in Offers
                               /\ d = task[t].on /\ RequestOf[task[t].on] = r
        \/ /\ d = c
           /\ request'[r].status # "matched"
           /\ \E t \in Tasks : /\ Stage(t, "complete.request")
                               /\ task[t].on \in Offers /\ c = task[t].on
    BY RequestsEnter DEF RequestEntering, c, d
  <2> QED
    BY <2>3, <2>4, <2>5, <2>6, <2>7, <2>8
<1> QED
  BY <1>2, <1>3 DEF WorkIsFormed, Formed, Over

LEMMA CardsInit == MarketInit => FormedIsAnswered /\ WorkIsFormed
<1> SUFFICES ASSUME MarketInit PROVE FormedIsAnswered /\ WorkIsFormed
  OBVIOUS
<1>1. /\ \A h \in Handlers : job[h].at = "idle"
      /\ \A t \in Tasks : task[t].at = "idle"
      /\ \A o \in Offers : contract[o].status = "none"
      /\ \A r \in Requests : /\ request[r].status \in {"draft", "published"}
                             /\ request[r].contract = None
  BY DEF MarketInit, FulfilmentInit, Init, Rest, Idle
<1> QED
  BY <1>1 DEF FormedIsAnswered, WorkIsFormed, Formed, At, ContractSteps

LEMMA CardsInvAlways == MarketSpec => [](MarketTypeOK /\ CardsInv)
<1>1. MarketTypeOK /\ FulfilmentInv => MarketTypeOK /\ MatchedHasBooking
  BY DEF FulfilmentInv
<1>2. MarketInit => FormedIsAnswered /\ WorkIsFormed
  BY CardsInit
<1>3. /\ MarketTypeOK /\ MatchedHasBooking /\ FormedIsAnswered /\ WorkIsFormed
      /\ [MarketNext]_marketVars
      => (FormedIsAnswered /\ WorkIsFormed)'
  BY FormedIsAnsweredStep, WorkIsFormedStep DEF CardsInv
<1>4. MarketTypeOK /\ MatchedHasBooking /\ FormedIsAnswered /\ WorkIsFormed
      => MarketTypeOK /\ CardsInv
  BY DEF CardsInv
<1> QED
  BY <1>1, <1>2, <1>3, <1>4, FulfilmentInvAlways, PTL DEF MarketSpec

-----------------------------------------------------------------------------
(* What a card offers and asks. *)

OwnActions(stage, c) ==
  LET own == StageActions(stage, c) IN {own[i] : i \in DOMAIN own}

LEMMA PairOf ==
  ASSUME NEW a, NEW b
  PROVE  LET own == <<a, b>> IN {own[i] : i \in DOMAIN own} = {a, b}
<1> DEFINE own == <<a, b>>
<1>1. DOMAIN own = {1, 2} /\ own[1] = a /\ own[2] = b
  OBVIOUS
<1> QED
  BY <1>1

LEMMA OneOf ==
  ASSUME NEW a
  PROVE  LET own == <<a>> IN {own[i] : i \in DOMAIN own} = {a}
<1> DEFINE own == <<a>>
<1>1. DOMAIN own = {1} /\ own[1] = a
  OBVIOUS
<1> QED
  BY <1>1

LEMMA NoneOf == LET own == <<>> IN {own[i] : i \in DOMAIN own} = {}
<1> DEFINE own == <<>>
<1>1. DOMAIN own = {}
  OBVIOUS
<1> QED
  BY <1>1

LEMMA ActionsOfStage ==
  ASSUME NEW c, NEW stage
  PROVE  OwnActions(stage, c) =
           CASE stage = "draft" -> {"publish-request", "edit-request"}
             [] stage = "published" -> {"unpublish-request", "edit-request"}
             [] stage = "offers_received" -> {"review-responses", "edit-request"}
             [] stage \in {"completed", "reviewed"} -> {"review"}
             [] OTHER -> IF c = None THEN {} ELSE {"contract"}
<1>1. CASE stage = "draft"
  BY <1>1, PairOf DEF OwnActions, StageActions
<1>2. CASE stage = "published"
  BY <1>2, PairOf DEF OwnActions, StageActions
<1>3. CASE stage = "offers_received"
  BY <1>3, PairOf DEF OwnActions, StageActions
<1>4. CASE stage \in {"completed", "reviewed"}
  BY <1>4, OneOf DEF OwnActions, StageActions
<1>5. CASE stage \notin {"draft", "published", "offers_received", "completed", "reviewed"}
  <2>1. CASE c = None
    BY <1>5, <2>1, NoneOf DEF OwnActions, StageActions
  <2>2. CASE c # None
    BY <1>5, <2>2, OneOf DEF OwnActions, StageActions
  <2> QED
    BY <2>1, <2>2
<1> QED
  BY <1>1, <1>2, <1>3, <1>4, <1>5

LEMMA OwnerActionsOfStage ==
  ASSUME NEW c, NEW stage
  PROVE  /\ "publish-request" \in OwnerActions(stage, c) => stage = "draft"
         /\ "unpublish-request" \in OwnerActions(stage, c) => stage = "published"
<1>1. OwnerActions(stage, c) = OwnActions(stage, c) \union AlwaysOffered
  BY DEF OwnerActions, OwnActions
<1> QED
  BY <1>1, ActionsOfStage DEF AlwaysOffered

\* A matched request always has a contract to show.
LEMMA CardsWork == MarketTypeOK /\ CardsInv => CommandsOnCardWork
<1> SUFFICES ASSUME MarketTypeOK, CardsInv, NEW r \in Requests,
                    NEW c \in OwnerContracts(r), NEW reviewed \in BOOLEAN, OwnerSees(r)
             PROVE  LET can == Capabilities(r, OwnerStage(r, c, reviewed), c) IN
                    /\ can.publish => request[r].status \in {"draft", "paused", "cancelled"}
                    /\ can.unpublish => request[r].status = "published" /\ ~HasOffers(r)
  BY DEF CommandsOnCardWork
<1> DEFINE stage == OwnerStage(r, c, reviewed)
           can == Capabilities(r, stage, c)
<1>1. /\ can.publish => stage = "draft"
      /\ can.unpublish => stage = "published"
  BY OwnerActionsOfStage DEF Capabilities
<1>2. request[r] \in RequestDoc /\ request[r].status # "deleted"
  BY DEF MarketTypeOK, TypeOK, OwnerSees, RequestExists
<1>3. stage \in {"draft", "published"}
      => /\ request[r].status # "closed" /\ c = None
         /\ stage = OpenStage(r)
  BY DEF OwnerStage, OpenStage
<1>4. c = None => request[r].status # "matched"
  <2> SUFFICES ASSUME c = None, request[r].status = "matched" PROVE FALSE
    OBVIOUS
  <2> DEFINE o == request[r].contract
  <2>1. o # None
    BY DEF CardsInv, MatchedHasBooking
  <2>2. o \in Offers /\ RequestOf[o] = r /\ Formed(o)
    BY <1>2, <2>1 DEF CardsInv, WorkIsFormed, RequestDoc
  <2>3. o \in Signed(OffersFor(r))
    BY <2>2 DEF Signed, OffersFor, Formed
  <2>4. c \in Offers
    BY <2>3 DEF OwnerContracts, ContractsOf, Signed, OffersFor
  <2> QED
    BY <2>4, ConstantsAssumption
<1>5. stage = "draft" => request[r].status \in {"draft", "paused", "cancelled"}
  BY <1>2, <1>3, <1>4 DEF OpenStage, RequestDoc, RequestStatus
<1>6. stage = "published" => request[r].status = "published" /\ ~HasOffers(r)
  BY <1>3 DEF OpenStage
<1> QED
  BY <1>1, <1>5, <1>6

\* What waits for a decision about a contract comes before what can be deferred.
LEMMA UrgentFirst ==
  ASSUME NEW d \in {"confirm_contract", "confirm_completion"},
         NEW here \in Circumstance
  PROVE  /\ PriorityLevel(Priority(d, here)) = "high"
         /\ \A deferred \in DeferrablePriorities : AheadInQueue(Priority(d, here), deferred)
<1>1. Priority(d, here) \in Nat /\ Priority(d, here) >= 90
  <2>1. BasePriority[d] \in Nat /\ BasePriority[d] >= 90 /\ d # "none"
    BY DEF BasePriority
  <2> DEFINE u == CASE here.urgency = "high" -> 10
                    [] here.urgency = "medium" -> 5
                    [] OTHER -> 0
             w == IF here.stale THEN 5 ELSE 0
  <2>2. u \in Nat /\ w \in Nat
    OBVIOUS
  <2>3. Priority(d, here) = BasePriority[d] + u + w
    BY <2>1 DEF Priority
  <2> QED
    BY <2>1, <2>2, <2>3
<1>2. PriorityLevel(Priority(d, here)) = "high"
  BY <1>1 DEF PriorityLevel
<1>3. ASSUME NEW deferred \in DeferrablePriorities PROVE deferred \in Nat /\ deferred <= 85
  <2>1. PICK e \in {"review_offers", "overdue_followup"}, there \in Circumstance :
          deferred = Priority(e, there)
    BY DEF DeferrablePriorities
  <2>2. BasePriority[e] \in Nat /\ BasePriority[e] <= 70 /\ e # "none"
    BY DEF BasePriority
  <2> DEFINE u == CASE there.urgency = "high" -> 10
                    [] there.urgency = "medium" -> 5
                    [] OTHER -> 0
             w == IF there.stale THEN 5 ELSE 0
  <2>3. u \in 0..10 /\ w \in 0..5
    OBVIOUS
  <2>4. deferred = BasePriority[e] + u + w
    BY <2>1, <2>2 DEF Priority
  <2> QED
    BY <2>2, <2>3, <2>4
<1> QED
  BY <1>1, <1>2, <1>3 DEF AheadInQueue

LEMMA LiveOnBoth == MarketTypeOK /\ CardsInv => LiveContractOnBothCards
<1> SUFFICES ASSUME MarketTypeOK, CardsInv, NEW o \in Offers, Live(o)
             PROVE
    /\ OfferExists(o) =>
         /\ ProviderSection(o, o) \in Filter.execution
         /\ "withdraw-offer" \notin ProviderActions(o)
    /\ OwnerSees(RequestOf[o]) /\ ~ClosedByAnother(o) => \A here \in Circumstance :
         LET stage == OwnerStage(RequestOf[o], o, here.reviewed)
             asked == OwnerDecision(RequestOf[o], stage, o, here.stale) IN
         /\ SectionOf(stage) \in Filter.execution
         /\ ~Capabilities(RequestOf[o], stage, o).publish
         /\ contract[o].status = "pending" =>
              /\ asked \in {"confirm_contract", "confirm_completion"}
              /\ PrimaryAction(asked, OwnerActions(stage, o)) = "contract"
              /\ PriorityLevel(Priority(asked, here)) = "high"
              /\ \A deferred \in DeferrablePriorities :
                   AheadInQueue(Priority(asked, here), deferred)
  BY DEF LiveContractOnBothCards
<1>1. o # None /\ RequestOf[o] \in Requests
  BY ConstantsAssumption
<1>2. /\ ContractIs(o, {"pending", "confirmed"})
      /\ ~ContractIs(o, {"completed"}) /\ ~ContractIs(o, {"completed", "cancelled"})
      /\ (ContractIs(o, {"pending"}) <=> contract[o].status = "pending")
  BY <1>1 DEF Live, ContractIs
<1>3. Filter.execution = {"active"}
  BY DEF Filter
<1>4. ProviderSection(o, o) = "active"
  BY <1>1, <1>2 DEF ProviderSection
<1>5. Answered(o)
  BY DEF CardsInv, FormedIsAnswered, Live, Formed
<1>6. "withdraw-offer" \notin ProviderActions(o)
  BY <1>5 DEF ProviderActions, Answered
<1>7. ASSUME OwnerSees(RequestOf[o]), ~ClosedByAnother(o), NEW here \in Circumstance
      PROVE
         LET stage == OwnerStage(RequestOf[o], o, here.reviewed)
             asked == OwnerDecision(RequestOf[o], stage, o, here.stale) IN
         /\ SectionOf(stage) \in Filter.execution
         /\ ~Capabilities(RequestOf[o], stage, o).publish
         /\ contract[o].status = "pending" =>
              /\ asked \in {"confirm_contract", "confirm_completion"}
              /\ PrimaryAction(asked, OwnerActions(stage, o)) = "contract"
              /\ PriorityLevel(Priority(asked, here)) = "high"
              /\ \A deferred \in DeferrablePriorities :
                   AheadInQueue(Priority(asked, here), deferred)
  <2> DEFINE r == RequestOf[o]
             stage == OwnerStage(r, o, here.reviewed)
             asked == OwnerDecision(r, stage, o, here.stale)
  <2>1. request[r].status # "closed"
    BY <1>1, <1>7 DEF ClosedByAnother, CardsInv, WorkIsFormed, Over, Live
  <2>2. /\ stage \in {"completion_pending", "contract_pending", "in_progress"}
        /\ contract[o].status = "pending"
             => stage \in {"completion_pending", "contract_pending"}
    BY <1>1, <1>2, <2>1 DEF OwnerStage
  <2>3. SectionOf(stage) = "active"
    BY <2>2 DEF SectionOf
  <2>4. ~Capabilities(r, stage, o).publish
    BY <2>2, OwnerActionsOfStage DEF Capabilities
  <2>5. OwnerActions(stage, o) = {"contract"} \union AlwaysOffered
    <3>1. OwnerActions(stage, o) = OwnActions(stage, o) \union AlwaysOffered
      BY DEF OwnerActions, OwnActions
    <3>2. OwnActions(stage, o) = {"contract"}
      BY <1>1, <2>2, ActionsOfStage
    <3> QED
      BY <3>1, <3>2
  <2>6. ASSUME contract[o].status = "pending"
        PROVE  /\ asked \in {"confirm_contract", "confirm_completion"}
               /\ PrimaryAction(asked, OwnerActions(stage, o)) = "contract"
    <3>1. stage \in {"completion_pending", "contract_pending"}
      BY <2>2, <2>6
    <3>2. asked \in {"confirm_contract", "confirm_completion"}
      BY <3>1 DEF OwnerDecision
    <3>3. OwnerActions(stage, o) \intersect {"contract"} = {"contract"}
      BY <2>5
    <3>4. (CHOOSE a \in {"contract"} : TRUE) = "contract"
      OBVIOUS
    <3>5. PrimaryAction(asked, OwnerActions(stage, o)) = "contract"
      BY <3>2, <3>3, <3>4 DEF PrimaryAction
    <3> QED
      BY <3>2, <3>5
  <2> QED
    BY <1>3, <1>7, <2>3, <2>4, <2>6, UrgentFirst
<1> QED
  BY <1>3, <1>4, <1>6, <1>7

\* Whatever becomes of a request, its offers, contracts and bookings: a command that its
\* card offers the owner is one that the services carry out.
THEOREM CardCommandsWork == MarketSpec => []CommandsOnCardWork
BY CardsInvAlways, CardsWork, PTL

\* For every number of requests, offers, calls and failures: a live contract is under the
\* work in progress of both parties, and before anything that can wait; only another
\* contract of the request that was completed can hide it from the owner.
THEOREM LiveContractsAreOnCards == MarketSpec => []LiveContractOnBothCards
BY CardsInvAlways, LiveOnBoth, PTL
-----------------------------------------------------------------------------
(* The lists: one appointment per request, and agreed work only. *)

\* A booking of o that becomes active beside nothing but `except` is alone.
LEMMA AloneOnItsRequest ==
  ASSUME OneAppointment, NEW o \in Offers, NEW except, NoOtherActive(o, except),
         NEW x \in Bookings \ except, Active(x)
  PROVE  RequestOf[booking[x].offer] # RequestOf[o]
BY DEF NoOtherActive, SameRequest, OneAppointment, Active

LEMMA OneAppointmentStep ==
  ASSUME MarketTypeOK, BookingsWellFormed, OneAppointment, BookingWrite
  PROVE  OneAppointment'
<1> DEFINE Act(b) == booking[b].status \in {"confirmed", "completed"}
           Act1(b) == booking'[b].status \in {"confirmed", "completed"}
           Place(b) == RequestOf[booking[b].offer]
           Place1(b) == RequestOf[booking'[b].offer]
           Sound1(b) == booking'[b].status # "absent" =>
             booking'[b].offer # None /\ booking'[b].contract \in {None, booking'[b].offer}
<1> SUFFICES /\ \A b \in Bookings : Sound1(b)
             /\ \A b, x \in Bookings :
                  Act1(b) /\ Act1(x) /\ Place1(b) = Place1(x) => b = x
  BY DEF OneAppointment, Active
<1>1. /\ \A b \in Bookings : booking[b].status # "absent" =>
           booking[b].offer # None /\ booking[b].contract \in {None, booking[b].offer}
      /\ \A b, x \in Bookings : Act(b) /\ Act(x) /\ Place(b) = Place(x) => b = x
      /\ \A b \in Bookings : booking[b].offer \in Offers \union {None}
  BY DEF OneAppointment, Active, MarketTypeOK, BookingDoc
<1>2. CASE booking' = booking
  BY <1>1, <1>2
<1>3. ASSUME NEW b \in Bookings, NEW o \in Offers, NEW c \in {None, o}, Insert(b, o, c)
      PROVE  /\ \A x \in Bookings : Sound1(x)
             /\ \A x, y \in Bookings :
                  Act1(x) /\ Act1(y) /\ Place1(x) = Place1(y) => x = y
  <2>1. /\ booking'[b].status = "confirmed" /\ booking'[b].contract = c
        /\ booking'[b].offer = o
        /\ \A x \in Bookings \ {b} : booking'[x] = booking[x]
    BY <1>3, InsertEffect
  <2>2. \A x \in Bookings \ {b} : Act(x) => Place(x) # RequestOf[o]
    BY <1>3, AloneOnItsRequest DEF Insert, Insertable, Active
  <2>3. o # None
    BY ConstantsAssumption
  <2>4. \A x \in Bookings : Sound1(x)
    BY <1>1, <2>1, <2>3
  <2>5. ASSUME NEW x \in Bookings, NEW y \in Bookings, Act1(x), Act1(y),
               Place1(x) = Place1(y)
        PROVE  x = y
    <3>1. CASE x # b /\ y # b
      BY <1>1, <2>1, <2>5, <3>1
    <3>2. \A z \in Bookings \ {b} : Act1(z) => Place1(z) # Place1(b)
      BY <2>1, <2>2
    <3> QED
      BY <2>5, <3>1, <3>2
  <2> QED
    BY <2>4, <2>5
<1>4. ASSUME NEW b \in Bookings, NEW status \in {"cancelled", "completed"},
             booking[b].status # "absent", SetBookingStatus(b, status),
             status = "completed" => MayComplete(b)
      PROVE  /\ \A x \in Bookings : Sound1(x)
             /\ \A x, y \in Bookings :
                  Act1(x) /\ Act1(y) /\ Place1(x) = Place1(y) => x = y
  <2>1. /\ booking'[b].status = status
        /\ booking'[b].contract = booking[b].contract
        /\ booking'[b].offer = booking[b].offer
        /\ \A x \in Bookings \ {b} : booking'[x] = booking[x]
    BY <1>4, SetBookingStatusEffect
  <2>2. \A x \in Bookings : Sound1(x)
    BY <1>1, <1>4, <2>1
  <2>3. ASSUME NEW o \in Offers, booking[b].contract = o, NoOtherActive(o, {b})
        PROVE  \A x \in Bookings \ {b} : Act(x) => Place(x) # Place(b)
    <3>1. booking[b].offer = o
      BY <1>1, <1>4, <2>3, ConstantsAssumption
    <3> QED
      BY <2>3, <3>1, AloneOnItsRequest DEF Active
  <2>4. Act1(b) => \A x \in Bookings \ {b} : Act(x) => Place(x) # Place(b)
    BY <1>1, <1>4, <2>1, <2>3 DEF MayComplete, Active
  <2>5. ASSUME NEW x \in Bookings, NEW y \in Bookings, Act1(x), Act1(y),
               Place1(x) = Place1(y)
        PROVE  x = y
    BY <1>1, <2>1, <2>4, <2>5
  <2> QED
    BY <2>2, <2>5
<1>5. ASSUME NEW b \in Bookings, NEW n \in Bookings, Replaced(b, n)
      PROVE  /\ \A x \in Bookings : Sound1(x)
             /\ \A x, y \in Bookings :
                  Act1(x) /\ Act1(y) /\ Place1(x) = Place1(y) => x = y
  <2>1. /\ booking'[b].status = "cancelled"
        /\ booking'[b].contract = booking[b].contract
        /\ booking'[b].offer = booking[b].offer
        /\ booking'[n].status = "confirmed" /\ booking'[n].contract = None
        /\ booking'[n].offer = booking[b].offer
        /\ \A x \in Bookings \ {b, n} : booking'[x] = booking[x]
    BY <1>5, ReplacedEffect
  <2>2. booking[b].status = "confirmed" /\ booking[b].offer \in Offers
    BY <1>1, <1>5 DEF Replaced
  <2>3. \A x \in Bookings \ {b, n} : Act(x) => Place(x) # Place(b)
    BY <1>5, <2>2, AloneOnItsRequest DEF Replaced, Active
  <2>4. booking[b].offer # None
    BY <2>2, ConstantsAssumption
  <2>5. \A x \in Bookings : Sound1(x)
    BY <1>1, <2>1, <2>2, <2>4
  <2>6. ASSUME NEW x \in Bookings, NEW y \in Bookings, Act1(x), Act1(y),
               Place1(x) = Place1(y)
        PROVE  x = y
    BY <1>1, <2>1, <2>3, <2>6
  <2> QED
    BY <2>5, <2>6
<1> HIDE DEF Act, Act1, Place, Place1, Sound1
<1> QED
  BY <1>2, <1>3, <1>4, <1>5 DEF BookingWrite

\* What is agreed stays agreed.
LEMMA AgreedStays ==
  ASSUME MarketTypeOK, [MarketNext]_marketVars, NEW o \in Offers, Agreed(o)
  PROVE  Agreed(o)'
<1>1. contract \in [Offers -> ContractDoc] /\ contract[o] \in ContractDoc
  BY DEF MarketTypeOK, TypeOK
<1>2. CASE Next
  <2>1. \/ contract'[o] = contract[o]
        \/ contract'[o].status = "cancelled"
    BY <1>2, ContractWrites DEF MarketTypeOK, Agreed
  <2> QED
    BY <2>1 DEF Agreed
<1>3. ASSUME NEW t \in Tasks, ConfirmContract(t) \/ CompleteContract(t)
      PROVE  contract'[o].status \notin {"none", "pending"}
  <2>1. \/ contract'[o] = contract[o]
        \/ \E s \in {"confirmed", "completed"} :
             contract'[o] = [contract[o] EXCEPT !.status = s]
    BY <1>1, <1>3 DEF ConfirmContract, CompleteContract
  <2> QED
    BY <1>1, <2>1 DEF ContractDoc, Agreed
<1>4. ASSUME NEW t \in Tasks, TaskResume(t)
      PROVE  contract' = contract \/ ConfirmContract(t) \/ CompleteContract(t)
  BY <1>4 DEF TaskResume, ConfirmBook, ConfirmRequest, CompleteBooking,
              CompleteRequest, CancelBookingSave
<1>5. CASE UNCHANGED marketVars
  BY <1>5 DEF marketVars, Agreed
<1> QED
  BY <1>2, <1>3, <1>4, <1>5, OtherWrites DEF MarketNext, Agreed

LEMMA MatchedIsAgreedStep ==
  ASSUME MarketTypeOK, CardsInv, MatchedIsAgreed, [MarketNext]_marketVars
  PROVE  MatchedIsAgreed'
<1>1. \A o \in Offers : Agreed(o) => contract'[o].status \notin {"none", "pending"}
  BY AgreedStays DEF Agreed
<1>2. ASSUME NEW t \in Tasks, task'[t].at = "confirm.request"
      PROVE  contract'[task'[t].on].status \notin {"none", "pending"}
  <2>1. CASE task'[t] = task[t]
    BY <1>1, <1>2, <2>1, TaskTyping DEF MatchedIsAgreed, Stage, ContractSteps
  <2>2. CASE task'[t].on = task[t].on /\ ConfirmContract(t)
    <3>1. PICK o \in Offers : o = task[t].on /\ Formed(o)
      BY <2>2, TaskTyping
         DEF ConfirmContract, Stage, ContractSteps, CardsInv, WorkIsFormed
    <3>2. contract \in [Offers -> ContractDoc] /\ contract[o] \in ContractDoc
      BY DEF MarketTypeOK, TypeOK
    <3>3. contract'[o] = IF contract[o].status = "pending"
                         THEN [contract[o] EXCEPT !.status = "confirmed"]
                         ELSE contract[o]
      BY <2>2, <3>1, <3>2 DEF ConfirmContract
    <3>4. contract'[o].status \notin {"none", "pending"}
      BY <3>1, <3>2, <3>3 DEF ContractDoc, Formed
    <3> QED
      BY <2>2, <3>1, <3>4
  <2> QED
    BY <1>2, <2>1, <2>2, TasksEnter DEF TaskEntering, ContractSteps
<1>3. ASSUME NEW r \in Requests, request'[r].status = "matched"
      PROVE  /\ request'[r].contract # None
             /\ contract'[request'[r].contract].status \notin {"none", "pending"}
  <2>1. request[r].status = "matched" =>
          /\ request[r].contract # None /\ request[r].contract \in Offers
          /\ Agreed(request[r].contract)
    BY DEF MatchedIsAgreed, MarketTypeOK, TypeOK, RequestDoc
  <2>2. CASE /\ request'[r].contract = request[r].contract
             /\ request'[r].status = request[r].status
    BY <1>1, <1>3, <2>1, <2>2
  <2>3. CASE \E t \in Tasks : /\ Stage(t, "confirm.request") /\ task[t].on \in Offers
                              /\ request'[r].contract = task[t].on
    BY <1>1, <2>3, ConstantsAssumption DEF MatchedIsAgreed
  <2>4. CASE request[r].contract = None /\ request'[r].status = request[r].status
    BY <1>3, <2>1, <2>4
  <2> QED
    BY <1>3, <2>2, <2>3, <2>4, RequestsEnter DEF RequestEntering
<1> QED
  BY <1>2, <1>3 DEF MatchedIsAgreed, Agreed, Stage

LEMMA ListsInit == MarketInit => ListsInv
<1> SUFFICES ASSUME MarketInit PROVE ListsInv
  OBVIOUS
<1>1. /\ \A b \in Bookings : booking[b].status = "absent"
      /\ \A t \in Tasks : task[t].at = "idle"
      /\ \A r \in Requests : request[r].status \in {"draft", "published"}
  BY DEF MarketInit, FulfilmentInit, Init, Rest, NoBooking
<1> QED
  BY <1>1 DEF ListsInv, OneAppointment, MatchedIsAgreed, Active, Stage

LEMMA ListsInvAlways == MarketSpec => [](FulfilmentInv /\ CardsInv /\ MarketTypeOK /\ ListsInv)
<1>1. /\ MarketTypeOK /\ FulfilmentInv /\ CardsInv /\ ListsInv
      /\ [MarketNext]_marketVars
      => ListsInv'
  BY EveryBookingWrite, OneAppointmentStep, MatchedIsAgreedStep
     DEF ListsInv, FulfilmentInv
<1> QED
  BY <1>1, ListsInit, CardsInvAlways, FulfilmentInvAlways, PTL DEF MarketSpec

LEMMA FeedOfInv ==
  MarketTypeOK /\ FulfilmentInv /\ CardsInv /\ ListsInv => FeedShowsTheWork
<1> SUFFICES ASSUME MarketTypeOK, FulfilmentInv, CardsInv, ListsInv
             PROVE  FeedShowsTheWork
  OBVIOUS
<1>1. ASSUME NEW r \in PublicFeed("execution")
      PROVE  /\ request[r].contract # None
             /\ contract[request[r].contract].status \notin {"none", "pending"}
             /\ ContractHasBooking(request[r].contract)
  <2>1. r \in Requests /\ request[r].status = "matched"
    BY <1>1 DEF PublicFeed, FeedStatus
  <2> QED
    BY <2>1 DEF FulfilmentInv, MatchedHasBooking, ListsInv, MatchedIsAgreed, Agreed
<1>2. ASSUME NEW r \in PublicFeed("completed")
      PROVE  /\ request[r].contract # None
             /\ contract[request[r].contract].status \in {"completed", "cancelled"}
             /\ ContractHasBooking(request[r].contract)
  <2>1. r \in Requests /\ request[r].status = "closed"
    BY <1>2 DEF PublicFeed, FeedStatus
  <2> QED
    BY <2>1 DEF FulfilmentInv, MatchedHasBooking, CardsInv, WorkIsFormed, Over
<1>3. ASSUME NEW r \in Requests
      PROVE  /\ r \in PublicFeed("all") => Opens(r, None, FALSE, FALSE)
             /\ ShownAmongFavorites(r) => Opens(r, None, FALSE, TRUE)
  BY DEF PublicFeed, FeedStatus, Opens, ShownAmongFavorites, Retained
<1> QED
  BY <1>1, <1>2, <1>3 DEF FeedShowsTheWork

\* The booking a contract shows is of its offer.
LEMMA AppointmentOfOffer ==
  ASSUME FulfilmentInv, ListsInv, NEW o \in Offers, NEW b \in Appointment(o), b # None
  PROVE  /\ b \in Bookings /\ booking[b].contract = o
         /\ booking[b].status # "absent" /\ booking[b].offer = o
<1>1. b \in Bookings /\ booking[b].contract = o
  BY DEF Appointment
<1>2. o # None
  BY ConstantsAssumption
<1>3. booking[b].status # "absent"
  BY <1>1, <1>2 DEF FulfilmentInv, BookingsWellFormed, NoBooking
<1> QED
  BY <1>1, <1>2, <1>3 DEF ListsInv, OneAppointment

LEMMA PartyListsOfInv ==
  MarketTypeOK /\ FulfilmentInv /\ CardsInv /\ ListsInv => PartyListsAgree
<1> SUFFICES ASSUME MarketTypeOK, FulfilmentInv, CardsInv, ListsInv,
                    NEW o \in Offers, contract[o].status # "none"
             PROVE  /\ \A b \in Appointment(o) : LET row == ContractRow(o, b, {}) IN
                         /\ AppointmentIsShown(o, row) /\ ReviewComesLast(o, row)
                         /\ AgreedHasAppointment(row)
                    /\ OfferIsAnswered(o) /\ ContractIsFound(o)
  BY DEF PartyListsAgree
<1>1. \A x, y \in Bookings :
        /\ Active(x) => booking[x].offer # None
        /\ Active(x) /\ Active(y) /\ RequestOf[booking[x].offer] = RequestOf[booking[y].offer]
             => x = y
  BY DEF ListsInv, OneAppointment, Active
<1>2. ASSUME NEW b \in Appointment(o)
      PROVE  LET row == ContractRow(o, b, {}) IN
               /\ AppointmentIsShown(o, row) /\ ReviewComesLast(o, row)
               /\ AgreedHasAppointment(row)
  <2> DEFINE row == ContractRow(o, b, {})
  <2>1. /\ row.booking = b /\ row.status = contract[o].status
        /\ row.reviewProvider = MayReview(b, "provider", {})
        /\ row.reviewClient = MayReview(b, "client", {})
    BY DEF ContractRow
  <2> HIDE DEF row
  <2>2. ASSUME b # None, Active(b)
        PROVE  /\ BookingsOfRequest(RequestOf[o]) = {b}
               /\ \A u \in Parties(o) : b \in BookingList(u, {"confirmed", "completed"})
    <3>1. b \in Bookings /\ booking[b].offer = o
      BY <2>2, AppointmentOfOffer
    <3>2. b \in BookingsOfRequest(RequestOf[o])
      BY <1>1, <2>2, <3>1 DEF BookingsOfRequest
    <3>3. \A x \in BookingsOfRequest(RequestOf[o]) : x = b
      BY <1>1, <2>2, <3>1 DEF BookingsOfRequest
    <3>4. \A u \in Parties(o) : b \in BookingList(u, {"confirmed", "completed"})
      BY <2>2, <3>1 DEF BookingList, Active, Owns
    <3> QED
      BY <3>2, <3>3, <3>4
  <2>3. ASSUME b # None, booking[b].status = "completed",
               NEW x \in Bookings, booking[x].status = "confirmed"
        PROVE  RequestOf[booking[x].offer] # RequestOf[o]
    <3>1. b \in Bookings /\ booking[b].offer = o
      BY <2>3, AppointmentOfOffer
    <3> QED
      BY <1>1, <2>3, <3>1 DEF Active
  <2>4. ASSUME contract[o].status \in {"confirmed", "completed"} PROVE b # None
    <3>1. PICK x \in Bookings : booking[x].contract = o
      BY <2>4 DEF FulfilmentInv, ConfirmedHasBooking, ContractHasBooking
    <3> QED
      BY <3>1, BookingsAssumption DEF Appointment
  <2>5. AppointmentIsShown(o, row)
    BY <2>1, <2>2 DEF AppointmentIsShown
  <2>6. ReviewComesLast(o, row)
    BY <2>1, <2>3 DEF ReviewComesLast, MayReview, BookingList
  <2>7. AgreedHasAppointment(row)
    BY <2>1, <2>4 DEF AgreedHasAppointment
  <2> QED
    BY <2>5, <2>6, <2>7 DEF row
<1>3. ASSUME NEW u \in Parties(o), NEW made \in OfferRows(u), made.offer = o
      PROVE  /\ made.status # "sent"
             /\ made.requestStatus # "deleted" => o \in OffersOnRequest(None, RequestOf[o])
  <2>1. PICK x \in Offers :
          /\ OfferExists(x)
          /\ made = [offer |-> x, status |-> offer[x].status,
                     requestStatus |-> request[RequestOf[x]].status]
    BY <1>3 DEF OfferRows
  <2>2. x = o /\ made.status = offer[o].status
        /\ made.requestStatus = request[RequestOf[o]].status
    BY <1>3, <2>1
  <2>3. offer[o].status # "sent"
    BY DEF CardsInv, FormedIsAnswered, Formed, Answered
  <2> QED
    BY <2>1, <2>2, <2>3 DEF OffersOnRequest, OffersFor, RequestExists
<1>4. ASSUME NEW u \in {None} \union Providers, OpensContract(u, o)
      PROVE  \E role \in {"client", "provider"}, s \in ContractStatuses :
               /\ o \in ContractList(u, role, {s})
               /\ \A other \in ContractStatuses \ {s} :
                    o \notin ContractList(u, "all", {other})
  <2>1. contract[o].status \in ContractStatuses
    BY DEF MarketTypeOK, TypeOK, ContractDoc, ContractStatuses
  <2>2. u = None \/ u = ProviderOf[o]
    BY <1>4 DEF OpensContract, Owns, Parties
  <2>3. \E role \in {"client", "provider"} : o \in ContractList(u, role, {contract[o].status})
    BY <2>2 DEF ContractList, Owns, Parties
  <2>4. \A other \in ContractStatuses \ {contract[o].status} :
          o \notin ContractList(u, "all", {other})
    BY DEF ContractList
  <2> QED
    BY <2>1, <2>3, <2>4
<1> QED
  BY <1>2, <1>3, <1>4 DEF OfferIsAnswered, ContractIsFound

\* The public lists show work as agreed or over when it is, both parties find the job,
\* its appointment and its reviews in their own lists alike, and what a list shows can be
\* opened, whatever confirmations, completions, cancellations and reschedulings overlap.
THEOREM ListsAlwaysShowTheWork == MarketSpec => []ListsShowTheWork
<1>1. MarketTypeOK /\ FulfilmentInv /\ CardsInv /\ ListsInv => ListsShowTheWork
  BY FeedOfInv, PartyListsOfInv DEF ListsShowTheWork
<1> QED
  BY <1>1, ListsInvAlways, PTL

-----------------------------------------------------------------------------
(* Walks along links, and the history of a booking.                        *)

\* The least of some numbers.
LEMMA LeastNumber ==
  ASSUME NEW T, T \subseteq Nat, T # {}
  PROVE  \E n \in T : \A m \in T : n <= m
<1>1. PICK n \in T : \A m \in T : ~(<<m, n>> \in OpToRel(<, Nat))
  BY NatLessThanWellFounded, WFMin
<1>2. ASSUME NEW m \in T PROVE n <= m
  <2>1. ~(m < n)
    BY <1>1 DEF OpToRel
  <2> QED
    BY <2>1
<1> QED
  BY <1>2

IsIteration(f, S, step, x, N) ==
  f \in [0..N -> S] /\ f[0] = x /\ \A n \in 1..N : f[n] = step[f[n - 1]]

\* A function of the numbers up to N is given by its first value and the step to the
\* next one.
LEMMA Iterated ==
  ASSUME NEW S, NEW step \in [S -> S], NEW x \in S, NEW N \in Nat
  PROVE  \E f : IsIteration(f, S, step, x, N)
<1> DEFINE Good(k, f) == /\ f \in [0..k -> S] /\ f[0] = x
                         /\ \A n \in 1..k : f[n] = step[f[n - 1]]
           Bad == {k \in Nat : ~ \E f \in [0..k -> S] : Good(k, f)}
<1>1. 0 \notin Bad
  <2>1. Good(0, [n \in 0..0 |-> x])
    OBVIOUS
  <2> QED
    BY <2>1
<1>2. Bad \subseteq Nat
  OBVIOUS
<1>3. ASSUME NEW k \in Bad, \A m \in Bad : k <= m PROVE FALSE
  <2>1. k \in Nat /\ k # 0 /\ k - 1 \in Nat /\ k - 1 \notin Bad
    <3> HIDE DEF Bad
    <3> QED
      BY <1>1, <1>2, <1>3
  <2>2. PICK f \in [0..(k - 1) -> S] : Good(k - 1, f)
    BY <2>1
  <2> DEFINE g == [n \in 0..k |-> IF n = k THEN step[f[k - 1]] ELSE f[n]]
  <2>3. g \in [0..k -> S]
    BY <2>1, <2>2
  <2>4. g[0] = x
    BY <2>1, <2>2
  <2>5. ASSUME NEW n \in 1..k PROVE g[n] = step[g[n - 1]]
    BY <2>1, <2>2
  <2>6. Good(k, g)
    BY <2>3, <2>4, <2>5
  <2> QED
    BY <2>3, <2>6
<1>4. Bad = {}
  <2> HIDE DEF Bad
  <2> QED
    BY <1>2, <1>3, LeastNumber
<1>5. PICK f \in [0..N -> S] : Good(N, f)
  BY <1>4
<1> QED
  BY <1>5 DEF IsIteration

\* What a walk of at most N hops along link looks like.
IsWalk(w, B, link, b, N) ==
  /\ w \in Seq(B)
  /\ Len(w) \in 1..(N + 1)
  /\ w[1] = b
  /\ \A i \in 2..Len(w) : w[i] = link[w[i - 1]]
  /\ Len(w) <= N => link[w[Len(w)]] = None

LEMMA HopsMakeAWalk ==
  ASSUME NEW B, None \notin B, NEW link \in [B -> B \union {None}], NEW b \in B,
         NEW N \in Nat, NEW f, f[0] = <<b>>,
         \A n \in 1..N :
           f[n] = IF link[f[n - 1][Len(f[n - 1])]] = None THEN f[n - 1]
                  ELSE Append(f[n - 1], link[f[n - 1][Len(f[n - 1])]])
  PROVE  \A n \in 0..N : IsWalk(f[n], B, link, b, n)
<1> DEFINE Bad == {n \in 0..N : ~IsWalk(f[n], B, link, b, n)}
<1>1. 0 \notin Bad
  <2>1. f[0] \in Seq(B) /\ Len(f[0]) = 1 /\ f[0][1] = b
    OBVIOUS
  <2>2. IsWalk(f[0], B, link, b, 0)
    BY <2>1 DEF IsWalk
  <2> QED
    BY <2>2
<1>2. ASSUME NEW n \in Bad, \A m \in Bad : n <= m PROVE FALSE
  <2> DEFINE w == f[n - 1]
             k == Len(w)
             e == link[w[k]]
  <2>1. n \in 1..N /\ n - 1 \in 0..N /\ n - 1 \notin Bad
    <3>1. n \in 0..N
      OBVIOUS
    <3> HIDE DEF Bad
    <3> QED
      BY <1>1, <1>2, <3>1
  <2>2. IsWalk(w, B, link, b, n - 1)
    BY <2>1
  <2>3. w \in Seq(B) /\ k \in 1..n /\ w[k] \in B
    BY <2>1, <2>2 DEF IsWalk
  <2>4. f[n] = IF e = None THEN w ELSE Append(w, e)
    BY <2>1
  <2>5. CASE e = None
    BY <2>1, <2>2, <2>4, <2>5, <1>2, SMTT(30) DEF IsWalk
  <2>6. CASE e # None
    <3> DEFINE v == Append(w, e)
    <3>1. e \in B
      BY <2>3, <2>6
    <3>2. /\ v \in Seq(B) /\ Len(v) = k + 1 /\ v[k + 1] = e
          /\ \A i \in 1..k : v[i] = w[i]
      BY <2>3, <3>1
    <3>3. k = n
      BY <2>1, <2>2, <2>3, <2>6 DEF IsWalk
    <3>4. \A i \in 2..Len(v) : v[i] = link[v[i - 1]]
      <4> TAKE i \in 2..Len(v)
      <4>1. CASE i = k + 1
        <5>1. v[i - 1] = w[k]
          BY <4>1, <3>2, <2>3
        <5> QED
          BY <4>1, <5>1, <3>2
      <4>2. CASE i \in 2..k
        <5>1. v[i] = w[i] /\ v[i - 1] = w[i - 1]
          BY <4>2, <3>2, <2>3
        <5> QED
          BY <4>2, <5>1, <2>2 DEF IsWalk
      <4> QED
        BY <4>1, <4>2, <3>2, <2>3
    <3>5. v[1] = b
      BY <2>2, <2>3, <3>2 DEF IsWalk
    <3>6. f[n] = v
      BY <2>4, <2>6
    <3>7. IsWalk(v, B, link, b, n)
      BY <2>1, <3>2, <3>3, <3>4, <3>5 DEF IsWalk
    <3> QED
      BY <3>6, <3>7, <1>2
  <2> QED
    BY <2>5, <2>6
<1>3. Bad \subseteq Nat
  OBVIOUS
<1>4. Bad = {}
  <2> HIDE DEF Bad
  <2> QED
    BY <1>2, <1>3, LeastNumber
<1> QED
  BY <1>4

\* Links in both directions that agree and lead in no circle.
AreChains(B, from, to) ==
  /\ None \notin B
  /\ from \in [B -> B \union {None}] /\ to \in [B -> B \union {None}]
  /\ \A x \in B : to[x] # None => from[to[x]] = x
  /\ \A x \in B : from[x] # None => to[from[x]] = x
  /\ \A S \in (SUBSET B) \ {{}} : \E x \in S : from[x] \notin S

\* Whoever walks along links that agree and lead in no circle meets nothing twice.
LEMMA WalksMeetNothingTwice ==
  ASSUME NEW B, NEW from, NEW to, AreChains(B, from, to), NEW link \in {from, to},
         NEW b, NEW N \in Nat, NEW w, IsWalk(w, B, link, b, N)
  PROVE  \A i, j \in 1..Len(w) : w[i] = w[j] => i = j
<1>1. ASSUME NEW i \in 1..Len(w), NEW j \in 1..Len(w), i < j, w[i] = w[j] PROVE FALSE
  <2> DEFINE S == {w[k] : k \in i..(j - 1)}
  <2>1. w \in Seq(B) /\ Len(w) \in Nat
    BY DEF IsWalk
  <2>2. \A k \in i..(j - 1) : w[k] \in B /\ w[k + 1] \in B
    BY <1>1, <2>1
  <2>3. S \subseteq B /\ w[i] \in S
    BY <1>1, <2>2
  <2>4. \A k \in i..(j - 1) : w[k + 1] = link[w[k]] /\ w[k + 1] # None
    <3> TAKE k \in i..(j - 1)
    <3>1. k + 1 \in 2..Len(w) /\ (k + 1) - 1 = k
      BY <1>1, <2>1
    <3>2. w[k + 1] = link[w[k]]
      BY <3>1 DEF IsWalk
    <3> QED
      BY <3>2, <2>2 DEF AreChains
  <2>5. \A k \in i..(j - 1) : w[k + 1] \in S
    <3> TAKE k \in i..(j - 1)
    <3>1. CASE k = j - 1
      BY <3>1, <1>1, <2>1, <2>3
    <3>2. CASE k # j - 1
      <4>1. k + 1 \in i..(j - 1)
        BY <3>2, <1>1, <2>1
      <4> QED
        BY <4>1
    <3> QED
      BY <3>1, <3>2
  <2>6. ASSUME NEW k \in i..(j - 1) PROVE from[w[k]] \in S
    <3>1. CASE link = from
      BY <3>1, <2>4, <2>5
    <3>2. CASE link = to
      <4>1. \E m \in i..(j - 1) : w[m + 1] = w[k]
        <5>1. CASE k = i
          <6>1. j - 1 \in i..(j - 1) /\ (j - 1) + 1 = j
            BY <1>1, <2>1
          <6> QED
            BY <5>1, <6>1, <1>1
        <5>2. CASE k # i
          <6>1. k - 1 \in i..(j - 1) /\ (k - 1) + 1 = k
            BY <5>2, <1>1, <2>1
          <6> QED
            BY <6>1
        <5> QED
          BY <5>1, <5>2
      <4>2. PICK m \in i..(j - 1) : w[m + 1] = w[k]
        BY <4>1
      <4>3. to[w[m]] = w[k] /\ to[w[m]] # None /\ w[m] \in B
        BY <3>2, <4>2, <2>4, <2>2
      <4>4. from[w[k]] = w[m]
        BY <4>3 DEF AreChains
      <4> QED
        BY <4>4
    <3> QED
      BY <3>1, <3>2
  <2>7. \A x \in S : from[x] \in S
    BY <2>6
  <2> HIDE DEF S
  <2> QED
    BY <2>3, <2>7 DEF AreChains
<1> QED
  <2>1. Len(w) \in Nat
    BY DEF IsWalk
  <2> QED
    BY <1>1, <2>1

\* A walk stays within every set its links stay within.
LEMMA WalkStaysInside ==
  ASSUME NEW B, NEW link, NEW b, NEW N \in Nat, NEW w, IsWalk(w, B, link, b, N),
         None \notin B, NEW S, b \in S,
         \A x \in S : link[x] # None => link[x] \in S
  PROVE  \A i \in 1..Len(w) : w[i] \in S
<1> DEFINE Bad == {i \in 1..Len(w) : w[i] \notin S}
<1>1. w \in Seq(B) /\ Len(w) \in Nat /\ w[1] = b
  BY DEF IsWalk
<1>2. ASSUME NEW i \in Bad, \A m \in Bad : i <= m PROVE FALSE
  <2>1. i \in 1..Len(w) /\ i # 1 /\ i - 1 \in 1..Len(w) /\ i - 1 \notin Bad
    <3>1. i # 1
      BY <1>1
    <3>2. i \in 1..Len(w)
      OBVIOUS
    <3> HIDE DEF Bad
    <3> QED
      BY <1>1, <1>2, <3>1, <3>2
  <2>2. w[i - 1] \in S
    BY <2>1
  <2>3. i \in 2..Len(w)
    BY <2>1, <1>1
  <2>4. w[i] = link[w[i - 1]] /\ w[i] # None
    BY <1>1, <2>1, <2>3 DEF IsWalk
  <2> QED
    BY <2>2, <2>4
<1>3. Bad \subseteq Nat
  BY <1>1
<1>4. Bad = {}
  <2> HIDE DEF Bad
  <2> QED
    BY <1>2, <1>3, LeastNumber
<1> QED
  BY <1>4

\* So a walk within few bookings ends.
LEMMA WalkEnds ==
  ASSUME NEW B, NEW from, NEW to, AreChains(B, from, to), NEW link \in {from, to},
         NEW b, NEW N \in Nat, NEW w, IsWalk(w, B, link, b, N),
         NEW C, IsFiniteSet(C), Cardinality(C) <= N,
         \A i \in 1..Len(w) : w[i] \in C
  PROVE  Len(w) <= N /\ link[w[Len(w)]] = None
<1> DEFINE n == Len(w)
           f == [i \in 1..n |-> w[i]]
<1>1. n \in Nat
  BY DEF IsWalk
<1>2. f \in Injection(1..n, C)
  BY WalksMeetNothingTwice DEF Injection, IsInjective
<1>3. Cardinality(1..n) <= Cardinality(C)
  BY <1>2, FS_Injection
<1>4. Cardinality(1..n) = n
  <2> HIDE DEF n
  <2>1. 1 \in Int /\ n \in Int
    BY <1>1
  <2>2. Cardinality(1..n) = IF 1 > n THEN 0 ELSE n - 1 + 1
    BY <2>1, FS_Interval
  <2> QED
    BY <1>1, <2>2
<1>5. Cardinality(C) \in Nat
  BY FS_CardinalityType
<1>6. n <= N
  BY <1>1, <1>3, <1>4, <1>5
<1> QED
  BY <1>6 DEF IsWalk

\* What a walk from a root to the end has met is closed under both links.
LEMMA WholeWalkIsClosed ==
  ASSUME NEW B, NEW from, NEW to, AreChains(B, from, to),
         NEW r \in B, from[r] = None, NEW N \in Nat, NEW w, IsWalk(w, B, to, r, N),
         to[w[Len(w)]] = None, NEW i \in 1..Len(w)
  PROVE  /\ from[w[i]] # None => i \in 2..Len(w) /\ from[w[i]] = w[i - 1]
         /\ i # 1 => from[w[i]] = w[i - 1]
         /\ to[w[i]] # None => i + 1 \in 1..Len(w) /\ to[w[i]] = w[i + 1]
<1>1. w \in Seq(B) /\ Len(w) \in Nat /\ w[1] = r
  BY DEF IsWalk
<1>2. i # 1 => i \in 2..Len(w) /\ from[w[i]] = w[i - 1]
  <2> HAVE i # 1
  <2>1. i \in 2..Len(w) /\ i - 1 \in 1..Len(w)
    BY <1>1
  <2>2. w[i] = to[w[i - 1]] /\ w[i] \in B /\ w[i - 1] \in B
    BY <1>1, <2>1 DEF IsWalk
  <2> QED
    BY <2>1, <2>2 DEF AreChains
<1>3. i # Len(w) => i + 1 \in 1..Len(w) /\ to[w[i]] = w[i + 1]
  <2> HAVE i # Len(w)
  <2>1. i + 1 \in 2..Len(w) /\ (i + 1) - 1 = i
    BY <1>1
  <2> QED
    BY <2>1 DEF IsWalk
<1>4. from[w[i]] # None => i # 1
  BY <1>1
<1>5. to[w[i]] # None => i # Len(w)
  OBVIOUS
<1> QED
  BY <1>2, <1>3, <1>4, <1>5

\* The way back: what is closed under the links down a walk and holds its end holds
\* its beginning.
LEMMA WayBack ==
  ASSUME NEW B, NEW from, NEW to, AreChains(B, from, to),
         NEW b, NEW N \in Nat, NEW v, IsWalk(v, B, from, b, N),
         NEW T, v[Len(v)] \in T, \A x \in T : to[x] # None => to[x] \in T
  PROVE  b \in T
<1> DEFINE Bad == {k \in 0..(Len(v) - 1) : v[Len(v) - k] \notin T}
<1>1. v \in Seq(B) /\ Len(v) \in Nat /\ Len(v) >= 1 /\ v[1] = b
  BY DEF IsWalk
<1>2. ASSUME NEW k \in Bad, \A m \in Bad : k <= m PROVE FALSE
  <2>1. k \in 1..(Len(v) - 1) /\ k - 1 \in 0..(Len(v) - 1) /\ k - 1 \notin Bad
    <3>1. k # 0
      BY <1>1
    <3>2. k \in 0..(Len(v) - 1)
      OBVIOUS
    <3> HIDE DEF Bad
    <3> QED
      BY <1>1, <1>2, <3>1, <3>2
  <2> DEFINE i == Len(v) - k
  <2>2. i \in 1..Len(v) /\ i + 1 \in 2..Len(v) /\ Len(v) - (k - 1) = i + 1
    BY <1>1, <2>1
  <2>3. v[i + 1] \in T
    BY <2>1, <2>2
  <2>4. v[i] \in B /\ v[i + 1] \in B /\ (i + 1) - 1 = i
    BY <1>1, <2>2, SMTT(30)
  <2>5. v[i + 1] = from[v[i]]
    BY <2>2, <2>4 DEF IsWalk
  <2>6. to[v[i + 1]] = v[i] /\ v[i] # None
    BY <2>4, <2>5 DEF AreChains
  <2>7. v[i] \in T
    BY <2>3, <2>6
  <2> QED
    BY <2>7
<1>3. Bad \subseteq Nat
  BY <1>1
<1>4. Bad = {}
  <2> HIDE DEF Bad
  <2> QED
    BY <1>2, <1>3, LeastNumber
<1>5. Len(v) - 1 \in 0..(Len(v) - 1) /\ Len(v) - (Len(v) - 1) = 1
  BY <1>1
<1> QED
  BY <1>1, <1>4, <1>5

-----------------------------------------------------------------------------
(* The walks over the bookings. *)

\* The links of the bookings, as functions.
FromLink == [x \in Bookings |-> booking[x].from]
ToLink == [x \in Bookings |-> booking[x].to]

LEMMA LinksChain ==
  ASSUME MarketTypeOK, FulfilmentInv
  PROVE  AreChains(Bookings, FromLink, ToLink)
<1>1. \A x \in Bookings : /\ booking[x].from \in Bookings \union {None}
                          /\ booking[x].to \in Bookings \union {None}
  BY DEF MarketTypeOK, BookingDoc
<1> QED
  BY <1>1, BookingsAssumption
     DEF AreChains, FromLink, ToLink, FulfilmentInv, HistoryIsAChain

LEMMA LinkedIsLink ==
  ASSUME MarketTypeOK, FulfilmentInv, HistoryInv, NEW x \in Bookings
  PROVE  Linked(x, "from") = FromLink[x] /\ Linked(x, "to") = ToLink[x]
<1>1. booking[x].from \in Bookings \union {None} /\ booking[x].to \in Bookings \union {None}
  BY DEF MarketTypeOK, BookingDoc
<1>2. booking[x].from # None =>
        booking[booking[x].from].to = x /\ booking[booking[x].from].to # None
  BY BookingsAssumption DEF FulfilmentInv, HistoryIsAChain
<1>3. booking[x].from # None => booking[booking[x].from].offer = booking[x].offer
  BY <1>1, <1>2 DEF HistoryInv, LinksStayInOffer
<1>4. booking[x].to # None => booking[booking[x].to].offer = booking[x].offer
  BY DEF HistoryInv, LinksStayInOffer
<1> QED
  BY <1>1, <1>3, <1>4, BookingsAssumption DEF Linked, FromLink, ToLink

LEMMA WalkOnLink ==
  ASSUME NEW link \in [Bookings -> Bookings \union {None}], NEW end,
         \A x \in Bookings : Linked(x, end) = link[x],
         NEW b \in Bookings
  PROVE  IsWalk(Walk(b, end), Bookings, link, b, MaxHops)
<1> DEFINE S == Seq(Bookings) \ {<<>>}
           step == [w \in S |-> Hop(w, end)]
           W(f) == [n \in 0..MaxHops |-> IF n = 0 THEN <<b>> ELSE Hop(f[n - 1], end)]
           walk == CHOOSE f : f = W(f)
<1>1. ASSUME NEW w \in S
      PROVE  /\ Hop(w, end) = IF link[w[Len(w)]] = None THEN w
                              ELSE Append(w, link[w[Len(w)]])
             /\ Hop(w, end) \in S
  <2>1. Len(w) \in 1..Len(w) /\ w[Len(w)] \in Bookings
    OBVIOUS
  <2>2. Linked(Last(w), end) = link[w[Len(w)]]
    BY <2>1 DEF Last
  <2>3. link[w[Len(w)]] \in Bookings \union {None}
    BY <2>1
  <2> QED
    BY <2>2, <2>3 DEF Hop
<1>2. step \in [S -> S]
  BY <1>1
<1>3. <<b>> \in S /\ MaxHops \in Nat
  BY MaxHopsAssumption
<1>4. PICK g : IsIteration(g, S, step, <<b>>, MaxHops)
  <2> HIDE DEF S, step
  <2> QED
    BY <1>2, <1>3, Iterated
<1>5. g = W(g)
  <2>1. ASSUME NEW n \in 0..MaxHops, n # 0 PROVE g[n] = Hop(g[n - 1], end)
    <3>1. n - 1 \in 0..MaxHops /\ n \in 1..MaxHops
      BY <1>3, <2>1
    <3>2. g[n - 1] \in S /\ g[n] = step[g[n - 1]]
      <4> HIDE DEF S, step
      <4> QED
        BY <1>4, <3>1 DEF IsIteration
    <3> HIDE DEF S
    <3> QED
      BY <3>2
  <2>2. DOMAIN g = 0..MaxHops /\ g[0] = <<b>>
    BY <1>4 DEF IsIteration
  <2>3. g = [n \in 0..MaxHops |-> g[n]]
    BY <1>4, <2>2 DEF IsIteration
  <2> QED
    BY <2>1, <2>2, <2>3
<1>6. walk = W(walk)
  BY <1>5
<1> HIDE DEF walk
<1>7. walk[0] = <<b>> /\ \A n \in 1..MaxHops : walk[n] = Hop(walk[n - 1], end)
  <2>1. \A n \in 0..MaxHops :
          walk[n] = IF n = 0 THEN <<b>> ELSE Hop(walk[n - 1], end)
    BY <1>6
  <2>2. 0 \in 0..MaxHops /\ \A n \in 1..MaxHops : n \in 0..MaxHops /\ n # 0
    BY MaxHopsAssumption
  <2> QED
    BY <2>1, <2>2
<1>8. \A n \in 0..MaxHops : walk[n] \in S
  <2> DEFINE Bad == {n \in 0..MaxHops : walk[n] \notin S}
  <2>1. ASSUME NEW n \in Bad, \A m \in Bad : n <= m PROVE FALSE
    <3>1. n \in 0..MaxHops /\ n # 0
      BY <1>3, <1>7
    <3>2. n - 1 \in 0..MaxHops /\ n \in 1..MaxHops
      BY <1>3, <3>1
    <3>3. n - 1 \notin Bad
      <4> HIDE DEF Bad
      <4> QED
        BY <2>1, <1>3, <3>1
    <3>4. walk[n - 1] \in S
      BY <3>2, <3>3
    <3>5. walk[n] = Hop(walk[n - 1], end)
      BY <1>7, <3>2
    <3> HIDE DEF S
    <3> QED
      BY <1>1, <3>4, <3>5
  <2>2. Bad \subseteq Nat
    BY <1>3
  <2>3. Bad = {}
    <3> HIDE DEF Bad
    <3> QED
      BY <2>1, <2>2, LeastNumber
  <2> QED
    BY <2>3
<1>9. \A n \in 1..MaxHops :
        walk[n] = IF link[walk[n - 1][Len(walk[n - 1])]] = None THEN walk[n - 1]
                  ELSE Append(walk[n - 1], link[walk[n - 1][Len(walk[n - 1])]])
  <2> TAKE n \in 1..MaxHops
  <2>1. walk[n - 1] \in S
    BY <1>3, <1>8
  <2> HIDE DEF S
  <2> QED
    BY <1>1, <1>7, <2>1
<1>10. IsWalk(walk[MaxHops], Bookings, link, b, MaxHops)
  <2>1. \A n \in 0..MaxHops : IsWalk(walk[n], Bookings, link, b, n)
    <3> HIDE DEF S
    <3> QED
      BY MaxHopsAssumption, <1>7, <1>9, HopsMakeAWalk, BookingsAssumption
  <2> QED
    BY <2>1, MaxHopsAssumption
<1>11. Walk(b, end) = walk[MaxHops]
  BY DEF Walk, walk
<1> QED
  BY <1>10, <1>11

-----------------------------------------------------------------------------
(* The chain of a booking. *)

\* ChainOf() over links given as functions.
ChainIn(B, from, to, b) ==
  {x \in B : \A S \in SUBSET B :
     (b \in S /\ \A y \in S : {from[y], to[y]} \ {None} \subseteq S) => x \in S}

LEMMA ChainOfIsChainIn ==
  ASSUME NEW b \in Bookings
  PROVE  ChainOf(b) = ChainIn(Bookings, FromLink, ToLink, b)
<1>1. ASSUME NEW S \in SUBSET Bookings
      PROVE  (\A y \in S : {booking[y].from, booking[y].to} \ {None} \subseteq S)
             <=> (\A y \in S : {FromLink[y], ToLink[y]} \ {None} \subseteq S)
  BY DEF FromLink, ToLink
<1> QED
  BY <1>1 DEF ChainOf, ChainIn

LEMMA ChainIsClosed ==
  ASSUME NEW B, NEW from, NEW to, AreChains(B, from, to), NEW b \in B
  PROVE  LET C == ChainIn(B, from, to, b) IN
         /\ b \in C /\ C \subseteq B
         /\ \A x \in C : from[x] # None => from[x] \in C
         /\ \A x \in C : to[x] # None => to[x] \in C
         /\ \A S \in SUBSET B :
              b \in S /\ (\A y \in S : {from[y], to[y]} \ {None} \subseteq S)
                => C \subseteq S
<1>1. \A x \in B : from[x] \in B \union {None} /\ to[x] \in B \union {None}
  BY DEF AreChains
<1> QED
  BY <1>1 DEF ChainIn

\* The whole of getHistory(): a walk back to the root of a chain that is no longer than
\* the walk, and a walk forward from there.
LEMMA BackAndForth ==
  ASSUME NEW B, NEW from, NEW to, AreChains(B, from, to), NEW b \in B,
         NEW N \in Nat, NEW v, IsWalk(v, B, from, b, N),
         NEW w, IsWalk(w, B, to, v[Len(v)], N),
         IsFiniteSet(ChainIn(B, from, to, b)),
         Cardinality(ChainIn(B, from, to, b)) <= N
  PROVE  /\ Len(w) <= N
         /\ {w[i] : i \in 1..Len(w)} = ChainIn(B, from, to, b)
         /\ \A i \in 2..Len(w) : from[w[i]] = w[i - 1]
<1> DEFINE C == ChainIn(B, from, to, b)
           r == v[Len(v)]
           T == {w[i] : i \in 1..Len(w)}
<1>1. /\ b \in C /\ C \subseteq B
      /\ \A x \in C : from[x] # None => from[x] \in C
      /\ \A x \in C : to[x] # None => to[x] \in C
      /\ \A S \in SUBSET B :
           b \in S /\ (\A y \in S : {from[y], to[y]} \ {None} \subseteq S)
             => C \subseteq S
  BY ChainIsClosed
<1>2. IsFiniteSet(C) /\ Cardinality(C) <= N
  OBVIOUS
<1> HIDE DEF C
<1>3. None \notin B
  BY DEF AreChains
<1>4. \A i \in 1..Len(v) : v[i] \in C
  BY <1>1, <1>3, WalkStaysInside
<1>5. Len(v) \in 1..Len(v) /\ v \in Seq(B) /\ Len(v) \in Nat
  BY DEF IsWalk
<1>6. r \in C /\ r \in B /\ from[r] = None
  <2>1. r \in C
    BY <1>4, <1>5
  <2>2. from[r] = None
    BY <1>2, <1>4, WalkEnds
  <2> QED
    BY <1>1, <2>1, <2>2
<1>7. \A i \in 1..Len(w) : w[i] \in C
  BY <1>1, <1>3, <1>6, WalkStaysInside
<1>8. Len(w) <= N /\ to[w[Len(w)]] = None
  BY <1>2, <1>7, WalkEnds
<1>9. w \in Seq(B) /\ Len(w) \in Nat /\ 1 \in 1..Len(w) /\ w[1] = r
  BY DEF IsWalk
<1>10. \A i \in 1..Len(w) :
         /\ from[w[i]] # None => i \in 2..Len(w) /\ from[w[i]] = w[i - 1]
         /\ i # 1 => from[w[i]] = w[i - 1]
         /\ to[w[i]] # None => i + 1 \in 1..Len(w) /\ to[w[i]] = w[i + 1]
  BY <1>6, <1>8, WholeWalkIsClosed
<1>11. T \subseteq B /\ r \in T
  BY <1>9
<1>12. \A x \in T : (from[x] # None => from[x] \in T) /\ (to[x] # None => to[x] \in T)
  <2> TAKE x \in T
  <2>1. PICK i \in 1..Len(w) : x = w[i]
    OBVIOUS
  <2>2. from[x] # None => i - 1 \in 1..Len(w) /\ from[x] = w[i - 1]
    BY <2>1, <1>9, <1>10
  <2>3. to[x] # None => i + 1 \in 1..Len(w) /\ to[x] = w[i + 1]
    BY <2>1, <1>10
  <2> QED
    BY <2>2, <2>3
<1> HIDE DEF T
<1>13. b \in T
  BY <1>11, <1>12, WayBack
<1>14. C \subseteq T
  BY <1>1, <1>11, <1>12, <1>13
<1>15. T \subseteq C
  BY <1>7 DEF T
<1>16. \A i \in 2..Len(w) : from[w[i]] = w[i - 1]
  BY <1>9, <1>10
<1> QED
  BY <1>8, <1>14, <1>15, <1>16 DEF C, T

LEMMA ChainIsFinite ==
  ASSUME MarketTypeOK, FulfilmentInv, HistoryInv,
         NEW b \in Bookings, booking[b].status # "absent"
  PROVE  IsFiniteSet(ChainOf(b))
<1> DEFINE W == {x \in Bookings : booking[x].status # "absent"}
<1>1. \A x \in Bookings : /\ booking[x].from \in Bookings \union {None}
                          /\ booking[x].to \in Bookings \union {None}
  BY DEF MarketTypeOK, BookingDoc
<1>2. ASSUME NEW x \in Bookings, booking[x].from # None
      PROVE  booking[booking[x].from].status # "absent"
  <2>1. booking[x].from \in Bookings /\ booking[booking[x].from].to = x
    BY <1>1, <1>2 DEF FulfilmentInv, HistoryIsAChain
  <2> QED
    BY <2>1, BookingsAssumption DEF FulfilmentInv, BookingsWellFormed, NoBooking
<1>3. ASSUME NEW x \in Bookings, booking[x].to # None
      PROVE  booking[booking[x].to].status # "absent"
  <2>1. booking[x].to \in Bookings /\ booking[booking[x].to].from = x
    BY <1>1, <1>3 DEF FulfilmentInv, HistoryIsAChain
  <2> QED
    BY <2>1, BookingsAssumption DEF FulfilmentInv, BookingsWellFormed, NoBooking
<1>4. W \in SUBSET Bookings /\ b \in W
  OBVIOUS
<1>5. \A y \in W : {booking[y].from, booking[y].to} \ {None} \subseteq W
  BY <1>1, <1>2, <1>3
<1>6. ChainOf(b) \subseteq W
  BY <1>4, <1>5 DEF ChainOf
<1>7. IsFiniteSet(W)
  BY DEF HistoryInv, FinitelyManyBooked
<1> QED
  BY <1>6, <1>7, FS_Subset

LEMMA HistoryOfInv ==
  MarketTypeOK /\ FulfilmentInv /\ HistoryInv => HistoryShowsTheChain
<1> SUFFICES ASSUME MarketTypeOK, FulfilmentInv, HistoryInv,
                    NEW b \in Bookings, booking[b].status # "absent"
             PROVE  /\ ~Conflict(b)
                    /\ Cardinality(ChainOf(b)) <= MaxHops =>
                         /\ ToSet(Items(b)) = ChainOf(b)
                         /\ IsInjective(Items(b))
                         /\ \A i \in 2..Len(Items(b)) :
                              booking[Items(b)[i]].from = Items(b)[i - 1]
  BY DEF HistoryShowsTheChain
<1> DEFINE v == Walk(b, "from")
           r == Root(b)
           w == Walk(r, "to")
<1>1. AreChains(Bookings, FromLink, ToLink)
  BY LinksChain
<1>2. /\ FromLink \in [Bookings -> Bookings \union {None}]
      /\ ToLink \in [Bookings -> Bookings \union {None}]
  BY <1>1 DEF AreChains
<1>3. IsWalk(v, Bookings, FromLink, b, MaxHops)
  BY <1>2, LinkedIsLink, WalkOnLink
<1>4. r = v[Len(v)] /\ r \in Bookings
  BY <1>3 DEF Root, Last, IsWalk
<1>5. IsWalk(w, Bookings, ToLink, r, MaxHops)
  BY <1>2, <1>4, LinkedIsLink, WalkOnLink
<1>6. MaxHops \in Nat
  BY MaxHopsAssumption
<1> HIDE DEF v, r, w
<1>7. IsInjective(v) /\ IsInjective(w)
  <2>1. /\ \A i, j \in 1..Len(v) : v[i] = v[j] => i = j
        /\ \A i, j \in 1..Len(w) : w[i] = w[j] => i = j
    BY <1>1, <1>3, <1>5, <1>6, WalksMeetNothingTwice
  <2>2. DOMAIN v = 1..Len(v) /\ DOMAIN w = 1..Len(w)
    BY <1>3, <1>5 DEF IsWalk
  <2> QED
    BY <2>1, <2>2 DEF IsInjective
<1>8. ~Conflict(b)
  BY <1>7 DEF Conflict, v, r, w
<1>9. ASSUME Cardinality(ChainOf(b)) <= MaxHops
      PROVE  /\ ToSet(Items(b)) = ChainOf(b)
             /\ IsInjective(Items(b))
             /\ \A i \in 2..Len(Items(b)) :
                  booking[Items(b)[i]].from = Items(b)[i - 1]
  <2> DEFINE C == ChainIn(Bookings, FromLink, ToLink, b)
  <2>1. IsFiniteSet(C) /\ Cardinality(C) <= MaxHops
    BY <1>9, ChainIsFinite, ChainOfIsChainIn
  <2>2. /\ Len(w) <= MaxHops
        /\ {w[i] : i \in 1..Len(w)} = C
        /\ \A i \in 2..Len(w) : FromLink[w[i]] = w[i - 1]
    BY <1>1, <1>3, <1>4, <1>5, <1>6, <2>1, BackAndForth, SMTT(30)
  <2>3. w \in Seq(Bookings) /\ Len(w) \in Nat
    BY <1>5 DEF IsWalk
  <2>4. Min({Len(w), MaxHops}) = Len(w)
    BY <1>6, <2>2, <2>3 DEF Min
  <2>5. Items(b) = SubSeq(w, 1, Len(w))
    BY <2>4 DEF Items, w, r
  <2>6. SubSeq(w, 1, Len(w)) = w
    BY <2>3
  <2>7. Items(b) = w
    BY <2>5, <2>6
  <2>8. ToSet(w) = {w[i] : i \in 1..Len(w)}
    BY <2>3 DEF ToSet
  <2>9. \A i \in 2..Len(w) : booking[w[i]].from = w[i - 1]
    <3> TAKE i \in 2..Len(w)
    <3>1. w[i] \in Bookings
      BY <2>3
    <3> QED
      BY <2>2, <3>1 DEF FromLink
  <2> QED
    BY <1>7, <2>2, <2>7, <2>8, <2>9, ChainOfIsChainIn
<1> QED
  BY <1>8, <1>9

-----------------------------------------------------------------------------
(* Links stay in the offer. *)

LEMMA HistoryInvStep ==
  ASSUME MarketTypeOK, FulfilmentInv, HistoryInv, [MarketNext]_marketVars
  PROVE  HistoryInv'
<1> DEFINE W == {b \in Bookings : booking[b].status # "absent"}
           Kept(x) == booking'[x].to = booking[x].to /\ booking'[x].offer = booking[x].offer
<1>1. BookingWrite
  BY EveryBookingWrite
<1>2. IsFiniteSet(W)
  BY DEF HistoryInv, FinitelyManyBooked
<1>3. ASSUME NEW n \in Bookings, W' \subseteq W \union {n} PROVE FinitelyManyBooked'
  <2>1. IsFiniteSet(W \union {n})
    BY <1>2, FS_AddElement
  <2>2. IsFiniteSet(W')
    BY <1>3, <2>1, FS_Subset
  <2> QED
    BY <2>2 DEF FinitelyManyBooked
<1>4. \A x \in Bookings : booking[x].to \in Bookings \union {None}
  BY DEF MarketTypeOK, BookingDoc
<1>5. \A x \in Bookings : booking[x].to # None =>
        /\ booking[booking[x].to].status # "absent"
        /\ booking[booking[x].to].offer = booking[x].offer
  <2> TAKE x \in Bookings
  <2> HAVE booking[x].to # None
  <2>1. booking[x].to \in Bookings /\ booking[booking[x].to].from = x
    BY <1>4 DEF FulfilmentInv, HistoryIsAChain
  <2> QED
    BY <2>1, BookingsAssumption
       DEF FulfilmentInv, BookingsWellFormed, NoBooking, HistoryInv, LinksStayInOffer
<1>6. \A x \in Bookings : booking[x].status = "absent" => booking[x].to = None
  BY DEF FulfilmentInv, BookingsWellFormed, NoBooking
<1>7. CASE booking' = booking
  BY <1>7 DEF HistoryInv, LinksStayInOffer, FinitelyManyBooked
<1>8. ASSUME NEW n \in Bookings, NEW o \in Offers, NEW c \in {None, o}, Insert(n, o, c)
      PROVE  HistoryInv'
  <2>1. /\ booking[n].status = "absent" /\ booking'[n].to = None
        /\ \A x \in Bookings \ {n} : booking'[x] = booking[x]
    BY <1>8, InsertEffect
  <2>2. LinksStayInOffer'
    BY <1>4, <1>5, <2>1 DEF LinksStayInOffer
  <2>3. W' \subseteq W \union {n}
    BY <2>1
  <2> QED
    BY <1>3, <2>2, <2>3 DEF HistoryInv
<1>9. ASSUME NEW b \in Bookings, NEW status \in {"cancelled", "completed"},
             SetBookingStatus(b, status)
      PROVE  HistoryInv'
  <2>1. /\ booking'[b].to = booking[b].to /\ booking'[b].offer = booking[b].offer
        /\ \A x \in Bookings \ {b} : booking'[x] = booking[x]
    BY <1>9, SetBookingStatusEffect
  <2>2. \A x \in Bookings :
          booking'[x].to = booking[x].to /\ booking'[x].offer = booking[x].offer
    BY <2>1
  <2>3. LinksStayInOffer'
    BY <1>4, <1>5, <2>2 DEF LinksStayInOffer
  <2>4. W' \subseteq W \union {b}
    BY <2>1
  <2> QED
    BY <1>3, <2>3, <2>4 DEF HistoryInv
<1>10. ASSUME NEW b \in Bookings, NEW n \in Bookings, Replaced(b, n)
       PROVE  HistoryInv'
  <2>1. booking[b].status = "confirmed" /\ booking[n].status = "absent" /\ b # n
    BY <1>10 DEF Replaced
  <2>2. /\ booking'[b].to = n /\ booking'[b].offer = booking[b].offer
        /\ booking'[n].to = None /\ booking'[n].offer = booking[b].offer
        /\ \A x \in Bookings \ {b, n} : booking'[x] = booking[x]
    BY <1>10, ReplacedEffect
  <2>3. ASSUME NEW x \in Bookings, booking'[x].to # None
        PROVE  booking'[booking'[x].to].offer = booking'[x].offer
    <3>1. CASE x = b
      BY <2>2, <3>1
    <3>2. CASE x # b
      <4>1. x # n /\ booking'[x] = booking[x]
        BY <2>2, <2>3, <3>2
      <4>2. booking[x].to \in Bookings /\ booking[x].to # n
        BY <1>4, <1>5, <2>1, <2>3, <4>1
      <4>3. booking'[booking[x].to].offer = booking[booking[x].to].offer
        BY <2>2, <4>2
      <4> QED
        BY <1>5, <2>3, <4>1, <4>3
    <3> QED
      BY <3>1, <3>2
  <2>4. LinksStayInOffer'
    BY <2>3 DEF LinksStayInOffer
  <2>5. W' \subseteq W \union {n}
    BY <2>1, <2>2
  <2> QED
    BY <1>3, <2>4, <2>5 DEF HistoryInv
<1> QED
  BY <1>1, <1>7, <1>8, <1>9, <1>10 DEF BookingWrite

LEMMA HistoryInvInit == MarketInit => HistoryInv
<1> SUFFICES ASSUME MarketInit PROVE HistoryInv
  OBVIOUS
<1>1. \A b \in Bookings : booking[b] = NoBooking
  BY DEF MarketInit, FulfilmentInit
<1>2. {b \in Bookings : booking[b].status # "absent"} = {}
  BY <1>1 DEF NoBooking
<1>3. FinitelyManyBooked
  BY <1>2, FS_EmptySet DEF FinitelyManyBooked
<1> QED
  BY <1>1, <1>3 DEF HistoryInv, LinksStayInOffer, NoBooking

\* However often a booking was rescheduled, and whatever overlapped, its history is never
\* refused as circular, and a chain no longer than the walk is listed whole, each
\* booking once and behind the one it replaced.
THEOREM HistoriesAreShownWhole == MarketSpec => []HistoryShowsTheChain
<1>1. MarketSpec => [](MarketTypeOK /\ FulfilmentInv /\ HistoryInv)
  BY FulfilmentInvAlways, HistoryInvInit, HistoryInvStep, PTL DEF MarketSpec
<1> QED
  BY <1>1, HistoryOfInv, PTL
=============================================================================
