----------------------------- MODULE Fulfilment -----------------------------
(***************************************************************************)
(* From a contract to a finished job, on top of Matching.                  *)
(*                                                                         *)
(* The module covers confirmByClient() and complete() of                   *)
(* contracts.service.ts and the writing handlers of bookings.service.ts,   *)
(* which run beside those of Matching and share the requests and contracts *)
(* collections with them.  They are jobs of a second kind, "tasks".        *)
(*                                                                         *)
(* The slot, blackout and time-of-day rules of the bookings service only   *)
(* refuse calls.  Here they may refuse any call, by TaskFail or by no step *)
(* at all, so nothing below depends on them.  A handler whose single write *)
(* repeats the check of the read before it is one step.                    *)
(***************************************************************************)
EXTENDS Matching

CONSTANTS
  Bookings,     \* ids of bookings
  Tasks         \* task invocations that may be in flight together

ASSUME BookingsAssumption == None \notin Bookings

VARIABLES
  booking,      \* the bookings collection
  task          \* the tasks in flight

marketVars == <<request, offer, contract, job, booking, task>>

-----------------------------------------------------------------------------
(* The bookings collection and its unique indexes. *)

BookingDoc ==
  [status: {"absent", "confirmed", "cancelled", "completed"},
   offer: Offers \union {None},       \* offerId; with it the requestId
   contract: Offers \union {None},    \* contractId
   from: Bookings \union {None},      \* rescheduledFromId
   to: Bookings \union {None}]        \* rescheduledToId

NoBooking == [status |-> "absent", offer |-> None, contract |-> None,
              from |-> None, to |-> None]

Active(b) == booking[b].status \in {"confirmed", "completed"}

SameRequest(b, o) ==
  booking[b].offer # None /\ RequestOf[booking[b].offer] = RequestOf[o]

\* Variant: the index covers confirmed bookings only.
NoOtherConfirmed(o, except) ==
  \A b \in Bookings \ except : SameRequest(b, o) => booking[b].status # "confirmed"

\* uniq_active_booking_per_request, for a document to be active beside `except`.
NoOtherActive(o, except) ==
  \A b \in Bookings \ except : SameRequest(b, o) => ~Active(b)

\* uniq_contract_booking: of any status.
ContractHasBooking(o) == \E b \in Bookings : booking[b].contract = o

\* uniq_rescheduled_from: of any status.
IsRescheduled(b) == \E x \in Bookings : booking[x].from = b

\* bookings.service.ts createByClient(): the insert of a fresh document.
Insertable(b, o, c) ==
  /\ booking[b].status = "absent"
  /\ NoOtherActive(o, {b})
  /\ c # None => ~ContractHasBooking(c)

\* Variant: the request is stored where the offer belongs.
ConfirmedForRequest(o, c, from) ==
  [status |-> "confirmed", offer |-> RequestOf[o], contract |-> c,
   from |-> from, to |-> None]

Confirmed(o, c, from) ==
  [status |-> "confirmed", offer |-> o, contract |-> c, from |-> from, to |-> None]

Insert(b, o, c) ==
  /\ Insertable(b, o, c)
  /\ booking' = [booking EXCEPT ![b] = Confirmed(o, c, None)]

SetBookingStatus(b, status) ==
  booking' = [booking EXCEPT ![b] = [@ EXCEPT !.status = status]]

-----------------------------------------------------------------------------
(* Tasks. *)

ContractSteps == {"confirm.book", "confirm.contract", "confirm.request",
                  "complete.contract", "complete.booking", "complete.request"}

Task == {[at |-> "idle", on |-> None]}
  \union [at: ContractSteps, on: Offers]
  \union [at: {"cancel.save"}, on: Bookings]

Rest == [at |-> "idle", on |-> None]

Begin(t, step, subject) ==
  /\ task[t] = Rest
  /\ task' = [task EXCEPT ![t] = [at |-> step, on |-> subject]]

Stage(t, step) == task[t].at = step

Proceed(t, step) == task' = [task EXCEPT ![t] = [@ EXCEPT !.at = step]]

Finish(t) == task' = [task EXCEPT ![t] = Rest]

FulfilmentInit ==
  /\ booking = [b \in Bookings |-> NoBooking]
  /\ task = [t \in Tasks |-> Rest]

-----------------------------------------------------------------------------
(* contracts.service.ts confirmByClient(): three writes, no transaction.   *)

ConfirmRead(t, o) ==
  /\ contract[o].status = "pending"
  /\ Begin(t, "confirm.book", o)
  /\ UNCHANGED <<request, offer, contract, job, booking>>

\* Variant: a duplicate key is taken for "already booked".
ConfirmBookLeniently(t) ==
  LET o == task[t].on IN
  /\ Stage(t, "confirm.book")
  /\ \/ \E b \in Bookings : Insert(b, o, o)
     \/ (\A b \in Bookings : ~Insertable(b, o, o)) /\ UNCHANGED booking
  /\ Proceed(t, "confirm.contract")
  /\ UNCHANGED <<request, offer, contract, job>>

\* The lookup of a booking of this contract only refuses what the unique index
\* refuses as well.
ConfirmBook(t) ==
  LET o == task[t].on IN
  /\ Stage(t, "confirm.book")
  /\ \/ /\ \E b \in Bookings : Insert(b, o, o)
        /\ Proceed(t, "confirm.contract")
     \/ /\ \A b \in Bookings : ~Insertable(b, o, o)
        /\ Finish(t)
        /\ UNCHANGED booking
  /\ UNCHANGED <<request, offer, contract, job>>

\* Variant: the write trusts the status read before the booking was made.
ConfirmContractById(t) ==
  /\ Stage(t, "confirm.contract")
  /\ contract' = [contract EXCEPT ![task[t].on] = [@ EXCEPT !.status = "confirmed"]]
  /\ Proceed(t, "confirm.request")
  /\ UNCHANGED <<request, offer, job, booking>>

\* updateOne({_id, status: 'pending'}); whether it matched is not asked.
ConfirmContract(t) ==
  LET o == task[t].on IN
  /\ Stage(t, "confirm.contract")
  /\ contract' = IF contract[o].status = "pending"
                 THEN [contract EXCEPT ![o] = [@ EXCEPT !.status = "confirmed"]]
                 ELSE contract
  /\ Proceed(t, "confirm.request")
  /\ UNCHANGED <<request, offer, job, booking>>

\* updateOne({_id, assignedContractId: {$in: [null, cid]}}).
ConfirmRequest(t) ==
  LET o == task[t].on
      r == RequestOf[o] IN
  /\ Stage(t, "confirm.request")
  /\ request' = IF RequestExists(r) /\ request[r].contract \in {None, o}
                THEN [request EXCEPT ![r] = [@ EXCEPT !.status = "matched",
                                                      !.contract = o]]
                ELSE request
  /\ Finish(t)
  /\ UNCHANGED <<offer, contract, job, booking>>

(* contracts.service.ts complete(), likewise. *)

CompleteRead(t, o) ==
  /\ contract[o].status = "confirmed"
  /\ Begin(t, "complete.contract", o)
  /\ UNCHANGED <<request, offer, contract, job, booking>>

CompleteContract(t) ==
  LET o == task[t].on IN
  /\ Stage(t, "complete.contract")
  /\ contract' = [contract EXCEPT ![o] = [@ EXCEPT !.status = "completed"]]
  /\ Proceed(t, "complete.booking")
  /\ UNCHANGED <<request, offer, job, booking>>

\* updateOne({contractId: cid}), whatever the booking's status: it becomes
\* active, which the index refuses beside another active one of the request.
CompleteBooking(t) ==
  LET o == task[t].on
      mine == {b \in Bookings : booking[b].contract = o} IN
  /\ Stage(t, "complete.booking")
  /\ \/ /\ mine = {}
        /\ Proceed(t, "complete.request")
        /\ UNCHANGED booking
     \/ \E b \in mine :
          \/ /\ NoOtherActive(o, {b})
             /\ SetBookingStatus(b, "completed")
             /\ Proceed(t, "complete.request")
          \/ /\ ~NoOtherActive(o, {b})
             /\ Finish(t)
             /\ UNCHANGED booking
  /\ UNCHANGED <<request, offer, contract, job>>

\* Variant: closes the request of the contract whatever it is matched by now.
CompleteRequestById(t) ==
  LET r == RequestOf[task[t].on] IN
  /\ Stage(t, "complete.request")
  /\ request' = IF RequestExists(r)
                THEN [request EXCEPT ![r] = [@ EXCEPT !.status = "closed"]]
                ELSE request
  /\ Finish(t)
  /\ UNCHANGED <<offer, contract, job, booking>>

\* updateOne({_id, assignedContractId: cid}).
CompleteRequest(t) ==
  LET o == task[t].on
      r == RequestOf[o] IN
  /\ Stage(t, "complete.request")
  /\ request' = IF request[r].contract = o
                THEN [request EXCEPT ![r] = [@ EXCEPT !.status = "closed"]]
                ELSE request
  /\ Finish(t)
  /\ UNCHANGED <<offer, contract, job, booking>>

-----------------------------------------------------------------------------
(* bookings.service.ts *)

\* POST /bookings: nothing ties the booking to a contract unless the client
\* names one; here the one of the same offer.
BookDirectly(o, c) ==
  /\ c # None => contract[c].status # "none"
  /\ \E b \in Bookings : Insert(b, o, c)
  /\ UNCHANGED <<request, offer, contract, job, task>>

\* cancelByClient(): a read, and a save() that repeats no check.
CancelBookingRead(t, b) ==
  /\ booking[b].status = "confirmed"
  /\ Begin(t, "cancel.save", b)
  /\ UNCHANGED <<request, offer, contract, job, booking>>

\* Variant: save() writes back the whole document as it was read.
CancelBookingSaveAll(t) ==
  /\ Stage(t, "cancel.save")
  /\ booking' = [booking EXCEPT
       ![task[t].on] = [@ EXCEPT !.status = "cancelled", !.to = None]]
  /\ Finish(t)
  /\ UNCHANGED <<request, offer, contract, job>>

\* save() sends the modified paths only.
CancelBookingSave(t) ==
  /\ Stage(t, "cancel.save")
  /\ SetBookingStatus(task[t].on, "cancelled")
  /\ Finish(t)
  /\ UNCHANGED <<request, offer, contract, job>>

\* cancelByProvider(), cancelByAdmin().
CancelBookingAtomic(b) ==
  /\ booking[b].status = "confirmed"
  /\ SetBookingStatus(b, "cancelled")
  /\ UNCHANGED <<request, offer, contract, job, task>>

\* bookings.service.ts complete(), by the provider after the end of the slot.
FinishBooking(b) ==
  /\ booking[b].status = "confirmed"
  /\ SetBookingStatus(b, "completed")
  /\ UNCHANGED <<request, offer, contract, job, task>>

\* reschedule(): one MongoDB transaction.  The copy has no contractId.  A
\* booking already rescheduled is answered with its successor, without a write.
RescheduleBooking(b) ==
  LET o == booking[b].offer IN
  /\ booking[b].status = "confirmed"
  /\ \E n \in Bookings :
       /\ booking[n].status = "absent"
       /\ NoOtherActive(o, {b, n})
       /\ ~IsRescheduled(b)
       /\ booking' = [booking EXCEPT
                        ![b] = [@ EXCEPT !.status = "cancelled", !.to = n],
                        ![n] = Confirmed(o, None, b)]
  /\ UNCHANGED <<request, offer, contract, job, task>>

-----------------------------------------------------------------------------
TaskFail(t) ==
  /\ task[t] # Rest
  /\ Finish(t)
  /\ UNCHANGED <<request, offer, contract, job, booking>>

TaskCall(t) ==
  \/ \E o \in Offers : ConfirmRead(t, o) \/ CompleteRead(t, o)
  \/ \E b \in Bookings : CancelBookingRead(t, b)

TaskResume(t) ==
  \/ ConfirmBook(t) \/ ConfirmContract(t) \/ ConfirmRequest(t)
  \/ CompleteContract(t) \/ CompleteBooking(t) \/ CompleteRequest(t)
  \/ CancelBookingSave(t)

BookingCall ==
  \/ \E o \in Offers : BookDirectly(o, None) \/ BookDirectly(o, o)
  \/ \E b \in Bookings :
       CancelBookingAtomic(b) \/ FinishBooking(b) \/ RescheduleBooking(b)

FulfilmentStep == BookingCall \/ \E t \in Tasks : TaskCall(t) \/ TaskResume(t)

MarketInit == Init /\ FulfilmentInit

\* Any handler of either module takes the next step.
MarketNext ==
  \/ Next /\ UNCHANGED <<booking, task>>
  \/ FulfilmentStep
  \/ \E t \in Tasks : TaskFail(t)

MarketSpec == MarketInit /\ [][MarketNext]_marketVars

\* No database call fails and no process stops.
ReliableMarketNext ==
  \/ Step /\ UNCHANGED <<booking, task>>
  \/ FulfilmentStep

ReliableMarketSpec == MarketInit /\ [][ReliableMarketNext]_marketVars

-----------------------------------------------------------------------------
(* Properties. *)

MarketTypeOK ==
  /\ TypeOK
  /\ booking \in [Bookings -> BookingDoc]
  /\ task \in [Tasks -> Task]

\* A contract is confirmed, and completed, only once a booking was made for it,
\* whatever cancellations and completions overlap the confirmation.
ConfirmedHasBooking ==
  \A o \in Offers :
    contract[o].status \in {"confirmed", "completed"} => ContractHasBooking(o)

\* A request shown as matched or closed names the contract it is matched by,
\* and that contract got a booking: the owner's late publish, unpublish and
\* delete writes can hide the match but not invent one.
MatchedHasBooking ==
  \A r \in Requests :
    request[r].status \in {"matched", "closed"}
      => /\ request[r].contract # None
         /\ ContractHasBooking(request[r].contract)

\* A contract that has ended is never pending or confirmed again, not even by
\* a confirmation that read it before it was cancelled.
EndedStaysEnded ==
  [][\A o \in Offers : contract[o].status \in {"completed", "cancelled"}
       => contract'[o].status \in {"completed", "cancelled"}]_marketVars

\* getHistory() can walk the bookings a job went through: the links of a
\* reschedule agree in both directions and never lead in a circle, and only
\* the last booking of the chain can be confirmed.
HistoryIsAChain ==
  /\ \A b \in Bookings : booking[b].to # None =>
       booking[booking[b].to].from = b /\ booking[b].status # "confirmed"
  /\ \A b \in Bookings : booking[b].from # None =>
       booking[booking[b].from].to = b
  /\ \A S \in (SUBSET Bookings) \ {{}} : \E b \in S : booking[b].from \notin S

-----------------------------------------------------------------------------
(* Why: the inductive strengthenings. *)

\* A document not inserted yet has no links, and a cancellation is about a
\* document that was.
BookingsWellFormed ==
  /\ \A b \in Bookings : booking[b].status = "absent" => booking[b] = NoBooking
  /\ \A t \in Tasks : Stage(t, "cancel.save") =>
                        booking[task[t].on].status # "absent"

\* From its second step on a confirmation has its booking, and a completion
\* started from a contract that had one.
BookedSteps == ContractSteps \ {"confirm.book"}

TasksHaveBookings ==
  \A t \in Tasks : task[t].at \in BookedSteps => ContractHasBooking(task[t].on)

\* The inductive invariant behind the properties of this module: bookings are
\* never deleted and keep their contractId.
FulfilmentInv ==
  /\ BookingsWellFormed
  /\ TasksHaveBookings
  /\ ConfirmedHasBooking
  /\ MatchedHasBooking
  /\ HistoryIsAChain

Quiet == (\A h \in Handlers : job[h] = Idle) /\ (\A t \in Tasks : task[t] = Rest)

\* What the contracts tests demand of cancel(): afterwards the request is not
\* assigned to the cancelled contract.  A confirmation that overlaps the
\* cancellation assigns it again (see the README).
CancelReleasesRequest ==
  Quiet => \A o \in Offers :
             contract[o].status = "cancelled" => request[RequestOf[o]].contract # o

\* What the contracts tests demand of complete(): the request and the booking
\* are closed with the contract.  A rescheduled booking prevents both (see the
\* README).
CompleteClosesAll ==
  Quiet => \A o \in Offers :
             contract[o].status = "completed" /\ request[RequestOf[o]].contract = o
               => /\ request[RequestOf[o]].status = "closed"
                  /\ \A b \in Bookings :
                       SameRequest(b, o) => booking[b].status # "confirmed"
=============================================================================
