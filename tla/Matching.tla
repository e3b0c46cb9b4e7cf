------------------------------ MODULE Matching ------------------------------
(***************************************************************************)
(* How a client's request is matched with one provider's offer.            *)
(*                                                                         *)
(* The module covers the handlers of offers.service.ts, the publication    *)
(* commands of requests.service.ts and contracts.service.ts cancel(), the  *)
(* one that gives a matched request back to the market.  A handler runs    *)
(* in one HTTP request; every `await` on MongoDB lets the other handlers   *)
(* run, so a handler is a job that performs one database operation per     *)
(* step and keeps what it has read in between.  MongoDB makes each single  *)
(* operation atomic, nothing makes a handler atomic.                       *)
(*                                                                         *)
(* A document is identified by an id that is never reused.  `offerId` is   *)
(* unique among contracts (contract.schema.ts:54), so a contract has the   *)
(* name of its offer.  A call refused before its first write changes       *)
(* nothing and is the absence of a step.                                   *)
(***************************************************************************)
EXTENDS Naturals, FiniteSets

CONSTANTS
  Requests,     \* ids of requests
  Offers,       \* ids of offers, and of the contract made from each
  RequestOf,    \* the request an offer id answers
  ProviderOf,   \* the provider who makes the offer with that id
  Amounts,      \* prices a provider may ask
  Handlers,     \* handler invocations that may be in flight together
  None          \* JavaScript null

Providers == {ProviderOf[o] : o \in Offers}

ASSUME ConstantsAssumption ==
  /\ RequestOf \in [Offers -> Requests]
  /\ DOMAIN ProviderOf = Offers
  /\ None \notin Requests \union Offers \union Providers \union Amounts

VARIABLES
  request,      \* the requests collection
  offer,        \* the offers collection
  contract,     \* the contracts collection
  job           \* the handler invocations in flight

vars == <<request, offer, contract, job>>

-----------------------------------------------------------------------------
(* The documents, as far as matching tells them apart. *)

RequestStatus ==
  {"draft", "published", "paused", "matched", "closed", "cancelled", "deleted"}

RequestDoc == [status: RequestStatus,
               provider: Providers \union {None},   \* matchedProviderUserId
               contract: Offers \union {None},      \* assignedContractId
               archived: BOOLEAN]                   \* archivedAt is set

Gone == [status |-> "deleted", provider |-> None, contract |-> None,
         archived |-> FALSE]

OfferDoc == [status: {"absent", "sent", "accepted", "declined", "deleted"},
             amount: Amounts \union {None}]

ContractDoc ==
  [status: {"none", "pending", "confirmed", "completed", "cancelled"},
   amount: Amounts \union {None}]

RequestExists(r) == request[r].status # "deleted"

OfferExists(o) == offer[o].status \notin {"absent", "deleted"}

OffersFor(r) == {o \in Offers : RequestOf[o] = r}

\* Two ids that the unique index {requestId, providerUserId} keeps apart.
SamePair(o1, o2) ==
  RequestOf[o1] = RequestOf[o2] /\ ProviderOf[o1] = ProviderOf[o2]

-----------------------------------------------------------------------------
(* The jobs: what a handler does next, on which document, and the price it *)
(* carries from an earlier read or from its input.                         *)

AcquireSteps == {"accept.mark", "accept.contract", "accept.assign"}

OfferSteps == AcquireSteps \union
  {"create.insert", "update.write", "remove.delete", "accept.lock",
   "accept.decline", "decline.request", "decline.write",
   "cancel.write", "cancel.release"}

RequestSteps ==
  {"publish.write", "unpublish.count", "unpublish.write",
   "delete.count", "delete.cancel", "delete.remove"}

Idle == [at |-> "idle", on |-> None, amount |-> None]

Job == {Idle}
  \union [at: OfferSteps, on: Offers, amount: Amounts \union {None}]
  \union [at: RequestSteps, on: Requests, amount: {None}]

Start(h, step, subject, amount) ==
  /\ job[h] = Idle
  /\ job' = [job EXCEPT ![h] = [at |-> step, on |-> subject, amount |-> amount]]

At(h, step) == job[h].at = step

Goto(h, step) == job' = [job EXCEPT ![h] = [@ EXCEPT !.at = step]]

Done(h) == job' = [job EXCEPT ![h] = Idle]

-----------------------------------------------------------------------------
(* A request starts as createForClient (draft) or createPublic (published) *)
(* leaves it, with no offer yet.                                           *)

Init ==
  /\ request \in [Requests -> [status: {"draft", "published"}, provider: {None},
                               contract: {None}, archived: {FALSE}]]
  /\ offer = [o \in Offers |-> [status |-> "absent", amount |-> None]]
  /\ contract = [o \in Offers |-> [status |-> "none", amount |-> None]]
  /\ job = [h \in Handlers |-> Idle]

-----------------------------------------------------------------------------
(* offers.service.ts, the provider's commands.  The admission checks of    *)
(* createForProvider that do not look at the request (daily limit, blocked *)
(* profile) only refuse calls; here they may refuse any call.              *)

CreateOfferRead(h, o) ==
  /\ offer[o].status = "absent"
  /\ request[RequestOf[o]].status = "published"
  /\ \E a \in Amounts : Start(h, "create.insert", o, a)
  /\ UNCHANGED <<request, offer, contract>>

\* The insert takes a fresh id; the unique index refuses a second offer of the
\* provider on the request, whatever became of the request since it was read.
CreateOfferInsert(h) ==
  LET pair == {o \in Offers : SamePair(o, job[h].on)} IN
  /\ At(h, "create.insert")
  /\ \/ /\ \A o \in pair : ~OfferExists(o)
        /\ \E o \in pair :
             /\ offer[o].status = "absent"
             /\ offer' = [offer EXCEPT
                            ![o] = [status |-> "sent", amount |-> job[h].amount]]
     \/ /\ \/ \E o \in pair : OfferExists(o)
           \/ \A o \in pair : offer[o].status # "absent"
        /\ UNCHANGED offer
  /\ Done(h)
  /\ UNCHANGED <<request, contract>>

UpdateOfferRead(h, o) ==
  /\ offer[o].status = "sent"
  /\ \E a \in Amounts : Start(h, "update.write", o, a)
  /\ UNCHANGED <<request, offer, contract>>

\* Variant: the write trusts the status read before.
UpdateOfferWriteById(h) ==
  LET o == job[h].on IN
  /\ At(h, "update.write")
  /\ offer' = IF OfferExists(o)
              THEN [offer EXCEPT ![o] = [@ EXCEPT !.amount = job[h].amount]]
              ELSE offer
  /\ Done(h)
  /\ UNCHANGED <<request, contract>>

\* updateOne({_id, providerUserId, status: 'sent'}): no match, no change.
UpdateOfferWrite(h) ==
  LET o == job[h].on IN
  /\ At(h, "update.write")
  /\ offer' = IF offer[o].status = "sent"
              THEN [offer EXCEPT ![o] = [@ EXCEPT !.amount = job[h].amount]]
              ELSE offer
  /\ Done(h)
  /\ UNCHANGED <<request, contract>>

DeleteOfferRead(h, o) ==
  /\ offer[o].status = "sent"
  /\ Start(h, "remove.delete", o, None)
  /\ UNCHANGED <<request, offer, contract>>

DeleteOfferWrite(h) ==
  LET o == job[h].on IN
  /\ At(h, "remove.delete")
  /\ offer' = IF offer[o].status = "sent"
              THEN [offer EXCEPT ![o] = [status |-> "deleted", amount |-> None]]
              ELSE offer
  /\ Done(h)
  /\ UNCHANGED <<request, contract>>

-----------------------------------------------------------------------------
(* offers.service.ts acceptForClient(): five writes, no transaction.       *)

\* An accepted offer returns at once and a declined one is refused, so only a
\* 'sent' offer goes on.  The request read next is used for its owner only.
AcceptRead(h, o) ==
  /\ offer[o].status = "sent"
  /\ RequestExists(RequestOf[o])
  /\ Start(h, "accept.lock", o, offer[o].amount)
  /\ UNCHANGED <<request, offer, contract>>

\* Variant: the lock looks at the status alone.
LockableByStatus(r) == request[r].status = "published"

Lockable(r) == request[r].status = "published" /\ request[r].provider = None

\* Variant: the lock trusts the request read before and has no filter.
AcceptLockUnconditional(h) ==
  LET o == job[h].on
      r == RequestOf[o] IN
  /\ At(h, "accept.lock")
  /\ request' = [request EXCEPT
       ![r] = [@ EXCEPT !.status = "paused",
                        !.provider = ProviderOf[o],
                        !.contract = None]]
  /\ Goto(h, "accept.mark")
  /\ UNCHANGED <<offer, contract>>

AcceptLock(h) ==
  LET o == job[h].on
      r == RequestOf[o] IN
  /\ At(h, "accept.lock")
  /\ \/ /\ Lockable(r)
        /\ request' = [request EXCEPT
             ![r] = [@ EXCEPT !.status = "paused",
                              !.provider = ProviderOf[o],
                              !.contract = None]]
        /\ Goto(h, "accept.mark")
     \/ /\ ~Lockable(r)
        /\ Done(h)
        /\ UNCHANGED request
  /\ UNCHANGED <<offer, contract>>

\* updateOne({_id}): whatever the offer's status is by now.
AcceptMark(h) ==
  LET o == job[h].on IN
  /\ At(h, "accept.mark")
  /\ offer' = IF OfferExists(o)
              THEN [offer EXCEPT ![o] = [@ EXCEPT !.status = "accepted"]]
              ELSE offer
  /\ Goto(h, "accept.contract")
  /\ UNCHANGED <<request, contract>>

\* Variant: an offer withdrawn in the meantime makes the handler give up.
AcceptContractIfOfferExists(h) ==
  LET o == job[h].on IN
  /\ At(h, "accept.contract")
  /\ \/ /\ OfferExists(o)
        /\ contract' = IF contract[o].status = "none"
                       THEN [contract EXCEPT ![o] =
                               [status |-> "pending", amount |-> job[h].amount]]
                       ELSE contract
        /\ Goto(h, "accept.assign")
     \/ /\ ~OfferExists(o)
        /\ Done(h)
        /\ UNCHANGED contract
  /\ UNCHANGED <<request, offer>>

\* findOne, create, and on a duplicate key findOne again: since a contract is
\* never deleted, the three together find it or create it from the offer read.
AcceptContract(h) ==
  LET o == job[h].on IN
  /\ At(h, "accept.contract")
  /\ contract' = IF contract[o].status = "none"
                 THEN [contract EXCEPT
                         ![o] = [status |-> "pending", amount |-> job[h].amount]]
                 ELSE contract
  /\ Goto(h, "accept.assign")
  /\ UNCHANGED <<request, offer>>

AcceptAssign(h) ==
  LET o == job[h].on
      r == RequestOf[o] IN
  /\ At(h, "accept.assign")
  /\ request' = IF RequestExists(r) /\ request[r].contract = None
                THEN [request EXCEPT ![r] = [@ EXCEPT !.contract = o]]
                ELSE request
  /\ Goto(h, "accept.decline")
  /\ UNCHANGED <<offer, contract>>

AcceptDeclineOthers(h) ==
  LET o == job[h].on IN
  /\ At(h, "accept.decline")
  /\ offer' = [x \in Offers |->
                 IF /\ x \in OffersFor(RequestOf[o]) \ {o}
                    /\ offer[x].status = "sent"
                 THEN [offer[x] EXCEPT !.status = "declined"]
                 ELSE offer[x]]
  /\ Done(h)
  /\ UNCHANGED <<request, contract>>

(* offers.service.ts declineForClient(). *)

DeclineRead(h, o) ==
  /\ offer[o].status = "sent"
  /\ Start(h, "decline.request", o, None)
  /\ UNCHANGED <<request, offer, contract>>

DeclineReadRequest(h) ==
  LET r == RequestOf[job[h].on] IN
  /\ At(h, "decline.request")
  /\ \/ /\ request[r].status \notin {"matched", "paused", "deleted"}
        /\ Goto(h, "decline.write")
     \/ /\ request[r].status \in {"matched", "paused", "deleted"}
        /\ Done(h)
  /\ UNCHANGED <<request, offer, contract>>

DeclineWrite(h) ==
  LET o == job[h].on IN
  /\ At(h, "decline.write")
  /\ offer' = IF OfferExists(o)
              THEN [offer EXCEPT ![o] = [@ EXCEPT !.status = "declined"]]
              ELSE offer
  /\ Done(h)
  /\ UNCHANGED <<request, contract>>

-----------------------------------------------------------------------------
(* requests.service.ts, the owner's commands: each checks a copy it has    *)
(* read and then writes by id alone.                                       *)

PublishRead(h, r) ==
  /\ request[r].status \in {"draft", "paused", "cancelled"}
  /\ ~request[r].archived
  /\ Start(h, "publish.write", r, None)
  /\ UNCHANGED <<request, offer, contract>>

\* Variant: the document is replaced, not updated with $set.
ReplaceStatus(r, status) ==
  request' = IF RequestExists(r)
             THEN [request EXCEPT ![r] = [status |-> status]]
             ELSE request

SetStatus(r, status) ==
  request' = IF RequestExists(r)
             THEN [request EXCEPT ![r] = [@ EXCEPT !.status = status]]
             ELSE request

PublishWrite(h) ==
  /\ At(h, "publish.write")
  /\ SetStatus(job[h].on, "published")
  /\ Done(h)
  /\ UNCHANGED <<offer, contract>>

UnpublishRead(h, r) ==
  /\ request[r].status = "published"
  /\ ~request[r].archived
  /\ Start(h, "unpublish.count", r, None)
  /\ UNCHANGED <<request, offer, contract>>

HasOffers(r) == \E o \in OffersFor(r) : OfferExists(o)

UnpublishCount(h) ==
  /\ At(h, "unpublish.count")
  /\ \/ ~HasOffers(job[h].on) /\ Goto(h, "unpublish.write")
     \/ HasOffers(job[h].on) /\ Done(h)
  /\ UNCHANGED <<request, offer, contract>>

UnpublishWrite(h) ==
  /\ At(h, "unpublish.write")
  /\ SetStatus(job[h].on, "paused")
  /\ Done(h)
  /\ UNCHANGED <<offer, contract>>

\* archivedAt is set once and a second call returns the first date: one write.
ArchiveRequest(r) ==
  /\ RequestExists(r)
  /\ request' = [request EXCEPT ![r] = [@ EXCEPT !.archived = TRUE]]
  /\ UNCHANGED <<offer, contract, job>>

DeleteRequestRead(h, r) ==
  /\ request[r].status \notin {"matched", "closed", "deleted"}
  /\ Start(h, "delete.count", r, None)
  /\ UNCHANGED <<request, offer, contract>>

\* Favorites and chats retain a request as offers do; others may have made one.
DeleteRequestCount(h) ==
  /\ At(h, "delete.count")
  /\ \/ Goto(h, "delete.cancel")
     \/ ~HasOffers(job[h].on) /\ Goto(h, "delete.remove")
  /\ UNCHANGED <<request, offer, contract>>

DeleteRequestCancel(h) ==
  /\ At(h, "delete.cancel")
  /\ SetStatus(job[h].on, "cancelled")
  /\ Done(h)
  /\ UNCHANGED <<offer, contract>>

DeleteRequestRemove(h) ==
  /\ At(h, "delete.remove")
  /\ request' = [request EXCEPT ![job[h].on] = Gone]
  /\ Done(h)
  /\ UNCHANGED <<offer, contract>>

\* The TTL index removes a cancelled request once purgeAt has passed.
PurgeRequest(r) ==
  /\ request[r].status = "cancelled"
  /\ request' = [request EXCEPT ![r] = Gone]
  /\ UNCHANGED <<offer, contract, job>>

-----------------------------------------------------------------------------
(* contracts.service.ts cancel(), by the client or by the provider.        *)

CancelRead(h, o) ==
  /\ contract[o].status \in {"pending", "confirmed"}
  /\ Start(h, "cancel.write", o, None)
  /\ UNCHANGED <<request, offer, contract>>

CancelWrite(h) ==
  LET o == job[h].on IN
  /\ At(h, "cancel.write")
  /\ contract' = [contract EXCEPT ![o] = [@ EXCEPT !.status = "cancelled"]]
  /\ Goto(h, "cancel.release")
  /\ UNCHANGED <<request, offer>>

\* Variant: the release does not ask which contract the request has.
CancelReleaseAny(h) ==
  LET r == RequestOf[job[h].on] IN
  /\ At(h, "cancel.release")
  /\ request' = IF RequestExists(r)
                THEN [request EXCEPT
                        ![r] = [@ EXCEPT !.status = "published",
                                         !.provider = None,
                                         !.contract = None]]
                ELSE request
  /\ Done(h)
  /\ UNCHANGED <<offer, contract>>

\* updateOne({_id, assignedContractId: cid}).
CancelRelease(h) ==
  LET o == job[h].on
      r == RequestOf[o] IN
  /\ At(h, "cancel.release")
  /\ request' = IF request[r].contract = o
                THEN [request EXCEPT
                        ![r] = [@ EXCEPT !.status = "published",
                                         !.provider = None,
                                         !.contract = None]]
                ELSE request
  /\ Done(h)
  /\ UNCHANGED <<offer, contract>>

-----------------------------------------------------------------------------
(* A failed database call or a stopped process ends a handler where it is. *)

Fail(h) ==
  /\ job[h] # Idle
  /\ Done(h)
  /\ UNCHANGED <<request, offer, contract>>

OfferCall(h, o) ==
  \/ CreateOfferRead(h, o) \/ UpdateOfferRead(h, o) \/ DeleteOfferRead(h, o)
  \/ AcceptRead(h, o) \/ DeclineRead(h, o) \/ CancelRead(h, o)

RequestCall(h, r) ==
  \/ PublishRead(h, r) \/ UnpublishRead(h, r) \/ DeleteRequestRead(h, r)

\* What a handler in flight does when its next database call returns.
Resume(h) ==
  \/ CreateOfferInsert(h) \/ UpdateOfferWrite(h) \/ DeleteOfferWrite(h)
  \/ AcceptLock(h) \/ AcceptMark(h) \/ AcceptContract(h)
  \/ AcceptAssign(h) \/ AcceptDeclineOthers(h)
  \/ DeclineReadRequest(h) \/ DeclineWrite(h)
  \/ PublishWrite(h) \/ UnpublishCount(h) \/ UnpublishWrite(h)
  \/ DeleteRequestCount(h) \/ DeleteRequestCancel(h) \/ DeleteRequestRemove(h)
  \/ CancelWrite(h) \/ CancelRelease(h)

Step ==
  \/ \E h \in Handlers :
       \/ \E o \in Offers : OfferCall(h, o)
       \/ \E r \in Requests : RequestCall(h, r)
       \/ Resume(h)
  \/ \E r \in Requests : ArchiveRequest(r) \/ PurgeRequest(r)

Next == Step \/ \E h \in Handlers : Fail(h)

Spec == Init /\ [][Next]_vars

\* Without failures: the driver answers every call, and the event loop then
\* resumes the handler that awaits it.
ReliableSpec ==
  Init /\ [][Step]_vars /\ \A h \in Handlers : WF_vars(Resume(h))

-----------------------------------------------------------------------------
(* Properties. *)

TypeOK ==
  /\ request \in [Requests -> RequestDoc]
  /\ offer \in [Offers -> OfferDoc]
  /\ contract \in [Offers -> ContractDoc]
  /\ job \in [Handlers -> Job]

Live(o) == contract[o].status \in {"pending", "confirmed"}

\* A request never has two live contracts, whichever calls to accept, cancel,
\* publish and delete overlap or stop half way: acceptForClient takes the
\* request with one conditional update, and only the cancellation of the very
\* contract it led to gives the request back.  (Of the handlers here: the
\* README says what confirmByClient, in Fulfilment, can do to it.)
OneLiveContract ==
  \A o1, o2 \in Offers :
    Live(o1) /\ Live(o2) /\ RequestOf[o1] = RequestOf[o2] => o1 = o2

\* While a contract is live its request, unless deleted under it, stays locked
\* for the provider of that contract, so that no other offer can be accepted:
\* the owner's publish, unpublish and delete leave matchedProviderUserId alone.
LiveContractHoldsRequest ==
  \A o \in Offers :
    Live(o) /\ RequestExists(RequestOf[o])
      => request[RequestOf[o]].provider = ProviderOf[o]

\* Once the client has accepted an offer its provider can neither withdraw it
\* nor change its price, even with an edit begun while it was still 'sent':
\* updateForProvider and deleteForProvider repeat their check in the write.
AcceptedOfferIsFrozen ==
  [][\A o \in Offers : offer[o].status = "accepted"
       => /\ offer'[o].status # "deleted"
          /\ offer'[o].amount = offer[o].amount]_vars

\* If handlers run to their end, a request locked for a provider gets a
\* contract with that provider (or is deleted): the writes after the lock
\* cannot be refused, even when the offer was withdrawn in between.
LockLeadsToContract ==
  \A r \in Requests : \A p \in Providers :
    (request[r].provider = p) ~>
      (\/ ~RequestExists(r)
       \/ \E o \in OffersFor(r) :
            ProviderOf[o] = p /\ contract[o].status # "none")

\* What a test demands: declineForClient refuses an accepted offer.  A decline
\* that read the offer before the acceptance does not (see the README).
AcceptedNeverDeclined ==
  [][\A o \in Offers : offer[o].status = "accepted"
       => offer'[o].status # "declined"]_vars

\* What the requests README says of a request its owner has deleted and others
\* retain: it is out of public discovery until the owner publishes it again.
\* Cancelling its contract publishes it as well (see the README).
RetainedUntilOwnerPublishes ==
  [][\A r \in Requests :
       request[r].status = "cancelled" /\ request'[r].status = "published"
         => \E h \in Handlers : At(h, "publish.write") /\ job[h].on = r]_vars

\* The documents of the contracts collection tell the story of ContractLife: a
\* contract is formed when its request has no other, and is never revived.
LifeOf(c) == CASE c.status = "none" -> "none"
               [] c.status \in {"pending", "confirmed"} -> "live"
               [] OTHER -> "over"

Life == INSTANCE ContractLife
          WITH Contracts <- Offers, phase <- [o \in Offers |-> LifeOf(contract[o])]

ImplementsContractLife == Life!Spec

-----------------------------------------------------------------------------
(* Why a request has one live contract: the inductive strengthening.       *)

Acquiring(h) == job[h].at \in AcquireSteps

\* Between its lock and its assignment a handler is the only one there for the
\* request, and no contract of another offer is live.
AcquiringAlone(h) ==
  LET o == job[h].on
      r == RequestOf[o] IN
  Acquiring(h) =>
    /\ RequestExists(r) =>
         request[r].provider = ProviderOf[o] /\ request[r].contract = None
    /\ \A x \in OffersFor(r) : Live(x) => x = o
    /\ \A g \in Handlers :
         Acquiring(g) /\ RequestOf[job[g].on] = r => g = h
    /\ At(h, "accept.assign") => contract[o].status # "none"

\* The assigned contract exists, and no other contract of the request is live.
AssignedIsTheLiveOne(r) ==
  LET c == request[r].contract IN
  c # None => /\ RequestExists(r)
              /\ RequestOf[c] = r
              /\ contract[c].status # "none"
              /\ \A x \in OffersFor(r) : Live(x) => x = c

\* A cancellation releases the request only after the contract is cancelled.
CancelledBeforeRelease(h) ==
  /\ At(h, "cancel.write") => contract[job[h].on].status # "none"
  /\ At(h, "cancel.release") => contract[job[h].on].status = "cancelled"

\* The inductive invariant behind OneLiveContract and LiveContractHoldsRequest:
\* the conditional update of acceptForClient is a lock that a handler holds
\* until assignedContractId takes it over.
MatchInv ==
  /\ OneLiveContract
  /\ LiveContractHoldsRequest
  /\ \A h \in Handlers : AcquiringAlone(h) /\ CancelledBeforeRelease(h)
  /\ \A r \in Requests : AssignedIsTheLiveOne(r)
=============================================================================
