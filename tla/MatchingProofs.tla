--------------------------- MODULE MatchingProofs ---------------------------
(* Theorems about Matching, for every set of requests, offers and handlers. *)
EXTENDS Matching, TLAPS

-----------------------------------------------------------------------------
(* Type correctness. *)

LEMMA JobTyping ==
  ASSUME TypeOK, NEW h \in Handlers
  PROVE  /\ job[h].at \in OfferSteps =>
              job[h].on \in Offers /\ job[h].amount \in Amounts \union {None}
         /\ job[h].at \in RequestSteps => job[h].on \in Requests
BY DEF TypeOK, Job, Idle, OfferSteps, AcquireSteps, RequestSteps

LEMMA StartTyped ==
  ASSUME TypeOK, NEW h \in Handlers, NEW step, NEW subject, NEW amount,
         Start(h, step, subject, amount),
         \/ /\ step \in OfferSteps /\ subject \in Offers
            /\ amount \in Amounts \union {None}
         \/ step \in RequestSteps /\ subject \in Requests /\ amount = None
  PROVE  job' \in [Handlers -> Job]
BY DEF TypeOK, Start, Job

LEMMA DoneTyped ==
  ASSUME TypeOK, NEW h \in Handlers, Done(h)
  PROVE  job' \in [Handlers -> Job]
BY DEF TypeOK, Done, Job

LEMMA GotoTyped ==
  ASSUME TypeOK, NEW h \in Handlers, NEW step, Goto(h, step),
         \/ job[h].at \in OfferSteps /\ step \in OfferSteps
         \/ job[h].at \in RequestSteps /\ step \in RequestSteps
  PROVE  job' \in [Handlers -> Job]
<1> DEFINE j == [job[h] EXCEPT !.at = step]
<1>1. job[h] \in Job
  BY DEF TypeOK
<1>2. CASE job[h].at \in OfferSteps /\ step \in OfferSteps
  <2>1. job[h] \in [at: OfferSteps, on: Offers, amount: Amounts \union {None}]
    BY <1>1, <1>2 DEF Job, Idle, OfferSteps, AcquireSteps, RequestSteps
  <2>2. j \in [at: OfferSteps, on: Offers, amount: Amounts \union {None}]
    BY <2>1, <1>2
  <2> QED
    BY <2>2 DEF TypeOK, Goto, Job
<1>3. CASE job[h].at \in RequestSteps /\ step \in RequestSteps
  <2>1. job[h] \in [at: RequestSteps, on: Requests, amount: {None}]
    BY <1>1, <1>3 DEF Job, Idle, OfferSteps, AcquireSteps, RequestSteps
  <2>2. j \in [at: RequestSteps, on: Requests, amount: {None}]
    BY <2>1, <1>3
  <2> QED
    BY <2>2 DEF TypeOK, Goto, Job
<1> QED
  BY <1>2, <1>3

LEMMA InitTyped == Init => TypeOK
<1> SUFFICES ASSUME Init PROVE TypeOK
  OBVIOUS
<1>1. request \in [Requests -> RequestDoc]
  <2>1. [status: {"draft", "published"}, provider: {None}, contract: {None},
         archived: {FALSE}] \subseteq RequestDoc
    BY DEF RequestDoc, RequestStatus
  <2> QED
    BY <2>1 DEF Init
<1>2. offer \in [Offers -> OfferDoc] /\ contract \in [Offers -> ContractDoc]
  BY DEF Init, OfferDoc, ContractDoc
<1>3. job \in [Handlers -> Job]
  BY DEF Init, Job
<1> QED
  BY <1>1, <1>2, <1>3 DEF TypeOK

LEMMA OfferCallTyped ==
  ASSUME TypeOK, NEW h \in Handlers, NEW o \in Offers, OfferCall(h, o)
  PROVE  TypeOK'
<1>1. job' \in [Handlers -> Job]
  <2>1. CASE CreateOfferRead(h, o)
    BY <2>1, StartTyped DEF CreateOfferRead, OfferSteps
  <2>2. CASE UpdateOfferRead(h, o)
    BY <2>2, StartTyped DEF UpdateOfferRead, OfferSteps
  <2>3. CASE DeleteOfferRead(h, o)
    BY <2>3, StartTyped DEF DeleteOfferRead, OfferSteps
  <2>4. CASE AcceptRead(h, o)
    <3>1. offer[o].amount \in Amounts \union {None}
      BY DEF TypeOK, OfferDoc
    <3> QED
      BY <2>4, <3>1, StartTyped DEF AcceptRead, OfferSteps
  <2>5. CASE DeclineRead(h, o)
    BY <2>5, StartTyped DEF DeclineRead, OfferSteps
  <2>6. CASE CancelRead(h, o)
    BY <2>6, StartTyped DEF CancelRead, OfferSteps
  <2> QED
    BY <2>1, <2>2, <2>3, <2>4, <2>5, <2>6 DEF OfferCall
<1>2. UNCHANGED <<request, offer, contract>>
  BY DEF OfferCall, CreateOfferRead, UpdateOfferRead, DeleteOfferRead,
         AcceptRead, DeclineRead, CancelRead
<1> QED
  BY <1>1, <1>2 DEF TypeOK

LEMMA RequestCallTyped ==
  ASSUME TypeOK, NEW h \in Handlers, NEW r \in Requests, RequestCall(h, r)
  PROVE  TypeOK'
<1>1. job' \in [Handlers -> Job]
  BY StartTyped
     DEF RequestCall, PublishRead, UnpublishRead, DeleteRequestRead, RequestSteps
<1>2. UNCHANGED <<request, offer, contract>>
  BY DEF RequestCall, PublishRead, UnpublishRead, DeleteRequestRead
<1> QED
  BY <1>1, <1>2 DEF TypeOK

LEMMA SetStatusTyped ==
  ASSUME TypeOK, NEW r \in Requests, NEW status \in RequestStatus,
         SetStatus(r, status)
  PROVE  request' \in [Requests -> RequestDoc]
BY DEF TypeOK, SetStatus, RequestDoc

LEMMA GoneTyped == Gone \in RequestDoc
BY DEF Gone, RequestDoc, RequestStatus

\* A write to one offer or to one contract keeps the collection well typed.
LEMMA OfferStepTyped ==
  ASSUME TypeOK, NEW h \in Handlers,
         \/ CreateOfferInsert(h) \/ UpdateOfferWrite(h) \/ DeleteOfferWrite(h)
         \/ DeclineReadRequest(h) \/ DeclineWrite(h)
  PROVE  TypeOK'
<1>1. job[h].on \in Offers /\ job[h].amount \in Amounts \union {None}
  BY JobTyping DEF OfferSteps, CreateOfferInsert, UpdateOfferWrite,
     DeleteOfferWrite, DeclineReadRequest, DeclineWrite, At
<1>2. CASE CreateOfferInsert(h)
  BY <1>1, <1>2, DoneTyped DEF CreateOfferInsert, TypeOK, OfferDoc
<1>3. CASE UpdateOfferWrite(h)
  BY <1>1, <1>3, DoneTyped DEF UpdateOfferWrite, TypeOK, OfferDoc
<1>4. CASE DeleteOfferWrite(h)
  BY <1>1, <1>4, DoneTyped DEF DeleteOfferWrite, TypeOK, OfferDoc
<1>5. CASE DeclineReadRequest(h)
  <2>1. job' \in [Handlers -> Job]
    BY <1>5, DoneTyped, GotoTyped DEF DeclineReadRequest, At, OfferSteps
  <2> QED
    BY <1>5, <2>1 DEF DeclineReadRequest, TypeOK
<1>6. CASE DeclineWrite(h)
  BY <1>1, <1>6, DoneTyped DEF DeclineWrite, TypeOK, OfferDoc
<1> QED
  BY <1>2, <1>3, <1>4, <1>5, <1>6

LEMMA AcceptStepTyped ==
  ASSUME TypeOK, NEW h \in Handlers,
         \/ AcceptLock(h) \/ AcceptMark(h) \/ AcceptContract(h)
         \/ AcceptAssign(h) \/ AcceptDeclineOthers(h)
  PROVE  TypeOK'
<1>1. job[h].on \in Offers /\ job[h].amount \in Amounts \union {None}
  BY JobTyping DEF OfferSteps, AcquireSteps, AcceptLock, AcceptMark,
     AcceptContract, AcceptAssign, AcceptDeclineOthers, At
<1>2. RequestOf[job[h].on] \in Requests /\ ProviderOf[job[h].on] \in Providers
  BY <1>1, ConstantsAssumption DEF Providers
<1>3. CASE AcceptLock(h)
  <2>1. job' \in [Handlers -> Job]
    BY <1>3, DoneTyped, GotoTyped DEF AcceptLock, At, OfferSteps, AcquireSteps
  <2>2. request' \in [Requests -> RequestDoc]
    <3> DEFINE r == RequestOf[job[h].on]
               locked == [request[r] EXCEPT !.status = "paused",
                                            !.provider = ProviderOf[job[h].on],
                                            !.contract = None]
    <3>1. request[r] \in RequestDoc
      BY <1>2 DEF TypeOK
    <3>2. locked \in RequestDoc
      BY <1>2, <3>1 DEF RequestDoc, RequestStatus
    <3>3. request' = request \/ request' = [request EXCEPT ![r] = locked]
      BY <1>3 DEF AcceptLock
    <3> QED
      BY <3>2, <3>3 DEF TypeOK
  <2> QED
    BY <1>3, <2>1, <2>2 DEF AcceptLock, TypeOK
<1>4. CASE AcceptMark(h)
  <2>1. job' \in [Handlers -> Job]
    BY <1>4, GotoTyped DEF AcceptMark, At, OfferSteps, AcquireSteps
  <2> QED
    BY <1>1, <1>4, <2>1 DEF AcceptMark, TypeOK, OfferDoc
<1>5. CASE AcceptContract(h)
  <2>1. job' \in [Handlers -> Job]
    BY <1>5, GotoTyped DEF AcceptContract, At, OfferSteps, AcquireSteps
  <2> QED
    BY <1>1, <1>5, <2>1 DEF AcceptContract, TypeOK, ContractDoc
<1>6. CASE AcceptAssign(h)
  <2>1. job' \in [Handlers -> Job]
    BY <1>6, GotoTyped DEF AcceptAssign, At, OfferSteps, AcquireSteps
  <2>2. request' \in [Requests -> RequestDoc]
    BY <1>1, <1>2, <1>6 DEF AcceptAssign, TypeOK, RequestDoc
  <2> QED
    BY <1>6, <2>1, <2>2 DEF AcceptAssign, TypeOK
<1>7. CASE AcceptDeclineOthers(h)
  <2>1. job' \in [Handlers -> Job]
    BY <1>7, DoneTyped DEF AcceptDeclineOthers
  <2>2. offer' \in [Offers -> OfferDoc]
    BY <1>7 DEF AcceptDeclineOthers, TypeOK, OfferDoc
  <2> QED
    BY <1>7, <2>1, <2>2 DEF AcceptDeclineOthers, TypeOK
<1> QED
  BY <1>3, <1>4, <1>5, <1>6, <1>7

LEMMA RequestStepTyped ==
  ASSUME TypeOK, NEW h \in Handlers,
         \/ PublishWrite(h) \/ UnpublishCount(h) \/ UnpublishWrite(h)
         \/ DeleteRequestCount(h) \/ DeleteRequestCancel(h)
         \/ DeleteRequestRemove(h)
  PROVE  TypeOK'
<1>1. job[h].on \in Requests
  BY JobTyping DEF RequestSteps, PublishWrite, UnpublishCount, UnpublishWrite,
     DeleteRequestCount, DeleteRequestCancel, DeleteRequestRemove, At
<1>2. CASE PublishWrite(h) \/ UnpublishWrite(h) \/ DeleteRequestCancel(h)
  <2>1. request' \in [Requests -> RequestDoc]
    BY <1>1, <1>2, SetStatusTyped
       DEF PublishWrite, UnpublishWrite, DeleteRequestCancel, RequestStatus
  <2>2. job' \in [Handlers -> Job]
    BY <1>2, DoneTyped DEF PublishWrite, UnpublishWrite, DeleteRequestCancel
  <2> QED
    BY <1>2, <2>1, <2>2
       DEF TypeOK, PublishWrite, UnpublishWrite, DeleteRequestCancel
<1>3. CASE UnpublishCount(h) \/ DeleteRequestCount(h)
  <2>1. job' \in [Handlers -> Job]
    BY <1>3, DoneTyped, GotoTyped
       DEF UnpublishCount, DeleteRequestCount, At, RequestSteps
  <2> QED
    BY <1>3, <2>1 DEF TypeOK, UnpublishCount, DeleteRequestCount
<1>4. CASE DeleteRequestRemove(h)
  BY <1>1, <1>4, GoneTyped, DoneTyped DEF DeleteRequestRemove, TypeOK
<1> QED
  BY <1>2, <1>3, <1>4

LEMMA CancelStepTyped ==
  ASSUME TypeOK, NEW h \in Handlers, CancelWrite(h) \/ CancelRelease(h)
  PROVE  TypeOK'
<1>1. job[h].on \in Offers
  BY JobTyping DEF OfferSteps, CancelWrite, CancelRelease, At
<1>2. RequestOf[job[h].on] \in Requests
  BY <1>1, ConstantsAssumption
<1>3. CASE CancelWrite(h)
  <2>1. job' \in [Handlers -> Job]
    BY <1>3, GotoTyped DEF CancelWrite, At, OfferSteps
  <2> QED
    BY <1>1, <1>3, <2>1 DEF CancelWrite, TypeOK, ContractDoc
<1>4. CASE CancelRelease(h)
  <2>1. job' \in [Handlers -> Job]
    BY <1>4, DoneTyped DEF CancelRelease
  <2>2. request' \in [Requests -> RequestDoc]
    BY <1>2, <1>4, ZenonT(30) DEF CancelRelease, TypeOK, RequestDoc, RequestStatus
  <2> QED
    BY <1>4, <2>1, <2>2 DEF CancelRelease, TypeOK
<1> QED
  BY <1>3, <1>4

LEMMA NextTyped == TypeOK /\ [Next]_vars => TypeOK'
<1> SUFFICES ASSUME TypeOK, [Next]_vars PROVE TypeOK'
  OBVIOUS
<1>1. ASSUME NEW h \in Handlers, NEW o \in Offers, OfferCall(h, o)
      PROVE  TypeOK'
  BY <1>1, OfferCallTyped
<1>2. ASSUME NEW h \in Handlers, NEW r \in Requests, RequestCall(h, r)
      PROVE  TypeOK'
  BY <1>2, RequestCallTyped
<1>3. ASSUME NEW h \in Handlers, Resume(h)
      PROVE  TypeOK'
  BY <1>3, OfferStepTyped, AcceptStepTyped, RequestStepTyped, CancelStepTyped
     DEF Resume
<1>4. ASSUME NEW r \in Requests, ArchiveRequest(r)
      PROVE  TypeOK'
  BY <1>4 DEF ArchiveRequest, TypeOK, RequestDoc
<1>5. ASSUME NEW r \in Requests, PurgeRequest(r)
      PROVE  TypeOK'
  BY <1>5, GoneTyped DEF PurgeRequest, TypeOK
<1>6. ASSUME NEW h \in Handlers, Fail(h)
      PROVE  TypeOK'
  BY <1>6, DoneTyped DEF Fail, TypeOK
<1>7. CASE UNCHANGED vars
  BY <1>7 DEF TypeOK, vars
<1> QED
  BY <1>1, <1>2, <1>3, <1>4, <1>5, <1>6, <1>7 DEF Next, Step

\* Every document and every job in flight keeps its shape, for any number of
\* requests, offers and overlapping handlers.
THEOREM TypeCorrect == Spec => []TypeOK
<1>1. TypeOK /\ [Next]_vars => TypeOK'
  BY NextTyped
<1> QED
  BY InitTyped, <1>1, PTL DEF Spec

-----------------------------------------------------------------------------
(* One live contract per request. *)

CancelSteps == {"cancel.write", "cancel.release"}

LEMMA InitMatchInv == Init => MatchInv
<1> SUFFICES ASSUME Init PROVE MatchInv
  OBVIOUS
<1>1. \A o \in Offers : ~Live(o)
  BY DEF Init, Live
<1>2. \A h \in Handlers : job[h].at = "idle"
  BY DEF Init, Idle
<1>3. \A r \in Requests : request[r].contract = None
  BY DEF Init
<1> QED
  BY <1>1, <1>2, <1>3
     DEF MatchInv, OneLiveContract, LiveContractHoldsRequest, AcquiringAlone,
         Acquiring, CancelledBeforeRelease, AssignedIsTheLiveOne, At, AcquireSteps

\* Most steps touch neither the contracts nor the match of a request that
\* stays, and leave no job that acquires or cancels: they keep MatchInv.
LEMMA QuietStep ==
  ASSUME TypeOK, MatchInv, contract' = contract,
         \A r \in Requests :
           \/ request'[r] = Gone
           \/ /\ request'[r].provider = request[r].provider
              /\ request'[r].contract = request[r].contract
              /\ (request'[r].status = "deleted") = (request[r].status = "deleted"),
         \A g \in Handlers :
           job'[g] = job[g] \/ job'[g].at \notin AcquireSteps \union CancelSteps
  PROVE  MatchInv'
<1>1. \A o \in Offers : Live(o)' = Live(o)
  BY DEF Live
<1>2. \A o \in Offers : RequestOf[o] \in Requests
  BY ConstantsAssumption
<1>3. \A r \in Requests : RequestExists(r)' =>
        /\ RequestExists(r)
        /\ request'[r].provider = request[r].provider
        /\ request'[r].contract = request[r].contract
  BY DEF RequestExists, Gone
<1>4. OneLiveContract'
  BY <1>1 DEF MatchInv, OneLiveContract
<1>5. LiveContractHoldsRequest'
  BY <1>1, <1>2, <1>3 DEF MatchInv, LiveContractHoldsRequest
<1>6. ASSUME NEW h \in Handlers PROVE AcquiringAlone(h)'
  <2>1. SUFFICES ASSUME Acquiring(h)' PROVE AcquiringAlone(h)'
    BY DEF AcquiringAlone
  <2>2. \A g \in Handlers : Acquiring(g)' => job'[g] = job[g] /\ Acquiring(g)
    BY DEF Acquiring
  <2>3. AcquiringAlone(h) /\ job'[h] = job[h] /\ Acquiring(h)
    BY <2>1, <2>2 DEF MatchInv
  <2>4. job[h].on \in Offers
    BY <2>3, JobTyping DEF Acquiring, OfferSteps
  <2> QED
    BY <1>1, <1>2, <1>3, <2>1, <2>2, <2>3, <2>4
       DEF AcquiringAlone, OffersFor, At
<1>7. ASSUME NEW h \in Handlers PROVE CancelledBeforeRelease(h)'
  BY DEF MatchInv, CancelledBeforeRelease, At, CancelSteps
<1>8. ASSUME NEW r \in Requests PROVE AssignedIsTheLiveOne(r)'
  <2>1. CASE request'[r] = Gone
    BY <2>1 DEF AssignedIsTheLiveOne, Gone
  <2>2. CASE request'[r] # Gone
    BY <1>1, <2>2 DEF MatchInv, AssignedIsTheLiveOne, RequestExists, OffersFor
  <2> QED
    BY <2>1, <2>2
<1> QED
  BY <1>4, <1>5, <1>6, <1>7, <1>8 DEF MatchInv

LEMMA LockStep ==
  ASSUME TypeOK, MatchInv, NEW h \in Handlers, AcceptLock(h)
  PROVE  MatchInv'
<1> DEFINE o == job[h].on
           r == RequestOf[o]
<1>1. o \in Offers /\ r \in Requests /\ ProviderOf[o] \in Providers
  BY JobTyping, ConstantsAssumption DEF AcceptLock, At, OfferSteps, Providers
<1>2. CASE ~Lockable(r)
  BY <1>2, QuietStep
     DEF AcceptLock, Done, Idle, AcquireSteps, CancelSteps, TypeOK
<1>3. CASE Lockable(r)
  <2>1. /\ request[r].provider = None /\ RequestExists(r)
        /\ contract' = contract /\ offer' = offer
        /\ request' = [request EXCEPT
             ![r] = [@ EXCEPT !.status = "paused", !.provider = ProviderOf[o],
                              !.contract = None]]
        /\ job' = [job EXCEPT ![h] = [@ EXCEPT !.at = "accept.mark"]]
    BY <1>3 DEF AcceptLock, Lockable, RequestExists, Goto
  <2>2. /\ request'[r].provider = ProviderOf[o]
        /\ request'[r].contract = None
        /\ RequestExists(r)'
        /\ \A q \in Requests \ {r} : request'[q] = request[q]
    BY <1>1, <2>1 DEF TypeOK, RequestDoc, RequestExists
  <2>3. /\ job'[h].at = "accept.mark" /\ job'[h].on = o
        /\ \A g \in Handlers \ {h} : job'[g] = job[g]
    BY <2>1 DEF TypeOK, Job, Idle
  <2>4. \A x \in OffersFor(r) : ~Live(x)
    BY <1>1, <2>1, ConstantsAssumption
       DEF MatchInv, LiveContractHoldsRequest, OffersFor, Providers
  <2>5. \A g \in Handlers : Acquiring(g) => RequestOf[job[g].on] # r
    <3>1. SUFFICES ASSUME NEW g \in Handlers, Acquiring(g),
                          RequestOf[job[g].on] = r
                   PROVE  FALSE
      OBVIOUS
    <3>2. job[g].on \in Offers
      BY <3>1, JobTyping DEF Acquiring, OfferSteps
    <3>3. request[r].provider = ProviderOf[job[g].on]
      BY <2>1, <3>1 DEF MatchInv, AcquiringAlone
    <3> QED
      BY <2>1, <3>2, <3>3, ConstantsAssumption DEF Providers
  <2>6. \A x \in Offers : Live(x)' = Live(x)
    BY <2>1 DEF Live
  <2>7. OneLiveContract'
    BY <2>6 DEF MatchInv, OneLiveContract
  <2>8. LiveContractHoldsRequest'
    BY <2>2, <2>4, <2>6, ConstantsAssumption
       DEF MatchInv, LiveContractHoldsRequest, OffersFor, RequestExists
  <2>9. ASSUME NEW g \in Handlers PROVE AcquiringAlone(g)'
    <3>1. CASE g = h
      BY <2>2, <2>3, <2>4, <2>5, <2>6, <3>1
         DEF AcquiringAlone, Acquiring, OffersFor, At
    <3>2. CASE g # h
      <4>1. SUFFICES ASSUME Acquiring(g)' PROVE AcquiringAlone(g)'
        BY DEF AcquiringAlone
      <4>2. Acquiring(g) /\ job'[g] = job[g]
        BY <2>3, <3>2, <4>1 DEF Acquiring
      <4>3. job[g].on \in Offers
        BY <4>2, JobTyping DEF Acquiring, OfferSteps
      <4>4. RequestOf[job[g].on] \in Requests \ {r}
        BY <2>5, <4>2, <4>3, ConstantsAssumption
      <4>5. AcquiringAlone(g)
        BY DEF MatchInv
      <4> QED
        BY <2>1, <2>2, <2>3, <2>6, <4>1, <4>2, <4>3, <4>4, <4>5, SMTT(30)
           DEF AcquiringAlone, Acquiring, OffersFor, RequestExists, At
    <3> QED
      BY <3>1, <3>2
  <2>10. ASSUME NEW g \in Handlers PROVE CancelledBeforeRelease(g)'
    BY <2>1, <2>3 DEF MatchInv, CancelledBeforeRelease, At
  <2>11. ASSUME NEW q \in Requests PROVE AssignedIsTheLiveOne(q)'
    BY <2>1, <2>2, <2>6
       DEF MatchInv, AssignedIsTheLiveOne, RequestExists, OffersFor
  <2> QED
    BY <2>7, <2>8, <2>9, <2>10, <2>11 DEF MatchInv
<1> QED
  BY <1>2, <1>3

LEMMA MarkStep ==
  ASSUME TypeOK, MatchInv, NEW h \in Handlers, AcceptMark(h)
  PROVE  MatchInv'
<1>1. /\ contract' = contract /\ request' = request
      /\ job[h].at = "accept.mark"
      /\ job' = [job EXCEPT ![h] = [@ EXCEPT !.at = "accept.contract"]]
  BY DEF AcceptMark, At, Goto
<1>2. /\ job'[h].at = "accept.contract" /\ job'[h].on = job[h].on
      /\ \A g \in Handlers \ {h} : job'[g] = job[g]
  BY <1>1 DEF TypeOK, Job, Idle
<1>3. \A g \in Handlers :
        /\ Acquiring(g)' = Acquiring(g)
        /\ job'[g].on = job[g].on
        /\ At(g, "accept.assign")' = At(g, "accept.assign")
  BY <1>1, <1>2 DEF Acquiring, AcquireSteps, At
<1>4. \A o \in Offers : Live(o)' = Live(o)
  BY <1>1 DEF Live
<1>5. ASSUME NEW g \in Handlers PROVE AcquiringAlone(g)'
  BY <1>1, <1>3, <1>4
     DEF MatchInv, AcquiringAlone, OffersFor, RequestExists
<1>6. ASSUME NEW g \in Handlers PROVE CancelledBeforeRelease(g)'
  BY <1>1, <1>2 DEF MatchInv, CancelledBeforeRelease, At
<1> QED
  BY <1>1, <1>4, <1>5, <1>6
     DEF MatchInv, OneLiveContract, LiveContractHoldsRequest, RequestExists,
         AssignedIsTheLiveOne, OffersFor

LEMMA ContractStep ==
  ASSUME TypeOK, MatchInv, NEW h \in Handlers, AcceptContract(h)
  PROVE  MatchInv'
<1> DEFINE o == job[h].on
           r == RequestOf[o]
<1>1. /\ request' = request /\ job[h].at = "accept.contract"
      /\ job' = [job EXCEPT ![h] = [@ EXCEPT !.at = "accept.assign"]]
  BY DEF AcceptContract, At, Goto
<1>2. o \in Offers /\ r \in Requests
  BY <1>1, JobTyping, ConstantsAssumption DEF OfferSteps, AcquireSteps
<1>3. /\ job'[h].at = "accept.assign" /\ job'[h].on = o
      /\ \A g \in Handlers \ {h} : job'[g] = job[g]
  BY <1>1 DEF TypeOK, Job, Idle
<1>4. \A g \in Handlers : Acquiring(g)' = Acquiring(g) /\ job'[g].on = job[g].on
  BY <1>1, <1>3 DEF Acquiring, AcquireSteps
<1>5. /\ \A x \in Offers \ {o} : contract'[x] = contract[x]
      /\ contract'[o].status # "none"
      /\ contract'[o].status = contract[o].status \/ contract[o].status = "none"
  BY <1>2 DEF AcceptContract, TypeOK, ContractDoc
<1>6. \A x \in Offers : Live(x)' => Live(x) \/ x = o
  BY <1>5 DEF Live
<1>7. /\ RequestExists(r) => request[r].provider = ProviderOf[o]
                            /\ request[r].contract = None
      /\ \A x \in OffersFor(r) : Live(x) => x = o
      /\ \A g \in Handlers : Acquiring(g) /\ RequestOf[job[g].on] = r => g = h
  BY <1>1 DEF MatchInv, AcquiringAlone, Acquiring, AcquireSteps
<1>8. OneLiveContract'
  BY <1>2, <1>6, <1>7 DEF MatchInv, OneLiveContract, OffersFor
<1>9. LiveContractHoldsRequest'
  BY <1>1, <1>6, <1>7 DEF MatchInv, LiveContractHoldsRequest, RequestExists
<1>10. ASSUME NEW g \in Handlers PROVE AcquiringAlone(g)'
  <2>1. CASE g = h
    BY <1>1, <1>3, <1>4, <1>5, <1>6, <1>7, <2>1
       DEF AcquiringAlone, OffersFor, RequestExists, Acquiring
  <2>2. CASE g # h
    <3>1. SUFFICES ASSUME Acquiring(g) PROVE AcquiringAlone(g)'
      BY <1>4 DEF AcquiringAlone
    <3>2. job'[g] = job[g] /\ job[g].on \in Offers /\ RequestOf[job[g].on] # r
      BY <1>3, <1>7, <2>2, <3>1, JobTyping DEF Acquiring, OfferSteps
    <3>3. AcquiringAlone(g)
      BY DEF MatchInv
    <3>4. contract'[job[g].on] = contract[job[g].on]
      BY <1>5, <3>2
    <3> QED
      BY <1>1, <1>4, <1>6, <3>1, <3>2, <3>3, <3>4
         DEF AcquiringAlone, OffersFor, RequestExists, At
  <2> QED
    BY <2>1, <2>2
<1>11. ASSUME NEW g \in Handlers PROVE CancelledBeforeRelease(g)'
  <2>1. SUFFICES ASSUME job'[g].at \in CancelSteps
                 PROVE  CancelledBeforeRelease(g)'
    BY DEF CancelledBeforeRelease, At, CancelSteps
  <2>2. job'[g] = job[g] /\ job[g].on \in Offers
    BY <1>3, <2>1, JobTyping DEF CancelSteps, OfferSteps
  <2> QED
    BY <1>5, <2>1, <2>2 DEF MatchInv, CancelledBeforeRelease, At, CancelSteps
<1>12. ASSUME NEW q \in Requests PROVE AssignedIsTheLiveOne(q)'
  <2>1. SUFFICES ASSUME request[q].contract # None
                 PROVE  AssignedIsTheLiveOne(q)'
    BY <1>1 DEF AssignedIsTheLiveOne
  <2>2. q # r
    BY <1>7, <2>1 DEF MatchInv, AssignedIsTheLiveOne
  <2>3. request[q].contract \in Offers
    BY <2>1 DEF TypeOK, RequestDoc
  <2> QED
    BY <1>1, <1>5, <1>6, <2>1, <2>2, <2>3
       DEF MatchInv, AssignedIsTheLiveOne, OffersFor, RequestExists
<1> QED
  BY <1>8, <1>9, <1>10, <1>11, <1>12 DEF MatchInv

LEMMA AssignStep ==
  ASSUME TypeOK, MatchInv, NEW h \in Handlers, AcceptAssign(h)
  PROVE  MatchInv'
<1> DEFINE o == job[h].on
           r == RequestOf[o]
<1>1. /\ contract' = contract /\ job[h].at = "accept.assign"
      /\ job' = [job EXCEPT ![h] = [@ EXCEPT !.at = "accept.decline"]]
  BY DEF AcceptAssign, At, Goto
<1>2. o \in Offers /\ r \in Requests
  BY <1>1, JobTyping, ConstantsAssumption DEF OfferSteps, AcquireSteps
<1>3. /\ job'[h].at = "accept.decline"
      /\ \A g \in Handlers \ {h} : job'[g] = job[g]
  BY <1>1 DEF TypeOK, Job, Idle
<1>4. \A g \in Handlers : Acquiring(g)' <=> Acquiring(g) /\ g # h
  BY <1>3 DEF Acquiring, AcquireSteps
<1>5. /\ \A x \in OffersFor(r) : Live(x) => x = o
      /\ \A g \in Handlers : Acquiring(g) /\ RequestOf[job[g].on] = r => g = h
      /\ contract[o].status # "none"
  BY <1>1 DEF MatchInv, AcquiringAlone, Acquiring, AcquireSteps, At
<1>6. /\ \A q \in Requests : /\ request'[q].provider = request[q].provider
                             /\ request'[q].status = request[q].status
      /\ \A q \in Requests \ {r} : request'[q] = request[q]
      /\ \/ request'[r].contract = request[r].contract
         \/ request'[r].contract = o /\ RequestExists(r)
  BY <1>2 DEF AcceptAssign, TypeOK, RequestDoc
<1>7. \A x \in Offers : Live(x)' = Live(x)
  BY <1>1 DEF Live
<1>8. OneLiveContract'
  BY <1>7 DEF MatchInv, OneLiveContract
<1>9. LiveContractHoldsRequest'
  BY <1>6, <1>7, ConstantsAssumption
     DEF MatchInv, LiveContractHoldsRequest, RequestExists
<1>10. ASSUME NEW g \in Handlers PROVE AcquiringAlone(g)'
  <2>1. SUFFICES ASSUME Acquiring(g), g # h PROVE AcquiringAlone(g)'
    BY <1>4 DEF AcquiringAlone
  <2>2. job'[g] = job[g] /\ job[g].on \in Offers
    BY <1>3, <2>1, JobTyping DEF Acquiring, OfferSteps
  <2>3. RequestOf[job[g].on] \in Requests \ {r}
    BY <1>5, <2>1, <2>2, ConstantsAssumption
  <2>4. AcquiringAlone(g)
    BY DEF MatchInv
  <2> QED
    BY <1>1, <1>3, <1>4, <1>6, <1>7, <2>1, <2>2, <2>3, <2>4
       DEF AcquiringAlone, OffersFor, RequestExists, At
<1>11. ASSUME NEW g \in Handlers PROVE CancelledBeforeRelease(g)'
  BY <1>1, <1>3 DEF MatchInv, CancelledBeforeRelease, At
<1>12. ASSUME NEW q \in Requests PROVE AssignedIsTheLiveOne(q)'
  <2>1. CASE request'[q].contract = request[q].contract
    BY <1>1, <1>6, <1>7, <2>1
       DEF MatchInv, AssignedIsTheLiveOne, OffersFor, RequestExists
  <2>2. CASE q = r /\ request'[r].contract = o /\ RequestExists(r)
    BY <1>1, <1>5, <1>6, <1>7, <2>2
       DEF AssignedIsTheLiveOne, OffersFor, RequestExists
  <2> QED
    BY <1>6, <2>1, <2>2
<1> QED
  BY <1>8, <1>9, <1>10, <1>11, <1>12 DEF MatchInv

LEMMA CancelReadStep ==
  ASSUME TypeOK, MatchInv, NEW h \in Handlers, NEW o \in Offers, CancelRead(h, o)
  PROVE  MatchInv'
<1>1. /\ request' = request /\ contract' = contract
      /\ job[h] = Idle /\ contract[o].status # "none"
      /\ job' = [job EXCEPT ![h] =
                   [at |-> "cancel.write", on |-> o, amount |-> None]]
  BY DEF CancelRead, Start
<1>2. /\ job'[h].at = "cancel.write" /\ job'[h].on = o
      /\ \A g \in Handlers \ {h} : job'[g] = job[g]
  BY <1>1 DEF TypeOK
<1>3. \A g \in Handlers : Acquiring(g)' = Acquiring(g) /\ ~Acquiring(h)
  BY <1>1, <1>2 DEF Acquiring, AcquireSteps, Idle
<1>4. \A x \in Offers : Live(x)' = Live(x)
  BY <1>1 DEF Live
<1>5. ASSUME NEW g \in Handlers PROVE AcquiringAlone(g)'
  BY <1>1, <1>2, <1>3, <1>4
     DEF MatchInv, AcquiringAlone, OffersFor, RequestExists, At
<1>6. ASSUME NEW g \in Handlers PROVE CancelledBeforeRelease(g)'
  BY <1>1, <1>2 DEF MatchInv, CancelledBeforeRelease, At
<1> QED
  BY <1>1, <1>4, <1>5, <1>6
     DEF MatchInv, OneLiveContract, LiveContractHoldsRequest, RequestExists,
         AssignedIsTheLiveOne, OffersFor

LEMMA CancelWriteStep ==
  ASSUME TypeOK, MatchInv, NEW h \in Handlers, CancelWrite(h)
  PROVE  MatchInv'
<1> DEFINE o == job[h].on
<1>1. /\ request' = request /\ job[h].at = "cancel.write"
      /\ job' = [job EXCEPT ![h] = [@ EXCEPT !.at = "cancel.release"]]
  BY DEF CancelWrite, At, Goto
<1>2. o \in Offers
  BY <1>1, JobTyping DEF OfferSteps
<1>3. /\ job'[h].at = "cancel.release" /\ job'[h].on = o
      /\ \A g \in Handlers \ {h} : job'[g] = job[g]
  BY <1>1 DEF TypeOK, Job, Idle
<1>4. /\ contract'[o].status = "cancelled"
      /\ \A x \in Offers \ {o} : contract'[x] = contract[x]
      /\ contract[o].status # "none"
  BY <1>1, <1>2
     DEF CancelWrite, TypeOK, ContractDoc, MatchInv, CancelledBeforeRelease, At
<1>5. \A x \in Offers :
        /\ Live(x)' => Live(x)
        /\ contract[x].status # "none" => contract'[x].status # "none"
  BY <1>4 DEF Live
<1>6. \A g \in Handlers : Acquiring(g)' = Acquiring(g) /\ ~Acquiring(h)
  BY <1>1, <1>3 DEF Acquiring, AcquireSteps
<1>7. ASSUME NEW g \in Handlers PROVE AcquiringAlone(g)'
  <2>1. SUFFICES ASSUME Acquiring(g), g # h PROVE AcquiringAlone(g)'
    BY <1>6 DEF AcquiringAlone
  <2>2. job'[g] = job[g] /\ job[g].on \in Offers
    BY <1>3, <2>1, JobTyping DEF Acquiring, OfferSteps
  <2>3. AcquiringAlone(g)
    BY DEF MatchInv
  <2> QED
    BY <1>1, <1>3, <1>5, <1>6, <2>1, <2>2, <2>3
       DEF AcquiringAlone, OffersFor, RequestExists, At, Live
<1>8. ASSUME NEW g \in Handlers PROVE CancelledBeforeRelease(g)'
  <2>1. SUFFICES ASSUME job'[g].at \in CancelSteps
                 PROVE  CancelledBeforeRelease(g)'
    BY DEF CancelledBeforeRelease, At, CancelSteps
  <2>2. CASE g = h
    BY <1>3, <1>4, <2>2 DEF CancelledBeforeRelease, At
  <2>3. CASE g # h
    <3>1. job'[g] = job[g] /\ job[g].on \in Offers
      BY <1>3, <2>1, <2>3, JobTyping DEF CancelSteps, OfferSteps
    <3>2. CancelledBeforeRelease(g)
      BY DEF MatchInv
    <3> QED
      BY <1>4, <1>5, <2>1, <3>1, <3>2 DEF CancelledBeforeRelease, At, CancelSteps
  <2> QED
    BY <2>2, <2>3
<1>9. ASSUME NEW q \in Requests PROVE AssignedIsTheLiveOne(q)'
  <2>1. SUFFICES ASSUME request[q].contract # None
                 PROVE  AssignedIsTheLiveOne(q)'
    BY <1>1 DEF AssignedIsTheLiveOne
  <2>2. request[q].contract \in Offers
    BY <2>1 DEF TypeOK, RequestDoc
  <2> QED
    BY <1>1, <1>5, <2>1, <2>2
       DEF MatchInv, AssignedIsTheLiveOne, OffersFor, RequestExists, Live
<1>10. OneLiveContract'
  BY <1>5 DEF MatchInv, OneLiveContract, Live
<1>11. LiveContractHoldsRequest'
  BY <1>1, <1>5 DEF MatchInv, LiveContractHoldsRequest, RequestExists, Live
<1> QED
  BY <1>7, <1>8, <1>9, <1>10, <1>11 DEF MatchInv

LEMMA ReleaseStep ==
  ASSUME TypeOK, MatchInv, NEW h \in Handlers, CancelRelease(h)
  PROVE  MatchInv'
<1> DEFINE o == job[h].on
           r == RequestOf[o]
<1>1. /\ contract' = contract /\ job[h].at = "cancel.release"
      /\ job' = [job EXCEPT ![h] = Idle]
  BY DEF CancelRelease, At, Done
<1>2. o \in Offers /\ r \in Requests
  BY <1>1, JobTyping, ConstantsAssumption DEF OfferSteps
<1>3. /\ job'[h].at = "idle"
      /\ \A g \in Handlers \ {h} : job'[g] = job[g]
  BY <1>1 DEF TypeOK, Idle
<1>4. CASE request[r].contract # o
  <2>1. request' = request
    BY <1>4 DEF CancelRelease
  <2> QED
    BY <1>1, <1>3, <2>1, QuietStep DEF AcquireSteps, CancelSteps
<1>5. CASE request[r].contract = o
  <2>1. /\ RequestExists(r)
        /\ \A x \in OffersFor(r) : ~Live(x)
    <3>1. request[r].contract # None
      BY <1>2, <1>5, ConstantsAssumption
    <3>2. contract[o].status = "cancelled"
      BY <1>1 DEF MatchInv, CancelledBeforeRelease, At
    <3> QED
      BY <1>2, <1>5, <3>1, <3>2 DEF MatchInv, AssignedIsTheLiveOne, Live
  <2>2. \A g \in Handlers : Acquiring(g) => RequestOf[job[g].on] # r
    BY <1>2, <1>5, <2>1, ConstantsAssumption DEF MatchInv, AcquiringAlone
  <2>3. /\ request'[r].contract = None /\ request'[r].status # "deleted"
        /\ \A q \in Requests \ {r} : request'[q] = request[q]
    <3>1. request' = [request EXCEPT
                        ![r] = [@ EXCEPT !.status = "published",
                                         !.provider = None,
                                         !.contract = None]]
      BY <1>5 DEF CancelRelease
    <3>2. request \in [Requests -> RequestDoc] /\ request[r] \in RequestDoc
      BY <1>2 DEF TypeOK
    <3>3. request'[r] = [request[r] EXCEPT !.status = "published",
                                           !.provider = None,
                                           !.contract = None]
      BY <1>2, <3>1, <3>2
    <3>4. request'[r].contract = None /\ request'[r].status = "published"
      BY <3>2, <3>3 DEF RequestDoc
    <3> QED
      BY <1>2, <3>1, <3>2, <3>4
  <2>4. \A x \in Offers : Live(x)' = Live(x)
    BY <1>1 DEF Live
  <2>5. OneLiveContract'
    BY <2>4 DEF MatchInv, OneLiveContract
  <2>6. LiveContractHoldsRequest'
    BY <2>1, <2>3, <2>4, ConstantsAssumption
       DEF MatchInv, LiveContractHoldsRequest, OffersFor, RequestExists
  <2>7. ASSUME NEW g \in Handlers PROVE AcquiringAlone(g)'
    <3>1. SUFFICES ASSUME Acquiring(g)' PROVE AcquiringAlone(g)'
      BY DEF AcquiringAlone
    <3>2. \A f \in Handlers : Acquiring(f)' => Acquiring(f) /\ job'[f] = job[f]
      BY <1>3 DEF Acquiring, AcquireSteps
    <3>3. /\ Acquiring(g) /\ job'[g] = job[g]
          /\ job[g].on \in Offers /\ RequestOf[job[g].on] \in Requests \ {r}
      BY <2>2, <3>1, <3>2, JobTyping, ConstantsAssumption
         DEF Acquiring, OfferSteps
    <3>4. AcquiringAlone(g)
      BY DEF MatchInv
    <3> QED
      BY <1>1, <2>3, <2>4, <3>1, <3>2, <3>3, <3>4
         DEF AcquiringAlone, OffersFor, RequestExists, At
  <2>8. ASSUME NEW g \in Handlers PROVE CancelledBeforeRelease(g)'
    BY <1>1, <1>3 DEF MatchInv, CancelledBeforeRelease, At
  <2>9. ASSUME NEW q \in Requests PROVE AssignedIsTheLiveOne(q)'
    BY <1>1, <2>3, <2>4
       DEF MatchInv, AssignedIsTheLiveOne, OffersFor, RequestExists
  <2> QED
    BY <2>5, <2>6, <2>7, <2>8, <2>9 DEF MatchInv
<1> QED
  BY <1>4, <1>5

\* A handler that merely reads, or that writes a status the match does not
\* depend on, is quiet.
LEMMA QuietHandler ==
  ASSUME TypeOK, MatchInv, NEW h \in Handlers,
         contract' = contract, request' = request,
         \A g \in Handlers \ {h} : job'[g] = job[g],
         job'[h].at \notin AcquireSteps \union CancelSteps
  PROVE  MatchInv'
BY QuietStep

LEMMA StatusStep ==
  ASSUME TypeOK, MatchInv, NEW h \in Handlers, contract' = contract,
         NEW r \in Requests,
         NEW status \in RequestStatus \ {"deleted"}, SetStatus(r, status), Done(h)
  PROVE  MatchInv'
<1>1. \A g \in Handlers : job'[g] = job[g] \/ job'[g].at = "idle"
  BY DEF Done, TypeOK, Idle
<1>2. \A q \in Requests :
        /\ request'[q].provider = request[q].provider
        /\ request'[q].contract = request[q].contract
        /\ (request'[q].status = "deleted") = (request[q].status = "deleted")
  <2>1. CASE ~RequestExists(r)
    BY <2>1 DEF SetStatus
  <2>2. CASE RequestExists(r)
    <3>1. request' = [request EXCEPT ![r] = [@ EXCEPT !.status = status]]
      BY <2>2 DEF SetStatus
    <3>2. request \in [Requests -> RequestDoc] /\ request[r] \in RequestDoc
      BY DEF TypeOK
    <3>3. /\ \A q \in Requests \ {r} : request'[q] = request[q]
          /\ request'[r] = [request[r] EXCEPT !.status = status]
      BY <3>1, <3>2
    <3>4. /\ request'[r].provider = request[r].provider
          /\ request'[r].contract = request[r].contract
          /\ request'[r].status = status
      BY <3>2, <3>3 DEF RequestDoc
    <3> QED
      BY <2>2, <3>3, <3>4 DEF RequestExists
  <2> QED
    BY <2>1, <2>2
<1> QED
  BY <1>1, <1>2, QuietStep DEF AcquireSteps, CancelSteps

LEMMA GoneStep ==
  ASSUME TypeOK, MatchInv, contract' = contract, NEW r \in Requests,
         request' = [request EXCEPT ![r] = Gone],
         \A g \in Handlers : job'[g] = job[g] \/ job'[g].at = "idle"
  PROVE  MatchInv'
<1>1. \A q \in Requests : request'[q] = Gone \/ request'[q] = request[q]
  BY DEF TypeOK
<1> QED
  BY <1>1, QuietStep DEF AcquireSteps, CancelSteps

LEMMA CallStep ==
  ASSUME TypeOK, MatchInv, NEW h \in Handlers
  PROVE  /\ \A o \in Offers : OfferCall(h, o) => MatchInv'
         /\ \A r \in Requests : RequestCall(h, r) => MatchInv'
<1> DEFINE Begun(steps) ==
             /\ request' = request /\ contract' = contract
             /\ \A g \in Handlers \ {h} : job'[g] = job[g]
             /\ job'[h].at \in steps
           quiet == {"create.insert", "update.write", "remove.delete",
                     "accept.lock", "decline.request", "publish.write",
                     "unpublish.count", "delete.count"}
<1>1. Begun(quiet) => MatchInv'
  BY QuietHandler DEF AcquireSteps, CancelSteps
<1>2. ASSUME NEW o \in Offers, OfferCall(h, o) PROVE MatchInv'
  <2>1. CASE CancelRead(h, o)
    BY <2>1, CancelReadStep
  <2>2. CASE ~CancelRead(h, o)
    <3>1. Begun(quiet)
      BY <1>2, <2>2
         DEF OfferCall, CreateOfferRead, UpdateOfferRead, DeleteOfferRead,
             AcceptRead, DeclineRead, Start, TypeOK
    <3> QED
      BY <1>1, <3>1
  <2> QED
    BY <2>1, <2>2
<1>3. ASSUME NEW r \in Requests, RequestCall(h, r) PROVE MatchInv'
  <2>1. Begun(quiet)
    BY <1>3 DEF RequestCall, PublishRead, UnpublishRead, DeleteRequestRead,
                Start, TypeOK
  <2> QED
    BY <1>1, <2>1
<1> QED
  BY <1>2, <1>3

LEMMA ResumeStep ==
  ASSUME TypeOK, MatchInv, NEW h \in Handlers, Resume(h)
  PROVE  MatchInv'
<1> DEFINE Rested == /\ request' = request /\ contract' = contract
                     /\ \A g \in Handlers \ {h} : job'[g] = job[g]
                     /\ job'[h].at \in {"idle", "decline.write",
                          "unpublish.write", "delete.cancel", "delete.remove"}
<1>1. Rested => MatchInv'
  BY QuietHandler DEF AcquireSteps, CancelSteps
<1>2. CASE \/ CreateOfferInsert(h) \/ UpdateOfferWrite(h) \/ DeleteOfferWrite(h)
           \/ AcceptDeclineOthers(h) \/ DeclineWrite(h)
  <2>1. request' = request /\ contract' = contract /\ Done(h)
    BY <1>2 DEF CreateOfferInsert, UpdateOfferWrite, DeleteOfferWrite,
                AcceptDeclineOthers, DeclineWrite
  <2>2. Rested
    BY <2>1 DEF Done, Idle, TypeOK
  <2> QED
    BY <1>1, <2>2
<1>3. CASE DeclineReadRequest(h) \/ UnpublishCount(h) \/ DeleteRequestCount(h)
  <2>1. /\ request' = request /\ contract' = contract
        /\ \/ Done(h) \/ Goto(h, "decline.write") \/ Goto(h, "unpublish.write")
           \/ Goto(h, "delete.cancel") \/ Goto(h, "delete.remove")
        /\ job[h] # Idle
    BY <1>3 DEF DeclineReadRequest, UnpublishCount, DeleteRequestCount, At, Idle
  <2>2. Rested
    BY <2>1 DEF Done, Goto, Idle, TypeOK, Job
  <2> QED
    BY <1>1, <2>2
<1>4. CASE PublishWrite(h) \/ UnpublishWrite(h) \/ DeleteRequestCancel(h)
  <2>1. job[h].on \in Requests
    BY <1>4, JobTyping
       DEF PublishWrite, UnpublishWrite, DeleteRequestCancel, At, RequestSteps
  <2> QED
    BY <1>4, <2>1, StatusStep
       DEF PublishWrite, UnpublishWrite, DeleteRequestCancel, RequestStatus
<1>5. CASE DeleteRequestRemove(h)
  <2>1. job[h].on \in Requests
    BY <1>5, JobTyping DEF DeleteRequestRemove, At, RequestSteps
  <2> QED
    BY <1>5, <2>1, GoneStep DEF DeleteRequestRemove, Done, Idle, TypeOK
<1> QED
  BY <1>2, <1>3, <1>4, <1>5, LockStep, MarkStep, ContractStep, AssignStep,
     CancelWriteStep, ReleaseStep
     DEF Resume

LEMMA NextMatchInv == TypeOK /\ MatchInv /\ [Next]_vars => MatchInv'
<1> SUFFICES ASSUME TypeOK, MatchInv, [Next]_vars PROVE MatchInv'
  OBVIOUS
<1>1. ASSUME NEW r \in Requests, ArchiveRequest(r) PROVE MatchInv'
  <2>1. /\ contract' = contract /\ job' = job
        /\ request' = [request EXCEPT ![r] = [@ EXCEPT !.archived = TRUE]]
    BY <1>1 DEF ArchiveRequest
  <2>2. request \in [Requests -> RequestDoc] /\ request[r] \in RequestDoc
    BY DEF TypeOK
  <2>3. /\ \A q \in Requests \ {r} : request'[q] = request[q]
        /\ request'[r] = [request[r] EXCEPT !.archived = TRUE]
    BY <2>1, <2>2
  <2>4. /\ request'[r].provider = request[r].provider
        /\ request'[r].contract = request[r].contract
        /\ request'[r].status = request[r].status
    BY <2>2, <2>3 DEF RequestDoc
  <2> QED
    BY <2>1, <2>3, <2>4, QuietStep
<1>2. ASSUME NEW r \in Requests, PurgeRequest(r) PROVE MatchInv'
  BY <1>2, GoneStep DEF PurgeRequest
<1>3. ASSUME NEW h \in Handlers, Fail(h) PROVE MatchInv'
  BY <1>3, QuietHandler DEF Fail, Done, Idle, TypeOK, AcquireSteps, CancelSteps
<1>4. CASE UNCHANGED vars
  BY <1>4, QuietStep DEF vars
<1> QED
  BY <1>1, <1>2, <1>3, <1>4, CallStep, ResumeStep DEF Next, Step

\* The inductive invariant of offers and contracts: at every step of every handler the
\* acceptance that holds a request works alone, what it assigned is its own live
\* contract, and a cancellation releases only what is cancelled.
THEOREM AcceptanceWorksAlone == Spec => []MatchInv
BY InitTyped, NextTyped, InitMatchInv, NextMatchInv, PTL DEF Spec

\* However many handlers overlap and wherever they stop, no request has two
\* live contracts.
THEOREM NeverTwoLiveContracts == Spec => []OneLiveContract
<1>1. TypeOK /\ MatchInv => OneLiveContract
  BY DEF MatchInv
<1> QED
  BY InitTyped, NextTyped, InitMatchInv, NextMatchInv, <1>1, PTL DEF Spec

\* Nor can a request with a live contract be locked for another provider.
THEOREM LiveContractsHoldRequests == Spec => []LiveContractHoldsRequest
<1>1. TypeOK /\ MatchInv => LiveContractHoldsRequest
  BY DEF MatchInv
<1> QED
  BY InitTyped, NextTyped, InitMatchInv, NextMatchInv, <1>1, PTL DEF Spec

-----------------------------------------------------------------------------
(* An accepted offer is out of its provider's reach. *)

LEMMA OffersFrozen ==
  ASSUME TypeOK, [Next]_vars, NEW o \in Offers, offer[o].status = "accepted"
  PROVE  offer'[o].status # "deleted" /\ offer'[o].amount = offer[o].amount
<1> DEFINE Frozen == offer'[o].status # "deleted" /\ offer'[o].amount = offer[o].amount
<1>1. offer \in [Offers -> OfferDoc] /\ offer[o] \in OfferDoc
  BY DEF TypeOK
<1>2. CASE offer' = offer
  BY <1>2
<1>3. ASSUME NEW s \in {"accepted", "declined"}, NEW x \in Offers,
             offer' = [offer EXCEPT ![x] = [@ EXCEPT !.status = s]]
      PROVE  Frozen
  <2>1. offer'[o] = offer[o] \/ offer'[o] = [offer[o] EXCEPT !.status = s]
    BY <1>1, <1>3
  <2> QED
    BY <1>1, <2>1 DEF OfferDoc
<1>4. ASSUME NEW h \in Handlers,
             CreateOfferInsert(h) \/ UpdateOfferWrite(h) \/ DeleteOfferWrite(h)
                \/ AcceptDeclineOthers(h)
      PROVE  Frozen
  <2>1. offer'[o] = offer[o]
    BY <1>1, <1>4 DEF CreateOfferInsert, UpdateOfferWrite, DeleteOfferWrite,
                      AcceptDeclineOthers
  <2> QED
    BY <2>1
<1>5. ASSUME NEW h \in Handlers, AcceptMark(h) \/ DeclineWrite(h)
      PROVE  Frozen
  <2>1. job[h].on \in Offers
    BY <1>5, JobTyping DEF AcceptMark, DeclineWrite, At, OfferSteps, AcquireSteps
  <2> QED
    BY <1>2, <1>3, <1>5, <2>1 DEF AcceptMark, DeclineWrite
<1>6. ASSUME NEW h \in Handlers, NEW x \in Offers, OfferCall(h, x) PROVE Frozen
  BY <1>2, <1>6 DEF OfferCall, CreateOfferRead, UpdateOfferRead, DeleteOfferRead,
                    AcceptRead, DeclineRead, CancelRead
<1>7. ASSUME NEW h \in Handlers, NEW r \in Requests, RequestCall(h, r)
      PROVE  Frozen
  BY <1>2, <1>7, SMTT(30) DEF RequestCall, PublishRead, UnpublishRead, DeleteRequestRead
<1>8. ASSUME NEW h \in Handlers, Resume(h) PROVE Frozen
  BY <1>2, <1>4, <1>5, <1>8
     DEF Resume, AcceptLock, AcceptContract, AcceptAssign, DeclineReadRequest,
         PublishWrite, UnpublishCount, UnpublishWrite, DeleteRequestCount,
         DeleteRequestCancel, DeleteRequestRemove, CancelWrite, CancelRelease
<1> QED
  BY <1>2, <1>6, <1>7, <1>8
     DEF Next, Step, ArchiveRequest, PurgeRequest, Fail, vars

\* The checks repeated in the provider's writes are enough for every overlap.
THEOREM AcceptedOffersAreFrozen == Spec => AcceptedOfferIsFrozen
<1> DEFINE Frozen == \A o \in Offers : offer[o].status = "accepted"
                      => /\ offer'[o].status # "deleted"
                         /\ offer'[o].amount = offer[o].amount
<1>1. TypeOK /\ [Next]_vars => [Frozen]_vars
  BY OffersFrozen
<1> QED
  BY InitTyped, NextTyped, <1>1, PTL DEF Spec, AcceptedOfferIsFrozen

-----------------------------------------------------------------------------
(* The contracts of a request come one after another. *)

\* Contracts are written by acceptForClient and by cancel() only.
LEMMA ContractActions ==
  ASSUME [Next]_vars
  PROVE  \/ contract' = contract
         \/ \E h \in Handlers : AcceptContract(h) \/ CancelWrite(h)
<1> DEFINE Kept == contract' = contract
<1>1. ASSUME NEW h \in Handlers, NEW x \in Offers, OfferCall(h, x) PROVE Kept
  BY <1>1 DEF OfferCall, CreateOfferRead, UpdateOfferRead, DeleteOfferRead,
              AcceptRead, DeclineRead, CancelRead
<1>2. ASSUME NEW h \in Handlers, NEW r \in Requests, RequestCall(h, r) PROVE Kept
  BY <1>2, SMTT(30) DEF RequestCall, PublishRead, UnpublishRead, DeleteRequestRead
<1>3. ASSUME NEW h \in Handlers, Resume(h)
      PROVE  Kept \/ AcceptContract(h) \/ CancelWrite(h)
  BY <1>3
     DEF Resume, CreateOfferInsert, UpdateOfferWrite, DeleteOfferWrite,
         AcceptLock, AcceptMark, AcceptAssign, AcceptDeclineOthers,
         DeclineReadRequest, DeclineWrite, PublishWrite, UnpublishCount,
         UnpublishWrite, DeleteRequestCount, DeleteRequestCancel,
         DeleteRequestRemove, CancelRelease
<1>4. ASSUME NEW r \in Requests, ArchiveRequest(r) \/ PurgeRequest(r) PROVE Kept
  BY <1>4 DEF ArchiveRequest, PurgeRequest
<1>5. ASSUME NEW h \in Handlers, Fail(h) PROVE Kept
  BY <1>5 DEF Fail
<1> QED
  BY <1>1, <1>2, <1>3, <1>4, <1>5 DEF Next, Step, vars

\* Every step of the handlers is, seen from the contracts, the forming or the
\* end of one contract, or nothing.
LEMMA LifeStep ==
  ASSUME TypeOK, MatchInv, [Next]_vars
  PROVE  [Life!Next]_([o \in Offers |-> LifeOf(contract[o])])
<1> DEFINE phase == [o \in Offers |-> LifeOf(contract[o])]
<1>1. CASE contract' = contract
  BY <1>1
<1>2. ASSUME NEW h \in Handlers, AcceptContract(h), contract' # contract
      PROVE  Life!Next
  <2> DEFINE c == job[h].on
  <2>1. /\ c \in Offers /\ job[h].at = "accept.contract"
        /\ contract[c].status = "none"
        /\ contract' = [contract EXCEPT
                          ![c] = [status |-> "pending", amount |-> job[h].amount]]
    BY <1>2, JobTyping DEF AcceptContract, At, OfferSteps, AcquireSteps
  <2>2. \A x \in Life!Rivals(c) : phase[x] # "live"
    <3>1. \A x \in OffersFor(RequestOf[c]) : Live(x) => x = c
      BY <2>1 DEF MatchInv, AcquiringAlone, Acquiring, AcquireSteps
    <3> QED
      BY <3>1 DEF Life!Rivals, OffersFor, LifeOf, Live
  <2>3. phase[c] = "none"
    BY <2>1 DEF LifeOf
  <2>4. phase' = [phase EXCEPT ![c] = "live"]
    BY <2>1 DEF TypeOK, LifeOf
  <2>5. Life!Form(c)
    BY <2>2, <2>3, <2>4 DEF Life!Form
  <2> QED
    BY <2>1, <2>5 DEF Life!Next
<1>3. ASSUME NEW h \in Handlers, CancelWrite(h) PROVE [Life!Next]_phase
  <2> DEFINE c == job[h].on
  <2>1. /\ c \in Offers /\ job[h].at = "cancel.write"
        /\ contract' = [contract EXCEPT ![c] = [@ EXCEPT !.status = "cancelled"]]
    BY <1>3, JobTyping DEF CancelWrite, At, OfferSteps
  <2>2. contract[c] \in ContractDoc /\ contract[c].status # "none"
    BY <1>3, <2>1 DEF MatchInv, CancelledBeforeRelease, CancelWrite, TypeOK
  <2>3. phase[c] \in {"live", "over"}
    BY <2>1, <2>2 DEF LifeOf, ContractDoc
  <2>4. contract'[c].status = "cancelled"
        /\ \A x \in Offers \ {c} : contract'[x] = contract[x]
    BY <2>1, <2>2 DEF TypeOK, ContractDoc
  <2>5. LifeOf(contract'[c]) = "over"
    BY <2>4 DEF LifeOf
  <2>6. phase' = [phase EXCEPT ![c] = "over"]
    BY <2>1, <2>4, <2>5 DEF LifeOf
  <2>7. CASE phase[c] = "live"
    BY <2>1, <2>6, <2>7 DEF Life!Next, Life!End
  <2>8. CASE phase[c] = "over"
    BY <2>1, <2>6, <2>8
  <2> QED
    BY <2>3, <2>7, <2>8
<1> QED
  BY <1>1, <1>2, <1>3, ContractActions

\* The handlers, interleaved and interrupted at will, implement ContractLife.
THEOREM ContractsComeInTurn == Spec => ImplementsContractLife
<1>1. Init => Life!Init
  BY DEF Init, Life!Init, LifeOf
<1>2. TypeOK /\ MatchInv /\ [Next]_vars
        => [Life!Next]_([o \in Offers |-> LifeOf(contract[o])])
  BY LifeStep
<1> QED
  BY InitTyped, NextTyped, InitMatchInv, NextMatchInv, <1>1, <1>2, PTL
     DEF Spec, ImplementsContractLife, Life!Spec
=============================================================================
