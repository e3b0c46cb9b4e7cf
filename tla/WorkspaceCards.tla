---------------------------- MODULE WorkspaceCards ----------------------------
(***************************************************************************)
(* GET /workspace/requests: the card that each party of a request is       *)
(* shown, computed from the documents of Fulfilment.  A card names the     *)
(* stage of the workflow, offers commands and may ask for a decision.      *)
(*                                                                         *)
(* A card shows one contract of its request, the one updated last; the     *)
(* model keeps no times, so here it may be any of them.                    *)
(***************************************************************************)
EXTENDS Fulfilment

\* What a card depends on beyond the documents: whether the client has reviewed
\* the job, whether nothing happened for 24 hours, and how near the deadline is.
Circumstance == [reviewed: BOOLEAN, stale: BOOLEAN,
                 urgency: {"none", "low", "medium", "high"}]

-----------------------------------------------------------------------------
(* The documents a card is made from. *)

\* The owner is shown every request he has not archived.
OwnerSees(r) == RequestExists(r) /\ ~request[r].archived

Signed(S) == {o \in S : contract[o].status # "none"}

ContractsOf(S) == IF Signed(S) = {} THEN {None} ELSE Signed(S)

OwnerContracts(r) == ContractsOf(OffersFor(r))

ProviderContracts(o) == ContractsOf({x \in Offers : SamePair(x, o)})

ContractIs(c, statuses) == c # None /\ contract[c].status \in statuses

\* The booking is looked up by the contract, whatever its own status.
BookingIs(c, status) ==
  \E b \in Bookings : c # None /\ booking[b].contract = c /\ booking[b].status = status

AcceptedIn(r) == \E o \in OffersFor(r) : offer[o].status = "accepted"

Selected(r, c) ==
  AcceptedIn(r) \/ (c # None /\ c \in OffersFor(r) /\ OfferExists(c))

-----------------------------------------------------------------------------
(* workspace-request-cards.builder.ts: where the workflow stands. *)

\* The stage of a request without a contract.
OpenStage(r) ==
  IF HasOffers(r) THEN "offers_received"
  ELSE IF request[r].status = "published" THEN "published"
  ELSE "draft"

\* Variant: a public request is shown as public, offers or not.
OwnerStagePublicFirst(r, c, reviewed) ==
  IF request[r].status = "published" THEN "published"
  ELSE IF c # None THEN "in_progress"
  ELSE OpenStage(r)

\* Variant: the job counts as completed once its booking is.
OwnerStageByBooking(r, c, reviewed) ==
  IF BookingIs(c, "completed") \/ request[r].status = "closed" THEN "completed"
  ELSE IF ContractIs(c, {"pending"}) THEN "contract_pending"
  ELSE IF c # None THEN "in_progress"
  ELSE OpenStage(r)

\* The first rule that applies.  A contract that was cancelled counts as one in
\* progress, and an offer that was declined as one received.
OwnerStage(r, c, reviewed) ==
  IF ContractIs(c, {"completed"}) /\ BookingIs(c, "completed") /\ reviewed
    THEN "reviewed"
  ELSE IF ContractIs(c, {"completed"}) \/ request[r].status = "closed" THEN "completed"
  ELSE IF BookingIs(c, "completed") THEN "completion_pending"
  ELSE IF ContractIs(c, {"pending"}) \/ (Selected(r, c) /\ c = None) THEN "contract_pending"
  ELSE IF c # None THEN "in_progress"
  ELSE OpenStage(r)

SectionOf(stage) ==
  CASE stage \in {"draft", "published"} -> "open"
    [] stage = "offers_received" -> "clarifying"
    [] stage \in {"contract_pending", "in_progress", "completion_pending"} -> "active"
    [] stage \in {"completed", "reviewed"} -> "completed"

\* workspace-requests-list-policy.ts: the tabs of the board.
Filter == [attention |-> {"open", "clarifying"}, execution |-> {"active"},
           completed |-> {"completed"}]

ProviderSection(o, c) ==
  CASE ContractIs(c, {"completed", "cancelled"}) -> "completed"
    [] ContractIs(c, {"pending", "confirmed"}) -> "active"
    [] c = None /\ offer[o].status = "accepted" -> "active"
    [] c = None /\ \/ offer[o].status = "declined"
                   \/ offer[o].status = "sent" /\ request[RequestOf[o]].status = "cancelled"
         -> "completed"
    [] OTHER -> "clarifying"

-----------------------------------------------------------------------------
(* workspace-requests.support.ts: the commands a card offers. *)

\* Those of the owner that depend on the stage, in order, without `chat`; the
\* contract is linked when there is one.
StageActions(stage, c) ==
  CASE stage = "draft" -> <<"publish-request", "edit-request">>
    [] stage = "published" -> <<"unpublish-request", "edit-request">>
    [] stage = "offers_received" -> <<"review-responses", "edit-request">>
    [] stage \in {"completed", "reviewed"} -> <<"review">>
    [] OTHER -> IF c = None THEN <<>> ELSE <<"contract">>

AlwaysOffered ==
  {"open", "duplicate-request", "share-request", "archive-request", "delete-request"}

OwnerActions(stage, c) ==
  LET own == StageActions(stage, c) IN {own[i] : i \in DOMAIN own} \union AlwaysOffered

ProviderActions(o) ==
  CASE offer[o].status = "sent" -> {"edit-offer", "withdraw-offer"}
    [] offer[o].status = "accepted" -> {"contract", "chat"}
    [] OTHER -> {"send-offer"}

\* What the card tells the owner he may do with the request.
Capabilities(r, stage, c) ==
  LET actions == OwnerActions(stage, c) IN
  [edit |-> "edit-request" \in actions,
   publish |-> "publish-request" \in actions,
   unpublish |-> "unpublish-request" \in actions,
   reviewOffers |-> "review-responses" \in actions,
   restore |-> /\ "publish-request" \in actions
               /\ request[r].status \in {"paused", "cancelled"}]

-----------------------------------------------------------------------------
(* buildWorkspaceDecision(): what a card asks for, and how urgently. *)

OwnerDecision(r, stage, c, stale) ==
  CASE stage = "reviewed" -> "none"
    [] stage = "completed" -> "review_completion"
    [] stage = "completion_pending" -> "confirm_completion"
    [] stage = "contract_pending" -> "confirm_contract"
    [] stage \in {"in_progress", "offers_received"} /\ HasOffers(r) -> "review_offers"
    [] /\ stage \in {"draft", "published", "in_progress"}
       /\ ~HasOffers(r)
       /\ stale /\ request[r].status \in {"published", "matched"} -> "overdue_followup"
    [] OTHER -> "none"

ProviderDecision(o, c, stale) ==
  LET section == ProviderSection(o, c) IN
  CASE ContractIs(c, {"pending"}) \/ (section = "active" /\ c = None) -> "confirm_contract"
    [] section = "clarifying" /\ stale -> "overdue_followup"
    [] OTHER -> "none"

BasePriority ==
  [none |-> 0, overdue_followup |-> 60, review_offers |-> 70,
   review_completion |-> 80, confirm_contract |-> 90, confirm_completion |-> 100]

Priority(decision, circumstance) ==
  IF decision = "none" THEN 0
  ELSE BasePriority[decision]
       + (CASE circumstance.urgency = "high" -> 10
            [] circumstance.urgency = "medium" -> 5
            [] OTHER -> 0)
       + (IF circumstance.stale THEN 5 ELSE 0)

PriorityLevel(priority) ==
  CASE priority >= 90 -> "high"
    [] priority >= 70 /\ priority < 90 -> "medium"
    [] priority > 0 /\ priority < 70 -> "low"
    [] OTHER -> "none"

\* The first rule of resolveWorkspaceDecisionPrimaryAction() that applies; `open`
\* is made up where the card has none.
PrimaryAction(decision, actions) ==
  LET wanted == CASE decision \in {"confirm_contract", "confirm_completion"} -> {"contract"}
                  [] decision = "review_completion" -> {"review"}
                  [] OTHER -> {"publish-request", "unpublish-request",
                               "review-responses", "contract", "review", "send-offer"}
      found == actions \intersect wanted IN
  IF decision = "none" THEN None ELSE IF found = {} THEN "open" ELSE CHOOSE a \in found : TRUE

\* The decision queue: ties are broken by the time of the last activity.
AheadInQueue(priority, other) == priority > other

-----------------------------------------------------------------------------
(* Properties. *)

\* The publication commands on a card are commands that requests.service.ts
\* accepts: whatever became of the contract, of late writes and of the offers, a
\* request whose card offers to publish it can be published, and one whose card
\* offers to pause it is public and has no offers.  In particular the card of a
\* matched request never takes it for a draft.
CommandsOnCardWork ==
  \A r \in Requests : \A c \in OwnerContracts(r), reviewed \in BOOLEAN :
    OwnerSees(r) =>
      LET can == Capabilities(r, OwnerStage(r, c, reviewed), c) IN
      /\ can.publish => request[r].status \in {"draft", "paused", "cancelled"}
      /\ can.unpublish => request[r].status = "published" /\ ~HasOffers(r)

\* What a card that asks for a choice of offers or sends a reminder can reach.
DeferrablePriorities ==
  {Priority(d, there) : d \in {"review_offers", "overdue_followup"}, there \in Circumstance}

\* The request was closed with another contract: a late confirmation of a
\* cancelled contract takes the request back from the next one, and a late
\* completion closes it (see the README).
ClosedByAnother(o) ==
  request[RequestOf[o]].status = "closed" /\ request[RequestOf[o]].contract # o

\* Both parties of a live contract find it on their boards under the work in
\* progress, and neither card offers a command that would undo the choice: not
\* the publication to the owner, not the withdrawal to the provider.  While it waits
\* for the client's confirmation it is what his board asks him about, with the
\* contract one click away, and before any choice of offers or reminder: no deadline
\* and no waiting time turns that order round.  Only the completion of another
\* contract of the request can hide it from the owner.
LiveContractOnBothCards ==
  \A o \in Offers : Live(o) =>
    /\ OfferExists(o) =>
         /\ ProviderSection(o, o) \in Filter.execution
         /\ "withdraw-offer" \notin ProviderActions(o)
    /\ OwnerSees(RequestOf[o]) /\ ~ClosedByAnother(o) => \A here \in Circumstance :
         LET stage == OwnerStage(RequestOf[o], o, here.reviewed)
             asked == OwnerDecision(RequestOf[o], stage, o, here.stale) IN
         /\ SectionOf(stage) \in Filter.execution
         /\ ~Capabilities(RequestOf[o], stage, o).publish
         /\ contract[o].status = "pending" =>
              /\ asked \in {"confirm_contract", "confirm_completion"}
              /\ PrimaryAction(asked, OwnerActions(stage, o)) = "contract"
              /\ PriorityLevel(Priority(asked, here)) = "high"
              /\ \A deferred \in DeferrablePriorities :
                   AheadInQueue(Priority(asked, here), deferred)

-----------------------------------------------------------------------------
(* Why: the inductive strengthening of both. *)

Formed(o) == contract[o].status # "none"

Answered(o) == offer[o].status \notin {"absent", "sent"}

Over(o) == contract[o].status \in {"completed", "cancelled"}

\* A contract is formed of an offer that was marked before, and an offer is never
\* 'sent' again.
FormedIsAnswered ==
  /\ \A o \in Offers : Formed(o) => Answered(o)
  /\ \A h \in Handlers :
       /\ job[h].at \in {"accept.lock", "accept.mark"}
            => offer[job[h].on].status # "absent"
       /\ At(h, "accept.contract") => Answered(job[h].on)
       /\ job[h].at \in {"accept.assign", "cancel.write"} => Formed(job[h].on)

\* What a task writes and what a request names is a contract that was formed, and
\* only a contract that is over closes its request.
WorkIsFormed ==
  /\ \A t \in Tasks :
       /\ task[t].at \in ContractSteps => Formed(task[t].on)
       /\ task[t].at \in {"complete.booking", "complete.request"} => Over(task[t].on)
  /\ \A r \in Requests : LET c == request[r].contract IN
       /\ c # None => RequestOf[c] = r /\ Formed(c)
       /\ request[r].status = "closed" => c # None /\ Over(c)

CardsInv == MatchedHasBooking /\ FormedIsAnswered /\ WorkIsFormed
=============================================================================
