------------------------------- MODULE Boards -------------------------------
(***************************************************************************)
(* GET /workspace/requests, both scopes.  The private board                *)
(* (workspace-requests.service.ts) is made in memory from all the cards of *)
(* its owner; the public one (workspace-market-requests.service.ts) from   *)
(* ten queries, of which one is the page and three are the queue.  The     *)
(* same policy and presenter (workspace-requests-list-policy.ts,           *)
(* workspace-requests.presenter.ts) finish both.                           *)
(*                                                                         *)
(* Times are small numbers; a day is 1 and it is Now.                      *)
(***************************************************************************)
EXTENDS Listing

CONSTANTS
  Documents,        \* a sequence of requests, known by their places in it
  DocumentSets,     \* what is in the collection when a call reads it
  MyCards,          \* a sequence of cards of one user
  CardSets,         \* those a call makes
  Periods,          \* the first instants of the period asked for
  BoardSorts, BoardPages, BoardLimits,
  Now,
  NotSet            \* null

\* A card has a priority if it asks for an action (buildWorkspaceDecision()).
ASSUME BoardAssumption ==
  /\ DOMAIN Documents = 1..Len(Documents) /\ Len(Documents) \in Nat
  /\ \A d \in DOMAIN Documents :
       /\ {Documents[d].created, Documents[d].updated} \subseteq Nat
       /\ {Documents[d].publishedAt, Documents[d].matchedAt, Documents[d].price,
           Documents[d].preferred} \subseteq Nat \union {NotSet}
  /\ DocumentSets \subseteq SUBSET DOMAIN Documents
  /\ DOMAIN MyCards = 1..Len(MyCards) /\ Len(MyCards) \in Nat
  /\ \A c \in DOMAIN MyCards :
       /\ {MyCards[c].priority, MyCards[c].relevant, MyCards[c].created, MyCards[c].activity}
            \subseteq Nat
       /\ {MyCards[c].budget, MyCards[c].deadline} \subseteq Nat \union {NotSet}
       /\ MyCards[c].action # "none" => MyCards[c].priority > 0
  /\ CardSets \subseteq SUBSET DOMAIN MyCards
  /\ BoardPages \subseteq Int /\ BoardLimits \subseteq Int \union {NotSet}
  /\ Now \in Nat /\ NotSet \notin Nat

VARIABLE board      \* what a call was asked and has loaded, or NotSet

Sections == [all |-> {"open", "clarifying", "active", "completed"},
             attention |-> {"open", "clarifying"}, execution |-> {"active"},
             completed |-> {"completed"}]

States == DOMAIN Sections

BoardQueries(scope, sets, roles) ==
  [scope: {scope}, loaded: sets, role: roles, state: States, period: Periods,
   sort: BoardSorts, page: BoardPages, limit: BoardLimits]

AnyQuery == BoardQueries("market", DocumentSets, {"all"})
              \union BoardQueries("my", CardSets, {"all", "customer", "provider"})

BoardInit == board = NotSet

LoadBoard == board = NotSet /\ board' \in AnyQuery

AnswerBoard == board # NotSet /\ board' = NotSet

BoardNext == LoadBoard \/ AnswerBoard

BoardSpec == BoardInit /\ [][BoardNext]_board

-----------------------------------------------------------------------------
(* The policy and the presenter.  `card` gives the card of each member of S. *)

OrElse(value, other) == IF value = NotSet THEN other ELSE value

OfRole(S, card, role, from) ==
  {c \in S : card[c].activity >= from /\ role \in {"all", card[c].role}}

OfState(S, card, state) == {c \in S : card[c].state \in Sections[state]}

\* Cards that compare equal stay in the order of `place`.  A deadline that is not set
\* comes last; "price_asc" and "date_desc" are not known here, and sort by activity.
PolicyOrder(S, card, sort, place) ==
  InOrder(S, [c \in S |->
    (CASE sort = "deadline" /\ card[c].deadline = NotSet -> <<1, 0, 0>>
       [] sort = "deadline" /\ card[c].deadline # NotSet ->
            <<0, card[c].deadline, -card[c].activity>>
       [] sort = "newest" -> <<-card[c].created, 0, 0>>
       [] sort \in {"budget", "price_desc"} -> <<-OrElse(card[c].budget, 0), 0, 0>>
       [] sort \in {"oldest", "date_asc"} -> <<card[c].created, 0, 0>>
       [] OTHER -> <<-card[c].activity, 0, 0>>) \o <<place[c]>>])

DecisionQueue(S, card) ==
  InOrder({c \in S : card[c].priority > 0},
          [c \in S |-> <<-card[c].priority, -card[c].relevant, -card[c].created, c>>])

Weight(c) ==
  10 * (CASE c.state = "clarifying" -> 4 [] c.state = "active" -> 3
          [] c.state = "open" -> 2 [] OTHER -> 1)
    + (CASE c.urgency = "high" -> 3 [] c.urgency = "medium" -> 2 [] OTHER -> 1)

SummaryOf(S, card) == [s \in States |-> Cardinality(OfState(S, card, s))]

CountActions(S, card, actions) == Cardinality({c \in S : card[c].action \in actions})

DecisionSummary(S, card) ==
  [total |-> Cardinality({c \in S : card[c].priority > 0}),
   high |-> Cardinality({c \in S : card[c].priority >= 90}),
   newOffers |-> CountActions(S, card, {"review_offers"}),
   confirmCompletion |-> CountActions(S, card, {"confirm_completion"}),
   overdue |-> CountActions(S, card, {"overdue_followup"})]

\* The card of the side panel, and the one its recommendation is about.
FocusOf(S, card) ==
  IF S = {} THEN NotSet
  ELSE InOrder(S, [c \in S |-> <<-Weight(card[c]), -card[c].activity, c>>])[1]

Recommended(S, card) ==
  IF DecisionQueue(S, card) = <<>> THEN NotSet ELSE DecisionQueue(S, card)[1]

-----------------------------------------------------------------------------
(* The private board. *)

MyList(q) == PolicyOrder(OfState(OfRole(q.loaded, MyCards, q.role, q.period), MyCards, q.state),
                         MyCards, q.sort, [c \in q.loaded |-> c])

\* No limit: all of them, on one page.
MyLimit(q) == AtMost(AtLeast(OrElse(q.limit, AtLeast(Len(MyList(q)), 1)), 1), 100)

-----------------------------------------------------------------------------
(* The public board. *)

DayAgo == Now - 1

Doc(d) == Documents[d]

MarketState(status) ==
  CASE status = "matched" -> "active" [] status = "closed" -> "completed" [] OTHER -> "open"

MarketUrgency(status) ==
  CASE status = "matched" -> "medium" [] status = "closed" -> "low" [] OTHER -> "high"

MarketDecision(d) ==
  LET since == OrElse(Doc(d).publishedAt, Doc(d).created) IN
  CASE Doc(d).status = "matched" ->
         [action |-> "confirm_contract", priority |-> 90,
          relevant |-> OrElse(Doc(d).matchedAt, Doc(d).updated)]
    [] Doc(d).status = "published" /\ since <= DayAgo ->
         [action |-> "overdue_followup", priority |-> 75, relevant |-> since]
    [] Doc(d).status = "published" /\ since > DayAgo ->
         [action |-> "review_offers", priority |-> 45, relevant |-> since]
    [] OTHER -> [action |-> "none", priority |-> 0, relevant |-> 0]

MarketCard(d) ==
  [role |-> "provider", state |-> MarketState(Doc(d).status),
   urgency |-> MarketUrgency(Doc(d).status),
   action |-> MarketDecision(d).action, priority |-> MarketDecision(d).priority,
   relevant |-> MarketDecision(d).relevant, created |-> Doc(d).created,
   budget |-> Doc(d).price, deadline |-> Doc(d).preferred,
   activity |-> CASE Doc(d).status = "matched" -> OrElse(Doc(d).matchedAt, Doc(d).updated)
                  [] Doc(d).status = "closed" -> Doc(d).updated
                  [] OTHER -> OrElse(Doc(d).publishedAt, Doc(d).created)]

MarketCards == [d \in DOMAIN Documents |-> MarketCard(d)]

MarketMatch(q) ==
  {d \in q.loaded : /\ Doc(d).status \in {"published", "matched", "closed"}
                    /\ ~Doc(d).archived /\ Doc(d).updated >= q.period}

StateStatuses(state) ==
  CASE state = "attention" -> {"published"} [] state = "execution" -> {"matched"}
    [] state = "completed" -> {"closed"} [] OTHER -> {"published", "matched", "closed"}

OfStatus(q, statuses) == {d \in MarketMatch(q) : Doc(d).status \in statuses}

\* A null is smaller than all numbers to the database.
NullFirst(value) == OrElse(value, -1)

DatabaseOrder(S, sort) ==
  InOrder(S, [d \in S |->
    (CASE sort \in {"date_asc", "oldest"} -> <<Doc(d).created, 0>>
       [] sort = "deadline" -> <<NullFirst(Doc(d).preferred), -Doc(d).updated>>
       [] sort = "price_asc" -> <<NullFirst(Doc(d).price), -Doc(d).updated>>
       [] sort \in {"newest", "date_desc", "activity"} -> <<-Doc(d).updated, 0>>
       [] OTHER -> <<-NullFirst(Doc(d).price), -Doc(d).updated>>)
      \o <<-Doc(d).created, d>>])

MarketList(q) == DatabaseOrder(OfStatus(q, StateStatuses(q.state)), q.sort)

MarketLimit(q) == AtMost(AtLeast(OrElse(q.limit, 20), 1), 100)

\* The page is put through the policy once more, period and all.
MarketItems(q) ==
  LET list == MarketList(q)
      page == PageItems(list, MarketLimit(q), AtLeast(q.page, 1))
      place == [d \in page |-> CHOOSE i \in DOMAIN list : list[i] = d]
  IN PolicyOrder(OfRole(page, MarketCards, "all", q.period), MarketCards, q.sort, place)

OpenOverADay(q) == {d \in OfStatus(q, {"published"}) : Doc(d).created < DayAgo}

Recent(q) == OfStatus(q, {"published"}) \ OpenOverADay(q)

QueueSize == 5

MatchedFirst(q) ==
  FirstOf(InOrder(OfStatus(q, {"matched"}),
            [d \in q.loaded |-> <<-NullFirst(Doc(d).matchedAt), -Doc(d).updated, d>>]), QueueSize)

OverdueFirst(q) ==
  FirstOf(InOrder(OpenOverADay(q), [d \in q.loaded |-> <<Doc(d).created, d>>]), QueueSize)

RecentFirst(q) ==
  FirstOf(InOrder(Recent(q), [d \in q.loaded |-> <<-Doc(d).created, d>>]), QueueSize)

\* Variant: what is open comes before what is assigned.
QueuedOpenFirst(q) ==
  MembersOf(FirstOf(OverdueFirst(q) \o RecentFirst(q) \o MatchedFirst(q), QueueSize))

Queued(q) == MembersOf(FirstOf(MatchedFirst(q) \o OverdueFirst(q) \o RecentFirst(q), QueueSize))

\* The counts are queries of their own.
MarketSummary(q) ==
  [s \in States |-> Cardinality(OfStatus(q, StateStatuses(s)))]

MarketDecisionSummary(q) ==
  [total |-> MarketSummary(q).attention + MarketSummary(q).execution,
   high |-> MarketSummary(q).execution, newOffers |-> Cardinality(Recent(q)),
   confirmCompletion |-> 0, overdue |-> Cardinality(OpenOverADay(q))]

MoreFollow(total, limit, page) == page * limit < total

-----------------------------------------------------------------------------
\* The type of what a call has loaded.
BoardTypeOK == board \in AnyQuery \union {NotSet}

\* Every card is on one page, and there are more pages until it has been shown.
PagedOnce(list, limit) ==
  /\ \A c \in MembersOf(list) :
       Cardinality({n \in 1..PageCount(list, limit) : c \in PageItems(list, limit, n)}) = 1
  /\ \A n \in 1..PageCount(list, limit) :
       MoreFollow(Len(list), limit, n) <=> PageItems(list, limit, n + 1) # {}

\* The parts of a board agree though they are computed apart.  Each tab lists as many as
\* the summary promises, whichever tab is open, the tabs share out the cards, and their
\* pages show all of them once.  On the private board the queue is led by the most urgent
\* card, the one the recommendation is about, and what the panel counts by action is no
\* more than what it counts in all.  On the public board the numbers come from queries and
\* the decisions from the documents of the page: as many cards ask for action, and with
\* high priority, as the panel says; an assigned request is not kept out of the queue by
\* an open one; nothing is shown that the tab does not count.
BoardsAgree ==
  board # NotSet =>
    LET q == board
        my == OfRole(q.loaded, MyCards, q.role, q.period)
        deciding == DecisionSummary(my, MyCards)
        queue == DecisionQueue(my, MyCards)
        there == MarketMatch(q)
        summary == MarketSummary(q) IN
    /\ q.scope = "my" =>
         /\ Len(MyList(q)) = SummaryOf(my, MyCards)[q.state]
         /\ SummaryOf(my, MyCards).all = Cardinality(OfState(my, MyCards, "attention"))
              + Cardinality(OfState(my, MyCards, "execution"))
              + Cardinality(OfState(my, MyCards, "completed"))
         /\ PagedOnce(MyList(q), MyLimit(q))
         /\ \A c \in MembersOf(queue) : MyCards[c].priority <= MyCards[Recommended(my, MyCards)].priority
         /\ deciding.newOffers + deciding.confirmCompletion + deciding.overdue <= deciding.total
         /\ deciding.total > 0 => FocusOf(my, MyCards) # NotSet
    /\ q.scope = "market" =>
         /\ Len(MarketList(q)) = summary[q.state]
         /\ summary.all = summary.attention + summary.execution + summary.completed
         /\ summary = SummaryOf(there, MarketCards)
         /\ PagedOnce(MarketList(q), MarketLimit(q))
         /\ MembersOf(MarketItems(q)) \subseteq OfState(there, MarketCards, q.state)
         /\ MarketDecisionSummary(q).total = DecisionSummary(there, MarketCards).total
         /\ MarketDecisionSummary(q).high = DecisionSummary(there, MarketCards).high
         /\ MarketDecisionSummary(q).newOffers + MarketDecisionSummary(q).overdue
              = summary.attention
         /\ \A d \in Queued(q) : \A m \in OfStatus(q, {"matched"}) \ Queued(q) :
              Doc(d).status = "matched"
=============================================================================
