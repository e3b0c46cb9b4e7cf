-------------------------------- MODULE Inbox --------------------------------
(***************************************************************************)
(* One person's conversations and the rail that ranks them: who may open a *)
(* conversation about what (buildConversationContext() of                  *)
(* chats.service.ts), and GET /workspace/chat (workspace-chat.service.ts), *)
(* which counts all conversations and loads the newest in parallel         *)
(* queries.  A handler of chats.service.ts is one action here: Chat models *)
(* how they overlap within a conversation.                                 *)
(***************************************************************************)
EXTENDS Listing

CONSTANTS
  Viewer,           \* whose rail it is
  ChatRequests,     \* requests, with their client
  ChatOffers,       \* offers: their request, client and provider
  ChatOrders,       \* contracts: the offer
  Openings,         \* what POST /chats/conversations is sent: actor, role and ids
  RailLoads,        \* the conversations the rail loads
  RailQueue,        \* those it shows
  MaxUnread,        \* bound: unread messages of a conversation
  Missing           \* null, or an id that is not sent

\* Ids are of one kind, and an offer names its client.
ASSUME InboxAssumption ==
  /\ RailLoads \in Nat /\ RailQueue \in 1..RailLoads /\ MaxUnread \in Nat
  /\ DOMAIN ChatRequests \cap DOMAIN ChatOffers = {}
  /\ DOMAIN ChatOrders \cap (DOMAIN ChatRequests \union DOMAIN ChatOffers) = {}
  /\ Missing \notin DOMAIN ChatRequests \union DOMAIN ChatOffers \union DOMAIN ChatOrders
  /\ \A id \in DOMAIN ChatOffers : ChatOffers[id].client # Missing

VARIABLES
  inbox,            \* chat_threads: newest first, with the viewer's counters
  rail              \* the call that builds the rail, between its queries

inboxVars == <<inbox, rail>>

NoRail == [at |-> "idle", total |-> 0, unread |-> 0, moved |-> FALSE]

\* inbox.order: conversations, the one updated last first; inbox.old: those untouched for
\* over three days; inbox.about: what each was opened for last.
InboxInit ==
  /\ inbox = [order |-> <<>>, unread |-> <<>>, old |-> {}, about |-> <<>>]
  /\ rail = NoRail

-----------------------------------------------------------------------------
(* buildConversationContext() *)

FirstGiven(list) ==
  LET given == {n \in DOMAIN list : list[n] # Missing} IN
  IF given = {} THEN Missing ELSE list[CHOOSE n \in given : \A m \in given : n <= m]

Looked(table, id, field) == IF id \in DOMAIN table THEN table[id][field] ELSE Missing

Known(table, id) == id = Missing \/ id \in DOMAIN table

OfferOf(o) == FirstGiven(<<Looked(ChatOrders, o.order, "offer"), o.offer>>)

\* A contract always has its offer, and an id sent as relatedEntity is that id.
RequestOf(o) == FirstGiven(<<o.request, Looked(ChatOffers, OfferOf(o), "request")>>)

ClientOfChat(o) ==
  FirstGiven(<<Looked(ChatOffers, OfferOf(o), "client"), Looked(ChatRequests, RequestOf(o), "client")>>)

ProviderOfChat(o) == FirstGiven(<<o.provider, Looked(ChatOffers, OfferOf(o), "provider")>>)

\* The unique index of chat_threads.
ThreadOf(o) == <<RequestOf(o), ClientOfChat(o), ProviderOfChat(o)>>

\* What the conversation is said to be about.
RelatedTo(o) == FirstGiven(<<o.order, OfferOf(o), RequestOf(o)>>)

MayOpen(o) ==
  /\ Known(ChatOrders, o.order) /\ Known(ChatOffers, OfferOf(o))
  /\ RequestOf(o) \in DOMAIN ChatRequests
  /\ ClientOfChat(o) # Missing /\ ProviderOfChat(o) # Missing
  /\ o.role = "client" => o.actor = ClientOfChat(o)
  /\ o.role = "provider" => o.actor = ProviderOfChat(o)

-----------------------------------------------------------------------------
(* What moves the inbox: every write sets updatedAt. *)

Threads == MembersOf(inbox.order)

\* Where a conversation is, a new one behind the others.
InboxPlace(t) ==
  LET places == {n \in DOMAIN inbox.order : inbox.order[n] = t}
  IN IF places = {} THEN Len(inbox.order) + 1 ELSE CHOOSE n \in places : TRUE

\* To the front, those before it one place down.
Touched(t) ==
  [n \in 1..AtLeast(InboxPlace(t), Len(inbox.order)) |->
     IF n = 1 THEN t ELSE inbox.order[IF n <= InboxPlace(t) THEN n - 1 ELSE n]]

Moves == rail' = IF rail.at = "idle" THEN rail ELSE [rail EXCEPT !.moved = TRUE]

\* Variant: a new conversation begins without its counters.
OpenThreadUncounted(o) ==
  LET t == ThreadOf(o) IN
  /\ MayOpen(o)
  /\ Viewer \in {ClientOfChat(o), ProviderOfChat(o)}
  /\ inbox' = [inbox EXCEPT !.order = Touched(t), !.old = @ \ {t}]
  /\ Moves

\* createOrGetConversation(), where the viewer takes part.
OpenThread(o) ==
  LET t == ThreadOf(o) IN
  /\ MayOpen(o)
  /\ Viewer \in {ClientOfChat(o), ProviderOfChat(o)}
  /\ inbox' = [order |-> Touched(t),
               unread |-> [s \in Threads \union {t} |-> IF s \in Threads THEN inbox.unread[s] ELSE 0],
               old |-> inbox.old \ {t},
               about |-> [s \in Threads \union {t} |-> IF s = t THEN RelatedTo(o) ELSE inbox.about[s]]]
  /\ Moves

SetUnread(t, n) ==
  /\ t \in Threads
  /\ inbox' = [inbox EXCEPT !.order = Touched(t), !.unread[t] = n, !.old = @ \ {t}]
  /\ Moves

\* sendMessage() of the other participant.
MessageComes(t) ==
  /\ t \in Threads /\ inbox.unread[t] < MaxUnread
  /\ SetUnread(t, inbox.unread[t] + 1)

\* sendMessage() or markRead() of the viewer.
ViewerReads(t) == SetUnread(t, 0)

\* Three days pass.
ThreeDaysPass ==
  /\ rail.at = "idle"
  /\ inbox' = [inbox EXCEPT !.old = Threads]
  /\ UNCHANGED rail

-----------------------------------------------------------------------------
(* getChatRail() *)

UnreadThreads == {t \in Threads : inbox.unread[t] > 0}

RailCounts ==
  /\ rail.at = "idle"
  /\ rail' = [at |-> "counted", total |-> Len(inbox.order),
              unread |-> Cardinality(UnreadThreads), moved |-> FALSE]
  /\ UNCHANGED inbox

RailAnswers == rail.at = "counted" /\ rail' = NoRail /\ UNCHANGED inbox

LoadedThreads == FirstOf(inbox.order, RailLoads)

\* resolvePriority()
Priority(t) ==
  IF inbox.unread[t] > 0 THEN AtMost(100, 70 + 10 * inbox.unread[t])
  ELSE IF t \in inbox.old THEN 30 ELSE 55

\* Variant: the queue keeps the order of the inbox.
RailItemsUnsorted == FirstOf(LoadedThreads, RailQueue)

\* By priority, of equals the one updated last.
RailItems ==
  LET key == [n \in DOMAIN LoadedThreads |-> <<-Priority(LoadedThreads[n]), n>>]
      sorted == InOrder(DOMAIN LoadedThreads, key) IN
  FirstOf([k \in DOMAIN sorted |-> LoadedThreads[sorted[k]]], RailQueue)

RailAction(t) ==
  IF inbox.unread[t] > 0 THEN "reply"
  ELSE IF t \in inbox.old THEN "follow_up" ELSE "review_context"

NeedsReply == rail.unread > 0

-----------------------------------------------------------------------------
InboxNext ==
  \/ \E o \in Openings : OpenThread(o)
  \/ \E t \in Threads : MessageComes(t) \/ ViewerReads(t)
  \/ ThreeDaysPass \/ RailCounts \/ RailAnswers

InboxSpec == InboxInit /\ [][InboxNext]_inboxVars

\* The type of the inbox and of the call.
InboxTypeOK ==
  /\ inbox.unread \in [Threads -> 0..MaxUnread]
  /\ DOMAIN inbox.about = Threads
  /\ inbox.old \subseteq Threads
  /\ rail \in [at: {"idle", "counted"}, total: Nat, unread: Nat, moved: BOOLEAN]

\* The rail agrees with the inbox.  However a conversation was opened, by the ids of a
\* request, an offer or a contract that may contradict each other, the viewer is one of
\* its two people and what it is about is its client's.  As long as nothing moves between
\* the queries, the panel asks for replies exactly if the queue starts with one or an
\* unread conversation lies beyond those loaded; no unread one is left out for one that is
\* read; and a follow-up is only proposed where nothing newer is left.
InboxAgrees ==
  LET items == MembersOf(RailItems)
      rest == MembersOf(LoadedThreads) \ items
      hidden == UnreadThreads \ MembersOf(LoadedThreads) IN
  /\ \A t \in Threads :
       /\ Viewer \in {t[2], t[3]}
       /\ inbox.about[t] \in DOMAIN ChatRequests => ChatRequests[inbox.about[t]].client = t[2]
       /\ inbox.about[t] \in DOMAIN ChatOffers => ChatOffers[inbox.about[t]].client = t[2]
  /\ (rail.at = "counted" /\ ~rail.moved) =>
       /\ NeedsReply <=> (hidden # {} \/ (RailItems # <<>> /\ RailAction(RailItems[1]) = "reply"))
       /\ Cardinality({t \in items : RailAction(t) = "reply"})
            = AtMost(RailQueue, rail.unread - Cardinality(hidden))
       /\ \A t \in rest, s \in items : inbox.unread[t] > 0 => inbox.unread[s] > 0
       /\ (\E s \in items : RailAction(s) = "follow_up") =>
            \A t \in rest : RailAction(t) = "follow_up"
  /\ (rail.at = "counted" /\ ~NeedsReply /\ UnreadThreads # {}) => rail.moved

-----------------------------------------------------------------------------
(* Why the rail agrees: each conversation has one place in the inbox, and what *)
(* was counted is so until something moves.                                  *)

OpenedRightly ==
  \A t \in Threads :
    /\ Viewer \in {t[2], t[3]}
    /\ inbox.about[t] \in DOMAIN ChatRequests => ChatRequests[inbox.about[t]].client = t[2]
    /\ inbox.about[t] \in DOMAIN ChatOffers => ChatOffers[inbox.about[t]].client = t[2]

OnePlaceEach ==
  /\ inbox = [order |-> inbox.order, unread |-> inbox.unread, old |-> inbox.old, about |-> inbox.about]
  /\ inbox.order \in Seq(Threads)
  /\ \A m, n \in DOMAIN inbox.order : inbox.order[m] = inbox.order[n] => m = n

CountedUntilMoved ==
  (rail.at = "counted" /\ ~rail.moved) => rail.unread = Cardinality(UnreadThreads)

InboxInv == InboxTypeOK /\ OpenedRightly /\ OnePlaceEach /\ CountedUntilMoved
=============================================================================
