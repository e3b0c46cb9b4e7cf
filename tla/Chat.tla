-------------------------------- MODULE Chat --------------------------------
(***************************************************************************)
(* The conversation of a client and a provider about one request           *)
(* (chats.service.ts): opened once, messages with a delivery status, and   *)
(* the thread that carries the last message and a counter of unread        *)
(* messages per participant.  A handler reads the thread, writes messages  *)
(* and then sets the counters it has computed from its copy.               *)
(***************************************************************************)
EXTENDS Naturals, Sequences, FiniteSets

CONSTANTS
  Customer, Tradesman,   \* the two participants
  Links,            \* what a thread may be related to: the request, an offer, an order
  ChatCalls,        \* handlers that may be in flight together
  MaxMessages,      \* bound: messages sent
  NoLink

Participants == {Customer, Tradesman}

ASSUME ChatAssumption ==
  /\ Customer # Tradesman
  /\ IsFiniteSet(ChatCalls)
  /\ NoLink \notin Links
  /\ NoLink \notin Participants
  /\ MaxMessages \in Nat

VARIABLES
  thread,           \* the document in chat_threads, link NoLink before it exists
  message,          \* the messages in the order of createdAt: sender, deliveryStatus
  cCall,            \* the handlers in flight
  tidy,             \* history: no call has overlapped another or failed between two writes
  settled           \* history: the messages there were when a tidy participant last wrote or read

chatVars == <<thread, message, cCall, tidy, settled>>

-----------------------------------------------------------------------------
Other(u) == IF u = Customer THEN Tradesman ELSE Customer

Zero == [u \in Participants |-> 0]

Silent == [at |-> "idle", user |-> NoLink, unread |-> Zero, number |-> 0, link |-> NoLink]

Opened == thread.link # NoLink

Stands(c, step) == cCall[c].at = step

\* A call begins: getConversationById() has read the thread.
Takes(c, r) ==
  /\ Stands(c, "idle")
  /\ cCall' = [cCall EXCEPT ![c] = r]
  /\ tidy' = (tidy /\ \A d \in ChatCalls : Stands(d, "idle"))

Passes(c, step) == cCall' = [cCall EXCEPT ![c] = [@ EXCEPT !.at = step]]

Returns(c) == cCall' = [cCall EXCEPT ![c] = Silent]

Marked(u, from, to) ==
  [n \in 1..Len(message) |->
     IF message[n].sender # u /\ message[n].status \in from
     THEN [message[n] EXCEPT !.status = to] ELSE message[n]]

ChatInit ==
  /\ thread = [link |-> NoLink, unread |-> Zero, last |-> 0]
  /\ message = <<>>
  /\ cCall = [c \in ChatCalls |-> Silent]
  /\ tidy = TRUE
  /\ settled = Zero

-----------------------------------------------------------------------------
(* createOrGetConversation() *)

OpenRead(c, link) ==
  /\ Takes(c, [Silent EXCEPT !.at = IF Opened THEN "relink" ELSE "create", !.link = link])
  /\ UNCHANGED <<thread, message, settled>>

\* Variant: the counters of an existing thread are set anew as well.
OpenRelinkReset(c) ==
  /\ Stands(c, "relink")
  /\ thread' = [thread EXCEPT !.link = cCall[c].link, !.unread = Zero]
  /\ Returns(c)
  /\ UNCHANGED <<message, tidy, settled>>

OpenRelink(c) ==
  /\ Stands(c, "relink")
  /\ thread' = [thread EXCEPT !.link = cCall[c].link]
  /\ Returns(c)
  /\ UNCHANGED <<message, tidy, settled>>

\* The unique index on request, client and provider refuses a second thread.
OpenCreate(c) ==
  /\ Stands(c, "create")
  /\ thread' = IF Opened THEN thread ELSE [thread EXCEPT !.link = cCall[c].link]
  /\ Returns(c)
  /\ UNCHANGED <<message, tidy, settled>>

-----------------------------------------------------------------------------
(* sendMessage() *)

SendRead(c, u) ==
  /\ Opened
  /\ Takes(c, [Silent EXCEPT !.at = "insert", !.user = u, !.unread = thread.unread])
  /\ UNCHANGED <<thread, message, settled>>

SendInsert(c) ==
  LET u == cCall[c].user IN
  /\ Stands(c, "insert")
  /\ Len(message) < MaxMessages
  /\ message' = Append(message, [sender |-> u, status |-> "sent"])
  /\ cCall' = [cCall EXCEPT ![c] = [@ EXCEPT !.at = "count", !.number = Len(message) + 1]]
  /\ UNCHANGED <<thread, tidy, settled>>

\* Sending counts as having seen what the sender's copy of the thread counted.
SendCount(c) ==
  LET u == cCall[c].user IN
  /\ Stands(c, "count")
  /\ thread' = [thread EXCEPT
        !.last = cCall[c].number,
        !.unread = [cCall[c].unread EXCEPT ![u] = 0, ![Other(u)] = cCall[c].unread[Other(u)] + 1]]
  /\ settled' = IF tidy THEN [settled EXCEPT ![u] = Len(message)] ELSE settled
  /\ Returns(c)
  /\ UNCHANGED <<message, tidy>>

-----------------------------------------------------------------------------
(* markRead() and listMessages() *)

ReadThread(c, u) ==
  /\ Opened
  /\ Takes(c, [Silent EXCEPT !.at = "mark", !.user = u, !.unread = thread.unread])
  /\ UNCHANGED <<thread, message, settled>>

ReadMark(c) ==
  /\ Stands(c, "mark")
  /\ message' = Marked(cCall[c].user, {"sent", "delivered"}, "read")
  /\ Passes(c, "clear")
  /\ UNCHANGED <<thread, tidy, settled>>

\* Variant: each reading takes one off the counter.
ReadClearOne(c) ==
  LET u == cCall[c].user IN
  /\ Stands(c, "clear")
  /\ thread' = [thread EXCEPT !.unread = [cCall[c].unread EXCEPT ![u] = @ - 1]]
  /\ Returns(c)
  /\ UNCHANGED <<message, tidy, settled>>

ReadClear(c) ==
  LET u == cCall[c].user IN
  /\ Stands(c, "clear")
  /\ thread' = [thread EXCEPT !.unread = [cCall[c].unread EXCEPT ![u] = 0]]
  /\ settled' = IF tidy THEN [settled EXCEPT ![u] = Len(message)] ELSE settled
  /\ Returns(c)
  /\ UNCHANGED <<message, tidy>>

\* One updateMany; the page itself is in ChatPages.
ListMessages(u) ==
  /\ Opened
  /\ message' = Marked(u, {"sent", "delivered"}, "delivered")
  /\ UNCHANGED <<thread, cCall, tidy, settled>>

\* A rejected database call or a stopped process: what is written stays.
ChatFail(c) ==
  /\ ~Stands(c, "idle")
  /\ tidy' = (tidy /\ ~(Stands(c, "count") \/ Stands(c, "clear")))
  /\ Returns(c)
  /\ UNCHANGED <<thread, message, settled>>

-----------------------------------------------------------------------------
OpenConversation(c) ==
  (\E link \in Links : OpenRead(c, link)) \/ OpenRelink(c) \/ OpenCreate(c)

SendMessage(c) ==
  (\E u \in Participants : SendRead(c, u)) \/ SendInsert(c) \/ SendCount(c)

MarkRead(c) ==
  (\E u \in Participants : ReadThread(c, u)) \/ ReadMark(c) \/ ReadClear(c)

ChatNext ==
  \/ \E c \in ChatCalls : OpenConversation(c) \/ SendMessage(c) \/ MarkRead(c) \/ ChatFail(c)
  \/ \E u \in Participants : ListMessages(u)

ChatSpec == ChatInit /\ [][ChatNext]_chatVars

-----------------------------------------------------------------------------
(* Properties *)

Counters == [Participants -> Nat]

\* The type of the thread, its messages and the handlers in flight.
ChatTypeOK ==
  /\ thread \in [link: Links \union {NoLink}, unread: Counters, last: Nat]
  /\ message \in Seq([sender: Participants, status: {"sent", "delivered", "read"}])
  /\ cCall \in [ChatCalls -> [at: {"idle", "create", "relink", "insert", "count", "mark", "clear"},
                  user: Participants \union {NoLink}, unread: Counters, number: Nat,
                  link: Links \union {NoLink}]]
  /\ tidy \in BOOLEAN
  /\ settled \in Counters

\* The messages that u has been sent.
SentTo(u) == {n \in 1..Len(message) : message[n].sender # u}

\* Those since u, in tidy times, last wrote or read.
Unseen(u) == {n \in SentTo(u) : n > settled[u]}

\* As long as no call overlaps another or fails half way, the thread agrees with the
\* messages between calls: the counter of u has those sent to u since u last wrote or
\* read, and the last message is the latest (sendMessage() and markRead() change both).
\* Calls that do overlap may lose unread messages from a counter but never invent one.
ThreadAgreesWithMessages ==
  /\ tidy /\ (\A c \in ChatCalls : Stands(c, "idle")) =>
       /\ thread.last = Len(message)
       /\ \A u \in Participants :
            thread.unread[u] = Cardinality(Unseen(u))
  /\ \A u \in Participants : thread.unread[u] <= Cardinality(SentTo(u))

-----------------------------------------------------------------------------
(* What makes it hold: the inductive invariant *)

\* Between the read of the thread and the write of its counters.
HoldsCounters(c) == cCall[c].at \in {"insert", "count", "mark", "clear"}

\* What a call is about, from its first step to its last.
CallsKnowTheirs ==
  \A c \in ChatCalls :
    /\ HoldsCounters(c) => cCall[c].user \in Participants
    /\ cCall[c].at \in {"create", "relink"} => cCall[c].link \in Links

\* No counter, of the thread or of a copy of it, has more messages than there are.
NoMessageIsInvented ==
  \A u \in Participants :
    /\ thread.unread[u] <= Cardinality(SentTo(u))
    /\ \A c \in ChatCalls : HoldsCounters(c) =>
         cCall[c].unread[u] + (IF Stands(c, "count") /\ cCall[c].user # u THEN 1 ELSE 0)
           <= Cardinality(SentTo(u))

\* In tidy times there is one call at most, which holds the thread's own counters, and
\* only the message that it has just sent may be missing from them.
TidyCountsAll ==
  tidy =>
    /\ \A c, d \in ChatCalls : ~Stands(c, "idle") /\ ~Stands(d, "idle") => c = d
    /\ \A u \in Participants : settled[u] <= Len(message)
    /\ \A c \in ChatCalls : HoldsCounters(c) => cCall[c].unread = thread.unread
    /\ (\A c \in ChatCalls : ~Stands(c, "count")) =>
         /\ thread.last = Len(message)
         /\ \A u \in Participants : thread.unread[u] = Cardinality(Unseen(u))
    /\ \A c \in ChatCalls : Stands(c, "count") =>
         /\ cCall[c].number = Len(message)
         /\ \A u \in Participants : cCall[c].user # u =>
              thread.unread[u] + 1 = Cardinality(Unseen(u))

ChatInv == ChatTypeOK /\ CallsKnowTheirs /\ NoMessageIsInvented /\ TidyCountsAll
=============================================================================
