------------------------------ MODULE Presence ------------------------------
(***************************************************************************)
(* Who is online.  There are two answers: a key in Redis that expires      *)
(* (presence.service.ts, shown on the pages of customers and requests) and *)
(* the lastSeenAt of the user in MongoDB (chats.service.ts).  Every        *)
(* authenticated call, every socket and every ping writes both, in         *)
(* parallel or one after the other; closing a socket deletes the key.      *)
(***************************************************************************)
EXTENDS Integers

CONSTANTS
  Members,          \* users
  PresenceCalls,    \* handlers that may be in flight together
  Ttl,              \* presenceTtlSeconds
  SeenWindow,       \* the two minutes of isUserOnline() in chats.service.ts
  Delay,            \* how long an operation may take
  LastMoment,       \* bound: the moments
  Nobody

ASSUME PresenceAssumption ==
  /\ Ttl \in Nat \ {0} /\ Delay \in Nat /\ LastMoment \in Nat
  /\ SeenWindow \in Nat /\ Ttl + 2 * Delay <= SeenWindow
  /\ Nobody \notin Members

VARIABLES
  moment,           \* Date.now()
  onlineUntil,      \* when the key of a user expires, 0 for no key
  lastSeen,         \* lastSeenAt
  pCall,            \* the handlers in flight, and the operations they wait for
  unseen            \* history: users of whom a write of lastSeenAt has failed

presenceVars == <<moment, onlineUntil, lastSeen, pCall, unseen>>

Never == -1

NoPresenceCall == [user |-> Nobody, ping |-> FALSE, marks |-> Never, seen |-> Never]

InFlight(h) == pCall[h].user # Nobody

\* markOnline and touchLastSeen of a handler that have been sent and not answered.
Marks(h) == pCall[h].marks # Never

Touches(h) == pCall[h].seen # Never

PresenceInit ==
  /\ moment = 0
  /\ onlineUntil = [u \in Members |-> 0]
  /\ lastSeen = [u \in Members |-> Never]
  /\ pCall = [h \in PresenceCalls |-> NoPresenceCall]
  /\ unseen = {}

-----------------------------------------------------------------------------
\* validate() of jwt.strategy.ts and handleConnection() of presence.gateway.ts send
\* both operations at once.
Active(h, u) ==
  /\ ~InFlight(h)
  /\ pCall' = [pCall EXCEPT ![h] = [user |-> u, ping |-> FALSE, marks |-> moment, seen |-> moment]]
  /\ UNCHANGED <<moment, onlineUntil, lastSeen, unseen>>

\* ping() marks first; the call has been through validate().
Ping(h, u) ==
  /\ ~InFlight(h)
  /\ pCall' = [pCall EXCEPT ![h] = [user |-> u, ping |-> TRUE, marks |-> moment, seen |-> Never]]
  /\ UNCHANGED <<moment, onlineUntil, lastSeen, unseen>>

\* Variant: the key is set without an expiry.
KeepKey(h) == onlineUntil' = [onlineUntil EXCEPT ![pCall[h].user] = LastMoment + Ttl]

SetsKey(h) == onlineUntil' = [onlineUntil EXCEPT ![pCall[h].user] = moment + Ttl]

\* A ping then goes on to touchLastSeen(), whose date is of that moment.  Errors of Redis
\* are logged and the handler goes on.
MarkOnline(h) ==
  /\ Marks(h)
  /\ SetsKey(h) \/ UNCHANGED onlineUntil
  /\ pCall' = [pCall EXCEPT ![h] =
                 IF pCall[h].ping \/ Touches(h)
                   THEN [@ EXCEPT !.marks = Never,
                                  !.seen = IF pCall[h].ping THEN moment ELSE pCall[h].seen]
                   ELSE NoPresenceCall]
  /\ UNCHANGED <<moment, lastSeen, unseen>>

\* findByIdAndUpdate() with the date taken when it was sent.  It may fail, which a
\* handler reports or swallows.
TouchLastSeen(h) ==
  /\ Touches(h)
  /\ \/ /\ lastSeen' = [lastSeen EXCEPT ![pCall[h].user] = pCall[h].seen]
        /\ unseen' = unseen \ {pCall[h].user}
     \/ unseen' = unseen \union {pCall[h].user} /\ UNCHANGED lastSeen
  /\ pCall' = [pCall EXCEPT ![h] =
                 IF Marks(h) THEN [@ EXCEPT !.seen = Never] ELSE NoPresenceCall]
  /\ UNCHANGED <<moment, onlineUntil>>

\* A handler may end anywhere, its process with it.
PresenceFail(h) ==
  /\ InFlight(h)
  /\ unseen' = unseen \union {pCall[h].user}
  /\ pCall' = [pCall EXCEPT ![h] = NoPresenceCall]
  /\ UNCHANGED <<moment, onlineUntil, lastSeen>>

\* handleDisconnect() deletes the key, whether or not the user has another socket open.
Disconnect(u) ==
  /\ onlineUntil' = [onlineUntil EXCEPT ![u] = 0]
  /\ UNCHANGED <<moment, lastSeen, pCall, unseen>>

PresenceTick ==
  /\ moment < LastMoment
  /\ \A h \in PresenceCalls : /\ Marks(h) => moment - pCall[h].marks < Delay
                              /\ Touches(h) => moment - pCall[h].seen < Delay
  /\ moment' = moment + 1
  /\ onlineUntil' = [u \in Members |-> IF onlineUntil[u] > moment + 1 THEN onlineUntil[u] ELSE 0]
  /\ UNCHANGED <<lastSeen, pCall, unseen>>

PresenceNext ==
  \/ \E h \in PresenceCalls :
       \/ \E u \in Members : Active(h, u) \/ Ping(h, u)
       \/ MarkOnline(h) \/ TouchLastSeen(h) \/ PresenceFail(h)
  \/ \E u \in Members : Disconnect(u)
  \/ PresenceTick

PresenceSpec == PresenceInit /\ [][PresenceNext]_presenceVars

-----------------------------------------------------------------------------
\* The type of the two answers and of the handlers in flight.
PresenceTypeOK ==
  /\ moment \in 0..LastMoment
  /\ onlineUntil \in [Members -> 0..(LastMoment + Ttl)]
  /\ lastSeen \in [Members -> Never..LastMoment]
  /\ pCall \in [PresenceCalls -> [user: Members \union {Nobody}, ping: BOOLEAN,
                                  marks: Never..LastMoment, seen: Never..LastMoment]]
  /\ unseen \subseteq Members

\* isOnline()
IsOnline(u) == onlineUntil[u] # 0

\* isUserOnline() of chats.service.ts
OnlineInChats(u) == lastSeen[u] # Never /\ moment - lastSeen[u] < SeenWindow

\* Whoever the pages show as online the chats show as online too, once the writes of
\* his calls have been answered: in whatever order overlapping calls write the key and
\* the date, even when a late write puts an earlier date over a later one.
OnlineEverywhere ==
  \A u \in Members \ unseen :
    IsOnline(u) /\ (\A h \in PresenceCalls : pCall[h].user # u) => OnlineInChats(u)

-----------------------------------------------------------------------------
(* The inductive invariant. *)

\* What a handler waits for was sent at most Delay ago, and for one user; a handler that
\* waits for both operations has sent them together.
SentInTime(h) ==
  /\ Marks(h) \/ Touches(h) => pCall[h].user \in Members
  /\ Marks(h) => pCall[h].marks \in (moment - Delay)..moment
  /\ Touches(h) => pCall[h].seen \in (moment - Delay)..moment
  /\ Marks(h) /\ Touches(h) => ~pCall[h].ping /\ pCall[h].marks = pCall[h].seen

SeenSince(u, t) == lastSeen[u] # Never /\ lastSeen[u] >= t

\* The date goes with the key: it is there by the time the key is set, less two delays,
\* or a write of it is on its way.
DateGoesWithKey(u) ==
  /\ IsOnline(u) =>
       \/ SeenSince(u, onlineUntil[u] - Ttl - 2 * Delay)
       \/ \E h \in PresenceCalls : pCall[h].user = u /\ Touches(h)
  /\ \A h \in PresenceCalls :
       pCall[h].user = u /\ Marks(h) /\ ~Touches(h) /\ ~pCall[h].ping
         => SeenSince(u, pCall[h].marks - Delay)

PresenceInv ==
  /\ PresenceTypeOK
  /\ \A h \in PresenceCalls : SentInTime(h)
  /\ \A u \in Members : IsOnline(u) => onlineUntil[u] \in (moment + 1)..(moment + Ttl)
  /\ \A u \in Members \ unseen : DateGoesWithKey(u)
=============================================================================
