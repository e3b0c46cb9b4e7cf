------------------------------ MODULE ChatPages ------------------------------
(***************************************************************************)
(* The inbox of a user in pages (listConversations() of chats.service.ts): *)
(* threads by updatedAt and _id, latest first, and a cursor that names the *)
(* last one shown.  Threads are written while he turns the pages, at times *)
(* of one millisecond that two of them may share.                          *)
(* Ids are numbers, in the order of their ObjectIds.                       *)
(***************************************************************************)
EXTENDS Integers, FiniteSets

CONSTANTS
  MaxThreads,       \* the threads are 1..MaxThreads
  PageLimit,        \* the limit of a page, after it is clamped to 1..100
  MaxStamp          \* bound: the milliseconds that pass

ASSUME PagesAssumption ==
  MaxThreads \in Nat /\ PageLimit \in 1..100 /\ MaxStamp \in Nat \ {0}

VARIABLES
  updatedAt,        \* of each thread, 0 before it exists
  clock,            \* Date.now()
  cursor,           \* what the next page starts after, <<>> for the first
  shown,            \* how often each thread was shown since the first page
  touched,          \* history: threads made or written since the first page
  ended             \* the last page had no cursor

pageVars == <<updatedAt, clock, cursor, shown, touched, ended>>

Inbox == 1..MaxThreads

Key(t) == <<updatedAt[t], t>>

Before(k, l) == k[1] < l[1] \/ (k[1] = l[1] /\ k[2] < l[2])

\* Variant: only the time is compared.
BeforeByTime(t) ==
  updatedAt[t] > 0 /\ (cursor = <<>> \/ updatedAt[t] < cursor[1])

\* buildCursorQuery() of field updatedAt
AfterCursor(t) ==
  updatedAt[t] > 0 /\ (cursor = <<>> \/ Before(Key(t), cursor))

\* find(query).sort({ updatedAt: -1, _id: -1 }).limit(limit)
Page ==
  {t \in Inbox : /\ AfterCursor(t)
                 /\ Cardinality({s \in Inbox : AfterCursor(s) /\ Before(Key(t), Key(s))})
                      < PageLimit}

\* One more document than the limit was found.
HasMore == Cardinality({t \in Inbox : AfterCursor(t)}) > PageLimit

LastOf(page) == CHOOSE t \in page : \A s \in page \ {t} : Before(Key(t), Key(s))

PagesInit ==
  /\ updatedAt \in [Inbox -> 0..1]
  /\ clock = 1
  /\ cursor = <<>>
  /\ shown = [t \in Inbox |-> 0]
  /\ touched = {}
  /\ ended = FALSE

\* A thread is opened, or any update of it (a message, markRead()).
Touch(t) ==
  /\ updatedAt' = [updatedAt EXCEPT ![t] = clock]
  /\ touched' = touched \union {t}
  /\ UNCHANGED <<clock, cursor, shown, ended>>

Pass ==
  /\ clock < MaxStamp
  /\ clock' = clock + 1
  /\ UNCHANGED <<updatedAt, cursor, shown, touched, ended>>

NextPage ==
  /\ ~ended
  /\ shown' = [t \in Inbox |-> IF t \in Page THEN shown[t] + 1 ELSE shown[t]]
  /\ ended' = ~HasMore
  /\ cursor' = IF HasMore THEN Key(LastOf(Page)) ELSE cursor
  /\ UNCHANGED <<updatedAt, clock, touched>>

\* The first page again: what was written until now no longer counts.
FirstPage ==
  /\ cursor' = <<>>
  /\ shown' = [t \in Inbox |-> 0]
  /\ touched' = {}
  /\ ended' = FALSE
  /\ UNCHANGED <<updatedAt, clock>>

PagesNext == (\E t \in Inbox : Touch(t)) \/ Pass \/ NextPage \/ FirstPage

PagesSpec == PagesInit /\ [][PagesNext]_pageVars

-----------------------------------------------------------------------------
\* The type of the inbox and of a walk through it.
PagesTypeOK ==
  /\ updatedAt \in [Inbox -> 0..MaxStamp]
  /\ clock \in 1..MaxStamp
  /\ cursor \in ((1..MaxStamp) \X Inbox) \union {<<>>}
  /\ shown \in [Inbox -> Nat]
  /\ touched \subseteq Inbox
  /\ ended \in BOOLEAN

\* Whoever turns the pages to the end sees every conversation that was not written
\* meanwhile, and each of those once (listConversations() neither skips nor repeats
\* at the border of a page, threads of the same millisecond included).
PagesCoverInbox ==
  \A t \in Inbox \ touched :
    /\ shown[t] <= 1
    /\ ended /\ updatedAt[t] > 0 => shown[t] = 1

-----------------------------------------------------------------------------
(* What makes it hold: the inductive invariant *)

\* A conversation that was shown is behind the cursor unless it was written since: the
\* pages to come hold it only then.
ShownIsBehind ==
  \A t \in Inbox \ touched : shown[t] > 0 /\ ~ended => ~AfterCursor(t)

\* One that was not shown is still ahead.
TheRestIsAhead ==
  \A t \in Inbox \ touched :
    /\ shown[t] <= 1
    /\ shown[t] = 0 /\ updatedAt[t] > 0 => ~ended /\ AfterCursor(t)

WalkTypeOK ==
  /\ updatedAt \in [Inbox -> Nat]
  /\ clock \in Nat \ {0}
  /\ cursor \in (Nat \X Inbox) \union {<<>>}
  /\ shown \in [Inbox -> Nat]
  /\ touched \subseteq Inbox
  /\ ended \in BOOLEAN

PagesInv == WalkTypeOK /\ ShownIsBehind /\ TheRestIsAhead
=============================================================================
