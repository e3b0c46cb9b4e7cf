-------------------------- MODULE SearchAnalytics --------------------------
(***************************************************************************)
(* Counting searches (trackSearchEvent() of analytics.service.ts): once    *)
(* per visitor, query and time bucket, by a key in Redis that is set if    *)
(* absent and expires, and a counter per bucket and query in MongoDB.      *)
(* setIfAbsent() of redis.service.ts is one operation of a Redis server;   *)
(* over the map in memory it is a get and a set.                           *)
(***************************************************************************)
EXTENDS Naturals, FiniteSets

CONSTANTS
  Visitors,         \* actor hashes: a user, a session, or an address and agent
  Queries,          \* query hashes, each of one aggregate document
  SearchCalls,      \* handlers that may be in flight together
  BucketSize,       \* getBucketSeconds()
  SlackTime,        \* getDedupeTtlSeconds() beyond the bucket; calls are faster than that
  LastInstant,      \* bound: the instants
  MaxCount,         \* bound: the searches counted in a bucket
  NoVisitor

ASSUME SearchAssumption ==
  /\ IsFiniteSet(Visitors) /\ IsFiniteSet(SearchCalls)
  /\ BucketSize \in Nat \ {0} /\ SlackTime \in Nat /\ LastInstant \in Nat /\ MaxCount \in Nat
  /\ NoVisitor \notin Visitors /\ NoVisitor \notin Queries

VARIABLES
  instant,          \* Date.now()
  dedupe,           \* the keys in Redis: by bucket, visitor and query, when they expire, 0 for none
  aggregate,        \* the counter of a bucket and query, 0 before the document exists
  searchMode,       \* the Redis client: "redis" or "memory"
  aCall,            \* the handlers in flight
  tracked,          \* history: the searches whose handler has asked for its key
  exact             \* history: no operation failed and no get and set were overtaken

searchVars == <<instant, dedupe, aggregate, searchMode, aCall, tracked, exact>>

-----------------------------------------------------------------------------
Bucket(t) == t \div BucketSize

Buckets == 0..Bucket(LastInstant)

Searches == Buckets \X Visitors \X Queries

\* Variant: the key lives for less than the bucket.
ShortTtl == 1

DedupeTtl == BucketSize + SlackTime

Waiting == [at |-> "idle", since |-> 0, visitor |-> NoVisitor, query |-> NoVisitor]

Is(h, step) == aCall[h].at = step

\* The search of a handler; its bucket is that of the time it began.
SearchOf(h) == <<Bucket(aCall[h].since), aCall[h].visitor, aCall[h].query>>

\* The document that counts it.
DocumentOf(h) == <<Bucket(aCall[h].since), aCall[h].query>>

Present(k) == dedupe[k] # 0

Onward(h, step) == aCall' = [aCall EXCEPT ![h] = [@ EXCEPT !.at = step]]

Over(h) == aCall' = [aCall EXCEPT ![h] = Waiting]

SetKey(k) == dedupe' = [dedupe EXCEPT ![k] = instant + DedupeTtl]

SearchInit ==
  /\ instant = 0
  /\ dedupe = [k \in Searches |-> 0]
  /\ aggregate = [d \in Buckets \X Queries |-> 0]
  /\ searchMode \in {"redis", "memory"}
  /\ aCall = [h \in SearchCalls |-> Waiting]
  /\ tracked = {}
  /\ exact = TRUE

-----------------------------------------------------------------------------
SearchBegin(h, v, q) ==
  /\ Is(h, "idle")
  /\ aCall' = [aCall EXCEPT ![h] = [at |-> "dedupe", since |-> instant, visitor |-> v, query |-> q]]
  /\ UNCHANGED <<instant, dedupe, aggregate, searchMode, tracked, exact>>

\* SET NX EX.  An error counts as a new search.
DedupeServer(h) ==
  LET k == SearchOf(h) IN
  /\ Is(h, "dedupe") /\ searchMode = "redis"
  /\ tracked' = tracked \union {k}
  /\ \/ IF Present(k)
          THEN Over(h) /\ UNCHANGED <<dedupe, exact>>
          ELSE SetKey(k) /\ Onward(h, "count") /\ UNCHANGED exact
     \/ Onward(h, "count") /\ exact' = FALSE /\ UNCHANGED dedupe
  /\ UNCHANGED <<instant, aggregate, searchMode>>

\* Over the map, two gets may both find nothing before either sets the key.
DedupeGet(h) ==
  LET k == SearchOf(h) IN
  /\ Is(h, "dedupe") /\ searchMode = "memory"
  /\ tracked' = tracked \union {k}
  /\ IF Present(k)
       THEN Over(h) /\ UNCHANGED exact
       ELSE /\ Onward(h, "set")
            /\ exact' = (exact /\ \A g \in SearchCalls : Is(g, "set") => SearchOf(g) # k)
  /\ UNCHANGED <<instant, dedupe, aggregate, searchMode>>

DedupeSet(h) ==
  /\ Is(h, "set")
  /\ SetKey(SearchOf(h))
  /\ Onward(h, "count")
  /\ UNCHANGED <<instant, aggregate, searchMode, tracked, exact>>

Increment(h) ==
  /\ aggregate[DocumentOf(h)] < MaxCount
  /\ aggregate' = [aggregate EXCEPT ![DocumentOf(h)] = @ + 1]

\* The upsert; an error other than a duplicate key is logged and the search is lost.
Count(h) ==
  /\ Is(h, "count")
  /\ \/ Increment(h) /\ UNCHANGED exact
     \/ exact' = FALSE /\ UNCHANGED aggregate
  /\ Over(h)
  /\ UNCHANGED <<instant, dedupe, searchMode, tracked>>

\* Two upserts of a new document: the unique index refuses one, which then updates.
CountDuplicateKey(h) ==
  /\ Is(h, "count")
  /\ aggregate[DocumentOf(h)] > 0
  /\ Onward(h, "again")
  /\ UNCHANGED <<instant, dedupe, aggregate, searchMode, tracked, exact>>

\* Variant: the other upsert is taken to have counted this search.
CountAgainNot(h) ==
  /\ Is(h, "again")
  /\ Over(h)
  /\ UNCHANGED <<instant, dedupe, aggregate, searchMode, tracked, exact>>

CountAgain(h) ==
  /\ Is(h, "again")
  /\ Increment(h)
  /\ Over(h)
  /\ UNCHANGED <<instant, dedupe, searchMode, tracked, exact>>

\* A handler that stops after it has set its key loses its search.
SearchFail(h) ==
  /\ ~Is(h, "idle")
  /\ exact' = (exact /\ Is(h, "dedupe"))
  /\ Over(h)
  /\ UNCHANGED <<instant, dedupe, aggregate, searchMode, tracked>>

\* Keys expire.  Calls reach Redis before their key may have expired.
SearchTick ==
  /\ instant < LastInstant
  /\ \A h \in SearchCalls : Is(h, "dedupe") \/ Is(h, "set") => instant - aCall[h].since < SlackTime
  /\ instant' = instant + 1
  /\ dedupe' = [k \in Searches |-> IF dedupe[k] > instant + 1 THEN dedupe[k] ELSE 0]
  /\ UNCHANGED <<aggregate, searchMode, aCall, tracked, exact>>

SearchNext ==
  \/ \E h \in SearchCalls :
       \/ \E v \in Visitors, q \in Queries : SearchBegin(h, v, q)
       \/ DedupeServer(h) \/ DedupeGet(h) \/ DedupeSet(h)
       \/ Count(h) \/ CountDuplicateKey(h) \/ CountAgain(h) \/ SearchFail(h)
  \/ SearchTick

SearchSpec == SearchInit /\ [][SearchNext]_searchVars

-----------------------------------------------------------------------------
\* The type of the keys, the counters and the handlers in flight.
SearchTypeOK ==
  /\ instant \in 0..LastInstant
  /\ dedupe \in [Searches -> Nat]
  /\ aggregate \in [Buckets \X Queries -> Nat]
  /\ searchMode \in {"redis", "memory"}
  /\ aCall \in [SearchCalls -> [at: {"idle", "dedupe", "set", "count", "again"}, since: 0..LastInstant,
                  visitor: Visitors \union {NoVisitor}, query: Queries \union {NoVisitor}]]
  /\ tracked \subseteq Searches
  /\ exact \in BOOLEAN

\* The handlers that have yet to count a search of query q in bucket b.
Pending(b, q) ==
  {h \in SearchCalls : /\ Is(h, "set") \/ Is(h, "count") \/ Is(h, "again")
                       /\ DocumentOf(h) = <<b, q>>}

\* The visitors whose handlers have asked for the key of query q in bucket b.
TrackedBy(b, q) == {v \in Visitors : <<b, v, q>> \in tracked}

\* Unless an operation fails, or two searches meet between get and set in memory, each
\* visitor counts once per query and bucket: searches repeated at the end of a bucket
\* and duplicate upserts neither add to the counter nor get lost.
VisitorsCountOnce ==
  exact => \A b \in Buckets, q \in Queries :
    aggregate[<<b, q>>] + Cardinality(Pending(b, q))
      = Cardinality(TrackedBy(b, q))

-----------------------------------------------------------------------------
(* What makes it hold: the inductive invariant *)

\* A call asks for its key soon after it began.
SearchesUnderWay ==
  \A h \in SearchCalls : ~Is(h, "idle") =>
    /\ aCall[h].visitor \in Visitors /\ aCall[h].query \in Queries
    /\ aCall[h].since <= instant
    /\ Is(h, "dedupe") \/ Is(h, "set") => instant <= aCall[h].since + SlackTime
    /\ Is(h, "set") => searchMode = "memory" /\ SearchOf(h) \in tracked

\* From this time on no call of the bucket of k asks for its key.
NoLonger(k) == (k[1] + 1) * BucketSize + SlackTime

\* A key is there until then, from the time it is set: the search is not counted again.
KeysOutliveBuckets ==
  /\ \A k \in Searches : Present(k) => k \in tracked
  /\ exact => \A k \in tracked :
       \/ \E h \in SearchCalls : Is(h, "set") /\ SearchOf(h) = k
       \/ dedupe[k] >= NoLonger(k)
       \/ instant >= NoLonger(k)

SearchInv == SearchTypeOK /\ SearchesUnderWay /\ KeysOutliveBuckets /\ VisitorsCountOnce
=============================================================================
