----------------------------- MODULE ReviewRail -----------------------------
(***************************************************************************)
(* Reviews of the platform (createPlatformReview() and getOverviewByTarget() *)
(* of reviews.service.ts): anybody may write one, readers page through     *)
(* those of a range of days by offset, and the workspace's rail            *)
(* (workspace-reviews.service.ts) sums up the range from its first page.   *)
(* The range slides with the time of each call, and new reviews push the   *)
(* older ones down.                                                        *)
(***************************************************************************)
EXTENDS Listing

CONSTANTS
  OpinionStars,       \* the ratings given, out of 1..5
  RangeDays,        \* the range asked for
  PageSize,         \* the reader's limit, and the rail's
  LastReviewDay,    \* bound: days
  MaxReviews        \* bound: reviews

ASSUME ReviewRailAssumption ==
  /\ OpinionStars \subseteq 1..5 /\ RangeDays \in Nat /\ PageSize \in Nat \ {0}
  /\ LastReviewDay \in Nat /\ MaxReviews \in Nat

VARIABLES
  opinions,         \* the platform's reviews, oldest first: stars and day
  reviewDay,        \* today
  reader            \* a person paging through them: the order, the next offset, what he
                    \* has seen, and what there was when he began

opinionVars == <<opinions, reviewDay, reader>>

NoReader == [sort |-> "none", offset |-> 0, seen |-> {}, began |-> 0, done |-> FALSE]

OpinionsInit == opinions = <<>> /\ reviewDay = 0 /\ reader = NoReader

-----------------------------------------------------------------------------
(* getOverviewByTarget() *)

\* resolveRangeStart()
InRange(n) == opinions[n].day >= reviewDay - RangeDays

Reviews == {n \in DOMAIN opinions : InRange(n)}

\* Newest first, or best first and of equals the newest.
SortedReviews(sort) ==
  InOrder(Reviews, [n \in Reviews |->
    IF sort = "rating_desc" THEN <<-opinions[n].stars, -n>> ELSE <<-n>>])

ReviewPage(sort, offset) ==
  LET list == SortedReviews(sort) IN
  {list[k] : k \in (offset + 1)..AtMost(offset + PageSize, Len(list))}

Distribution(star) == Cardinality({n \in Reviews : opinions[n].stars = star})

\* The average in tenths, and zero without a review.
AverageStars ==
  LET total == Cardinality(Reviews)
      sum == Distribution(1) + 2 * Distribution(2) + 3 * Distribution(3)
               + 4 * Distribution(4) + 5 * Distribution(5) IN
  IF total = 0 THEN 0 ELSE (20 * sum + total) \div (2 * total)

-----------------------------------------------------------------------------
PlatformReview(stars) ==
  /\ Len(opinions) < MaxReviews
  /\ opinions' = Append(opinions, [stars |-> stars, day |-> reviewDay])
  /\ UNCHANGED <<reviewDay, reader>>

ReviewDayPasses ==
  /\ reviewDay < LastReviewDay
  /\ reviewDay' = reviewDay + 1
  /\ UNCHANGED <<opinions, reader>>

\* A reader asks for the next page, from the first on, until one is not full.
ReadPage(sort) ==
  /\ ~reader.done
  /\ reader.sort \in {"none", sort}
  /\ LET page == ReviewPage(sort, reader.offset) IN
     reader' = [sort |-> sort, offset |-> reader.offset + PageSize, seen |-> reader.seen \union page,
                began |-> IF reader.sort = "none" THEN Len(opinions) ELSE reader.began,
                done |-> Cardinality(page) < PageSize]
  /\ UNCHANGED <<opinions, reviewDay>>

OpinionsNext ==
  \/ \E stars \in OpinionStars : PlatformReview(stars)
  \/ ReviewDayPasses
  \/ \E sort \in {"created_desc", "rating_desc"} : ReadPage(sort)

OpinionsSpec == OpinionsInit /\ [][OpinionsNext]_opinionVars

-----------------------------------------------------------------------------
(* getReviewsRail() *)

Critical == Distribution(1) + Distribution(2)

Positive == Distribution(4) + Distribution(5)

ReviewPriority(n) ==
  IF opinions[n].stars <= 2 THEN "high" ELSE IF opinions[n].stars = 3 THEN "medium" ELSE "low"

NeedsAttention(sort) == {n \in ReviewPage(sort, 0) : ReviewPriority(n) # "low"}

-----------------------------------------------------------------------------
\* The type of the reviews and of the reader.
OpinionsTypeOK ==
  /\ opinions \in Seq([stars: OpinionStars, day: 0..LastReviewDay])
  /\ reader.seen \subseteq DOMAIN opinions /\ reader.began \in 0..Len(opinions)

\* Who pages through the reviews newest first until the end has seen every one that was
\* there when he began and is still in the range, however many came and left meanwhile;
\* best first he has if none was written and none left the range since.  The summary is
\* of the whole range: the stars add up and lie around the average.  The rail's panel is
\* of one page: where that holds the whole range it reports critical feedback exactly if
\* something needs attention or nothing does, and beyond that it never reports more.
ReviewsAgree ==
  /\ (reader.done /\ reader.sort = "created_desc") =>
       \A n \in Reviews : n <= reader.began => n \in reader.seen
  /\ (reader.done /\ Len(opinions) = reader.began /\ Reviews = DOMAIN opinions) =>
       Reviews \subseteq reader.seen
  /\ Critical + Distribution(3) + Positive = Cardinality(Reviews)
  /\ Critical = Cardinality(Reviews) => AverageStars <= 20
  /\ Positive = Cardinality(Reviews) /\ Reviews # {} => AverageStars >= 40
  /\ \A sort \in {"created_desc", "rating_desc"} :
       /\ Cardinality(NeedsAttention(sort)) <= Critical + Distribution(3)
       /\ Cardinality(Reviews) <= PageSize =>
            Cardinality(NeedsAttention(sort)) = Critical + Distribution(3)
       /\ (sort = "rating_desc" /\ NeedsAttention(sort) # {}) => Positive < PageSize
-----------------------------------------------------------------------------
(* Why a reader sees what he does: newest first a review is where its number *)
(* says, and a new one moves it and every one he has not seen one place down. *)

\* Reviews are written as the days pass.
DaysInOrder ==
  \A m, n \in DOMAIN opinions :
    m <= n => opinions[m].day <= opinions[n].day /\ opinions[n].day <= reviewDay

ReaderTypeOK ==
  /\ reviewDay \in 0..LastReviewDay
  /\ reader \in [sort: {"none", "created_desc", "rating_desc"}, offset: Nat,
                 seen: SUBSET DOMAIN opinions, began: 0..Len(opinions), done: BOOLEAN]
  /\ reader.sort = "none" => reader.offset = 0 /\ ~reader.done

\* What was there when he began has been seen or is still to come.
SeenOrToCome ==
  reader.sort = "created_desc" =>
    \A n \in Reviews : n <= reader.began =>
      n \in reader.seen \/ (~reader.done /\ n + reader.offset <= Len(opinions))

\* Best first that holds of the list as long as it stays as it was.
SeenUpToOffset ==
  (reader.sort = "rating_desc" /\ Len(opinions) = reader.began /\ Reviews = DOMAIN opinions) =>
    LET list == SortedReviews("rating_desc") IN
    /\ \A k \in DOMAIN list : k <= reader.offset => list[k] \in reader.seen
    /\ reader.done => Len(list) <= reader.offset

OpinionsInv ==
  /\ OpinionsTypeOK
  /\ ReaderTypeOK
  /\ DaysInOrder
  /\ SeenOrToCome
  /\ SeenUpToOffset
=============================================================================
