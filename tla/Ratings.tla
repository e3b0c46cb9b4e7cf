------------------------------ MODULE Ratings ------------------------------
(***************************************************************************)
(* Reviews of the two sides of completed bookings (reviews.service.ts) and *)
(* the profiles they are added up in: applyRating() of                     *)
(* providers.service.ts and client-profiles.service.ts.  A save writes the *)
(* fields its handler has changed, from the copy it has read.  Averages    *)
(* are in hundredths of a point.                                           *)
(***************************************************************************)
EXTENDS Integers, FiniteSets

CONSTANTS
  ReviewedBookings, \* bookings of one client with one provider
  Targets,          \* whom a review is about: "provider", "client"
  Stars,            \* the ratings the callers give, out of 1..5
  ReviewCalls,      \* handlers that may be in flight together
  NoBookingGiven

ASSUME RatingsAssumption ==
  /\ IsFiniteSet(ReviewedBookings) /\ IsFiniteSet(ReviewCalls)
  /\ Targets \subseteq {"provider", "client"}
  /\ Stars \subseteq 1..5
  /\ NoBookingGiven \notin ReviewedBookings

VARIABLES
  completed,        \* the bookings whose status is "completed"
  review,           \* the reviews collection: the stars given, 0 for no review
  score,            \* ratingCount and ratingAvg of the two profiles
  rCall,            \* the handlers in flight
  calm              \* history: no call has overlapped another one or failed half way

ratingVars == <<completed, review, score, rCall, calm>>

-----------------------------------------------------------------------------
Resting == [at |-> "idle", booking |-> NoBookingGiven, target |-> "none", stars |-> 0,
            count |-> 0, avg |-> 0]

Awaits(h, step) == rCall[h].at = step

Enters(h, c) ==
  /\ Awaits(h, "idle")
  /\ rCall' = [rCall EXCEPT ![h] = c]
  /\ calm' = (calm /\ \A g \in ReviewCalls : Awaits(g, "idle"))

Goes(h, step) == rCall' = [rCall EXCEPT ![h] = [@ EXCEPT !.at = step]]

Leaves(h) == rCall' = [rCall EXCEPT ![h] = Resting]

\* Math.round() of a quotient of naturals.
Rounded(n, d) == (2 * n + d) \div (2 * d)

RatingsInit ==
  /\ completed = {}
  /\ review = [r \in ReviewedBookings \X Targets |-> 0]
  /\ score = [t \in Targets |-> [count |-> 0, avg |-> 0]]
  /\ rCall = [h \in ReviewCalls |-> Resting]
  /\ calm = TRUE

\* The booking reaches its end (BookingsService.complete).
CompleteBooking(b) ==
  /\ completed' = completed \union {b}
  /\ UNCHANGED <<review, score, rCall, calm>>

-----------------------------------------------------------------------------
(* createForClient() reviews the provider, createForProvider() the client. *)

ReviewRead(h, b, t, stars) ==
  /\ b \in completed
  /\ review[<<b, t>>] = 0
  /\ Enters(h, [Resting EXCEPT !.at = "insert", !.booking = b, !.target = t, !.stars = stars])
  /\ UNCHANGED <<completed, review, score>>

\* The unique index on booking and target refuses a second review.
ReviewInsert(h) ==
  LET c == rCall[h] IN
  /\ Awaits(h, "insert")
  /\ IF review[<<c.booking, c.target>>] # 0
       THEN Leaves(h) /\ UNCHANGED review
       ELSE /\ review' = [review EXCEPT ![<<c.booking, c.target>>] = c.stars]
            /\ Goes(h, "load")
  /\ UNCHANGED <<completed, score, calm>>

\* applyRating(): the profile is read, or made with a count of zero.
RatingLoad(h) ==
  LET t == rCall[h].target IN
  /\ Awaits(h, "load")
  /\ rCall' = [rCall EXCEPT ![h] = [@ EXCEPT !.at = "save", !.count = score[t].count,
                                             !.avg = score[t].avg]]
  /\ UNCHANGED <<completed, review, score, calm>>

\* Variant: the old average is weighed with the new count.
RatingSaveNewCount(h) ==
  LET c == rCall[h] n == c.count + 1 IN
  /\ Awaits(h, "save")
  /\ score' = [score EXCEPT ![c.target] =
                 [count |-> n, avg |-> Rounded(c.avg * n + 100 * c.stars, n)]]
  /\ Leaves(h)
  /\ UNCHANGED <<completed, review, calm>>

RatingSave(h) ==
  LET c == rCall[h] n == c.count + 1 IN
  /\ Awaits(h, "save")
  /\ score' = [score EXCEPT ![c.target] =
                 [count |-> n, avg |-> Rounded(c.avg * c.count + 100 * c.stars, n)]]
  /\ Leaves(h)
  /\ UNCHANGED <<completed, review, calm>>

\* A rejected database call or a stopped process: what is written stays.
ReviewFail(h) ==
  /\ ~Awaits(h, "idle")
  /\ calm' = (calm /\ ~(Awaits(h, "load") \/ Awaits(h, "save")))
  /\ Leaves(h)
  /\ UNCHANGED <<completed, review, score>>

-----------------------------------------------------------------------------
CreateReview(h) ==
  \/ \E b \in ReviewedBookings, t \in Targets, stars \in Stars : ReviewRead(h, b, t, stars)
  \/ ReviewInsert(h) \/ RatingLoad(h) \/ RatingSave(h)

RatingsNext ==
  \/ \E h \in ReviewCalls : CreateReview(h) \/ ReviewFail(h)
  \/ \E b \in ReviewedBookings : CompleteBooking(b)

RatingsSpec == RatingsInit /\ [][RatingsNext]_ratingVars

-----------------------------------------------------------------------------
(* Properties *)

RatingSteps == {"idle", "insert", "load", "save"}

\* The type of the profiles, the reviews and the handlers in flight.
RatingsTypeOK ==
  /\ completed \subseteq ReviewedBookings
  /\ review \in [ReviewedBookings \X Targets -> 0..5]
  /\ score \in [Targets -> [count: Nat, avg: Nat]]
  /\ rCall \in [ReviewCalls -> [at: RatingSteps, booking: ReviewedBookings \union {NoBookingGiven},
                  target: Targets \union {"none"}, stars: 0..5, count: Nat, avg: Nat]]
  /\ calm \in BOOLEAN

Reviewed(t) == {b \in ReviewedBookings : review[<<b, t>>] # 0}

\* The bookings for which t was given at least n stars.
Giving(n, t) == {b \in ReviewedBookings : review[<<b, t>>] >= n}

\* The sum of the stars given to t.
StarsGiven(t) ==
  Cardinality(Giving(1, t)) + Cardinality(Giving(2, t)) + Cardinality(Giving(3, t))
    + Cardinality(Giving(4, t)) + Cardinality(Giving(5, t))

\* When no call overlaps another or fails half way, a profile counts each review
\* once, and the rounding of every step adds up to no more than (n + 1)/4
\* hundredths of the true average of n reviews.  Overlapping and failing calls lose
\* ratings and never add any, and what they leave is still an average of ratings,
\* though each call rounds and rewrites it (applyRating()).
ScoreAgreesWithReviews ==
  \A t \in Targets :
    LET n == Cardinality(Reviewed(t))
        drift == n * score[t].avg - 100 * StarsGiven(t)
    IN /\ calm /\ (\A h \in ReviewCalls : Awaits(h, "idle")) =>
            /\ score[t].count = n
            /\ 4 * drift <= n * (n + 1) /\ 4 * drift >= -(n * (n + 1))
       /\ score[t].count <= n
       /\ score[t].count > 0 => score[t].avg \in 100..500

-----------------------------------------------------------------------------
(* What makes them hold: the inductive invariant *)

\* The calls that have written a review of t and not yet its stars to the profile.
Owing(t) ==
  {h \in ReviewCalls : (Awaits(h, "load") \/ Awaits(h, "save")) /\ rCall[h].target = t}

Loading(t) == {h \in Owing(t) : Awaits(h, "load")}

\* An average of ratings, if there is one.
AnAverage(p) == p.count > 0 => p.avg \in 100..500

\* What n roundings may add up to, in quarters of a hundredth.
Close(n, avg, sum) ==
  /\ 4 * (n * avg - 100 * sum) <= n * (n + 1)
  /\ 4 * (n * avg - 100 * sum) >= -(n * (n + 1))

\* What a call is about, from its first step to its last.
CallsHoldReviews ==
  \A h \in ReviewCalls : ~Awaits(h, "idle") =>
    rCall[h].booking \in ReviewedBookings /\ rCall[h].target \in Targets /\ rCall[h].stars \in 1..5

\* There is a review for each one counted and each one about to be.
NoReviewIsInvented ==
  \A t \in Targets :
    LET room == Cardinality(Reviewed(t)) - Cardinality(Loading(t)) IN
    /\ score[t].count <= room /\ AnAverage(score[t])
    /\ \A h \in Owing(t) : Awaits(h, "save") => rCall[h].count < room /\ AnAverage(rCall[h])

\* In calm there is one call at most, and only its own stars may be missing.
CalmCountsAll ==
  calm =>
    /\ \A g, h \in ReviewCalls : ~Awaits(g, "idle") /\ ~Awaits(h, "idle") => g = h
    /\ \A t \in Targets :
         /\ Owing(t) = {} => /\ score[t].count = Cardinality(Reviewed(t))
                            /\ Close(score[t].count, score[t].avg, StarsGiven(t))
         /\ \A h \in Owing(t) :
              /\ score[t].count + 1 = Cardinality(Reviewed(t))
              /\ Close(score[t].count, score[t].avg, StarsGiven(t) - rCall[h].stars)
              /\ Awaits(h, "save") => rCall[h].count = score[t].count /\ rCall[h].avg = score[t].avg

RatingsInv ==
  RatingsTypeOK /\ CallsHoldReviews /\ NoReviewIsInvented /\ CalmCountsAll
=============================================================================
