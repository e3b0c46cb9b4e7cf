---------------------------- MODULE ServicesProofs ----------------------------
(* Theorems about the services beside the marketplace's core: what they     *)
(* count (the offers of a day, the reviews of a profile and the visitors    *)
(* behind a search), one conversation (Chat) and the pages of the list of   *)
(* conversations (ChatPages), for every number of calls; and all of them    *)
(* side by side.                                                            *)
EXTENDS MCServices, SessionsProofs, DocumentProofs, FiniteSetTheorems,
        WellFoundedInduction, TLAPS

-----------------------------------------------------------------------------
(* The offers of a day. *)

LEMMA CallsCounted ==
  /\ Cardinality(QuotaCalls) \in Nat \ {0}
  /\ \A S \in SUBSET QuotaCalls : IsFiniteSet(S) /\ Cardinality(S) \in Nat
BY QuotaAssumption, FS_CardinalityType, FS_Subset, FS_EmptySet

\* A call that passes the limit is one more to insert, and one that returns one less.
LEMMA CallCounts ==
  ASSUME NEW S \in SUBSET QuotaCalls, NEW h \in QuotaCalls
  PROVE  /\ h \notin S => Cardinality(S \union {h}) = Cardinality(S) + 1
         /\ h \in S => Cardinality(S \ {h}) = Cardinality(S) - 1
         /\ h \notin S => Cardinality(S) < Cardinality(QuotaCalls)
<1>1. IsFiniteSet(S)
  BY CallsCounted
<1>2. ASSUME h \notin S
      PROVE  Cardinality(S \union {h}) = Cardinality(S) + 1
  BY <1>1, <1>2, FS_AddElement
<1>3. ASSUME h \in S
      PROVE  Cardinality(S \ {h}) = Cardinality(S) - 1
  BY <1>1, <1>3, FS_RemoveElement
<1>4. ASSUME h \notin S
      PROVE  Cardinality(S) < Cardinality(QuotaCalls)
  <2>1. S \union {h} \in SUBSET QuotaCalls
    OBVIOUS
  <2>2. Cardinality(S \union {h}) <= Cardinality(QuotaCalls)
    BY <2>1, QuotaAssumption, FS_Subset
  <2> QED
    BY <2>1, <2>2, <1>2, <1>4, CallsCounted
<1> QED
  BY <1>2, <1>3, <1>4

LEMMA QuotaInvInit == QuotaInit => QuotaInv
<1> SUFFICES ASSUME QuotaInit PROVE QuotaInv
  OBVIOUS
<1>1. Cardinality(counted) = 0
  BY FS_EmptySet DEF QuotaInit
<1> QED
  BY <1>1, CallsCounted, QuotaAssumption DEF QuotaInit, QuotaInv, QuotaTypeOK, QuotaHolds

LEMMA QuotaInvStep == QuotaInv /\ [QuotaNext]_quotaVars => QuotaInv'
<1> SUFFICES ASSUME QuotaInv, [QuotaNext]_quotaVars PROVE QuotaInv'
  OBVIOUS
<1> USE DEF QuotaInv, QuotaTypeOK, QuotaHolds
<1>0. /\ Cardinality(QuotaCalls) \in Nat \ {0}
      /\ Cardinality(counted) \in Nat
      /\ DailyLimit \in Nat \ {0} /\ LastDay \in Nat
  BY CallsCounted, QuotaAssumption
<1>1. ASSUME NEW h \in QuotaCalls, QuotaRead(h)
      PROVE  QuotaInv'
  <2>1. Cardinality(counted') = Cardinality(counted) + 1
        /\ Cardinality(counted) < Cardinality(QuotaCalls)
    BY <1>1, CallCounts DEF QuotaRead
  <2> QED
    BY <1>0, <1>1, <2>1 DEF QuotaRead
<1>2. ASSUME NEW h \in QuotaCalls, QuotaInsert(h)
      PROVE  QuotaInv'
  <2>1. Cardinality(counted') = Cardinality(counted) - 1
    BY <1>2, CallCounts DEF QuotaInsert
  <2>2. offersOn' \in [0..LastDay -> Nat] /\ offersOn'[day] = offersOn[day] + 1
    BY <1>2 DEF QuotaInsert
  <2>3. Cardinality(counted) >= 1
    <3>1. Cardinality(counted') \in Nat
      BY <1>2, CallsCounted DEF QuotaInsert
    <3> QED
      BY <1>0, <2>1, <3>1
  <2>4. offersOn'[day] < DailyLimit + Cardinality(QuotaCalls)
    BY <1>0, <2>2, <2>3
  <2>5. UNCHANGED day /\ counted' \subseteq counted
        /\ \A d \in 0..LastDay : d # day => offersOn'[d] = offersOn[d]
    BY <1>2 DEF QuotaInsert
  <2>6. QuotaTypeOK'
    BY <2>2, <2>5
  <2>7. offersOn'[day'] + Cardinality(counted') < DailyLimit + Cardinality(QuotaCalls)
    BY <1>0, <2>1, <2>2, <2>5
  <2>8. QuotaHolds'
    BY <2>4, <2>5
  <2>9. \A d \in 0..LastDay : d > day' => offersOn'[d] = 0
    BY <2>5
  <2> QED
    BY <2>6, <2>7, <2>8, <2>9
<1>3. ASSUME NEW h \in QuotaCalls, QuotaRefused(h)
      PROVE  QuotaInv'
  <2>1. Cardinality(counted') = Cardinality(counted) - 1
    BY <1>3, CallCounts DEF QuotaRefused
  <2> QED
    BY <1>0, <1>3, <2>1 DEF QuotaRefused
<1>4. ASSUME NEW d \in 0..LastDay, QuotaDelete(d)
      PROVE  QuotaInv'
  <2>1. /\ offersOn' \in [0..LastDay -> Nat]
        /\ \A x \in 0..LastDay : offersOn'[x] <= offersOn[x]
    BY <1>4 DEF QuotaDelete
  <2>2. day' = day /\ counted' = counted
    BY <1>4 DEF QuotaDelete
  <2>3. \A x \in 0..LastDay : x > day => offersOn'[x] = 0
    BY <1>0, <2>1
  <2> QED
    BY <1>0, <2>1, <2>2, <2>3, SMTT(30)
<1>5. CASE Midnight
  <2>1. offersOn'[day'] = 0 /\ Cardinality(counted') <= Cardinality(QuotaCalls)
    BY <1>0, <1>5, QuotaAssumption, FS_Subset DEF Midnight
  <2> QED
    BY <1>0, <1>5, <2>1 DEF Midnight
<1>6. CASE UNCHANGED quotaVars
  BY <1>6 DEF quotaVars
<1> QED
  BY <1>1, <1>2, <1>3, <1>4, <1>5, <1>6 DEF QuotaNext

\* However many createForProvider() calls of a provider overlap and whatever day it is
\* when they insert, he has fewer offers of a day than the limit and the calls together.
THEOREM OffersStayWithinLimitAndCalls == QuotaSpec => []QuotaHolds
<1>1. QuotaInv => QuotaHolds
  BY DEF QuotaInv
<1> QED
  BY QuotaInvInit, QuotaInvStep, <1>1, PTL DEF QuotaSpec

-----------------------------------------------------------------------------
(* Quotients, for ratings and for buckets. *)

LEMMA QuotientBounds ==
  ASSUME NEW x \in Nat, NEW y \in Nat \ {0}
  PROVE  x \div y \in Nat /\ y * (x \div y) <= x /\ x < y * (x \div y) + y
<1>1. x = y * (x \div y) + (x % y) /\ 0 <= x % y /\ x % y < y /\ x \div y \in Int
  OBVIOUS
<1>2. x \div y >= 0
  <2>1. SUFFICES ASSUME x \div y <= -1 PROVE FALSE
    BY <1>1
  <2>2. y * (x \div y) <= -y
    BY <1>1, <2>1
  <2> QED
    BY <1>1, <2>2
<1> QED
  BY <1>1, <1>2


Searching ==
  [at: {"idle", "dedupe", "set", "count", "again"}, since: 0..LastInstant,
   visitor: Visitors \union {NoVisitor}, query: Queries \union {NoVisitor}]

-----------------------------------------------------------------------------
(* The reviews of a profile and its average. *)

RatingCall ==
  [at: RatingSteps, booking: ReviewedBookings \union {NoBookingGiven},
   target: Targets \union {"none"}, stars: 0..5, count: Nat, avg: Nat]


LEMMA RoundedBounds ==
  ASSUME NEW n \in Nat, NEW d \in Nat \ {0}
  PROVE  /\ Rounded(n, d) \in Nat
         /\ 2 * (d * Rounded(n, d)) <= 2 * n + d
         /\ 2 * n < 2 * (d * Rounded(n, d)) + d
<1> DEFINE x == 2 * n + d
           y == 2 * d
<1>1. x \in Nat /\ y \in Nat \ {0}
  OBVIOUS
<1>2. x \div y \in Nat /\ y * (x \div y) <= x /\ x < y * (x \div y) + y
  <2> HIDE DEF x, y
  <2> QED
    BY <1>1, QuotientBounds
<1>3. Rounded(n, d) = x \div y
  BY DEF Rounded
<1> DEFINE q == Rounded(n, d)
<1>4. q \in Nat /\ (2 * d) * q <= 2 * n + d /\ 2 * n + d < (2 * d) * q + 2 * d
  BY <1>2, <1>3
<1> HIDE DEF q
<1>5. (2 * d) * q = 2 * (d * q) /\ d * q \in Nat
  BY <1>4
<1>6. q \in Nat /\ 2 * (d * q) <= 2 * n + d /\ 2 * n < 2 * (d * q) + d
  BY <1>4, <1>5
<1> QED
  BY <1>6 DEF q

\* What lies between multiples of c + 1, up to a half, lies between their factors.
LEMMA FactorBounds ==
  ASSUME NEW c \in Nat, NEW r \in Nat,
         199 * (c + 1) < 2 * ((c + 1) * r), 2 * ((c + 1) * r) <= 1001 * (c + 1)
  PROVE  r \in 100..500
<1>1. r <= 500
  <2> SUFFICES ASSUME NEW k \in Nat, r = 501 + k PROVE FALSE
    <3>1. r > 500 => r - 501 \in Nat /\ r = 501 + (r - 501)
      OBVIOUS
    <3> QED
      BY <3>1
  <2>1. k * (c + 1) \in Nat /\ (c + 1) * r = 501 * (c + 1) + k * (c + 1)
    OBVIOUS
  <2> QED
    BY <2>1
<1>2. r >= 100
  <2> SUFFICES ASSUME NEW k \in Nat, 99 = r + k PROVE FALSE
    <3>1. r < 100 => 99 - r \in Nat /\ 99 = r + (99 - r)
      OBVIOUS
    <3> QED
      BY <3>1
  <2>1. k * (c + 1) \in Nat /\ 99 * (c + 1) = (c + 1) * r + k * (c + 1)
    OBVIOUS
  <2>2. (c + 1) * r \in Nat
    OBVIOUS
  <2> QED
    BY <2>1, <2>2
<1> QED
  BY <1>1, <1>2

\* The average of one more rating is an average of ratings.
LEMMA AverageStays ==
  ASSUME NEW c \in Nat, NEW a \in Nat, NEW s \in 1..5, c > 0 => a \in 100..500
  PROVE  Rounded(a * c + 100 * s, c + 1) \in 100..500
<1>1. a * c \in Nat /\ 100 * c <= a * c /\ a * c <= 500 * c
  <2>1. CASE c = 0
    BY <2>1
  <2>2. CASE c > 0
    <3>1. a - 100 \in Nat /\ 500 - a \in Nat
      BY <2>2
    <3>2. (a - 100) * c \in Nat /\ (500 - a) * c \in Nat
      BY <3>1
    <3>3. (a - 100) * c = a * c - 100 * c /\ (500 - a) * c = 500 * c - a * c
      OBVIOUS
    <3> QED
      BY <3>2, <3>3
  <2> QED
    BY <2>1, <2>2
<1> DEFINE n == a * c + 100 * s
           d == c + 1
           r == Rounded(n, d)
<1>2. n \in Nat /\ 100 * (c + 1) <= n /\ n <= 500 * (c + 1)
  BY <1>1
<1>3. /\ r \in Nat
      /\ 2 * ((c + 1) * r) <= 2 * n + (c + 1)
      /\ 2 * n < 2 * ((c + 1) * r) + (c + 1)
  <2>1. n \in Nat /\ d \in Nat \ {0}
    BY <1>2
  <2>2. r \in Nat /\ 2 * (d * r) <= 2 * n + d /\ 2 * n < 2 * (d * r) + d
    <3> HIDE DEF n, d
    <3> QED
      BY <2>1, RoundedBounds
  <2> QED
    BY <2>2
<1>4. (c + 1) * r \in Nat
  BY <1>3
<1> HIDE DEF n, r
<1>5. 199 * (c + 1) < 2 * ((c + 1) * r) /\ 2 * ((c + 1) * r) <= 1001 * (c + 1)
  BY <1>2, <1>3, <1>4
<1>6. r \in 100..500
  BY <1>3, <1>5, FactorBounds
<1> USE DEF n, r
<1> QED
  BY <1>6

\* One more rating adds one rounding, of a half, to those of the ratings before it.
LEMMA CloseStep ==
  ASSUME NEW c \in Nat, NEW a \in Nat, NEW s \in 1..5, NEW sum \in Int, Close(c, a, sum)
  PROVE  Close(c + 1, Rounded(a * c + 100 * s, c + 1), sum + s)
<1> DEFINE n == a * c + 100 * s
           d == c + 1
           r == Rounded(n, d)
<1>1. a * c \in Nat /\ c * a = a * c /\ c * c \in Nat /\ n \in Nat /\ d \in Nat \ {0}
  OBVIOUS
<1>2. r \in Nat /\ 2 * (d * r) <= 2 * n + d /\ 2 * n < 2 * (d * r) + d
  <2> HIDE DEF n, d
  <2> QED
    BY <1>1, RoundedBounds
<1>3. d * r \in Nat
  BY <1>1, <1>2
<1>4. c * (c + 1) = c * c + c /\ d * (d + 1) = c * c + 3 * c + 2
  OBVIOUS
<1>5. 4 * (a * c - 100 * sum) <= c * c + c /\ 4 * (a * c - 100 * sum) >= -(c * c + c)
  BY <1>1, <1>4 DEF Close
<1>6. ASSUME NEW x \in Nat, NEW y \in Nat, NEW z \in Nat,
             4 * (x - 100 * sum) <= z + c, 4 * (x - 100 * sum) >= -(z + c),
             2 * y <= 2 * (x + 100 * s) + (c + 1), 2 * (x + 100 * s) < 2 * y + (c + 1)
      PROVE  /\ 4 * (y - 100 * (sum + s)) <= z + 3 * c + 2
             /\ 4 * (y - 100 * (sum + s)) >= -(z + 3 * c + 2)
  BY <1>6
<1>7. /\ 4 * (d * r - 100 * (sum + s)) <= c * c + 3 * c + 2
      /\ 4 * (d * r - 100 * (sum + s)) >= -(c * c + 3 * c + 2)
  <2> DEFINE x == a * c  y == d * r  z == c * c
  <2>1. /\ x \in Nat /\ y \in Nat /\ z \in Nat
        /\ 4 * (x - 100 * sum) <= z + c /\ 4 * (x - 100 * sum) >= -(z + c)
        /\ 2 * y <= 2 * (x + 100 * s) + (c + 1) /\ 2 * (x + 100 * s) < 2 * y + (c + 1)
    BY <1>1, <1>2, <1>3, <1>5
  <2> HIDE DEF x, y, z
  <2>2. 4 * (y - 100 * (sum + s)) <= z + 3 * c + 2 /\ 4 * (y - 100 * (sum + s)) >= -(z + 3 * c + 2)
    BY <2>1, <1>6
  <2> QED
    BY <2>2 DEF x, y, z
<1>8. Close(d, r, sum + s)
  BY <1>4, <1>7 DEF Close
<1> QED
  BY <1>8

-----------------------------------------------------------------------------
(* Reviews and calls are counted. *)

LEMMA RatingsTyping ==
  RatingsTypeOK <=>
    /\ completed \subseteq ReviewedBookings
    /\ review \in [ReviewedBookings \X Targets -> 0..5]
    /\ score \in [Targets -> [count: Nat, avg: Nat]]
    /\ rCall \in [ReviewCalls -> RatingCall]
    /\ calm \in BOOLEAN
BY DEF RatingsTypeOK, RatingCall

LEMMA RestingTyped == Resting \in RatingCall
BY DEF Resting, RatingCall, RatingSteps

LEMMA ReviewsCounted ==
  ASSUME NEW t
  PROVE  /\ IsFiniteSet(Reviewed(t)) /\ Cardinality(Reviewed(t)) \in Nat
         /\ \A n : IsFiniteSet(Giving(n, t)) /\ Cardinality(Giving(n, t)) \in Nat
         /\ StarsGiven(t) \in Nat
         /\ IsFiniteSet(Loading(t)) /\ Cardinality(Loading(t)) \in Nat
<1>1. ASSUME NEW S, S \subseteq ReviewedBookings
      PROVE  IsFiniteSet(S) /\ Cardinality(S) \in Nat
  BY <1>1, RatingsAssumption, FS_Subset, FS_CardinalityType
<1>2. IsFiniteSet(Loading(t)) /\ Cardinality(Loading(t)) \in Nat
  <2>1. Loading(t) \subseteq ReviewCalls
    BY DEF Loading, Owing
  <2> QED
    BY <2>1, RatingsAssumption, FS_Subset, FS_CardinalityType
<1>3. \A n : IsFiniteSet(Giving(n, t)) /\ Cardinality(Giving(n, t)) \in Nat
  <2>1. \A n : Giving(n, t) \subseteq ReviewedBookings
    BY DEF Giving
  <2> QED
    BY <1>1, <2>1
<1>4. StarsGiven(t) \in Nat
  BY <1>3 DEF StarsGiven
<1>5. Reviewed(t) \subseteq ReviewedBookings
  BY DEF Reviewed
<1> QED
  BY <1>1, <1>2, <1>3, <1>4, <1>5

\* A new review is one more review, and adds its stars.
LEMMA ReviewAdds ==
  ASSUME RatingsTypeOK, NEW b \in ReviewedBookings, NEW t \in Targets, NEW s \in 1..5,
         review[<<b, t>>] = 0, review' = [review EXCEPT ![<<b, t>>] = s]
  PROVE  /\ Cardinality(Reviewed(t)') = Cardinality(Reviewed(t)) + 1
         /\ StarsGiven(t)' = StarsGiven(t) + s
         /\ \A u \in Targets \ {t} : /\ Cardinality(Reviewed(u)') = Cardinality(Reviewed(u))
                                    /\ StarsGiven(u)' = StarsGiven(u)
         /\ review' \in [ReviewedBookings \X Targets -> 0..5]
<1>1. /\ \A x \in ReviewedBookings, u \in Targets : review[<<x, u>>] \in 0..5
      /\ \A x \in ReviewedBookings, u \in Targets :
           review'[<<x, u>>] = IF x = b /\ u = t THEN s ELSE review[<<x, u>>]
      /\ review' \in [ReviewedBookings \X Targets -> 0..5]
  BY DEF RatingsTypeOK
<1>2. ASSUME NEW n \in 1..5
      PROVE  Cardinality(Giving(n, t)') = Cardinality(Giving(n, t)) + IF n <= s THEN 1 ELSE 0
  <2>1. IsFiniteSet(Giving(n, t)) /\ Cardinality(Giving(n, t)) \in Nat
    BY ReviewsCounted
  <2>2. CASE n <= s
    <3>1. Giving(n, t)' = Giving(n, t) \union {b} /\ b \notin Giving(n, t)
      BY <1>1, <2>2 DEF Giving
    <3> QED
      BY <2>1, <2>2, <3>1, FS_AddElement, ZenonT(30)
  <2>3. CASE ~(n <= s)
    <3>1. Giving(n, t)' = Giving(n, t)
      BY <1>1, <2>3 DEF Giving
    <3> QED
      BY <2>1, <2>3, <3>1
  <2> QED
    BY <2>2, <2>3
<1>3. StarsGiven(t)' = StarsGiven(t) + s
  BY <1>2, ReviewsCounted DEF StarsGiven
<1>4. Cardinality(Reviewed(t))' = Cardinality(Reviewed(t)) + 1
  <2>1. Reviewed(t)' = Reviewed(t) \union {b} /\ b \notin Reviewed(t)
    BY <1>1 DEF Reviewed
  <2> QED
    BY <2>1, ReviewsCounted, FS_AddElement, ZenonT(30)
<1>5. ASSUME NEW u \in Targets \ {t}
      PROVE  /\ Cardinality(Reviewed(u))' = Cardinality(Reviewed(u))
             /\ StarsGiven(u)' = StarsGiven(u)
  <2>1. \A x \in ReviewedBookings : review'[<<x, u>>] = review[<<x, u>>]
    BY <1>1
  <2>2. Reviewed(u)' = Reviewed(u)
    BY <2>1 DEF Reviewed
  <2>3. \A n : Giving(n, u)' = Giving(n, u)
    BY <2>1 DEF Giving
  <2> QED
    BY <2>2, <2>3 DEF StarsGiven
<1> QED
  BY <1>1, <1>3, <1>4, <1>5

\* Unless a review is written, the counts of reviews and stars stay.
LEMMA ReviewsKept ==
  ASSUME review' = review
  PROVE  \A t : Reviewed(t)' = Reviewed(t) /\ StarsGiven(t)' = StarsGiven(t)
BY DEF Reviewed, StarsGiven, Giving

LEMMA RatingsInvInit == RatingsInit => RatingsInv
<1> SUFFICES ASSUME RatingsInit PROVE RatingsInv
  OBVIOUS
<1>1. /\ review \in [ReviewedBookings \X Targets -> 0..5]
      /\ \A b \in ReviewedBookings, t \in Targets : review[<<b, t>>] = 0
  BY DEF RatingsInit
<1>2. RatingsTypeOK
  BY <1>1, RestingTyped, RatingsTyping DEF RatingsInit
<1>3. \A h \in ReviewCalls : Awaits(h, "idle")
  BY DEF RatingsInit, Resting, Awaits
<1>4. \A t \in Targets : Owing(t) = {} /\ Loading(t) = {} /\ Cardinality(Loading(t)) = 0
  BY <1>3, FS_EmptySet DEF Owing, Loading, Awaits
<1>5. ASSUME NEW t \in Targets
      PROVE  Cardinality(Reviewed(t)) = 0 /\ StarsGiven(t) = 0
  <2>1. Reviewed(t) = {}
    BY <1>1 DEF Reviewed
  <2>2. \A n \in 1..5 : Giving(n, t) = {}
    BY <1>1 DEF Giving
  <2> QED
    BY <2>1, <2>2, FS_EmptySet DEF StarsGiven
<1>6. \A t \in Targets : score[t].count = 0 /\ score[t].avg = 0
  BY DEF RatingsInit
<1>7. CallsHoldReviews
  BY <1>3 DEF CallsHoldReviews
<1>8. NoReviewIsInvented
  BY <1>4, <1>5, <1>6 DEF NoReviewIsInvented, AnAverage
<1>9. CalmCountsAll
  BY <1>3, <1>4, <1>5, <1>6 DEF CalmCountsAll, Close
<1> QED
  BY <1>2, <1>7, <1>8, <1>9 DEF RatingsInv

-----------------------------------------------------------------------------
(* A step of one call. *)

LEMMA CallMoves ==
  ASSUME RatingsTypeOK, NEW h \in ReviewCalls, NEW c \in RatingCall,
         rCall' = [rCall EXCEPT ![h] = c]
  PROVE  /\ rCall' \in [ReviewCalls -> RatingCall] /\ rCall'[h] = c
         /\ \A g \in ReviewCalls \ {h} : rCall'[g] = rCall[g]
BY RatingsTyping

\* One call at most begins or ceases to load.
LEMMA CallOwes ==
  ASSUME RatingsTypeOK, NEW h \in ReviewCalls, NEW c \in RatingCall,
         rCall' = [rCall EXCEPT ![h] = c], NEW t \in Targets
  PROVE  /\ Owing(t)' = (Owing(t) \ {h})
              \union (IF c.at \in {"load", "save"} /\ c.target = t THEN {h} ELSE {})
         /\ Cardinality(Loading(t)') =
              Cardinality(Loading(t)) - (IF h \in Loading(t) THEN 1 ELSE 0)
                + (IF c.at = "load" /\ c.target = t THEN 1 ELSE 0)
<1>1. Owing(t)' = (Owing(t) \ {h})
        \union (IF c.at \in {"load", "save"} /\ c.target = t THEN {h} ELSE {})
  BY CallMoves DEF Owing, Awaits
<1> DEFINE L == Loading(t)
           M == Loading(t)'
           new == IF c.at = "load" /\ c.target = t THEN {h} ELSE {}
<1>2. M = (L \ {h}) \union new
  BY CallMoves DEF Loading, Owing, Awaits
<1>3. IsFiniteSet(L) /\ Cardinality(L) \in Nat
  BY ReviewsCounted
<1>4. /\ IsFiniteSet(L \ {h})
      /\ Cardinality(L \ {h}) = Cardinality(L) - (IF h \in L THEN 1 ELSE 0)
  BY <1>3, FS_RemoveElement
<1>5. CASE c.at = "load" /\ c.target = t
  <2>1. M = (L \ {h}) \union {h} /\ h \notin L \ {h}
    BY <1>2, <1>5
  <2>2. Cardinality(M) = Cardinality(L \ {h}) + 1
    BY <2>1, <1>4, FS_AddElement
  <2> QED
    BY <1>1, <1>4, <1>5, <2>2
<1>6. CASE ~(c.at = "load" /\ c.target = t)
  <2>1. M = L \ {h}
    BY <1>2, <1>6
  <2> QED
    BY <1>1, <1>3, <1>4, <1>6, <2>1
<1> QED
  BY <1>5, <1>6

\* A call that owes no stars before and after changes no count.
LEMMA CallOwesNone ==
  ASSUME RatingsTypeOK, NEW h \in ReviewCalls, NEW c \in RatingCall,
         rCall' = [rCall EXCEPT ![h] = c], c.at \notin {"load", "save"},
         ~Awaits(h, "load"), ~Awaits(h, "save")
  PROVE  \A t \in Targets : /\ Owing(t)' = Owing(t) /\ h \notin Owing(t)
                           /\ Cardinality(Loading(t)') = Cardinality(Loading(t))
<1> SUFFICES ASSUME NEW t \in Targets
             PROVE  /\ Owing(t)' = Owing(t) /\ h \notin Owing(t)
                    /\ Cardinality(Loading(t)') = Cardinality(Loading(t))
  OBVIOUS
<1>1. h \notin Owing(t) /\ h \notin Loading(t)
  BY DEF Owing, Loading
<1>2. Cardinality(Loading(t)) \in Nat
  BY ReviewsCounted
<1>3. /\ Owing(t)' = (Owing(t) \ {h})
            \union (IF c.at \in {"load", "save"} /\ c.target = t THEN {h} ELSE {})
      /\ Cardinality(Loading(t)') =
            Cardinality(Loading(t)) - (IF h \in Loading(t) THEN 1 ELSE 0)
              + (IF c.at = "load" /\ c.target = t THEN 1 ELSE 0)
  BY CallOwes
<1>4. Owing(t)' = Owing(t)
  BY <1>1, <1>3
<1>5. Cardinality(Loading(t)') = Cardinality(Loading(t))
  BY <1>1, <1>2, <1>3
<1> QED
  BY <1>1, <1>4, <1>5

\* A call that owes no stars before and after a step keeps the invariant.
LEMMA OwingNothing ==
  ASSUME RatingsInv, NEW h \in ReviewCalls, NEW c \in RatingCall,
         rCall' = [rCall EXCEPT ![h] = c], c.at \notin {"load", "save"},
         ~Awaits(h, "load"), ~Awaits(h, "save"),
         completed' = completed, review' = review, score' = score,
         calm' \in BOOLEAN, calm' => calm,
         c.at # "idle" => /\ c.booking \in ReviewedBookings /\ c.target \in Targets
                          /\ c.stars \in 1..5
                          /\ calm' => \A g \in ReviewCalls : Awaits(g, "idle")
  PROVE  RatingsInv'
<1>1. RatingsTypeOK /\ CallsHoldReviews /\ NoReviewIsInvented /\ CalmCountsAll
  BY DEF RatingsInv
<1>2. /\ rCall' \in [ReviewCalls -> RatingCall] /\ rCall'[h] = c
      /\ \A g \in ReviewCalls \ {h} : rCall'[g] = rCall[g]
  BY <1>1, CallMoves
<1>3. \A u \in Targets : /\ Owing(u)' = Owing(u) /\ h \notin Owing(u)
                        /\ Cardinality(Loading(u)') = Cardinality(Loading(u))
  BY <1>1, CallOwesNone DEF Awaits
<1>4. \A u \in Targets : /\ Cardinality(Reviewed(u)') = Cardinality(Reviewed(u))
                        /\ StarsGiven(u)' = StarsGiven(u)
  BY ReviewsKept
<1>5. RatingsTypeOK'
  BY <1>1, <1>2 DEF RatingsTypeOK, RatingCall
<1>6. CallsHoldReviews'
  BY <1>1, <1>2 DEF CallsHoldReviews, Awaits
<1>7. \A u \in Targets : \A g \in Owing(u) : rCall'[g] = rCall[g]
  BY <1>2, <1>3 DEF Owing
<1>8. NoReviewIsInvented'
  BY <1>1, <1>3, <1>4, <1>7, SMTT(30) DEF NoReviewIsInvented, Awaits, AnAverage
<1>9. CalmCountsAll'
  BY <1>1, <1>2, <1>3, <1>4, <1>7 DEF CalmCountsAll, Awaits
<1> QED
  BY <1>5, <1>6, <1>8, <1>9 DEF RatingsInv

LEMMA ReadKeepsInv ==
  ASSUME RatingsInv, NEW h \in ReviewCalls, NEW b \in ReviewedBookings, NEW t \in Targets,
         NEW stars \in Stars, ReviewRead(h, b, t, stars)
  PROVE  RatingsInv'
<1>1. PICK c \in RatingCall :
        /\ c = [Resting EXCEPT !.at = "insert", !.booking = b, !.target = t, !.stars = stars]
        /\ c.at = "insert" /\ c.booking = b /\ c.target = t /\ c.stars = stars
        /\ c.stars \in 1..5
  <2>1. PICK r \in RatingCall : r = Resting
    BY RestingTyped
  <2> DEFINE c == [r EXCEPT !.at = "insert", !.booking = b, !.target = t, !.stars = stars]
  <2>2. stars \in 1..5 /\ stars \in 0..5
    BY RatingsAssumption
  <2>3. c \in RatingCall /\ c.at = "insert" /\ c.booking = b /\ c.target = t /\ c.stars = stars
    BY <2>2 DEF RatingCall, RatingSteps
  <2> QED
    BY <2>1, <2>2, <2>3
<1>2. /\ Awaits(h, "idle") /\ rCall' = [rCall EXCEPT ![h] = c]
      /\ completed' = completed /\ review' = review /\ score' = score
  BY <1>1 DEF ReviewRead, Enters
<1>3. calm' \in BOOLEAN /\ (calm' => calm) /\ (calm' => \A g \in ReviewCalls : Awaits(g, "idle"))
  BY DEF ReviewRead, Enters
<1>4. ~Awaits(h, "load") /\ ~Awaits(h, "save")
  BY <1>2 DEF Awaits
<1> QED
  BY <1>1, <1>2, <1>3, <1>4, OwingNothing

\* A call that has written its review owes its stars to the profile.
LEMMA InsertKeepsInv ==
  ASSUME RatingsInv, NEW h \in ReviewCalls, ReviewInsert(h)
  PROVE  RatingsInv'
<1>1. RatingsTypeOK /\ CallsHoldReviews /\ NoReviewIsInvented /\ CalmCountsAll
  BY DEF RatingsInv
<1>a. PICK c \in RatingCall, b \in ReviewedBookings, t \in Targets, s \in 1..5 :
        c = rCall[h] /\ c.at = "insert" /\ b = c.booking /\ t = c.target /\ s = c.stars
  BY <1>1, RatingsTyping DEF ReviewInsert, CallsHoldReviews, Awaits
<1>2. /\ c \in RatingCall /\ c = rCall[h] /\ c.at = "insert"
      /\ b = c.booking /\ t = c.target /\ s = c.stars
      /\ completed' = completed /\ score' = score /\ calm' = calm /\ calm \in BOOLEAN
  BY <1>1, <1>a DEF ReviewInsert, RatingsTypeOK
<1>3. CASE review[<<b, t>>] # 0
  <2>1. rCall' = [rCall EXCEPT ![h] = Resting] /\ review' = review
    BY <1>2, <1>3 DEF ReviewInsert, Leaves
  <2>2. Resting.at = "idle"
    BY DEF Resting
  <2>3. calm' \in BOOLEAN /\ (calm' => calm)
    BY <1>2
  <2>4. ~Awaits(h, "load") /\ ~Awaits(h, "save")
    BY <1>2 DEF Awaits
  <2> QED
    BY <1>2, <2>1, <2>2, <2>3, <2>4, RestingTyped, OwingNothing
<1>4. CASE review[<<b, t>>] = 0
  <2> DEFINE d == [c EXCEPT !.at = "load"]
  <2>1. rCall' = [rCall EXCEPT ![h] = d] /\ review' = [review EXCEPT ![<<b, t>>] = s]
    BY <1>2, <1>4 DEF ReviewInsert, Goes
  <2>2. /\ d \in RatingCall /\ d.at = "load" /\ d.booking = b /\ d.target = t /\ d.stars = s
    BY <1>2 DEF RatingCall, RatingSteps
  <2> HIDE DEF d
  <2>3. /\ rCall' \in [ReviewCalls -> RatingCall] /\ rCall'[h] = d
        /\ \A g \in ReviewCalls \ {h} : rCall'[g] = rCall[g]
    BY <1>1, <2>1, <2>2, CallMoves
  <2>4. /\ Cardinality(Reviewed(t)') = Cardinality(Reviewed(t)) + 1
        /\ StarsGiven(t)' = StarsGiven(t) + s
        /\ \A u \in Targets \ {t} : /\ Cardinality(Reviewed(u)') = Cardinality(Reviewed(u))
                                   /\ StarsGiven(u)' = StarsGiven(u)
        /\ review' \in [ReviewedBookings \X Targets -> 0..5]
    <3>1. RatingsTypeOK /\ review[<<b, t>>] = 0 /\ review' = [review EXCEPT ![<<b, t>>] = s]
      BY <1>1, <1>2, <1>4, <2>1
    <3> QED
      BY ONLY <3>1, ReviewAdds, b \in ReviewedBookings, t \in Targets, s \in 1..5, Zenon
  <2>5. \A u \in Targets : /\ Cardinality(Loading(u)) \in Nat /\ Cardinality(Reviewed(u)) \in Nat
                          /\ StarsGiven(u) \in Nat
    BY ReviewsCounted
  <2>6. \A u \in Targets : h \notin Owing(u) /\ h \notin Loading(u)
    BY <1>2 DEF Owing, Loading, Awaits
  <2>7. /\ Owing(t)' = Owing(t) \union {h}
        /\ Cardinality(Loading(t)') = Cardinality(Loading(t)) + 1
    <3>1. /\ Owing(t)' = (Owing(t) \ {h}) \union {h}
          /\ Cardinality(Loading(t)') =
                Cardinality(Loading(t)) - (IF h \in Loading(t) THEN 1 ELSE 0) + 1
      BY <1>1, <1>2, <2>1, <2>2, CallOwes
    <3> QED
      BY <1>2, <2>5, <2>6, <3>1
  <2>8. ASSUME NEW u \in Targets \ {t}
        PROVE  Owing(u)' = Owing(u) /\ Cardinality(Loading(u)') = Cardinality(Loading(u))
    <3>1. /\ Owing(u)' = (Owing(u) \ {h}) \union {}
          /\ Cardinality(Loading(u)') =
                Cardinality(Loading(u)) - (IF h \in Loading(u) THEN 1 ELSE 0) + 0
      BY <1>1, <1>2, <2>1, <2>2, CallOwes, ZenonT(30)
    <3> QED
      BY <2>5, <2>6, <3>1
  <2>9. \A u \in Targets : \A g \in Owing(u) : rCall'[g] = rCall[g] /\ g # h
    BY <2>3, <2>6 DEF Owing
  <2>10. RatingsTypeOK'
    BY <1>1, <1>2, <2>3, <2>4 DEF RatingsTypeOK, RatingCall
  <2>11. CallsHoldReviews'
    BY <1>1, <1>2, <2>2, <2>3 DEF CallsHoldReviews, Awaits
  <2>12. NoReviewIsInvented'
    <3> SUFFICES ASSUME NEW u \in Targets
                 PROVE  LET room == Cardinality(Reviewed(u)') - Cardinality(Loading(u)') IN
                        /\ score[u].count <= room /\ AnAverage(score[u])
                        /\ \A g \in Owing(u)' : rCall'[g].at = "save" =>
                              rCall'[g].count < room /\ AnAverage(rCall'[g])
      BY <1>2 DEF NoReviewIsInvented, Awaits, AnAverage
    <3>1. Cardinality(Reviewed(u)') - Cardinality(Loading(u)')
            = Cardinality(Reviewed(u)) - Cardinality(Loading(u))
      BY <2>4, <2>5, <2>7, <2>8
    <3>2. \A g \in Owing(u)' : rCall'[g].at = "save" => g \in Owing(u) /\ rCall'[g] = rCall[g]
      BY <2>2, <2>3, <2>7, <2>8, <2>9
    <3> QED
      BY <1>1, <3>1, <3>2 DEF NoReviewIsInvented, Awaits
  <2>13. CalmCountsAll'
    <3> SUFFICES ASSUME calm
                 PROVE  CalmCountsAll'
      BY <1>2 DEF CalmCountsAll
    <3>1. \A g \in ReviewCalls \ {h} : rCall[g].at = "idle"
      BY <1>1, <1>2 DEF CalmCountsAll, Awaits
    <3>2. \A g \in ReviewCalls : rCall'[g].at # "idle" => g = h
      BY <2>3, <3>1
    <3>3. \A u \in Targets : Owing(u) = {}
      BY <2>6, <3>1 DEF Owing, Awaits
    <3>4. \A u \in Targets : /\ score[u].count = Cardinality(Reviewed(u))
                            /\ Close(score[u].count, score[u].avg, StarsGiven(u))
      BY <1>1, <3>3 DEF CalmCountsAll
    <3>5. \A u \in Targets \ {t} :
            /\ Owing(u)' = {}
            /\ score'[u].count = Cardinality(Reviewed(u)')
            /\ Close(score'[u].count, score'[u].avg, StarsGiven(u)')
      BY <1>2, <2>4, <2>8, <3>3, <3>4
    <3>6. /\ Owing(t)' = {h} /\ rCall'[h].at = "load" /\ rCall'[h].stars = s
          /\ score'[t].count + 1 = Cardinality(Reviewed(t)')
          /\ Close(score'[t].count, score'[t].avg, StarsGiven(t)' - s)
      <4>1. StarsGiven(t)' - s = StarsGiven(t)
        BY <1>2, <2>4, <2>5
      <4> QED
        BY <1>2, <2>2, <2>3, <2>4, <2>7, <3>3, <3>4, <4>1
    <3> QED
      BY <1>2, <3>2, <3>5, <3>6 DEF CalmCountsAll, Awaits
  <2> QED
    BY <2>10, <2>11, <2>12, <2>13 DEF RatingsInv
<1> QED
  BY <1>3, <1>4

\* A call that owes stars before a step is the only call of a calm state.
LEMMA CalmAlone ==
  ASSUME RatingsInv, NEW h \in ReviewCalls, NEW c \in RatingCall, NEW t \in Targets,
         c = rCall[h], c.at \in {"load", "save"}, c.target = t, calm
  PROVE  /\ \A g \in ReviewCalls \ {h} : rCall[g].at = "idle"
         /\ Owing(t) = {h} /\ \A u \in Targets \ {t} : Owing(u) = {}
         /\ score[t].count + 1 = Cardinality(Reviewed(t))
         /\ Close(score[t].count, score[t].avg, StarsGiven(t) - c.stars)
         /\ c.at = "save" => c.count = score[t].count /\ c.avg = score[t].avg
         /\ \A u \in Targets \ {t} : /\ score[u].count = Cardinality(Reviewed(u))
                                    /\ Close(score[u].count, score[u].avg, StarsGiven(u))
<1>1. CalmCountsAll
  BY DEF RatingsInv
<1>2. \A g \in ReviewCalls \ {h} : rCall[g].at = "idle"
  BY <1>1 DEF CalmCountsAll, Awaits
<1>3. Owing(t) = {h}
  BY <1>2 DEF Owing, Awaits
<1>4. \A u \in Targets \ {t} : Owing(u) = {}
  BY <1>2 DEF Owing, Awaits
<1> QED
  BY <1>1, <1>2, <1>3, <1>4 DEF CalmCountsAll, Awaits

LEMMA LoadKeepsInv ==
  ASSUME RatingsInv, NEW h \in ReviewCalls, RatingLoad(h)
  PROVE  RatingsInv'
<1>1. RatingsTypeOK /\ CallsHoldReviews /\ NoReviewIsInvented /\ CalmCountsAll
  BY DEF RatingsInv
<1>2. PICK c \in RatingCall, t \in Targets :
        c = rCall[h] /\ c.at = "load" /\ t = c.target /\ c.booking \in ReviewedBookings /\ c.stars \in 1..5
  BY <1>1, RatingsTyping DEF RatingLoad, CallsHoldReviews, Awaits
<1>3. PICK n \in Nat, a \in Nat : n = score[t].count /\ a = score[t].avg
  BY <1>1 DEF RatingsTypeOK
<1> DEFINE d == [c EXCEPT !.at = "save", !.count = n, !.avg = a]
<1>4. /\ rCall' = [rCall EXCEPT ![h] = d] /\ calm \in BOOLEAN
      /\ completed' = completed /\ review' = review /\ score' = score /\ calm' = calm
  BY <1>1, <1>2, <1>3 DEF RatingLoad, RatingsTypeOK
<1>5. /\ d \in RatingCall /\ d.at = "save" /\ d.target = t /\ d.booking \in ReviewedBookings
      /\ d.stars = c.stars /\ d.count = n /\ d.avg = a
  BY <1>2, <1>3 DEF RatingCall, RatingSteps
<1> HIDE DEF d
<1>6. /\ rCall' \in [ReviewCalls -> RatingCall] /\ rCall'[h] = d
      /\ \A g \in ReviewCalls \ {h} : rCall'[g] = rCall[g]
  BY <1>1, <1>4, <1>5, CallMoves
<1>7. \A u \in Targets : /\ Cardinality(Reviewed(u)') = Cardinality(Reviewed(u))
                        /\ StarsGiven(u)' = StarsGiven(u)
  BY <1>4, ReviewsKept
<1>8. \A u \in Targets : /\ Cardinality(Loading(u)) \in Nat /\ Cardinality(Reviewed(u)) \in Nat
  BY ReviewsCounted
<1>9. \A u \in Targets : (h \in Owing(u) <=> u = t) /\ (h \in Loading(u) <=> u = t)
  BY <1>2 DEF Owing, Loading, Awaits
<1>10. /\ Owing(t)' = Owing(t) /\ Cardinality(Loading(t)') = Cardinality(Loading(t)) - 1
  <2>1. /\ Owing(t)' = (Owing(t) \ {h}) \union {h}
        /\ Cardinality(Loading(t)') =
              Cardinality(Loading(t)) - (IF h \in Loading(t) THEN 1 ELSE 0) + 0
    BY <1>1, <1>4, <1>5, CallOwes
  <2> QED
    BY <1>8, <1>9, <2>1
<1>11. ASSUME NEW u \in Targets \ {t}
      PROVE  Owing(u)' = Owing(u) /\ Cardinality(Loading(u)') = Cardinality(Loading(u))
  <2>1. /\ Owing(u)' = (Owing(u) \ {h}) \union {}
        /\ Cardinality(Loading(u)') =
              Cardinality(Loading(u)) - (IF h \in Loading(u) THEN 1 ELSE 0) + 0
    BY <1>1, <1>4, <1>5, CallOwes
  <2>2. h \notin Owing(u) /\ h \notin Loading(u) /\ Cardinality(Loading(u)) \in Nat
    BY <1>8, <1>9
  <2>3. Owing(u)' = Owing(u)
    BY <2>1, <2>2
  <2> QED
    BY <2>1, <2>2, <2>3
<1>12. RatingsTypeOK'
  BY <1>1, <1>4, <1>6 DEF RatingsTypeOK, RatingCall
<1>13. CallsHoldReviews'
  BY <1>1, <1>2, <1>5, <1>6 DEF CallsHoldReviews, Awaits
<1>14. NoReviewIsInvented'
  <2> SUFFICES ASSUME NEW u \in Targets
               PROVE  LET room == Cardinality(Reviewed(u)') - Cardinality(Loading(u)') IN
                      /\ score[u].count <= room /\ AnAverage(score[u])
                      /\ \A g \in Owing(u)' : rCall'[g].at = "save" =>
                            rCall'[g].count < room /\ AnAverage(rCall'[g])
    BY <1>4 DEF NoReviewIsInvented, Awaits, AnAverage
  <2> DEFINE room == Cardinality(Reviewed(u)) - Cardinality(Loading(u))
             now == Cardinality(Reviewed(u)') - Cardinality(Loading(u)')
  <2>1. /\ score[u].count <= room /\ AnAverage(score[u]) /\ score[u].count \in Nat
        /\ \A g \in Owing(u) : rCall[g].at = "save" =>
             rCall[g].count < room /\ AnAverage(rCall[g]) /\ rCall[g].count \in Nat
    <3>1. \A g \in Owing(u) : rCall[g].count \in Nat
      BY <1>1 DEF Owing, RatingsTypeOK
    <3> QED
      BY <1>1, <3>1 DEF NoReviewIsInvented, Awaits, RatingsTypeOK
  <2>2. now = room + (IF u = t THEN 1 ELSE 0) /\ room \in Int
    BY <1>7, <1>8, <1>10, <1>11
  <2>3. \A g \in Owing(u)' : g \in Owing(u) /\ (g # h => rCall'[g] = rCall[g])
    BY <1>6, <1>10, <1>11 DEF Owing
  <2>4. h \in Owing(u)' => u = t /\ rCall'[h].count = n /\ rCall'[h].avg = a
    <3>1. h \in Owing(u)' => h \in Owing(u)
      BY <2>3
    <3> QED
      BY <1>5, <1>6, <1>9, <3>1
  <2>5. score[u].count <= now /\ AnAverage(score[u])
    BY <2>1, <2>2
  <2>6. ASSUME NEW g \in Owing(u)', rCall'[g].at = "save"
        PROVE  rCall'[g].count < now /\ AnAverage(rCall'[g])
    <3>1. CASE g = h
      BY <1>3, <2>1, <2>2, <2>4, <2>6, <3>1 DEF AnAverage
    <3>2. CASE g # h
      BY <2>1, <2>2, <2>3, <2>6, <3>2
    <3> QED
      BY <3>1, <3>2
  <2> QED
    BY <2>5, <2>6, SMTT(30)
<1>15. CalmCountsAll'
  <2> SUFFICES ASSUME calm
               PROVE  CalmCountsAll'
    BY <1>4 DEF CalmCountsAll
  <2>1. /\ \A g \in ReviewCalls \ {h} : rCall[g].at = "idle"
        /\ Owing(t) = {h} /\ \A u \in Targets \ {t} : Owing(u) = {}
        /\ score[t].count + 1 = Cardinality(Reviewed(t))
        /\ Close(score[t].count, score[t].avg, StarsGiven(t) - c.stars)
        /\ \A u \in Targets \ {t} : /\ score[u].count = Cardinality(Reviewed(u))
                                   /\ Close(score[u].count, score[u].avg, StarsGiven(u))
    BY <1>2, CalmAlone
  <2>2. \A g \in ReviewCalls : rCall'[g].at # "idle" => g = h
    BY <1>6, <2>1
  <2>3. \A u \in Targets \ {t} :
          /\ Owing(u)' = {}
          /\ score'[u].count = Cardinality(Reviewed(u)')
          /\ Close(score'[u].count, score'[u].avg, StarsGiven(u)')
    BY <1>4, <1>7, <1>11, <2>1
  <2>4. /\ Owing(t)' = {h} /\ rCall'[h].stars = c.stars
        /\ rCall'[h].count = score'[t].count /\ rCall'[h].avg = score'[t].avg
        /\ score'[t].count + 1 = Cardinality(Reviewed(t)')
        /\ Close(score'[t].count, score'[t].avg, StarsGiven(t)' - c.stars)
    BY <1>3, <1>4, <1>5, <1>6, <1>7, <1>10, <2>1
  <2> QED
    BY <1>4, <2>2, <2>3, <2>4 DEF CalmCountsAll, Awaits
<1> QED
  BY <1>12, <1>13, <1>14, <1>15 DEF RatingsInv

\* The profile gets the stars of a call, beside what the call has read of it.
LEMMA SaveKeepsInv ==
  ASSUME RatingsInv, NEW h \in ReviewCalls, RatingSave(h)
  PROVE  RatingsInv'
<1>1. RatingsTypeOK /\ CallsHoldReviews /\ NoReviewIsInvented /\ CalmCountsAll
  BY DEF RatingsInv
<1>2. PICK c \in RatingCall, t \in Targets :
        c = rCall[h] /\ c.at = "save" /\ t = c.target /\ c.stars \in 1..5
  BY <1>1, RatingsTyping DEF RatingSave, CallsHoldReviews, Awaits
<1>3. PICK k \in Nat, a \in Nat, s \in 1..5 : k = c.count /\ a = c.avg /\ s = c.stars
  BY <1>2 DEF RatingCall
<1>4. PICK n \in Nat : n = k + 1
  OBVIOUS
<1>5. PICK r \in Nat : r = Rounded(a * k + 100 * s, n)
  <2>1. a * k + 100 * s \in Nat /\ n \in Nat \ {0}
    BY <1>4
  <2> QED
    BY <2>1, RoundedBounds
<1>6. /\ rCall' = [rCall EXCEPT ![h] = Resting] /\ calm \in BOOLEAN
      /\ score' = [score EXCEPT ![t] = [count |-> n, avg |-> r]]
      /\ completed' = completed /\ review' = review /\ calm' = calm
  BY <1>1, <1>2, <1>3, <1>4, <1>5 DEF RatingSave, Leaves, RatingsTypeOK
<1>7. /\ score' \in [Targets -> [count: Nat, avg: Nat]]
      /\ score'[t].count = n /\ score'[t].avg = r
      /\ \A u \in Targets \ {t} : score'[u] = score[u]
  BY <1>1, <1>6 DEF RatingsTypeOK
<1>8. /\ rCall' \in [ReviewCalls -> RatingCall] /\ rCall'[h] = Resting /\ Resting.at = "idle"
      /\ \A g \in ReviewCalls \ {h} : rCall'[g] = rCall[g]
  BY <1>1, <1>6, RestingTyped, CallMoves DEF Resting
<1>9. \A u \in Targets : /\ Cardinality(Reviewed(u)') = Cardinality(Reviewed(u))
                        /\ StarsGiven(u)' = StarsGiven(u)
                        /\ StarsGiven(u) \in Nat
  BY <1>6, ReviewsKept, ReviewsCounted
<1>10. \A u \in Targets : /\ Cardinality(Loading(u)) \in Nat /\ Cardinality(Reviewed(u)) \in Nat
  BY ReviewsCounted
<1>11. \A u \in Targets : (h \in Owing(u) <=> u = t) /\ h \notin Loading(u)
  BY <1>2 DEF Owing, Loading, Awaits
<1>12. ASSUME NEW u \in Targets
      PROVE  Owing(u)' = Owing(u) \ {h} /\ Cardinality(Loading(u)') = Cardinality(Loading(u))
  <2>1. /\ Owing(u)' = (Owing(u) \ {h}) \union {}
        /\ Cardinality(Loading(u)') =
              Cardinality(Loading(u)) - (IF h \in Loading(u) THEN 1 ELSE 0) + 0
    BY <1>1, <1>6, <1>8, RestingTyped, CallOwes
  <2>2. h \notin Loading(u) /\ Cardinality(Loading(u)) \in Nat
    BY <1>10, <1>11
  <2>3. Owing(u)' = Owing(u) \ {h}
    BY <2>1
  <2> QED
    BY <2>1, <2>2, <2>3
<1>13. RatingsTypeOK'
  BY <1>1, <1>6, <1>7, <1>8 DEF RatingsTypeOK, RatingCall
<1>14. CallsHoldReviews'
  BY <1>1, <1>8 DEF CallsHoldReviews, Awaits
<1>15. NoReviewIsInvented'
  <2> SUFFICES ASSUME NEW u \in Targets
               PROVE  LET room == Cardinality(Reviewed(u)) - Cardinality(Loading(u)) IN
                      /\ score'[u].count <= room /\ AnAverage(score'[u])
                      /\ \A g \in Owing(u)' : rCall'[g].at = "save" =>
                            rCall'[g].count < room /\ AnAverage(rCall'[g])
    BY <1>9, <1>12 DEF NoReviewIsInvented, Awaits, AnAverage
  <2> DEFINE room == Cardinality(Reviewed(u)) - Cardinality(Loading(u))
  <2>1. /\ score[u].count <= room /\ AnAverage(score[u])
        /\ \A g \in Owing(u) : rCall[g].at = "save" =>
             rCall[g].count < room /\ AnAverage(rCall[g])
    BY <1>1 DEF NoReviewIsInvented, Awaits
  <2>2. room \in Int
    BY <1>10
  <2>3. \A g \in Owing(u)' : g \in Owing(u) /\ rCall'[g] = rCall[g]
    BY <1>8, <1>12 DEF Owing
  <2>4. score'[u].count <= room /\ AnAverage(score'[u])
    <3>1. CASE u = t
      <4>1. k < room /\ (k > 0 => a \in 100..500)
        BY <1>2, <1>3, <1>11, <2>1, <3>1, SMTT(30) DEF AnAverage
      <4>2. r \in 100..500
        BY <1>4, <1>5, <4>1, AverageStays
      <4> QED
        BY <1>4, <1>7, <2>2, <3>1, <4>1, <4>2, SMTT(30) DEF AnAverage
    <3>2. CASE u # t
      BY <1>7, <2>1, <3>2 DEF AnAverage
    <3> QED
      BY <3>1, <3>2
  <2> QED
    BY <2>1, <2>3, <2>4
<1>16. CalmCountsAll'
  <2> SUFFICES ASSUME calm
               PROVE  CalmCountsAll'
    BY <1>6 DEF CalmCountsAll
  <2>1. /\ \A g \in ReviewCalls \ {h} : rCall[g].at = "idle"
        /\ Owing(t) = {h} /\ \A u \in Targets \ {t} : Owing(u) = {}
        /\ score[t].count + 1 = Cardinality(Reviewed(t))
        /\ Close(score[t].count, score[t].avg, StarsGiven(t) - c.stars)
        /\ c.count = score[t].count /\ c.avg = score[t].avg
        /\ \A u \in Targets \ {t} : /\ score[u].count = Cardinality(Reviewed(u))
                                   /\ Close(score[u].count, score[u].avg, StarsGiven(u))
    BY <1>2, CalmAlone
  <2>2. \A g \in ReviewCalls : rCall'[g].at = "idle"
    BY <1>8, <2>1
  <2>3. \A u \in Targets : Owing(u)' = {}
    BY <1>11, <1>12, <2>1
  <2>4. \A u \in Targets \ {t} :
          /\ score'[u].count = Cardinality(Reviewed(u)')
          /\ Close(score'[u].count, score'[u].avg, StarsGiven(u)')
    BY <1>7, <1>9, <2>1
  <2>5. /\ score'[t].count = Cardinality(Reviewed(t)')
        /\ Close(score'[t].count, score'[t].avg, StarsGiven(t)')
    <3>1. PICK sum \in Int : sum = StarsGiven(t) - s
      BY <1>9
    <3>2. Close(k, a, sum) /\ k + 1 = Cardinality(Reviewed(t))
      BY <1>3, <2>1, <3>1
    <3>3. Close(n, r, sum + s)
      BY <1>4, <1>5, <3>2, CloseStep
    <3>4. sum + s = StarsGiven(t)
      BY <1>9, <3>1
    <3> QED
      BY <1>4, <1>7, <1>9, <3>2, <3>3, <3>4
  <2> QED
    BY <2>2, <2>3, <2>4, <2>5 DEF CalmCountsAll, Awaits
<1> QED
  BY <1>13, <1>14, <1>15, <1>16 DEF RatingsInv

LEMMA FailKeepsInv ==
  ASSUME RatingsInv, NEW h \in ReviewCalls, ReviewFail(h)
  PROVE  RatingsInv'
<1>1. RatingsTypeOK /\ CallsHoldReviews /\ NoReviewIsInvented /\ CalmCountsAll
  BY DEF RatingsInv
<1>2. /\ rCall' = [rCall EXCEPT ![h] = Resting] /\ Resting.at = "idle"
      /\ completed' = completed /\ review' = review /\ score' = score
  BY DEF ReviewFail, Leaves, Resting
<1>3. calm' \in BOOLEAN /\ (calm' => calm)
  BY DEF ReviewFail
<1>4. CASE ~Awaits(h, "load") /\ ~Awaits(h, "save")
  BY <1>2, <1>3, <1>4, RestingTyped, OwingNothing
<1>5. CASE Awaits(h, "load") \/ Awaits(h, "save")
  <2>1. ~calm'
    BY <1>5 DEF ReviewFail
  <2>2. /\ rCall' \in [ReviewCalls -> RatingCall] /\ rCall'[h] = Resting
        /\ \A g \in ReviewCalls \ {h} : rCall'[g] = rCall[g]
    BY <1>1, <1>2, RestingTyped, CallMoves
  <2>3. RatingsTypeOK'
    BY <1>1, <1>2, <1>3, <2>2 DEF RatingsTypeOK, RatingCall
  <2>4. CallsHoldReviews'
    BY <1>1, <1>2, <2>2 DEF CallsHoldReviews, Awaits
  <2>5. NoReviewIsInvented'
    <3> SUFFICES ASSUME NEW u \in Targets
                 PROVE  LET room == Cardinality(Reviewed(u)) - Cardinality(Loading(u)') IN
                        /\ score[u].count <= room /\ AnAverage(score[u])
                        /\ \A g \in Owing(u)' : rCall'[g].at = "save" =>
                              rCall'[g].count < room /\ AnAverage(rCall'[g])
      BY <1>2, ReviewsKept, SMTT(30) DEF NoReviewIsInvented, Awaits, AnAverage
    <3> DEFINE room == Cardinality(Reviewed(u)) - Cardinality(Loading(u))
               now == Cardinality(Reviewed(u)) - Cardinality(Loading(u)')
    <3>1. /\ score[u].count <= room /\ AnAverage(score[u]) /\ score[u].count \in Nat
          /\ \A g \in Owing(u) : rCall[g].at = "save" =>
               rCall[g].count < room /\ AnAverage(rCall[g])
      BY <1>1 DEF NoReviewIsInvented, Awaits, RatingsTypeOK
    <3>2. \A g \in Owing(u) : rCall[g].count \in Nat
      BY <1>1 DEF Owing, RatingsTypeOK
    <3>3. /\ Owing(u)' = (Owing(u) \ {h}) \union {}
          /\ Cardinality(Loading(u)') =
                Cardinality(Loading(u)) - (IF h \in Loading(u) THEN 1 ELSE 0) + 0
      BY <1>1, <1>2, RestingTyped, CallOwes
    <3>4. room \in Int /\ now \in Int /\ room <= now
      BY <3>3, ReviewsCounted
    <3>5. \A g \in Owing(u)' : g \in Owing(u) /\ rCall'[g] = rCall[g]
      BY <2>2, <3>3 DEF Owing
    <3> HIDE DEF room, now
    <3>6. score[u].count <= now
      BY <3>1, <3>4
    <3>7. \A g \in Owing(u)' : rCall'[g].at = "save" => rCall'[g].count < now /\ AnAverage(rCall'[g])
      BY <3>1, <3>2, <3>4, <3>5
    <3> QED
      BY <3>1, <3>6, <3>7 DEF now
  <2>6. CalmCountsAll'
    BY <2>1 DEF CalmCountsAll
  <2> QED
    BY <2>3, <2>4, <2>5, <2>6 DEF RatingsInv
<1> QED
  BY <1>4, <1>5

LEMMA CompleteKeepsInv ==
  ASSUME RatingsInv, NEW b \in ReviewedBookings, CompleteBooking(b)
  PROVE  RatingsInv'
<1>1. /\ review' = review /\ score' = score /\ rCall' = rCall /\ calm' = calm
      /\ completed' = completed \union {b}
  BY DEF CompleteBooking
<1>2. \A t : Owing(t)' = Owing(t) /\ Loading(t)' = Loading(t)
  BY <1>1 DEF Owing, Loading, Awaits
<1>3. \A t : Reviewed(t)' = Reviewed(t) /\ StarsGiven(t)' = StarsGiven(t)
  BY <1>1, ReviewsKept
<1>4. RatingsTypeOK'
  BY <1>1 DEF RatingsInv, RatingsTypeOK
<1> QED
  BY <1>1, <1>2, <1>3, <1>4
  DEF RatingsInv, CallsHoldReviews, NoReviewIsInvented, CalmCountsAll, Awaits

LEMMA RatingsInvStep == RatingsInv /\ [RatingsNext]_ratingVars => RatingsInv'
<1> SUFFICES ASSUME RatingsInv, [RatingsNext]_ratingVars PROVE RatingsInv'
  OBVIOUS
<1>1. ASSUME NEW h \in ReviewCalls, CreateReview(h)
      PROVE  RatingsInv'
  BY <1>1, ReadKeepsInv, InsertKeepsInv, LoadKeepsInv, SaveKeepsInv DEF CreateReview
<1>2. ASSUME NEW h \in ReviewCalls, ReviewFail(h)
      PROVE  RatingsInv'
  BY <1>2, FailKeepsInv
<1>3. ASSUME NEW b \in ReviewedBookings, CompleteBooking(b)
      PROVE  RatingsInv'
  BY <1>3, CompleteKeepsInv
<1>4. CASE UNCHANGED ratingVars
  <2>1. /\ review' = review /\ score' = score /\ rCall' = rCall /\ calm' = calm
        /\ completed' = completed
    BY <1>4 DEF ratingVars
  <2>2. \A t : Owing(t)' = Owing(t) /\ Loading(t)' = Loading(t)
    BY <2>1 DEF Owing, Loading, Awaits
  <2>3. \A t : Reviewed(t)' = Reviewed(t) /\ StarsGiven(t)' = StarsGiven(t)
    BY <2>1, ReviewsKept
  <2> QED
    BY <2>1, <2>2, <2>3
    DEF RatingsInv, RatingsTypeOK, CallsHoldReviews, NoReviewIsInvented, CalmCountsAll, Awaits
<1> QED
  BY <1>1, <1>2, <1>3, <1>4 DEF RatingsNext

\* In calm a profile counts every review, and its average is that of all their stars but
\* for the roundings; whatever calls overlap or fail, it never counts a review that there
\* is not and its average is an average of ratings (createForClient(), applyRating()).
THEOREM ProfilesAgreeWithReviews == RatingsSpec => []ScoreAgreesWithReviews
<1>1. RatingsInv => ScoreAgreesWithReviews
  <2> SUFFICES ASSUME RatingsInv, NEW t \in Targets
               PROVE  LET n == Cardinality(Reviewed(t))
                          drift == n * score[t].avg - 100 * StarsGiven(t)
                      IN /\ calm /\ (\A h \in ReviewCalls : Awaits(h, "idle")) =>
                              /\ score[t].count = n
                              /\ 4 * drift <= n * (n + 1) /\ 4 * drift >= -(n * (n + 1))
                         /\ score[t].count <= n
                         /\ score[t].count > 0 => score[t].avg \in 100..500
    BY DEF ScoreAgreesWithReviews
  <2>1. ASSUME calm, \A h \in ReviewCalls : Awaits(h, "idle")
        PROVE  /\ score[t].count = Cardinality(Reviewed(t))
               /\ Close(score[t].count, score[t].avg, StarsGiven(t))
    <3>1. Owing(t) = {}
      BY <2>1 DEF Owing, Awaits
    <3> QED
      BY <2>1, <3>1 DEF RatingsInv, CalmCountsAll
  <2>2. score[t].count <= Cardinality(Reviewed(t)) /\ AnAverage(score[t])
    BY ReviewsCounted DEF RatingsInv, RatingsTypeOK, NoReviewIsInvented
  <2> QED
    BY <2>1, <2>2 DEF Close, AnAverage
<1> QED
  BY RatingsInvInit, RatingsInvStep, <1>1, PTL DEF RatingsSpec

-----------------------------------------------------------------------------
(* The visitors behind a search. *)

LEMMA SearchTyping ==
  SearchTypeOK <=>
    /\ instant \in 0..LastInstant
    /\ dedupe \in [Searches -> Nat]
    /\ aggregate \in [Buckets \X Queries -> Nat]
    /\ searchMode \in {"redis", "memory"}
    /\ aCall \in [SearchCalls -> Searching]
    /\ tracked \subseteq Searches
    /\ exact \in BOOLEAN
BY DEF SearchTypeOK, Searching

LEMMA WaitingTyped == Waiting \in Searching
BY SearchAssumption DEF Waiting, Searching

\* Time lies in its bucket, and buckets follow one another.
LEMMA BucketBounds ==
  ASSUME NEW t \in Nat
  PROVE  /\ Bucket(t) \in Nat
         /\ Bucket(t) * BucketSize <= t
         /\ t < (Bucket(t) + 1) * BucketSize
         /\ \A u \in Nat : u <= t => Bucket(u) <= Bucket(t)
<1>1. BucketSize \in Nat \ {0}
  BY SearchAssumption
<1>2. ASSUME NEW u \in Nat
      PROVE  /\ Bucket(u) \in Nat
             /\ Bucket(u) * BucketSize <= u
             /\ u < (Bucket(u) + 1) * BucketSize
  <2>1. /\ Bucket(u) \in Nat /\ BucketSize * Bucket(u) <= u
        /\ u < BucketSize * Bucket(u) + BucketSize
    BY <1>1, QuotientBounds DEF Bucket
  <2> QED
    BY <1>1, <2>1
<1>3. ASSUME NEW u \in Nat, u <= t, ~(Bucket(u) <= Bucket(t))
      PROVE  FALSE
  <2>1. /\ Bucket(u) \in Nat /\ Bucket(t) \in Nat
        /\ Bucket(u) * BucketSize <= u /\ t < (Bucket(t) + 1) * BucketSize
    BY <1>2
  <2>2. Bucket(u) - (Bucket(t) + 1) \in Nat
    BY <1>3, <2>1
  <2>3. (Bucket(u) - (Bucket(t) + 1)) * BucketSize \in Nat
    BY <1>1, <2>2
  <2>4. (Bucket(u) - (Bucket(t) + 1)) * BucketSize
          = Bucket(u) * BucketSize - (Bucket(t) + 1) * BucketSize
    BY <1>1, <2>1
  <2>5. Bucket(u) * BucketSize \in Nat /\ (Bucket(t) + 1) * BucketSize \in Nat
    BY <1>1, <2>1
  <2> QED
    BY <1>3, <2>1, <2>3, <2>4, <2>5
<1> QED
  BY <1>2, <1>3

LEMMA NoLongerTyped ==
  ASSUME NEW k \in Searches
  PROVE  k[1] \in Nat /\ NoLonger(k) \in Nat /\ NoLonger(k) > 0
<1>1. Bucket(LastInstant) \in Nat
  BY SearchAssumption, BucketBounds
<1>2. k[1] \in Nat
  BY <1>1 DEF Searches, Buckets
<1>3. (k[1] + 1) * BucketSize = k[1] * BucketSize + BucketSize /\ k[1] * BucketSize \in Nat
  BY <1>2, SearchAssumption
<1> QED
  BY <1>2, <1>3, SearchAssumption DEF NoLonger

\* A call under way is about a search of a bucket, which has a document.
LEMMA SearchTyped ==
  ASSUME SearchTypeOK, SearchesUnderWay, NEW h \in SearchCalls, ~Is(h, "idle")
  PROVE  /\ SearchOf(h) \in Searches /\ DocumentOf(h) \in Buckets \X Queries
         /\ SearchOf(h)[1] = Bucket(aCall[h].since) /\ aCall[h].since \in Nat
<1>1. aCall[h].since \in 0..LastInstant /\ aCall[h].visitor \in Visitors /\ aCall[h].query \in Queries
  BY SearchTyping DEF Searching, SearchesUnderWay
<1>2. Bucket(aCall[h].since) \in Buckets
  <2>1. PICK t \in Nat, s \in Nat : t = LastInstant /\ s = aCall[h].since /\ s <= t
    BY <1>1, SearchAssumption
  <2>2. Bucket(s) \in Nat /\ Bucket(t) \in Nat /\ Bucket(s) <= Bucket(t)
    BY <2>1, BucketBounds
  <2> QED
    BY <2>1, <2>2 DEF Buckets
<1> QED
  BY <1>1, <1>2 DEF SearchOf, DocumentOf, Searches

LEMMA VisitorsCounted ==
  ASSUME NEW b, NEW q
  PROVE  /\ IsFiniteSet(TrackedBy(b, q)) /\ Cardinality(TrackedBy(b, q)) \in Nat
         /\ IsFiniteSet(Pending(b, q)) /\ Cardinality(Pending(b, q)) \in Nat
<1>1. TrackedBy(b, q) \subseteq Visitors /\ Pending(b, q) \subseteq SearchCalls
  BY DEF TrackedBy, Pending
<1> QED
  BY <1>1, SearchAssumption, FS_Subset, FS_CardinalityType

\* A search whose key is not there when a call asks for it was not asked for before:
\* the key of an earlier search would have outlived the bucket.
LEMMA AbsentIsNew ==
  ASSUME SearchInv, exact, NEW h \in SearchCalls, Is(h, "dedupe"), ~Present(SearchOf(h)),
         \A g \in SearchCalls : Is(g, "set") => SearchOf(g) # SearchOf(h)
  PROVE  SearchOf(h) \notin tracked
<1>1. SearchTypeOK /\ SearchesUnderWay /\ KeysOutliveBuckets
  BY DEF SearchInv
<1>2. PICK s \in Nat : s = aCall[h].since /\ instant <= s + SlackTime
  BY <1>1, SearchTyped DEF SearchesUnderWay, Is
<1>3. PICK k \in Searches : k = SearchOf(h) /\ k[1] = Bucket(s)
  BY <1>1, <1>2, SearchTyped DEF Is
<1>4. /\ instant \in Nat /\ SlackTime \in Nat /\ Bucket(s) \in Nat
      /\ s < (Bucket(s) + 1) * BucketSize /\ (Bucket(s) + 1) * BucketSize \in Nat
  <2>1. Bucket(s) \in Nat /\ s < (Bucket(s) + 1) * BucketSize
    BY BucketBounds
  <2> QED
    BY <1>1, <2>1, SearchAssumption, SearchTyping
<1>5. instant < NoLonger(k)
  BY <1>2, <1>3, <1>4 DEF NoLonger
<1>6. dedupe[k] = 0 /\ NoLonger(k) \in Nat /\ NoLonger(k) > 0
  BY <1>3, NoLongerTyped DEF Present
<1>7. ~(dedupe[k] >= NoLonger(k)) /\ ~(instant >= NoLonger(k))
  BY <1>4, <1>5, <1>6
<1> QED
  BY <1>1, <1>3, <1>7 DEF KeysOutliveBuckets

LEMMA SearchInvInit == SearchInit => SearchInv
<1> SUFFICES ASSUME SearchInit PROVE SearchInv
  OBVIOUS
<1>1. SearchTypeOK
  BY WaitingTyped, SearchAssumption, SearchTyping DEF SearchInit
<1>2. \A h \in SearchCalls : Is(h, "idle") /\ aCall[h].at = "idle"
  BY DEF SearchInit, Waiting, Is
<1>3. SearchesUnderWay
  BY <1>2 DEF SearchesUnderWay
<1>4. KeysOutliveBuckets
  BY DEF SearchInit, KeysOutliveBuckets, Present
<1>5. ASSUME NEW b \in Buckets, NEW q \in Queries
      PROVE  aggregate[<<b, q>>] + Cardinality(Pending(b, q)) = Cardinality(TrackedBy(b, q))
  <2>1. Pending(b, q) = {} /\ TrackedBy(b, q) = {}
    BY <1>2 DEF Pending, TrackedBy, Is, SearchInit
  <2>2. aggregate[<<b, q>>] = 0
    BY DEF SearchInit
  <2> QED
    BY <2>1, <2>2, FS_EmptySet
<1> QED
  BY <1>1, <1>3, <1>4, <1>5 DEF SearchInv, VisitorsCountOnce

-----------------------------------------------------------------------------
(* A step of one call. *)

LEMMA SearchMoves ==
  ASSUME SearchTypeOK, NEW h \in SearchCalls, NEW d \in Searching,
         aCall' = [aCall EXCEPT ![h] = d]
  PROVE  /\ aCall' \in [SearchCalls -> Searching] /\ aCall'[h] = d
         /\ \A g \in SearchCalls \ {h} : aCall'[g] = aCall[g]
BY SearchTyping

LEMMA UnderWayKept ==
  ASSUME SearchTypeOK, SearchesUnderWay, NEW h \in SearchCalls, NEW d \in Searching,
         aCall' = [aCall EXCEPT ![h] = d], instant' = instant, searchMode' = searchMode,
         tracked \subseteq tracked',
         d.at # "idle" =>
           /\ d.visitor \in Visitors /\ d.query \in Queries /\ d.since <= instant
           /\ d.at \in {"dedupe", "set"} => instant <= d.since + SlackTime
           /\ d.at = "set" => /\ searchMode = "memory"
                             /\ <<Bucket(d.since), d.visitor, d.query>> \in tracked'
  PROVE  SearchesUnderWay'
<1>1. /\ aCall'[h] = d
      /\ \A g \in SearchCalls \ {h} : aCall'[g] = aCall[g]
  BY SearchMoves
<1> QED
  BY <1>1 DEF SearchesUnderWay, Is, SearchOf, Bucket

\* A step that sets no key, tracks no search and leaves no key to be set.
LEMMA KeysKept ==
  ASSUME SearchTypeOK, KeysOutliveBuckets, NEW h \in SearchCalls, NEW d \in Searching,
         aCall' = [aCall EXCEPT ![h] = d], instant' = instant, dedupe' = dedupe,
         tracked' = tracked, exact' => exact /\ ~Is(h, "set")
  PROVE  KeysOutliveBuckets'
<1>1. \A g \in SearchCalls \ {h} : aCall'[g] = aCall[g]
  BY SearchMoves
<1>2. \A k : Present(k)' <=> Present(k)
  BY DEF Present
<1>3. ASSUME exact', NEW k \in tracked, NEW g \in SearchCalls, Is(g, "set"), SearchOf(g) = k
      PROVE  \E f \in SearchCalls : Is(f, "set")' /\ SearchOf(f)' = k
  <2>1. g \in SearchCalls \ {h}
    BY <1>3
  <2> QED
    BY <1>1, <1>3, <2>1 DEF Is, SearchOf
<1>4. \A k : NoLonger(k)' = NoLonger(k)
  BY DEF NoLonger
<1> QED
  BY <1>2, <1>3, <1>4 DEF KeysOutliveBuckets

\* A key that is set now is there for as long as its bucket and the slack after it.
LEMMA KeyIsSet ==
  ASSUME SearchTypeOK, SearchesUnderWay, KeysOutliveBuckets, NEW h \in SearchCalls,
         ~Is(h, "idle"), NEW d \in Searching, aCall' = [aCall EXCEPT ![h] = d],
         instant' = instant, SetKey(SearchOf(h)), tracked' = tracked \union {SearchOf(h)},
         exact' => exact
  PROVE  KeysOutliveBuckets' /\ dedupe' \in [Searches -> Nat]
<1>1. PICK k \in Searches, s \in Nat : k = SearchOf(h) /\ k[1] = Bucket(s) /\ s <= instant
  BY SearchTyped DEF SearchesUnderWay
<1>2. PICK n \in Nat : n = instant + DedupeTtl /\ n >= NoLonger(k)
  <2>1. Bucket(s) \in Nat /\ Bucket(s) * BucketSize <= s /\ Bucket(s) * BucketSize \in Nat
    BY BucketBounds, SearchAssumption
  <2>2. NoLonger(k) = Bucket(s) * BucketSize + BucketSize + SlackTime
    BY <1>1, <2>1, SearchAssumption DEF NoLonger
  <2>3. instant \in Nat
    BY SearchTyping, SearchAssumption
  <2> QED
    BY <1>1, <2>1, <2>2, <2>3, SearchAssumption DEF DedupeTtl
<1>3. /\ dedupe' \in [Searches -> Nat] /\ dedupe'[k] = n
      /\ \A j \in Searches \ {k} : dedupe'[j] = dedupe[j]
  BY <1>1, <1>2, SearchTyping DEF SetKey
<1>4. \A g \in SearchCalls \ {h} : aCall'[g] = aCall[g]
  BY SearchMoves
<1>5. \A j \in Searches : Present(j)' => j \in tracked'
  BY <1>1, <1>3 DEF KeysOutliveBuckets, Present
<1>6. ASSUME exact', NEW j \in tracked', j # k
      PROVE  \/ \E g \in SearchCalls : Is(g, "set")' /\ SearchOf(g)' = j
             \/ dedupe'[j] >= NoLonger(j)
             \/ instant >= NoLonger(j)
  <2>1. j \in tracked /\ j \in Searches /\ dedupe'[j] = dedupe[j]
    BY <1>1, <1>3, <1>6, SearchTyping
  <2>2. CASE \E g \in SearchCalls : Is(g, "set") /\ SearchOf(g) = j
    <3>1. PICK g \in SearchCalls : Is(g, "set") /\ SearchOf(g) = j
      BY <2>2
    <3>2. g \in SearchCalls \ {h}
      BY <1>1, <1>6, <3>1
    <3> QED
      BY <1>4, <3>1, <3>2 DEF Is, SearchOf
  <2> QED
    BY <1>6, <2>1, <2>2 DEF KeysOutliveBuckets
<1>7. \A j : NoLonger(j)' = NoLonger(j)
  BY DEF NoLonger
<1> QED
  BY <1>2, <1>3, <1>5, <1>6, <1>7 DEF KeysOutliveBuckets

-----------------------------------------------------------------------------
(* What is counted, and what is about to be. *)

\* A call that has yet to count after a step if it had before it.
LEMMA CountKept ==
  ASSUME SearchInv, exact, NEW h \in SearchCalls, NEW d \in Searching,
         aCall' = [aCall EXCEPT ![h] = d], aggregate' = aggregate, tracked' = tracked,
         d.at \in {"set", "count", "again"} <=> aCall[h].at \in {"set", "count", "again"},
         d.at \in {"set", "count", "again"} => d.since = aCall[h].since /\ d.query = aCall[h].query
  PROVE  VisitorsCountOnce'
<1>1. SearchTypeOK /\ VisitorsCountOnce
  BY DEF SearchInv
<1>4. /\ aCall'[h] = d
      /\ \A g \in SearchCalls \ {h} : aCall'[g] = aCall[g]
  BY <1>1, SearchMoves
<1>2. ASSUME NEW b, NEW q
      PROVE  Pending(b, q)' = Pending(b, q)
  BY <1>4 DEF Pending, Is, DocumentOf, Bucket
<1>3. \A b, q : TrackedBy(b, q)' = TrackedBy(b, q)
  BY DEF TrackedBy
<1> QED
  BY <1>1, <1>2, <1>3 DEF VisitorsCountOnce

\* A new search is one more to count.
LEMMA CountStarts ==
  ASSUME SearchInv, exact, NEW h \in SearchCalls, Is(h, "dedupe"), NEW d \in Searching,
         aCall' = [aCall EXCEPT ![h] = d], aggregate' = aggregate,
         SearchOf(h) \notin tracked, tracked' = tracked \union {SearchOf(h)},
         d.at \in {"set", "count"}, d.since = aCall[h].since, d.query = aCall[h].query
  PROVE  VisitorsCountOnce'
<1>1. SearchTypeOK /\ VisitorsCountOnce /\ SearchesUnderWay
  BY DEF SearchInv
<1>2. aCall[h].visitor \in Visitors /\ aCall[h].at = "dedupe"
  BY <1>1 DEF SearchesUnderWay, Is
<1>4. /\ aCall'[h] = d
      /\ \A g \in SearchCalls \ {h} : aCall'[g] = aCall[g]
  BY <1>1, SearchMoves
<1>3. ASSUME NEW b \in Buckets, NEW q \in Queries
      PROVE  aggregate'[<<b, q>>] + Cardinality(Pending(b, q)') = Cardinality(TrackedBy(b, q)')
  <2>1. /\ aggregate[<<b, q>>] + Cardinality(Pending(b, q)) = Cardinality(TrackedBy(b, q))
        /\ aggregate[<<b, q>>] \in Nat
        /\ IsFiniteSet(TrackedBy(b, q)) /\ Cardinality(TrackedBy(b, q)) \in Nat
        /\ IsFiniteSet(Pending(b, q)) /\ Cardinality(Pending(b, q)) \in Nat
    BY <1>1, SearchTyping, VisitorsCounted DEF VisitorsCountOnce
  <2>2. CASE DocumentOf(h) = <<b, q>>
    <3>1. Pending(b, q)' = Pending(b, q) \union {h} /\ h \notin Pending(b, q)
      BY <1>2, <1>4, <2>2 DEF Pending, Is, DocumentOf, Bucket
    <3>2. SearchOf(h) = <<b, aCall[h].visitor, q>>
      BY <2>2 DEF DocumentOf, SearchOf
    <3>3. /\ TrackedBy(b, q)' = TrackedBy(b, q) \union {aCall[h].visitor}
          /\ aCall[h].visitor \notin TrackedBy(b, q)
      BY <1>2, <3>2 DEF TrackedBy
    <3>4. Cardinality(Pending(b, q)') = Cardinality(Pending(b, q)) + 1
      BY <2>1, <3>1, FS_AddElement
    <3>5. Cardinality(TrackedBy(b, q)') = Cardinality(TrackedBy(b, q)) + 1
      BY <2>1, <3>3, FS_AddElement
    <3> QED
      BY <2>1, <3>4, <3>5
  <2>3. CASE DocumentOf(h) # <<b, q>>
    <3>1. Pending(b, q)' = Pending(b, q)
      BY <1>2, <1>4, <2>3 DEF Pending, Is, DocumentOf, Bucket
    <3>2. \A v : <<b, v, q>> # SearchOf(h)
      BY <2>3 DEF DocumentOf, SearchOf
    <3>3. TrackedBy(b, q)' = TrackedBy(b, q)
      BY <3>2 DEF TrackedBy
    <3> QED
      BY <2>1, <3>1, <3>3
  <2> QED
    BY <2>2, <2>3
<1> QED
  BY <1>3 DEF VisitorsCountOnce

\* A search that is counted is one less to count.
LEMMA CountEnds ==
  ASSUME SearchInv, exact, NEW h \in SearchCalls, aCall[h].at \in {"count", "again"},
         Increment(h), Over(h), tracked' = tracked
  PROVE  VisitorsCountOnce'
<1>1. SearchTypeOK /\ VisitorsCountOnce /\ SearchesUnderWay
  BY DEF SearchInv
<1>2. PICK d \in Buckets \X Queries : d = DocumentOf(h)
  BY <1>1, SearchTyped DEF Is
<1>3. /\ aggregate'[d] = aggregate[d] + 1
      /\ \A e \in Buckets \X Queries : e # d => aggregate'[e] = aggregate[e]
  BY <1>1, <1>2, SearchTyping DEF Increment
<1>4. aCall' = [aCall EXCEPT ![h] = Waiting] /\ Waiting.at = "idle"
  BY DEF Over, Waiting
<1>6. /\ aCall'[h] = Waiting
      /\ \A g \in SearchCalls \ {h} : aCall'[g] = aCall[g]
  BY <1>1, <1>4, WaitingTyped, SearchMoves
<1>5. ASSUME NEW b \in Buckets, NEW q \in Queries
      PROVE  aggregate'[<<b, q>>] + Cardinality(Pending(b, q)') = Cardinality(TrackedBy(b, q)')
  <2>1. /\ aggregate[<<b, q>>] + Cardinality(Pending(b, q)) = Cardinality(TrackedBy(b, q))
        /\ aggregate[<<b, q>>] \in Nat
        /\ IsFiniteSet(Pending(b, q)) /\ Cardinality(Pending(b, q)) \in Nat
    BY <1>1, SearchTyping, VisitorsCounted DEF VisitorsCountOnce
  <2>2. TrackedBy(b, q)' = TrackedBy(b, q)
    BY DEF TrackedBy
  <2>3. /\ Pending(b, q)' = Pending(b, q) \ {h}
        /\ (h \in Pending(b, q)) <=> (DocumentOf(h) = <<b, q>>)
    BY <1>4, <1>6 DEF Pending, Is, DocumentOf, Bucket
  <2>4. CASE d = <<b, q>>
    <3>1. Cardinality(Pending(b, q)') = Cardinality(Pending(b, q)) - 1
      BY <1>2, <2>1, <2>3, <2>4, FS_RemoveElement
    <3> QED
      BY <1>3, <2>1, <2>2, <2>4, <3>1
  <2>5. CASE d # <<b, q>>
    <3>1. Pending(b, q)' = Pending(b, q)
      BY <1>2, <2>3, <2>5
    <3> QED
      BY <1>3, <2>1, <2>2, <2>5, <3>1
  <2> QED
    BY <2>4, <2>5
<1> QED
  BY <1>5 DEF VisitorsCountOnce

-----------------------------------------------------------------------------
(* The steps. *)

LEMMA OnwardTyped ==
  ASSUME SearchTypeOK, NEW h \in SearchCalls, NEW step \in {"set", "count", "again"},
         Onward(h, step)
  PROVE  \E d \in Searching :
           /\ aCall' = [aCall EXCEPT ![h] = d] /\ d.at = step
           /\ d.since = aCall[h].since /\ d.visitor = aCall[h].visitor /\ d.query = aCall[h].query
<1>1. PICK c \in Searching : c = aCall[h]
  BY SearchTyping
<1> DEFINE d == [c EXCEPT !.at = step]
<1>2. d \in Searching /\ d.at = step /\ d.since = c.since /\ d.visitor = c.visitor /\ d.query = c.query
  BY DEF Searching
<1>3. aCall' = [aCall EXCEPT ![h] = d]
  BY <1>1 DEF Onward
<1> QED
  BY <1>1, <1>2, <1>3

\* A call ends that has counted nothing and had nothing to count.
LEMMA OverKeepsInv ==
  ASSUME SearchInv, NEW h \in SearchCalls, Over(h), instant' = instant, dedupe' = dedupe,
         aggregate' = aggregate, searchMode' = searchMode, tracked' = tracked,
         exact' \in BOOLEAN, exact' => exact /\ aCall[h].at \notin {"set", "count", "again"}
  PROVE  SearchInv'
<1>1. SearchTypeOK /\ SearchesUnderWay /\ KeysOutliveBuckets
  BY DEF SearchInv
<1>2. aCall' = [aCall EXCEPT ![h] = Waiting] /\ Waiting.at = "idle"
  BY DEF Over, Waiting
<1>3. SearchTypeOK'
  BY <1>1, <1>2, WaitingTyped, SearchMoves DEF SearchTypeOK, Searching
<1>4. SearchesUnderWay'
  BY <1>1, <1>2, WaitingTyped, UnderWayKept
<1>5. KeysOutliveBuckets'
  BY <1>1, <1>2, WaitingTyped, KeysKept DEF Is
<1>6. exact' => VisitorsCountOnce'
  BY <1>2, WaitingTyped, CountKept
<1> QED
  BY <1>3, <1>4, <1>5, <1>6 DEF SearchInv, VisitorsCountOnce

LEMMA BeginKeepsInv ==
  ASSUME SearchInv, NEW h \in SearchCalls, NEW v \in Visitors, NEW q \in Queries,
         SearchBegin(h, v, q)
  PROVE  SearchInv'
<1>1. SearchTypeOK /\ SearchesUnderWay /\ KeysOutliveBuckets
  BY DEF SearchInv
<1>2. PICK d \in Searching :
        /\ d = [at |-> "dedupe", since |-> instant, visitor |-> v, query |-> q]
        /\ d.at = "dedupe" /\ d.since = instant /\ d.visitor = v /\ d.query = q
  <2>1. PICK t \in 0..LastInstant : t = instant
    BY <1>1, SearchTyping
  <2>2. [at |-> "dedupe", since |-> t, visitor |-> v, query |-> q] \in Searching
    BY DEF Searching
  <2> QED
    BY <2>1, <2>2
<1>3. /\ aCall[h].at = "idle" /\ aCall' = [aCall EXCEPT ![h] = d]
      /\ instant' = instant /\ dedupe' = dedupe /\ aggregate' = aggregate
      /\ searchMode' = searchMode /\ tracked' = tracked /\ exact' = exact
  BY <1>2 DEF SearchBegin, Is
<1>4. SearchTypeOK'
  BY <1>1, <1>3, SearchMoves DEF SearchTypeOK, Searching
<1>5. SearchesUnderWay'
  <2>1. instant <= instant + SlackTime /\ instant <= instant
    BY <1>1, SearchAssumption, SearchTyping
  <2> QED
    BY <1>1, <1>2, <1>3, <2>1, UnderWayKept
<1>6. KeysOutliveBuckets'
  BY <1>1, <1>3, KeysKept DEF Is
<1>7. exact' => VisitorsCountOnce'
  BY <1>2, <1>3, CountKept
<1> QED
  BY <1>4, <1>5, <1>6, <1>7 DEF SearchInv, VisitorsCountOnce

LEMMA DedupeServerKeepsInv ==
  ASSUME SearchInv, NEW h \in SearchCalls, DedupeServer(h)
  PROVE  SearchInv'
<1>1. SearchTypeOK /\ SearchesUnderWay /\ KeysOutliveBuckets
  BY DEF SearchInv
<1>2. PICK k \in Searches : k = SearchOf(h)
  BY <1>1, SearchTyped DEF DedupeServer, Is
<1>3. /\ Is(h, "dedupe") /\ aCall[h].at = "dedupe" /\ searchMode = "redis"
      /\ tracked' = tracked \union {k}
      /\ instant' = instant /\ aggregate' = aggregate /\ searchMode' = searchMode
      /\ exact \in BOOLEAN
  BY <1>1, <1>2, SearchTyping DEF DedupeServer, Is
<1>4. CASE Present(k) /\ Over(h) /\ dedupe' = dedupe /\ exact' = exact
  <2>1. tracked' = tracked
    BY <1>1, <1>3, <1>4 DEF KeysOutliveBuckets
  <2> QED
    BY <1>3, <1>4, <2>1, OverKeepsInv
<1>5. CASE ~Present(k) /\ SetKey(k) /\ Onward(h, "count") /\ exact' = exact
  <2>1. PICK d \in Searching :
          /\ aCall' = [aCall EXCEPT ![h] = d] /\ d.at = "count"
          /\ d.since = aCall[h].since /\ d.visitor = aCall[h].visitor /\ d.query = aCall[h].query
    BY <1>1, <1>5, OnwardTyped
  <2>2. KeysOutliveBuckets' /\ dedupe' \in [Searches -> Nat]
    BY <1>1, <1>2, <1>3, <1>5, <2>1, KeyIsSet DEF Is
  <2>3. SearchTypeOK'
    BY <1>1, <1>3, <1>5, <2>1, <2>2, SearchMoves DEF SearchTypeOK, Searching
  <2>4. SearchesUnderWay'
    <3>1. d.visitor \in Visitors /\ d.query \in Queries /\ d.since <= instant
      BY <1>1, <1>3, <2>1 DEF SearchesUnderWay, Is
    <3> QED
      BY <1>1, <1>3, <2>1, <3>1, UnderWayKept
  <2>5. exact => VisitorsCountOnce'
    <3>1. \A g \in SearchCalls : ~Is(g, "set")
      BY <1>1, <1>3 DEF SearchesUnderWay, Is
    <3>2. exact => SearchOf(h) \notin tracked
      BY <1>2, <1>3, <1>5, <3>1, AbsentIsNew
    <3> QED
      BY <1>2, <1>3, <2>1, <3>2, CountStarts
  <2> QED
    BY <1>5, <2>2, <2>3, <2>4, <2>5 DEF SearchInv, VisitorsCountOnce
<1>6. CASE Onward(h, "count") /\ exact' = FALSE /\ dedupe' = dedupe
  <2>1. PICK d \in Searching :
          /\ aCall' = [aCall EXCEPT ![h] = d] /\ d.at = "count"
          /\ d.since = aCall[h].since /\ d.visitor = aCall[h].visitor /\ d.query = aCall[h].query
    BY <1>1, <1>6, OnwardTyped
  <2>2. SearchTypeOK'
    BY <1>1, <1>3, <1>6, <2>1, SearchMoves DEF SearchTypeOK, Searching
  <2>3. SearchesUnderWay'
    <3>1. d.visitor \in Visitors /\ d.query \in Queries /\ d.since <= instant
      BY <1>1, <1>3, <2>1 DEF SearchesUnderWay, Is
    <3> QED
      BY <1>1, <1>3, <2>1, <3>1, UnderWayKept
  <2>4. KeysOutliveBuckets'
    BY <1>1, <1>3, <1>6 DEF KeysOutliveBuckets, Present
  <2>5. VisitorsCountOnce'
    BY <1>6 DEF VisitorsCountOnce
  <2> QED
    BY <2>2, <2>3, <2>4, <2>5 DEF SearchInv
<1> QED
  BY <1>2, <1>4, <1>5, <1>6 DEF DedupeServer

LEMMA DedupeGetKeepsInv ==
  ASSUME SearchInv, NEW h \in SearchCalls, DedupeGet(h)
  PROVE  SearchInv'
<1>1. SearchTypeOK /\ SearchesUnderWay /\ KeysOutliveBuckets
  BY DEF SearchInv
<1>2. PICK k \in Searches : k = SearchOf(h)
  BY <1>1, SearchTyped DEF DedupeGet, Is
<1>3. /\ Is(h, "dedupe") /\ aCall[h].at = "dedupe" /\ searchMode = "memory"
      /\ tracked' = tracked \union {k} /\ dedupe' = dedupe
      /\ instant' = instant /\ aggregate' = aggregate /\ searchMode' = searchMode
      /\ exact \in BOOLEAN
  BY <1>1, <1>2, SearchTyping DEF DedupeGet, Is
<1>4. CASE Present(k)
  <2>1. tracked' = tracked
    BY <1>1, <1>3, <1>4 DEF KeysOutliveBuckets
  <2>2. Over(h) /\ exact' = exact
    BY <1>2, <1>4 DEF DedupeGet
  <2> QED
    BY <1>3, <2>1, <2>2, OverKeepsInv
<1>5. CASE ~Present(k)
  <2>1. /\ Onward(h, "set") /\ exact' \in BOOLEAN
        /\ exact' => exact /\ \A g \in SearchCalls : Is(g, "set") => SearchOf(g) # k
    BY <1>2, <1>5 DEF DedupeGet
  <2>2. PICK d \in Searching :
          /\ aCall' = [aCall EXCEPT ![h] = d] /\ d.at = "set"
          /\ d.since = aCall[h].since /\ d.visitor = aCall[h].visitor /\ d.query = aCall[h].query
    BY <1>1, <2>1, OnwardTyped
  <2>3. /\ aCall' \in [SearchCalls -> Searching] /\ aCall'[h] = d
        /\ \A g \in SearchCalls \ {h} : aCall'[g] = aCall[g]
    BY <1>1, <2>2, SearchMoves
  <2>4. SearchTypeOK'
    BY <1>1, <1>3, <2>1, <2>3 DEF SearchTypeOK, Searching
  <2>5. SearchesUnderWay'
    <3>1. /\ d.visitor \in Visitors /\ d.query \in Queries /\ d.since <= instant
          /\ instant <= d.since + SlackTime
      BY <1>1, <1>3, <2>2 DEF SearchesUnderWay, Is
    <3>2. <<Bucket(d.since), d.visitor, d.query>> \in tracked'
      BY <1>2, <1>3, <2>2 DEF SearchOf
    <3> QED
      BY <1>1, <1>3, <2>2, <3>1, <3>2, UnderWayKept
  <2>6. KeysOutliveBuckets'
    <3>1. \A j \in Searches : Present(j)' => j \in tracked'
      BY <1>1, <1>3 DEF KeysOutliveBuckets, Present
    <3>2. ASSUME exact', NEW j \in tracked'
          PROVE  \/ \E g \in SearchCalls : Is(g, "set")' /\ SearchOf(g)' = j
                 \/ dedupe'[j] >= NoLonger(j)
                 \/ instant' >= NoLonger(j)
      <4>1. CASE j = k
        BY <1>2, <2>2, <2>3, <4>1 DEF Is, SearchOf, Bucket
      <4>2. CASE \E g \in SearchCalls : Is(g, "set") /\ SearchOf(g) = j
        <5>1. PICK g \in SearchCalls : Is(g, "set") /\ SearchOf(g) = j
          BY <4>2
        <5>2. g \in SearchCalls \ {h}
          BY <1>3, <5>1 DEF Is
        <5> QED
          BY <2>3, <5>1, <5>2 DEF Is, SearchOf
      <4>3. CASE j # k /\ ~\E g \in SearchCalls : Is(g, "set") /\ SearchOf(g) = j
        <5>1. j \in tracked
          BY <1>3, <4>3
        <5> QED
          BY <1>1, <1>3, <2>1, <3>2, <4>3, <5>1 DEF KeysOutliveBuckets
      <4> QED
        BY <4>1, <4>2, <4>3
    <3>3. \A j : NoLonger(j)' = NoLonger(j)
      BY DEF NoLonger
    <3> QED
      BY <3>1, <3>2, <3>3 DEF KeysOutliveBuckets
  <2>7. exact' => VisitorsCountOnce'
    <3>1. exact' => exact /\ SearchOf(h) \notin tracked
      BY <1>2, <1>3, <1>5, <2>1, AbsentIsNew
    <3> QED
      BY <1>2, <1>3, <2>2, <3>1, CountStarts
  <2> QED
    BY <2>4, <2>5, <2>6, <2>7 DEF SearchInv, VisitorsCountOnce
<1> QED
  BY <1>4, <1>5

LEMMA DedupeSetKeepsInv ==
  ASSUME SearchInv, NEW h \in SearchCalls, DedupeSet(h)
  PROVE  SearchInv'
<1>1. SearchTypeOK /\ SearchesUnderWay /\ KeysOutliveBuckets
  BY DEF SearchInv
<1>2. /\ aCall[h].at = "set" /\ ~Is(h, "idle") /\ SetKey(SearchOf(h)) /\ Onward(h, "count")
      /\ instant' = instant /\ aggregate' = aggregate /\ searchMode' = searchMode
      /\ tracked' = tracked /\ exact' = exact
  BY DEF DedupeSet, Is
<1>3. PICK d \in Searching :
        /\ aCall' = [aCall EXCEPT ![h] = d] /\ d.at = "count"
        /\ d.since = aCall[h].since /\ d.visitor = aCall[h].visitor /\ d.query = aCall[h].query
  BY <1>1, <1>2, OnwardTyped
<1>4. tracked' = tracked \union {SearchOf(h)}
  BY <1>1, <1>2 DEF SearchesUnderWay, Is
<1>5. KeysOutliveBuckets' /\ dedupe' \in [Searches -> Nat]
  BY <1>1, <1>2, <1>3, <1>4, KeyIsSet
<1>6. SearchTypeOK'
  BY <1>1, <1>2, <1>3, <1>5, SearchMoves DEF SearchTypeOK, Searching
<1>7. SearchesUnderWay'
  <2>1. d.visitor \in Visitors /\ d.query \in Queries /\ d.since <= instant
    BY <1>1, <1>2, <1>3 DEF SearchesUnderWay, Is
  <2> QED
    BY <1>1, <1>2, <1>3, <2>1, UnderWayKept
<1>8. exact => VisitorsCountOnce'
  BY <1>2, <1>3, CountKept
<1> QED
  BY <1>2, <1>5, <1>6, <1>7, <1>8 DEF SearchInv, VisitorsCountOnce

\* A counter that goes up is that of a document, and nothing else changes.
LEMMA IncrementKeepsInv ==
  ASSUME SearchInv, NEW h \in SearchCalls, aCall[h].at \in {"count", "again"},
         Increment(h), Over(h), instant' = instant, dedupe' = dedupe,
         searchMode' = searchMode, tracked' = tracked, exact' = exact
  PROVE  SearchInv'
<1>1. SearchTypeOK /\ SearchesUnderWay /\ KeysOutliveBuckets
  BY DEF SearchInv
<1>2. aCall' = [aCall EXCEPT ![h] = Waiting] /\ Waiting.at = "idle"
  BY DEF Over, Waiting
<1>3. aggregate' \in [Buckets \X Queries -> Nat]
  <2>1. DocumentOf(h) \in Buckets \X Queries
    BY <1>1, SearchTyped DEF Is
  <2>2. PICK n \in Nat : n = aggregate[DocumentOf(h)] + 1
    BY <1>1, <2>1, SearchTyping
  <2>3. aggregate' = [aggregate EXCEPT ![DocumentOf(h)] = n]
    BY <2>2 DEF Increment
  <2> QED
    BY <1>1, <2>3, SearchTyping
<1>4. SearchTypeOK'
  BY <1>1, <1>2, <1>3, WaitingTyped, SearchMoves DEF SearchTypeOK, Searching
<1>5. SearchesUnderWay'
  BY <1>1, <1>2, WaitingTyped, UnderWayKept
<1>6. KeysOutliveBuckets'
  BY <1>1, <1>2, WaitingTyped, KeysKept DEF Is
<1>7. exact => VisitorsCountOnce'
  BY CountEnds
<1> QED
  BY <1>4, <1>5, <1>6, <1>7 DEF SearchInv, VisitorsCountOnce

LEMMA DuplicateKeepsInv ==
  ASSUME SearchInv, NEW h \in SearchCalls, CountDuplicateKey(h)
  PROVE  SearchInv'
<1>1. SearchTypeOK /\ SearchesUnderWay /\ KeysOutliveBuckets
  BY DEF SearchInv
<1>2. /\ aCall[h].at = "count" /\ Onward(h, "again")
      /\ instant' = instant /\ dedupe' = dedupe /\ aggregate' = aggregate
      /\ searchMode' = searchMode /\ tracked' = tracked /\ exact' = exact
  BY DEF CountDuplicateKey, Is
<1>3. PICK d \in Searching :
        /\ aCall' = [aCall EXCEPT ![h] = d] /\ d.at = "again"
        /\ d.since = aCall[h].since /\ d.visitor = aCall[h].visitor /\ d.query = aCall[h].query
  BY <1>1, <1>2, OnwardTyped
<1>4. SearchTypeOK'
  BY <1>1, <1>2, <1>3, SearchMoves DEF SearchTypeOK, Searching
<1>5. SearchesUnderWay'
  <2>1. d.visitor \in Visitors /\ d.query \in Queries /\ d.since <= instant
    BY <1>1, <1>2, <1>3 DEF SearchesUnderWay, Is
  <2> QED
    BY <1>1, <1>2, <1>3, <2>1, UnderWayKept
<1>6. KeysOutliveBuckets'
  BY <1>1, <1>2, <1>3, KeysKept DEF Is
<1>7. exact => VisitorsCountOnce'
  BY <1>2, <1>3, CountKept
<1> QED
  BY <1>2, <1>4, <1>5, <1>6, <1>7 DEF SearchInv, VisitorsCountOnce

\* Calls ask for their keys in time, and a key that goes has done its service.
LEMMA TickKeepsInv ==
  ASSUME SearchInv, SearchTick
  PROVE  SearchInv'
<1>1. SearchTypeOK /\ SearchesUnderWay /\ KeysOutliveBuckets /\ VisitorsCountOnce
  BY DEF SearchInv
<1>2. /\ instant < LastInstant /\ instant' = instant + 1 /\ instant \in Nat
      /\ dedupe' = [k \in Searches |-> IF dedupe[k] > instant + 1 THEN dedupe[k] ELSE 0]
      /\ aggregate' = aggregate /\ searchMode' = searchMode /\ aCall' = aCall
      /\ tracked' = tracked /\ exact' = exact
  BY <1>1, SearchTyping DEF SearchTick
<1>3. SearchTypeOK'
  <2>1. dedupe' \in [Searches -> Nat] /\ instant' \in 0..LastInstant
    BY <1>1, <1>2, SearchAssumption, SearchTyping
  <2> QED
    BY <1>1, <1>2, <2>1 DEF SearchTypeOK
<1>4. SearchesUnderWay'
  <2> SUFFICES ASSUME NEW h \in SearchCalls, ~Is(h, "idle")
               PROVE  /\ aCall[h].visitor \in Visitors /\ aCall[h].query \in Queries
                      /\ aCall[h].since <= instant'
                      /\ Is(h, "dedupe") \/ Is(h, "set") => instant' <= aCall[h].since + SlackTime
                      /\ Is(h, "set") => searchMode' = "memory" /\ SearchOf(h) \in tracked'
    BY <1>2 DEF SearchesUnderWay, Is, SearchOf, Bucket
  <2>1. aCall[h].since \in Nat
    BY <1>1, SearchTyped
  <2>2. Is(h, "dedupe") \/ Is(h, "set") => instant - aCall[h].since < SlackTime
    BY DEF SearchTick
  <2> QED
    BY <1>1, <1>2, <2>1, <2>2, SearchAssumption DEF SearchesUnderWay
<1>5. KeysOutliveBuckets'
  <2>1. \A k \in Searches : dedupe'[k] = IF dedupe[k] > instant + 1 THEN dedupe[k] ELSE 0
    BY <1>2
  <2>2. \A k \in Searches : Present(k)' => k \in tracked'
    BY <1>1, <1>2, <2>1 DEF KeysOutliveBuckets, Present
  <2>3. ASSUME exact', NEW k \in tracked'
        PROVE  \/ \E h \in SearchCalls : Is(h, "set") /\ SearchOf(h) = k
               \/ dedupe'[k] >= NoLonger(k)
               \/ instant' >= NoLonger(k)
    <3>1. k \in Searches /\ NoLonger(k) \in Nat /\ dedupe[k] \in Nat
      BY <1>1, <1>2, SearchTyping, NoLongerTyped
    <3>2. \/ \E h \in SearchCalls : Is(h, "set") /\ SearchOf(h) = k
          \/ dedupe[k] >= NoLonger(k)
          \/ instant >= NoLonger(k)
      BY <1>1, <1>2, <2>3 DEF KeysOutliveBuckets
    <3> QED
      BY <1>2, <2>1, <3>1, <3>2
  <2>4. /\ \A k : NoLonger(k)' = NoLonger(k)
        /\ \A h \in SearchCalls : (Is(h, "set")' <=> Is(h, "set")) /\ SearchOf(h)' = SearchOf(h)
    BY <1>2 DEF NoLonger, Is, SearchOf, Bucket
  <2> QED
    BY <2>2, <2>3, <2>4 DEF KeysOutliveBuckets
<1>6. VisitorsCountOnce'
  <2>1. \A b, q : Pending(b, q)' = Pending(b, q) /\ TrackedBy(b, q)' = TrackedBy(b, q)
    BY <1>2 DEF Pending, TrackedBy, Is, DocumentOf, Bucket
  <2> QED
    BY <1>1, <1>2, <2>1 DEF VisitorsCountOnce
<1> QED
  BY <1>3, <1>4, <1>5, <1>6 DEF SearchInv

LEMMA SearchInvStep == SearchInv /\ [SearchNext]_searchVars => SearchInv'
<1> SUFFICES ASSUME SearchInv, [SearchNext]_searchVars PROVE SearchInv'
  OBVIOUS
<1>0. exact \in BOOLEAN
  BY DEF SearchInv, SearchTypeOK
<1>1. ASSUME NEW h \in SearchCalls, NEW v \in Visitors, NEW q \in Queries, SearchBegin(h, v, q)
      PROVE  SearchInv'
  BY <1>1, BeginKeepsInv
<1>2. ASSUME NEW h \in SearchCalls, DedupeServer(h) \/ DedupeGet(h) \/ DedupeSet(h)
      PROVE  SearchInv'
  BY <1>2, DedupeServerKeepsInv, DedupeGetKeepsInv, DedupeSetKeepsInv
<1>3. ASSUME NEW h \in SearchCalls, Count(h)
      PROVE  SearchInv'
  <2>1. CASE Increment(h) /\ exact' = exact
    BY <1>3, <2>1, IncrementKeepsInv DEF Count, Is
  <2>2. CASE exact' = FALSE /\ aggregate' = aggregate
    BY <1>3, <2>2, OverKeepsInv DEF Count
  <2> QED
    BY <1>3, <2>1, <2>2 DEF Count
<1>4. ASSUME NEW h \in SearchCalls, CountDuplicateKey(h)
      PROVE  SearchInv'
  BY <1>4, DuplicateKeepsInv
<1>5. ASSUME NEW h \in SearchCalls, CountAgain(h)
      PROVE  SearchInv'
  BY <1>5, IncrementKeepsInv DEF CountAgain, Is
<1>6. ASSUME NEW h \in SearchCalls, SearchFail(h)
      PROVE  SearchInv'
  <2>1. exact' \in BOOLEAN /\ (exact' => exact /\ Is(h, "dedupe"))
    BY <1>6 DEF SearchFail
  <2>2. exact' => exact /\ aCall[h].at \notin {"set", "count", "again"}
    BY <2>1 DEF Is
  <2> QED
    BY <1>6, <2>1, <2>2, OverKeepsInv DEF SearchFail
<1>7. CASE SearchTick
  BY <1>7, TickKeepsInv
<1>8. CASE UNCHANGED searchVars
  <2>1. /\ instant' = instant /\ dedupe' = dedupe /\ aggregate' = aggregate /\ tracked' = tracked
        /\ searchMode' = searchMode /\ aCall' = aCall /\ exact' = exact
    BY <1>8 DEF searchVars
  <2>2. SearchTypeOK'
    BY <2>1 DEF SearchInv, SearchTypeOK
  <2>3. SearchesUnderWay'
    BY <2>1 DEF SearchInv, SearchesUnderWay, Is, SearchOf, Bucket
  <2>4. KeysOutliveBuckets'
    BY <2>1 DEF SearchInv, KeysOutliveBuckets, Present, NoLonger, Is, SearchOf, Bucket
  <2>5. \A b, q : Pending(b, q)' = Pending(b, q) /\ TrackedBy(b, q)' = TrackedBy(b, q)
    BY <2>1 DEF Pending, TrackedBy, Is, DocumentOf, Bucket
  <2>6. VisitorsCountOnce'
    BY <2>1, <2>5 DEF SearchInv, VisitorsCountOnce
  <2> QED
    BY <2>2, <2>3, <2>4, <2>6 DEF SearchInv
<1> QED
  BY <1>1, <1>2, <1>3, <1>4, <1>5, <1>6, <1>7, <1>8 DEF SearchNext

\* Unless an operation fails or two gets meet in memory, what the counters hold and what
\* is about to be counted is one for each visitor, query and bucket, whenever and however
\* often he searches: his key outlives the calls of its bucket (trackSearchEvent()).
THEOREM VisitorsAreCountedOnce == SearchSpec => []VisitorsCountOnce
<1>1. SearchInv => VisitorsCountOnce
  BY DEF SearchInv
<1> QED
  BY SearchInvInit, SearchInvStep, <1>1, PTL DEF SearchSpec

-----------------------------------------------------------------------------
(* One conversation. *)

Message == [sender: Participants, status: {"sent", "delivered", "read"}]

ChatCall ==
  [at: {"idle", "create", "relink", "insert", "count", "mark", "clear"},
   user: Participants \union {NoLink}, unread: Counters, number: Nat,
   link: Links \union {NoLink}]

Thread == [link: Links \union {NoLink}, unread: Counters, last: Nat]

LEMMA ChatTyping ==
  ChatTypeOK <=>
    /\ thread \in Thread
    /\ message \in Seq(Message)
    /\ cCall \in [ChatCalls -> ChatCall]
    /\ tidy \in BOOLEAN
    /\ settled \in Counters
BY DEF ChatTypeOK, Thread, Message, ChatCall

LEMMA SilentTyped == Zero \in Counters /\ Silent \in ChatCall /\ Silent.at = "idle"
BY DEF Zero, Counters, Silent, ChatCall

LEMMA OtherOne ==
  ASSUME NEW u \in Participants
  PROVE  /\ Other(u) \in Participants /\ Other(u) # u
         /\ \A v \in Participants : v # u => v = Other(u)
BY ChatAssumption DEF Participants, Other

\* Marking changes no sender.
LEMMA MarkedKeeps ==
  ASSUME message \in Seq(Message), NEW u, NEW from, NEW to \in {"delivered", "read"},
         message' = Marked(u, from, to)
  PROVE  /\ message' \in Seq(Message) /\ Len(message') = Len(message)
         /\ \A n \in 1..Len(message) : message'[n].sender = message[n].sender
<1>1. PICK L \in Nat : L = Len(message) /\ \A n \in 1..L : message[n] \in Message
  OBVIOUS
<1>2. ASSUME NEW n \in 1..L
      PROVE  /\ Marked(u, from, to)[n] \in Message
             /\ Marked(u, from, to)[n].sender = message[n].sender
  BY <1>1 DEF Marked, Message
<1>3. DOMAIN Marked(u, from, to) = 1..L /\ Marked(u, from, to) \in [1..L -> Message]
  BY <1>1, <1>2 DEF Marked
<1>4. message' \in [1..L -> Message]
  BY <1>3
<1>5. message' \in Seq(Message) /\ Len(message') = L
  BY <1>4
<1> QED
  BY <1>1, <1>2, <1>5

\* The messages sent to someone, and those unseen, are counted.
LEMMA MessagesCounted ==
  ASSUME ChatTypeOK, NEW u \in Participants
  PROVE  /\ IsFiniteSet(SentTo(u)) /\ Cardinality(SentTo(u)) \in Nat
         /\ IsFiniteSet(Unseen(u)) /\ Cardinality(Unseen(u)) \in Nat
         /\ Len(message) \in Nat /\ settled[u] \in Nat /\ thread.unread[u] \in Nat
<1>1. Len(message) \in Nat
  BY ChatTyping
<1>2. IsFiniteSet(1..Len(message))
  BY <1>1, FS_Interval
<1>3. SentTo(u) \subseteq 1..Len(message) /\ Unseen(u) \subseteq 1..Len(message)
  BY DEF SentTo, Unseen
<1>4. settled[u] \in Nat /\ thread.unread[u] \in Nat
  BY ChatTyping DEF Counters, Thread
<1> QED
  BY <1>1, <1>2, <1>3, <1>4, FS_Subset, FS_CardinalityType

\* A message is one more for the other participant, who has not seen it, and none for
\* its sender.
LEMMA MessageAdds ==
  ASSUME ChatTypeOK, NEW u \in Participants,
         message' = Append(message, [sender |-> u, status |-> "sent"]), settled' = settled
  PROVE  /\ message' \in Seq(Message) /\ Len(message') = Len(message) + 1
         /\ SentTo(u)' = SentTo(u) /\ Unseen(u)' = Unseen(u)
         /\ Cardinality(SentTo(Other(u))') = Cardinality(SentTo(Other(u))) + 1
         /\ settled[Other(u)] <= Len(message) =>
              Cardinality(Unseen(Other(u))') = Cardinality(Unseen(Other(u))) + 1
<1>1. PICK L \in Nat : L = Len(message) /\ message \in Seq(Message)
  BY ChatTyping
<1>2. PICK m \in Message : m = [sender |-> u, status |-> "sent"] /\ m.sender = u
  <2>1. [sender |-> u, status |-> "sent"] \in Message
    BY DEF Message
  <2> QED
    BY <2>1
<1>3. /\ message' \in Seq(Message) /\ Len(message') = L + 1
      /\ \A n \in 1..L : message'[n] = message[n]
      /\ message'[L + 1] = m
  BY <1>1, <1>2
<1>4. PICK o \in Participants : o = Other(u) /\ o # u
  BY OtherOne
<1>5. 1..(L + 1) = (1..L) \union {L + 1} /\ L + 1 \notin 1..L
  OBVIOUS
<1>6. SentTo(u)' = SentTo(u)
  BY <1>1, <1>2, <1>3, <1>5 DEF SentTo
<1>7. Unseen(u)' = Unseen(u)
  BY <1>6 DEF Unseen
<1>8. SentTo(o)' = SentTo(o) \union {L + 1} /\ L + 1 \notin SentTo(o)
  BY <1>1, <1>2, <1>3, <1>4, <1>5 DEF SentTo
<1>9. Cardinality(SentTo(o)') = Cardinality(SentTo(o)) + 1
  BY <1>8, MessagesCounted, FS_AddElement
<1>10. ASSUME settled[o] <= L
       PROVE  Cardinality(Unseen(o)') = Cardinality(Unseen(o)) + 1
  <2>1. L + 1 > settled[o]
    BY <1>10, MessagesCounted
  <2>2. Unseen(o)' = Unseen(o) \union {L + 1} /\ L + 1 \notin Unseen(o)
    BY <1>8, <2>1 DEF Unseen
  <2> QED
    BY <2>2, MessagesCounted, FS_AddElement
<1> QED
  BY <1>1, <1>3, <1>4, <1>6, <1>7, <1>9, <1>10

\* What names its messages by their senders does not change with their status.
LEMMA SendersStand ==
  ASSUME Len(message') = Len(message), settled' = settled,
         \A n \in 1..Len(message) : message'[n].sender = message[n].sender,
         NEW u \in Participants
  PROVE  SentTo(u)' = SentTo(u) /\ Unseen(u)' = Unseen(u)
<1>1. SentTo(u)' = SentTo(u)
  BY DEF SentTo
<1> QED
  BY <1>1 DEF Unseen

\* A handler's step changes its own record alone.
LEMMA ChatCallMoves ==
  ASSUME ChatTypeOK, NEW c \in ChatCalls, NEW r \in ChatCall,
         cCall' = [cCall EXCEPT ![c] = r]
  PROVE  /\ cCall' \in [ChatCalls -> ChatCall] /\ cCall'[c] = r
         /\ \A d \in ChatCalls : d # c => cCall'[d] = cCall[d]
BY ChatTyping

\* The steps that leave counters and messages as they are: a call that begins with the
\* thread's counters, goes on with its own, or ends owing nothing.
LEMMA CountersStand ==
  ASSUME ChatInv, NEW c \in ChatCalls, NEW r \in ChatCall, cCall' = [cCall EXCEPT ![c] = r],
         thread' \in Thread, thread'.unread = thread.unread, thread'.last = thread.last,
         message' \in Seq(Message), Len(message') = Len(message),
         \A n \in 1..Len(message) : message'[n].sender = message[n].sender,
         settled' = settled, tidy' \in BOOLEAN,
         r.at # "count",
         r.at \in {"insert", "mark", "clear"} =>
           /\ r.user \in Participants
           /\ \A u \in Participants : r.unread[u] <= Cardinality(SentTo(u))
           /\ tidy' => r.unread = thread.unread,
         r.at \in {"create", "relink"} => r.link \in Links,
         tidy' => /\ tidy /\ ~Stands(c, "count")
                  /\ \A d \in ChatCalls : d # c => Stands(d, "idle")
  PROVE  ChatInv'
<1>1. /\ cCall' \in [ChatCalls -> ChatCall] /\ cCall'[c] = r
      /\ \A d \in ChatCalls : d # c => cCall'[d] = cCall[d]
  BY ChatCallMoves DEF ChatInv
<1>2. ChatTypeOK'
  <2>1. settled' \in Counters
    BY ChatTyping DEF ChatInv
  <2> QED
    BY <1>1, <2>1 DEF ChatTypeOK, Thread, Message, ChatCall
<1>3. \A u \in Participants : SentTo(u)' = SentTo(u) /\ Unseen(u)' = Unseen(u)
  BY SendersStand
<1>4. CallsKnowTheirs'
  BY <1>1 DEF ChatInv, CallsKnowTheirs, HoldsCounters
<1>5. NoMessageIsInvented'
  <2>1. ASSUME NEW u \in Participants
        PROVE  thread'.unread[u] <= Cardinality(SentTo(u)')
    BY <1>3 DEF ChatInv, NoMessageIsInvented
  <2>2. ASSUME NEW u \in Participants, NEW d \in ChatCalls, HoldsCounters(d)'
        PROVE  cCall'[d].unread[u]
                 + (IF Stands(d, "count")' /\ cCall'[d].user # u THEN 1 ELSE 0)
                 <= Cardinality(SentTo(u)')
    <3>1. CASE d = c
      <4>1. r.unread[u] \in Nat
        BY DEF ChatCall, Counters
      <4> QED
        BY <1>1, <1>3, <2>2, <3>1, <4>1 DEF HoldsCounters, Stands
    <3>2. CASE d # c
      BY <1>1, <1>3, <2>2, <3>2 DEF ChatInv, NoMessageIsInvented, HoldsCounters, Stands
    <3> QED
      BY <3>1, <3>2
  <2> QED
    BY <2>1, <2>2 DEF NoMessageIsInvented
<1>6. TidyCountsAll'
  <2>1. SUFFICES ASSUME tidy' PROVE TidyCountsAll'
    BY DEF TidyCountsAll
  <2>2. /\ tidy /\ ~Stands(c, "count")
        /\ \A d \in ChatCalls : d # c => Stands(d, "idle") /\ Stands(d, "idle")'
    BY <1>1, <2>1 DEF Stands
  <2>3. \A d \in ChatCalls : ~Stands(d, "count") /\ ~Stands(d, "count")'
    BY <1>1, <2>2 DEF Stands
  <2>4. /\ \A u \in Participants : settled[u] <= Len(message)
        /\ thread.last = Len(message)
        /\ \A u \in Participants : thread.unread[u] = Cardinality(Unseen(u))
    BY <2>2, <2>3 DEF ChatInv, TidyCountsAll
  <2>5. \A d, e \in ChatCalls : ~Stands(d, "idle")' /\ ~Stands(e, "idle")' => d = e
    BY <2>2
  <2>6. \A d \in ChatCalls : HoldsCounters(d)' => cCall'[d].unread = thread'.unread
    BY <1>1, <2>1, <2>2 DEF HoldsCounters, Stands
  <2> QED
    BY <1>3, <2>3, <2>4, <2>5, <2>6 DEF TidyCountsAll
<1> QED
  BY <1>2, <1>4, <1>5, <1>6 DEF ChatInv

LEMMA OpenReadKeeps ==
  ASSUME ChatInv, NEW c \in ChatCalls, NEW link \in Links, OpenRead(c, link) PROVE ChatInv'
<1> DEFINE r == [Silent EXCEPT !.at = IF Opened THEN "relink" ELSE "create", !.link = link]
<1>1. r \in ChatCall /\ r.at \in {"create", "relink"} /\ r.link = link
  <2>1. PICK s \in ChatCall : s = Silent
    BY SilentTyped
  <2> QED
    BY <2>1 DEF ChatCall
<1>2. /\ cCall' = [cCall EXCEPT ![c] = r]
      /\ Stands(c, "idle") /\ tidy' = (tidy /\ \A d \in ChatCalls : Stands(d, "idle"))
      /\ UNCHANGED <<thread, message, settled>>
  BY DEF OpenRead, Takes
<1> HIDE DEF r
<1>3. thread' \in Thread /\ message' \in Seq(Message) /\ tidy' \in BOOLEAN
  BY <1>2, ChatTyping DEF ChatInv
<1>4. ~Stands(c, "count")
  BY <1>2 DEF Stands
<1> QED
  BY <1>1, <1>2, <1>3, <1>4, CountersStand

LEMMA OpenRelinkKeeps ==
  ASSUME ChatInv, NEW c \in ChatCalls, OpenRelink(c) \/ OpenCreate(c) PROVE ChatInv'
<1>1. /\ cCall' = [cCall EXCEPT ![c] = Silent] /\ Silent \in ChatCall /\ Silent.at = "idle"
      /\ cCall[c].at \in {"create", "relink"}
      /\ UNCHANGED <<message, tidy, settled>>
      /\ thread' = thread \/ thread' = [thread EXCEPT !.link = cCall[c].link]
  BY SilentTyped DEF OpenRelink, OpenCreate, Returns, Stands
<1>2. cCall[c].link \in Links
  BY <1>1 DEF ChatInv, CallsKnowTheirs
<1>3. thread' \in Thread /\ thread'.unread = thread.unread /\ thread'.last = thread.last
  BY <1>1, <1>2, ChatTyping DEF ChatInv, Thread
<1>4. message' \in Seq(Message) /\ tidy' \in BOOLEAN
  BY <1>1, ChatTyping DEF ChatInv
<1>5. tidy' => /\ tidy /\ ~Stands(c, "count")
               /\ \A d \in ChatCalls : d # c => Stands(d, "idle")
  BY <1>1 DEF ChatInv, TidyCountsAll, Stands
<1> QED
  BY <1>1, <1>3, <1>4, <1>5, CountersStand

\* sendMessage() and markRead() begin alike, with the counters of the thread.
LEMMA ThreadReadKeeps ==
  ASSUME ChatInv, NEW c \in ChatCalls, NEW u \in Participants,
         SendRead(c, u) \/ ReadThread(c, u)
  PROVE  ChatInv'
<1>1. PICK t \in Thread : t = thread
  BY ChatTyping DEF ChatInv
<1>2. PICK at \in {"insert", "mark"} :
        cCall' = [cCall EXCEPT ![c] = [Silent EXCEPT !.at = at, !.user = u, !.unread = t.unread]]
  BY <1>1 DEF SendRead, ReadThread, Takes
<1> DEFINE r == [Silent EXCEPT !.at = at, !.user = u, !.unread = t.unread]
<1>3. r \in ChatCall /\ r.at = at /\ r.user = u /\ r.unread = thread.unread
  <2>1. PICK s \in ChatCall : s = Silent
    BY SilentTyped
  <2>2. t.unread \in Counters
    BY DEF Thread
  <2> QED
    BY <1>1, <2>1, <2>2 DEF ChatCall
<1>4. /\ Stands(c, "idle") /\ tidy' = (tidy /\ \A d \in ChatCalls : Stands(d, "idle"))
      /\ UNCHANGED <<thread, message, settled>>
  BY DEF SendRead, ReadThread, Takes
<1> HIDE DEF r
<1>5. thread' \in Thread /\ message' \in Seq(Message) /\ tidy' \in BOOLEAN
  BY <1>4, ChatTyping DEF ChatInv
<1>6. ~Stands(c, "count") /\ cCall' = [cCall EXCEPT ![c] = r]
  BY <1>2, <1>4 DEF Stands, r
<1>7. \A v \in Participants : r.unread[v] <= Cardinality(SentTo(v))
  BY <1>3 DEF ChatInv, NoMessageIsInvented
<1> QED
  BY <1>3, <1>4, <1>5, <1>6, <1>7, CountersStand

LEMMA ReadMarkKeeps ==
  ASSUME ChatInv, NEW c \in ChatCalls, ReadMark(c) PROVE ChatInv'
<1>1. PICK b \in ChatCall : b = cCall[c]
  BY ChatTyping DEF ChatInv
<1> DEFINE r == [b EXCEPT !.at = "clear"]
<1>2. r \in ChatCall /\ r.at = "clear" /\ r.user = b.user /\ r.unread = b.unread
  BY DEF ChatCall
<1>3. /\ b.at = "mark" /\ cCall' = [cCall EXCEPT ![c] = r]
      /\ message' = Marked(b.user, {"sent", "delivered"}, "read")
      /\ UNCHANGED <<thread, tidy, settled>>
  BY <1>1 DEF ReadMark, Passes, Stands
<1> HIDE DEF r
<1>4. /\ message' \in Seq(Message) /\ Len(message') = Len(message)
      /\ \A n \in 1..Len(message) : message'[n].sender = message[n].sender
  BY <1>3, MarkedKeeps, ChatTyping DEF ChatInv
<1>5. thread' \in Thread /\ tidy' \in BOOLEAN
  BY <1>3, ChatTyping DEF ChatInv
<1>6. HoldsCounters(c) /\ ~Stands(c, "count") /\ ~Stands(c, "idle")
  BY <1>1, <1>3 DEF HoldsCounters, Stands
<1>7. r.user \in Participants
  BY <1>1, <1>2, <1>6 DEF ChatInv, CallsKnowTheirs
<1>8. \A u \in Participants : r.unread[u] <= Cardinality(SentTo(u))
  <2>1. ASSUME NEW u \in Participants PROVE r.unread[u] <= Cardinality(SentTo(u))
    <3>1. r.unread[u] \in Nat
      BY <1>2 DEF ChatCall, Counters
    <3> QED
      BY <1>1, <1>2, <1>6, <3>1 DEF ChatInv, NoMessageIsInvented
  <2> QED
    BY <2>1
<1>9. tidy' => /\ tidy /\ r.unread = thread.unread
               /\ \A d \in ChatCalls : d # c => Stands(d, "idle")
  BY <1>1, <1>2, <1>3, <1>6 DEF ChatInv, TidyCountsAll
<1> QED
  BY <1>2, <1>3, <1>4, <1>5, <1>6, <1>7, <1>8, <1>9, CountersStand

LEMMA ChatFailKeeps ==
  ASSUME ChatInv, NEW c \in ChatCalls, ChatFail(c) PROVE ChatInv'
<1>1. /\ cCall' = [cCall EXCEPT ![c] = Silent] /\ Silent \in ChatCall /\ Silent.at = "idle"
      /\ ~Stands(c, "idle") /\ tidy' = (tidy /\ ~(Stands(c, "count") \/ Stands(c, "clear")))
      /\ UNCHANGED <<thread, message, settled>>
  BY SilentTyped DEF ChatFail, Returns
<1>2. thread' \in Thread /\ message' \in Seq(Message) /\ tidy' \in BOOLEAN
  BY <1>1, ChatTyping DEF ChatInv
<1>3. tidy' => /\ tidy /\ ~Stands(c, "count")
               /\ \A d \in ChatCalls : d # c => Stands(d, "idle")
  BY <1>1 DEF ChatInv, TidyCountsAll
<1> QED
  BY <1>1, <1>2, <1>3, CountersStand

LEMMA ListMessagesKeeps ==
  ASSUME ChatInv, NEW u \in Participants, ListMessages(u) PROVE ChatInv'
<1>1. /\ message' \in Seq(Message) /\ Len(message') = Len(message)
      /\ \A n \in 1..Len(message) : message'[n].sender = message[n].sender
  BY MarkedKeeps, ChatTyping DEF ChatInv, ListMessages
<1>2. UNCHANGED <<thread, cCall, tidy, settled>>
  BY DEF ListMessages
<1>3. \A v \in Participants : SentTo(v)' = SentTo(v) /\ Unseen(v)' = Unseen(v)
  BY <1>1, <1>2, SendersStand
<1>4. ChatTypeOK'
  BY <1>1, <1>2 DEF ChatInv, ChatTypeOK, Message
<1>5. CallsKnowTheirs'
  BY <1>2 DEF ChatInv, CallsKnowTheirs, HoldsCounters
<1>6. NoMessageIsInvented'
  BY <1>2, <1>3 DEF ChatInv, NoMessageIsInvented, HoldsCounters, Stands
<1>7. TidyCountsAll'
  BY <1>1, <1>2, <1>3 DEF ChatInv, TidyCountsAll, HoldsCounters, Stands
<1> QED
  BY <1>4, <1>5, <1>6, <1>7 DEF ChatInv

LEMMA SendInsertKeeps ==
  ASSUME ChatInv, NEW c \in ChatCalls, SendInsert(c) PROVE ChatInv'
<1>1. PICK b \in ChatCall : b = cCall[c]
  BY ChatTyping DEF ChatInv
<1>2. PICK L \in Nat : L = Len(message)
  BY ChatTyping DEF ChatInv
<1> DEFINE r == [b EXCEPT !.at = "count", !.number = L + 1]
<1>3. /\ r \in ChatCall /\ r.at = "count" /\ r.user = b.user /\ r.unread = b.unread
      /\ r.number = L + 1
  <2>1. PICK m \in Nat : m = L + 1
    OBVIOUS
  <2> QED
    BY <2>1 DEF ChatCall
<1>4. /\ b.at = "insert" /\ cCall' = [cCall EXCEPT ![c] = r]
      /\ message' = Append(message, [sender |-> b.user, status |-> "sent"])
      /\ UNCHANGED <<thread, tidy, settled>>
  BY <1>1, <1>2 DEF SendInsert, Stands
<1> HIDE DEF r
<1>5. /\ cCall' \in [ChatCalls -> ChatCall] /\ cCall'[c] = r
      /\ \A d \in ChatCalls : d # c => cCall'[d] = cCall[d]
  BY <1>3, <1>4, ChatCallMoves DEF ChatInv
<1>6. HoldsCounters(c) /\ ~Stands(c, "count") /\ ~Stands(c, "idle")
  BY <1>1, <1>4 DEF HoldsCounters, Stands
<1>7. PICK u \in Participants : u = b.user
  BY <1>1, <1>6 DEF ChatInv, CallsKnowTheirs
<1>8. PICK o \in Participants : o = Other(u) /\ o # u /\ \A v \in Participants : v = u \/ v = o
  BY OtherOne
<1>9. /\ message' \in Seq(Message) /\ Len(message') = L + 1
      /\ SentTo(u)' = SentTo(u) /\ Unseen(u)' = Unseen(u)
      /\ Cardinality(SentTo(o)') = Cardinality(SentTo(o)) + 1
      /\ settled[o] <= L => Cardinality(Unseen(o)') = Cardinality(Unseen(o)) + 1
  BY <1>2, <1>4, <1>7, <1>8, MessageAdds DEF ChatInv
<1>10. ChatTypeOK'
  BY <1>4, <1>5, <1>9 DEF ChatInv, ChatTypeOK, ChatCall, Message
<1>11. CallsKnowTheirs'
  BY <1>3, <1>5, <1>7 DEF ChatInv, CallsKnowTheirs, HoldsCounters
<1>12. \A v \in Participants :
         /\ Cardinality(SentTo(v)) \in Nat
         /\ Cardinality(SentTo(v)') = Cardinality(SentTo(v)) + (IF v = u THEN 0 ELSE 1)
  BY <1>8, <1>9, MessagesCounted DEF ChatInv
<1>13. NoMessageIsInvented'
  <2>1. ASSUME NEW v \in Participants
        PROVE  thread'.unread[v] <= Cardinality(SentTo(v)')
    <3>1. thread.unread[v] \in Nat /\ thread.unread[v] <= Cardinality(SentTo(v))
      BY MessagesCounted DEF ChatInv, NoMessageIsInvented
    <3> QED
      BY <1>4, <1>12, <3>1
  <2>2. ASSUME NEW v \in Participants, NEW d \in ChatCalls, HoldsCounters(d)'
        PROVE  cCall'[d].unread[v]
                 + (IF Stands(d, "count")' /\ cCall'[d].user # v THEN 1 ELSE 0)
                 <= Cardinality(SentTo(v)')
    <3>1. cCall[d].unread[v] \in Nat
      BY ChatTyping DEF ChatInv, ChatCall, Counters
    <3>2. HoldsCounters(d)
      BY <1>5, <1>6, <2>2 DEF HoldsCounters
    <3>3. cCall[d].unread[v] + (IF Stands(d, "count") /\ cCall[d].user # v THEN 1 ELSE 0)
            <= Cardinality(SentTo(v))
      BY <3>2 DEF ChatInv, NoMessageIsInvented
    <3>4. CASE d = c
      <4>1. cCall'[d].user = u /\ cCall'[d].unread = cCall[d].unread
        BY <1>1, <1>3, <1>5, <1>7, <3>4
      <4>2. cCall[d].unread[v] <= Cardinality(SentTo(v))
        BY <1>12, <3>1, <3>3
      <4> QED
        BY <1>12, <3>1, <4>1, <4>2
    <3>5. CASE d # c
      BY <1>5, <1>12, <3>1, <3>3, <3>5 DEF Stands
    <3> QED
      BY <3>4, <3>5
  <2> QED
    BY <2>1, <2>2 DEF NoMessageIsInvented
<1>14. TidyCountsAll'
  <2>1. SUFFICES ASSUME tidy PROVE TidyCountsAll'
    BY <1>4 DEF TidyCountsAll
  <2>2. \A d \in ChatCalls : d # c => Stands(d, "idle") /\ Stands(d, "idle")'
    BY <1>5, <1>6, <2>1 DEF ChatInv, TidyCountsAll, Stands
  <2>3. \A d \in ChatCalls : ~Stands(d, "count")
    BY <1>6, <2>2 DEF Stands
  <2>4. /\ \A v \in Participants : settled[v] <= L
        /\ \A v \in Participants : thread.unread[v] = Cardinality(Unseen(v))
        /\ b.unread = thread.unread
    BY <1>1, <1>2, <1>6, <2>1, <2>3 DEF ChatInv, TidyCountsAll
  <2>5. \A v \in Participants : settled'[v] <= Len(message')
    <3>1. \A v \in Participants : settled[v] \in Nat
      BY MessagesCounted DEF ChatInv
    <3> QED
      BY <1>2, <1>4, <1>9, <2>4, <3>1
  <2>6. \A d, e \in ChatCalls : ~Stands(d, "idle")' /\ ~Stands(e, "idle")' => d = e
    BY <2>2
  <2>7. \A d \in ChatCalls : HoldsCounters(d)' => cCall'[d].unread = thread'.unread
    BY <1>3, <1>4, <1>5, <2>2, <2>4 DEF HoldsCounters, Stands
  <2>8. Stands(c, "count")' /\ cCall'[c].number = Len(message') /\ cCall'[c].user = u
    BY <1>3, <1>5, <1>7, <1>9 DEF Stands
  <2>9. thread'.unread[o] + 1 = Cardinality(Unseen(o)')
    BY <1>4, <1>9, <2>4
  <2>10. \A d \in ChatCalls : Stands(d, "count")' => d = c
    BY <2>2 DEF Stands
  <2> QED
    BY <1>8, <2>5, <2>6, <2>7, <2>8, <2>9, <2>10 DEF TidyCountsAll
<1> QED
  BY <1>10, <1>11, <1>13, <1>14 DEF ChatInv

\* The write of the counters: none for the participant who wrote or read, and for the
\* other one what the call's copy has, with the message it has sent.
LEMMA CountersSettle ==
  ASSUME ChatInv, NEW c \in ChatCalls, HoldsCounters(c), NEW u \in Participants,
         u = cCall[c].user,
         cCall' = [cCall EXCEPT ![c] = Silent], UNCHANGED <<message, tidy>>,
         settled' = IF tidy THEN [settled EXCEPT ![u] = Len(message)] ELSE settled,
         thread' \in Thread, thread'.unread[u] = 0,
         thread'.unread[Other(u)] =
           cCall[c].unread[Other(u)] + (IF Stands(c, "count") THEN 1 ELSE 0),
         thread'.last = (IF Stands(c, "count") THEN cCall[c].number ELSE thread.last)
  PROVE  ChatInv'
<1>1. PICK L \in Nat : L = Len(message)
  BY ChatTyping DEF ChatInv
<1>2. PICK o \in Participants : o = Other(u) /\ o # u /\ \A v \in Participants : v = u \/ v = o
  BY OtherOne
<1>3. /\ cCall' \in [ChatCalls -> ChatCall] /\ Stands(c, "idle")'
      /\ \A d \in ChatCalls : d # c => cCall'[d] = cCall[d]
  BY ChatCallMoves, SilentTyped DEF ChatInv, Stands
<1>4. settled' \in Counters /\ settled'[o] = settled[o] /\ (tidy => settled'[u] = L)
  BY <1>1, <1>2, ChatTyping DEF ChatInv, Counters
<1>5. ChatTypeOK'
  <2>1. message' \in Seq(Message) /\ tidy' \in BOOLEAN
    BY ChatTyping DEF ChatInv
  <2> QED
    BY <1>3, <1>4, <2>1 DEF ChatTypeOK, ChatCall, Message, Thread
<1>6. CallsKnowTheirs'
  BY <1>3 DEF ChatInv, CallsKnowTheirs, HoldsCounters, Stands
<1>7. \A v \in Participants : SentTo(v)' = SentTo(v) /\ Cardinality(SentTo(v)) \in Nat
  BY MessagesCounted DEF ChatInv, SentTo
<1>8. NoMessageIsInvented'
  <2>1. cCall[c].unread[o] + (IF Stands(c, "count") THEN 1 ELSE 0) <= Cardinality(SentTo(o))
    BY <1>2 DEF ChatInv, NoMessageIsInvented
  <2>2. \A v \in Participants : thread'.unread[v] <= Cardinality(SentTo(v)')
    BY <1>2, <1>7, <2>1
  <2>3. ASSUME NEW v \in Participants, NEW d \in ChatCalls, HoldsCounters(d)'
        PROVE  cCall'[d].unread[v]
                 + (IF Stands(d, "count")' /\ cCall'[d].user # v THEN 1 ELSE 0)
                 <= Cardinality(SentTo(v)')
    <3>1. d # c
      BY <1>3, <2>3 DEF HoldsCounters, Stands
    <3> QED
      BY <1>3, <1>7, <2>3, <3>1 DEF ChatInv, NoMessageIsInvented, HoldsCounters, Stands
  <2> QED
    BY <2>2, <2>3 DEF NoMessageIsInvented
<1>9. TidyCountsAll'
  <2>1. SUFFICES ASSUME tidy PROVE TidyCountsAll'
    BY DEF TidyCountsAll
  <2>2. ~Stands(c, "idle")
    BY DEF HoldsCounters, Stands
  <2>3. \A d \in ChatCalls : Stands(d, "idle")' /\ (d # c => Stands(d, "idle"))
    BY <1>3, <2>1, <2>2 DEF ChatInv, TidyCountsAll, Stands
  <2>4. cCall[c].unread = thread.unread /\ settled[o] <= L
    BY <1>1, <2>1 DEF ChatInv, TidyCountsAll
  <2>5. thread'.last = L /\ thread'.unread[o] = Cardinality(Unseen(o))
    <3>1. CASE Stands(c, "count")
      BY <1>1, <1>2, <2>1, <2>4, <3>1 DEF ChatInv, TidyCountsAll
    <3>2. CASE ~Stands(c, "count")
      <4>1. \A d \in ChatCalls : ~Stands(d, "count")
        BY <2>3, <3>2 DEF Stands
      <4>2. thread.unread[o] \in Nat
        BY MessagesCounted DEF ChatInv
      <4> QED
        BY <1>1, <1>2, <2>1, <2>4, <3>2, <4>1, <4>2 DEF ChatInv, TidyCountsAll
    <3> QED
      BY <3>1, <3>2
  <2>6. Unseen(o)' = Unseen(o)
    BY <1>4, <1>7 DEF Unseen
  <2>7. Cardinality(Unseen(u)') = 0
    <3>1. SentTo(u)' \subseteq 1..L
      BY <1>1, <1>7 DEF SentTo
    <3>2. Unseen(u)' = {}
      BY <1>4, <2>1, <3>1 DEF Unseen
    <3> QED
      BY <3>2, FS_EmptySet
  <2>8. \A v \in Participants : thread'.unread[v] = Cardinality(Unseen(v)')
    BY <1>2, <2>5, <2>6, <2>7
  <2>9. \A v \in Participants : settled'[v] <= Len(message')
    BY <1>1, <1>2, <1>4, <2>1, <2>4
  <2>10. \A d \in ChatCalls : ~HoldsCounters(d)' /\ ~Stands(d, "count")'
    BY <2>3 DEF HoldsCounters, Stands
  <2> QED
    BY <1>1, <2>3, <2>5, <2>8, <2>9, <2>10 DEF TidyCountsAll
<1> QED
  BY <1>5, <1>6, <1>8, <1>9 DEF ChatInv

LEMMA SendCountKeeps ==
  ASSUME ChatInv, NEW c \in ChatCalls, SendCount(c) PROVE ChatInv'
<1>1. PICK b \in ChatCall : b = cCall[c] /\ b.at = "count"
  BY ChatTyping DEF ChatInv, SendCount, Stands
<1>2. HoldsCounters(c) /\ Stands(c, "count")
  BY <1>1 DEF HoldsCounters, Stands
<1>3. PICK u \in Participants : u = b.user
  BY <1>1, <1>2 DEF ChatInv, CallsKnowTheirs
<1>4. PICK o \in Participants : o = Other(u) /\ o # u
  BY OtherOne
<1>5. /\ cCall' = [cCall EXCEPT ![c] = Silent] /\ UNCHANGED <<message, tidy>>
      /\ settled' = IF tidy THEN [settled EXCEPT ![u] = Len(message)] ELSE settled
      /\ thread' = [thread EXCEPT !.last = b.number,
            !.unread = [b.unread EXCEPT ![u] = 0, ![o] = b.unread[o] + 1]]
  BY <1>1, <1>3, <1>4 DEF SendCount, Returns
<1>6. PICK n \in Counters : n = [b.unread EXCEPT ![u] = 0, ![o] = b.unread[o] + 1]
  <2>1. b.unread \in Counters /\ b.unread[o] + 1 \in Nat
    BY DEF ChatCall, Counters
  <2>2. [b.unread EXCEPT ![u] = 0, ![o] = b.unread[o] + 1] \in Counters
    BY <2>1 DEF Counters
  <2> QED
    BY <2>2
<1>7. n[u] = 0 /\ n[o] = b.unread[o] + 1
  BY <1>4, <1>6 DEF ChatCall, Counters
<1>8. thread' \in Thread /\ thread'.unread = n /\ thread'.last = b.number
  BY <1>5, <1>6, ChatTyping DEF ChatInv, Thread, ChatCall
<1> QED
  BY <1>1, <1>2, <1>3, <1>4, <1>5, <1>7, <1>8, CountersSettle

LEMMA ReadClearKeeps ==
  ASSUME ChatInv, NEW c \in ChatCalls, ReadClear(c) PROVE ChatInv'
<1>1. PICK b \in ChatCall : b = cCall[c] /\ b.at = "clear"
  BY ChatTyping DEF ChatInv, ReadClear, Stands
<1>2. HoldsCounters(c) /\ ~Stands(c, "count")
  BY <1>1 DEF HoldsCounters, Stands
<1>3. PICK u \in Participants : u = b.user
  BY <1>1, <1>2 DEF ChatInv, CallsKnowTheirs
<1>4. PICK o \in Participants : o = Other(u) /\ o # u
  BY OtherOne
<1>5. /\ cCall' = [cCall EXCEPT ![c] = Silent] /\ UNCHANGED <<message, tidy>>
      /\ settled' = IF tidy THEN [settled EXCEPT ![u] = Len(message)] ELSE settled
      /\ thread' = [thread EXCEPT !.unread = [b.unread EXCEPT ![u] = 0]]
  BY <1>1, <1>3 DEF ReadClear, Returns
<1>6. PICK n \in Counters : n = [b.unread EXCEPT ![u] = 0]
  <2>1. [b.unread EXCEPT ![u] = 0] \in Counters
    BY DEF ChatCall, Counters
  <2> QED
    BY <2>1
<1>7. n[u] = 0 /\ n[o] = b.unread[o] + 0
  BY <1>4, <1>6 DEF ChatCall, Counters
<1>8. thread' \in Thread /\ thread'.unread = n /\ thread'.last = thread.last
  BY <1>5, <1>6, ChatTyping DEF ChatInv, Thread
<1> QED
  BY <1>1, <1>2, <1>3, <1>4, <1>5, <1>7, <1>8, CountersSettle

LEMMA ChatInvInit ==
  ASSUME ChatInit PROVE ChatInv
<1>1. PICK z \in Counters : z = Zero /\ \A u \in Participants : z[u] = 0
  <2>1. Zero \in Counters /\ \A u \in Participants : Zero[u] = 0
    BY DEF Zero, Counters
  <2> QED
    BY <2>1
<1>2. thread \in Thread /\ thread.unread = z /\ thread.last = 0
  BY <1>1 DEF ChatInit, Thread
<1>3. message \in Seq(Message) /\ Len(message) = 0 /\ message = <<>>
  BY DEF ChatInit
<1>4. /\ cCall \in [ChatCalls -> ChatCall]
      /\ \A c \in ChatCalls : cCall[c].at = "idle" /\ ~HoldsCounters(c)
      /\ tidy = TRUE /\ settled = z
  BY <1>1, SilentTyped DEF ChatInit, HoldsCounters
<1>5. ChatTypeOK
  BY <1>2, <1>3, <1>4, ChatTyping
<1>6. \A u \in Participants : Cardinality(SentTo(u)) = 0 /\ Cardinality(Unseen(u)) = 0
  <2>1. \A u \in Participants : SentTo(u) = {} /\ Unseen(u) = {}
    BY <1>3 DEF SentTo, Unseen
  <2> QED
    BY <2>1, FS_EmptySet
<1>7. CallsKnowTheirs /\ NoMessageIsInvented
  BY <1>1, <1>2, <1>4, <1>6 DEF CallsKnowTheirs, NoMessageIsInvented
<1>8. TidyCountsAll
  BY <1>1, <1>2, <1>3, <1>4, <1>6 DEF TidyCountsAll, Stands
<1> QED
  BY <1>5, <1>7, <1>8 DEF ChatInv

LEMMA ChatInvStep ==
  ASSUME ChatInv, [ChatNext]_chatVars PROVE ChatInv'
<1>1. ASSUME NEW c \in ChatCalls, OpenConversation(c) PROVE ChatInv'
  BY <1>1, OpenReadKeeps, OpenRelinkKeeps DEF OpenConversation
<1>2. ASSUME NEW c \in ChatCalls, SendMessage(c) PROVE ChatInv'
  BY <1>2, ThreadReadKeeps, SendInsertKeeps, SendCountKeeps DEF SendMessage
<1>3. ASSUME NEW c \in ChatCalls, MarkRead(c) PROVE ChatInv'
  BY <1>3, ThreadReadKeeps, ReadMarkKeeps, ReadClearKeeps DEF MarkRead
<1>4. ASSUME UNCHANGED chatVars PROVE ChatInv'
  <2>1. UNCHANGED <<thread, message, cCall, tidy, settled>>
    BY <1>4 DEF chatVars
  <2>2. ChatTypeOK' /\ CallsKnowTheirs'
    BY <2>1 DEF ChatInv, ChatTypeOK, CallsKnowTheirs, HoldsCounters
  <2>3. \A u \in Participants : SentTo(u)' = SentTo(u) /\ Unseen(u)' = Unseen(u)
    BY <2>1 DEF SentTo, Unseen
  <2>4. NoMessageIsInvented' /\ TidyCountsAll'
    BY <2>1, <2>3 DEF ChatInv, NoMessageIsInvented, TidyCountsAll, HoldsCounters, Stands
  <2> QED
    BY <2>2, <2>4 DEF ChatInv
<1> QED
  BY <1>1, <1>2, <1>3, <1>4, ChatFailKeeps, ListMessagesKeeps DEF ChatNext

\* Whatever the number of calls and of messages: as long as no call of sendMessage() or
\* markRead() overlaps another or fails half way, the counters of the thread are the
\* messages not yet seen, and no overlap ever makes a counter larger than the messages.
THEOREM ThreadCountsMessages == ChatSpec => []ThreadAgreesWithMessages
<1>1. ChatInv => ThreadAgreesWithMessages
  BY DEF ChatInv, NoMessageIsInvented, TidyCountsAll, ThreadAgreesWithMessages, Stands
<1> QED
  BY <1>1, ChatInvInit, ChatInvStep, PTL DEF ChatSpec

-----------------------------------------------------------------------------
(* Pages of conversations. *)

\* A finite set has an element that no other comes before, whatever strict order R is.
LEMMA MinimalExists ==
  ASSUME NEW S, IsFiniteSet(S), S # {}, NEW R,
         \A x \in S : <<x, x>> \notin R,
         \A x, y, z \in S : <<x, y>> \in R /\ <<y, z>> \in R => <<x, z>> \in R
  PROVE  \E x \in S : \A y \in S : <<y, x>> \notin R
<1> DEFINE Less(x) == {y \in S : <<y, x>> \in R}
           Sets == {Less(x) : x \in S}
<1>1. Sets \subseteq FiniteSubsetsOf(S) /\ Sets # {}
  <2>1. \A x \in S : Less(x) \subseteq S /\ IsFiniteSet(Less(x))
    BY FS_Subset
  <2>2. \A x \in S : Less(x) \in FiniteSubsetsOf(S)
    BY <2>1 DEF FiniteSubsetsOf
  <2> HIDE DEF Less
  <2> QED
    BY <2>2
<1>2. \E D \in Sets : \A E \in Sets : ~(<<E, D>> \in StrictSubsetOrdering(S))
  <2> HIDE DEF Sets
  <2>1. IsWellFoundedOn(StrictSubsetOrdering(S), FiniteSubsetsOf(S))
    BY FS_StrictSubsetOrderingWellFounded
  <2> QED
    BY <1>1, <2>1, WFMin
<1>3. PICK x \in S : \A E \in Sets : ~(<<E, Less(x)>> \in StrictSubsetOrdering(S))
  BY <1>2
<1>4. ASSUME NEW y \in S, <<y, x>> \in R PROVE FALSE
  <2>1. Less(y) \subseteq Less(x) /\ y \in Less(x) /\ y \notin Less(y)
    BY <1>4
  <2>2. Less(y) \in Sets /\ Less(y) \subseteq S /\ Less(x) \subseteq S
    OBVIOUS
  <2>3. <<Less(y), Less(x)>> \in StrictSubsetOrdering(S)
    BY <2>1, <2>2 DEF StrictSubsetOrdering
  <2> QED
    BY <1>3, <2>2, <2>3
<1> QED
  BY <1>4

-----------------------------------------------------------------------------
(* The order of the inbox *)

LEMMA InboxNumbers == \A t \in Inbox : t \in Nat
BY PagesAssumption DEF Inbox

LEMMA InboxFinite == IsFiniteSet(Inbox)
BY PagesAssumption, FS_Interval DEF Inbox

Ahead == {p \in Inbox \X Inbox : Before(Key(p[1]), Key(p[2]))}
Behind == {p \in Inbox \X Inbox : Before(Key(p[2]), Key(p[1]))}

LEMMA KeysInOrder ==
  ASSUME WalkTypeOK
  PROVE  /\ \A s \in Inbox : ~Before(Key(s), Key(s))
         /\ \A s, t \in Inbox : s # t => Before(Key(s), Key(t)) \/ Before(Key(t), Key(s))
         /\ \A s, t \in Inbox : ~(Before(Key(s), Key(t)) /\ Before(Key(t), Key(s)))
         /\ \A s, t, u \in Inbox : Before(Key(s), Key(t)) /\ Before(Key(t), Key(u))
                                     => Before(Key(s), Key(u))
         /\ \A s, t \in Inbox, k \in Nat \X Inbox :
              Before(Key(s), Key(t)) /\ Before(Key(t), k) => Before(Key(s), k)
<1>1. \A s \in Inbox : s \in Nat /\ updatedAt[s] \in Nat
  BY InboxNumbers DEF WalkTypeOK
<1>2. \A s, t \in Inbox :
        Before(Key(s), Key(t))
          <=> (updatedAt[s] < updatedAt[t] \/ (updatedAt[s] = updatedAt[t] /\ s < t))
  BY DEF Before, Key
<1>3. \A s \in Inbox, k \in Nat \X Inbox :
        Before(Key(s), k)
          <=> (updatedAt[s] < k[1] \/ (updatedAt[s] = k[1] /\ s < k[2]))
  BY DEF Before, Key
<1>4. \A k \in Nat \X Inbox : k[1] \in Nat /\ k[2] \in Nat
  BY InboxNumbers
<1> QED
  BY <1>1, <1>2, <1>3, <1>4

\* The earliest and the latest of some threads.
LEMMA EarliestAndLatest ==
  ASSUME WalkTypeOK, NEW S \in SUBSET Inbox, S # {}
  PROVE  /\ \E t \in S : \A s \in S \ {t} : Before(Key(t), Key(s))
         /\ \E t \in S : \A s \in S \ {t} : Before(Key(s), Key(t))
<1>1. IsFiniteSet(S)
  BY InboxFinite, FS_Subset
<1>2. \A s, t \in S : /\ (<<s, t>> \in Ahead <=> Before(Key(s), Key(t)))
                      /\ (<<s, t>> \in Behind <=> Before(Key(t), Key(s)))
  BY DEF Ahead, Behind
<1>3. \E t \in S : \A s \in S : <<s, t>> \notin Ahead
  <2>1. /\ \A x \in S : <<x, x>> \notin Ahead
        /\ \A x, y, z \in S : <<x, y>> \in Ahead /\ <<y, z>> \in Ahead => <<x, z>> \in Ahead
    BY <1>2, KeysInOrder
  <2> QED
    BY <1>1, <2>1, MinimalExists
<1>4. \E t \in S : \A s \in S : <<s, t>> \notin Behind
  <2>1. /\ \A x \in S : <<x, x>> \notin Behind
        /\ \A x, y, z \in S : <<x, y>> \in Behind /\ <<y, z>> \in Behind => <<x, z>> \in Behind
    BY <1>2, KeysInOrder
  <2> QED
    BY <1>1, <2>1, MinimalExists
<1> QED
  BY <1>2, <1>3, <1>4, KeysInOrder

-----------------------------------------------------------------------------
(* A page *)

\* What is to come, and how much of it comes before a thread.
ToCome == {t \in Inbox : AfterCursor(t)}
Sooner(t) == {s \in Inbox : AfterCursor(s) /\ Before(Key(t), Key(s))}

LEMMA PageHas ==
  \A t \in Inbox : t \in Page <=> AfterCursor(t) /\ Cardinality(Sooner(t)) < PageLimit
BY DEF Page, Sooner

\* Cardinalities of what is to come.
LEMMA SoonerCounted ==
  ASSUME NEW t \in Inbox
  PROVE  /\ IsFiniteSet(Sooner(t)) /\ Cardinality(Sooner(t)) \in Nat
         /\ IsFiniteSet(ToCome) /\ Cardinality(ToCome) \in Nat
<1>1. Sooner(t) \subseteq Inbox /\ ToCome \subseteq Inbox
  BY DEF Sooner, ToCome
<1> QED
  BY <1>1, InboxFinite, FS_Subset, FS_CardinalityType

\* If there is more than a page, the page has a last thread, and what is to come but not
\* on the page is behind it.
LEMMA PageHasLast ==
  ASSUME WalkTypeOK, HasMore
  PROVE  /\ LastOf(Page) \in Page
         /\ \A s \in Page \ {LastOf(Page)} : Before(Key(LastOf(Page)), Key(s))
         /\ \A t \in Inbox : AfterCursor(t) /\ t \notin Page => Before(Key(t), Key(LastOf(Page)))
<1>1. ToCome # {}
  <2>1. ASSUME ToCome = {} PROVE FALSE
    <3>1. Cardinality(ToCome) = 0
      BY <2>1, FS_EmptySet
    <3> QED
      BY <3>1, PagesAssumption DEF HasMore, ToCome
  <2> QED
    BY <2>1
<1>2. PICK n \in ToCome : \A s \in ToCome \ {n} : Before(Key(s), Key(n))
  <2>1. ToCome \in SUBSET Inbox
    BY DEF ToCome
  <2> QED
    BY <1>1, <2>1, EarliestAndLatest
<1>3. n \in Page
  <2>1. n \in Inbox /\ AfterCursor(n)
    BY DEF ToCome
  <2>2. Sooner(n) = {}
    BY <1>2, <2>1, KeysInOrder DEF Sooner, ToCome
  <2>3. Cardinality(Sooner(n)) = 0
    BY <2>2, FS_EmptySet
  <2> QED
    BY <2>1, <2>3, PageHas, PagesAssumption
<1>4. Page \in SUBSET Inbox
  BY DEF Page
<1>5. \E t \in Page : \A s \in Page \ {t} : Before(Key(t), Key(s))
  BY <1>3, <1>4, EarliestAndLatest
<1>6. LastOf(Page) \in Page /\ \A s \in Page \ {LastOf(Page)} : Before(Key(LastOf(Page)), Key(s))
  BY <1>5 DEF LastOf
<1>7. ASSUME NEW t \in Inbox, AfterCursor(t), t \notin Page
      PROVE  Before(Key(t), Key(LastOf(Page)))
  <2>1. PICK l \in Inbox : l = LastOf(Page) /\ l \in Page
    BY <1>4, <1>6
  <2>2. ASSUME Before(Key(l), Key(t)) PROVE FALSE
    <3>1. Sooner(t) \subseteq Sooner(l)
      BY <2>2, KeysInOrder DEF Sooner
    <3>2. Cardinality(Sooner(t)) <= Cardinality(Sooner(l))
      BY <3>1, SoonerCounted, FS_Subset
    <3>3. Cardinality(Sooner(l)) < PageLimit
      BY <2>1, PageHas
    <3>4. Cardinality(Sooner(t)) < PageLimit
      BY <3>2, <3>3, SoonerCounted, PagesAssumption
    <3> QED
      BY <1>7, <3>4, PageHas
  <2> QED
    BY <1>7, <2>1, <2>2, KeysInOrder
<1> QED
  BY <1>6, <1>7

\* If there is no more, the page has all.
LEMMA LastPageHasAll ==
  ASSUME WalkTypeOK, ~HasMore, NEW t \in Inbox, AfterCursor(t)
  PROVE  t \in Page
<1>1. Sooner(t) \subseteq ToCome /\ t \in ToCome /\ t \notin Sooner(t)
  BY KeysInOrder DEF Sooner, ToCome
<1>2. Cardinality(Sooner(t)) < Cardinality(ToCome)
  <2>1. Cardinality(ToCome \ {t}) = Cardinality(ToCome) - 1
    BY <1>1, SoonerCounted, FS_RemoveElement
  <2>2. Sooner(t) \subseteq ToCome \ {t} /\ IsFiniteSet(ToCome \ {t})
    BY <1>1, SoonerCounted, FS_Subset
  <2>3. Cardinality(Sooner(t)) <= Cardinality(ToCome \ {t})
    BY <2>2, FS_Subset
  <2> QED
    BY <2>1, <2>3, SoonerCounted
<1>3. Cardinality(ToCome) <= PageLimit
  BY SoonerCounted, PagesAssumption DEF HasMore, ToCome
<1> QED
  BY <1>2, <1>3, PageHas, SoonerCounted, PagesAssumption

-----------------------------------------------------------------------------
(* The walk *)

LEMMA NextPageKeeps ==
  ASSUME PagesInv, NextPage PROVE PagesInv'
<1>1. WalkTypeOK
  BY DEF PagesInv
<1>2. /\ ~ended /\ ended' = ~HasMore
      /\ shown' = [t \in Inbox |-> IF t \in Page THEN shown[t] + 1 ELSE shown[t]]
      /\ cursor' = IF HasMore THEN Key(LastOf(Page)) ELSE cursor
      /\ UNCHANGED <<updatedAt, clock, touched>>
  BY DEF NextPage
<1>3. \A t \in Inbox : shown[t] \in Nat /\ shown'[t] \in Nat
  BY <1>1, <1>2 DEF WalkTypeOK
<1>4. HasMore => /\ LastOf(Page) \in Inbox
                 /\ Key(LastOf(Page)) \in Nat \X Inbox
  BY <1>1, PageHasLast DEF Page, Key, WalkTypeOK
<1>5. WalkTypeOK'
  <2>1. shown' \in [Inbox -> Nat]
    BY <1>2, <1>3
  <2>2. cursor' \in (Nat \X Inbox) \union {<<>>}
    BY <1>1, <1>2, <1>4 DEF WalkTypeOK
  <2> QED
    BY <1>1, <1>2, <2>1, <2>2 DEF WalkTypeOK
\* The new cursor is at the page's last thread, which is no later than the old one.
<1>6. ASSUME HasMore, NEW t \in Inbox
      PROVE  AfterCursor(t)' <=> (updatedAt[t] > 0 /\ Before(Key(t), Key(LastOf(Page))))
  <2>1. cursor' = Key(LastOf(Page)) /\ Key(LastOf(Page)) # <<>> /\ Key(t)' = Key(t)
    BY <1>2, <1>6 DEF Key
  <2> QED
    BY <1>2, <2>1 DEF AfterCursor
<1>7. ASSUME HasMore, NEW t \in Inbox, AfterCursor(t)' PROVE AfterCursor(t) /\ t \notin Page
  <2>1. PICK l \in Inbox : l = LastOf(Page) /\ l \in Page /\ AfterCursor(l)
    BY <1>1, <1>7, PageHasLast, PageHas DEF Page
  <2>2. updatedAt[t] > 0 /\ Before(Key(t), Key(l))
    BY <1>6, <1>7, <2>1
  <2>3. t \notin Page
    BY <1>1, <1>7, <2>1, <2>2, PageHasLast, KeysInOrder
  <2>4. CASE cursor = <<>>
    BY <2>2, <2>3, <2>4 DEF AfterCursor
  <2>5. CASE cursor # <<>>
    <3>1. cursor \in Nat \X Inbox /\ Before(Key(l), cursor)
      BY <1>1, <2>1, <2>5 DEF AfterCursor, WalkTypeOK
    <3>2. Before(Key(t), cursor)
      BY <1>1, <2>1, <2>2, <3>1, KeysInOrder
    <3> QED
      BY <2>2, <2>3, <3>2 DEF AfterCursor
  <2> QED
    BY <2>4, <2>5
<1>8. ASSUME NEW t \in Inbox, t \in Page
      PROVE  AfterCursor(t) /\ updatedAt[t] > 0 /\ shown'[t] = shown[t] + 1
  BY <1>2, <1>8, PageHas DEF AfterCursor
<1>9. ShownIsBehind'
  <2>1. ASSUME NEW t \in Inbox, t \notin touched, shown'[t] > 0, ~ended', AfterCursor(t)'
        PROVE  FALSE
    <3>1. AfterCursor(t) /\ t \notin Page
      BY <1>2, <1>7, <2>1
    <3>2. shown[t] > 0
      BY <1>2, <2>1, <3>1
    <3> QED
      BY <1>2, <2>1, <3>1, <3>2 DEF PagesInv, ShownIsBehind
  <2> QED
    BY <1>2, <2>1 DEF ShownIsBehind
<1>10. TheRestIsAhead'
  <2>1. ASSUME NEW t \in Inbox, t \notin touched PROVE shown'[t] <= 1
    <3>1. CASE t \in Page
      <4>1. ~(shown[t] > 0)
        BY <1>2, <1>8, <2>1, <3>1 DEF PagesInv, ShownIsBehind
      <4> QED
        BY <1>3, <1>8, <3>1, <4>1
    <3>2. CASE t \notin Page
      BY <1>2, <2>1, <3>2 DEF PagesInv, TheRestIsAhead
    <3> QED
      BY <3>1, <3>2
  <2>2. ASSUME NEW t \in Inbox, t \notin touched, shown'[t] = 0, updatedAt'[t] > 0
        PROVE  ~ended' /\ AfterCursor(t)'
    <3>1. t \notin Page /\ shown[t] = 0
      BY <1>2, <1>3, <1>8, <2>2
    <3>2. AfterCursor(t)
      BY <1>2, <2>2, <3>1 DEF PagesInv, TheRestIsAhead
    <3>3. HasMore
      BY <1>1, <3>1, <3>2, LastPageHasAll
    <3> QED
      BY <1>1, <1>2, <1>6, <2>2, <3>1, <3>2, <3>3, PageHasLast
  <2> QED
    BY <1>2, <2>1, <2>2 DEF TheRestIsAhead
<1> QED
  BY <1>5, <1>9, <1>10 DEF PagesInv

LEMMA PagesInvStep ==
  ASSUME PagesInv, [PagesNext]_pageVars PROVE PagesInv'
<1>1. ASSUME NEW t \in Inbox, Touch(t) PROVE PagesInv'
  <2>1. WalkTypeOK'
    BY <1>1 DEF PagesInv, WalkTypeOK, Touch
  <2>2. \A s \in Inbox \ touched' :
          s \notin touched /\ updatedAt'[s] = updatedAt[s] /\ (AfterCursor(s)' <=> AfterCursor(s))
    BY <1>1 DEF PagesInv, WalkTypeOK, Touch, AfterCursor, Key
  <2>3. shown' = shown /\ ended' = ended
    BY <1>1 DEF Touch
  <2> QED
    BY <2>1, <2>2, <2>3 DEF PagesInv, ShownIsBehind, TheRestIsAhead
<1>2. ASSUME Pass PROVE PagesInv'
  BY <1>2 DEF Pass, PagesInv, WalkTypeOK, ShownIsBehind, TheRestIsAhead, AfterCursor, Key
<1>3. ASSUME FirstPage PROVE PagesInv'
  <2>1. WalkTypeOK'
    BY <1>3 DEF FirstPage, PagesInv, WalkTypeOK
  <2>2. \A s \in Inbox : shown'[s] = 0 /\ (updatedAt'[s] > 0 => AfterCursor(s)')
    BY <1>3 DEF FirstPage, AfterCursor
  <2>3. ~ended'
    BY <1>3 DEF FirstPage
  <2> QED
    BY <2>1, <2>2, <2>3 DEF PagesInv, ShownIsBehind, TheRestIsAhead
<1>4. ASSUME UNCHANGED pageVars PROVE PagesInv'
  BY <1>4 DEF pageVars, PagesInv, WalkTypeOK, ShownIsBehind, TheRestIsAhead, AfterCursor, Key
<1> QED
  BY <1>1, <1>2, <1>3, <1>4, NextPageKeeps DEF PagesNext

LEMMA PagesInvInit ==
  ASSUME PagesInit PROVE PagesInv
<1>1. WalkTypeOK
  <2>1. updatedAt \in [Inbox -> Nat]
    BY DEF PagesInit
  <2>2. shown \in [Inbox -> Nat] /\ cursor = <<>> /\ clock = 1 /\ touched = {} /\ ended = FALSE
    BY DEF PagesInit
  <2>3. cursor \in (Nat \X Inbox) \union {<<>>} /\ clock \in Nat \ {0}
    BY <2>2
  <2> QED
    BY <2>1, <2>2, <2>3, Zenon DEF WalkTypeOK
<1>2. \A s \in Inbox : shown[s] = 0 /\ (updatedAt[s] > 0 => AfterCursor(s))
  BY DEF PagesInit, AfterCursor
<1>3. ~ended
  BY DEF PagesInit
<1> QED
  BY <1>1, <1>2, <1>3 DEF PagesInv, ShownIsBehind, TheRestIsAhead

\* However many conversations there are, whatever the limit, and however many of them are
\* written while he turns the pages of listConversations(): whoever turns them to the end
\* has seen each conversation that was not written meanwhile once.
THEOREM PagesShowEachOnce == PagesSpec => []PagesCoverInbox
<1>1. PagesInv => PagesCoverInbox
  <2>1. ASSUME PagesInv, NEW t \in Inbox, t \notin touched, ended, updatedAt[t] > 0
        PROVE  shown[t] = 1
    <3>1. shown[t] \in Nat /\ shown[t] <= 1 /\ shown[t] # 0
      BY <2>1 DEF PagesInv, WalkTypeOK, TheRestIsAhead
    <3> QED
      BY <3>1
  <2> QED
    BY <2>1 DEF PagesInv, TheRestIsAhead, PagesCoverInbox
<1> QED
  BY <1>1, PagesInvInit, PagesInvStep, PTL DEF PagesSpec

-----------------------------------------------------------------------------
(* The services side by side. *)

\* The bounds of the pages' clock hold whatever is written and turned.
LEMMA PagesTypeStep ==
  ASSUME PagesInv, PagesTypeOK, [PagesNext]_pageVars PROVE PagesTypeOK'
<1>1. WalkTypeOK /\ MaxStamp \in Nat \ {0}
  BY PagesAssumption DEF PagesInv
<1>2. ASSUME NEW t \in Inbox, Touch(t) PROVE PagesTypeOK'
  BY <1>1, <1>2 DEF Touch, PagesTypeOK
<1>3. ASSUME Pass PROVE PagesTypeOK'
  BY <1>1, <1>3 DEF Pass, PagesTypeOK
<1>4. ASSUME FirstPage PROVE PagesTypeOK'
  BY <1>1, <1>4 DEF FirstPage, PagesTypeOK
<1>5. ASSUME NextPage PROVE PagesTypeOK'
  <2>1. PagesInv'
    BY NextPageKeeps, <1>5
  <2>2. shown' \in [Inbox -> Nat] /\ ended' \in BOOLEAN
    BY <2>1 DEF PagesInv, WalkTypeOK
  <2>3. UNCHANGED <<updatedAt, clock, touched>>
        /\ cursor' = IF HasMore THEN Key(LastOf(Page)) ELSE cursor
    BY <1>5 DEF NextPage
  <2>4. HasMore => Key(LastOf(Page)) \in (1..MaxStamp) \X Inbox
    <3> SUFFICES ASSUME HasMore PROVE Key(LastOf(Page)) \in (1..MaxStamp) \X Inbox
      OBVIOUS
    <3>1. LastOf(Page) \in Inbox /\ updatedAt[LastOf(Page)] > 0
      BY <1>1, PageHasLast, PageHas DEF AfterCursor, Page
    <3>2. updatedAt[LastOf(Page)] \in 1..MaxStamp
      BY <1>1, <3>1 DEF PagesTypeOK
    <3> QED
      BY <3>1, <3>2 DEF Key
  <2> QED
    BY <2>2, <2>3, <2>4 DEF PagesTypeOK
<1>6. ASSUME UNCHANGED pageVars PROVE PagesTypeOK'
  BY <1>6 DEF pageVars, PagesTypeOK
<1> QED
  BY <1>2, <1>3, <1>4, <1>5, <1>6 DEF PagesNext

LEMMA PagesAreTyped == PagesSpec => []PagesTypeOK
<1>1. PagesInit => PagesInv /\ PagesTypeOK
  <2> SUFFICES ASSUME PagesInit PROVE PagesTypeOK
    BY PagesInvInit
  <2>1. MaxStamp \in Nat \ {0} /\ 0..1 \subseteq 0..MaxStamp
    BY PagesAssumption
  <2>2. updatedAt \in [Inbox -> 0..MaxStamp]
    BY <2>1 DEF PagesInit
  <2>3. clock \in 1..MaxStamp
    BY <2>1 DEF PagesInit
  <2>4. cursor = <<>> /\ shown \in [Inbox -> Nat] /\ touched = {} /\ ended = FALSE
    BY DEF PagesInit
  <2> QED
    BY <2>2, <2>3, <2>4, Zenon DEF PagesTypeOK
<1>2. PagesInv /\ PagesTypeOK /\ [PagesNext]_pageVars => (PagesInv /\ PagesTypeOK)'
  BY PagesInvStep, PagesTypeStep
<1> QED
  BY <1>1, <1>2, PTL DEF PagesSpec

\* Each of the services, in whatever company, behaves as it does alone: what is proved of
\* one of them holds of all of them together.
THEOREM ServicesKeepApart ==
  ServicesSpec => /\ SessionsSpec /\ RatingsSpec /\ ChatSpec /\ PagesSpec /\ QuotaSpec
                  /\ SearchSpec /\ PresenceSpec /\ ContentSpec /\ ActivationSpec
<1>1. ServicesInit => /\ SessionsInit /\ RatingsInit /\ ChatInit /\ PagesInit /\ QuotaInit
                      /\ SearchInit /\ PresenceInit /\ ContentInit /\ ActivationInit
  BY DEF ServicesInit
<1>2. [ServicesNext]_serviceVars =>
        /\ [SessionsNext]_sessionVars /\ [RatingsNext]_ratingVars /\ [ChatNext]_chatVars
        /\ [PagesNext]_pageVars /\ [QuotaNext]_quotaVars /\ [SearchNext]_searchVars
        /\ [PresenceNext]_presenceVars /\ [ContentNext]_contentVars
        /\ [ActivationNext]_profileVars
  BY DEF ServicesNext, SessionsStep, RatingsStep, ChatStep, PagesStep, QuotaStep, SearchStep,
         PresenceStep, ContentStep, ProfileStep, serviceVars
<1> QED
  BY <1>1, <1>2, PTL
  DEF ServicesSpec, SessionsSpec, RatingsSpec, ChatSpec, PagesSpec, QuotaSpec, SearchSpec,
      PresenceSpec, ContentSpec, ActivationSpec

\* What the services keep is typed, and so are their calls in flight, whichever of them
\* are called, whatever overlaps, fails or is lost.
THEOREM ServicesAreTyped == ServicesSpec => []ServicesTypeOK
<1>1. /\ SessionsInv => SessionsTypeOK
      /\ RatingsInv => RatingsTypeOK
      /\ ChatInv => ChatTypeOK
      /\ QuotaInv => QuotaTypeOK
      /\ SearchInv => SearchTypeOK
      /\ PresenceInv => PresenceTypeOK
  BY DEF SessionsInv, RatingsInv, ChatInv, QuotaInv, SearchInv, PresenceInv
<1>2. RatingsSpec => []RatingsInv
  BY RatingsInvInit, RatingsInvStep, PTL DEF RatingsSpec
<1>3. ChatSpec => []ChatInv
  BY ChatInvInit, ChatInvStep, PTL DEF ChatSpec
<1>4. QuotaSpec => []QuotaInv
  BY QuotaInvInit, QuotaInvStep, PTL DEF QuotaSpec
<1>5. SearchSpec => []SearchInv
  BY SearchInvInit, SearchInvStep, PTL DEF SearchSpec
<1>6. (/\ SessionsTypeOK /\ RatingsTypeOK /\ ChatTypeOK /\ PagesTypeOK /\ QuotaTypeOK
       /\ SearchTypeOK /\ PresenceTypeOK /\ ContentTypeOK /\ ActivationTypeOK)
        => ServicesTypeOK
  BY Zenon DEF ServicesTypeOK
<1> QED
  BY <1>1, <1>2, <1>3, <1>4, <1>5, <1>6, ServicesKeepApart, SessionsInOrder, DatesGoWithKeys,
     PagesAreTyped, ContentInvAlways, ActivationIsTyped, PTL
=============================================================================
