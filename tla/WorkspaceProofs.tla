---------------------------- MODULE WorkspaceProofs ----------------------------
(***************************************************************************)
(* What the panels of the workspace load is typed, and what they and its   *)
(* rails show agrees with what they sum up and with each other.            *)
(***************************************************************************)
EXTENDS ListingProofs

-----------------------------------------------------------------------------
(* Reviews of the platform: what the keys and the pages hold. *)

ReviewKey(sort) ==
  [n \in Reviews |-> IF sort = "rating_desc" THEN <<-opinions[n].stars, -n>> ELSE <<-n>>]

Rated(star) == {n \in Reviews : opinions[n].stars = star}

\* The reviews in the range, and their stars.
LEMMA ReviewsInRange ==
  ASSUME OpinionsInv
  PROVE  /\ Len(opinions) \in Nat /\ DOMAIN opinions = 1..Len(opinions)
         /\ Reviews \subseteq 1..Len(opinions) /\ IsFiniteSet(Reviews)
         /\ Cardinality(Reviews) \in Nat
         /\ \A n \in 1..Len(opinions) : opinions[n].stars \in 1..5
         /\ \A n \in 1..Len(opinions) : opinions[n].day \in Nat
<1> DEFINE T == [stars: OpinionStars, day: 0..LastReviewDay]
<1>0. opinions \in Seq(T)
  BY DEF OpinionsInv, OpinionsTypeOK
<1>6. ASSUME NEW x \in T PROVE x.stars \in 1..5 /\ x.day \in Nat
  <2>1. x.stars \in OpinionStars /\ x.day \in 0..LastReviewDay
    OBVIOUS
  <2>2. OpinionStars \subseteq 1..5 /\ 0..LastReviewDay \subseteq Nat
    BY ReviewRailAssumption
  <2> QED
    BY <2>1, <2>2
<1> HIDE DEF T
<1>1. Len(opinions) \in Nat /\ DOMAIN opinions = 1..Len(opinions)
  BY <1>0
<1>2. \A n \in 1..Len(opinions) : opinions[n].stars \in 1..5 /\ opinions[n].day \in Nat
  <2>1. \A n \in 1..Len(opinions) : opinions[n] \in T
    BY <1>0
  <2> QED
    BY <1>6, <2>1
<1>3. Reviews \subseteq 1..Len(opinions)
  BY <1>1 DEF Reviews
<1>4. IsFiniteSet(1..Len(opinions))
  BY <1>1, FS_Interval
<1>5. IsFiniteSet(Reviews)
  BY <1>3, <1>4, FS_Subset
<1> QED
  BY <1>1, <1>2, <1>3, <1>5, FS_CardinalityType

LEMMA ReviewsAreSorted ==
  ASSUME OpinionsInv, NEW sort
  PROVE  IsSorted(SortedReviews(sort), Reviews, ReviewKey(sort))
<1> DEFINE L == IF sort = "rating_desc" THEN 2 ELSE 1
<1>1. L \in Nat
  OBVIOUS
<1>2. \A n \in Reviews : n \in Int /\ opinions[n].stars \in Int
  BY ReviewsInRange
<1>3. \A n \in Reviews : IsKey(ReviewKey(sort)[n], L)
  BY <1>2 DEF ReviewKey, IsKey
<1>4. ASSUME NEW m \in Reviews, NEW n \in Reviews, ReviewKey(sort)[m] = ReviewKey(sort)[n]
      PROVE  m = n
  <2>1. CASE sort = "rating_desc"
    <3>1. <<-opinions[m].stars, -m>> = <<-opinions[n].stars, -n>>
      BY <1>4, <2>1 DEF ReviewKey
    <3>2. -m = -n
      BY <3>1
    <3> QED
      BY <1>2, <3>2
  <2>2. CASE sort # "rating_desc"
    <3>1. <<-m>> = <<-n>>
      BY <1>4, <2>2 DEF ReviewKey
    <3>2. -m = -n
      BY <3>1
    <3> QED
      BY <1>2, <3>2
  <2> QED
    BY <2>1, <2>2
<1>5. IsFiniteSet(Reviews)
  BY ReviewsInRange
<1> HIDE DEF L
<1>6. IsSorted(InOrder(Reviews, ReviewKey(sort)), Reviews, ReviewKey(sort))
  BY <1>1, <1>3, <1>4, <1>5, InOrderSorts
<1>7. SortedReviews(sort) = InOrder(Reviews, ReviewKey(sort))
  BY DEF SortedReviews, ReviewKey
<1> QED
  BY <1>6, <1>7

\* What a page holds, and that it is full unless the list ends in it.
LEMMA PageHolds ==
  ASSUME OpinionsInv, NEW sort, NEW offset \in Nat
  PROVE  /\ ReviewPage(sort, offset) \subseteq Reviews
         /\ \A k \in 1..Len(SortedReviews(sort)) :
              (k > offset /\ k <= offset + PageSize) =>
                SortedReviews(sort)[k] \in ReviewPage(sort, offset)
         /\ offset + PageSize <= Len(SortedReviews(sort)) =>
              ~(Cardinality(ReviewPage(sort, offset)) < PageSize)
<1> DEFINE list == SortedReviews(sort)
           key == ReviewKey(sort)
           last == AtMost(offset + PageSize, Len(list))
<1>1. IsSorted(list, Reviews, key)
  BY ReviewsAreSorted
<1> HIDE DEF list, key
<1>2. PageSize \in Nat \ {0} /\ list \in Seq(Reviews) /\ Len(list) \in Nat
  BY <1>1, ReviewRailAssumption DEF IsSorted
<1>3. ReviewPage(sort, offset) = {list[k] : k \in (offset + 1)..last}
  BY DEF ReviewPage, list
<1>4. last \in Nat /\ last <= Len(list) /\ last <= offset + PageSize
      /\ (last = Len(list) \/ last = offset + PageSize)
  BY <1>2 DEF AtMost
<1> HIDE DEF last
<1>5. \A k \in (offset + 1)..last : k \in 1..Len(list) /\ list[k] \in Reviews
  BY <1>2, <1>4
<1>6. ReviewPage(sort, offset) \subseteq Reviews
  BY <1>3, <1>5
<1>7. ASSUME NEW k \in 1..Len(list), k > offset, k <= offset + PageSize
      PROVE  list[k] \in ReviewPage(sort, offset)
  <2>1. k \in (offset + 1)..last
    BY <1>2, <1>4, <1>7
  <2> QED
    BY <1>3, <2>1
<1>8. ASSUME offset + PageSize <= Len(list)
      PROVE  ~(Cardinality(ReviewPage(sort, offset)) < PageSize)
  <2>1. last = offset + PageSize
    BY <1>2, <1>8 DEF last, AtMost
  <2>2. offset <= last
    BY <1>2, <2>1
  <2>3. Cardinality(Stretch(list, offset, last)) = last - offset
    BY <1>1, <1>4, <2>2, StretchCount
  <2> QED
    BY <1>2, <1>3, <2>1, <2>3 DEF Stretch
<1> QED
  BY <1>6, <1>7, <1>8 DEF list

\* Newest first a review is where its number says.
LEMMA NewestFirst ==
  ASSUME OpinionsInv, NEW n \in Reviews
  PROVE  LET list == SortedReviews("created_desc")
             k == Len(opinions) + 1 - n
         IN  k \in 1..Len(list) /\ list[k] = n
<1> DEFINE list == SortedReviews("created_desc")
           key == ReviewKey("created_desc")
           N == Len(opinions)
<1>1. IsSorted(list, Reviews, key)
  BY ReviewsAreSorted
<1>2. N \in Nat /\ Reviews \subseteq 1..N /\ DOMAIN opinions = 1..N
  BY ReviewsInRange
<1> HIDE DEF list, N
<1>3. \A x \in Reviews : key[x] = <<-x>>
  BY DEF ReviewKey
<1> HIDE DEF key
<1>4. PICK k \in 1..Len(list) : list[k] = n
  BY <1>1 DEF IsSorted
<1>5. Len(list) \in Nat
  BY <1>1 DEF IsSorted
<1>6. {y \in Reviews : Precedes(key[y], key[n])} = (n + 1)..N
  <2>1. ASSUME NEW y \in Reviews
        PROVE  Precedes(key[y], key[n]) <=> n < y
    <3>1. y \in Int /\ n \in Int /\ -y \in Int /\ -n \in Int
      BY <1>2
    <3>2. Precedes(<<-y>>, <<-n>>) <=> -y < -n
      BY <3>1, PrecedesOne
    <3> QED
      BY <1>3, <3>1, <3>2
  <2>2. ASSUME NEW y \in (n + 1)..N PROVE y \in Reviews
    <3>1. y \in 1..N /\ n \in 1..N /\ n <= y
      BY <1>2
    <3>2. opinions[n].day <= opinions[y].day /\ opinions[n].day >= reviewDay - RangeDays
      BY <1>2, <3>1 DEF OpinionsInv, DaysInOrder, Reviews, InRange
    <3>3. opinions[n].day \in Int /\ opinions[y].day \in Int /\ reviewDay \in Int /\ RangeDays \in Int
      <4>1. opinions[n].day \in Nat /\ opinions[y].day \in Nat
        BY <3>1, ReviewsInRange DEF N
      <4> QED
        BY <4>1, ReviewRailAssumption DEF OpinionsInv, ReaderTypeOK
    <3> QED
      BY <1>2, <3>1, <3>2, <3>3 DEF Reviews, InRange
  <2>3. \A y \in Reviews : n < y => y \in (n + 1)..N
    BY <1>2
  <2>4. \A y \in (n + 1)..N : n < y
    BY <1>2
  <2> QED
    BY <2>1, <2>2, <2>3, <2>4
<1>7. Cardinality((n + 1)..N) = k - 1
  BY <1>1, <1>4, <1>6 DEF IsSorted
<1>8. Cardinality((n + 1)..N) = N - n
  <2>1. n + 1 \in Int /\ N \in Int /\ n \in 1..N
    BY <1>2
  <2>2. Cardinality((n + 1)..N) = IF n + 1 > N THEN 0 ELSE N - (n + 1) + 1
    BY <2>1, FS_Interval
  <2> QED
    BY <2>1, <2>2
<1>9. k = N + 1 - n
  BY <1>2, <1>4, <1>5, <1>7, <1>8
<1> QED
  BY <1>4, <1>9 DEF list, N

-----------------------------------------------------------------------------
(* The reviews and their reader. *)

LEMMA OpinionsInvInit == OpinionsInit => OpinionsInv
<1> SUFFICES ASSUME OpinionsInit PROVE OpinionsInv
  OBVIOUS
<1> USE ReviewRailAssumption DEF OpinionsInit, NoReader
<1>1. OpinionsTypeOK
  BY DEF OpinionsTypeOK
<1>2. ReaderTypeOK
  <2>1. reader \in [sort: {"none", "created_desc", "rating_desc"}, offset: Nat,
                    seen: SUBSET DOMAIN opinions, began: 0..Len(opinions), done: BOOLEAN]
    OBVIOUS
  <2> QED
    BY <2>1 DEF ReaderTypeOK
<1>3. DaysInOrder
  BY DEF DaysInOrder
<1>4. SeenOrToCome /\ SeenUpToOffset
  BY DEF SeenOrToCome, SeenUpToOffset
<1> QED
  BY <1>1, <1>2, <1>3, <1>4 DEF OpinionsInv

LEMMA ReviewWritten ==
  ASSUME OpinionsInv, NEW stars \in OpinionStars, PlatformReview(stars)
  PROVE  OpinionsInv'
<1> DEFINE new == [stars |-> stars, day |-> reviewDay]
           N == Len(opinions)
<1> USE ReviewRailAssumption
<1>1. /\ opinions' = Append(opinions, new)
      /\ reviewDay' = reviewDay /\ reader' = reader
  BY DEF PlatformReview
<1>2. /\ OpinionsTypeOK /\ ReaderTypeOK /\ DaysInOrder /\ SeenOrToCome
      /\ opinions \in Seq([stars: OpinionStars, day: 0..LastReviewDay])
      /\ reviewDay \in 0..LastReviewDay
  BY DEF OpinionsInv, OpinionsTypeOK, ReaderTypeOK
<1>3. new \in [stars: OpinionStars, day: 0..LastReviewDay]
  BY <1>2
<1> HIDE DEF new
<1>4. /\ opinions' \in Seq([stars: OpinionStars, day: 0..LastReviewDay])
      /\ N \in Nat /\ Len(opinions') = N + 1
      /\ DOMAIN opinions = 1..N /\ DOMAIN opinions' = 1..(N + 1)
      /\ \A n \in 1..N : opinions'[n] = opinions[n]
      /\ opinions'[N + 1] = new
  BY <1>1, <1>2, <1>3
<1> HIDE DEF N
<1>5. OpinionsTypeOK'
  BY <1>1, <1>2, <1>4 DEF OpinionsTypeOK, N
<1>6. ReaderTypeOK'
  <2>1. SUBSET DOMAIN opinions \subseteq SUBSET DOMAIN opinions'
    BY <1>4
  <2>2. 0..N \subseteq 0..(N + 1)
    BY <1>4
  <2>3. reader \in [sort: {"none", "created_desc", "rating_desc"}, offset: Nat,
                    seen: SUBSET DOMAIN opinions, began: 0..N, done: BOOLEAN]
    BY <1>2 DEF ReaderTypeOK, N
  <2>4. reader \in [sort: {"none", "created_desc", "rating_desc"}, offset: Nat,
                    seen: SUBSET DOMAIN opinions', began: 0..(N + 1), done: BOOLEAN]
    BY <2>1, <2>2, <2>3
  <2>5. reader' \in [sort: {"none", "created_desc", "rating_desc"}, offset: Nat,
                     seen: SUBSET DOMAIN opinions', began: 0..Len(opinions'), done: BOOLEAN]
    BY <1>1, <1>4, <2>4
  <2> QED
    BY <1>1, <1>2, <2>5 DEF ReaderTypeOK
<1>7. DaysInOrder'
  <2> SUFFICES ASSUME NEW m \in 1..(N + 1), NEW n \in 1..(N + 1), m <= n
               PROVE  opinions'[m].day <= opinions'[n].day /\ opinions'[n].day <= reviewDay
    BY <1>1, <1>4 DEF DaysInOrder
  <2>1. CASE n \in 1..N
    <3>1. m \in 1..N
      BY <1>4, <2>1
    <3> QED
      BY <1>2, <1>4, <2>1, <3>1 DEF DaysInOrder
  <2>2. CASE n = N + 1 /\ m \in 1..N
    <3>1. opinions[m].day <= reviewDay
      BY <1>2, <1>4, <2>2 DEF DaysInOrder
    <3> QED
      BY <1>2, <1>4, <2>2, <3>1 DEF new
  <2>3. CASE n = N + 1 /\ m = N + 1
    BY <1>2, <1>4, <2>3 DEF new
  <2> QED
    BY <1>4, <2>1, <2>2, <2>3
<1>8. SeenOrToCome'
  <2> SUFFICES ASSUME reader.sort = "created_desc", NEW n \in Reviews', n <= reader.began
               PROVE  n \in reader.seen \/ (~reader.done /\ n + reader.offset <= N + 1)
    BY <1>1, <1>4 DEF SeenOrToCome
  <2>0. reader.began \in 0..N /\ reader.offset \in Nat
    BY <1>2 DEF ReaderTypeOK, N
  <2>1. n \in 1..(N + 1) /\ n <= N
    BY <1>4, <2>0 DEF Reviews
  <2>2. n \in 1..N
    BY <1>4, <2>1
  <2>3. n \in Reviews
    BY <1>1, <1>4, <2>2 DEF Reviews, InRange
  <2>4. n \in reader.seen \/ (~reader.done /\ n + reader.offset <= N)
    BY <1>2, <2>3 DEF SeenOrToCome, N
  <2> QED
    BY <1>4, <2>0, <2>2, <2>4
<1>9. SeenUpToOffset'
  <2>1. reader.began \in 0..N
    BY <1>2 DEF ReaderTypeOK, N
  <2>2. Len(opinions') # reader'.began
    BY <1>1, <1>4, <2>1
  <2> QED
    BY <2>2 DEF SeenUpToOffset
<1> QED
  BY <1>5, <1>6, <1>7, <1>8, <1>9 DEF OpinionsInv

LEMMA DayPassed ==
  ASSUME OpinionsInv, ReviewDayPasses
  PROVE  OpinionsInv'
<1> USE ReviewRailAssumption
<1>1. /\ opinions' = opinions /\ reader' = reader /\ reviewDay' = reviewDay + 1
      /\ reviewDay' \in 0..LastReviewDay /\ reviewDay \in Nat
  BY DEF ReviewDayPasses, OpinionsInv, ReaderTypeOK
<1>2. OpinionsTypeOK'
  BY <1>1 DEF OpinionsTypeOK, OpinionsInv
<1>3. ReaderTypeOK'
  BY <1>1 DEF ReaderTypeOK, OpinionsInv
<1>4. \A n \in DOMAIN opinions : opinions[n].day \in Nat
  BY ReviewsInRange
<1>5. DaysInOrder'
  <2> SUFFICES ASSUME NEW m \in DOMAIN opinions, NEW n \in DOMAIN opinions, m <= n
               PROVE  opinions[m].day <= opinions[n].day /\ opinions[n].day <= reviewDay + 1
    BY <1>1 DEF DaysInOrder
  <2>1. opinions[m].day <= opinions[n].day /\ opinions[n].day <= reviewDay
    BY DEF OpinionsInv, DaysInOrder
  <2> QED
    BY <1>1, <1>4, <2>1
<1>6. Reviews' \subseteq Reviews
  <2> SUFFICES ASSUME NEW n \in DOMAIN opinions, opinions[n].day >= (reviewDay + 1) - RangeDays
               PROVE  opinions[n].day >= reviewDay - RangeDays
    BY <1>1 DEF Reviews, InRange
  <2> QED
    BY <1>1, <1>4
<1>7. SeenOrToCome'
  BY <1>1, <1>6 DEF SeenOrToCome, OpinionsInv
<1>8. SeenUpToOffset'
  <2>1. ASSUME Reviews' = DOMAIN opinions'
        PROVE  Reviews' = Reviews /\ SortedReviews("rating_desc")' = SortedReviews("rating_desc")
    <3>1. Reviews' = Reviews
      BY <1>1, <1>6, <2>1 DEF Reviews
    <3>2. ReviewKey("rating_desc")' = ReviewKey("rating_desc")
      BY <1>1, <3>1 DEF ReviewKey
    <3> QED
      BY <3>1, <3>2 DEF SortedReviews, ReviewKey
  <2> QED
    BY <1>1, <2>1 DEF SeenUpToOffset, OpinionsInv
<1> QED
  BY <1>2, <1>3, <1>5, <1>7, <1>8 DEF OpinionsInv

LEMMA PageRead ==
  ASSUME OpinionsInv, NEW sort \in {"created_desc", "rating_desc"}, ReadPage(sort)
  PROVE  OpinionsInv'
<1> DEFINE page == ReviewPage(sort, reader.offset)
           began == IF reader.sort = "none" THEN Len(opinions) ELSE reader.began
           list == SortedReviews(sort)
<1> USE ReviewRailAssumption
<1>1. /\ opinions' = opinions /\ reviewDay' = reviewDay
      /\ ~reader.done /\ reader.sort \in {"none", sort}
      /\ reader' = [sort |-> sort, offset |-> reader.offset + PageSize,
                    seen |-> reader.seen \union page, began |-> began,
                    done |-> Cardinality(page) < PageSize]
  BY Zenon DEF ReadPage
<1>2. /\ reader \in [sort: {"none", "created_desc", "rating_desc"}, offset: Nat,
                     seen: SUBSET DOMAIN opinions, began: 0..Len(opinions), done: BOOLEAN]
      /\ reader.sort = "none" => reader.offset = 0
  BY DEF OpinionsInv, ReaderTypeOK
<1>3. reader.offset \in Nat /\ reader.seen \subseteq DOMAIN opinions
      /\ reader.began \in 0..Len(opinions)
  BY <1>2
<1>4. /\ Len(opinions) \in Nat /\ DOMAIN opinions = 1..Len(opinions)
      /\ Reviews \subseteq 1..Len(opinions)
  BY ReviewsInRange
<1>5. /\ page \subseteq Reviews
      /\ \A k \in 1..Len(list) :
           (k > reader.offset /\ k <= reader.offset + PageSize) => list[k] \in page
      /\ reader.offset + PageSize <= Len(list) => ~(Cardinality(page) < PageSize)
  BY <1>3, PageHolds
<1>6. IsSorted(list, Reviews, ReviewKey(sort))
  BY ReviewsAreSorted
<1>7. Len(list) \in Nat /\ list \in Seq(Reviews)
  BY <1>6 DEF IsSorted
<1>8. began \in 0..Len(opinions)
  BY <1>3, <1>4
<1> HIDE DEF page, began, list
<1>9. /\ reader'.sort = sort /\ reader'.offset = reader.offset + PageSize
      /\ reader'.seen = reader.seen \union page /\ reader'.began = began
      /\ reader'.done = (Cardinality(page) < PageSize)
  BY <1>1
<1>10. OpinionsTypeOK'
  BY <1>1, <1>3, <1>4, <1>5, <1>8, <1>9 DEF OpinionsTypeOK, OpinionsInv
<1>11. ReaderTypeOK'
  <2>1. reader.seen \union page \in SUBSET DOMAIN opinions
    BY <1>3, <1>4, <1>5
  <2>2. reader.offset + PageSize \in Nat
    BY <1>3
  <2>3. (Cardinality(page) < PageSize) \in BOOLEAN
    OBVIOUS
  <2>4. reader' \in [sort: {"none", "created_desc", "rating_desc"}, offset: Nat,
                     seen: SUBSET DOMAIN opinions, began: 0..Len(opinions), done: BOOLEAN]
    BY <1>1, <1>8, <2>1, <2>2, <2>3
  <2>5. reader'.sort # "none"
    BY <1>9
  <2> QED
    BY <1>1, <2>4, <2>5 DEF ReaderTypeOK, OpinionsInv
<1>12. DaysInOrder'
  BY <1>1 DEF DaysInOrder, OpinionsInv
<1>13. Reviews' = Reviews
  BY <1>1 DEF Reviews, InRange
<1>14. SeenOrToCome'
  <2> SUFFICES ASSUME sort = "created_desc", NEW n \in Reviews, n <= began
               PROVE  \/ n \in reader.seen \union page
                      \/ /\ ~(Cardinality(page) < PageSize)
                         /\ n + (reader.offset + PageSize) <= Len(opinions)
    BY <1>1, <1>9, <1>13 DEF SeenOrToCome
  <2>1. n \in 1..Len(opinions)
    BY <1>4
  <2>2. n \in reader.seen \/ n + reader.offset <= Len(opinions)
    <3>1. CASE reader.sort = "none"
      BY <1>2, <1>4, <2>1, <3>1
    <3>2. CASE reader.sort = sort
      <4>1. reader.sort = "created_desc" /\ n <= reader.began
        BY <3>2 DEF began
      <4> QED
        BY <4>1 DEF OpinionsInv, SeenOrToCome
    <3> QED
      BY <1>1, <3>1, <3>2
  <2> DEFINE k == Len(opinions) + 1 - n
  <2>3. k \in 1..Len(list) /\ list[k] = n
    BY NewestFirst DEF list
  <2>4. CASE n + (reader.offset + PageSize) <= Len(opinions)
    <3>1. reader.offset + PageSize <= Len(list)
      BY <1>3, <1>4, <1>7, <2>1, <2>3, <2>4
    <3> QED
      BY <1>5, <2>4, <3>1
  <2>5. CASE ~(n + (reader.offset + PageSize) <= Len(opinions)) /\ n + reader.offset <= Len(opinions)
    <3>1. k > reader.offset /\ k <= reader.offset + PageSize
      BY <1>3, <1>4, <2>1, <2>5
    <3> HIDE DEF k
    <3> QED
      BY <1>5, <2>3, <3>1
  <2> QED
    BY <2>2, <2>4, <2>5
<1>15. SeenUpToOffset'
  <2>1. list' = list
    <3>1. ReviewKey(sort)' = ReviewKey(sort)
      BY <1>1, <1>13 DEF ReviewKey
    <3> QED
      BY <1>13, <3>1 DEF list, SortedReviews, ReviewKey
  <2> SUFFICES ASSUME sort = "rating_desc", Len(opinions) = began, Reviews = DOMAIN opinions
               PROVE  /\ \A k \in DOMAIN list :
                           k <= reader.offset + PageSize => list[k] \in reader.seen \union page
                      /\ (Cardinality(page) < PageSize) => Len(list) <= reader.offset + PageSize
    BY <1>1, <1>9, <1>13, <2>1 DEF SeenUpToOffset, list
  <2>2. DOMAIN list = 1..Len(list)
    BY <1>7
  <2>3. ASSUME NEW k \in 1..Len(list), k <= reader.offset PROVE list[k] \in reader.seen
    <3>1. reader.sort # "none"
      BY <1>2, <2>3
    <3>2. reader.sort = "rating_desc" /\ Len(opinions) = reader.began
      BY <1>1, <3>1 DEF began
    <3> QED
      BY <2>2, <2>3, <3>2 DEF OpinionsInv, SeenUpToOffset, list
  <2>4. ASSUME NEW k \in 1..Len(list), k <= reader.offset + PageSize
        PROVE  list[k] \in reader.seen \union page
    <3>1. CASE k <= reader.offset
      BY <2>3, <3>1
    <3>2. CASE k > reader.offset
      BY <1>5, <2>4, <3>2
    <3> QED
      BY <1>3, <3>1, <3>2
  <2>5. (Cardinality(page) < PageSize) => Len(list) <= reader.offset + PageSize
    BY <1>3, <1>5, <1>7
  <2> QED
    BY <2>2, <2>4, <2>5
<1> QED
  BY <1>10, <1>11, <1>12, <1>14, <1>15 DEF OpinionsInv

LEMMA OpinionsInvStays == OpinionsInv /\ UNCHANGED opinionVars => OpinionsInv'
<1> SUFFICES ASSUME OpinionsInv, UNCHANGED opinionVars PROVE OpinionsInv'
  OBVIOUS
<1>1. opinions' = opinions /\ reviewDay' = reviewDay /\ reader' = reader
  BY DEF opinionVars
<1> QED
  BY <1>1 DEF OpinionsInv, OpinionsTypeOK, ReaderTypeOK, DaysInOrder, SeenOrToCome,
              SeenUpToOffset, Reviews, InRange, SortedReviews

LEMMA OpinionsInvStep == OpinionsInv /\ OpinionsNext => OpinionsInv'
BY ReviewWritten, DayPassed, PageRead DEF OpinionsNext

-----------------------------------------------------------------------------
\* The reviews by their stars.
LEMMA StarsPartition ==
  ASSUME OpinionsInv
  PROVE  /\ \A star \in 1..5 : IsFiniteSet(Rated(star)) /\ Distribution(star) \in Nat
         /\ Critical + Distribution(3) + Positive = Cardinality(Reviews)
         /\ LET low == {n \in Reviews : opinions[n].stars <= 3} IN
            IsFiniteSet(low) /\ Cardinality(low) = Critical + Distribution(3)
         /\ LET good == {n \in Reviews : opinions[n].stars >= 4} IN
            IsFiniteSet(good) /\ Cardinality(good) = Positive
<1>1. IsFiniteSet(Reviews) /\ \A n \in Reviews : opinions[n].stars \in 1..5
  BY ReviewsInRange
<1>2. ASSUME NEW star \in 1..5
      PROVE  IsFiniteSet(Rated(star)) /\ Distribution(star) \in Nat
             /\ Distribution(star) = Cardinality(Rated(star))
  <2>1. Rated(star) \subseteq Reviews
    BY DEF Rated
  <2>2. IsFiniteSet(Rated(star))
    BY <1>1, <2>1, FS_Subset
  <2> QED
    BY <2>2, FS_CardinalityType DEF Distribution, Rated
<1> DEFINE Both(S, T) ==
             /\ IsFiniteSet(S \union T)
             /\ Cardinality(S \union T) = Cardinality(S) + Cardinality(T)
<1>3. ASSUME NEW S, NEW T, IsFiniteSet(S), IsFiniteSet(T), S \cap T = {}
      PROVE  Both(S, T)
  <2>1. /\ IsFiniteSet(S \union T)
        /\ Cardinality(S \union T) = Cardinality(S) + Cardinality(T) - Cardinality(S \cap T)
    BY <1>3, FS_Union
  <2>2. Cardinality(S \cap T) = 0 /\ Cardinality(S) \in Nat /\ Cardinality(T) \in Nat
    BY <1>3, FS_CardinalityType, FS_EmptySet
  <2> QED
    BY <2>1, <2>2
<1>4. Both(Rated(1), Rated(2))
  <2>1. Rated(1) \cap Rated(2) = {}
    BY DEF Rated
  <2> QED
    BY <1>2, <1>3, <2>1
<1> DEFINE low == {n \in Reviews : opinions[n].stars <= 3}
           good == {n \in Reviews : opinions[n].stars >= 4}
<1>5. Both(Rated(1) \union Rated(2), Rated(3)) /\ low = (Rated(1) \union Rated(2)) \union Rated(3)
  <2>1. (Rated(1) \union Rated(2)) \cap Rated(3) = {}
    BY DEF Rated
  <2>2. low = (Rated(1) \union Rated(2)) \union Rated(3)
    BY <1>1 DEF Rated
  <2>3. IsFiniteSet(Rated(1) \union Rated(2)) /\ IsFiniteSet(Rated(3))
    BY <1>2, <1>4
  <2> HIDE DEF Both, low
  <2> QED
    BY <1>3, <2>1, <2>2, <2>3
<1>6. Both(Rated(4), Rated(5)) /\ good = Rated(4) \union Rated(5)
  <2>1. Rated(4) \cap Rated(5) = {}
    BY DEF Rated
  <2>2. good = Rated(4) \union Rated(5)
    BY <1>1 DEF Rated
  <2>3. IsFiniteSet(Rated(4)) /\ IsFiniteSet(Rated(5))
    BY <1>2
  <2> HIDE DEF Both, good
  <2> QED
    BY <1>3, <2>1, <2>2, <2>3
<1>7. Both(low, good) /\ Reviews = low \union good
  <2>1. low \cap good = {} /\ Reviews = low \union good
    BY <1>1
  <2>2. IsFiniteSet(low) /\ IsFiniteSet(good)
    BY <1>5, <1>6
  <2> HIDE DEF low, good, Both
  <2> QED
    BY <1>3, <2>1, <2>2
<1>8. Cardinality(low) = Critical + Distribution(3) /\ Cardinality(good) = Positive
      /\ IsFiniteSet(low) /\ IsFiniteSet(good)
  <2> HIDE DEF low, good
  <2> QED
    BY <1>2, <1>4, <1>5, <1>6 DEF Critical, Positive
<1>9. Critical + Distribution(3) + Positive = Cardinality(Reviews)
  <2> HIDE DEF low, good
  <2> QED
    BY <1>2, <1>7, <1>8 DEF Critical, Positive
<1> QED
  BY <1>2, <1>8, <1>9

\* What the average lies between.
LEMMA AverageBounds ==
  ASSUME OpinionsInv
  PROVE  /\ Critical = Cardinality(Reviews) => AverageStars <= 20
         /\ Positive = Cardinality(Reviews) /\ Reviews # {} => AverageStars >= 40
<1> DEFINE total == Cardinality(Reviews)
           sum == Distribution(1) + 2 * Distribution(2) + 3 * Distribution(3)
                    + 4 * Distribution(4) + 5 * Distribution(5)
           x == 20 * sum + total
           y == 2 * total
<1>1. /\ Distribution(1) \in Nat /\ Distribution(2) \in Nat /\ Distribution(3) \in Nat
      /\ Distribution(4) \in Nat /\ Distribution(5) \in Nat
      /\ Distribution(1) + Distribution(2) + Distribution(3) + (Distribution(4) + Distribution(5)) = total
  BY StarsPartition DEF Critical, Positive
<1>2. total \in Nat /\ (Reviews # {} => total # 0)
  BY ReviewsInRange, FS_EmptySet
<1>3. AverageStars = IF total = 0 THEN 0 ELSE x \div y
  BY DEF AverageStars
<1>4. sum \in Nat /\ x \in Nat /\ y \in Nat
  BY <1>1, <1>2
<1>5. ASSUME Critical = total PROVE AverageStars <= 20
  <2>1. sum <= 2 * total
    BY <1>1, <1>2, <1>5 DEF Critical
  <2> HIDE DEF total, sum
  <2>2. CASE total # 0
    <3>1. y \in Nat \ {0} /\ x < y * (20 + 1)
      BY <1>2, <1>4, <2>1, <2>2
    <3> HIDE DEF x, y
    <3>2. x \div y <= 20
      BY <1>4, <3>1, QuotientBetween
    <3> QED
      BY <1>3, <2>2, <3>2
  <2>3. CASE total = 0
    BY <1>3, <2>3
  <2> QED
    BY <2>2, <2>3
<1>6. ASSUME Positive = total, Reviews # {} PROVE AverageStars >= 40
  <2>1. 4 * total <= sum /\ total # 0
    BY <1>1, <1>2, <1>6 DEF Positive
  <2> HIDE DEF total, sum
  <2>2. y \in Nat \ {0} /\ y * 40 <= x
    BY <1>2, <1>4, <2>1
  <2> HIDE DEF x, y
  <2>3. 40 <= x \div y
    BY <1>4, <2>2, QuotientBetween
  <2>4. x \div y \in Int
    BY <1>4, <2>2
  <2> QED
    BY <1>3, <2>1, <2>3, <2>4
<1> QED
  BY <1>5, <1>6

\* What the panel shows of one page.
LEMMA AttentionOnPage ==
  ASSUME OpinionsInv, NEW sort \in {"created_desc", "rating_desc"}
  PROVE  /\ Cardinality(NeedsAttention(sort)) <= Critical + Distribution(3)
         /\ Cardinality(Reviews) <= PageSize =>
              Cardinality(NeedsAttention(sort)) = Critical + Distribution(3)
         /\ (sort = "rating_desc" /\ NeedsAttention(sort) # {}) => Positive < PageSize
<1> DEFINE low == {n \in Reviews : opinions[n].stars <= 3}
           good == {n \in Reviews : opinions[n].stars >= 4}
           list == SortedReviews(sort)
           page == ReviewPage(sort, 0)
           key == ReviewKey(sort)
<1>1. IsFiniteSet(low) /\ Cardinality(low) = Critical + Distribution(3)
      /\ IsFiniteSet(good) /\ Cardinality(good) = Positive
  BY StarsPartition
<1>2. page \subseteq Reviews
  BY PageHolds
<1>3. \A n \in Reviews : opinions[n].stars \in 1..5 /\ n \in Int
  BY ReviewsInRange
<1>4. NeedsAttention(sort) = page \cap low
  BY <1>2, <1>3 DEF NeedsAttention, ReviewPriority
<1> HIDE DEF low, good, page
<1>5. IsSorted(list, Reviews, key)
  BY ReviewsAreSorted
<1>6. PageSize \in Nat \ {0} /\ Len(list) \in Nat /\ Len(list) = Cardinality(Reviews)
      /\ list \in Seq(Reviews)
  BY <1>5, ReviewRailAssumption DEF IsSorted
<1>7. Cardinality(NeedsAttention(sort)) <= Cardinality(low)
  BY <1>1, <1>4, FS_Subset
<1>8. ASSUME Cardinality(Reviews) <= PageSize PROVE NeedsAttention(sort) = low
  <2>1. ASSUME NEW n \in Reviews PROVE n \in page
    <3>1. PICK k \in 1..Len(list) : list[k] = n
      BY <1>5 DEF IsSorted
    <3>2. k > 0 /\ k <= 0 + PageSize
      BY <1>6, <1>8
    <3> QED
      BY <3>1, <3>2, PageHolds DEF page
  <2>2. low \subseteq Reviews
    BY DEF low
  <2> QED
    BY <1>4, <2>1, <2>2
<1>9. ASSUME sort = "rating_desc", NeedsAttention(sort) # {} PROVE Positive < PageSize
  <2>1. PICK n \in page : n \in low
    BY <1>4, <1>9
  <2>2. PICK k \in 1..AtMost(0 + PageSize, Len(list)) : n = list[k]
    BY <2>1 DEF page, ReviewPage
  <2>3. k \in 1..Len(list) /\ k <= PageSize
    BY <1>6, <2>2 DEF AtMost
  <2> DEFINE before == {m \in Reviews : Precedes(key[m], key[n])}
  <2>4. Cardinality(before) = k - 1
    BY <1>5, <2>2, <2>3 DEF IsSorted
  <2>5. n \in Reviews /\ opinions[n].stars <= 3
    BY <2>1 DEF low
  <2>6. good \subseteq before
    <3> SUFFICES ASSUME NEW m \in Reviews, opinions[m].stars >= 4
                 PROVE  Precedes(key[m], key[n])
      BY DEF good
    <3>1. key[m] = <<-opinions[m].stars, -m>> /\ key[n] = <<-opinions[n].stars, -n>>
      BY <1>9, <2>5 DEF ReviewKey
    <3> DEFINE a == opinions[m].stars
               b == opinions[n].stars
    <3>3. a \in 1..5 /\ b \in 1..5 /\ a >= 4 /\ b <= 3 /\ m \in Int /\ n \in Int
      BY <1>3, <2>5
    <3> HIDE DEF a, b
    <3>5. a \in Int /\ b \in Int /\ b < a
      BY <3>3
    <3>4. -a \in Int /\ -m \in Int /\ -b \in Int /\ -n \in Int /\ -a < -b
      BY <3>3, <3>5, NegatedIs, NegationReverses, Zenon
    <3>2. /\ -opinions[m].stars \in Int /\ -m \in Int /\ -opinions[n].stars \in Int /\ -n \in Int
          /\ -opinions[m].stars < -opinions[n].stars
      BY <3>4 DEF a, b
    <3> QED
      BY <3>1, <3>2, PrecedesTwo
  <2>7. IsFiniteSet(before)
    <3>1. before \subseteq Reviews /\ IsFiniteSet(Reviews)
      BY ReviewsInRange
    <3> HIDE DEF before
    <3> QED
      BY <3>1, FS_Subset
  <2> HIDE DEF before
  <2>8. Cardinality(good) <= Cardinality(before)
    BY <2>6, <2>7, FS_Subset
  <2>9. Cardinality(good) \in Nat
    BY <1>1, FS_CardinalityType
  <2> QED
    BY <1>1, <1>6, <2>3, <2>4, <2>8, <2>9
<1> QED
  BY <1>1, <1>7, <1>8, <1>9

LEMMA ReviewsAgreeInv == OpinionsInv => ReviewsAgree
<1> SUFFICES ASSUME OpinionsInv PROVE ReviewsAgree
  OBVIOUS
<1>1. ASSUME reader.done, reader.sort = "created_desc", NEW n \in Reviews, n <= reader.began
      PROVE  n \in reader.seen
  BY <1>1 DEF OpinionsInv, SeenOrToCome
<1>2. ASSUME reader.done, Len(opinions) = reader.began, Reviews = DOMAIN opinions
      PROVE  Reviews \subseteq reader.seen
  <2>1. reader.sort \in {"created_desc", "rating_desc"}
    BY <1>2 DEF OpinionsInv, ReaderTypeOK
  <2>2. CASE reader.sort = "created_desc"
    <3>1. \A n \in Reviews : n <= reader.began
      BY <1>2, ReviewsInRange
    <3> QED
      BY <1>1, <1>2, <2>2, <3>1
  <2>3. CASE reader.sort = "rating_desc"
    <3> DEFINE list == SortedReviews("rating_desc")
    <3>1. /\ \A k \in DOMAIN list : k <= reader.offset => list[k] \in reader.seen
          /\ Len(list) <= reader.offset
      BY <1>2, <2>3 DEF OpinionsInv, SeenUpToOffset
    <3>2. IsSorted(list, Reviews, ReviewKey("rating_desc"))
      BY ReviewsAreSorted
    <3> HIDE DEF list
    <3>3. list \in Seq(Reviews) /\ Len(list) \in Nat /\ DOMAIN list = 1..Len(list)
          /\ \A n \in Reviews : \E k \in 1..Len(list) : list[k] = n
      BY <3>2 DEF IsSorted
    <3>4. reader.offset \in Nat
      BY DEF OpinionsInv, ReaderTypeOK
    <3>5. \A k \in 1..Len(list) : list[k] \in reader.seen
      BY <3>1, <3>3, <3>4
    <3> QED
      BY <3>3, <3>5
  <2> QED
    BY <2>1, <2>2, <2>3
<1> QED
  BY <1>1, <1>2, StarsPartition, AverageBounds, AttentionOnPage DEF ReviewsAgree

-----------------------------------------------------------------------------
(* The chat's rail. *)

LEMMA FirstOfTwo ==
  ASSUME NEW a, NEW b
  PROVE  FirstGiven(<<a, b>>) = IF a # Missing THEN a ELSE b
<1> DEFINE list == <<a, b>>
           given == {n \in DOMAIN list : list[n] # Missing}
<1>1. DOMAIN list = {1, 2} /\ list[1] = a /\ list[2] = b
  OBVIOUS
<1> HIDE DEF list
<1>2. FirstGiven(list) = IF given = {} THEN Missing ELSE list[CHOOSE n \in given : \A m \in given : n <= m]
  BY DEF FirstGiven
<1>3. CASE a # Missing
  <2>1. 1 \in given /\ \A m \in given : 1 <= m
    BY <1>1, <1>3
  <2>2. \A n \in given : (\A m \in given : n <= m) => n = 1
    BY <1>1, <2>1
  <2>3. (CHOOSE n \in given : \A m \in given : n <= m) = 1
    BY <2>1, <2>2
  <2> HIDE DEF given
  <2> QED
    BY <1>1, <1>2, <1>3, <2>1, <2>3 DEF list
<1>4. CASE a = Missing /\ b # Missing
  <2>1. given = {2}
    BY <1>1, <1>4
  <2>2. (CHOOSE n \in given : \A m \in given : n <= m) = 2
    BY <2>1
  <2> HIDE DEF given
  <2> QED
    BY <1>1, <1>2, <1>4, <2>1, <2>2 DEF list
<1>5. CASE a = Missing /\ b = Missing
  <2>1. given = {}
    BY <1>1, <1>5
  <2> QED
    BY <1>2, <1>5, <2>1 DEF list
<1> QED
  BY <1>3, <1>4, <1>5

LEMMA FirstOfThree ==
  ASSUME NEW a, NEW b, NEW c
  PROVE  FirstGiven(<<a, b, c>>) = IF a # Missing THEN a ELSE IF b # Missing THEN b ELSE c
<1> DEFINE list == <<a, b, c>>
           given == {n \in DOMAIN list : list[n] # Missing}
<1>1. DOMAIN list = {1, 2, 3} /\ list[1] = a /\ list[2] = b /\ list[3] = c
  OBVIOUS
<1> HIDE DEF list
<1>2. FirstGiven(list) = IF given = {} THEN Missing ELSE list[CHOOSE n \in given : \A m \in given : n <= m]
  BY DEF FirstGiven
<1>6. ASSUME NEW k \in given, \A m \in given : k <= m
      PROVE  FirstGiven(list) = list[k]
  <2>1. \A n \in given : (\A m \in given : n <= m) => n = k
    BY <1>1, <1>6
  <2>2. (CHOOSE n \in given : \A m \in given : n <= m) = k
    BY <1>6, <2>1
  <2> HIDE DEF given
  <2> QED
    BY <1>2, <2>2
<1>3. CASE a # Missing
  <2>1. 1 \in given /\ \A m \in given : 1 <= m
    BY <1>1, <1>3
  <2> HIDE DEF given
  <2> QED
    BY <1>1, <1>3, <1>6, <2>1 DEF list
<1>4. CASE a = Missing /\ b # Missing
  <2>1. 2 \in given /\ \A m \in given : 2 <= m
    BY <1>1, <1>4
  <2> HIDE DEF given
  <2> QED
    BY <1>1, <1>4, <1>6, <2>1 DEF list
<1>5. CASE a = Missing /\ b = Missing /\ c # Missing
  <2>1. 3 \in given /\ \A m \in given : 3 <= m
    BY <1>1, <1>5
  <2> HIDE DEF given
  <2> QED
    BY <1>1, <1>5, <1>6, <2>1 DEF list
<1>7. CASE a = Missing /\ b = Missing /\ c = Missing
  <2>1. given = {}
    BY <1>1, <1>7
  <2> QED
    BY <1>2, <1>7, <2>1 DEF list
<1> QED
  BY <1>3, <1>4, <1>5, <1>7

-----------------------------------------------------------------------------
\* What moving a conversation to the front does to the order.
LEMMA TouchedIs ==
  ASSUME InboxInv, NEW t
  PROVE  /\ Touched(t) \in Seq(Threads \union {t})
         /\ MembersOf(Touched(t)) = Threads \union {t}
         /\ \A m, n \in DOMAIN Touched(t) : Touched(t)[m] = Touched(t)[n] => m = n
<1> DEFINE order == inbox.order
           N == Len(order)
           p == InboxPlace(t)
           M == AtLeast(p, N)
           i(n) == IF n <= p THEN n - 1 ELSE n
<1>1. /\ order \in Seq(Threads) /\ N \in Nat /\ DOMAIN order = 1..N
      /\ \A k \in 1..N : order[k] \in Threads
      /\ \A m, n \in 1..N : order[m] = order[n] => m = n
  BY DEF InboxInv, OnePlaceEach
<1>2. Threads = {order[k] : k \in 1..N}
  BY <1>1 DEF Threads, MembersOf
<1>3. p \in 1..(N + 1) /\ (p <= N => order[p] = t) /\ (p = N + 1 => t \notin Threads)
  <2> DEFINE places == {n \in 1..N : order[n] = t}
  <2>1. p = IF places = {} THEN N + 1 ELSE CHOOSE n \in places : TRUE
    BY <1>1 DEF InboxPlace
  <2>2. CASE places = {}
    <3>1. \A k \in 1..N : order[k] # t
      BY <2>2
    <3>2. t \notin Threads
      BY <1>2, <3>1
    <3>3. p = N + 1
      BY <2>1, <2>2
    <3> HIDE DEF p, places
    <3> QED
      BY <1>1, <3>2, <3>3
  <2>3. CASE places # {}
    <3>1. p \in places
      BY <2>1, <2>3
    <3> QED
      BY <1>1, <3>1
  <2> QED
    BY <2>2, <2>3
<1> HIDE DEF N, p
<1>4. M \in Nat /\ M >= 1 /\ p <= M /\ N <= M /\ (M = p \/ M = N)
  BY <1>1, <1>3 DEF AtLeast
<1>5. Touched(t) = [n \in 1..M |-> IF n = 1 THEN t ELSE order[i(n)]]
  BY DEF Touched, p, N
<1> HIDE DEF M, order
<1>6. \A n \in 1..M : n # 1 => i(n) \in 1..N /\ i(n) # p
  BY <1>1, <1>3, <1>4
<1>7. \A k \in 1..N : order[k] = t => k = p
  BY <1>1, <1>2, <1>3
<1>8. \A n \in 1..M : n # 1 => order[i(n)] \in Threads /\ order[i(n)] # t
  <2> HIDE DEF i
  <2> QED
    BY <1>1, <1>6, <1>7
<1>9. \A m, n \in 1..M : m # 1 /\ n # 1 /\ i(m) = i(n) => m = n
  BY <1>1, <1>3, <1>4
<1>10. Touched(t) \in [1..M -> Threads \union {t}]
  <2> HIDE DEF i
  <2> QED
    BY <1>5, <1>8
<1>11. Touched(t) \in Seq(Threads \union {t}) /\ DOMAIN Touched(t) = 1..M
  BY <1>4, <1>10
<1>12. ASSUME NEW m \in 1..M, NEW n \in 1..M, Touched(t)[m] = Touched(t)[n] PROVE m = n
  <2> HIDE DEF i
  <2>1. CASE m = 1 \/ n = 1
    BY <1>5, <1>8, <1>12, <2>1
  <2>2. CASE m # 1 /\ n # 1
    <3>1. order[i(m)] = order[i(n)]
      BY <1>5, <1>12, <2>2
    <3>2. i(m) = i(n)
      BY <1>1, <1>6, <2>2, <3>1
    <3> QED
      BY <1>9, <2>2, <3>2
  <2> QED
    BY <2>1, <2>2
<1>13. ASSUME NEW s \in Threads \union {t} PROVE \E n \in 1..M : Touched(t)[n] = s
  <2>1. CASE s = t
    <3>1. 1 \in 1..M /\ Touched(t)[1] = t
      BY <1>4, <1>5
    <3> QED
      BY <2>1, <3>1
  <2>2. CASE s \in Threads /\ s # t
    <3>1. PICK k \in 1..N : order[k] = s
      BY <1>2, <2>2
    <3>2. k # p
      BY <1>3, <2>2, <3>1
    <3>3. CASE k < p
      <4>1. k + 1 \in 1..M /\ k + 1 # 1 /\ i(k + 1) = k
        BY <1>1, <1>3, <1>4, <3>3
      <4> HIDE DEF i
      <4> QED
        BY <1>5, <3>1, <4>1
    <3>4. CASE k > p
      <4>1. k \in 1..M /\ k # 1 /\ i(k) = k
        BY <1>1, <1>3, <1>4, <3>4
      <4> HIDE DEF i
      <4> QED
        BY <1>5, <3>1, <4>1
    <3> QED
      BY <1>1, <1>3, <3>2, <3>3, <3>4
  <2> QED
    BY <2>1, <2>2
<1>14. MembersOf(Touched(t)) = Threads \union {t}
  <2>1. \A n \in 1..M : Touched(t)[n] \in Threads \union {t}
    BY <1>10
  <2> QED
    BY <1>11, <1>13, <2>1 DEF MembersOf
<1> QED
  BY <1>11, <1>12, <1>14

\* What a conversation is about is its client's.
LEMMA AboutItsClient ==
  ASSUME NEW o, MayOpen(o)
  PROVE  LET t == ThreadOf(o) IN
         /\ t[2] = ClientOfChat(o) /\ t[3] = ProviderOfChat(o)
         /\ RelatedTo(o) \in DOMAIN ChatRequests => ChatRequests[RelatedTo(o)].client = t[2]
         /\ RelatedTo(o) \in DOMAIN ChatOffers => ChatOffers[RelatedTo(o)].client = t[2]
<1> USE InboxAssumption
<1>1. /\ o.order = Missing \/ o.order \in DOMAIN ChatOrders
      /\ OfferOf(o) = Missing \/ OfferOf(o) \in DOMAIN ChatOffers
      /\ RequestOf(o) \in DOMAIN ChatRequests /\ ClientOfChat(o) # Missing
  BY DEF MayOpen, Known
<1>2. ThreadOf(o)[2] = ClientOfChat(o) /\ ThreadOf(o)[3] = ProviderOfChat(o)
  BY DEF ThreadOf
<1> DEFINE a == Looked(ChatOffers, OfferOf(o), "client")
           b == Looked(ChatRequests, RequestOf(o), "client")
<1>3. ClientOfChat(o) = IF a # Missing THEN a ELSE b
  BY FirstOfTwo DEF ClientOfChat
<1>4. RelatedTo(o) = IF o.order # Missing THEN o.order
                     ELSE IF OfferOf(o) # Missing THEN OfferOf(o) ELSE RequestOf(o)
  BY FirstOfThree DEF RelatedTo
<1>5. CASE o.order # Missing
  <2>1. RelatedTo(o) \in DOMAIN ChatOrders
    BY <1>1, <1>4, <1>5
  <2> QED
    BY <1>2, <2>1
<1>6. CASE o.order = Missing /\ OfferOf(o) # Missing
  <2>1. RelatedTo(o) = OfferOf(o) /\ OfferOf(o) \in DOMAIN ChatOffers
    BY <1>1, <1>4, <1>6
  <2>2. a = ChatOffers[OfferOf(o)].client /\ a # Missing
    BY <2>1 DEF Looked
  <2>3. RelatedTo(o) \notin DOMAIN ChatRequests
    BY <2>1
  <2> QED
    BY <1>2, <1>3, <2>1, <2>2, <2>3
<1>7. CASE o.order = Missing /\ OfferOf(o) = Missing
  <2>1. RelatedTo(o) = RequestOf(o)
    BY <1>4, <1>7
  <2>2. a = Missing
    BY <1>7 DEF Looked
  <2>3. b = ChatRequests[RequestOf(o)].client
    BY <1>1 DEF Looked
  <2>4. RelatedTo(o) \notin DOMAIN ChatOffers
    BY <1>1, <2>1
  <2> QED
    BY <1>2, <1>3, <2>1, <2>2, <2>3, <2>4
<1> QED
  BY <1>5, <1>6, <1>7

-----------------------------------------------------------------------------
LEMMA InboxInvInit == InboxInit => InboxInv
<1> SUFFICES ASSUME InboxInit PROVE InboxInv
  OBVIOUS
<1> USE DEF InboxInit, NoRail
<1>1. Threads = {}
  BY DEF Threads, MembersOf
<1>2. InboxTypeOK
  <2>1. inbox.unread \in [Threads -> 0..MaxUnread] /\ DOMAIN inbox.about = Threads
    BY <1>1
  <2>2. rail \in [at: {"idle", "counted"}, total: Nat, unread: Nat, moved: BOOLEAN]
    OBVIOUS
  <2> QED
    BY <1>1, <2>1, <2>2 DEF InboxTypeOK
<1>3. OpenedRightly
  BY <1>1 DEF OpenedRightly
<1>4. OnePlaceEach
  BY DEF OnePlaceEach
<1>5. CountedUntilMoved
  BY DEF CountedUntilMoved
<1> QED
  BY <1>2, <1>3, <1>4, <1>5 DEF InboxInv

LEMMA UnreadAreFinite ==
  ASSUME InboxInv
  PROVE  IsFiniteSet(Threads) /\ IsFiniteSet(UnreadThreads) /\ Cardinality(UnreadThreads) \in Nat
<1> DEFINE N == Len(inbox.order)
<1>1. inbox.order \in Seq(Threads) /\ N \in Nat /\ DOMAIN inbox.order = 1..N
      /\ \A m, n \in 1..N : inbox.order[m] = inbox.order[n] => m = n
  BY DEF InboxInv, OnePlaceEach
<1>2. Threads = Stretch(inbox.order, 0, N)
  BY <1>1 DEF Threads, MembersOf, Stretch
<1> HIDE DEF N
<1>3. \A m, n \in (0 + 1)..N : inbox.order[m] = inbox.order[n] => m = n
  BY <1>1
<1>4. 0 \in Nat /\ 0 <= N
  BY <1>1
<1>5. IsFiniteSet(Stretch(inbox.order, 0, N))
  BY <1>1, <1>3, <1>4, PlacesCount
<1>6. UnreadThreads \subseteq Threads
  BY DEF UnreadThreads
<1> QED
  BY <1>2, <1>5, <1>6, FS_Subset, FS_CardinalityType

\* What moves the inbox keeps the call's type and what it counted.
LEMMA MovesKeep ==
  ASSUME InboxInv, Moves
  PROVE  /\ rail' \in [at: {"idle", "counted"}, total: Nat, unread: Nat, moved: BOOLEAN]
         /\ CountedUntilMoved'
<1>1. rail \in [at: {"idle", "counted"}, total: Nat, unread: Nat, moved: BOOLEAN]
  BY DEF InboxInv, InboxTypeOK
<1>2. CASE rail.at = "idle"
  BY <1>1, <1>2 DEF Moves, CountedUntilMoved
<1>3. CASE rail.at # "idle"
  <2>1. rail' = [rail EXCEPT !.moved = TRUE]
    BY <1>3 DEF Moves
  <2>2. rail' \in [at: {"idle", "counted"}, total: Nat, unread: Nat, moved: BOOLEAN] /\ rail'.moved
    BY <1>1, <2>1
  <2> QED
    BY <2>2 DEF CountedUntilMoved
<1> QED
  BY <1>2, <1>3

LEMMA ThreadOpened ==
  ASSUME InboxInv, NEW o, OpenThread(o)
  PROVE  InboxInv'
<1> DEFINE t == ThreadOf(o)
           unread == [s \in Threads \union {t} |-> IF s \in Threads THEN inbox.unread[s] ELSE 0]
           about == [s \in Threads \union {t} |-> IF s = t THEN RelatedTo(o) ELSE inbox.about[s]]
<1>1. /\ MayOpen(o) /\ Viewer \in {ClientOfChat(o), ProviderOfChat(o)} /\ Moves
      /\ inbox' = [order |-> Touched(t), unread |-> unread, old |-> inbox.old \ {t}, about |-> about]
  BY DEF OpenThread
<1>2. /\ inbox.unread \in [Threads -> 0..MaxUnread] /\ inbox.old \subseteq Threads
      /\ OpenedRightly
  BY DEF InboxInv, InboxTypeOK
<1>3. 0 \in 0..MaxUnread
  BY InboxAssumption
<1> HIDE DEF t
<1>4. /\ Touched(t) \in Seq(Threads \union {t})
      /\ MembersOf(Touched(t)) = Threads \union {t}
      /\ \A m, n \in DOMAIN Touched(t) : Touched(t)[m] = Touched(t)[n] => m = n
  BY TouchedIs
<1>5. /\ inbox'.order = Touched(t) /\ inbox'.unread = unread /\ inbox'.about = about
      /\ inbox'.old = inbox.old \ {t}
  BY <1>1
<1>6. Threads' = Threads \union {t}
  BY <1>4, <1>5 DEF Threads
<1>7. unread \in [Threads' -> 0..MaxUnread]
  BY <1>2, <1>3, <1>6
<1>8. InboxTypeOK'
  <2>1. DOMAIN about = Threads'
    BY <1>6
  <2>2. inbox'.old \subseteq Threads'
    BY <1>2, <1>5, <1>6
  <2> QED
    BY <1>1, <1>5, <1>7, <2>1, <2>2, MovesKeep DEF InboxTypeOK
<1>9. OpenedRightly'
  <2> SUFFICES ASSUME NEW s \in Threads \union {t}
               PROVE  /\ Viewer \in {s[2], s[3]}
                      /\ about[s] \in DOMAIN ChatRequests => ChatRequests[about[s]].client = s[2]
                      /\ about[s] \in DOMAIN ChatOffers => ChatOffers[about[s]].client = s[2]
    BY <1>5, <1>6 DEF OpenedRightly
  <2>1. CASE s = t
    <3>1. about[s] = RelatedTo(o)
      BY <2>1
    <3> QED
      BY <1>1, <2>1, <3>1, AboutItsClient DEF t
  <2>2. CASE s # t
    <3>1. s \in Threads /\ about[s] = inbox.about[s]
      BY <2>2
    <3> QED
      BY <1>2, <3>1 DEF OpenedRightly
  <2> QED
    BY <2>1, <2>2
<1>10. OnePlaceEach'
  <2> HIDE DEF unread, about
  <2>1. inbox' = [order |-> inbox'.order, unread |-> inbox'.unread, old |-> inbox'.old, about |-> inbox'.about]
    BY <1>1
  <2> QED
    BY <1>4, <1>5, <1>6, <2>1 DEF OnePlaceEach
<1> QED
  BY <1>1, <1>8, <1>9, <1>10, MovesKeep DEF InboxInv

LEMMA UnreadSet ==
  ASSUME InboxInv, NEW t, NEW n \in 0..MaxUnread, SetUnread(t, n)
  PROVE  InboxInv'
<1>1. /\ t \in Threads /\ Moves
      /\ inbox' = [inbox EXCEPT !.order = Touched(t), !.unread[t] = n, !.old = @ \ {t}]
  BY DEF SetUnread
<1>2. /\ inbox.unread \in [Threads -> 0..MaxUnread] /\ inbox.old \subseteq Threads
      /\ OpenedRightly /\ DOMAIN inbox.about = Threads
      /\ inbox = [order |-> inbox.order, unread |-> inbox.unread, old |-> inbox.old, about |-> inbox.about]
  BY DEF InboxInv, InboxTypeOK, OnePlaceEach
<1>4. /\ Touched(t) \in Seq(Threads \union {t})
      /\ MembersOf(Touched(t)) = Threads \union {t}
      /\ \A m, k \in DOMAIN Touched(t) : Touched(t)[m] = Touched(t)[k] => m = k
  BY TouchedIs
<1>5. inbox' = [order |-> Touched(t), unread |-> [inbox.unread EXCEPT ![t] = n],
                old |-> inbox.old \ {t}, about |-> inbox.about]
  BY <1>1, <1>2
<1>6. /\ inbox'.order = Touched(t) /\ inbox'.unread = [inbox.unread EXCEPT ![t] = n]
      /\ inbox'.about = inbox.about /\ inbox'.old = inbox.old \ {t}
      /\ inbox' = [order |-> inbox'.order, unread |-> inbox'.unread, old |-> inbox'.old, about |-> inbox'.about]
  BY <1>5
<1>7. Threads' = Threads
  <2>1. MembersOf(inbox'.order) = MembersOf(Touched(t))
    BY <1>6
  <2>2. Threads \union {t} = Threads
    BY <1>1
  <2> QED
    BY <1>4, <2>1, <2>2 DEF Threads
<1>8. InboxTypeOK'
  <2>1. inbox'.unread \in [Threads' -> 0..MaxUnread]
    BY <1>2, <1>6, <1>7
  <2>2. inbox'.old \subseteq Threads'
    BY <1>2, <1>6, <1>7
  <2> QED
    BY <1>1, <1>2, <1>6, <1>7, <2>1, <2>2, MovesKeep DEF InboxTypeOK
<1>9. OpenedRightly'
  BY <1>2, <1>6, <1>7 DEF OpenedRightly
<1>10. OnePlaceEach'
  BY <1>1, <1>4, <1>6, <1>7 DEF OnePlaceEach
<1> QED
  BY <1>1, <1>8, <1>9, <1>10, MovesKeep DEF InboxInv

LEMMA InboxInvStep == InboxInv /\ InboxNext => InboxInv'
<1> SUFFICES ASSUME InboxInv, InboxNext PROVE InboxInv'
  OBVIOUS
<1>0. inbox.unread \in [Threads -> 0..MaxUnread] /\ MaxUnread \in Nat
  BY InboxAssumption DEF InboxInv, InboxTypeOK
<1>1. CASE \E o \in Openings : OpenThread(o)
  BY <1>1, ThreadOpened
<1>2. CASE \E t \in Threads : MessageComes(t) \/ ViewerReads(t)
  <2>1. PICK t \in Threads : MessageComes(t) \/ ViewerReads(t)
    BY <1>2
  <2>2. CASE MessageComes(t)
    <3>1. inbox.unread[t] + 1 \in 0..MaxUnread /\ SetUnread(t, inbox.unread[t] + 1)
      BY <1>0, <2>2 DEF MessageComes
    <3> QED
      BY <3>1, UnreadSet
  <2>3. CASE ViewerReads(t)
    <3>1. 0 \in 0..MaxUnread /\ SetUnread(t, 0)
      BY <1>0, <2>3 DEF ViewerReads
    <3> QED
      BY <3>1, UnreadSet
  <2> QED
    BY <2>1, <2>2, <2>3
<1>3. CASE ThreeDaysPass
  <2>1. inbox' = [inbox EXCEPT !.old = Threads] /\ rail' = rail /\ rail.at = "idle"
    BY <1>3 DEF ThreeDaysPass
  <2>2. inbox = [order |-> inbox.order, unread |-> inbox.unread, old |-> inbox.old, about |-> inbox.about]
    BY DEF InboxInv, OnePlaceEach
  <2>3. inbox' = [order |-> inbox.order, unread |-> inbox.unread, old |-> Threads, about |-> inbox.about]
    BY <2>1, <2>2
  <2>4. /\ inbox'.order = inbox.order /\ inbox'.unread = inbox.unread /\ inbox'.old = Threads
        /\ inbox'.about = inbox.about
        /\ inbox' = [order |-> inbox'.order, unread |-> inbox'.unread, old |-> inbox'.old, about |-> inbox'.about]
    BY <2>3
  <2>5. Threads' = Threads
    BY <2>4 DEF Threads
  <2>6. InboxTypeOK' /\ OpenedRightly' /\ OnePlaceEach' /\ CountedUntilMoved'
    BY <2>1, <2>4, <2>5 DEF InboxInv, InboxTypeOK, OpenedRightly, OnePlaceEach, CountedUntilMoved
  <2> QED
    BY <2>6 DEF InboxInv
<1>4. CASE RailCounts
  <2>1. /\ inbox' = inbox
        /\ rail' = [at |-> "counted", total |-> Len(inbox.order),
                    unread |-> Cardinality(UnreadThreads), moved |-> FALSE]
    BY <1>4 DEF RailCounts
  <2>2. Len(inbox.order) \in Nat /\ Cardinality(UnreadThreads) \in Nat
    BY UnreadAreFinite DEF InboxInv, OnePlaceEach
  <2>3. rail' \in [at: {"idle", "counted"}, total: Nat, unread: Nat, moved: BOOLEAN]
        /\ rail'.unread = Cardinality(UnreadThreads)
    BY <2>1, <2>2
  <2>4. Threads' = Threads /\ UnreadThreads' = UnreadThreads
    BY <2>1 DEF Threads, UnreadThreads
  <2>5. InboxTypeOK' /\ OpenedRightly' /\ OnePlaceEach' /\ CountedUntilMoved'
    BY <2>1, <2>3, <2>4 DEF InboxInv, InboxTypeOK, OpenedRightly, OnePlaceEach, CountedUntilMoved
  <2> QED
    BY <2>5 DEF InboxInv
<1>5. CASE RailAnswers
  <2>1. inbox' = inbox /\ rail' = NoRail
    BY <1>5 DEF RailAnswers
  <2>2. rail' \in [at: {"idle", "counted"}, total: Nat, unread: Nat, moved: BOOLEAN] /\ rail'.at = "idle"
    BY <2>1 DEF NoRail
  <2>3. Threads' = Threads
    BY <2>1 DEF Threads
  <2>4. InboxTypeOK' /\ OpenedRightly' /\ OnePlaceEach' /\ CountedUntilMoved'
    BY <2>1, <2>2, <2>3 DEF InboxInv, InboxTypeOK, OpenedRightly, OnePlaceEach, CountedUntilMoved
  <2> QED
    BY <2>4 DEF InboxInv
<1> QED
  BY <1>1, <1>2, <1>3, <1>4, <1>5 DEF InboxNext

LEMMA InboxInvStays == InboxInv /\ UNCHANGED inboxVars => InboxInv'
<1> SUFFICES ASSUME InboxInv, UNCHANGED inboxVars PROVE InboxInv'
  OBVIOUS
<1>1. inbox' = inbox /\ rail' = rail
  BY DEF inboxVars
<1>2. Threads' = Threads /\ UnreadThreads' = UnreadThreads
  BY <1>1 DEF Threads, UnreadThreads
<1> QED
  BY <1>1, <1>2 DEF InboxInv, InboxTypeOK, OpenedRightly, OnePlaceEach, CountedUntilMoved

-----------------------------------------------------------------------------
\* What a conversation's priority says of it.
LEMMA PriorityIs ==
  ASSUME InboxInv, NEW t \in Threads
  PROVE  /\ inbox.unread[t] \in Nat /\ Priority(t) \in Nat
         /\ inbox.unread[t] > 0 <=> Priority(t) >= 80
         /\ RailAction(t) = "reply" <=> inbox.unread[t] > 0
         /\ RailAction(t) = "follow_up" <=> Priority(t) <= 30
<1>1. inbox.unread[t] \in Nat
  BY InboxAssumption DEF InboxInv, InboxTypeOK
<1> DEFINE u == inbox.unread[t]
<1> HIDE DEF u
<1>2. u \in Nat
  BY <1>1 DEF u
<1>3. CASE u > 0
  <2>1. Priority(t) = AtMost(100, 70 + 10 * u) /\ RailAction(t) = "reply"
    BY <1>2, <1>3 DEF Priority, RailAction, u
  <2>2. AtMost(100, 70 + 10 * u) \in Nat /\ AtMost(100, 70 + 10 * u) >= 80
    BY <1>2, <1>3 DEF AtMost
  <2> QED
    BY <1>2, <1>3, <2>1, <2>2 DEF u
<1>4. CASE ~(u > 0) /\ t \in inbox.old
  <2>1. Priority(t) = 30 /\ RailAction(t) = "follow_up"
    BY <1>4 DEF Priority, RailAction, u
  <2> QED
    BY <1>2, <1>4, <2>1 DEF u
<1>5. CASE ~(u > 0) /\ t \notin inbox.old
  <2>1. Priority(t) = 55 /\ RailAction(t) = "review_context"
    BY <1>5 DEF Priority, RailAction, u
  <2> QED
    BY <1>2, <1>5, <2>1 DEF u
<1> QED
  BY <1>3, <1>4, <1>5

\* The queue as a whole: the conversations that were loaded, the u unread ones in front.
IsQueue(queue, u) ==
  /\ queue \in Seq(Threads) /\ u \in 0..Len(queue)
  /\ \A i, j \in 1..Len(queue) : queue[i] = queue[j] => i = j
  /\ MembersOf(queue) = MembersOf(LoadedThreads)
  /\ RailItems = FirstOf(queue, RailQueue)
  /\ \A k \in 1..Len(queue) : inbox.unread[queue[k]] > 0 <=> k <= u
  /\ \A i, j \in 1..Len(queue) :
       (i < j /\ RailAction(queue[i]) = "follow_up") => RailAction(queue[j]) = "follow_up"

LEMMA RailHasQueue ==
  ASSUME InboxInv
  PROVE  \E queue, u : IsQueue(queue, u)
<1> DEFINE list == LoadedThreads
           l == Len(list)
           key == [n \in DOMAIN list |-> <<-Priority(list[n]), n>>]
           sorted == InOrder(DOMAIN list, key)
           queue == [k \in DOMAIN sorted |-> list[sorted[k]]]
<1>1. /\ inbox.order \in Seq(Threads) /\ DOMAIN inbox.order = 1..Len(inbox.order)
      /\ \A m, n \in DOMAIN inbox.order : inbox.order[m] = inbox.order[n] => m = n
      /\ Len(inbox.order) \in Nat
  BY DEF InboxInv, OnePlaceEach
<1>2. /\ list \in Seq(Threads) /\ l = AtMost(RailLoads, Len(inbox.order))
      /\ l <= Len(inbox.order)
      /\ \A k \in 1..l : list[k] = inbox.order[k]
  <2>1. RailLoads \in Nat
    BY InboxAssumption
  <2> DEFINE first == FirstOf(inbox.order, RailLoads)
  <2>2. /\ first \in Seq(Threads) /\ Len(first) = AtMost(RailLoads, Len(inbox.order))
        /\ AtMost(RailLoads, Len(inbox.order)) <= Len(inbox.order)
        /\ \A k \in 1..AtMost(RailLoads, Len(inbox.order)) : first[k] = inbox.order[k]
    BY <1>1, <2>1, FirstOfIs
  <2>3. list = first
    BY DEF LoadedThreads
  <2> HIDE DEF list, first
  <2> QED
    BY <2>2, <2>3
<1>3. RailItems = FirstOf(queue, RailQueue)
  BY DEF RailItems
<1> HIDE DEF list
<1>4. l \in Nat /\ DOMAIN list = 1..l /\ \A k \in 1..l : list[k] \in Threads
  BY <1>2
<1>5. \A m, n \in 1..l : list[m] = list[n] => m = n
  BY <1>1, <1>2, <1>4, SMTT(30)
<1> HIDE DEF l
<1>6. \A n \in 1..l : -Priority(list[n]) \in Int /\ n \in Int
  <2> TAKE n \in 1..l
  <2>1. Priority(list[n]) \in Nat
    BY <1>4, PriorityIs
  <2> QED
    BY <2>1
<1>7. IsSorted(sorted, 1..l, key)
  <2>1. \A n \in 1..l : key[n] = <<-Priority(list[n]), n>>
    BY <1>4
  <2>2. ASSUME NEW n \in 1..l PROVE IsKey(key[n], 2)
    <3> DEFINE p == -Priority(list[n])
    <3>1. p \in Int /\ n \in Int /\ key[n] = <<p, n>>
      BY <1>6, <2>1
    <3> HIDE DEF p, key
    <3> QED
      BY <3>1 DEF IsKey
  <2>3. ASSUME NEW m \in 1..l, NEW n \in 1..l, key[m] = key[n] PROVE m = n
    BY <2>1, <2>3
  <2>4. IsFiniteSet(1..l)
    BY <1>4, FS_Interval
  <2>5. sorted = InOrder(1..l, key)
    BY <1>4
  <2> HIDE DEF key, sorted
  <2> QED
    BY <2>2, <2>3, <2>4, <2>5, InOrderSorts
<1>8. Cardinality(1..l) = l
  <2>1. 1 \in Int /\ l \in Int
    BY <1>4
  <2>2. Cardinality(1..l) = IF 1 > l THEN 0 ELSE l - 1 + 1
    BY <2>1, FS_Interval
  <2> QED
    BY <1>4, <2>2
<1>9. \A n \in 1..l : key[n] = <<-Priority(list[n]), n>>
  BY <1>4
<1> HIDE DEF key, sorted
<1>10. /\ sorted \in Seq(1..l) /\ Len(sorted) = l /\ DOMAIN sorted = 1..l
       /\ \A k \in 1..l : sorted[k] \in 1..l
       /\ \A x \in 1..l : \E k \in 1..l : sorted[k] = x
       /\ \A i, j \in 1..l : sorted[i] = sorted[j] => i = j
       /\ \A i, j \in 1..l : i < j => Precedes(key[sorted[i]], key[sorted[j]])
  <2>1. sorted \in Seq(1..l) /\ Len(sorted) = l
    BY <1>7, <1>8 DEF IsSorted
  <2>2. DOMAIN sorted = 1..l /\ \A k \in 1..l : sorted[k] \in 1..l
    BY <2>1
  <2> QED
    BY <1>7, <2>1, <2>2 DEF IsSorted
<1>11. queue \in [1..l -> Threads] /\ \A k \in 1..l : queue[k] = list[sorted[k]] /\ queue[k] \in Threads
  BY <1>4, <1>10
<1> HIDE DEF queue
<1>12. queue \in Seq(Threads) /\ Len(queue) = l /\ DOMAIN queue = 1..l
  <2>1. queue \in [1..l -> Threads] /\ l \in Nat
    BY <1>4, <1>11
  <2> QED
    BY <2>1
<1>13. ASSUME NEW i \in 1..l, NEW j \in 1..l, queue[i] = queue[j] PROVE i = j
  <2>1. sorted[i] \in 1..l /\ sorted[j] \in 1..l
    BY <1>10
  <2>2. list[sorted[i]] = list[sorted[j]]
    BY <1>11, <1>13
  <2>3. sorted[i] = sorted[j]
    BY <1>5, <2>1, <2>2
  <2> QED
    BY <1>10, <2>3
<1>14. MembersOf(queue) = MembersOf(list)
  <2>1. ASSUME NEW x \in MembersOf(queue) PROVE x \in MembersOf(list)
    BY <1>4, <1>10, <1>11, <1>12 DEF MembersOf
  <2>2. ASSUME NEW n \in 1..l PROVE list[n] \in MembersOf(queue)
    <3>1. PICK k \in 1..l : sorted[k] = n
      BY <1>10
    <3>2. queue[k] = list[n]
      BY <1>11, <3>1
    <3> QED
      BY <1>12, <3>2 DEF MembersOf
  <2>3. \A x \in MembersOf(list) : x \in MembersOf(queue)
    BY <1>4, <2>2 DEF MembersOf
  <2> QED
    BY <2>1, <2>3
<1>15. ASSUME NEW i \in 1..l, NEW j \in 1..l, i < j
       PROVE  Priority(queue[j]) <= Priority(queue[i])
  <2> DEFINE p == Priority(queue[i])
             q == Priority(queue[j])
  <2>1. p \in Nat /\ q \in Nat
    BY <1>11, PriorityIs
  <2>2. key[sorted[i]] = <<-p, sorted[i]>> /\ key[sorted[j]] = <<-q, sorted[j]>>
        /\ sorted[i] \in Int /\ sorted[j] \in Int
    <3>1. sorted[i] \in 1..l /\ sorted[j] \in 1..l
      BY <1>10
    <3>2. queue[i] = list[sorted[i]] /\ queue[j] = list[sorted[j]]
      BY <1>11
    <3> QED
      BY <1>4, <1>9, <3>1, <3>2
  <2>3. Precedes(key[sorted[i]], key[sorted[j]])
    BY <1>10, <1>15
  <2> HIDE DEF p, q
  <2>4. -p \in Int /\ -q \in Int
    BY <2>1
  <2>5. -p < -q \/ -p = -q
    BY <2>2, <2>3, <2>4, PrecedesTwo
  <2>6. q <= p
    BY <2>1, <2>5
  <2> QED
    BY <2>6 DEF p, q
<1>16. ASSUME NEW i \in 1..l, NEW j \in 1..l, i < j
       PROVE  /\ inbox.unread[queue[j]] > 0 => inbox.unread[queue[i]] > 0
              /\ RailAction(queue[i]) = "follow_up" => RailAction(queue[j]) = "follow_up"
  <2> DEFINE p == Priority(queue[i])
             q == Priority(queue[j])
  <2>1. /\ p \in Nat /\ q \in Nat
        /\ (inbox.unread[queue[i]] > 0 <=> p >= 80) /\ (inbox.unread[queue[j]] > 0 <=> q >= 80)
        /\ (RailAction(queue[i]) = "follow_up" <=> p <= 30)
        /\ (RailAction(queue[j]) = "follow_up" <=> q <= 30)
    BY <1>11, PriorityIs
  <2>2. q <= p
    BY <1>15, <1>16
  <2> HIDE DEF p, q
  <2> QED
    BY <2>1, <2>2
<1> DEFINE U == {k \in 1..l : inbox.unread[queue[k]] > 0}
<1>17. PICK u \in 0..l : U = 1..u
  <2>1. U \subseteq 1..l /\ \A i, j \in 1..l : i < j /\ j \in U => i \in U
    BY <1>16
  <2> HIDE DEF U
  <2> QED
    BY <1>4, <2>1, FirstSoMany
<1>18. \A k \in 1..l : inbox.unread[queue[k]] > 0 <=> k <= u
  <2> TAKE k \in 1..l
  <2>1. k \in U <=> k \in 1..u
    BY <1>17
  <2>2. k \in 1..u <=> k <= u
    BY <1>4, <1>17
  <2> QED
    BY <2>1, <2>2
<1>19. IsQueue(queue, u)
  BY <1>3, <1>12, <1>13, <1>14, <1>16, <1>17, <1>18 DEF IsQueue, list
<1> QED
  BY <1>19

LEMMA InboxAgreesInv == InboxInv => InboxAgrees
<1> SUFFICES ASSUME InboxInv PROVE InboxAgrees
  OBVIOUS
<1>1. PICK queue, u : IsQueue(queue, u)
  BY RailHasQueue
<1> DEFINE l == Len(queue)
           q == AtMost(RailQueue, l)
           items == MembersOf(RailItems)
           loaded == MembersOf(LoadedThreads)
           rest == loaded \ items
           hidden == UnreadThreads \ loaded
<1>2. /\ queue \in Seq(Threads) /\ l \in Nat /\ DOMAIN queue = 1..l /\ u \in 0..l
      /\ \A i, j \in 1..l : queue[i] = queue[j] => i = j
      /\ loaded = MembersOf(queue)
      /\ \A k \in 1..l : inbox.unread[queue[k]] > 0 <=> k <= u
      /\ \A i, j \in 1..l :
           (i < j /\ RailAction(queue[i]) = "follow_up") => RailAction(queue[j]) = "follow_up"
      /\ \A k \in 1..l : queue[k] \in Threads
  BY <1>1 DEF IsQueue
<1>3. RailQueue \in Nat \ {0}
  BY InboxAssumption
<1>4. /\ RailItems \in Seq(Threads) /\ Len(RailItems) = q /\ q \in Nat /\ q <= l
      /\ (q = RailQueue \/ q = l) /\ q <= RailQueue
      /\ \A k \in 1..q : RailItems[k] = queue[k]
  <2>1. RailItems = FirstOf(queue, RailQueue)
    BY <1>1 DEF IsQueue
  <2>2. q = RailQueue \/ q = l
    BY DEF AtMost
  <2> QED
    BY <1>2, <1>3, <2>1, <2>2, FirstOfIs
<1> HIDE DEF l, q
<1>5. items = {queue[k] : k \in 1..q}
  <2>1. DOMAIN RailItems = 1..q
    BY <1>4
  <2> QED
    BY <1>4, <2>1 DEF MembersOf
<1>6. loaded = {queue[k] : k \in 1..l}
  BY <1>2 DEF MembersOf
<1> HIDE DEF items, loaded
<1>7. \A t \in rest : \E k \in 1..l : t = queue[k] /\ q < k
  BY <1>4, <1>2, <1>5, <1>6
<1>8. \A k \in 1..l : RailAction(queue[k]) = "reply" <=> k <= u
  BY <1>2, PriorityIs
<1>9. UnreadThreads = hidden \union Stretch(queue, 0, u) /\ hidden \cap Stretch(queue, 0, u) = {}
  <2>1. ASSUME NEW t \in UnreadThreads PROVE t \in hidden \union Stretch(queue, 0, u)
    <3>1. CASE t \in loaded
      <4>1. PICK k \in 1..l : t = queue[k]
        BY <1>6, <3>1
      <4>2. inbox.unread[queue[k]] > 0
        BY <4>1 DEF UnreadThreads
      <4>3. k \in (0 + 1)..u
        BY <1>2, <4>2
      <4> QED
        BY <4>1, <4>3 DEF Stretch
    <3> QED
      BY <3>1
  <2>2. ASSUME NEW t \in Stretch(queue, 0, u) PROVE t \in UnreadThreads /\ t \in loaded
    <3>1. PICK k \in (0 + 1)..u : t = queue[k]
      BY DEF Stretch
    <3>2. k \in 1..l /\ k <= u
      BY <1>2
    <3> QED
      BY <1>2, <1>6, <3>1, <3>2 DEF UnreadThreads
  <2> QED
    BY <2>1, <2>2
<1>10. Cardinality(Stretch(queue, 0, u)) = u /\ IsFiniteSet(Stretch(queue, 0, u))
  <2>1. \A i, j \in (0 + 1)..u : queue[i] = queue[j] => i = j
    BY <1>2
  <2>2. 0 \in Nat /\ u \in Nat /\ 0 <= u
    BY <1>2
  <2> QED
    BY <2>1, <2>2, PlacesCount
<1>11. /\ Cardinality(UnreadThreads) = Cardinality(hidden) + u
       /\ Cardinality(hidden) \in Nat /\ (Cardinality(hidden) = 0 <=> hidden = {})
  <2>1. IsFiniteSet(hidden)
    BY UnreadAreFinite, FS_Subset
  <2> HIDE DEF hidden
  <2>2. Cardinality(hidden \union Stretch(queue, 0, u))
          = Cardinality(hidden) + Cardinality(Stretch(queue, 0, u)) - Cardinality(hidden \cap Stretch(queue, 0, u))
    BY <1>10, <2>1, FS_Union
  <2>3. Cardinality(hidden \cap Stretch(queue, 0, u)) = 0
    BY <1>9, FS_EmptySet
  <2>4. Cardinality(hidden) \in Nat /\ (Cardinality(hidden) = 0 <=> hidden = {})
    BY <2>1, FS_CardinalityType, FS_EmptySet
  <2>5. u \in Nat
    BY <1>2
  <2> QED
    BY <1>9, <1>10, <2>2, <2>3, <2>4, <2>5
<1>12. ASSUME rail.at = "counted", ~rail.moved
       PROVE  rail.unread = Cardinality(hidden) + u
  BY <1>11, <1>12 DEF InboxInv, CountedUntilMoved
<1>13. ASSUME rail.at = "counted", ~rail.moved
       PROVE  NeedsReply <=> (hidden # {} \/ (RailItems # <<>> /\ RailAction(RailItems[1]) = "reply"))
  <2>1. NeedsReply <=> (hidden # {} \/ u > 0)
    <3> HIDE DEF hidden
    <3> QED
      BY <1>2, <1>11, <1>12, <1>13 DEF NeedsReply
  <2>2. ASSUME u > 0 PROVE RailItems # <<>> /\ RailAction(RailItems[1]) = "reply"
    <3>1. q >= 1 /\ 1 \in 1..l /\ 1 <= u
      BY <1>2, <1>3, <1>4, <2>2
    <3>2. RailItems[1] = queue[1] /\ RailItems # <<>>
      BY <1>4, <3>1
    <3> QED
      BY <1>8, <3>1, <3>2
  <2>3. ASSUME RailItems # <<>>, RailAction(RailItems[1]) = "reply" PROVE u > 0
    <3>1. q # 0
      BY <1>4, <2>3
    <3>2. 1 \in 1..q /\ 1 \in 1..l /\ RailItems[1] = queue[1]
      BY <1>2, <1>4, <3>1
    <3>3. 1 <= u
      BY <1>8, <2>3, <3>2
    <3> QED
      BY <1>2, <3>3
  <2> QED
    BY <2>1, <2>2, <2>3
<1>14. ASSUME rail.at = "counted", ~rail.moved
       PROVE  Cardinality({t \in items : RailAction(t) = "reply"})
                = AtMost(RailQueue, rail.unread - Cardinality(hidden))
  <2> DEFINE m == AtMost(RailQueue, u)
  <2>1. rail.unread - Cardinality(hidden) = u
    <3> HIDE DEF hidden
    <3> QED
      BY <1>2, <1>11, <1>12, <1>14
  <2>2. m \in Nat /\ m <= l /\ m <= q /\ m <= u /\ \A k \in 1..q : k <= u => k <= m
    BY <1>2, <1>3, <1>4 DEF AtMost
  <2> HIDE DEF m
  <2>3. {t \in items : RailAction(t) = "reply"} = Stretch(queue, 0, m)
    <3>1. ASSUME NEW t \in items, RailAction(t) = "reply" PROVE t \in Stretch(queue, 0, m)
      <4>1. PICK k \in 1..q : t = queue[k]
        BY <1>5, <3>1
      <4>2. k \in 1..l
        BY <1>2, <1>4
      <4>3. k <= u
        BY <1>8, <3>1, <4>1, <4>2
      <4>4. k \in (0 + 1)..m
        BY <2>2, <4>3
      <4> QED
        BY <4>1, <4>4 DEF Stretch
    <3>2. ASSUME NEW t \in Stretch(queue, 0, m) PROVE t \in items /\ RailAction(t) = "reply"
      <4>1. PICK k \in (0 + 1)..m : t = queue[k]
        BY DEF Stretch
      <4>2. k \in 1..q /\ k \in 1..l /\ k <= u
        BY <1>2, <1>4, <2>2
      <4> QED
        BY <1>5, <1>8, <4>1, <4>2
    <3> QED
      BY <3>1, <3>2
  <2>4. Cardinality(Stretch(queue, 0, m)) = m
    <3>1. \A i, j \in (0 + 1)..m : queue[i] = queue[j] => i = j
      BY <1>2, <2>2
    <3>2. 0 \in Nat /\ 0 <= m
      BY <2>2
    <3>3. Cardinality(Stretch(queue, 0, m)) = m - 0
      BY <2>2, <3>1, <3>2, PlacesCount
    <3> QED
      BY <2>2, <3>3
  <2> QED
    BY <2>1, <2>3, <2>4 DEF m
<1>15. ASSUME NEW t \in rest, NEW s \in items, inbox.unread[t] > 0 PROVE inbox.unread[s] > 0
  <2>1. PICK k \in 1..l : t = queue[k] /\ q < k
    BY <1>7
  <2>2. PICK j \in 1..q : s = queue[j]
    BY <1>5
  <2>3. k <= u
    BY <1>2, <1>15, <2>1
  <2>4. j \in 1..l /\ j <= u
    BY <1>2, <1>4, <2>1, <2>3
  <2> QED
    BY <1>2, <2>2, <2>4
<1>16. ASSUME NEW s \in items, RailAction(s) = "follow_up", NEW t \in rest
       PROVE  RailAction(t) = "follow_up"
  <2>1. PICK k \in 1..l : t = queue[k] /\ q < k
    BY <1>7
  <2>2. PICK j \in 1..q : s = queue[j]
    BY <1>5
  <2>3. j \in 1..l /\ j < k
    BY <1>2, <1>4, <2>1
  <2> QED
    BY <1>2, <1>16, <2>1, <2>2, <2>3
<1>17. ASSUME rail.at = "counted", ~NeedsReply, UnreadThreads # {}
       PROVE  rail.moved
  <2> SUFFICES ASSUME ~rail.moved PROVE FALSE
    OBVIOUS
  <2>1. rail.unread = Cardinality(UnreadThreads)
    BY <1>17 DEF InboxInv, CountedUntilMoved
  <2>2. Cardinality(UnreadThreads) \in Nat /\ Cardinality(UnreadThreads) # 0
    BY <1>17, UnreadAreFinite, FS_EmptySet
  <2> QED
    BY <1>17, <2>1, <2>2 DEF NeedsReply
<1>18. \A t \in Threads :
         /\ Viewer \in {t[2], t[3]}
         /\ inbox.about[t] \in DOMAIN ChatRequests => ChatRequests[inbox.about[t]].client = t[2]
         /\ inbox.about[t] \in DOMAIN ChatOffers => ChatOffers[inbox.about[t]].client = t[2]
  BY DEF InboxInv, OpenedRightly
<1>19. (rail.at = "counted" /\ ~rail.moved) =>
         /\ NeedsReply <=> (hidden # {} \/ (RailItems # <<>> /\ RailAction(RailItems[1]) = "reply"))
         /\ Cardinality({t \in items : RailAction(t) = "reply"})
              = AtMost(RailQueue, rail.unread - Cardinality(hidden))
         /\ \A t \in rest, s \in items : inbox.unread[t] > 0 => inbox.unread[s] > 0
         /\ (\E s \in items : RailAction(s) = "follow_up") =>
              \A t \in rest : RailAction(t) = "follow_up"
  <2> HIDE DEF hidden, rest
  <2> QED
    BY <1>13, <1>14, <1>15, <1>16, Zenon
<1> QED
  BY <1>17, <1>18, <1>19, Zenon DEF InboxAgrees, items, loaded

-----------------------------------------------------------------------------
(* The insights, and the cut of each tab. *)

\* The insights of the nine rules for a viewer.
RuleInsight(rule, type, audience, code, score) ==
  [rule |-> rule, type |-> type, audience |-> audience, code |-> code, score |-> score]

InsightTable(v) ==
  {RuleInsight(1, "demand", "all", "top_category_demand", 75),
   RuleInsight(2, "demand", "all", "top_city_demand", 74),
   RuleInsight(3, "opportunity", v, "city_opportunity_high", 84),
   RuleInsight(4, "opportunity", v, "category_opportunity_high", 79),
   RuleInsight(5, "performance", "provider", "user_fast_response", 74),
   RuleInsight(6, "performance", "provider", "user_low_conversion", 81),
   RuleInsight(7, "growth", "provider", "profile_low_completeness", 72),
   RuleInsight(8, "risk", "all", "high_unanswered_requests", 81),
   RuleInsight(9, "promotion", v, "local_ads_opportunity", 75)}

CityChance(v) == RuleInsight(3, "opportunity", v, "city_opportunity_high", 84)

LowConversion == RuleInsight(6, "performance", "provider", "user_low_conversion", 81)

Warning == RuleInsight(8, "risk", "all", "high_unanswered_requests", 81)

LocalAds(v) == RuleInsight(9, "promotion", v, "local_ads_opportunity", 75)

LEMMA ScoresAre ==
  /\ ScoreOf(75, 70, 85, 72) = 75 /\ ScoreOf(74, 68, 82, 72) = 74
  /\ ScoreOf(88, 84, 83, 75) = 84 /\ ScoreOf(82, 80, 76, 72) = 79
  /\ ScoreOf(70, 82, 74, 70) = 74 /\ ScoreOf(80, 86, 78, 75) = 81
  /\ ScoreOf(62, 79, 81, 67) = 72 /\ ScoreOf(85, 75, 86, 80) = 81
  /\ ScoreOf(78, 74, 72, 73) = 75
BY DEF ScoreOf

\* No rule makes another insight than its own.
LEMMA InsightsAreRules ==
  ASSUME NEW f, NEW item \in RawInsights(f)
  PROVE  item \in InsightTable(f.viewer)
<1>1. CASE item \in DemandInsights(f)
  <2>1. \/ item = RuleInsight(1, "demand", "all", "top_category_demand", ScoreOf(75, 70, 85, 72))
        \/ item = RuleInsight(2, "demand", "all", "top_city_demand", ScoreOf(74, 68, 82, 72))
    BY <1>1 DEF DemandInsights, Where, RuleInsight
  <2> QED
    BY <2>1, ScoresAre, Zenon DEF InsightTable
<1>2. CASE item \in OpportunityInsights(f)
  <2>1. \/ item = RuleInsight(3, "opportunity", f.viewer, "city_opportunity_high", ScoreOf(88, 84, 83, 75))
        \/ item = RuleInsight(4, "opportunity", f.viewer, "category_opportunity_high", ScoreOf(82, 80, 76, 72))
    BY <1>2 DEF OpportunityInsights, Where, RuleInsight
  <2> QED
    BY <2>1, ScoresAre, Zenon DEF InsightTable
<1>3. CASE item \in PerformanceInsights(f)
  <2>1. \/ item = RuleInsight(5, "performance", "provider", "user_fast_response", ScoreOf(70, 82, 74, 70))
        \/ item = RuleInsight(6, "performance", "provider", "user_low_conversion", ScoreOf(80, 86, 78, 75))
    BY <1>3 DEF PerformanceInsights, Where, RuleInsight
  <2> QED
    BY <2>1, ScoresAre, Zenon DEF InsightTable
<1>4. CASE item \in GrowthInsights(f)
  <2>1. item = RuleInsight(7, "growth", "provider", "profile_low_completeness", ScoreOf(62, 79, 81, 67))
    BY <1>4 DEF GrowthInsights, Where, RuleInsight
  <2> QED
    BY <2>1, ScoresAre, Zenon DEF InsightTable
<1>5. CASE item \in RiskInsights(f)
  <2>1. item = RuleInsight(8, "risk", "all", "high_unanswered_requests", ScoreOf(85, 75, 86, 80))
    BY <1>5 DEF RiskInsights, Where, RuleInsight
  <2> QED
    BY <2>1, ScoresAre, Zenon DEF InsightTable
<1>6. CASE item \in PromotionInsights(f)
  <2>1. item = RuleInsight(9, "promotion", f.viewer, "local_ads_opportunity", ScoreOf(78, 74, 72, 73))
    BY <1>6 DEF PromotionInsights, Where, RuleInsight
  <2> QED
    BY <2>1, ScoresAre, Zenon DEF InsightTable
<1> QED
  BY <1>1, <1>2, <1>3, <1>4, <1>5, <1>6, Zenon DEF RawInsights

LEMMA ThreeAreFinite ==
  ASSUME NEW x, NEW y, NEW z
  PROVE  IsFiniteSet({x, y, z})
<1>1. IsFiniteSet({x})
  BY FS_Singleton
<1>2. IsFiniteSet({x} \union {y})
  BY <1>1, FS_AddElement
<1>3. IsFiniteSet(({x} \union {y}) \union {z})
  BY <1>2, FS_AddElement
<1>4. {x, y, z} = ({x} \union {y}) \union {z}
  OBVIOUS
<1> QED
  BY <1>3, <1>4

LEMMA TableIsFinite ==
  ASSUME NEW v
  PROVE  IsFiniteSet(InsightTable(v))
<1>1. PICK a, b, c : a \union b \union c = InsightTable(v) /\ IsFiniteSet(a) /\ IsFiniteSet(b)
                     /\ IsFiniteSet(c)
  <2> DEFINE a == {RuleInsight(1, "demand", "all", "top_category_demand", 75),
                   RuleInsight(2, "demand", "all", "top_city_demand", 74),
                   RuleInsight(3, "opportunity", v, "city_opportunity_high", 84)}
             b == {RuleInsight(4, "opportunity", v, "category_opportunity_high", 79),
                   RuleInsight(5, "performance", "provider", "user_fast_response", 74),
                   RuleInsight(6, "performance", "provider", "user_low_conversion", 81)}
             c == {RuleInsight(7, "growth", "provider", "profile_low_completeness", 72),
                   RuleInsight(8, "risk", "all", "high_unanswered_requests", 81),
                   RuleInsight(9, "promotion", v, "local_ads_opportunity", 75)}
  <2>1. IsFiniteSet(a) /\ IsFiniteSet(b) /\ IsFiniteSet(c)
    BY ThreeAreFinite
  <2>2. a \union b \union c = InsightTable(v)
    BY DEF InsightTable
  <2> HIDE DEF a, b, c
  <2> QED
    BY <2>1, <2>2
<1>2. IsFiniteSet(a \union b)
  BY <1>1, FS_Union
<1>3. IsFiniteSet((a \union b) \union c)
  BY <1>1, <1>2, FS_Union
<1> QED
  BY <1>1, <1>3

\* What the table says of an insight.
LEMMA TableSays ==
  ASSUME NEW v, NEW item \in InsightTable(v)
  PROVE  /\ item.rule \in 1..9 /\ item.score \in 0..100
         /\ item.code # "insufficient_data"
         /\ \A other \in InsightTable(v) : other.rule = item.rule => other = item
         /\ item.code = "high_unanswered_requests" => item = Warning
         /\ item.type = "risk" => item = Warning
         /\ item.code = "local_ads_opportunity" => item = LocalAds(v)
         /\ item.score > 81 \/ (item.score = 81 /\ item.rule < 8) =>
              item \in {CityChance(v), LowConversion}
         /\ InsightAction(item.code) = "follow_up_unanswered" => item = Warning
         /\ InsightAction(item.code) = "focus_market" => item.type \in {"demand", "opportunity"}
BY DEF InsightTable, RuleInsight, Warning, LocalAds, CityChance, LowConversion, InsightAction

\* The insights for a viewer, sorted and cut.
LEMMA ShownAre ==
  ASSUME NEW f, Allowed(f) # {}
  PROVE  LET list == Ranked(Allowed(f)) IN
         /\ IsSorted(list, Allowed(f), [item \in Allowed(f) |-> <<-item.score, item.rule>>])
         /\ Allowed(f) \subseteq InsightTable(f.viewer)
         /\ Shown(f) \in Seq(Allowed(f)) /\ Len(Shown(f)) = AtMost(4, Len(list))
         /\ \A k \in 1..Len(Shown(f)) : Shown(f)[k] = list[k]
         /\ Len(list) # 0
<1> DEFINE S == Allowed(f)
           key == [item \in S |-> <<-item.score, item.rule>>]
           list == Ranked(S)
<1>1. S \subseteq InsightTable(f.viewer)
  BY InsightsAreRules DEF Allowed
<1>2. IsFiniteSet(S)
  <2>1. IsFiniteSet(InsightTable(f.viewer))
    BY TableIsFinite
  <2> HIDE DEF S
  <2> QED
    BY <1>1, <2>1, FS_Subset
<1>3. S # {}
  OBVIOUS
<1> HIDE DEF S
<1>4. ASSUME NEW item \in S PROVE IsKey(key[item], 2)
  <2> DEFINE a == -item.score
             b == item.rule
  <2>1. a \in Int /\ b \in Int /\ key[item] = <<a, b>>
    BY <1>1, TableSays
  <2> HIDE DEF a, b, key
  <2> QED
    BY <2>1 DEF IsKey
<1>5. ASSUME NEW x \in S, NEW y \in S, key[x] = key[y] PROVE x = y
  <2>1. <<-x.score, x.rule>> = <<-y.score, y.rule>>
    BY <1>5
  <2>2. x.rule = y.rule
    BY <2>1
  <2> QED
    BY <1>1, <2>2, TableSays
<1>6. IsSorted(list, S, key)
  <2>1. list = InOrder(S, key)
    BY DEF Ranked
  <2> HIDE DEF key, list
  <2> QED
    BY <1>2, <1>4, <1>5, <2>1, InOrderSorts
<1>7. list \in Seq(S) /\ Len(list) \in Nat /\ Len(list) # 0
  <2> HIDE DEF list, key
  <2>1. list \in Seq(S) /\ \A x \in S : \E k \in 1..Len(list) : list[k] = x
    BY <1>6 DEF IsSorted
  <2>2. PICK x \in S : TRUE
    BY <1>3
  <2> QED
    BY <2>1, <2>2
<1>8. Shown(f) = FirstOf(list, 4)
  BY <1>3 DEF Shown, S, MaxInsights
<1> HIDE DEF list, key
<1>9. /\ Shown(f) \in Seq(S) /\ Len(Shown(f)) = AtMost(4, Len(list))
      /\ \A k \in 1..Len(Shown(f)) : Shown(f)[k] = list[k]
  <2> DEFINE cut == FirstOf(list, 4)
  <2>1. /\ cut \in Seq(S) /\ Len(cut) = AtMost(4, Len(list))
        /\ \A k \in 1..AtMost(4, Len(list)) : cut[k] = list[k]
    <3>1. list \in Seq(S) /\ 4 \in Nat
      BY <1>7
    <3> QED
      BY <3>1, FirstOfIs, Zenon
  <2> HIDE DEF cut
  <2>2. Shown(f) = cut
    BY <1>8 DEF cut
  <2> QED
    BY <2>1, <2>2, Zenon
<1> QED
  BY <1>1, <1>6, <1>7, <1>9 DEF S, key, list

LEMMA BeforeWarning ==
  ASSUME NEW score \in 0..100, NEW rule \in 1..9, Precedes(<<-score, rule>>, <<-81, 8>>)
  PROVE  score > 81 \/ (score = 81 /\ rule < 8)
<1>1. -score \in Int /\ rule \in Int /\ -81 \in Int /\ 8 \in Int
  OBVIOUS
<1>2. -score < -81 \/ (-score = -81 /\ rule < 8)
  BY <1>1, PrecedesTwo
<1> QED
  BY <1>2

\* A warning that is due is among the first three.
LEMMA WarningIsEarly ==
  ASSUME NEW f, f.unanswered >= 3
  PROVE  /\ Allowed(f) # {} /\ Warning \in Allowed(f)
         /\ \E k \in 1..Len(Shown(f)) : k <= 3 /\ Shown(f)[k] = Warning
<1> DEFINE S == Allowed(f)
           key == [item \in S |-> <<-item.score, item.rule>>]
           list == Ranked(S)
           v == f.viewer
<1>1. Warning \in S
  <2>1. Warning \in RiskInsights(f)
    BY ScoresAre DEF RiskInsights, Where, Warning, RuleInsight
  <2>2. Warning.audience = "all"
    BY DEF Warning, RuleInsight
  <2> QED
    BY <2>1, <2>2 DEF Allowed, RawInsights
<1>2. /\ IsSorted(list, S, key) /\ S \subseteq InsightTable(v)
      /\ Len(Shown(f)) = AtMost(4, Len(list))
      /\ \A k \in 1..Len(Shown(f)) : Shown(f)[k] = list[k]
  BY <1>1, ShownAre
<1> HIDE DEF S, list
<1>3. PICK k \in 1..Len(list) : list[k] = Warning
  BY <1>1, <1>2 DEF IsSorted
<1> DEFINE before == {y \in S : Precedes(key[y], key[Warning])}
<1>4. Cardinality(before) = k - 1
  BY <1>2, <1>3 DEF IsSorted
<1>5. before \subseteq {CityChance(v), LowConversion}
  <2> SUFFICES ASSUME NEW y \in S, Precedes(key[y], key[Warning])
               PROVE  y \in {CityChance(v), LowConversion}
    OBVIOUS
  <2>1. key[Warning] = <<-81, 8>>
    BY <1>1 DEF Warning, RuleInsight
  <2>2. key[y] = <<-y.score, y.rule>> /\ y \in InsightTable(v)
    BY <1>2
  <2> HIDE DEF v, key
  <2>3. y.score \in 0..100 /\ y.rule \in 1..9
    BY <2>2, TableSays
  <2>4. Precedes(<<-y.score, y.rule>>, <<-81, 8>>)
    BY <2>1, <2>2
  <2>5. y.score > 81 \/ (y.score = 81 /\ y.rule < 8)
    BY <2>3, <2>4, BeforeWarning, ZenonT(30)
  <2> QED
    BY <2>2, <2>5, TableSays
<1>6. IsFiniteSet({CityChance(v), LowConversion}) /\ Cardinality({CityChance(v), LowConversion}) <= 2
  <2>1. IsFiniteSet({LowConversion}) /\ Cardinality({LowConversion}) = 1
    BY FS_Singleton
  <2>2. {CityChance(v), LowConversion} = {LowConversion} \union {CityChance(v)}
    OBVIOUS
  <2>3. /\ IsFiniteSet({LowConversion} \union {CityChance(v)})
        /\ Cardinality({LowConversion} \union {CityChance(v)})
             = IF CityChance(v) \in {LowConversion} THEN Cardinality({LowConversion})
               ELSE Cardinality({LowConversion}) + 1
    BY <2>1, FS_AddElement, Zenon
  <2>4. Cardinality({LowConversion} \union {CityChance(v)}) <= 2
    BY <2>1, <2>3
  <2> QED
    BY <2>2, <2>3, <2>4, Zenon
<1> HIDE DEF before
<1>7. Cardinality(before) <= 2
  <2>1. IsFiniteSet(before) /\ Cardinality(before) <= Cardinality({CityChance(v), LowConversion})
    BY <1>5, <1>6, FS_Subset
  <2>2. Cardinality(before) \in Nat /\ Cardinality({CityChance(v), LowConversion}) \in Nat
    BY <1>6, <2>1, FS_CardinalityType
  <2> QED
    BY <1>6, <2>1, <2>2
<1>8. k <= 3 /\ Len(list) \in Nat
  BY <1>2, <1>4, <1>7 DEF IsSorted
<1>9. k \in 1..Len(Shown(f))
  BY <1>2, <1>3, <1>8 DEF AtMost
<1> QED
  BY <1>1, <1>2, <1>3, <1>8, <1>9 DEF S

\* What is shown at all comes from the table, but for the fallback.
LEMMA ShownItems ==
  ASSUME NEW f, NEW k \in DOMAIN Shown(f)
  PROVE  /\ k \in 1..Len(Shown(f)) /\ Len(Shown(f)) \in 0..4
         /\ \/ Allowed(f) # {} /\ Shown(f)[k] \in InsightTable(f.viewer)
            \/ Allowed(f) = {} /\ Shown(f) = <<Fallback>> /\ Shown(f)[k] = Fallback
<1>1. CASE Allowed(f) = {}
  <2>1. Shown(f) = <<Fallback>>
    BY <1>1 DEF Shown
  <2> QED
    BY <1>1, <2>1
<1>2. CASE Allowed(f) # {}
  <2>1. Shown(f) \in Seq(Allowed(f)) /\ Allowed(f) \subseteq InsightTable(f.viewer)
        /\ Len(Shown(f)) = AtMost(4, Len(Ranked(Allowed(f))))
    BY <1>2, ShownAre
  <2>2. k \in 1..Len(Shown(f)) /\ Shown(f)[k] \in Allowed(f) /\ Len(Shown(f)) \in Nat
    BY <2>1
  <2>3. Len(Ranked(Allowed(f))) \in Nat
    BY <1>2, ShownAre DEF IsSorted
  <2>4. Len(Shown(f)) \in 0..4
    <3>1. \A n \in Nat : AtMost(4, n) \in 0..4
      BY DEF AtMost
    <3> QED
      BY <2>1, <2>3, <3>1, Zenon
  <2> QED
    BY <1>2, <2>1, <2>2, <2>4, Zenon
<1> QED
  BY <1>1, <1>2

\* Who is advised to advertise locally is shown the chance in a city before.
LEMMA AdsRestOnChance ==
  ASSUME NEW f \in Figures, NEW i \in 1..4, CodeAt(Shown(f), "local_ads_opportunity", i)
  PROVE  \E j \in 1..(i - 1) :
           /\ CodeAt(Shown(f), "city_opportunity_high", j)
           /\ Shown(f)[j] \in Opportunities(f)
<1> DEFINE S == Allowed(f)
           key == [item \in S |-> <<-item.score, item.rule>>]
           list == Ranked(S)
           v == f.viewer
<1>1. i \in DOMAIN Shown(f) /\ Shown(f)[i].code = "local_ads_opportunity"
  BY DEF CodeAt
<1>2. i \in 1..Len(Shown(f)) /\ Shown(f)[i] \in InsightTable(v) /\ S # {}
  <2>1. Fallback.code # "local_ads_opportunity"
    BY DEF Fallback
  <2> QED
    BY <1>1, <2>1, ShownItems
<1>3. Shown(f)[i] = LocalAds(v)
  BY <1>1, <1>2, TableSays
<1>4. /\ IsSorted(list, S, key) /\ S \subseteq InsightTable(v)
      /\ Shown(f) \in Seq(S) /\ Len(Shown(f)) = AtMost(4, Len(list))
      /\ \A k \in 1..Len(Shown(f)) : Shown(f)[k] = list[k]
  BY <1>2, ShownAre
<1>5. LocalAds(v) \in S
  BY <1>2, <1>3, <1>4
<1>6. PICK city \in {f.cities[n] : n \in DOMAIN f.cities} : f.viewer # "client" /\ RatioAtLeast(city, 170)
  <2>1. LocalAds(v) \in RawInsights(f)
    BY <1>5 DEF Allowed
  <2>2. LocalAds(v).rule = 9
    BY DEF LocalAds, RuleInsight
  <2>3. LocalAds(v) \in PromotionInsights(f)
    <3>1. \A rule, type, audience, code, score, applies :
            LocalAds(v) \in Where(applies, rule, type, audience, code, score) => rule = 9
      BY <2>2 DEF Where
    <3>2. LocalAds(v) \notin DemandInsights(f)
      BY <3>1 DEF DemandInsights
    <3>3. LocalAds(v) \notin OpportunityInsights(f)
      BY <3>1 DEF OpportunityInsights
    <3>4. LocalAds(v) \notin PerformanceInsights(f)
      BY <3>1 DEF PerformanceInsights
    <3>5. LocalAds(v) \notin GrowthInsights(f)
      BY <3>1 DEF GrowthInsights
    <3>6. LocalAds(v) \notin RiskInsights(f)
      BY <3>1 DEF RiskInsights
    <3> QED
      BY <2>1, <3>2, <3>3, <3>4, <3>5, <3>6, Zenon DEF RawInsights
  <2>4. f.viewer # "client" /\ Some(f.cities, LAMBDA city : RatioAtLeast(city, 170)
                                                        /\ city.providerSearches >= 2)
    BY <2>3 DEF PromotionInsights, Where
  <2> QED
    BY <2>4 DEF Some
<1>7. RatioAtLeast(city, 150)
  <2> DEFINE d == DemandSupplyRatio(city)
             City == [requests: Nat, jobSearches: Nat, providerSearches: Nat]
  <2>1. f.cities \in CityLists
    BY DEF Figures
  <2>2. f.cities \in Seq(City)
    BY <2>1, InsightsAssumption
  <2>3. city \in City
    <3> HIDE DEF City
    <3> QED
      BY <1>6, <2>2
  <2>4. city.jobSearches \in Nat /\ city.providerSearches \in Nat
    BY <2>3
  <2>5. d \in Int \union {NoFigure}
    BY <2>4 DEF DemandSupplyRatio
  <2> HIDE DEF d
  <2>6. d # NoFigure /\ d >= 170
    BY <1>6 DEF RatioAtLeast, d
  <2>7. d # NoFigure /\ d >= 150
    BY <2>5, <2>6
  <2> QED
    BY <2>7 DEF RatioAtLeast, d
<1>8. CityChance(v) \in S
  <2>1. f.viewer # "client" /\ Some(f.cities, LAMBDA c : RatioAtLeast(c, 150))
    BY <1>6, <1>7 DEF Some
  <2>2. CityChance(v) \in OpportunityInsights(f)
    BY <2>1, ScoresAre DEF OpportunityInsights, Where, CityChance, RuleInsight
  <2>3. CityChance(v).audience = f.viewer
    BY DEF CityChance, RuleInsight
  <2> QED
    BY <2>2, <2>3, Zenon DEF Allowed, RawInsights
<1> HIDE DEF S, list
<1>9. PICK j \in 1..Len(list) : list[j] = CityChance(v)
  BY <1>4, <1>8 DEF IsSorted
<1>10. key[CityChance(v)] = <<-84, 3>> /\ key[LocalAds(v)] = <<-75, 9>>
  BY <1>5, <1>8 DEF CityChance, LocalAds, RuleInsight
<1> HIDE DEF key
<1>11. Len(list) \in Nat /\ i \in 1..Len(list) /\ list[i] = LocalAds(v)
  BY <1>2, <1>3, <1>4 DEF IsSorted, AtMost
<1>12. j < i
  <2>1. j # i
    <3>1. CityChance(v).rule = 3 /\ LocalAds(v).rule = 9
      BY DEF CityChance, LocalAds, RuleInsight
    <3> QED
      BY <1>9, <1>11, <3>1
  <2>2. ~(i < j)
    <3> SUFFICES ASSUME i < j PROVE FALSE
      OBVIOUS
    <3>1. Precedes(key[list[i]], key[list[j]])
      BY <1>4, <1>9, <1>11 DEF IsSorted
    <3>2. Precedes(<<-75, 9>>, <<-84, 3>>)
      BY <1>9, <1>10, <1>11, <3>1
    <3>3. PICK a, b \in Int, c, d \in Int : a = -75 /\ b = -84 /\ c = 9 /\ d = 3
      OBVIOUS
    <3>4. Precedes(<<a, c>>, <<b, d>>)
      BY <3>2, <3>3, Zenon
    <3>5. a < b \/ (a = b /\ c < d)
      BY <3>4, PrecedesTwo, Zenon
    <3> QED
      BY <3>3, <3>5
  <2> QED
    BY <1>9, <1>11, <2>1, <2>2
<1>13. j \in 1..(i - 1) /\ j \in 1..Len(Shown(f)) /\ Shown(f)[j] = CityChance(v)
  BY <1>2, <1>4, <1>9, <1>12
<1>14. j \in DOMAIN Shown(f)
  BY <1>4, <1>13
<1>15. CityChance(v).code = "city_opportunity_high" /\ CityChance(v).type = "opportunity"
  BY DEF CityChance, RuleInsight
<1>16. Shown(f)[j] \in Opportunities(f)
  BY <1>13, <1>14, <1>15 DEF Opportunities, MembersOf
<1> QED
  BY <1>13, <1>14, <1>15, <1>16 DEF CodeAt

\* The steps are the first three of what is shown.
LEMMA NextStepsAre ==
  ASSUME NEW f, Allowed(f) # {}
  PROVE  /\ DOMAIN NextSteps(f) = 1..AtMost(3, Len(Shown(f)))
         /\ \A k \in 1..AtMost(3, Len(Shown(f))) : k \in DOMAIN Shown(f) /\ NextSteps(f)[k] = Shown(f)[k]
<1>1. Shown(f) \in Seq(Allowed(f)) /\ Allowed(f) \subseteq InsightTable(f.viewer)
  BY ShownAre
<1>2. Shown(f) # <<Fallback>>
  <2> SUFFICES ASSUME Shown(f) = <<Fallback>> PROVE FALSE
    OBVIOUS
  <2>1. Fallback \in InsightTable(f.viewer)
    BY <1>1
  <2>2. Fallback.code = "insufficient_data"
    BY DEF Fallback
  <2> QED
    BY <2>1, <2>2, TableSays
<1>3. NextSteps(f) = FirstOf(Shown(f), 3)
  BY <1>2 DEF NextSteps
<1>4. /\ FirstOf(Shown(f), 3) \in Seq(Allowed(f))
      /\ Len(FirstOf(Shown(f), 3)) = AtMost(3, Len(Shown(f)))
      /\ AtMost(3, Len(Shown(f))) \in Nat /\ AtMost(3, Len(Shown(f))) <= Len(Shown(f))
      /\ \A k \in 1..AtMost(3, Len(Shown(f))) : FirstOf(Shown(f), 3)[k] = Shown(f)[k]
  BY <1>1, FirstOfIs
<1>5. DOMAIN Shown(f) = 1..Len(Shown(f)) /\ Len(Shown(f)) \in Nat
  BY <1>1
<1> QED
  BY <1>3, <1>4, <1>5

LEMMA CutKeeps ==
  ASSUME NEW f \in Figures
  PROVE  /\ f.unanswered >= 3 =>
              /\ \E i \in 1..3 : CodeAt(NextSteps(f), "high_unanswered_requests", i)
              /\ Warning \in Risks(f)
         /\ \A i \in 1..MaxInsights :
              CodeAt(Shown(f), "local_ads_opportunity", i)
                => \E j \in 1..(i - 1) :
                     /\ CodeAt(Shown(f), "city_opportunity_high", j)
                     /\ Shown(f)[j] \in Opportunities(f)
<1>1. ASSUME f.unanswered >= 3
      PROVE  /\ \E i \in 1..3 : CodeAt(NextSteps(f), "high_unanswered_requests", i)
             /\ Warning \in Risks(f)
  <2>1. Allowed(f) # {}
    BY <1>1, WarningIsEarly
  <2>2. PICK k \in 1..Len(Shown(f)) : k <= 3 /\ Shown(f)[k] = Warning
    BY <1>1, WarningIsEarly
  <2>3. Len(Shown(f)) \in Nat /\ DOMAIN Shown(f) = 1..Len(Shown(f))
    BY <2>1, ShownAre
  <2>4. k \in 1..AtMost(3, Len(Shown(f))) /\ k \in 1..3
    BY <2>2, <2>3 DEF AtMost
  <2>5. k \in DOMAIN NextSteps(f) /\ NextSteps(f)[k] = Warning
    BY <2>1, <2>2, <2>4, NextStepsAre
  <2>6. Warning.code = "high_unanswered_requests" /\ Warning.type = "risk"
    BY DEF Warning, RuleInsight
  <2>7. Warning \in Risks(f)
    BY <2>2, <2>3, <2>6 DEF Risks, MembersOf
  <2> QED
    BY <2>4, <2>5, <2>6, <2>7 DEF CodeAt
<1> QED
  BY <1>1, AdsRestOnChance DEF MaxInsights

LEMMA CutKeepsInv == InsightsTypeOK => CutKeepsWhatMatters
<1> SUFFICES ASSUME InsightsTypeOK, figures # NoFigure PROVE CutKeepsWhatMatters
  BY DEF CutKeepsWhatMatters
<1>1. figures \in Figures
  BY DEF InsightsTypeOK
<1> QED
  BY <1>1, CutKeeps, Zenon DEF CutKeepsWhatMatters

\* The steps and the signals.
LEMMA StepsAndSignals ==
  ASSUME NEW f \in Figures
  PROVE  StepsFollowSignals(Steps(f), {s.action : s \in Signals(f)})
<1> DEFINE v == f.viewer
           signals == {s.action : s \in Signals(f)}
<1>1. \A k \in DOMAIN NextSteps(f) :
        /\ Allowed(f) # {} /\ k \in DOMAIN Shown(f) /\ NextSteps(f)[k] = Shown(f)[k]
        /\ Shown(f)[k] \in InsightTable(v)
  <2> SUFFICES ASSUME NEW k \in DOMAIN NextSteps(f)
               PROVE  /\ Allowed(f) # {} /\ k \in DOMAIN Shown(f) /\ NextSteps(f)[k] = Shown(f)[k]
                      /\ Shown(f)[k] \in InsightTable(v)
    OBVIOUS
  <2>1. Allowed(f) # {}
    <3> SUFFICES ASSUME Allowed(f) = {} PROVE FALSE
      OBVIOUS
    <3>1. NextSteps(f) = <<>>
      BY DEF NextSteps, Shown
    <3> QED
      BY <3>1
  <2>2. k \in DOMAIN Shown(f) /\ NextSteps(f)[k] = Shown(f)[k]
    BY <2>1, NextStepsAre
  <2> QED
    BY <2>1, <2>2, ShownItems
<1>2. ASSUME NEW action \in Steps(f)
      PROVE  \E item \in MembersOf(Shown(f)) : item \in InsightTable(v) /\ action = InsightAction(item.code)
                                               /\ Allowed(f) # {}
  <2>1. PICK item \in MembersOf(NextSteps(f)) : action = InsightAction(item.code)
    BY DEF Steps
  <2>2. PICK k \in DOMAIN NextSteps(f) : item = NextSteps(f)[k]
    BY DEF MembersOf
  <2>3. item \in MembersOf(Shown(f)) /\ item \in InsightTable(v) /\ Allowed(f) # {}
    BY <1>1, <2>2 DEF MembersOf
  <2> QED
    BY <2>1, <2>3
<1>3. ASSUME "focus_market" \in Steps(f) PROVE "focus_market" \in signals
  <2>1. PICK item \in MembersOf(Shown(f)) : item \in InsightTable(v) /\ InsightAction(item.code) = "focus_market"
    BY <1>2, <1>3
  <2>2. item \in Opportunities(f)
    BY <2>1, TableSays DEF Opportunities
  <2>3. OpportunitySignal(item) \in Signals(f)
    BY <2>2 DEF Signals
  <2>4. OpportunitySignal(item).action = "focus_market"
    BY <2>1 DEF OpportunitySignal, Signal
  <2> QED
    BY <2>3, <2>4
<1>4. ASSUME "follow_up_unanswered" \in Steps(f) PROVE "follow_up_unanswered" \in signals
  <2>1. PICK item \in MembersOf(Shown(f)) :
               item \in InsightTable(v) /\ InsightAction(item.code) = "follow_up_unanswered"
    BY <1>2, <1>4
  <2>2. item = Warning
    BY <2>1, TableSays
  <2>3. item \in Risks(f)
    BY <2>1, <2>2 DEF Risks, Warning, RuleInsight
  <2>4. RiskSignal(item) \in Signals(f) /\ RiskSignal(item).action = "follow_up_unanswered"
    BY <2>1, <2>3 DEF Signals, RiskSignal, Signal
  <2> QED
    BY <2>4
<1>5. ASSUME "follow_up_unanswered" \in signals PROVE "follow_up_unanswered" \in Steps(f)
  <2>1. PICK s \in Signals(f) : s.action = "follow_up_unanswered"
    BY <1>5
  <2>2. \A item : OpportunitySignal(item).action # "follow_up_unanswered"
    BY DEF OpportunitySignal, Signal
  <2>3. PICK item \in Risks(f) : s = RiskSignal(item)
    BY <2>1, <2>2 DEF Signals
  <2>4. PICK k \in DOMAIN Shown(f) : item = Shown(f)[k]
    BY DEF Risks, MembersOf
  <2>5. item.type = "risk" /\ Fallback.type = "growth"
    BY DEF Risks, Fallback
  <2>6. item \in InsightTable(v) /\ Allowed(f) # {}
    BY <2>4, <2>5, ShownItems
  <2>7. item = Warning
    BY <2>5, <2>6, TableSays
  <2>8. Warning \in RawInsights(f)
    <3>1. Shown(f) \in Seq(Allowed(f)) /\ k \in DOMAIN Shown(f) /\ Shown(f)[k] = Warning
      BY <2>4, <2>6, <2>7, ShownAre
    <3>2. Warning \in Allowed(f)
      BY <3>1
    <3> QED
      BY <3>2 DEF Allowed
  <2>9. f.unanswered >= 3
    <3>1. \A rule, type, audience, code, score, applies :
            Warning \in Where(applies, rule, type, audience, code, score) => rule = 8
      BY DEF Where, Warning, RuleInsight
    <3>2. Warning \notin DemandInsights(f)
      BY <3>1 DEF DemandInsights
    <3>3. Warning \notin OpportunityInsights(f)
      BY <3>1 DEF OpportunityInsights
    <3>4. Warning \notin PerformanceInsights(f)
      BY <3>1 DEF PerformanceInsights
    <3>5. Warning \notin GrowthInsights(f)
      BY <3>1 DEF GrowthInsights
    <3>6. Warning \notin PromotionInsights(f)
      BY <3>1 DEF PromotionInsights
    <3>7. Warning \in RiskInsights(f)
      BY <2>8, <3>2, <3>3, <3>4, <3>5, <3>6, Zenon DEF RawInsights
    <3> QED
      BY <3>7 DEF RiskInsights, Where
  <2>10. PICK i \in 1..3 : CodeAt(NextSteps(f), "high_unanswered_requests", i)
    BY <2>9, CutKeeps
  <2>11. i \in DOMAIN NextSteps(f) /\ NextSteps(f)[i].code = "high_unanswered_requests"
    BY <2>10 DEF CodeAt
  <2>12. InsightAction("high_unanswered_requests") = "follow_up_unanswered"
    BY DEF InsightAction
  <2> QED
    BY <2>11, <2>12 DEF Steps, MembersOf
<1> QED
  BY <1>3, <1>4, <1>5 DEF StepsFollowSignals

-----------------------------------------------------------------------------
(* The funnels of a provider and of the market. *)

\* The counts of a funnel, which only fall.
LEMMA NormalisedIs ==
  ASSUME NEW raw \in [{"requests", "offers", "responses", "contracts", "completed"} -> Nat]
  PROVE  LET n == Normalised(raw) IN
         /\ n["requests"] \in Nat /\ n["offers"] \in Nat /\ n["responses"] \in Nat
         /\ n["contracts"] \in Nat /\ n["completed"] \in Nat
         /\ n["offers"] <= n["requests"] /\ n["responses"] <= n["offers"]
         /\ n["contracts"] <= n["responses"] /\ n["completed"] <= n["contracts"]
<1>1. \A m, n \in Nat : AtMost(m, n) \in Nat /\ AtMost(m, n) <= n
  BY DEF AtMost
<1>2. /\ raw["requests"] \in Nat /\ raw["offers"] \in Nat /\ raw["responses"] \in Nat
      /\ raw["contracts"] \in Nat /\ raw["completed"] \in Nat
  OBVIOUS
<1> QED
  BY <1>1, <1>2 DEF Normalised

\* As a function of the stage's number.
LEMMA FallingCounts ==
  ASSUME NEW raw \in [{"requests", "offers", "responses", "contracts", "completed"} -> Nat]
  PROVE  LET c == [i \in 1..5 |-> Normalised(raw)[Stages[i]]] IN
         /\ c \in [1..5 -> Nat]
         /\ \A i \in 2..5 : c[i] <= c[i - 1]
<1> DEFINE n == Normalised(raw)
           c == [i \in 1..5 |-> n[Stages[i]]]
<1>1. /\ n["requests"] \in Nat /\ n["offers"] \in Nat /\ n["responses"] \in Nat
      /\ n["contracts"] \in Nat /\ n["completed"] \in Nat
      /\ n["offers"] <= n["requests"] /\ n["responses"] <= n["offers"]
      /\ n["contracts"] <= n["responses"] /\ n["completed"] <= n["contracts"]
  BY NormalisedIs
<1>2. /\ Stages[1] = "requests" /\ Stages[2] = "offers" /\ Stages[3] = "responses"
      /\ Stages[4] = "contracts" /\ Stages[5] = "completed"
  BY DEF Stages
<1> HIDE DEF n
<1>3. \A i \in 1..5 : n[Stages[i]] \in Nat
  BY <1>1, <1>2
<1>4. ASSUME NEW i \in 2..5 PROVE n[Stages[i]] <= n[Stages[i - 1]]
  <2>1. i = 2 \/ i = 3 \/ i = 4 \/ i = 5
    OBVIOUS
  <2> QED
    BY <1>1, <1>2, <2>1
<1> QED
  BY <1>3, <1>4 DEF n

\* A rate, rounded, is within half a percent of the quotient.
LEMMA RateIs ==
  ASSUME NEW c \in Nat, NEW b \in Nat, c <= b, b # 0
  PROVE  /\ Rate(c, b) \in 0..100
         /\ 200 * c - b < 2 * b * Rate(c, b)
         /\ 2 * b * Rate(c, b) <= 200 * c + b
<1> DEFINE q == (200 * c + b) \div (2 * b)
<1>1. q \in Nat /\ (2 * b) * q <= 200 * c + b /\ 200 * c + b < (2 * b) * q + 2 * b
  <2> DEFINE x == 200 * c + b
             y == 2 * b
  <2>1. x \in Nat /\ y \in Nat \ {0}
    OBVIOUS
  <2> HIDE DEF x, y
  <2>2. x \div y \in Nat /\ y * (x \div y) <= x /\ x < y * (x \div y) + y
    BY <2>1
  <2> QED
    BY <2>2 DEF x, y
<1>2. Rate(c, b) = AtMost(q, 100)
  <2>1. RoundDiv(100 * c, b) = q
    <3>1. 2 * (100 * c) + b = 200 * c + b
      OBVIOUS
    <3> QED
      BY <3>1 DEF RoundDiv
  <2> QED
    BY <2>1 DEF Rate
<1> HIDE DEF q
<1>3. q <= 100
  <2>1. ASSUME 101 <= q PROVE (2 * b) * 101 <= (2 * b) * q
    BY <1>1, <2>1
  <2> QED
    BY <1>1, <2>1
<1>4. Rate(c, b) = q
  BY <1>1, <1>2, <1>3 DEF AtMost
<1>5. 2 * b * q = (2 * b) * q
  BY <1>1
<1> QED
  BY <1>1, <1>3, <1>4, <1>5

LEMMA RateUnknown ==
  ASSUME NEW c \in Nat
  PROVE  Rate(c, 0) = Unknown
BY DEF Rate

LEMMA Scaled ==
  ASSUME NEW k \in Nat, NEW x \in Int, NEW y \in Int, x <= y
  PROVE  k * x <= k * y
OBVIOUS

\* What is of a higher rate falls behind by less than rounding hides.
LEMMA RatesCompare ==
  ASSUME NEW c \in Nat, NEW b \in Nat, c <= b, b # 0,
         NEW d \in Nat, NEW a \in Nat, d <= a, a # 0,
         Rate(c, b) <= Rate(d, a)
  PROVE  100 * (c * a) <= 100 * (d * b) + b * a
<1> DEFINE r == Rate(c, b)
           s == Rate(d, a)
<1>1. r \in Nat /\ 200 * c - b < 2 * (b * r)
  <2>1. r \in 0..100 /\ 200 * c - b < 2 * b * r
    BY RateIs
  <2> HIDE DEF r
  <2>2. 2 * b * r = 2 * (b * r)
    BY <2>1
  <2> QED
    BY <2>1, <2>2
<1>2. s \in Nat /\ 2 * (a * s) <= 200 * d + a
  <2>1. s \in 0..100 /\ 2 * a * s <= 200 * d + a
    BY RateIs
  <2> HIDE DEF s
  <2>2. 2 * a * s = 2 * (a * s)
    BY <2>1
  <2> QED
    BY <2>1, <2>2
<1>3. r <= s
  OBVIOUS
<1> HIDE DEF r, s
<1>4. a * (200 * c - b) <= a * (2 * (b * r))
  <2>1. 200 * c - b \in Int /\ 2 * (b * r) \in Int /\ 200 * c - b <= 2 * (b * r)
    BY <1>1
  <2> QED
    BY <2>1, Scaled
<1>5. (a * b) * r <= (a * b) * s
  <2>1. a * b \in Nat /\ r \in Int /\ s \in Int
    BY <1>1, <1>2
  <2> QED
    BY <1>3, <2>1, Scaled
<1>6. b * (2 * (a * s)) <= b * (200 * d + a)
  BY <1>2
<1>7. /\ a * (200 * c - b) = 200 * (c * a) - b * a /\ a * (2 * (b * r)) = 2 * ((a * b) * r)
      /\ b * (2 * (a * s)) = 2 * ((a * b) * s) /\ b * (200 * d + a) = 200 * (d * b) + b * a
  BY <1>1, <1>2
<1> DEFINE ca == c * a
           db == d * b
           ba == b * a
           x == (a * b) * r
           y == (a * b) * s
<1>8. ca \in Int /\ db \in Int /\ ba \in Int /\ x \in Int /\ y \in Int
  BY <1>1, <1>2
<1>9. 200 * ca - ba <= 2 * x /\ x <= y /\ 2 * y <= 200 * db + ba
  BY <1>4, <1>5, <1>6, <1>7
<1> HIDE DEF ca, db, ba, x, y
<1>10. 100 * ca <= 100 * db + ba
  BY <1>8, <1>9
<1> QED
  BY <1>10 DEF ca, db, ba

\* One stage more: with c of b cases, and b of f in all; and d of a, and a of e.
LEMMA StageAfterStage ==
  ASSUME NEW c \in Nat, NEW b \in Nat, NEW f \in Nat, b <= f,
         NEW d \in Nat, NEW a \in Nat, NEW e \in Nat, d <= a, a # 0, NEW j \in Nat,
         100 * (c * a) <= 100 * (d * b) + b * a,
         100 * (b * e) <= 100 * (a * f) + j * (e * f)
  PROVE  100 * (c * e) <= 100 * (d * f) + (j + 1) * (e * f)
<1>1. e * (100 * (c * a)) <= e * (100 * (d * b) + b * a)
  OBVIOUS
<1>2. d * (100 * (b * e)) <= d * (100 * (a * f) + j * (e * f))
  OBVIOUS
<1> DEFINE ace == a * (c * e)
           bde == b * (d * e)
           abe == a * (b * e)
           adf == a * (d * f)
           djef == j * (d * (e * f))
           aef == a * (e * f)
           jaef == j * (a * (e * f))
<1>3. /\ ace \in Nat /\ bde \in Nat /\ abe \in Nat /\ adf \in Nat /\ djef \in Nat /\ aef \in Nat
      /\ jaef \in Nat
  OBVIOUS
<1>4. /\ e * (100 * (c * a)) = 100 * ace /\ e * (100 * (d * b) + b * a) = 100 * bde + abe
      /\ d * (100 * (b * e)) = 100 * bde
      /\ d * (100 * (a * f) + j * (e * f)) = 100 * adf + djef
  OBVIOUS
<1>5. djef <= jaef
  <2>1. d * (j * (e * f)) <= a * (j * (e * f))
    <3> DEFINE x == j * (e * f)
    <3>1. x \in Nat
      OBVIOUS
    <3> HIDE DEF x
    <3> QED
      BY <3>1 DEF x
  <2>2. d * (j * (e * f)) = djef /\ a * (j * (e * f)) = jaef
    OBVIOUS
  <2> QED
    BY <2>1, <2>2
<1>6. abe <= aef
  <2>1. b * (a * e) <= f * (a * e)
    OBVIOUS
  <2>2. b * (a * e) = abe /\ f * (a * e) = aef
    OBVIOUS
  <2> QED
    BY <2>1, <2>2
<1>7. 100 * ace <= 100 * bde + abe /\ 100 * bde <= 100 * adf + djef
  BY <1>1, <1>2, <1>4, Zenon
<1> HIDE DEF ace, bde, abe, adf, djef, aef, jaef
<1>8. 100 * ace <= 100 * adf + jaef + aef
  BY <1>3, <1>5, <1>6, <1>7
<1> DEFINE left == 100 * (c * e)
           right == 100 * (d * f) + (j + 1) * (e * f)
<1>9. left \in Nat /\ right \in Nat
  OBVIOUS
<1>10. a * left = 100 * ace /\ a * right = 100 * adf + jaef + aef
  BY DEF ace, adf, jaef, aef
<1> HIDE DEF left, right
<1>11. ASSUME right + 1 <= left PROVE a * right + a <= a * left
  <2>1. a * (right + 1) <= a * left
    BY <1>9, <1>11
  <2> QED
    BY <1>9, <2>1
<1>12. a * left \in Nat /\ a * right \in Nat /\ a * left <= a * right
  BY <1>8, <1>9, <1>10
<1>13. left <= right
  BY <1>9, <1>11, <1>12
<1> QED
  BY <1>13 DEF left, right

\* Of two funnels, where one is behind at no stage it is not behind as a whole, by more
\* than the rounding of the stages' rates hides.
LEMMA ConversionFollows ==
  ASSUME NEW a \in [1..5 -> Nat], NEW b \in [1..5 -> Nat],
         \A i \in 2..5 : a[i] <= a[i - 1], \A i \in 2..5 : b[i] <= b[i - 1],
         a[1] # 0, b[1] # 0,
         \A i \in 2..5 : a[i - 1] # 0 /\ b[i - 1] # 0 => Rate(b[i], b[i - 1]) <= Rate(a[i], a[i - 1])
  PROVE  Rate(b[5], b[1]) - Rate(a[5], a[1]) <= 5
<1> DEFINE ra == Rate(a[5], a[1])
           rb == Rate(b[5], b[1])
<1>1. /\ a[1] \in Nat /\ a[2] \in Nat /\ a[3] \in Nat /\ a[4] \in Nat /\ a[5] \in Nat
      /\ b[1] \in Nat /\ b[2] \in Nat /\ b[3] \in Nat /\ b[4] \in Nat /\ b[5] \in Nat
  OBVIOUS
<1>2. /\ a[2] <= a[1] /\ a[3] <= a[2] /\ a[4] <= a[3] /\ a[5] <= a[4]
      /\ b[2] <= b[1] /\ b[3] <= b[2] /\ b[4] <= b[3] /\ b[5] <= b[4]
  <2>1. 2 - 1 = 1 /\ 3 - 1 = 2 /\ 4 - 1 = 3 /\ 5 - 1 = 4
    OBVIOUS
  <2>2. 2 \in 2..5 /\ 3 \in 2..5 /\ 4 \in 2..5 /\ 5 \in 2..5
    OBVIOUS
  <2> QED
    BY <2>1, <2>2
<1>3. /\ a[1] # 0 /\ b[1] # 0 => Rate(b[2], b[1]) <= Rate(a[2], a[1])
      /\ a[2] # 0 /\ b[2] # 0 => Rate(b[3], b[2]) <= Rate(a[3], a[2])
      /\ a[3] # 0 /\ b[3] # 0 => Rate(b[4], b[3]) <= Rate(a[4], a[3])
      /\ a[4] # 0 /\ b[4] # 0 => Rate(b[5], b[4]) <= Rate(a[5], a[4])
  <2>1. 2 - 1 = 1 /\ 3 - 1 = 2 /\ 4 - 1 = 3 /\ 5 - 1 = 4
    OBVIOUS
  <2>2. 2 \in 2..5 /\ 3 \in 2..5 /\ 4 \in 2..5 /\ 5 \in 2..5
    OBVIOUS
  <2> QED
    BY <2>1, <2>2
<1>4. PICK a1, a2, a3, a4, a5, b1, b2, b3, b4, b5 \in Nat :
        /\ a1 = a[1] /\ a2 = a[2] /\ a3 = a[3] /\ a4 = a[4] /\ a5 = a[5]
        /\ b1 = b[1] /\ b2 = b[2] /\ b3 = b[3] /\ b4 = b[4] /\ b5 = b[5]
  BY <1>1
<1>5. /\ a2 <= a1 /\ a3 <= a2 /\ a4 <= a3 /\ a5 <= a4 /\ a1 # 0
      /\ b2 <= b1 /\ b3 <= b2 /\ b4 <= b3 /\ b5 <= b4 /\ b1 # 0
  BY <1>2, <1>4
<1>6. /\ Rate(b2, b1) <= Rate(a2, a1)
      /\ a2 # 0 /\ b2 # 0 => Rate(b3, b2) <= Rate(a3, a2)
      /\ a3 # 0 /\ b3 # 0 => Rate(b4, b3) <= Rate(a4, a3)
      /\ a4 # 0 /\ b4 # 0 => Rate(b5, b4) <= Rate(a5, a4)
  BY <1>3, <1>4
<1>7. ra = Rate(a5, a1) /\ rb = Rate(b5, b1)
  BY <1>4
<1>8. a5 <= a1 /\ b5 <= b1
  BY <1>5
<1>9. ra \in 0..100 /\ 200 * a5 - a1 < 2 * a1 * ra /\ 2 * a1 * ra <= 200 * a5 + a1
  BY <1>5, <1>7, <1>8, RateIs
<1>10. rb \in 0..100 /\ 200 * b5 - b1 < 2 * b1 * rb /\ 2 * b1 * rb <= 200 * b5 + b1
  BY <1>5, <1>7, <1>8, RateIs
<1> HIDE DEF ra, rb
<1>11. ASSUME 200 * b5 < b1 PROVE rb = 0
  <2>1. ASSUME 1 <= rb PROVE FALSE
    <3>1. (2 * b1) * 1 <= (2 * b1) * rb
      BY <1>10, <2>1, Scaled
    <3>2. (2 * b1) * rb = 2 * b1 * rb /\ 2 * b1 * rb \in Nat
      BY <1>10
    <3> QED
      BY <1>10, <1>11, <3>1, <3>2
  <2> QED
    BY <1>10, <2>1
<1>12. ASSUME NEW x \in Nat, NEW y \in Nat, x <= y, y # 0, y <= b1, b5 <= x, Rate(x, y) <= 0
       PROVE  rb = 0
  <2>1. Rate(x, y) = 0 /\ 200 * x - y < 2 * y * Rate(x, y)
    <3>1. Rate(x, y) \in 0..100 /\ 200 * x - y < 2 * y * Rate(x, y)
      BY <1>12, RateIs
    <3> QED
      BY <1>12, <3>1
  <2>2. 200 * x - y < 0
    <3>1. 2 * y * 0 = 0
      OBVIOUS
    <3> QED
      BY <2>1, <3>1, Zenon
  <2> QED
    BY <1>11, <1>12, <2>2
<1>13. ASSUME NEW y \in Nat, y # 0 PROVE Rate(0, y) = 0
  <2>1. 0 <= y /\ 0 \in Nat
    OBVIOUS
  <2>2. Rate(0, y) \in 0..100 /\ 2 * y * Rate(0, y) <= 200 * 0 + y
    BY <1>13, <2>1, RateIs
  <2>3. ASSUME 1 <= Rate(0, y) PROVE FALSE
    <3>1. (2 * y) * 1 <= (2 * y) * Rate(0, y)
      BY <2>2, <2>3, Scaled
    <3>2. (2 * y) * Rate(0, y) = 2 * y * Rate(0, y)
      BY <2>2
    <3> QED
      BY <1>13, <2>2, <3>1, <3>2
  <2> QED
    BY <2>2, <2>3
<1>14. CASE b5 = 0
  <2>1. rb = 0
    BY <1>5, <1>11, <1>14
  <2> QED
    BY <1>9, <2>1 DEF ra, rb
<1>15. CASE b5 # 0 /\ a4 = 0
  <2>1. b2 # 0 /\ b3 # 0 /\ b4 # 0
    BY <1>5, <1>15
  <2>2. CASE a2 = 0
    <3>1. Rate(b2, b1) <= 0
      BY <1>5, <1>6, <1>13, <2>2
    <3>2. b5 <= b2
      BY <1>5
    <3> QED
      BY <1>5, <1>9, <1>12, <3>1, <3>2 DEF ra, rb
  <2>3. CASE a2 # 0 /\ a3 = 0
    <3>1. Rate(b3, b2) <= 0
      BY <1>6, <1>13, <2>1, <2>3
    <3>2. b5 <= b3 /\ b2 <= b1
      BY <1>5
    <3> QED
      BY <1>5, <1>9, <1>12, <2>1, <3>1, <3>2 DEF ra, rb
  <2>4. CASE a3 # 0
    <3>1. Rate(b4, b3) <= 0
      BY <1>6, <1>13, <1>15, <2>1, <2>4
    <3>2. b5 <= b4 /\ b3 <= b1
      BY <1>5
    <3> QED
      BY <1>5, <1>9, <1>12, <2>1, <3>1, <3>2 DEF ra, rb
  <2> QED
    BY <2>2, <2>3, <2>4
<1>16. CASE b5 # 0 /\ a4 # 0
  <2>1. b2 # 0 /\ b3 # 0 /\ b4 # 0 /\ a2 # 0 /\ a3 # 0
    BY <1>5, <1>16
  <2>2. /\ Rate(b2, b1) <= Rate(a2, a1) /\ Rate(b3, b2) <= Rate(a3, a2)
        /\ Rate(b4, b3) <= Rate(a4, a3) /\ Rate(b5, b4) <= Rate(a5, a4)
    BY <1>6, <1>16, <2>1
  <2>3. 100 * (b2 * a1) <= 100 * (a2 * b1) + 1 * (b1 * a1)
    <3>1. 100 * (b2 * a1) <= 100 * (a2 * b1) + b1 * a1
      BY <1>5, <2>2, RatesCompare
    <3> QED
      BY <3>1
  <2>4. /\ 100 * (b3 * a2) <= 100 * (a3 * b2) + b2 * a2
        /\ 100 * (b4 * a3) <= 100 * (a4 * b3) + b3 * a3
        /\ 100 * (b5 * a4) <= 100 * (a5 * b4) + b4 * a4
    BY <1>5, <1>16, <2>1, <2>2, RatesCompare
  <2>5. 100 * (b3 * a1) <= 100 * (a3 * b1) + 2 * (a1 * b1)
    <3>1. PICK one \in Nat : one = 1
      OBVIOUS
    <3>2. 100 * (b2 * a1) <= 100 * (a2 * b1) + one * (a1 * b1)
      BY <2>3, <3>1
    <3>3. b2 <= b1
      BY <1>5
    <3>4. 100 * (b3 * a1) <= 100 * (a3 * b1) + (one + 1) * (a1 * b1)
      BY <1>5, <2>1, <2>4, <3>2, <3>3, StageAfterStage
    <3> QED
      BY <3>1, <3>4
  <2>6. 100 * (b4 * a1) <= 100 * (a4 * b1) + 3 * (a1 * b1)
    <3>1. b3 <= b1
      BY <1>5
    <3>2. 100 * (b4 * a1) <= 100 * (a4 * b1) + (2 + 1) * (a1 * b1)
      BY <1>5, <2>1, <2>4, <2>5, <3>1, StageAfterStage
    <3> QED
      BY <3>2
  <2>7. 100 * (b5 * a1) <= 100 * (a5 * b1) + 4 * (a1 * b1)
    <3>1. b4 <= b1
      BY <1>5
    <3>2. 100 * (b5 * a1) <= 100 * (a5 * b1) + (3 + 1) * (a1 * b1)
      BY <1>5, <1>16, <2>1, <2>4, <2>6, <3>1, StageAfterStage
    <3> QED
      BY <3>2
  <2> DEFINE ba == b5 * a1
             ab == a5 * b1
             all == a1 * b1
  <2>8. a1 * (2 * b1 * rb) <= a1 * (200 * b5 + b1)
    BY <1>10, Scaled
  <2>9. b1 * (200 * a5 - a1) <= b1 * (2 * a1 * ra)
    <3>1. 200 * a5 - a1 \in Int /\ 2 * a1 * ra \in Int /\ 200 * a5 - a1 <= 2 * a1 * ra
      BY <1>9
    <3> QED
      BY <3>1, Scaled
  <2>10. /\ a1 * (2 * b1 * rb) = 2 * (all * rb) /\ a1 * (200 * b5 + b1) = 200 * ba + all
         /\ b1 * (200 * a5 - a1) = 200 * ab - all /\ b1 * (2 * a1 * ra) = 2 * (all * ra)
    BY <1>9, <1>10
  <2>11. ba \in Nat /\ ab \in Nat /\ all \in Nat /\ all # 0 /\ all * ra \in Nat /\ all * rb \in Nat
    BY <1>5, <1>9, <1>10
  <2>12. 100 * ba <= 100 * ab + 4 * all
    BY <2>7
  <2> HIDE DEF ba, ab, all
  <2>13. 2 * (all * rb) <= 200 * ba + all /\ 200 * ab - all <= 2 * (all * ra)
    BY <2>8, <2>9, <2>10, Zenon
  <2>14. all * rb <= all * ra + 5 * all
    BY <2>11, <2>12, <2>13
  <2>15. ASSUME ra + 6 <= rb PROVE FALSE
    <3>1. all * (ra + 6) <= all * rb
      BY <1>9, <1>10, <2>11, <2>15, Scaled
    <3>2. all * (ra + 6) = all * ra + 6 * all
      BY <1>9, <2>11
    <3> QED
      BY <2>11, <2>14, <3>1, <3>2
  <2>16. rb - ra <= 5
    BY <1>9, <1>10, <2>15
  <2> QED
    BY <2>16 DEF ra, rb
<1> QED
  BY <1>14, <1>15, <1>16

-----------------------------------------------------------------------------
(* The rows of the two funnels, stage by stage. *)

CountsOf(raw) == [i \in 1..5 |-> Normalised(raw)[Stages[i]]]

\* The two funnels of a call.
LEMMA CountsAre ==
  ASSUME NEW p \in Loaded
  PROVE  /\ CountsOf(p.user) \in [1..5 -> Nat] /\ CountsOf(p.market) \in [1..5 -> Nat]
         /\ \A i \in 2..5 : CountsOf(p.user)[i] <= CountsOf(p.user)[i - 1]
         /\ \A i \in 2..5 : CountsOf(p.market)[i] <= CountsOf(p.market)[i - 1]
         /\ \A i \in 1..5 : User(p)[Stages[i]] = CountsOf(p.user)[i]
         /\ \A i \in 1..5 : Market(p)[Stages[i]] = CountsOf(p.market)[i]
<1>1. p.user \in ViewerFunnels /\ p.market \in MarketFunnels
  BY DEF Loaded
<1>2. /\ p.user \in [{"requests", "offers", "responses", "contracts", "completed"} -> Nat]
      /\ p.market \in [{"requests", "offers", "responses", "contracts", "completed"} -> Nat]
  BY <1>1, FunnelAssumption
<1>3. CountsOf(p.user) \in [1..5 -> Nat] /\ \A i \in 2..5 : CountsOf(p.user)[i] <= CountsOf(p.user)[i - 1]
  BY <1>2, FallingCounts, Zenon DEF CountsOf
<1>4. CountsOf(p.market) \in [1..5 -> Nat] /\ \A i \in 2..5 : CountsOf(p.market)[i] <= CountsOf(p.market)[i - 1]
  BY <1>2, FallingCounts, Zenon DEF CountsOf
<1>5. /\ \A i \in 1..5 : User(p)[Stages[i]] = CountsOf(p.user)[i]
      /\ \A i \in 1..5 : Market(p)[Stages[i]] = CountsOf(p.market)[i]
  BY DEF CountsOf, User, Market
<1> QED
  BY <1>3, <1>4, <1>5

\* The rate of a stage, where it has one.
LEMMA StageRate ==
  ASSUME NEW c \in [1..5 -> Nat], \A i \in 2..5 : c[i] <= c[i - 1], NEW i \in 2..5
  PROVE  /\ c[i - 1] \in Nat /\ c[i] \in Nat
         /\ c[i - 1] = 0 => Rate(c[i], c[i - 1]) = Unknown
         /\ c[i - 1] # 0 => Rate(c[i], c[i - 1]) \in 0..100 /\ Rate(c[i], c[i - 1]) # Unknown
<1>1. c[i - 1] \in Nat /\ c[i] \in Nat /\ c[i] <= c[i - 1]
  <2>1. i \in 1..5 /\ i - 1 \in 1..5
    OBVIOUS
  <2> QED
    BY <2>1
<1>2. ASSUME c[i - 1] = 0 PROVE Rate(c[i], c[i - 1]) = Unknown
  BY <1>1, <1>2, RateUnknown
<1>3. ASSUME c[i - 1] # 0 PROVE Rate(c[i], c[i - 1]) \in 0..100
  BY <1>1, <1>3, RateIs, Zenon
<1> QED
  BY <1>1, <1>2, <1>3, FunnelAssumption

\* The rows of the funnel.
LEMMA RowsAre ==
  ASSUME NEW p \in Loaded, NEW i \in 2..5
  PROVE  LET u == CountsOf(p.user)
             m == CountsOf(p.market)
             row == StageRows(p)[i] IN
         /\ u[i - 1] = 0 \/ m[i - 1] = 0 => row.gap = Unknown
         /\ u[i - 1] # 0 /\ m[i - 1] # 0 =>
              /\ row.gap = Rate(u[i], u[i - 1]) - Rate(m[i], m[i - 1])
              /\ row.gap \in -100..100 /\ row.gap # Unknown
         /\ row.reliable \in BOOLEAN
         /\ row.reliable => ~LowData(p)
         /\ row.status = StageStatus(row.gap, row.reliable)
         /\ row.key = Stages[i]
<1> DEFINE u == CountsOf(p.user)
           m == CountsOf(p.market)
           row == StageRows(p)[i]
           ru == Rate(u[i], u[i - 1])
           rm == Rate(m[i], m[i - 1])
<1>1. i \in 1..5 /\ i - 1 \in 1..5
  OBVIOUS
<1>2. User(p)[Stages[i]] = u[i] /\ User(p)[Stages[i - 1]] = u[i - 1]
  BY <1>1, CountsAre
<1>3. Market(p)[Stages[i]] = m[i] /\ Market(p)[Stages[i - 1]] = m[i - 1]
  BY <1>1, CountsAre
<1>13. row = [key |-> Stages[i], gap |-> Gap(ru, rm),
             reliable |-> ~LowData(p) /\ u[i - 1] >= 3 /\ m[i - 1] >= 5,
             status |-> StageStatus(Gap(ru, rm), ~LowData(p) /\ u[i - 1] >= 3 /\ m[i - 1] >= 5)]
  BY <1>2, <1>3 DEF StageRows
<1>4. PICK b \in BOOLEAN :
        /\ row = [key |-> Stages[i], gap |-> Gap(ru, rm), reliable |-> b,
                  status |-> StageStatus(Gap(ru, rm), b)]
        /\ b => ~LowData(p)
  <2>1. CASE ~LowData(p) /\ u[i - 1] >= 3 /\ m[i - 1] >= 5
    <3>1. (~LowData(p) /\ u[i - 1] >= 3 /\ m[i - 1] >= 5) = TRUE
      BY <2>1
    <3>2. row = [key |-> Stages[i], gap |-> Gap(ru, rm), reliable |-> TRUE,
                 status |-> StageStatus(Gap(ru, rm), TRUE)]
      BY <1>13, <3>1, Zenon
    <3> QED
      BY <2>1, <3>2
  <2>2. CASE ~(~LowData(p) /\ u[i - 1] >= 3 /\ m[i - 1] >= 5)
    <3>1. (~LowData(p) /\ u[i - 1] >= 3 /\ m[i - 1] >= 5) = FALSE
      BY <2>2
    <3>2. row = [key |-> Stages[i], gap |-> Gap(ru, rm), reliable |-> FALSE,
                 status |-> StageStatus(Gap(ru, rm), FALSE)]
      BY <1>13, <3>1, Zenon
    <3> QED
      BY <3>2
  <2> QED
    BY <2>1, <2>2
<1>5. /\ u[i - 1] \in Nat /\ u[i - 1] = 0 => ru = Unknown
      /\ u[i - 1] # 0 => ru \in 0..100 /\ ru # Unknown
  BY CountsAre, StageRate
<1>6. /\ m[i - 1] \in Nat /\ m[i - 1] = 0 => rm = Unknown
      /\ m[i - 1] # 0 => rm \in 0..100 /\ rm # Unknown
  BY CountsAre, StageRate
<1> HIDE DEF u, m, ru, rm
<1>7. u[i - 1] = 0 \/ m[i - 1] = 0 => Gap(ru, rm) = Unknown
  BY <1>5, <1>6 DEF Gap
<1>8. u[i - 1] # 0 /\ m[i - 1] # 0 =>
        Gap(ru, rm) = ru - rm /\ ru - rm \in -100..100 /\ ru - rm # Unknown
  BY <1>5, <1>6, FunnelAssumption DEF Gap
<1>9. /\ row.gap = Gap(ru, rm) /\ row.key = Stages[i] /\ row.reliable \in BOOLEAN
      /\ row.reliable => ~LowData(p)
  BY <1>4
<1>10. row.status = StageStatus(row.gap, row.reliable)
  <2>1. row.status = StageStatus(Gap(ru, rm), b) /\ row.gap = Gap(ru, rm) /\ row.reliable = b
    BY <1>4
  <2> QED
    BY <2>1, Zenon
<1> HIDE DEF row
<1>11. /\ u[i - 1] = 0 \/ m[i - 1] = 0 => row.gap = Unknown
       /\ u[i - 1] # 0 /\ m[i - 1] # 0 =>
              /\ row.gap = ru - rm
              /\ row.gap \in -100..100 /\ row.gap # Unknown
  BY <1>7, <1>8, <1>9
<1> QED
  BY <1>9, <1>10, <1>11, Zenon DEF u, m, row, ru, rm

LEMMA StatusSays ==
  ASSUME NEW gap \in Int \union {Unknown}, NEW reliable \in BOOLEAN
  PROVE  /\ StageStatus(gap, reliable) \in {"warning", "critical"} =>
              reliable /\ gap # Unknown /\ gap <= -10
         /\ StageStatus(gap, reliable) = "good" => reliable /\ gap # Unknown /\ gap >= 10
         /\ reliable /\ gap # Unknown /\ gap \in Int /\ gap <= -10 =>
              StageStatus(gap, reliable) \in {"warning", "critical"}
         /\ StageStatus(gap, reliable) \notin {"good", "neutral"} =>
              StageStatus(gap, reliable) \in {"warning", "critical"}
BY DEF StageStatus

LEMMA GapsAre ==
  ASSUME NEW p \in Loaded
  PROVE  /\ \A i \in Comparable(StageRows(p)) : i \in 2..5 /\ StageRows(p)[i].gap \in -100..100
         /\ \A i \in 2..5 : StageRows(p)[i].gap # Unknown => i \in Comparable(StageRows(p))
BY RowsAre DEF Comparable

\* Whoever falls behind at a stage falls behind most somewhere.
LEMMA WorstStage ==
  ASSUME NEW p \in Loaded, ~LowData(p), NEW k \in Comparable(StageRows(p)), StageRows(p)[k].gap < 0
  PROVE  \E i \in LargestDropOff(p, StageRows(p)) : StageRows(p)[i].gap <= StageRows(p)[k].gap
<1> DEFINE rows == StageRows(p)
           C == Comparable(rows)
           g == [i \in C |-> rows[i].gap]
           Place(i) == 10 * (g[i] + 100) + i
<1>1. \A i \in C : i \in 2..5 /\ g[i] \in -100..100 /\ g[i] = rows[i].gap
  BY GapsAre
<1>2. k \in C /\ g[k] < 0
  OBVIOUS
<1> HIDE DEF g
<1>3. PICK i \in C : \A j \in C : Place(i) <= Place(j)
  <2> DEFINE T == {Place(j) : j \in C}
  <2>1. T \subseteq Nat
    BY <1>1
  <2>2. T # {}
    BY <1>2
  <2>3. PICK n \in T : \A t \in T : n <= t
    <3> HIDE DEF T
    <3> QED
      BY <2>1, <2>2, LeastNumber
  <2> QED
    BY <2>3
<1>4. ASSUME NEW j \in C PROVE g[i] < g[j] \/ (g[i] = g[j] /\ i <= j)
  <2>1. Place(i) <= Place(j)
    BY <1>3, <1>4
  <2>2. i \in 2..5 /\ j \in 2..5 /\ g[i] \in -100..100 /\ g[j] \in -100..100
    BY <1>1, <1>3, <1>4
  <2> DEFINE a == g[i]
             b == g[j]
  <2>3. 10 * (a + 100) + i <= 10 * (b + 100) + j
    BY <2>1
  <2>4. a \in Int /\ b \in Int
    BY <2>2
  <2> HIDE DEF a, b
  <2>5. a < b \/ (a = b /\ i <= j)
    BY <2>2, <2>3, <2>4
  <2> QED
    BY <2>5 DEF a, b
<1>5. g[i] <= g[k] /\ g[i] < 0
  <2>1. g[i] < g[k] \/ g[i] = g[k]
    BY <1>2, <1>4
  <2>2. g[i] \in Int /\ g[k] \in Int
    BY <1>1, <1>2, <1>3
  <2> QED
    BY <1>2, <2>1, <2>2
<1>6. \A j \in C : rows[i].gap < rows[j].gap \/ (rows[i].gap = rows[j].gap /\ i <= j)
  BY <1>1, <1>3, <1>4
<1>7. rows[i].gap <= rows[k].gap /\ rows[i].gap < 0
  BY <1>1, <1>2, <1>3, <1>5
<1>8. i \in LargestDropOff(p, rows)
  <2> HIDE DEF rows
  <2> QED
    BY <1>3, <1>6, <1>7 DEF LargestDropOff
<1> QED
  BY <1>7, <1>8

\* A conversion that is weak as a whole is weak at a stage.
LEMMA ConversionSays ==
  ASSUME NEW p \in Loaded
  PROVE  LET rows == StageRows(p) IN
         /\ Conversion(p) \in {"warning", "critical"} => LargestDropOff(p, rows) # {}
         /\ Conversion(p) = "good" => \E i \in Comparable(rows) : rows[i].gap > 0
<1> DEFINE u == CountsOf(p.user)
           m == CountsOf(p.market)
           rows == StageRows(p)
           gap == Gap(Rate(u[5], u[1]), Rate(m[5], m[1]))
<1>1. /\ u \in [1..5 -> Nat] /\ \A i \in 2..5 : u[i] <= u[i - 1]
      /\ m \in [1..5 -> Nat] /\ \A i \in 2..5 : m[i] <= m[i - 1]
  BY CountsAre
<1>2. /\ User(p)["requests"] = u[1] /\ User(p)["completed"] = u[5]
      /\ Market(p)["requests"] = m[1] /\ Market(p)["completed"] = m[5]
  <2>1. Stages[1] = "requests" /\ Stages[5] = "completed" /\ 1 \in 1..5 /\ 5 \in 1..5
    BY DEF Stages
  <2> QED
    BY <2>1, CountsAre
<1>3. Conversion(p) = StageStatus(gap, ~LowData(p) /\ u[1] >= 3 /\ m[1] >= 5)
  BY <1>2 DEF Conversion
<1>4. ASSUME NEW i \in 2..5, u[i - 1] # 0, m[i - 1] # 0
      PROVE  /\ i \in Comparable(rows) /\ rows[i].gap \in Int
             /\ rows[i].gap = Rate(u[i], u[i - 1]) - Rate(m[i], m[i - 1])
             /\ Rate(u[i], u[i - 1]) \in Int /\ Rate(m[i], m[i - 1]) \in Int
  <2>1. /\ rows[i].gap = Rate(u[i], u[i - 1]) - Rate(m[i], m[i - 1])
        /\ rows[i].gap \in -100..100 /\ rows[i].gap # Unknown
    BY <1>4, RowsAre, SMTT(30)
  <2>2. Rate(u[i], u[i - 1]) \in 0..100 /\ Rate(m[i], m[i - 1]) \in 0..100
    BY <1>1, <1>4, StageRate
  <2> QED
    BY <2>1, <2>2, SMTT(30) DEF Comparable
<1>5. /\ u[1] # 0 => Rate(u[5], u[1]) \in 0..100
      /\ m[1] # 0 => Rate(m[5], m[1]) \in 0..100
  <2>1. ASSUME NEW c \in [1..5 -> Nat], \A i \in 2..5 : c[i] <= c[i - 1], c[1] # 0
        PROVE  Rate(c[5], c[1]) \in 0..100
    <3>1. c[5] <= c[4] /\ c[4] <= c[3] /\ c[3] <= c[2] /\ c[2] <= c[1]
      <4>1. 2 - 1 = 1 /\ 3 - 1 = 2 /\ 4 - 1 = 3 /\ 5 - 1 = 4
        OBVIOUS
      <4>2. 2 \in 2..5 /\ 3 \in 2..5 /\ 4 \in 2..5 /\ 5 \in 2..5
        OBVIOUS
      <4> QED
        BY <2>1, <4>1, <4>2
    <3>2. c[1] \in Nat /\ c[5] \in Nat /\ c[5] <= c[1]
      BY <3>1
    <3> QED
      BY <2>1, <3>2, RateIs, Zenon
  <2> QED
    BY <1>1, <2>1
<1>8. gap \in Int \union {Unknown}
  <2>1. /\ u[1] = 0 => Rate(u[5], u[1]) = Unknown
        /\ m[1] = 0 => Rate(m[5], m[1]) = Unknown
    BY DEF Rate
  <2> QED
    BY <1>5, <2>1 DEF Gap
<1> HIDE DEF u, m, rows
<1>6. ASSUME Conversion(p) \in {"warning", "critical"}
      PROVE  LargestDropOff(p, rows) # {}
  <2>1. ~LowData(p) /\ u[1] >= 3 /\ m[1] >= 5 /\ gap # Unknown /\ gap <= -10
    BY <1>3, <1>8, <1>6 DEF StageStatus
  <2>2. u[1] \in Nat /\ m[1] \in Nat /\ u[1] # 0 /\ m[1] # 0
    BY <1>1, <2>1
  <2>3. Rate(m[5], m[1]) - Rate(u[5], u[1]) >= 10
    BY <1>5, <2>1, <2>2 DEF Gap
  <2>4. PICK i \in 2..5 : u[i - 1] # 0 /\ m[i - 1] # 0 /\ ~(Rate(m[i], m[i - 1]) <= Rate(u[i], u[i - 1]))
    <3> SUFFICES ASSUME \A i \in 2..5 : u[i - 1] # 0 /\ m[i - 1] # 0 =>
                                          Rate(m[i], m[i - 1]) <= Rate(u[i], u[i - 1])
                 PROVE  FALSE
      OBVIOUS
    <3>1. Rate(m[5], m[1]) - Rate(u[5], u[1]) <= 5
      BY <1>1, <2>2, ConversionFollows, Zenon
    <3> QED
      BY <1>5, <2>2, <2>3, <3>1
  <2>5. i \in Comparable(rows) /\ rows[i].gap < 0
    BY <1>4, <2>4
  <2> QED
    BY <2>1, <2>5, WorstStage DEF rows
<1>7. ASSUME Conversion(p) = "good"
      PROVE  \E i \in Comparable(rows) : rows[i].gap > 0
  <2>1. u[1] >= 3 /\ m[1] >= 5 /\ gap # Unknown /\ gap >= 10
    BY <1>3, <1>8, <1>7 DEF StageStatus
  <2>2. u[1] \in Nat /\ m[1] \in Nat /\ u[1] # 0 /\ m[1] # 0
    BY <1>1, <2>1
  <2>3. Rate(u[5], u[1]) - Rate(m[5], m[1]) >= 10
    BY <1>5, <2>1, <2>2 DEF Gap
  <2>4. PICK i \in 2..5 : m[i - 1] # 0 /\ u[i - 1] # 0 /\ ~(Rate(u[i], u[i - 1]) <= Rate(m[i], m[i - 1]))
    <3> SUFFICES ASSUME \A i \in 2..5 : m[i - 1] # 0 /\ u[i - 1] # 0 =>
                                          Rate(u[i], u[i - 1]) <= Rate(m[i], m[i - 1])
                 PROVE  FALSE
      OBVIOUS
    <3>1. Rate(u[5], u[1]) - Rate(m[5], m[1]) <= 5
      BY <1>1, <2>2, ConversionFollows, Zenon
    <3> QED
      BY <1>5, <2>2, <2>3, <3>1
  <2>5. i \in Comparable(rows) /\ rows[i].gap > 0
    BY <1>4, <2>4
  <2> QED
    BY <2>5
<1> QED
  BY <1>6, <1>7 DEF rows

-----------------------------------------------------------------------------
(* The figures beside the funnels, and the focus they share. *)

LEMMA RowTypes ==
  ASSUME NEW p \in Loaded, NEW i \in 2..5
  PROVE  LET row == StageRows(p)[i] IN
         /\ row.gap \in Int \union {Unknown} /\ row.reliable \in BOOLEAN
         /\ row.status = StageStatus(row.gap, row.reliable)
         /\ row.reliable => ~LowData(p)
         /\ row.gap # Unknown => i \in Comparable(StageRows(p))
<1> DEFINE row == StageRows(p)[i]
<1>1. row.gap \in -100..100 \/ row.gap = Unknown
  <2>1. CountsOf(p.user)[i - 1] = 0 \/ CountsOf(p.market)[i - 1] = 0 \/
        (CountsOf(p.user)[i - 1] # 0 /\ CountsOf(p.market)[i - 1] # 0)
    OBVIOUS
  <2> QED
    BY <2>1, RowsAre
<1>2. /\ row.reliable \in BOOLEAN /\ row.status = StageStatus(row.gap, row.reliable)
      /\ row.reliable => ~LowData(p)
  BY RowsAre
<1>3. row.gap # Unknown => i \in Comparable(StageRows(p))
  BY GapsAre
<1>4. row.gap \in Int \union {Unknown}
  BY <1>1
<1> QED
  BY <1>2, <1>3, <1>4

LEMMA SixOf ==
  ASSUME NEW a, NEW b, NEW c, NEW d, NEW e, NEW f
  PROVE  /\ <<a, b, c, d, e, f>>[1] = a /\ <<a, b, c, d, e, f>>[2] = b
         /\ <<a, b, c, d, e, f>>[3] = c /\ <<a, b, c, d, e, f>>[4] = d
         /\ <<a, b, c, d, e, f>>[5] = e /\ <<a, b, c, d, e, f>>[6] = f
OBVIOUS

\* The six metrics, one by one.
SixMetrics(p, reliable, customer) ==
  LET u == User(p)
      m == Market(p)
      ownRate == Rate(u["offers"], u["requests"])
      marketRate == Rate(m["offers"], m["requests"]) IN
  /\ Metrics(p)[1] =
       Metric("offer_rate", Hundredths(ownRate), Hundredths(marketRate), TRUE,
              IF Unknown \notin {ownRate, marketRate} /\ ownRate < marketRate
                THEN "focus_market" ELSE "none", reliable)
  /\ Metrics(p)[2] =
       Metric("avg_response_time", Hundredths(p.userMinutes), Hundredths(p.marketMinutes), FALSE,
              "respond_faster", reliable)
  /\ Metrics(p)[3] =
       Metric("unanswered_over_24h", Hundredths(p.userWaiting), Hundredths(p.marketWaiting), FALSE,
              "follow_up_unanswered", reliable)
  /\ Metrics(p)[4] =
       Metric("completed_jobs", Hundredths(u["completed"]), Hundredths(m["completed"]), TRUE,
              IF u["completed"] < m["completed"] THEN "focus_market" ELSE "none", reliable)
  /\ Metrics(p)[5] =
       Metric("revenue", Hundredths(p.userRevenue), Hundredths(p.marketRevenue), ~customer,
              IF p.userRevenue < p.marketRevenue /\ ~customer THEN "focus_market" ELSE "none",
              reliable)
  /\ Metrics(p)[6] =
       Metric("average_order_value", AverageOrder(p.userRevenue, u),
              AverageOrder(p.marketRevenue, m), ~customer,
              IF customer THEN "none" ELSE "adjust_price", reliable)

LEMMA MetricsAre ==
  ASSUME NEW p
  PROVE  SixMetrics(p, HasViewerData(p), p.mode = "customer")
BY SixOf, Zenon DEF Metrics, SixMetrics

LEMMA BooleanIs ==
  ASSUME NEW p
  PROVE  \E reliable, customer \in BOOLEAN :
           /\ SixMetrics(p, reliable, customer)
           /\ (reliable <=> HasViewerData(p)) /\ (customer <=> p.mode = "customer")
<1>1. HasViewerData(p) \in BOOLEAN
  BY DEF HasViewerData
<1>2. (p.mode = "customer") \in BOOLEAN
  OBVIOUS
<1> QED
  BY <1>1, <1>2, MetricsAre, Zenon

\* Whoever has less of what is to be more, is worse off, and the other way round.
LEMMA LessIsWorse ==
  ASSUME NEW id, NEW mine \in Int, NEW market \in Int, mine # Unknown, market # Unknown, NEW action
  PROVE  /\ mine < market => Metric(id, mine, market, TRUE, action, TRUE).direction = "worse"
         /\ market < mine => Metric(id, mine, market, TRUE, action, TRUE).direction = "better"
BY FunnelAssumption DEF Metric, Gap

LEMMA ProfileTypes ==
  ASSUME NEW p \in Loaded
  PROVE  /\ p.mode \in {"provider", "customer"}
         /\ p.userRevenue \in Nat /\ p.marketRevenue \in Nat
         /\ p.userMinutes \in Nat \union {Unknown} /\ p.marketMinutes \in Nat \union {Unknown}
         /\ User(p)["completed"] \in Nat /\ Market(p)["completed"] \in Nat
         /\ Rate(User(p)["offers"], User(p)["requests"]) \in Int \union {Unknown}
         /\ Rate(Market(p)["offers"], Market(p)["requests"]) \in Int \union {Unknown}
         /\ HasViewerData(p) \in BOOLEAN
<1>1. /\ p.mode \in {"provider", "customer"}
      /\ p.userRevenue \in Revenues /\ p.marketRevenue \in Revenues
      /\ p.userMinutes \in ResponseTimes /\ p.marketMinutes \in ResponseTimes
  BY DEF Loaded
<1>2. /\ p.userRevenue \in Nat /\ p.marketRevenue \in Nat
      /\ p.userMinutes \in Nat \union {Unknown} /\ p.marketMinutes \in Nat \union {Unknown}
  BY <1>1, FunnelAssumption
<1>3. /\ Stages[1] = "requests" /\ Stages[2] = "offers" /\ Stages[5] = "completed"
  BY DEF Stages
<1>4. 1 \in 1..5 /\ 2 \in 1..5 /\ 5 \in 1..5 /\ 2 \in 2..5 /\ 2 - 1 = 1
  OBVIOUS
<1>5. User(p)["completed"] \in Nat /\ Market(p)["completed"] \in Nat
  <2>1. CountsOf(p.user)[5] \in Nat /\ CountsOf(p.market)[5] \in Nat
    BY <1>4, CountsAre
  <2> QED
    BY <1>3, <1>4, <2>1, CountsAre
<1>6. ASSUME NEW c \in [1..5 -> Nat], \A i \in 2..5 : c[i] <= c[i - 1]
      PROVE  Rate(c[2], c[1]) \in Int \union {Unknown}
  <2>1. \/ c[1] = 0 /\ Rate(c[2], c[1]) = Unknown
        \/ c[1] # 0 /\ Rate(c[2], c[1]) \in 0..100
    BY <1>4, <1>6, StageRate
  <2> QED
    BY <2>1
<1>7. /\ Rate(User(p)["offers"], User(p)["requests"]) \in Int \union {Unknown}
      /\ Rate(Market(p)["offers"], Market(p)["requests"]) \in Int \union {Unknown}
  <2>1. /\ User(p)["offers"] = CountsOf(p.user)[2] /\ User(p)["requests"] = CountsOf(p.user)[1]
        /\ Market(p)["offers"] = CountsOf(p.market)[2] /\ Market(p)["requests"] = CountsOf(p.market)[1]
    BY <1>3, <1>4, CountsAre
  <2> QED
    BY <1>6, <2>1, CountsAre
<1>8. HasViewerData(p) \in BOOLEAN
  BY DEF HasViewerData
<1> QED
  BY <1>1, <1>2, <1>5, <1>7, <1>8

LEMMA MetricAction ==
  ASSUME NEW id, NEW mine, NEW market, NEW action \in {"focus_market", "none"}
  PROVE  Metric(id, mine, market, TRUE, action, TRUE).action = action
BY DEF Metric

LEMMA MetricNoAction ==
  ASSUME NEW id, NEW mine, NEW market, NEW action
  PROVE  Metric(id, mine, market, TRUE, action, FALSE).action = "none"
BY DEF Metric

\* Whoever a metric sends to the market is behind by it.
LEMMA FocusIsBehind ==
  ASSUME NEW p \in Loaded, NEW i \in 1..6, Metrics(p)[i].action = "focus_market"
  PROVE  Metrics(p)[i].direction = "worse"
<1> DEFINE u == User(p)
           m == Market(p)
           ownRate == Rate(u["offers"], u["requests"])
           marketRate == Rate(m["offers"], m["requests"])
<1>1. PICK reliable, customer \in BOOLEAN :
        /\ SixMetrics(p, reliable, customer)
        /\ (reliable <=> HasViewerData(p)) /\ (customer <=> p.mode = "customer")
  BY BooleanIs
<1>3. (~customer) \in BOOLEAN
  OBVIOUS
<1>4. \A n : Hundredths(n) = IF n = Unknown THEN Unknown ELSE 100 * n
  BY DEF Hundredths
<1>5. \A n \in Int \union {Unknown} :
        /\ Hundredths(n) \in Int \union {Unknown} /\ (Hundredths(n) = Unknown <=> n = Unknown)
  BY <1>4, FunnelAssumption
<1>6. i = 1 \/ i = 2 \/ i = 3 \/ i = 4 \/ i = 5 \/ i = 6
  OBVIOUS
<1>7. \A id, mine, market, better, action :
        Metric(id, mine, market, better, action, reliable).action = IF reliable THEN action ELSE "none"
  BY DEF Metric
<1>8. CASE i = 1
  <2> DEFINE few == Unknown \notin {ownRate, marketRate} /\ ownRate < marketRate
             act == IF few THEN "focus_market" ELSE "none"
             a == Hundredths(ownRate)
             b == Hundredths(marketRate)
  <2>1. Metrics(p)[i] = Metric("offer_rate", a, b, TRUE, act, reliable)
    BY <1>1, <1>8, Zenon DEF SixMetrics
  <2>2. ownRate \in Int \union {Unknown} /\ marketRate \in Int \union {Unknown}
    BY ProfileTypes
  <2>3. (IF reliable THEN act ELSE "none") = "focus_market"
    <3>2. act \in {"focus_market", "none"}
      OBVIOUS
    <3> HIDE DEF act, a, b
    <3>1. Metrics(p)[i].action = IF reliable THEN act ELSE "none"
      <4>1. CASE reliable = TRUE
        <5>1. Metrics(p)[i] = Metric("offer_rate", a, b, TRUE, act, TRUE)
          BY <2>1, <4>1, Zenon
        <5>2. Metrics(p)[i].action = act
          BY <3>2, <5>1, MetricAction
        <5> QED
          BY <4>1, <5>2
      <4>2. CASE reliable = FALSE
        <5>1. Metrics(p)[i] = Metric("offer_rate", a, b, TRUE, act, FALSE)
          BY <2>1, <4>2, Zenon
        <5>2. Metrics(p)[i].action = "none"
          BY <5>1, MetricNoAction
        <5> QED
          BY <4>2, <5>2
      <4> QED
        BY <4>1, <4>2
    <3> QED
      BY <3>1, Zenon
  <2>4. reliable /\ ownRate # Unknown /\ marketRate # Unknown /\ ownRate < marketRate
    BY <2>3
  <2> HIDE DEF ownRate, marketRate
  <2>5. a \in Int /\ b \in Int /\ a # Unknown /\ b # Unknown /\ a < b
    BY <1>4, <2>2, <2>4, FunnelAssumption
  <2>6. Metrics(p)[i] = Metric("offer_rate", a, b, TRUE, act, TRUE)
    <3>1. reliable = TRUE
      BY <2>4
    <3> QED
      BY <2>1, <3>1, Zenon
  <2> HIDE DEF a, b, act
  <2> QED
    BY <2>5, <2>6, LessIsWorse
<1>9. CASE i = 4
  <2> DEFINE act == IF u["completed"] < m["completed"] THEN "focus_market" ELSE "none"
             a == Hundredths(u["completed"])
             b == Hundredths(m["completed"])
  <2>1. Metrics(p)[i] = Metric("completed_jobs", a, b, TRUE, act, reliable)
    BY <1>1, <1>9, Zenon DEF SixMetrics
  <2>2. u["completed"] \in Nat /\ m["completed"] \in Nat
    BY ProfileTypes
  <2>3. (IF reliable THEN act ELSE "none") = "focus_market"
    <3>2. act \in {"focus_market", "none"}
      OBVIOUS
    <3> HIDE DEF act, a, b
    <3>1. Metrics(p)[i].action = IF reliable THEN act ELSE "none"
      <4>1. CASE reliable = TRUE
        <5>1. Metrics(p)[i] = Metric("completed_jobs", a, b, TRUE, act, TRUE)
          BY <2>1, <4>1, Zenon
        <5>2. Metrics(p)[i].action = act
          BY <3>2, <5>1, MetricAction
        <5> QED
          BY <4>1, <5>2
      <4>2. CASE reliable = FALSE
        <5>1. Metrics(p)[i] = Metric("completed_jobs", a, b, TRUE, act, FALSE)
          BY <2>1, <4>2, Zenon
        <5>2. Metrics(p)[i].action = "none"
          BY <5>1, MetricNoAction
        <5> QED
          BY <4>2, <5>2
      <4> QED
        BY <4>1, <4>2
    <3> QED
      BY <3>1, Zenon
  <2>4. reliable /\ u["completed"] < m["completed"]
    BY <2>3
  <2>5. a \in Int /\ b \in Int /\ a # Unknown /\ b # Unknown /\ a < b
    BY <1>4, <2>2, <2>4, FunnelAssumption
  <2>6. Metrics(p)[i] = Metric("completed_jobs", a, b, TRUE, act, TRUE)
    <3>1. reliable = TRUE
      BY <2>4
    <3> QED
      BY <2>1, <3>1, Zenon
  <2> HIDE DEF a, b, act
  <2> QED
    BY <2>5, <2>6, LessIsWorse
<1>10. CASE i = 5
  <2> DEFINE act == IF p.userRevenue < p.marketRevenue /\ ~customer THEN "focus_market" ELSE "none"
             a == Hundredths(p.userRevenue)
             b == Hundredths(p.marketRevenue)
  <2>1. Metrics(p)[i] = Metric("revenue", a, b, ~customer, act, reliable)
    BY <1>1, <1>10, Zenon DEF SixMetrics
  <2>2. p.userRevenue \in Nat /\ p.marketRevenue \in Nat
    BY ProfileTypes
  <2>3. (IF reliable THEN act ELSE "none") = "focus_market"
    BY <1>7, <2>1
  <2>4. reliable /\ ~customer /\ p.userRevenue < p.marketRevenue
    BY <2>3
  <2>5. a \in Int /\ b \in Int /\ a # Unknown /\ b # Unknown /\ a < b
    BY <1>4, <2>2, <2>4, FunnelAssumption
  <2>6. Metrics(p)[i] = Metric("revenue", a, b, TRUE, act, TRUE)
    <3>1. (~customer) = TRUE /\ reliable = TRUE
      BY <2>4
    <3> QED
      BY <2>1, <3>1, Zenon
  <2> HIDE DEF a, b, act
  <2> QED
    BY <2>5, <2>6, LessIsWorse
<1>11. CASE i = 2 \/ i = 3 \/ i = 6
  <2>1. \E id, mine, market, better, action :
          /\ Metrics(p)[i] = Metric(id, mine, market, better, action, reliable)
          /\ action \in {"respond_faster", "follow_up_unanswered", "none", "adjust_price"}
    <3>1. CASE i = 2
      BY <1>1, <3>1, Zenon DEF SixMetrics
    <3>2. CASE i = 3
      BY <1>1, <3>2, Zenon DEF SixMetrics
    <3>3. CASE i = 6
      <4>1. (IF customer THEN "none" ELSE "adjust_price")
              \in {"respond_faster", "follow_up_unanswered", "none", "adjust_price"}
        OBVIOUS
      <4> QED
        BY <1>1, <3>3, <4>1, Zenon DEF SixMetrics
    <3> QED
      BY <1>11, <3>1, <3>2, <3>3
  <2>2. PICK id, mine, market, better, action :
          /\ Metrics(p)[i] = Metric(id, mine, market, better, action, reliable)
          /\ action \in {"respond_faster", "follow_up_unanswered", "none", "adjust_price"}
    BY <2>1
  <2>3. (IF reliable THEN action ELSE "none") = "focus_market"
    BY <1>7, <2>2
  <2> QED
    BY <2>2, <2>3
<1> QED
  BY <1>6, <1>8, <1>9, <1>10, <1>11

\* The rate of offers, in the funnel and among the metrics.
LEMMA OfferRateAgrees ==
  ASSUME NEW p \in Loaded
  PROVE  /\ StageRows(p)[2].status = "good" => Metrics(p)[1].direction = "better"
         /\ StageRows(p)[2].status \in {"warning", "critical"} => Metrics(p)[1].direction = "worse"
<1> DEFINE ownRate == Rate(User(p)["offers"], User(p)["requests"])
           marketRate == Rate(Market(p)["offers"], Market(p)["requests"])
           row == StageRows(p)[2]
           a == Hundredths(ownRate)
           b == Hundredths(marketRate)
           act == IF Unknown \notin {ownRate, marketRate} /\ ownRate < marketRate
                    THEN "focus_market" ELSE "none"
<1>1. PICK reliable, customer \in BOOLEAN :
        /\ SixMetrics(p, reliable, customer)
        /\ (reliable <=> HasViewerData(p)) /\ (customer <=> p.mode = "customer")
  BY BooleanIs
<1>3. Metrics(p)[1] = Metric("offer_rate", a, b, TRUE, act, reliable)
  BY <1>1, Zenon DEF SixMetrics
<1>4. ownRate \in Int \union {Unknown} /\ marketRate \in Int \union {Unknown}
  BY ProfileTypes
<1>5. row.gap = Gap(ownRate, marketRate)
  <2>1. Stages[2] = "offers" /\ Stages[2 - 1] = "requests" /\ 2 \in 2..5
    BY DEF Stages
  <2> QED
    BY <2>1 DEF StageRows
<1>6. /\ row.gap \in Int \union {Unknown} /\ row.reliable \in BOOLEAN
      /\ row.status = StageStatus(row.gap, row.reliable)
      /\ row.reliable => ~LowData(p)
  BY RowTypes
<1>7. ~LowData(p) => HasViewerData(p)
  BY DEF LowData
<1>8. /\ row.status \in {"warning", "critical"} => row.reliable /\ row.gap # Unknown /\ row.gap <= -10
      /\ row.status = "good" => row.reliable /\ row.gap # Unknown /\ row.gap >= 10
  BY <1>6, StatusSays
<1> HIDE DEF row, ownRate, marketRate, act
<1>9. row.gap # Unknown => ownRate \in Int /\ marketRate \in Int /\ row.gap = ownRate - marketRate
  BY <1>4, <1>5 DEF Gap
<1>10. ownRate \in Int /\ marketRate \in Int =>
         /\ a = 100 * ownRate /\ b = 100 * marketRate /\ a \in Int /\ b \in Int
         /\ a # Unknown /\ b # Unknown
  BY FunnelAssumption DEF Hundredths
<1> HIDE DEF a, b
<1>11. ASSUME row.status = "good" PROVE Metrics(p)[1].direction = "better"
  <2>1. reliable /\ a \in Int /\ b \in Int /\ a # Unknown /\ b # Unknown /\ b < a
    BY <1>1, <1>6, <1>7, <1>8, <1>9, <1>10, <1>11
  <2>2. Metrics(p)[1] = Metric("offer_rate", a, b, TRUE, act, TRUE)
    <3>1. reliable = TRUE
      BY <2>1
    <3> QED
      BY <1>3, <3>1, Zenon
  <2> QED
    BY <2>1, <2>2, LessIsWorse
<1>12. ASSUME row.status \in {"warning", "critical"} PROVE Metrics(p)[1].direction = "worse"
  <2>1. reliable /\ a \in Int /\ b \in Int /\ a # Unknown /\ b # Unknown /\ a < b
    BY <1>1, <1>6, <1>7, <1>8, <1>9, <1>10, <1>12
  <2>2. Metrics(p)[1] = Metric("offer_rate", a, b, TRUE, act, TRUE)
    <3>1. reliable = TRUE
      BY <2>1
    <3> QED
      BY <1>3, <3>1, Zenon
  <2> QED
    BY <2>1, <2>2, LessIsWorse
<1> QED
  BY <1>11, <1>12 DEF row

LEMMA LeadingIsOne ==
  ASSUME NEW metrics
  PROVE  \E i \in 1..6 : Leading(metrics) = metrics[i]
<1>1. \A T : T \subseteq 1..6 /\ T # {} => (CHOOSE i \in T : \A j \in T : i <= j) \in 1..6
  <2> SUFFICES ASSUME NEW T, T \subseteq 1..6, T # {}
               PROVE  (CHOOSE i \in T : \A j \in T : i <= j) \in 1..6
    OBVIOUS
  <2>1. T \subseteq Nat
    OBVIOUS
  <2>2. \E i \in T : \A j \in T : i <= j
    BY <2>1, LeastNumber
  <2> QED
    BY <2>2
<1> DEFINE With(status) == {i \in 1..6 : metrics[i].status = status}
           T == IF With("critical") # {} THEN With("critical")
                ELSE IF With("warning") # {} THEN With("warning")
                ELSE IF With("good") # {} THEN With("good")
                ELSE 1..6
<1>2. T \subseteq 1..6 /\ T # {}
  OBVIOUS
<1>3. Leading(metrics) = metrics[CHOOSE i \in T : \A j \in T : i <= j]
  BY Zenon DEF Leading
<1> HIDE DEF T
<1> QED
  BY <1>1, <1>2, <1>3

\* The panels of the funnel agree.
LEMMA FunnelsAgreeInv == FunnelTypeOK => FunnelsAgree
<1> SUFFICES ASSUME FunnelTypeOK, compared # Unknown
             PROVE  FunnelsAgree
  BY DEF FunnelsAgree
<1> DEFINE p == compared
           rows == StageRows(p)
           bottleneck == LargestDropOff(p, rows)
           metrics == Metrics(p)
<1>1. p \in Loaded
  BY DEF FunnelTypeOK
<1>2. /\ rows[2].status = "good" => metrics[1].direction = "better"
      /\ rows[2].status \in {"warning", "critical"} => metrics[1].direction = "worse"
  BY <1>1, OfferRateAgrees
<1>3. /\ Conversion(p) \in {"warning", "critical"} => bottleneck # {}
      /\ Conversion(p) = "good" => \E i \in Comparable(rows) : rows[i].gap > 0
  BY <1>1, ConversionSays
<1>4. ASSUME NEW i \in bottleneck, StageAction(rows[i]) # "none"
      PROVE  rows[i].reliable /\ \A j \in Comparable(rows) : rows[i].gap <= rows[j].gap
  <2>1. /\ i \in Comparable(rows)
        /\ \A j \in Comparable(rows) : rows[i].gap < rows[j].gap \/ (rows[i].gap = rows[j].gap /\ i <= j)
    BY DEF LargestDropOff
  <2>2. \A j \in Comparable(rows) : rows[j].gap \in -100..100
    BY <1>1, GapsAre
  <2>3. \A j \in Comparable(rows) : rows[i].gap <= rows[j].gap
    <3> SUFFICES ASSUME NEW j \in Comparable(rows) PROVE rows[i].gap <= rows[j].gap
      OBVIOUS
    <3> DEFINE x == rows[i].gap
               y == rows[j].gap
    <3>1. x \in -100..100 /\ y \in -100..100 /\ (x < y \/ x = y)
      BY <2>1, <2>2, Zenon
    <3> HIDE DEF x, y
    <3>2. x <= y
      BY <3>1
    <3> QED
      BY <3>2 DEF x, y
  <2>4. i \in 2..5
    BY <2>1 DEF Comparable
  <2>5. /\ rows[i].gap \in Int \union {Unknown} /\ rows[i].reliable \in BOOLEAN
        /\ rows[i].status = StageStatus(rows[i].gap, rows[i].reliable)
    BY <1>1, <2>4, RowTypes
  <2>6. rows[i].status \notin {"good", "neutral"}
    BY <1>4 DEF StageAction
  <2>7. rows[i].status \in {"warning", "critical"}
    BY <2>5, <2>6, StatusSays
  <2>8. rows[i].reliable
    BY <2>5, <2>7, StatusSays
  <2> QED
    BY <2>3, <2>8
<1>5. ASSUME PrimaryAction(p, metrics) = "focus_market" PROVE Leading(metrics).direction = "worse"
  <2>1. PICK i \in 1..6 : Leading(metrics) = metrics[i]
    BY LeadingIsOne
  <2>2. Leading(metrics).action = "focus_market"
    BY <1>5 DEF PrimaryAction
  <2> QED
    BY <1>1, <2>1, <2>2, FocusIsBehind
<1> QED
  BY <1>2, <1>3, <1>4, <1>5, Zenon DEF FunnelsAgree

-----------------------------------------------------------------------------
(* The signals a person is shown, and the category he is told of. *)

\* Whoever takes longer is worse off.
LEMMA LongerIsWorse ==
  ASSUME NEW id, NEW mine \in Int \union {Unknown}, NEW market \in Int \union {Unknown}, NEW action
  PROVE  LET direction == Metric(id, mine, market, FALSE, action, TRUE).direction IN
         /\ mine = Unknown \/ market = Unknown \/ mine = market => direction = "neutral"
         /\ mine # Unknown /\ market # Unknown /\ mine < market => direction = "better"
         /\ mine # Unknown /\ market # Unknown /\ market < mine => direction = "worse"
<1>1. CASE mine = Unknown \/ market = Unknown
  BY <1>1 DEF Metric, Gap
<1>2. CASE mine # Unknown /\ market # Unknown
  <2>1. mine \in Int /\ market \in Int
    BY <1>2
  <2> QED
    BY <1>2, <2>1, FunnelAssumption DEF Metric, Gap
<1> QED
  BY <1>1, <1>2

\* Both figures of the response time point the same way.
LEMMA ResponseRetold ==
  ASSUME NEW p \in Loaded, HasViewerData(p)
  PROVE  ResponseFigure(p).direction = Retold(Metrics(p)[2]).direction
<1> DEFINE mine == Hundredths(p.userMinutes)
           market == Hundredths(p.marketMinutes)
           metric == Metrics(p)[2]
<1>1. PICK reliable, customer \in BOOLEAN :
        /\ SixMetrics(p, reliable, customer)
        /\ (reliable <=> HasViewerData(p)) /\ (customer <=> p.mode = "customer")
  BY BooleanIs
<1>2. metric = Metric("avg_response_time", mine, market, FALSE, "respond_faster", TRUE)
  <2>1. reliable = TRUE
    BY <1>1
  <2>2. metric = Metric("avg_response_time", mine, market, FALSE, "respond_faster", reliable)
    BY <1>1, Zenon DEF SixMetrics
  <2> QED
    BY <2>1, <2>2, Zenon
<1>3. mine \in Int \union {Unknown} /\ market \in Int \union {Unknown}
  <2>1. p.userMinutes \in Nat \union {Unknown} /\ p.marketMinutes \in Nat \union {Unknown}
    BY ProfileTypes
  <2> QED
    BY <2>1 DEF Hundredths
<1>4. ResponseFigure(p).direction = Direction(mine, market, TRUE)
  BY DEF ResponseFigure
<1> HIDE DEF mine, market, metric
<1>5. /\ mine = Unknown \/ market = Unknown \/ mine = market => metric.direction = "neutral"
      /\ mine # Unknown /\ market # Unknown /\ mine < market => metric.direction = "better"
      /\ mine # Unknown /\ market # Unknown /\ market < mine => metric.direction = "worse"
  BY <1>2, <1>3, LongerIsWorse
<1>6. Retold(metric).direction = CASE metric.direction = "better" -> "up"
                                   [] metric.direction = "worse" -> "down"
                                   [] OTHER -> "flat"
  BY DEF Retold
<1>7. CASE mine = Unknown \/ market = Unknown
  BY <1>4, <1>5, <1>6, <1>7 DEF Direction, metric
<1>8. CASE mine # Unknown /\ market # Unknown
  <2>1. mine \in Int /\ market \in Int /\ (mine = market \/ mine < market \/ market < mine)
    BY <1>3, <1>8
  <2>2. CASE mine = market
    BY <1>4, <1>5, <1>6, <1>8, <2>1, <2>2 DEF Direction, metric
  <2>3. CASE mine < market
    BY <1>4, <1>5, <1>6, <1>8, <2>1, <2>3 DEF Direction, metric
  <2>4. CASE market < mine
    BY <1>4, <1>5, <1>6, <1>8, <2>1, <2>4 DEF Direction, metric
  <2> QED
    BY <2>1, <2>2, <2>3, <2>4
<1> QED
  BY <1>7, <1>8

\* The gap between offers and answers, as it is told.
LEMMA GapTold ==
  ASSUME NEW p \in Loaded, StageRows(p)[3].gap \in Int, StageRows(p)[3].gap # Unknown
  PROVE  LET g == StageRows(p)[3].gap IN
         /\ g < 0 => ProfileGap(p) # {}
         /\ \A gap \in ProfileGap(p) :
              /\ g < 0
              /\ gap.tone = IF g <= -15 THEN "warning" ELSE IF g <= -5 THEN "neutral" ELSE "positive"
<1> DEFINE g == StageRows(p)[3].gap
<1>1. ProfileGap(p) =
        IF g = Unknown \/ g >= 0 THEN {}
        ELSE {[loss |-> -g,
               lost |-> AtLeast(0, Market(p)["responses"] - User(p)["responses"]),
               tone |-> IF -g >= 15 THEN "warning" ELSE IF -g >= 5 THEN "neutral" ELSE "positive"]}
  BY DEF ProfileGap
<1>2. g \in Int /\ g # Unknown
  OBVIOUS
<1> HIDE DEF g
<1>3. (-g >= 15 <=> g <= -15) /\ (-g >= 5 <=> g <= -5)
  BY <1>2
<1>4. CASE g >= 0
  BY <1>1, <1>2, <1>4 DEF g
<1>5. CASE g < 0
  <2> DEFINE tone == IF -g >= 15 THEN "warning" ELSE IF -g >= 5 THEN "neutral" ELSE "positive"
  <2>1. \A gap \in ProfileGap(p) : gap.tone = tone
    BY <1>1, <1>2, <1>5
  <2>2. tone = IF g <= -15 THEN "warning" ELSE IF g <= -5 THEN "neutral" ELSE "positive"
    BY <1>3
  <2>3. ProfileGap(p) # {}
    <3>1. ~(g = Unknown \/ g >= 0)
      BY <1>2, <1>5
    <3> QED
      BY <1>1, <3>1
  <2> HIDE DEF tone
  <2> QED
    BY <1>5, <2>1, <2>2, <2>3 DEF g
<1> QED
  BY <1>2, <1>4, <1>5

LEMMA RetoldFitsInv ==
  ASSUME NEW p \in Loaded
  PROVE  RetoldFits(p, Retold(Metrics(p)[2]), StageRows(p), ProfileGap(p))
<1> DEFINE rows == StageRows(p)
           row == rows[3]
           gaps == ProfileGap(p)
<1>1. /\ row.gap \in Int \union {Unknown} /\ row.reliable \in BOOLEAN
      /\ row.status = StageStatus(row.gap, row.reliable)
      /\ row.gap # Unknown => 3 \in Comparable(rows)
  <2>1. 3 \in 2..5
    OBVIOUS
  <2> QED
    BY <2>1, RowTypes
<1>2. /\ row.status \in {"warning", "critical"} => row.reliable /\ row.gap # Unknown /\ row.gap <= -10
      /\ row.reliable /\ row.gap # Unknown /\ row.gap \in Int /\ row.gap <= -10 =>
           row.status \in {"warning", "critical"}
  BY <1>1, StatusSays
<1>3. ASSUME row.gap # Unknown
      PROVE  /\ row.gap \in Int
             /\ row.gap < 0 => gaps # {}
             /\ \A gap \in gaps :
                  /\ row.gap < 0
                  /\ gap.tone = IF row.gap <= -15 THEN "warning"
                                ELSE IF row.gap <= -5 THEN "neutral" ELSE "positive"
  BY <1>1, <1>3, GapTold
<1>4. row.gap = Unknown => gaps = {}
  BY DEF ProfileGap
<1>5. ASSUME row.status \in {"warning", "critical"}
      PROVE  \E gap \in gaps : gap.tone # "positive"
  <2> HIDE DEF row, gaps
  <2>1. row.gap # Unknown /\ row.gap <= -10
    BY <1>2, <1>5
  <2>2. row.gap \in Int /\ gaps # {}
    BY <1>3, <2>1
  <2>3. PICK gap \in gaps : TRUE
    BY <2>2
  <2>4. gap.tone = IF row.gap <= -15 THEN "warning" ELSE IF row.gap <= -5 THEN "neutral" ELSE "positive"
    BY <1>3, <2>1
  <2>5. row.gap <= -5
    BY <2>1, <2>2
  <2> QED
    BY <2>4, <2>5
<1>6. ASSUME NEW gap \in gaps
      PROVE  /\ gap.tone = "warning" /\ row.reliable => row.status \in {"warning", "critical"}
             /\ row.gap # Unknown /\ row.gap < 0
  <2>1. row.gap # Unknown
    BY <1>4, <1>6
  <2> HIDE DEF row, gaps
  <2>2. row.gap \in Int /\ row.gap < 0 /\
        gap.tone = IF row.gap <= -15 THEN "warning" ELSE IF row.gap <= -5 THEN "neutral" ELSE "positive"
    BY <1>3, <1>6, <2>1
  <2>3. gap.tone = "warning" => row.gap <= -10
    BY <2>2
  <2> QED
    BY <1>2, <2>1, <2>2, <2>3
<1>7. ASSUME gaps # {}, ~LowData(p)
      PROVE  \E i \in LargestDropOff(p, rows) : rows[i].gap <= row.gap
  <2>1. row.gap # Unknown /\ row.gap < 0
    BY <1>6, <1>7
  <2> QED
    BY <1>1, <1>7, <2>1, WorstStage
<1>8. HasViewerData(p) => ResponseFigure(p).direction = Retold(Metrics(p)[2]).direction
  BY ResponseRetold
<1> QED
  BY <1>5, <1>6, <1>7, <1>8, Zenon DEF RetoldFits

LEMMA SignalsAgreeInv == InsightsTypeOK /\ FunnelTypeOK => SignalsAgree
<1> SUFFICES ASSUME InsightsTypeOK, FunnelTypeOK PROVE SignalsAgree
  OBVIOUS
<1>1. figures # NoFigure => figures \in Figures
  BY DEF InsightsTypeOK
<1>2. compared # Unknown => compared \in Loaded
  BY DEF FunnelTypeOK
<1> QED
  BY <1>1, <1>2, StepsAndSignals, RetoldFitsInv, Zenon DEF SignalsAgree

\* The greatest of finitely many numbers.
HasGreatest(T) == \E n \in T : \A m \in T : m <= n

LEMMA GreatestNumber ==
  ASSUME NEW S, S \subseteq Nat, IsFiniteSet(S), S # {}
  PROVE  \E n \in S : \A m \in S : m <= n
<1> DEFINE Without(n) == \E T \in SUBSET Nat :
                           IsFiniteSet(T) /\ T # {} /\ Cardinality(T) = n /\ ~HasGreatest(T)
           sizes == {n \in Nat : Without(n)}
<1>1. SUFFICES sizes = {}
  <2>1. Cardinality(S) \in Nat
    BY FS_CardinalityType
  <2> QED
    BY <1>1, <2>1 DEF HasGreatest
<1>2. SUFFICES ASSUME sizes # {} PROVE FALSE
  OBVIOUS
<1>3. PICK n \in sizes : \A m \in sizes : n <= m
  <2>1. sizes \subseteq Nat
    OBVIOUS
  <2> HIDE DEF sizes
  <2> QED
    BY <1>2, <2>1, LeastNumber
<1>4. PICK T \in SUBSET Nat : IsFiniteSet(T) /\ T # {} /\ Cardinality(T) = n /\ ~HasGreatest(T)
  BY <1>3
<1>5. PICK x \in T : TRUE
  BY <1>4
<1> DEFINE rest == T \ {x}
<1>6. IsFiniteSet(rest) /\ Cardinality(rest) = n - 1 /\ n - 1 \in Nat
  <2>1. /\ IsFiniteSet(rest)
        /\ Cardinality(rest) = IF x \in T THEN Cardinality(T) - 1 ELSE Cardinality(T)
    BY <1>4, FS_RemoveElement
  <2>2. Cardinality(rest) \in Nat
    BY <2>1, FS_CardinalityType
  <2> QED
    BY <1>4, <1>5, <2>1, <2>2
<1>7. n - 1 \notin sizes /\ n \in Nat
  <2>1. n \in Nat
    BY <1>3
  <2> QED
    BY <1>3, <2>1
<1>8. rest = {} \/ HasGreatest(rest)
  BY <1>6, <1>7
<1>9. \A m \in T : m \in Nat /\ (m = x \/ m \in rest)
  BY <1>4
<1>10. CASE rest = {}
  BY <1>4, <1>5, <1>9, <1>10 DEF HasGreatest
<1>11. CASE HasGreatest(rest)
  <2>1. PICK g \in rest : \A m \in rest : m <= g
    BY <1>11 DEF HasGreatest
  <2>2. g \in Nat /\ x \in Nat /\ g \in T
    BY <1>5, <1>9, <2>1
  <2> HIDE DEF rest
  <2>3. CASE g <= x
    <3>1. \A m \in T : m <= x
      BY <1>9, <2>1, <2>2, <2>3
    <3> QED
      BY <1>4, <1>5, <3>1 DEF HasGreatest
  <2>4. CASE x <= g
    <3>1. \A m \in T : m <= g
      BY <1>9, <2>1, <2>2, <2>4
    <3> QED
      BY <1>4, <2>2, <3>1 DEF HasGreatest
  <2> QED
    BY <2>2, <2>3, <2>4
<1> QED
  BY <1>8, <1>10, <1>11

\* What the viewer has done most of.
LEMMA MostDoneIs ==
  ASSUME NEW rows \in Seq([key: STRING, base: Nat, done: Nat])
  PROVE  /\ MostDone(rows) \in Nat
         /\ \A i \in DOMAIN rows : rows[i].base <= MostDone(rows)
         /\ MostDone(rows) > 0 => \E i \in DOMAIN rows : rows[i].base = MostDone(rows)
<1> DEFINE counts == {rows[i].base : i \in DOMAIN rows} \union {0}
           R == [key: STRING, base: Nat, done: Nat]
<1>1. \A i \in DOMAIN rows : rows[i].base \in Nat
  <2>1. \A i \in DOMAIN rows : rows[i] \in R
    <3>1. rows \in Seq(R)
      OBVIOUS
    <3> HIDE DEF R
    <3> QED
      BY <3>1
  <2> QED
    BY <2>1
<1>2. counts \subseteq Nat /\ 0 \in counts
  BY <1>1
<1>3. IsFiniteSet(counts)
  <2>1. DOMAIN rows = 1..Len(rows) /\ Len(rows) \in Nat
    OBVIOUS
  <2>2. IsFiniteSet(1..Len(rows))
    BY <2>1, FS_Interval
  <2>3. IsFiniteSet({rows[i].base : i \in DOMAIN rows})
    <3> DEFINE f == [i \in DOMAIN rows |-> rows[i].base]
               img == {rows[i].base : i \in DOMAIN rows}
    <3>1. f \in Surjection(DOMAIN rows, img)
      BY DEF Surjection
    <3> QED
      BY <2>1, <2>2, <3>1, FS_Surjection
  <2> QED
    BY <2>3, FS_AddElement
<1> HIDE DEF counts
<1>4. PICK top \in counts : \A m \in counts : m <= top
  BY <1>2, <1>3, GreatestNumber
<1>5. MostDone(rows) \in counts /\ \A m \in counts : m <= MostDone(rows)
  <2>1. MostDone(rows) = CHOOSE n \in counts : \A m \in counts : m <= n
    BY DEF MostDone, counts
  <2> QED
    BY <1>4, <2>1
<1> QED
  BY <1>2, <1>5 DEF counts

\* A viewer is only sent where he has begun.
LEMMA FocusInv == FitTypeOK => FocusWhereBegun
<1> SUFFICES ASSUME FitTypeOK, fit # Unknown,
                    NEW i \in DOMAIN FitItems, FitItems[i].action = "focus_market"
             PROVE  \E mine, other \in DOMAIN fit.rows :
                      /\ fit.rows[mine].key = FitItems[i].key
                      /\ fit.rows[mine].base >= 5
                      /\ fit.rows[other].base > 3 * fit.rows[mine].base
  BY DEF FocusWhereBegun
<1> DEFINE rows == fit.rows
           cut == SubSeq(fit.market, 1, AtMost(MaxFits, Len(fit.market)))
           row == RowFor(rows, cut[i].key)
           most == MostDone(rows)
           level == ActivityLevel(row.base, most)
           demand == Demanded(cut[i], fit.panel)
           reliability == FitReliability(demand, row.base, row.done)
           focused == IF fit.panel = "categories"
                        THEN Chance(cut[i].share, reliability, level) = "high"
                        ELSE cut[i].requests >= 10 /\ level \in {"low", "unknown"}
<1>1. i \in DOMAIN cut /\ FitItems[i].key = cut[i].key
      /\ FitItems[i].action = IF reliability = "high" /\ focused THEN "focus_market" ELSE "none"
  BY Zenon DEF FitItems
<1>2. reliability = "high" /\ focused
  BY <1>1
<1>3. rows \in Seq([key: STRING, base: Nat, done: Nat])
  <2>1. rows \in FitRows
    BY DEF FitTypeOK, FitLoaded
  <2> QED
    BY <2>1, FitAssumption
<1>4. row.base >= 5
  <2> HIDE DEF row, demand
  <2> QED
    BY <1>2 DEF FitReliability
<1>5. level \in {"low", "unknown"}
  <2> HIDE DEF level, reliability
  <2> QED
    BY <1>2 DEF Chance
<1> HIDE DEF rows, cut
<1>6. PICK mine \in DOMAIN rows : rows[mine].key = cut[i].key /\ row = rows[mine]
  <2> DEFINE of == {k \in DOMAIN rows : rows[k].key = cut[i].key}
  <2>1. of # {}
    <3> SUFFICES ASSUME of = {} PROVE FALSE
      OBVIOUS
    <3>1. row = [key |-> cut[i].key, base |-> 0, done |-> 0]
      BY DEF RowFor
    <3> QED
      BY <1>4, <3>1
  <2>2. PICK last \in of : \A j \in of : j <= last
    <3>1. of \subseteq Nat /\ IsFiniteSet(of)
      <4>1. DOMAIN rows = 1..Len(rows) /\ Len(rows) \in Nat
        BY <1>3
      <4>2. IsFiniteSet(1..Len(rows))
        BY <4>1, FS_Interval
      <4> QED
        BY <4>1, <4>2, FS_Subset
    <3> HIDE DEF of
    <3> QED
      BY <2>1, <3>1, GreatestNumber
  <2>3. row = rows[CHOOSE k \in of : \A j \in of : j <= k]
    BY <2>1 DEF RowFor
  <2>4. (CHOOSE k \in of : \A j \in of : j <= k) \in of
    BY <2>2
  <2> QED
    BY <2>3, <2>4
<1>7. row.base \in Nat
  <2> DEFINE R == [key: STRING, base: Nat, done: Nat]
  <2>1. rows[mine] \in R
    <3>1. rows \in Seq(R)
      BY <1>3
    <3> HIDE DEF R
    <3> QED
      BY <1>6, <3>1
  <2> QED
    BY <1>6, <2>1
<1> HIDE DEF row
<1>8. /\ most \in Nat /\ row.base <= most
      /\ most > 0 => \E k \in DOMAIN rows : rows[k].base = most
  BY <1>3, <1>6, MostDoneIs
<1> HIDE DEF most
<1>9. most > 3 * row.base
  <2>1. 100 * row.base < 33 * most
    BY <1>4, <1>5, <1>7, <1>8 DEF ActivityLevel
  <2> QED
    BY <1>4, <1>7, <1>8, <2>1
<1>10. PICK other \in DOMAIN rows : rows[other].base = most
  BY <1>7, <1>8, <1>9
<1> QED
  BY <1>1, <1>4, <1>6, <1>9, <1>10 DEF rows

LEMMA PanelsAgreeInv == InsightsTypeOK /\ FunnelTypeOK /\ FitTypeOK =>
                          FunnelsAgree /\ SignalsAgree /\ FocusWhereBegun
BY FunnelsAgreeInv, SignalsAgreeInv, FocusInv

-----------------------------------------------------------------------------
(* Statistics: the funnels count the same jobs. *)

DealStatuses == {"none", "pending", "confirmed", "completed", "cancelled"}

JobDoc == [status: {"none", "draft", "published", "paused", "matched", "closed", "cancelled"},
           created: Eras \union {Unstamped}, holder: SUBSET Tradesmen]

BidDoc == [status: {"none", "sent", "accepted", "declined"}, created: Eras \union {Unstamped}]

DealDoc == [status: DealStatuses, confirmed: Eras \union {Unstamped},
            completed: Eras \union {Unstamped}, cancelled: Eras \union {Unstamped}]

LEMMA StatsTyping ==
  StatsTypeOK <=> /\ jobDoc \in [Jobs -> JobDoc]
                  /\ bid \in [Jobs -> [Tradesmen -> BidDoc]]
                  /\ deal \in [Jobs -> [Tradesmen -> DealDoc]]
                  /\ era \in Eras
BY DEF StatsTypeOK, JobDoc, BidDoc, DealDoc, DealStatuses

\* The document that a contract becomes in one of its four writes.
DealWritten(d, e) ==
  \/ e = [d EXCEPT !.status = "pending"] /\ d.status \in {"none", "pending"}
  \/ e = [d EXCEPT !.status = "confirmed", !.confirmed = era] /\ d.status = "pending"
  \/ e = [d EXCEPT !.status = "completed", !.completed = era] /\ d.status = "confirmed"
  \/ e = [d EXCEPT !.status = "cancelled", !.cancelled = era]
       /\ d.status \in {"pending", "confirmed"}

LEMMA SetJobEffect ==
  ASSUME jobDoc \in [Jobs -> JobDoc], NEW j \in Jobs, NEW status, NEW holder,
         SetJob(j, status, holder),
         status \in {"published", "paused", "matched", "closed", "cancelled"},
         holder \in SUBSET Tradesmen
  PROVE  /\ jobDoc' \in [Jobs -> JobDoc]
         /\ jobDoc'[j].status = status /\ jobDoc'[j].holder = holder
         /\ \A i \in Jobs \ {j} : jobDoc'[i] = jobDoc[i]
<1> DEFINE doc == [jobDoc[j] EXCEPT !.status = status, !.holder = holder]
<1>1. doc \in JobDoc /\ doc.status = status /\ doc.holder = holder
  BY DEF JobDoc
<1>2. jobDoc' = [jobDoc EXCEPT ![j] = doc]
  BY DEF SetJob
<1> QED
  BY <1>1, <1>2

LEMMA SetBidEffect ==
  ASSUME bid \in [Jobs -> [Tradesmen -> BidDoc]], NEW j \in Jobs, NEW p \in Tradesmen,
         NEW doc \in BidDoc, SetBid(j, p, doc)
  PROVE  /\ bid' \in [Jobs -> [Tradesmen -> BidDoc]]
         /\ bid'[j][p] = doc
         /\ \A i \in Jobs, q \in Tradesmen : i # j \/ q # p => bid'[i][q] = bid[i][q]
BY DEF SetBid

LEMMA SetDealEffect ==
  ASSUME deal \in [Jobs -> [Tradesmen -> DealDoc]], NEW j \in Jobs, NEW p \in Tradesmen,
         NEW doc \in DealDoc, SetDeal(j, p, doc)
  PROVE  /\ deal' \in [Jobs -> [Tradesmen -> DealDoc]]
         /\ deal'[j][p] = doc
         /\ \A i \in Jobs, q \in Tradesmen : i # j \/ q # p => deal'[i][q] = deal[i][q]
BY DEF SetDeal

LEMMA StatsInvInit == StatsInit => StatsInv
<1> SUFFICES ASSUME StatsInit PROVE StatsInv
  OBVIOUS
<1>1. StatsTypeOK
  BY DEF StatsInit, StatsTypeOK, NotPosted, Eras, Unstamped
<1>2. /\ \A j \in Jobs : jobDoc[j].status = "none"
      /\ \A j \in Jobs, p \in Tradesmen :
           /\ deal[j][p].status = "none"
           /\ deal[j][p].completed = Unstamped /\ deal[j][p].cancelled = Unstamped
  BY DEF StatsInit, NotPosted
<1>3. \A j \in Jobs : jobDoc[j].holder = {}
  BY DEF StatsInit, NotPosted
<1> QED
  BY <1>1, <1>2, <1>3
     DEF StatsInv, DealsAreAccepted, DealHoldsJob, GoneIsUnheld, TimesGoWithStatus, JobExists

\* A step that leaves the contracts, the accepted offers and who holds a request as they
\* are keeps the invariant.
LEMMA ContractsUntouched ==
  ASSUME StatsInv, StatsTypeOK', UNCHANGED deal,
         \A j \in Jobs, p \in Tradesmen : Accepted(j, p) => bid'[j][p].status = "accepted",
         \A j \in Jobs : \/ jobDoc'[j].status = "none" /\ jobDoc'[j].holder = {}
                         \/ /\ JobExists(j) /\ jobDoc'[j].status # "none"
                            /\ jobDoc'[j].holder = jobDoc[j].holder
                         \/ jobDoc'[j].status # "none" /\ ~HasBids(j)
  PROVE  StatsInv'
<1>1. DealsAreAccepted'
  BY DEF StatsInv, DealsAreAccepted, Accepted
<1>2. \A j \in Jobs : ~HasBids(j) => \A p \in Tradesmen : deal[j][p].status = "none"
  BY DEF StatsInv, DealsAreAccepted, Accepted, HasBids
<1>3. DealHoldsJob'
  BY <1>2 DEF StatsInv, DealHoldsJob, JobExists
<1>4. TimesGoWithStatus'
  BY DEF StatsInv, TimesGoWithStatus
<1>5. GoneIsUnheld'
  BY DEF GoneIsUnheld, JobExists
<1> QED
  BY <1>1, <1>3, <1>4, <1>5 DEF StatsInv

\* A contract that is written while it holds its request, or while nobody does.
LEMMA DealWriteKeeps ==
  ASSUME StatsInv, NEW j \in Jobs, NEW p \in Tradesmen, NEW doc \in DealDoc,
         SetDeal(j, p, doc), DealWritten(deal[j][p], doc), UNCHANGED era,
         jobDoc' \in [Jobs -> JobDoc], bid' \in [Jobs -> [Tradesmen -> BidDoc]],
         bid'[j][p].status = "accepted",
         \A i \in Jobs, q \in Tradesmen : Accepted(i, q) => bid'[i][q].status = "accepted",
         \A i \in Jobs \ {j} : jobDoc'[i] = jobDoc[i],
         jobDoc'[j].status = "none" => jobDoc'[j].holder = {},
         jobDoc'[j].status # "none" =>
           /\ \A q \in Tradesmen \ {p} :
                deal[j][q].status \notin {"pending", "confirmed", "completed"}
           /\ doc.status # "cancelled" => jobDoc'[j].holder = {p}
  PROVE  StatsInv'
<1>0. /\ jobDoc \in [Jobs -> JobDoc] /\ bid \in [Jobs -> [Tradesmen -> BidDoc]]
      /\ deal \in [Jobs -> [Tradesmen -> DealDoc]] /\ era \in Eras
  BY StatsTyping DEF StatsInv
<1>1. /\ deal' \in [Jobs -> [Tradesmen -> DealDoc]] /\ deal'[j][p] = doc
      /\ \A i \in Jobs, q \in Tradesmen : i # j \/ q # p => deal'[i][q] = deal[i][q]
  BY <1>0, SetDealEffect
<1>2. StatsTypeOK'
  BY <1>0, <1>1 DEF StatsTypeOK, JobDoc, BidDoc, DealDoc, DealStatuses
<1>3. DealsAreAccepted'
  BY <1>1 DEF StatsInv, DealsAreAccepted, Accepted
<1>4. DealHoldsJob'
  <2>1. ASSUME NEW i \in Jobs, NEW q \in Tradesmen, jobDoc'[i].status # "none",
               deal'[i][q].status \in {"pending", "confirmed", "completed"}
        PROVE  jobDoc'[i].holder = {q}
    <3>1. CASE i # j
      BY <1>1, <2>1, <3>1 DEF StatsInv, DealHoldsJob, JobExists
    <3>2. CASE i = j /\ q # p
      BY <1>1, <2>1, <3>2
    <3>3. CASE i = j /\ q = p
      BY <1>1, <2>1, <3>3
    <3> QED
      BY <3>1, <3>2, <3>3
  <2> QED
    BY <2>1 DEF DealHoldsJob, JobExists
<1>5. /\ (doc.completed # Unstamped <=> doc.status = "completed")
      /\ (doc.cancelled # Unstamped <=> doc.status = "cancelled")
  <2> DEFINE d == deal[j][p]
  <2>1. d \in DealDoc
    BY <1>0
  <2>2. /\ (d.completed # Unstamped <=> d.status = "completed")
        /\ (d.cancelled # Unstamped <=> d.status = "cancelled")
    BY DEF StatsInv, TimesGoWithStatus
  <2>3. era # Unstamped
    BY <1>0 DEF Eras, Unstamped
  <2> HIDE DEF d
  <2>4. DealWritten(d, doc)
    BY DEF d
  <2> QED
    BY <2>1, <2>2, <2>3, <2>4, ZenonT(30) DEF DealWritten, DealDoc
<1>6. TimesGoWithStatus'
  BY <1>1, <1>5 DEF StatsInv, TimesGoWithStatus
<1>7. GoneIsUnheld'
  BY DEF StatsInv, GoneIsUnheld, JobExists
<1> QED
  BY <1>2, <1>3, <1>4, <1>6, <1>7 DEF StatsInv

LEMMA JobStepKeeps ==
  ASSUME StatsInv, NEW j \in Jobs, Post(j) \/ Publish(j) \/ Unpublish(j) \/ DeleteJob(j)
  PROVE  StatsInv'
<1>1. /\ jobDoc \in [Jobs -> JobDoc] /\ bid \in [Jobs -> [Tradesmen -> BidDoc]]
      /\ deal \in [Jobs -> [Tradesmen -> DealDoc]] /\ era \in Eras
  BY StatsTyping DEF StatsInv
<1>2. jobDoc[j].holder \in SUBSET Tradesmen
  BY <1>1 DEF JobDoc
<1>3. UNCHANGED <<bid, deal, era>>
  BY DEF Post, Publish, Unpublish, DeleteJob
<1>4. ASSUME jobDoc' \in [Jobs -> JobDoc], \A i \in Jobs \ {j} : jobDoc'[i] = jobDoc[i],
             \/ jobDoc'[j].status = "none" /\ jobDoc'[j].holder = {}
             \/ /\ JobExists(j) /\ jobDoc'[j].status # "none"
                /\ jobDoc'[j].holder = jobDoc[j].holder
             \/ jobDoc'[j].status # "none" /\ ~HasBids(j)
      PROVE  StatsInv'
  <2>1. StatsTypeOK'
    BY <1>1, <1>3, <1>4 DEF StatsTypeOK, JobDoc, BidDoc, DealDoc, DealStatuses
  <2>2. \A i \in Jobs : \/ jobDoc'[i].status = "none" /\ jobDoc'[i].holder = {}
                        \/ /\ JobExists(i) /\ jobDoc'[i].status # "none"
                           /\ jobDoc'[i].holder = jobDoc[i].holder
                        \/ jobDoc'[i].status # "none" /\ ~HasBids(i)
    BY <1>4 DEF JobExists, StatsInv, GoneIsUnheld
  <2> QED
    BY <1>3, <2>1, <2>2, ContractsUntouched DEF Accepted
<1>5. CASE Post(j)
  <2>1. PICK status \in {"draft", "published"} :
          jobDoc' = [jobDoc EXCEPT ![j] = [status |-> status, created |-> era, holder |-> {}]]
    BY <1>5 DEF Post
  <2>2. [status |-> status, created |-> era, holder |-> {}] \in JobDoc
    BY <1>1 DEF JobDoc
  <2> QED
    BY <1>1, <1>4, <1>5, <2>1, <2>2 DEF Post
<1>6. ASSUME NEW status \in {"published", "paused", "cancelled"}, JobExists(j),
             SetJob(j, status, jobDoc[j].holder)
      PROVE  StatsInv'
  BY <1>1, <1>2, <1>4, <1>6, SetJobEffect
<1>7. CASE jobDoc' = [jobDoc EXCEPT ![j] = NotPosted]
  <2>1. NotPosted \in JobDoc /\ NotPosted.status = "none" /\ NotPosted.holder = {}
    BY DEF NotPosted, JobDoc
  <2> QED
    BY <1>1, <1>4, <1>7, <2>1
<1> QED
  BY <1>5, <1>6, <1>7 DEF Publish, Unpublish, DeleteJob, JobExists

\* The document of a contract or an offer, one status further.
LEMMA StampIsDoc ==
  ASSUME NEW d \in DealDoc, NEW t \in Eras
  PROVE  /\ [d EXCEPT !.status = "pending"] \in DealDoc
         /\ [d EXCEPT !.status = "confirmed", !.confirmed = t] \in DealDoc
         /\ [d EXCEPT !.status = "completed", !.completed = t] \in DealDoc
         /\ [d EXCEPT !.status = "cancelled", !.cancelled = t] \in DealDoc
BY DEF DealDoc, DealStatuses

LEMMA AnswerIsDoc ==
  ASSUME NEW b \in BidDoc, NEW status \in {"accepted", "declined"}
  PROVE  /\ [b EXCEPT !.status = status] \in BidDoc
         /\ [b EXCEPT !.status = status].status = status
BY DEF BidDoc

LEMMA OfferStepKeeps ==
  ASSUME StatsInv, NEW j \in Jobs, NEW p \in Tradesmen,
         SendOffer(j, p) \/ WithdrawOffer(j, p) \/ DeclineOffer(j, p)
  PROVE  StatsInv'
<1>1. /\ jobDoc \in [Jobs -> JobDoc] /\ bid \in [Jobs -> [Tradesmen -> BidDoc]]
      /\ deal \in [Jobs -> [Tradesmen -> DealDoc]] /\ era \in Eras
  BY StatsTyping DEF StatsInv
<1>2. UNCHANGED <<jobDoc, deal, era>> /\ ~Accepted(j, p)
  BY DEF SendOffer, WithdrawOffer, DeclineOffer, Accepted
<1>3. \E doc \in BidDoc : SetBid(j, p, doc)
  <2>1. /\ [status |-> "sent", created |-> era] \in BidDoc
        /\ [status |-> "none", created |-> Unstamped] \in BidDoc
        /\ [bid[j][p] EXCEPT !.status = "declined"] \in BidDoc
    <3>1. bid[j][p] \in BidDoc
      BY <1>1
    <3> QED
      BY <1>1, <3>1, AnswerIsDoc DEF BidDoc
  <2> QED
    BY <2>1 DEF SendOffer, WithdrawOffer, DeclineOffer
<1>4. /\ bid' \in [Jobs -> [Tradesmen -> BidDoc]]
      /\ \A i \in Jobs, q \in Tradesmen : i # j \/ q # p => bid'[i][q] = bid[i][q]
  BY <1>1, <1>3, SetBidEffect
<1>5. StatsTypeOK'
  BY <1>1, <1>2, <1>4 DEF StatsTypeOK, JobDoc, BidDoc, DealDoc, DealStatuses
<1>6. \A i \in Jobs, q \in Tradesmen : Accepted(i, q) => bid'[i][q].status = "accepted"
  BY <1>2, <1>4 DEF Accepted
<1>7. \A i \in Jobs : \/ jobDoc'[i].status = "none" /\ jobDoc'[i].holder = {}
                      \/ /\ JobExists(i) /\ jobDoc'[i].status # "none"
                         /\ jobDoc'[i].holder = jobDoc[i].holder
                      \/ jobDoc'[i].status # "none" /\ ~HasBids(i)
  BY <1>2 DEF JobExists, StatsInv, GoneIsUnheld
<1> QED
  BY <1>2, <1>5, <1>6, <1>7, ContractsUntouched

LEMMA AcceptKeeps ==
  ASSUME StatsInv, NEW j \in Jobs, NEW p \in Tradesmen, Accept(j, p)
  PROVE  StatsInv'
<1>1. /\ jobDoc \in [Jobs -> JobDoc] /\ bid \in [Jobs -> [Tradesmen -> BidDoc]]
      /\ deal \in [Jobs -> [Tradesmen -> DealDoc]] /\ era \in Eras
  BY StatsTyping DEF StatsInv
<1> DEFINE doc == [deal[j][p] EXCEPT !.status = "pending"]
           Bid(x) == IF x = p THEN [bid[j][x] EXCEPT !.status = "accepted"]
                        ELSE IF bid[j][x].status = "sent"
                             THEN [bid[j][x] EXCEPT !.status = "declined"]
                        ELSE bid[j][x]
<1>2. SetDeal(j, p, doc) /\ doc \in DealDoc /\ doc.status = "pending"
  <2>1. deal[j][p] \in DealDoc
    BY <1>1
  <2> QED
    BY <1>1, <2>1, StampIsDoc DEF Accept, DealDoc
<1>3. deal[j][p].status = "none"
  BY DEF Accept, StatsInv, DealsAreAccepted, Accepted
<1>4. DealWritten(deal[j][p], doc)
  BY <1>3 DEF DealWritten
<1>5. \A x \in Tradesmen : /\ Bid(x) \in BidDoc
                           /\ bid[j][x].status = "accepted" => Bid(x).status = "accepted"
                           /\ x = p => Bid(x).status = "accepted"
  <2> TAKE x \in Tradesmen
  <2>1. bid[j][x] \in BidDoc
    BY <1>1
  <2> DEFINE b == bid[j][x]
  <2>2. /\ [b EXCEPT !.status = "accepted"] \in BidDoc
        /\ [b EXCEPT !.status = "accepted"].status = "accepted"
        /\ [b EXCEPT !.status = "declined"] \in BidDoc
    BY <2>1, AnswerIsDoc
  <2> QED
    BY <2>1, <2>2
<1>6. bid' = [bid EXCEPT ![j] = [x \in Tradesmen |-> Bid(x)]]
  BY DEF Accept
<1> HIDE DEF Bid
<1>7. /\ bid' \in [Jobs -> [Tradesmen -> BidDoc]] /\ bid'[j][p].status = "accepted"
      /\ \A i \in Jobs, q \in Tradesmen : Accepted(i, q) => bid'[i][q].status = "accepted"
  BY <1>1, <1>5, <1>6 DEF Accepted
<1>8. /\ jobDoc' \in [Jobs -> JobDoc]
      /\ jobDoc'[j].holder = {p} /\ jobDoc'[j].status = "paused"
      /\ \A i \in Jobs \ {j} : jobDoc'[i] = jobDoc[i]
  BY <1>1, SetJobEffect DEF Accept
<1>9. \A q \in Tradesmen : deal[j][q].status \notin {"pending", "confirmed", "completed"}
  BY DEF Accept, StatsInv, DealHoldsJob, JobExists
<1>10. UNCHANGED era
  BY DEF Accept
<1> HIDE DEF doc
<1> QED
  BY <1>2, <1>4, <1>7, <1>8, <1>9, <1>10, DealWriteKeeps

LEMMA DealStepKeeps ==
  ASSUME StatsInv, NEW j \in Jobs, NEW p \in Tradesmen,
         Confirm(j, p) \/ Complete(j, p) \/ Cancel(j, p)
  PROVE  StatsInv'
<1>1. /\ jobDoc \in [Jobs -> JobDoc] /\ bid \in [Jobs -> [Tradesmen -> BidDoc]]
      /\ deal \in [Jobs -> [Tradesmen -> DealDoc]] /\ era \in Eras
  BY StatsTyping DEF StatsInv
<1>2. UNCHANGED <<bid, era>> /\ deal[j][p].status \in {"pending", "confirmed"}
  BY DEF Confirm, Complete, Cancel
<1>3. /\ bid[j][p].status = "accepted"
      /\ JobExists(j) => jobDoc[j].holder = {p}
      /\ JobExists(j) => \A q \in Tradesmen \ {p} :
           deal[j][q].status \notin {"pending", "confirmed", "completed"}
  BY <1>2 DEF StatsInv, DealsAreAccepted, DealHoldsJob, Accepted
\* What becomes of the request.
<1>4. ASSUME \/ UNCHANGED jobDoc
             \/ \E status \in {"matched", "closed", "published"}, holder \in SUBSET {p} :
                  JobExists(j) /\ SetJob(j, status, holder)
      PROVE  /\ jobDoc' \in [Jobs -> JobDoc] /\ \A i \in Jobs \ {j} : jobDoc'[i] = jobDoc[i]
             /\ jobDoc'[j].status = "none" => jobDoc'[j].holder = {}
             /\ jobDoc'[j].status # "none" => JobExists(j)
  <2>1. CASE UNCHANGED jobDoc
    BY <1>1, <2>1 DEF JobExists, StatsInv, GoneIsUnheld
  <2>2. ASSUME NEW status \in {"matched", "closed", "published"}, NEW holder \in SUBSET {p},
               JobExists(j), SetJob(j, status, holder)
        PROVE  /\ jobDoc' \in [Jobs -> JobDoc] /\ jobDoc'[j].status = status
               /\ \A i \in Jobs \ {j} : jobDoc'[i] = jobDoc[i]
    BY <1>1, <2>2, SetJobEffect
  <2> QED
    BY <1>4, <2>1, <2>2
<1>5. jobDoc[j].holder = {p} => JobExists(j)
  BY DEF StatsInv, GoneIsUnheld
<1>6. ASSUME NEW doc \in DealDoc, SetDeal(j, p, doc), DealWritten(deal[j][p], doc),
             \/ UNCHANGED jobDoc
             \/ \E status \in {"matched", "closed", "published"}, holder \in SUBSET {p} :
                  JobExists(j) /\ SetJob(j, status, holder),
             doc.status # "cancelled" =>
               \/ UNCHANGED jobDoc
               \/ \E status \in {"matched", "closed"} : JobExists(j) /\ SetJob(j, status, {p})
      PROVE  StatsInv'
  <2>1. /\ jobDoc' \in [Jobs -> JobDoc] /\ \A i \in Jobs \ {j} : jobDoc'[i] = jobDoc[i]
        /\ jobDoc'[j].status = "none" => jobDoc'[j].holder = {}
        /\ jobDoc'[j].status # "none" => JobExists(j)
    BY <1>4, <1>6
  <2>2. ASSUME NEW status \in {"matched", "closed"}, SetJob(j, status, {p})
        PROVE  jobDoc'[j].holder = {p}
    BY <1>1, <2>2, SetJobEffect
  <2>3. jobDoc'[j].status # "none" /\ doc.status # "cancelled" => jobDoc'[j].holder = {p}
    BY <1>3, <1>6, <2>1, <2>2
  <2>4. /\ bid'[j][p].status = "accepted"
        /\ \A i \in Jobs, q \in Tradesmen : Accepted(i, q) => bid'[i][q].status = "accepted"
        /\ bid' \in [Jobs -> [Tradesmen -> BidDoc]]
    BY <1>1, <1>2, <1>3 DEF Accepted
  <2> QED
    BY <1>2, <1>3, <1>6, <2>1, <2>3, <2>4, DealWriteKeeps
<1>7. deal[j][p] \in DealDoc /\ era \in Eras
  BY <1>1
<1>8. CASE Confirm(j, p)
  <2> DEFINE doc == [deal[j][p] EXCEPT !.status = "confirmed", !.confirmed = era]
  <2>1. doc \in DealDoc
    BY <1>7, StampIsDoc
  <2>2. SetDeal(j, p, doc) /\ DealWritten(deal[j][p], doc)
    BY <1>8 DEF Confirm, DealWritten
  <2>3. UNCHANGED jobDoc \/ (JobExists(j) /\ SetJob(j, "matched", {p}))
    BY <1>8 DEF Confirm, IfHeld
  <2> HIDE DEF doc
  <2> QED
    BY <1>6, <2>1, <2>2, <2>3, SMTT(30)
<1>9. CASE Complete(j, p)
  <2> DEFINE doc == [deal[j][p] EXCEPT !.status = "completed", !.completed = era]
  <2>1. doc \in DealDoc
    BY <1>7, StampIsDoc
  <2>2. SetDeal(j, p, doc) /\ DealWritten(deal[j][p], doc)
    BY <1>9 DEF Complete, DealWritten
  <2>3. UNCHANGED jobDoc \/ (JobExists(j) /\ SetJob(j, "closed", {p}))
    BY <1>5, <1>9 DEF Complete
  <2> HIDE DEF doc
  <2> QED
    BY <1>6, <2>1, <2>2, <2>3, SMTT(30)
<1>10. CASE Cancel(j, p)
  <2> DEFINE doc == [deal[j][p] EXCEPT !.status = "cancelled", !.cancelled = era]
  <2>1. doc \in DealDoc /\ doc.status = "cancelled"
    BY <1>7, StampIsDoc DEF DealDoc
  <2>2. SetDeal(j, p, doc) /\ DealWritten(deal[j][p], doc)
    BY <1>10 DEF Cancel, DealWritten
  <2>3. UNCHANGED jobDoc \/ (JobExists(j) /\ SetJob(j, "published", {}))
    BY <1>5, <1>10 DEF Cancel
  <2> HIDE DEF doc
  <2> QED
    BY <1>6, <2>1, <2>2, <2>3
<1> QED
  BY <1>8, <1>9, <1>10

LEMMA StatsInvStep == StatsInv /\ [StatsNext]_statsVars => StatsInv'
<1> SUFFICES ASSUME StatsInv, [StatsNext]_statsVars PROVE StatsInv'
  OBVIOUS
<1>1. CASE UNCHANGED <<jobDoc, bid, deal>> /\ era' \in Eras
  <2>1. StatsTypeOK'
    BY <1>1 DEF StatsInv, StatsTypeOK
  <2> QED
    BY <1>1, <2>1 DEF StatsInv, DealsAreAccepted, DealHoldsJob, GoneIsUnheld,
                      TimesGoWithStatus, Accepted, JobExists
<1>2. CASE TimePasses
  BY <1>1, <1>2 DEF TimePasses, Eras, StatsInv, StatsTypeOK
<1>3. CASE UNCHANGED statsVars
  BY <1>1, <1>3 DEF statsVars, StatsInv, StatsTypeOK
<1> QED
  BY <1>2, <1>3, JobStepKeeps, OfferStepKeeps, AcceptKeeps, DealStepKeeps DEF StatsNext

-----------------------------------------------------------------------------
(* What the panels count of such documents. *)

\* A job has one contract that was signed, and its offer was accepted.
LEMMA OneSigned ==
  ASSUME StatsInv, NEW j \in Jobs, JobExists(j), NEW p \in Tradesmen, Signed(j, p)
  PROVE  Accepted(j, p) /\ \A q \in Tradesmen : Signed(j, q) => q = p
<1>1. /\ jobDoc[j].holder = {p} /\ Accepted(j, p)
      /\ \A q \in Tradesmen : Signed(j, q) => jobDoc[j].holder = {q}
  BY DEF StatsInv, DealsAreAccepted, DealHoldsJob, Signed
<1> QED
  BY <1>1

LEMMA FunnelCountsAgree ==
  ASSUME StatsInv, NEW from
  PROVE  /\ \A j \in MarketContracts(from) :
              Cardinality({p \in Tradesmen : j \in ProviderContracts(p, from)}) = 1
         /\ \A j \in MarketCompleted(from) :
              Cardinality({p \in Tradesmen : j \in ProviderCompleted(p, from)}) = 1
<1>1. ASSUME NEW j \in MarketContracts(from)
      PROVE  Cardinality({p \in Tradesmen : j \in ProviderContracts(p, from)}) = 1
  <2>1. PICK p \in Tradesmen : Signed(j, p)
    BY <1>1 DEF MarketContracts
  <2>2. j \in InScope(from) /\ j \in Jobs /\ JobExists(j)
    BY <1>1 DEF MarketContracts, InScope
  <2>3. Accepted(j, p) /\ \A q \in Tradesmen : Signed(j, q) => q = p
    BY <2>1, <2>2, OneSigned
  <2>4. {q \in Tradesmen : j \in ProviderContracts(q, from)} = {p}
    BY <2>1, <2>2, <2>3 DEF ProviderContracts
  <2> QED
    BY <2>4, FS_Singleton
<1>2. ASSUME NEW j \in MarketCompleted(from)
      PROVE  Cardinality({p \in Tradesmen : j \in ProviderCompleted(p, from)}) = 1
  <2>1. PICK p \in Tradesmen : Finished(j, p)
    BY <1>2 DEF MarketCompleted
  <2>2. j \in InScope(from) /\ j \in Jobs /\ JobExists(j)
    BY <1>2 DEF MarketCompleted, InScope
  <2>3. Accepted(j, p) /\ \A q \in Tradesmen : Finished(j, q) => q = p
    BY <2>1, <2>2, OneSigned DEF Signed, Finished
  <2>4. {q \in Tradesmen : j \in ProviderCompleted(q, from)} = {p}
    BY <2>1, <2>2, <2>3 DEF ProviderCompleted
  <2> QED
    BY <2>4, FS_Singleton
<1> QED
  BY <1>1, <1>2

LEMMA CustomersAgree ==
  ASSUME NEW from, NEW p \in Tradesmen
  PROVE  /\ \A j \in ProviderContracts(p, from) :
              {c \in Clients : j \in CustomerContracts(c, from)} = {ClientOf[j]}
         /\ \A j \in ProviderCompleted(p, from) :
              {c \in Clients : j \in CustomerCompleted(c, from)} = {ClientOf[j]}
<1>1. ASSUME NEW j \in ProviderContracts(p, from)
      PROVE  {c \in Clients : j \in CustomerContracts(c, from)} = {ClientOf[j]}
  <2>1. j \in Jobs /\ j \in MarketContracts(from) /\ ClientOf[j] \in Clients
    BY <1>1 DEF ProviderContracts, MarketContracts, InScope, Clients
  <2> QED
    BY <2>1 DEF CustomerContracts, Own
<1>2. ASSUME NEW j \in ProviderCompleted(p, from)
      PROVE  {c \in Clients : j \in CustomerCompleted(c, from)} = {ClientOf[j]}
  <2>1. j \in Jobs /\ j \in MarketCompleted(from) /\ ClientOf[j] \in Clients
    BY <1>2 DEF ProviderCompleted, MarketCompleted, InScope, Clients
  <2> QED
    BY <2>1 DEF CustomerCompleted, Own
<1> QED
  BY <1>1, <1>2

LEMMA TimesAgree ==
  ASSUME StatsInv, NEW from \in Nat \ {0}
  PROVE  /\ PlatformCompleted(from) = LifecycleCompleted(from)
         /\ PlatformCompleted(from) \cap LifecycleCancelled(1) = {}
<1>0. \A j \in Jobs, p \in Tradesmen :
        /\ deal[j][p].completed \in Nat /\ deal[j][p].cancelled \in Nat
        /\ (deal[j][p].completed # 0 <=> deal[j][p].status = "completed")
        /\ (deal[j][p].cancelled # 0 <=> deal[j][p].status = "cancelled")
  <2> TAKE j \in Jobs, p \in Tradesmen
  <2>1. deal[j][p] \in DealDoc
    BY StatsTyping DEF StatsInv
  <2>2. deal[j][p].completed \in Nat /\ deal[j][p].cancelled \in Nat
    BY <2>1 DEF DealDoc, Eras, Unstamped
  <2> QED
    BY <2>2 DEF StatsInv, TimesGoWithStatus, Unstamped
<1>1. \A x \in Pairs :
        /\ x[1] \in Jobs /\ x[2] \in Tradesmen
        /\ deal[x[1]][x[2]].completed \in Nat /\ deal[x[1]][x[2]].cancelled \in Nat
        /\ (deal[x[1]][x[2]].completed # 0 <=> deal[x[1]][x[2]].status = "completed")
        /\ (deal[x[1]][x[2]].cancelled # 0 <=> deal[x[1]][x[2]].status = "cancelled")
  BY <1>0 DEF Pairs
<1>2. \A x \in Pairs : /\ deal[x[1]][x[2]].completed >= from => Finished(x[1], x[2])
                       /\ deal[x[1]][x[2]].cancelled >= 1 => ~Finished(x[1], x[2])
  BY <1>1 DEF Finished
<1> QED
  BY <1>2 DEF PlatformCompleted, LifecycleCompleted, LifecycleCancelled, Within

LEMMA ActivityAgrees ==
  ASSUME NEW from, NEW p \in Tradesmen
  PROVE  p \in ActiveProviders(from) <=> OwnActivity(p, from) # {}
<1>1. \A j \in Jobs : <<j, p>> \in OffersMade(from) <=> j \in OwnActivity(p, from)
  BY DEF OffersMade, OwnActivity, Pairs
<1>2. ASSUME p \in ActiveProviders(from) PROVE OwnActivity(p, from) # {}
  <2>1. PICK x \in OffersMade(from) : x[2] = p
    BY <1>2 DEF ActiveProviders
  <2>2. x = <<x[1], p>> /\ x[1] \in Jobs
    BY <2>1 DEF OffersMade, Pairs
  <2> QED
    BY <1>1, <2>1, <2>2
<1>3. ASSUME OwnActivity(p, from) # {} PROVE p \in ActiveProviders(from)
  <2>1. PICK j \in Jobs : <<j, p>> \in OffersMade(from)
    BY <1>1, <1>3 DEF OwnActivity
  <2> QED
    BY <2>1 DEF ActiveProviders
<1> QED
  BY <1>2, <1>3

\* There are no more requests with an offer than offers.
LEMMA OffersCover ==
  ASSUME NEW from
  PROVE  Cardinality(MarketOffers(from)) >=
           Cardinality(UNION {CustomerOffers(c, from) : c \in Clients})
<1> DEFINE offered == UNION {CustomerOffers(c, from) : c \in Clients}
           job == [x \in MarketOffers(from) |-> x[1]]
<1>1. IsFiniteSet(MarketOffers(from))
  <2>1. IsFiniteSet(Jobs \X Tradesmen)
    BY StatsAssumption, FS_Product
  <2>2. MarketOffers(from) \in SUBSET (Jobs \X Tradesmen)
    BY DEF MarketOffers
  <2> QED
    BY <2>1, <2>2, FS_Subset
<1>2. \A x \in MarketOffers(from) : x[1] \in offered
  <2>1. ASSUME NEW x \in MarketOffers(from) PROVE x[1] \in offered
    <3>1. /\ x[1] \in Jobs /\ x[2] \in Tradesmen /\ x[1] \in InScope(from)
          /\ Made(x[1], x[2])
      BY DEF MarketOffers
    <3>2. x[1] \in CustomerOffers(ClientOf[x[1]], from)
      BY <3>1 DEF CustomerOffers, CustomerRequests, Own
    <3> QED
      BY <3>1, <3>2 DEF Clients
  <2> QED
    BY <2>1
<1>3. \A j \in offered : \E x \in MarketOffers(from) : x[1] = j
  <2>1. ASSUME NEW j \in offered PROVE \E x \in MarketOffers(from) : x[1] = j
    <3>1. PICK c \in Clients : j \in CustomerOffers(c, from)
      OBVIOUS
    <3>2. PICK p \in Tradesmen : Made(j, p)
      BY <3>1 DEF CustomerOffers
    <3>3. j \in Jobs /\ j \in InScope(from)
      BY <3>1 DEF CustomerOffers, CustomerRequests, Own
    <3>4. <<j, p>> \in MarketOffers(from)
      BY <3>2, <3>3 DEF MarketOffers
    <3> QED
      BY <3>4
  <2> QED
    BY <2>1
<1> HIDE DEF offered
<1>4. job \in Surjection(MarketOffers(from), offered)
  BY <1>2, <1>3 DEF Surjection
<1>5. Cardinality(offered) <= Cardinality(MarketOffers(from))
  BY <1>1, <1>4, FS_Surjection
<1>6. Cardinality(MarketOffers(from)) \in Nat /\ Cardinality(offered) \in Nat
  BY <1>1, <1>4, FS_Surjection, FS_CardinalityType
<1> QED
  BY <1>5, <1>6 DEF offered

LEMMA WaitingAgrees ==
  ASSUME NEW from
  PROVE  /\ MarketWaiting(from) \subseteq UNION {CustomerWaiting(c, from) : c \in Clients}
         /\ \A p \in Tradesmen : ProviderWaiting(p, from) \cap MarketWaiting(from) = {}
<1>1. ASSUME NEW j \in MarketWaiting(from)
      PROVE  j \in UNION {CustomerWaiting(c, from) : c \in Clients}
  <2>1. j \in CustomerWaiting(ClientOf[j], from) /\ ClientOf[j] \in Clients
    BY <1>1 DEF MarketWaiting, Listed, InScope, CustomerWaiting, CustomerRequests, Own, Clients
  <2> QED
    BY <2>1
<1>2. \A p \in Tradesmen : ProviderWaiting(p, from) \cap MarketWaiting(from) = {}
  BY DEF ProviderWaiting, ProviderOffers, Made, MarketWaiting, HasBids
<1> QED
  BY <1>1, <1>2

-----------------------------------------------------------------------------
(* The workspace: what is not in focus stays as it is. *)

\* The types of what a call loads at once and answers.
PanelsTypeOK ==
  /\ InsightsTypeOK /\ FunnelTypeOK /\ FitTypeOK /\ CitiesTypeOK /\ LookupTypeOK
  /\ AdviceTypeOK /\ DirectoryTypeOK /\ BoardTypeOK /\ OverviewTypeOK /\ ChartTypeOK

LEMMA PanelsTyped ==
  /\ InsightsTypeOK /\ [InsightsNext]_figures => InsightsTypeOK'
  /\ FunnelTypeOK /\ [FunnelNext]_compared => FunnelTypeOK'
  /\ FitTypeOK /\ [FitNext]_fit => FitTypeOK'
  /\ CitiesTypeOK /\ [CitiesNext]_cityQuery => CitiesTypeOK'
  /\ LookupTypeOK /\ [LookupNext]_lookup => LookupTypeOK'
  /\ DirectoryTypeOK /\ [DirectoryNext]_directory => DirectoryTypeOK'
  /\ BoardTypeOK /\ [BoardNext]_board => BoardTypeOK'
<1>1. InsightsTypeOK /\ [InsightsNext]_figures => InsightsTypeOK'
  BY DEF InsightsTypeOK, InsightsNext, LoadFigures, AnswerViewer
<1>2. FunnelTypeOK /\ [FunnelNext]_compared => FunnelTypeOK'
  BY DEF FunnelTypeOK, FunnelNext, LoadProfile, AnswerProfile
<1>3. FitTypeOK /\ [FitNext]_fit => FitTypeOK'
  BY DEF FitTypeOK, FitNext, LoadFit, AnswerFit
<1>4. CitiesTypeOK /\ [CitiesNext]_cityQuery => CitiesTypeOK'
  BY DEF CitiesTypeOK, CitiesNext, LoadCities, AnswerCities
<1>5. LookupTypeOK /\ [LookupNext]_lookup => LookupTypeOK'
  BY DEF LookupTypeOK, LookupNext, LoadLookup, AnswerLookup
<1>6. DirectoryTypeOK /\ [DirectoryNext]_directory => DirectoryTypeOK'
  BY DEF DirectoryTypeOK, DirectoryNext, LoadProviders, AnswerProviders
<1>7. BoardTypeOK /\ [BoardNext]_board => BoardTypeOK'
  BY DEF BoardTypeOK, BoardNext, LoadBoard, AnswerBoard
<1> QED
  BY <1>1, <1>2, <1>3, <1>4, <1>5, <1>6, <1>7

LEMMA AdviceTyped == AdviceTypeOK /\ [AdviceNext]_advice => AdviceTypeOK'
<1> SUFFICES ASSUME AdviceTypeOK, [AdviceNext]_advice PROVE AdviceTypeOK'
  OBVIOUS
<1>1. CASE LoadOwnWindow
  BY <1>1 DEF LoadOwnWindow, AdviceTypeOK
<1>2. CASE LoadOlderWindow
  BY <1>2 DEF LoadOlderWindow, AdviceTypeOK
<1>3. CASE AnswerAdvice
  BY <1>3 DEF AnswerAdvice, AdviceTypeOK
<1>4. CASE UNCHANGED advice
  BY <1>4 DEF AdviceTypeOK
<1> QED
  BY <1>1, <1>2, <1>3, <1>4 DEF AdviceNext

LEMMA OverviewTyped == OverviewTypeOK /\ [OverviewNext]_own => OverviewTypeOK'
<1> SUFFICES ASSUME OverviewTypeOK, [OverviewNext]_own PROVE OverviewTypeOK'
  OBVIOUS
<1>1. CASE LoadOverview
  <2>1. PICK docs \in OwnDocSets : \E asked \in DaysAsked, period \in PeriodDays,
             role \in {"client", "provider"}, seen \in SUBSET {"status", "month", "series"},
             ending \in SUBSET {i \in docs : OwnDocs[i].done # NotAsked} :
               own' = [docs |-> docs, asked |-> asked, now |-> asked, period |-> period,
                       role |-> role, ending |-> ending,
                       seen |-> IF ending = {} THEN {} ELSE seen]
    BY <1>1, ZenonT(30) DEF LoadOverview
  <2>2. PICK asked \in DaysAsked, period \in PeriodDays, role \in {"client", "provider"},
             ending \in SUBSET {i \in docs : OwnDocs[i].done # NotAsked},
             seen \in SUBSET {"status", "month", "series"} :
               own' = [docs |-> docs, asked |-> asked, now |-> asked, period |-> period,
                       role |-> role, ending |-> ending, seen |-> seen]
    <3>1. \A e, s : s \in SUBSET {"status", "month", "series"} =>
            (IF e = {} THEN {} ELSE s) \in SUBSET {"status", "month", "series"}
      OBVIOUS
    <3> QED
      BY <2>1, <3>1
  <2> QED
    BY <2>2 DEF OverviewTypeOK
<1>2. CASE OverviewNight
  BY <1>2 DEF OverviewNight, OverviewTypeOK
<1>3. CASE AnswerOverview
  BY <1>3 DEF AnswerOverview, OverviewTypeOK
<1>4. CASE UNCHANGED own
  BY <1>4 DEF OverviewTypeOK
<1> QED
  BY <1>1, <1>2, <1>3, <1>4 DEF OverviewNext

LEMMA ChartTyped == ChartTypeOK /\ [ChartNext]_chart => ChartTypeOK'
<1> SUFFICES ASSUME ChartTypeOK, [ChartNext]_chart PROVE ChartTypeOK'
  OBVIOUS
<1>1. CASE LoadChart
  BY <1>1 DEF LoadChart, ChartTypeOK
<1>2. CASE ChartTick
  BY <1>2 DEF ChartTick, ChartTypeOK
<1>3. CASE AnswerChart
  BY <1>3 DEF AnswerChart, ChartTypeOK
<1>4. CASE UNCHANGED chart
  BY <1>4 DEF ChartTypeOK
<1> QED
  BY <1>1, <1>2, <1>3, <1>4 DEF ChartNext

\* The invariant of the workspace: the types, and what the rails and the counts need.
WorkspaceInv == PanelsTypeOK /\ StatsInv /\ InboxInv /\ OpinionsInv

LEMMA WorkspaceInvInit == WorkspaceInit => WorkspaceInv
<1> SUFFICES ASSUME WorkspaceInit PROVE WorkspaceInv
  OBVIOUS
<1>1. InsightsTypeOK /\ FunnelTypeOK /\ FitTypeOK /\ CitiesTypeOK /\ LookupTypeOK
  BY DEF WorkspaceInit, InsightsInit, InsightsTypeOK, FunnelInit, FunnelTypeOK, FitInit,
         FitTypeOK, CitiesInit, CitiesTypeOK, LookupInit, LookupTypeOK
<1>2. AdviceTypeOK /\ DirectoryTypeOK /\ BoardTypeOK /\ OverviewTypeOK /\ ChartTypeOK
  BY DEF WorkspaceInit, AdviceInit, AdviceTypeOK, DirectoryInit, DirectoryTypeOK, BoardInit,
         BoardTypeOK, OverviewInit, OverviewTypeOK, ChartInit, ChartTypeOK
<1>3. StatsInv /\ InboxInv /\ OpinionsInv
  BY StatsInvInit, InboxInvInit, OpinionsInvInit DEF WorkspaceInit
<1> QED
  BY <1>1, <1>2, <1>3 DEF WorkspaceInv, PanelsTypeOK

\* In every step at most one panel moves, and it moves as its own module says.
LEMMA OneInFocus ==
  [WorkspaceNext]_workspaceVars =>
    /\ [InsightsNext]_figures /\ [FunnelNext]_compared /\ [FitNext]_fit
    /\ [CitiesNext]_cityQuery /\ [LookupNext]_lookup /\ [AdviceNext]_advice
    /\ [StatsNext]_statsVars /\ [DirectoryNext]_directory /\ [BoardNext]_board
    /\ [OverviewNext]_own /\ [ChartNext]_chart /\ [InboxNext]_inboxVars
    /\ [OpinionsNext]_opinionVars
<1> SUFFICES ASSUME [WorkspaceNext]_workspaceVars
             PROVE  /\ [InsightsNext]_figures /\ [FunnelNext]_compared /\ [FitNext]_fit
                    /\ [CitiesNext]_cityQuery /\ [LookupNext]_lookup /\ [AdviceNext]_advice
                    /\ [StatsNext]_statsVars /\ [DirectoryNext]_directory /\ [BoardNext]_board
                    /\ [OverviewNext]_own /\ [ChartNext]_chart /\ [InboxNext]_inboxVars
                    /\ [OpinionsNext]_opinionVars
  OBVIOUS
<1>1. CASE InsightsStep \/ FunnelStep \/ FitStep
  BY <1>1, Zenon DEF InsightsStep, FunnelStep, FitStep
<1>2. CASE CitiesStep \/ LookupStep \/ PricesStep
  BY <1>2, Zenon DEF CitiesStep, LookupStep, PricesStep
<1>3. CASE StatisticsStep \/ DirectoryStep \/ BoardStep
  BY <1>3, Zenon DEF StatisticsStep, DirectoryStep, BoardStep
<1>4. CASE OverviewStep \/ ActivityStep
  BY <1>4, Zenon DEF OverviewStep, ActivityStep
<1>5. CASE InboxStep \/ OpinionsStep
  BY <1>5, Zenon DEF InboxStep, OpinionsStep
<1>6. CASE UNCHANGED workspaceVars
  BY <1>6, Zenon DEF workspaceVars
<1> QED
  BY <1>1, <1>2, <1>3, <1>4, <1>5, <1>6, Zenon DEF WorkspaceNext

LEMMA WorkspaceInvStep == WorkspaceInv /\ [WorkspaceNext]_workspaceVars => WorkspaceInv'
<1> SUFFICES ASSUME WorkspaceInv, [WorkspaceNext]_workspaceVars PROVE WorkspaceInv'
  OBVIOUS
<1>1. InsightsTypeOK' /\ FunnelTypeOK' /\ FitTypeOK' /\ CitiesTypeOK' /\ LookupTypeOK'
  BY OneInFocus, PanelsTyped, Zenon DEF WorkspaceInv, PanelsTypeOK
<1>2. AdviceTypeOK' /\ DirectoryTypeOK' /\ BoardTypeOK' /\ OverviewTypeOK' /\ ChartTypeOK'
  BY OneInFocus, PanelsTyped, AdviceTyped, OverviewTyped, ChartTyped, Zenon
     DEF WorkspaceInv, PanelsTypeOK
<1>3. StatsInv'
  BY OneInFocus, StatsInvStep, Zenon DEF WorkspaceInv
<1>4. InboxInv'
  BY OneInFocus, InboxInvStep, InboxInvStays, Zenon DEF WorkspaceInv
<1>5. OpinionsInv'
  BY OneInFocus, OpinionsInvStep, OpinionsInvStays, Zenon DEF WorkspaceInv
<1> QED
  BY <1>1, <1>2, <1>3, <1>4, <1>5, Zenon DEF WorkspaceInv, PanelsTypeOK

LEMMA WorkspaceInvAlways == WorkspaceSpec => []WorkspaceInv
BY WorkspaceInvInit, WorkspaceInvStep, PTL DEF WorkspaceSpec

\* What the panels load, what the documents of the statistics hold and what the chat's
\* inbox and the reviews' rail remember is typed, whatever is counted, posted or opened.
THEOREM WorkspaceIsTyped == WorkspaceSpec => []WorkspaceTypeOK
<1>1. WorkspaceInv => WorkspaceTypeOK
  BY Zenon DEF WorkspaceInv, PanelsTypeOK, WorkspaceTypeOK, StatsInv, InboxInv, OpinionsInv
<1> QED
  BY <1>1, WorkspaceInvAlways, PTL

\* Whatever the figures, the cut of a tab's insights leaves in it what decides, and of
\* each type the best (resolve() and limitInsights(), workspace-insights.service.ts).
THEOREM CutsAreSafe == WorkspaceSpec => []CutKeepsWhatMatters
<1>1. WorkspaceInv => CutKeepsWhatMatters
  BY CutKeepsInv DEF WorkspaceInv, PanelsTypeOK
<1> QED
  BY <1>1, WorkspaceInvAlways, PTL

\* Whatever is counted of a viewer and of the market, the two funnels, the signals made of
\* them and the category he is told to begin with or to return to agree with each other.
THEOREM PanelsTellOneStory == WorkspaceSpec => []PanelsAgree
<1>1. WorkspaceInv => PanelsAgree
  BY PanelsAgreeInv DEF WorkspaceInv, PanelsTypeOK, PanelsAgree
<1> QED
  BY <1>1, WorkspaceInvAlways, PTL

\* The funnels of market, providers and customers, the counts of contracts by status and
\* by time and those of activity and of waiting requests agree, for any requests,
\* providers and order of the handlers.
THEOREM PanelsCountTheSame == WorkspaceSpec => []StatisticsAddUp
<1>1. StatsInv => StatisticsAddUp
  <2>1. StatsInv /\ era > 1 => \A from \in 2..era : from \in Nat \ {0}
    BY DEF StatsInv, StatsTypeOK, Eras
  <2> QED
    BY <2>1, FunnelCountsAgree, CustomersAgree, TimesAgree, ActivityAgrees, OffersCover,
       WaitingAgrees DEF StatisticsAddUp
<1>2. WorkspaceInv => StatisticsAddUp
  BY <1>1, Zenon DEF WorkspaceInv
<1> QED
  BY <1>2, WorkspaceInvAlways, PTL

\* Whatever was opened, read, written and however many days passed: the chat's rail
\* agrees with the inbox, and the reviews' rail and their pages with the reviews.
THEOREM RailsAgreeWithLists == WorkspaceSpec => []RailsAgree
<1>1. WorkspaceInv => RailsAgree
  BY InboxAgreesInv, ReviewsAgreeInv, Zenon DEF WorkspaceInv, RailsAgree
<1> QED
  BY <1>1, WorkspaceInvAlways, PTL

\* Whatever is asked for, and whatever there is to be listed: the directory and the
\* boards agree with their summaries, their pages and their queues, a whole postal code
\* finds its cities first, and what the requests say of their cities is where they are
\* shown (workspace-requests.service.ts, workspace-market-requests.service.ts,
\* workspace-providers.service.ts, cities.service.ts).
THEOREM ListsTellTheSame == WorkspaceSpec => []ListsAgree
<1>1. WorkspaceInv => ListsAgree
  BY ListsAgreeInv DEF WorkspaceInv, PanelsTypeOK
<1> QED
  BY <1>1, WorkspaceInvAlways, PTL

\* Whatever was posted and whatever a person has under way: the platform's chart, the
\* viewer's series, the feed and the six months of the private overview add up to what
\* was loaded and agree with the figures beside them (analytics.service.ts,
\* workspace-statistics.service.ts, workspace-private-overview.service.ts).
THEOREM SeriesAreWhole == WorkspaceSpec => []SeriesAddUp
<1>1. WorkspaceInv => SeriesAddUp
  BY OverviewAddsUpInv, ActivityAddsUpInv DEF WorkspaceInv, PanelsTypeOK, SeriesAddUp
<1> QED
  BY <1>1, WorkspaceInvAlways, PTL

\* Whatever was posted where and whatever a provider charges: the places of the cities,
\* a provider's rivals and the place among them go with the scores they are made of,
\* the balance shown agrees with the market's, and the price recommended is that of the
\* category, in steps of five (workspace-statistics-market.support.ts,
\* workspace-statistics.service.ts, workspace-statistics-decision.support.ts).
THEOREM MarketTellsOneStory == WorkspaceSpec => []MarketAgrees
<1>1. WorkspaceInv => MarketAgrees
  BY MarketAgreesInv DEF WorkspaceInv, PanelsTypeOK
<1> QED
  BY <1>1, WorkspaceInvAlways, PTL
=============================================================================
