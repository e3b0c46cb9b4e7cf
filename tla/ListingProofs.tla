----------------------------- MODULE ListingProofs -----------------------------
(***************************************************************************)
(* What sorting by one key after another, cutting and paging do to a list, *)
(* and what it makes of the workspace: the directory, the boards, the      *)
(* cities found and their activity, the series and figures of the charts,  *)
(* the ranking of the cities and the price that is recommended.            *)
(***************************************************************************)
EXTENDS Workspace, FiniteSetTheorems, WellFoundedInduction, TLAPS

-----------------------------------------------------------------------------
(* Lists sorted by one key after another, and cut. *)

\* The least of some numbers.
LEMMA LeastNumber ==
  ASSUME NEW T, T \subseteq Nat, T # {}
  PROVE  \E n \in T : \A m \in T : n <= m
<1>1. PICK n \in T : \A m \in T : ~(<<m, n>> \in OpToRel(<, Nat))
  BY NatLessThanWellFounded, WFMin
<1>2. ASSUME NEW m \in T PROVE n <= m
  <2>1. ~(m < n)
    BY <1>1 DEF OpToRel
  <2> QED
    BY <2>1
<1> QED
  BY <1>2

\* Numbers and their negatives.
LEMMA NegatedIs == \A n \in Int : -n \in Int
OBVIOUS

LEMMA NegativeIs == \A n \in Nat : -n \in Int
OBVIOUS

LEMMA NegationReverses == \A a, b \in Int : b < a => -a < -b
OBVIOUS

\* Keys of one length.
IsKey(s, L) == s \in Seq(Int) /\ Len(s) = L

LEMMA PrecedesIrreflexive ==
  ASSUME NEW L \in Nat, NEW s, IsKey(s, L) PROVE ~Precedes(s, s)
BY DEF Precedes, IsKey

LEMMA PrecedesTransitive ==
  ASSUME NEW L \in Nat, NEW s, NEW t, NEW u, IsKey(s, L), IsKey(t, L), IsKey(u, L),
         Precedes(s, t), Precedes(t, u)
  PROVE  Precedes(s, u)
<1>1. PICK i \in 1..L : s[i] < t[i] /\ \A k \in 1..(i - 1) : s[k] = t[k]
  BY DEF Precedes, IsKey
<1>2. PICK j \in 1..L : t[j] < u[j] /\ \A k \in 1..(j - 1) : t[k] = u[k]
  BY DEF Precedes, IsKey
<1> DEFINE m == IF i < j THEN i ELSE j
<1>3. /\ DOMAIN s = 1..L /\ m \in 1..L
      /\ s[i] \in Int /\ s[j] \in Int /\ t[i] \in Int /\ t[j] \in Int
      /\ u[i] \in Int /\ u[j] \in Int
  BY DEF IsKey
<1>4. s[m] < u[m]
  <2>1. CASE i < j
    <3>1. t[i] = u[i]
      BY <2>1, <1>2
    <3> QED
      BY <2>1, <3>1, <1>1, <1>3
  <2>2. CASE j < i
    <3>1. s[j] = t[j]
      BY <2>2, <1>1
    <3> QED
      BY <2>2, <3>1, <1>2, <1>3
  <2>3. CASE i = j
    BY <2>3, <1>1, <1>2, <1>3
  <2> QED
    BY <2>1, <2>2, <2>3
<1>5. ASSUME NEW k \in 1..(m - 1) PROVE s[k] = u[k]
  <2>1. k \in 1..(i - 1) /\ k \in 1..(j - 1)
    OBVIOUS
  <2> QED
    BY <2>1, <1>1, <1>2
<1> QED
  BY <1>3, <1>4, <1>5 DEF Precedes

LEMMA PrecedesTotal ==
  ASSUME NEW L \in Nat, NEW s, NEW t, IsKey(s, L), IsKey(t, L), s # t
  PROVE  Precedes(s, t) \/ Precedes(t, s)
<1> DEFINE D == {i \in 1..L : s[i] # t[i]}
<1>1. /\ DOMAIN s = 1..L /\ DOMAIN t = 1..L
      /\ \A i \in 1..L : s[i] \in Int /\ t[i] \in Int
      /\ s = [i \in 1..L |-> s[i]] /\ t = [i \in 1..L |-> t[i]]
  BY DEF IsKey
<1>2. D # {}
  BY <1>1
<1>3. D \subseteq Nat
  OBVIOUS
<1>4. PICK i \in D : \A m \in D : i <= m
  <2> HIDE DEF D
  <2> QED
    BY <1>2, <1>3, LeastNumber
<1>5. i \in 1..L /\ s[i] # t[i]
  OBVIOUS
<1>6. \A k \in 1..(i - 1) : s[k] = t[k]
  BY <1>4, <1>5
<1>7. s[i] < t[i] \/ t[i] < s[i]
  BY <1>1, <1>5
<1> QED
  BY <1>1, <1>5, <1>6, <1>7 DEF Precedes

LEMMA PrecedesOne ==
  ASSUME NEW a \in Int, NEW b \in Int
  PROVE  Precedes(<<a>>, <<b>>) <=> a < b
<1> DEFINE s == <<a>>
           t == <<b>>
<1>1. DOMAIN s = {1} /\ s[1] = a /\ t[1] = b /\ 1..(1 - 1) = {}
  OBVIOUS
<1> HIDE DEF s, t
<1>2. Precedes(s, t) <=> s[1] < t[1]
  BY <1>1 DEF Precedes
<1> QED
  BY <1>1, <1>2 DEF s, t

LEMMA PrecedesTwo ==
  ASSUME NEW a \in Int, NEW b \in Int, NEW c \in Int, NEW d \in Int
  PROVE  Precedes(<<a, b>>, <<c, d>>) <=> (a < c \/ (a = c /\ b < d))
<1> DEFINE s == <<a, b>>
           t == <<c, d>>
<1>1. DOMAIN s = {1, 2}
  OBVIOUS
<1>2. s[1] = a /\ s[2] = b /\ t[1] = c /\ t[2] = d
  OBVIOUS
<1> HIDE DEF s, t
<1>3. Precedes(s, t) <=> \E i \in {1, 2} : s[i] < t[i] /\ \A k \in 1..(i - 1) : s[k] = t[k]
  BY <1>1 DEF Precedes
<1>4. 1..(1 - 1) = {} /\ 1..(2 - 1) = {1}
  OBVIOUS
<1>5. Precedes(s, t) <=> (s[1] < t[1] \/ (s[1] = t[1] /\ s[2] < t[2]))
  <2>1. (\E i \in {1, 2} : s[i] < t[i] /\ \A k \in 1..(i - 1) : s[k] = t[k])
          <=> (\/ s[1] < t[1] /\ \A k \in 1..(1 - 1) : s[k] = t[k]
               \/ s[2] < t[2] /\ \A k \in 1..(2 - 1) : s[k] = t[k])
    BY Zenon
  <2>2. (\A k \in 1..(1 - 1) : s[k] = t[k]) /\ ((\A k \in 1..(2 - 1) : s[k] = t[k]) <=> s[1] = t[1])
    BY <1>4
  <2> QED
    BY <1>3, <2>1, <2>2
<1> QED
  BY <1>2, <1>5 DEF s, t

\* What sorting does: a list of all members, each once, in the order of their keys, at
\* the place that the number of members before it gives.
IsSorted(list, S, key) ==
  /\ list \in Seq(S) /\ Len(list) = Cardinality(S)
  /\ \A x \in S : \E k \in 1..Len(list) : list[k] = x
  /\ \A i, j \in 1..Len(list) : list[i] = list[j] => i = j
  /\ \A i, j \in 1..Len(list) : i < j => Precedes(key[list[i]], key[list[j]])
  /\ \A k \in 1..Len(list) :
       Cardinality({y \in S : Precedes(key[y], key[list[k]])}) = k - 1

LEMMA InOrderSorts ==
  ASSUME NEW S, IsFiniteSet(S), NEW L \in Nat, NEW key,
         \A x \in S : IsKey(key[x], L),
         \A x, y \in S : key[x] = key[y] => x = y
  PROVE  IsSorted(InOrder(S, key), S, key)
<1> DEFINE n == Cardinality(S)
           Below(x) == {y \in S : Precedes(key[y], key[x])}
           before == [x \in S |-> Cardinality(Below(x))]
           list == [k \in 1..n |-> CHOOSE x \in S : before[x] = k - 1]
<1>1. n \in Nat
  BY FS_CardinalityType
<1>2. ASSUME NEW x \in S
      PROVE  IsFiniteSet(Below(x)) /\ before[x] \in Nat /\ before[x] < n
  <2>1. Below(x) \in SUBSET S
    OBVIOUS
  <2>2. x \notin Below(x)
    BY PrecedesIrreflexive
  <2>3. IsFiniteSet(Below(x)) /\ Cardinality(Below(x)) <= n /\ Cardinality(Below(x)) # n
    <3> HIDE DEF Below
    <3> QED
      BY <2>1, <2>2, FS_Subset
  <2>4. Cardinality(Below(x)) \in Nat
    BY <2>3, FS_CardinalityType
  <2> QED
    BY <2>3, <2>4, <1>1
<1>3. ASSUME NEW x \in S, NEW y \in S, Precedes(key[x], key[y])
      PROVE  before[x] < before[y]
  <2>1. Below(x) \in SUBSET Below(y)
    BY <1>3, PrecedesTransitive
  <2>2. x \in Below(y) /\ x \notin Below(x)
    BY <1>3, PrecedesIrreflexive
  <2>3. Cardinality(Below(x)) <= Cardinality(Below(y)) /\ Cardinality(Below(x)) # Cardinality(Below(y))
    <3>1. IsFiniteSet(Below(y))
      BY <1>2
    <3> HIDE DEF Below
    <3> QED
      BY <2>1, <2>2, <3>1, FS_Subset
  <2>4. before[x] \in Nat /\ before[y] \in Nat
    BY <1>2
  <2> HIDE DEF Below
  <2> QED
    BY <2>3, <2>4
<1> HIDE DEF before, Below
<1>4. \A x, y \in S : x # y => Precedes(key[x], key[y]) \/ Precedes(key[y], key[x])
  BY PrecedesTotal
<1>5. \A x, y \in S : before[x] = before[y] => x = y
  BY <1>2, <1>3, <1>4
<1>6. before \in Injection(S, 0..(n - 1))
  <2>1. before \in [S -> 0..(n - 1)]
    BY <1>1, <1>2 DEF before
  <2> QED
    BY <2>1, <1>5 DEF Injection, IsInjective
<1>7. IsFiniteSet(0..(n - 1)) /\ Cardinality(0..(n - 1)) = n
  <2> HIDE DEF n
  <2>1. 0 \in Int /\ n - 1 \in Int
    BY <1>1
  <2>2. /\ IsFiniteSet(0..(n - 1))
        /\ Cardinality(0..(n - 1)) = IF 0 > n - 1 THEN 0 ELSE (n - 1) - 0 + 1
    BY <2>1, FS_Interval
  <2> QED
    BY <1>1, <2>2
<1>8. before \in Surjection(S, 0..(n - 1))
  BY <1>6, <1>7, FS_Injection
<1>9. \A k \in 1..n : \E x \in S : before[x] = k - 1
  <2> TAKE k \in 1..n
  <2>1. k - 1 \in 0..(n - 1)
    BY <1>1
  <2> QED
    BY <1>8, <2>1 DEF Surjection
<1>10. \A k \in 1..n : list[k] \in S /\ before[list[k]] = k - 1
  BY <1>9
<1>20. list = [k \in 1..n |-> list[k]]
  OBVIOUS
<1> HIDE DEF list
<1>11. list \in Seq(S) /\ Len(list) = n
  <2>1. list \in [1..n -> S]
    BY <1>10, <1>20
  <2> QED
    BY <1>1, <2>1
<1>12. \A x \in S : \E k \in 1..n : list[k] = x
  <2> TAKE x \in S
  <2>1. before[x] + 1 \in 1..n /\ (before[x] + 1) - 1 = before[x]
    BY <1>1, <1>2
  <2>2. list[before[x] + 1] = x
    BY <1>5, <1>10, <2>1
  <2> QED
    BY <2>1, <2>2
<1>13. ASSUME NEW i \in 1..n, NEW j \in 1..n, i < j
       PROVE  Precedes(key[list[i]], key[list[j]])
  <2>1. before[list[i]] = i - 1 /\ before[list[j]] = j - 1 /\ list[i] \in S /\ list[j] \in S
    BY <1>10
  <2>2. ~(before[list[j]] < before[list[i]]) /\ before[list[i]] # before[list[j]]
    BY <2>1, <1>1, <1>13
  <2> QED
    BY <1>3, <1>4, <2>1, <2>2
<1>14. InOrder(S, key) = list
  BY SMT DEF InOrder, list, before, Below
<1>15. IsSorted(list, S, key)
  <2>1. \A i, j \in 1..Len(list) : i < j => Precedes(key[list[i]], key[list[j]])
    BY <1>11, <1>13
  <2>2. \A x \in S : \E k \in 1..Len(list) : list[k] = x
    BY <1>11, <1>12
  <2>3. \A i, j \in 1..Len(list) : list[i] = list[j] => i = j
    <3> SUFFICES ASSUME NEW i \in 1..n, NEW j \in 1..n, list[i] = list[j] PROVE i = j
      BY <1>11
    <3>1. i - 1 = j - 1
      BY <1>10
    <3> QED
      BY <3>1, <1>1
  <2>4. ASSUME NEW k \in 1..Len(list)
        PROVE  Cardinality({y \in S : Precedes(key[y], key[list[k]])}) = k - 1
    <3>1. list[k] \in S /\ before[list[k]] = k - 1
      BY <1>10, <1>11
    <3> QED
      BY <3>1 DEF before, Below
  <2> QED
    BY <1>11, <2>1, <2>2, <2>3, <2>4 DEF IsSorted
<1> QED
  BY <1>14, <1>15

Stretch(list, a, b) == {list[k] : k \in (a + 1)..b}

\* A stretch of a list that holds nothing twice has as many members as places.
LEMMA PlacesCount ==
  ASSUME NEW list, NEW a \in Nat, NEW b \in Nat, a <= b,
         \A i, j \in (a + 1)..b : list[i] = list[j] => i = j
  PROVE  IsFiniteSet(Stretch(list, a, b)) /\ Cardinality(Stretch(list, a, b)) = b - a
<1> DEFINE T == {list[k] : k \in (a + 1)..b}
           f == [k \in (a + 1)..b |-> list[k]]
<1>3. f \in Surjection((a + 1)..b, T)
  BY DEF Surjection
<1>4. f \in Injection((a + 1)..b, T)
  BY DEF Injection, IsInjective
<1>5. IsFiniteSet((a + 1)..b) /\ Cardinality((a + 1)..b) = b - a
  <2>1. a + 1 \in Int /\ b \in Int
    OBVIOUS
  <2>2. /\ IsFiniteSet((a + 1)..b)
        /\ Cardinality((a + 1)..b) = IF a + 1 > b THEN 0 ELSE b - (a + 1) + 1
    BY <2>1, FS_Interval
  <2> QED
    BY <2>2
<1> HIDE DEF T, f
<1>6. IsFiniteSet(T) /\ Cardinality(T) = Cardinality((a + 1)..b)
  BY <1>3, <1>4, <1>5, FS_Surjection
<1> QED
  BY <1>5, <1>6 DEF T, Stretch

LEMMA StretchCount ==
  ASSUME NEW S, NEW key, NEW list, IsSorted(list, S, key),
         NEW a \in Nat, NEW b \in Nat, a <= b, b <= Len(list)
  PROVE  IsFiniteSet(Stretch(list, a, b)) /\ Cardinality(Stretch(list, a, b)) = b - a
<1>1. Len(list) \in Nat /\ \A k \in (a + 1)..b : k \in 1..Len(list)
  BY DEF IsSorted
<1>2. \A i, j \in (a + 1)..b : list[i] = list[j] => i = j
  BY <1>1 DEF IsSorted
<1> QED
  BY <1>2, PlacesCount

\* The first of a list.
LEMMA FirstOfIs ==
  ASSUME NEW S, NEW list \in Seq(S), NEW n \in Nat
  PROVE  /\ FirstOf(list, n) \in Seq(S)
         /\ Len(FirstOf(list, n)) = AtMost(n, Len(list)) /\ AtMost(n, Len(list)) \in Nat
         /\ AtMost(n, Len(list)) <= Len(list) /\ AtMost(n, Len(list)) <= n
         /\ \A k \in 1..AtMost(n, Len(list)) : FirstOf(list, n)[k] = list[k]
<1> DEFINE m == AtMost(n, Len(list))
<1>1. m \in Nat /\ m <= Len(list) /\ m <= n
  BY DEF AtMost
<1> HIDE DEF m
<1>2. SubSeq(list, 1, m) \in Seq(S) /\ Len(SubSeq(list, 1, m)) = m
      /\ \A k \in 1..m : SubSeq(list, 1, m)[k] = list[k]
  BY <1>1
<1> QED
  BY <1>1, <1>2 DEF FirstOf, m

\* Numbers that with each hold the smaller ones are the first so many.
LEMMA FirstSoMany ==
  ASSUME NEW n \in Nat, NEW U, U \subseteq 1..n,
         \A i, j \in 1..n : i < j /\ j \in U => i \in U
  PROVE  \E u \in 0..n : U = 1..u
<1> DEFINE T == {k \in 1..(n + 1) : k \notin U}
<1>1. T \subseteq Nat /\ n + 1 \in T
  OBVIOUS
<1>2. PICK e \in T : \A m \in T : e <= m
  <2> HIDE DEF T
  <2> QED
    BY <1>1, LeastNumber
<1>3. e \in 1..(n + 1) /\ e \notin U /\ \A m \in 1..(n + 1) : m < e => m \in U
  BY <1>2
<1>4. ASSUME NEW m \in U PROVE m < e
  <2>1. m \in 1..n /\ m # e
    BY <1>3
  <2>2. ~(e < m)
    <3> SUFFICES ASSUME e < m PROVE FALSE
      OBVIOUS
    <3>1. e \in 1..n
      BY <1>3, <2>1
    <3> QED
      BY <1>3, <2>1, <3>1
  <2> QED
    BY <1>3, <2>1, <2>2
<1>5. e - 1 \in 0..n
  BY <1>3
<1>6. ASSUME NEW m \in U PROVE m \in 1..(e - 1)
  BY <1>3, <1>4
<1>7. ASSUME NEW m \in 1..(e - 1) PROVE m \in U
  BY <1>3
<1>8. U = 1..(e - 1)
  BY <1>6, <1>7
<1> QED
  BY <1>5, <1>8

\* A number between multiples of another.
LEMMA QuotientBetween ==
  ASSUME NEW x \in Nat, NEW y \in Nat \ {0}, NEW q \in Nat
  PROVE  /\ x < y * (q + 1) => x \div y <= q
         /\ y * q <= x => q <= x \div y
<1>1. x \div y \in Nat /\ y * (x \div y) <= x /\ x < y * (x \div y) + y
  OBVIOUS
<1> DEFINE d == x \div y
<1> HIDE DEF d
<1>2. d \in Nat /\ y * d <= x /\ x < y * d + y
  BY <1>1 DEF d
<1>3. ASSUME q + 1 <= d PROVE y * (q + 1) <= y * d
  BY <1>2, <1>3
<1>4. ASSUME d + 1 <= q PROVE y * d + y <= y * q
  BY <1>2, <1>4
<1>5. x < y * (q + 1) => d <= q
  BY <1>2, <1>3
<1>6. y * q <= x => q <= d
  BY <1>2, <1>4
<1> QED
  BY <1>5, <1>6 DEF d

-----------------------------------------------------------------------------
(* Keys put together, and pages. *)

Joined(s, t) == s \o t

LEMMA KeyOf ==
  ASSUME NEW L \in Nat, NEW M \in Nat, NEW s, NEW t, IsKey(s, L), IsKey(t, M)
  PROVE  /\ IsKey(Joined(s, t), L + M)
         /\ \A i \in 1..L : Joined(s, t)[i] = s[i]
         /\ \A i \in 1..M : Joined(s, t)[L + i] = t[i]
<1>1. s \in Seq(Int) /\ t \in Seq(Int) /\ Len(s) = L /\ Len(t) = M
  BY DEF IsKey
<1>2. Joined(s, t) \in Seq(Int) /\ Len(Joined(s, t)) = L + M
  BY <1>1 DEF Joined
<1>3. \A i \in 1..L : Joined(s, t)[i] = s[i]
  BY <1>1 DEF Joined
<1>4. ASSUME NEW i \in 1..M PROVE Joined(s, t)[L + i] = t[i]
  BY <1>1, SMTT(30) DEF Joined
<1> QED
  BY <1>2, <1>3, <1>4 DEF IsKey

\* What comes first has no larger first key.
LEMMA PrecedesFirst ==
  ASSUME NEW L \in Nat \ {0}, NEW s, NEW t, IsKey(s, L), IsKey(t, L), Precedes(s, t)
  PROVE  s[1] <= t[1]
<1>1. PICK i \in 1..L : s[i] < t[i] /\ \A k \in 1..(i - 1) : s[k] = t[k]
  BY DEF Precedes, IsKey
<1>2. 1 \in 1..L /\ s[1] \in Int /\ t[1] \in Int
  BY DEF IsKey
<1>3. CASE i = 1
  BY <1>1, <1>2, <1>3
<1>4. CASE i > 1
  <2>1. s[1] = t[1]
    BY <1>1, <1>4
  <2> QED
    BY <1>2, <2>1
<1> QED
  BY <1>3, <1>4

LEMMA FirstPrecedes ==
  ASSUME NEW L \in Nat \ {0}, NEW s, NEW t, IsKey(s, L), IsKey(t, L), s[1] < t[1]
  PROVE  Precedes(s, t)
<1>1. 1 \in DOMAIN s /\ 1..(1 - 1) = {}
  BY DEF IsKey
<1> QED
  BY <1>1 DEF Precedes

\* The page of a place.
LEMMA PageOfPlace ==
  ASSUME NEW i \in Nat \ {0}, NEW limit \in Nat \ {0}, NEW n \in Nat \ {0}
  PROVE  /\ (n - 1) * limit \in Nat
         /\ ((n - 1) * limit + 1 <= i /\ i <= (n - 1) * limit + limit) <=> n = (i - 1) \div limit + 1
<1> DEFINE x == i - 1
           d == x \div limit
           m == n - 1
<1>1. x \in Nat /\ m \in Nat
  OBVIOUS
<1>2. d \in Nat /\ limit * d <= x /\ x < limit * d + limit
  BY <1>1
<1>3. m * limit \in Nat /\ m * limit = limit * m
  BY <1>1
<1> HIDE DEF d
<1>4. ASSUME m < d PROVE limit * m + limit <= limit * d
  BY <1>1, <1>2, <1>4
<1>5. ASSUME d < m PROVE limit * d + limit <= limit * m
  BY <1>1, <1>2, <1>5
<1>6. limit * m \in Nat /\ limit * d \in Nat
  BY <1>1, <1>2
<1> DEFINE a == limit * m
           b == limit * d
<1>7. /\ a \in Nat /\ b \in Nat /\ b <= x /\ x < b + limit
      /\ m < d => a + limit <= b
      /\ d < m => b + limit <= a
      /\ m = d => a = b
  BY <1>2, <1>4, <1>5, <1>6
<1> HIDE DEF a, b, m, x
<1>8. (a + 1 <= x + 1 /\ x + 1 <= a + limit) <=> m = d
  BY <1>1, <1>2, <1>7
<1>9. i = x + 1 /\ n = m + 1
  BY DEF x, m
<1>10. n = d + 1 <=> m = d
  BY <1>1, <1>2, <1>9
<1>11. (m * limit = a) /\ n - 1 = m
  BY <1>3, <1>9, <1>1 DEF a
<1> QED
  BY <1>3, <1>8, <1>9, <1>10, <1>11 DEF d, x
LEMMA PagesAre ==
  ASSUME NEW len \in Nat, NEW limit \in Nat \ {0}, NEW list, Len(list) = len
  PROVE  /\ PageCount(list, limit) \in Nat \ {0}
         /\ \A i \in 1..len : (i - 1) \div limit + 1 \in 1..PageCount(list, limit)
         /\ \A n \in 1..PageCount(list, limit) :
              len > 0 => (n - 1) * limit \in Nat /\ (n - 1) * limit + 1 <= len
<1> DEFINE x == len + limit - 1
           c == x \div limit
           pages == PageCount(list, limit)
<1>1. x \in Nat /\ c \in Nat /\ limit * c <= x /\ x < limit * c + limit
  OBVIOUS
<1>2. pages = IF 1 < c THEN c ELSE 1
  BY DEF PageCount, AtLeast
<1>3. pages \in Nat \ {0} /\ c <= pages
  <2> HIDE DEF c
  <2> QED
    BY <1>1, <1>2
<1>4. ASSUME NEW i \in 1..len PROVE (i - 1) \div limit + 1 \in 1..pages
  <2>1. i - 1 \in Nat /\ (i - 1) + limit < x + 1
    OBVIOUS
  <2>2. (i - 1) \div limit \in Nat
    BY <2>1
  <2>3. CASE c = 0
    BY <1>1, <2>1, <2>3
  <2>4. CASE c > 0
    <3>1. PICK e \in Nat : c = e + 1
      <4>1. c - 1 \in Nat /\ c = (c - 1) + 1
        BY <1>1, <2>4
      <4> QED
        BY <4>1
    <3>2. limit * (e + 1) = limit * c
      BY <3>1
    <3>3. i - 1 < limit * (e + 1)
      <4> DEFINE b == limit * c
      <4>1. b \in Nat /\ x < b + limit
        BY <1>1
      <4> HIDE DEF b, c
      <4>2. i - 1 < b
        BY <2>1, <4>1
      <4> QED
        BY <3>2, <4>2 DEF b
    <3>4. (i - 1) \div limit <= e
      BY <2>1, <3>3, QuotientBetween
    <3> HIDE DEF c, pages
    <3> QED
      BY <1>3, <2>2, <3>1, <3>4
  <2> HIDE DEF c
  <2> QED
    BY <1>1, <2>3, <2>4
<1>5. ASSUME NEW n \in 1..pages, len > 0
      PROVE  (n - 1) * limit \in Nat /\ (n - 1) * limit + 1 <= len
  <2>1. PICK m \in Nat : n = m + 1
    <3>1. n - 1 \in Nat /\ n = (n - 1) + 1
      BY <1>3, <1>5
    <3> QED
      BY <3>1
  <2>2. m * limit \in Nat /\ m * limit = limit * m /\ n - 1 = m
    BY <2>1
  <2>3. CASE m = 0
    BY <1>5, <2>2, <2>3
  <2>4. CASE m > 0
    <3>1. n <= c
      <4> HIDE DEF c
      <4> QED
        BY <1>1, <1>2, <1>5, <2>1, <2>4
    <3> HIDE DEF c
    <3>2. limit * n <= limit * c
      BY <1>1, <1>3, <1>5, <3>1
    <3>3. limit * n = limit * m + limit
      BY <2>1
    <3> DEFINE a == limit * m
               b == limit * c
    <3>4. a + limit <= b /\ a \in Nat /\ b \in Nat /\ b <= x
      BY <1>1, <2>2, <3>2, <3>3
    <3> HIDE DEF a, b
    <3>5. a + 1 <= len
      BY <3>4
    <3> QED
      BY <2>2, <3>5 DEF a
  <2> QED
    BY <2>3, <2>4
<1> QED
  BY <1>3, <1>4, <1>5

\* Turning the pages of a sorted list shows each member once, and no page is empty.
LEMMA PagesShowOnce ==
  ASSUME NEW S, NEW key, NEW list, IsSorted(list, S, key), NEW limit \in Nat \ {0}
  PROVE  /\ \A x \in S :
              Cardinality({n \in 1..PageCount(list, limit) : x \in PageItems(list, limit, n)}) = 1
         /\ S # {} => \A n \in 1..PageCount(list, limit) : PageItems(list, limit, n) # {}
<1> DEFINE len == Len(list)
<1>1. len \in Nat
  BY DEF IsSorted
<1>2. \A n \in Nat \ {0} : (n - 1) * limit \in Nat
  BY PageOfPlace
<1>3. ASSUME NEW i \in 1..len, NEW n \in Nat \ {0}
      PROVE  list[i] \in PageItems(list, limit, n) <=> n = (i - 1) \div limit + 1
  <2> DEFINE start == (n - 1) * limit
  <2>1. start \in Nat
    BY <1>2
  <2>2. (start + 1 <= i /\ i <= start + limit) <=> n = (i - 1) \div limit + 1
    BY <1>1, PageOfPlace
  <2>3. PageItems(list, limit, n) = {list[k] : k \in (start + 1)..AtMost(start + limit, len)}
    BY DEF PageItems
  <2> HIDE DEF start
  <2>4. \A k \in (start + 1)..AtMost(start + limit, len) :
          k \in 1..len /\ start + 1 <= k /\ k <= start + limit
    BY <1>1, <2>1 DEF AtMost
  <2>5. start + 1 <= i /\ i <= start + limit => i \in (start + 1)..AtMost(start + limit, len)
    BY <1>1, <2>1 DEF AtMost
  <2>6. \A k \in 1..len : list[k] = list[i] => k = i
    BY DEF IsSorted
  <2> HIDE DEF len
  <2>7. list[i] \in PageItems(list, limit, n) <=> (start + 1 <= i /\ i <= start + limit)
    BY <2>3, <2>4, <2>5, <2>6
  <2> QED
    BY <2>2, <2>7
<1>4. /\ PageCount(list, limit) \in Nat \ {0}
      /\ \A i \in 1..len : (i - 1) \div limit + 1 \in 1..PageCount(list, limit)
      /\ \A n \in 1..PageCount(list, limit) :
           len > 0 => (n - 1) * limit \in Nat /\ (n - 1) * limit + 1 <= len
  BY <1>1, PagesAre
<1>5. ASSUME NEW x \in S
      PROVE  Cardinality({n \in 1..PageCount(list, limit) : x \in PageItems(list, limit, n)}) = 1
  <2>1. PICK i \in 1..len : list[i] = x
    BY DEF IsSorted
  <2> DEFINE at == (i - 1) \div limit + 1
             T == {n \in 1..PageCount(list, limit) : x \in PageItems(list, limit, n)}
  <2>2. at \in 1..PageCount(list, limit)
    BY <1>4
  <2>3. \A n \in 1..PageCount(list, limit) : x \in PageItems(list, limit, n) <=> n = at
    BY <1>3, <1>4, <2>1
  <2> HIDE DEF at
  <2>4. T = {at}
    BY <2>2, <2>3
  <2> HIDE DEF T
  <2>5. Cardinality(T) = 1
    BY <2>4, FS_Singleton
  <2> QED
    BY <2>5 DEF T
<1>6. ASSUME S # {}, NEW n \in 1..PageCount(list, limit)
      PROVE  PageItems(list, limit, n) # {}
  <2>1. len > 0
    <3>1. PICK i \in 1..len : list[i] \in S
      BY <1>6 DEF IsSorted
    <3> QED
      BY <1>1
  <2> DEFINE start == (n - 1) * limit
  <2>2. start \in Nat /\ start + 1 <= len
    BY <1>4, <2>1
  <2> HIDE DEF start, len
  <2>3. start + 1 \in (start + 1)..AtMost(start + limit, len)
    BY <1>1, <2>2 DEF AtMost
  <2>4. list[start + 1] \in PageItems(list, limit, n)
    BY <2>3 DEF PageItems, start, len
  <2> QED
    BY <2>4
<1> QED
  BY <1>5, <1>6

-----------------------------------------------------------------------------
(* The directory of providers. *)

LEMMA ProfileTyped ==
  ASSUME NEW p \in ProfileIds
  PROVE  /\ Profiles[p].rating \in Nat /\ Profiles[p].reviews \in Nat /\ Profiles[p].jobs \in Nat
         /\ Profiles[p].updated \in Nat /\ PriceOf(p) \in Nat /\ p \in Nat
         /\ IsAvailable(p) \in BOOLEAN
<1>1. Profiles[p].price # Unpriced => Profiles[p].price \in Nat
  BY DirectoryAssumption DEF ProfileIds
<1> QED
  BY <1>1, DirectoryAssumption DEF ProfileIds, PriceOf, IsAvailable

LEMMA FourKeys ==
  ASSUME NEW a \in Int, NEW b \in Int, NEW c \in Int, NEW d \in Int
  PROVE  IsKey(<<a, b, c, d>>, 4) /\ <<a, b, c, d>>[1] = a
BY DEF IsKey

LEMMA FiveKeys ==
  ASSUME NEW a \in Int, NEW b \in Int, NEW c \in Int, NEW d \in Int, NEW e \in Int
  PROVE  IsKey(<<a, b, c, d, e>>, 5) /\ <<a, b, c, d, e>>[5] = e
BY DEF IsKey

\* The five keys of the database, the last of which tells any two apart.
LEMMA DatabaseKeyIs ==
  ASSUME NEW p \in ProfileIds
  PROVE  IsKey(DatabaseKey[p], 5) /\ DatabaseKey[p][5] = p
<1>1. DatabaseKey[p] = <<-Profiles[p].rating, -Profiles[p].reviews, -Profiles[p].jobs,
                         -Profiles[p].updated, p>>
  BY DEF DatabaseKey
<1>2. /\ -Profiles[p].rating \in Int /\ -Profiles[p].reviews \in Int /\ -Profiles[p].jobs \in Int
      /\ -Profiles[p].updated \in Int /\ p \in Int
  <2>1. p \in Int
    BY ProfileTyped
  <2> QED
    BY <2>1, ProfileTyped, NegativeIs, Zenon
<1>3. PICK a \in Int, b \in Int, c \in Int, d \in Int, e \in Int :
        DatabaseKey[p] = <<a, b, c, d, e>> /\ e = p
  BY <1>1, <1>2, Zenon
<1>4. IsKey(<<a, b, c, d, e>>, 5) /\ <<a, b, c, d, e>>[5] = e
  BY FiveKeys
<1> QED
  BY <1>3, <1>4, Zenon

\* Four keys before those of the database.
LEMMA LongKey ==
  ASSUME NEW p \in ProfileIds, NEW a \in Int, NEW b \in Int, NEW c \in Int, NEW d \in Int
  PROVE  LET s == Joined(<<a, b, c, d>>, DatabaseKey[p]) IN IsKey(s, 9) /\ s[1] = a /\ s[9] = p
<1> DEFINE t == <<a, b, c, d>>
           s == Joined(t, DatabaseKey[p])
<1>1. IsKey(t, 4) /\ t[1] = a
  BY FourKeys, Zenon
<1>2. IsKey(DatabaseKey[p], 5) /\ DatabaseKey[p][5] = p
  BY DatabaseKeyIs
<1>3. PICK m \in Nat, n \in Nat : m = 4 /\ n = 5
  OBVIOUS
<1> HIDE DEF t
<1>5. /\ IsKey(s, m + n)
      /\ \A i \in 1..m : s[i] = t[i]
      /\ \A i \in 1..n : s[m + i] = DatabaseKey[p][i]
  <2>1. IsKey(t, m) /\ IsKey(DatabaseKey[p], n)
    BY <1>1, <1>2, <1>3
  <2> QED
    BY <2>1, KeyOf
<1> HIDE DEF s
<1>6. m + n = 9 /\ 1 \in 1..m /\ n \in 1..n
  BY <1>3
<1>7. s[1] = t[1] /\ s[m + n] = DatabaseKey[p][n]
  BY <1>5, <1>6
<1>8. IsKey(s, 9) /\ s[1] = a /\ s[9] = p
  BY <1>1, <1>2, <1>3, <1>5, <1>6, <1>7
<1> QED
  BY <1>8 DEF s, t

LEMMA SelectedAre ==
  ASSUME NEW q \in DirectoryQueries
  PROVE  /\ BaseMatch(q) \subseteq ProfileIds /\ IsFiniteSet(BaseMatch(q))
         /\ Candidates(q) \subseteq BaseMatch(q) /\ IsFiniteSet(Candidates(q))
<1>1. q.there \subseteq ProfileIds
  BY DirectoryAssumption DEF DirectoryQueries, ProfileIds
<1>2. IsFiniteSet(ProfileIds)
  BY DirectoryAssumption, FS_Interval DEF ProfileIds
<1>3. BaseMatch(q) \subseteq q.there /\ Candidates(q) \subseteq BaseMatch(q)
  BY DEF BaseMatch, Candidates
<1> QED
  BY <1>1, <1>2, <1>3, FS_Subset

LEMMA ListIsSorted ==
  ASSUME NEW q \in DirectoryQueries
  PROVE  \E key : IsSorted(ListOf(q), BaseMatch(q), key)
<1> DEFINE S == BaseMatch(q)
           key == SortKey(q.sort)
<1>1. S \subseteq ProfileIds /\ IsFiniteSet(S)
  BY SelectedAre
<1>2. ASSUME NEW p \in ProfileIds
      PROVE  IsKey(key[p], 9) /\ key[p][9] = p
  <2> DEFINE P == Profiles[p]
  <2>1. P.updated \in Nat /\ P.rating \in Nat /\ P.reviews \in Nat /\ PriceOf(p) \in Nat
    BY ProfileTyped
  <2> DEFINE s == CASE q.sort = "date_asc" -> <<P.updated, -P.rating, -P.reviews, 0>>
                    [] q.sort = "price_asc" -> <<PriceOf(p), -P.rating, -P.reviews, -P.updated>>
                    [] q.sort = "price_desc" -> <<-PriceOf(p), -P.rating, -P.reviews, -P.updated>>
                    [] OTHER -> <<-P.updated, -P.rating, -P.reviews, 0>>
  <2>2. key[p] = Joined(s, DatabaseKey[p])
    BY Zenon DEF SortKey, Joined
  <2>3. PICK u \in Int, r \in Int, v \in Int, w \in Int :
          /\ u = -P.updated /\ r = -P.rating /\ v = -P.reviews /\ w = -PriceOf(p)
    BY <2>1, NegativeIs, Zenon
  <2> HIDE DEF P
  <2>4. s = <<P.updated, r, v, 0>> \/ s = <<PriceOf(p), r, v, u>> \/ s = <<w, r, v, u>>
          \/ s = <<u, r, v, 0>>
    BY <2>3
  <2>5. \E a, b, c, d \in Int : s = <<a, b, c, d>>
    BY <2>1, <2>3, <2>4
  <2>6. PICK a \in Int, b \in Int, c \in Int, d \in Int : s = <<a, b, c, d>>
    BY <2>5
  <2> HIDE DEF s
  <2>7. key[p] = Joined(<<a, b, c, d>>, DatabaseKey[p])
    BY <2>2, <2>6
  <2> HIDE DEF key
  <2>8. LET z == Joined(<<a, b, c, d>>, DatabaseKey[p]) IN IsKey(z, 9) /\ z[1] = a /\ z[9] = p
    BY LongKey
  <2> QED
    BY <2>7, <2>8, Zenon
<1> HIDE DEF key
<1>3. \A p \in S : IsKey(key[p], 9)
  BY <1>1, <1>2
<1>4. \A x, y \in S : key[x] = key[y] => x = y
  BY <1>1, <1>2
<1>5. IsSorted(InOrder(S, key), S, key)
  BY <1>1, <1>3, <1>4, InOrderSorts
<1> QED
  BY <1>5 DEF ListOf, key

\* What claim a provider has on the viewer's attention.
LEMMA ClaimIs ==
  ASSUME NEW p \in ProfileIds, NEW period
  PROVE  LET claim == ActionPriority(p, period) IN
         /\ claim \in Nat
         /\ claim > 0 <=> (IsAvailable(p) \/ IsTopRated(p) \/ IsTrusted(p) \/ IsRecent(p, period))
         /\ claim >= 82 <=> IsAvailable(p)
<1>1. IsAvailable(p) \in BOOLEAN /\ IsTopRated(p) \in BOOLEAN /\ IsTrusted(p) \in BOOLEAN
      /\ IsRecent(p, period) \in BOOLEAN
  BY ProfileTyped DEF IsTopRated, IsTrusted, IsRecent
<1>2. CASE IsAvailable(p)
  BY <1>1, <1>2 DEF ActionPriority
<1>3. CASE ~IsAvailable(p)
  <2>1. CASE IsTopRated(p)
    BY <1>1, <1>3, <2>1 DEF ActionPriority
  <2>2. CASE ~IsTopRated(p)
    BY <1>1, <1>3, <2>2 DEF ActionPriority
  <2> QED
    BY <2>1, <2>2
<1> QED
  BY <1>2, <1>3

LEMMA QueueIsSorted ==
  ASSUME NEW q \in DirectoryQueries
  PROVE  LET list == InOrder(Candidates(q), QueueKey(q)) IN
         /\ \E key : IsSorted(list, Candidates(q), key)
         /\ \A i, j \in 1..Len(list) : i < j =>
              ActionPriority(list[j], q.period) <= ActionPriority(list[i], q.period)
<1> DEFINE C == Candidates(q)
           key == QueueKey(q)
           list == InOrder(C, key)
<1>1. C \subseteq ProfileIds /\ IsFiniteSet(C)
  BY SelectedAre
<1>2. ASSUME NEW p \in C
      PROVE  IsKey(key[p], 9) /\ key[p][9] = p /\ key[p][1] = -ActionPriority(p, q.period)
  <2>1. key[p] = Joined(<<-ActionPriority(p, q.period), -Profiles[p].rating,
                          -Profiles[p].reviews, -Profiles[p].updated>>, DatabaseKey[p])
    BY Zenon DEF QueueKey, Joined
  <2>2. p \in ProfileIds
    BY <1>1
  <2>3. ActionPriority(p, q.period) \in Nat
    BY <2>2, ClaimIs
  <2>4. PICK a \in Int, b \in Int, c \in Int, d \in Int :
          /\ a = -ActionPriority(p, q.period) /\ b = -Profiles[p].rating
          /\ c = -Profiles[p].reviews /\ d = -Profiles[p].updated
    BY <2>2, <2>3, ProfileTyped, NegativeIs, Zenon
  <2>5. key[p] = Joined(<<a, b, c, d>>, DatabaseKey[p])
    BY <2>1, <2>4
  <2> HIDE DEF key
  <2>6. LET z == Joined(<<a, b, c, d>>, DatabaseKey[p]) IN IsKey(z, 9) /\ z[1] = a /\ z[9] = p
    BY <2>2, LongKey
  <2> QED
    BY <2>4, <2>5, <2>6, Zenon
<1> HIDE DEF key
<1>3. IsSorted(list, C, key)
  <2>1. \A p \in C : IsKey(key[p], 9)
    BY <1>2
  <2>2. \A x, y \in C : key[x] = key[y] => x = y
    BY <1>2
  <2> QED
    BY <1>1, <2>1, <2>2, InOrderSorts
<1> HIDE DEF list
<1>4. ASSUME NEW i \in 1..Len(list), NEW j \in 1..Len(list), i < j
      PROVE  ActionPriority(list[j], q.period) <= ActionPriority(list[i], q.period)
  <2>1. list[i] \in C /\ list[j] \in C /\ Precedes(key[list[i]], key[list[j]])
    BY <1>3, <1>4 DEF IsSorted
  <2>2. key[list[i]][1] <= key[list[j]][1]
    BY <1>2, <2>1, PrecedesFirst
  <2>3. -ActionPriority(list[i], q.period) <= -ActionPriority(list[j], q.period)
    BY <1>2, <2>1, <2>2
  <2>4. ActionPriority(list[i], q.period) \in Nat /\ ActionPriority(list[j], q.period) \in Nat
    BY <1>1, <2>1, ClaimIs
  <2> QED
    BY <2>3, <2>4
<1> QED
  BY <1>3, <1>4 DEF list, key

\* The page that is shown is one of the pages.
LEMMA PageIsShown ==
  ASSUME NEW q \in DirectoryQueries, NEW list, PageCount(list, LimitOf(q)) \in Nat \ {0}
  PROVE  /\ LimitOf(q) \in Nat \ {0}
         /\ PageShown(q, list) \in 1..PageCount(list, LimitOf(q))
<1>1. q.limit \in Int /\ q.page \in Int
  BY DirectoryAssumption DEF DirectoryQueries
<1>2. LimitOf(q) \in Nat \ {0}
  BY <1>1 DEF LimitOf, AtMost, AtLeast
<1> DEFINE c == PageCount(list, LimitOf(q))
<1>3. PageShown(q, list) = AtMost(AtLeast(1, q.page), c)
  BY DEF PageShown
<1> HIDE DEF c
<1>4. c \in Nat \ {0} => PageShown(q, list) \in 1..c
  BY <1>1, <1>3 DEF AtMost, AtLeast
<1> QED
  BY <1>2, <1>4 DEF c

\* The queue holds the first of those with a claim, and leaves out no better one.
LEMMA QueueHolds ==
  ASSUME NEW q \in DirectoryQueries
  PROVE  /\ Queue(q) \in Seq(Candidates(q)) /\ MembersOf(Queue(q)) \subseteq Candidates(q)
         /\ Queue(q) = <<>> <=> Candidates(q) = {}
         /\ \A p \in Candidates(q) \ MembersOf(Queue(q)), x \in MembersOf(Queue(q)) :
              ActionPriority(p, q.period) <= ActionPriority(x, q.period)
         /\ \A p \in Candidates(q) :
              Queue(q) # <<>> /\ ActionPriority(p, q.period) <= ActionPriority(Queue(q)[1], q.period)
<1> DEFINE C == Candidates(q)
           list == InOrder(C, QueueKey(q))
           len == Len(list)
           m == AtMost(QueueLength, len)
           queue == Queue(q)
           claim(p) == ActionPriority(p, q.period)
<1>1. PICK key : IsSorted(list, C, key)
  BY QueueIsSorted
<1>2. \A i, j \in 1..len : i < j => claim(list[j]) <= claim(list[i])
  BY QueueIsSorted
<1>3. list \in Seq(C) /\ len \in Nat /\ (\A p \in C : \E k \in 1..len : list[k] = p)
      /\ \A k \in 1..len : list[k] \in C
  BY <1>1 DEF IsSorted
<1>4. queue = FirstOf(list, QueueLength)
  BY DEF Queue
<1>0. QueueLength \in Nat \ {0}
  BY DEF QueueLength
<1> HIDE DEF list, C, queue
<1>5. /\ queue \in Seq(C) /\ Len(queue) = m /\ m \in Nat /\ m <= len
      /\ \A k \in 1..m : queue[k] = list[k]
  BY <1>0, <1>3, <1>4, FirstOfIs
<1>7. len > 0 => m > 0
  BY <1>0, <1>3 DEF AtMost
<1> HIDE DEF len, m, claim
<1>8. MembersOf(queue) = {list[k] : k \in 1..m}
  <2>1. DOMAIN queue = 1..m
    BY <1>5
  <2> QED
    BY <1>5, <2>1 DEF MembersOf
<1>9. MembersOf(queue) \subseteq C
  BY <1>3, <1>5, <1>8
<1>10. queue = <<>> <=> m = 0
  BY <1>5
<1>11. C = {} <=> len = 0
  BY <1>3
<1>12. ASSUME NEW p \in C \ MembersOf(queue), NEW x \in MembersOf(queue)
       PROVE  claim(p) <= claim(x)
  <2>1. PICK i \in 1..m : x = list[i]
    BY <1>8
  <2>2. PICK j \in 1..len : p = list[j]
    BY <1>3
  <2>3. ~(j <= m)
    BY <1>5, <1>8, <2>2
  <2>4. i \in 1..len /\ i < j
    BY <1>3, <1>5, <2>3
  <2> QED
    BY <1>2, <2>1, <2>2, <2>4
<1>13. ASSUME NEW p \in C
       PROVE  queue # <<>> /\ claim(p) <= claim(queue[1])
  <2>1. PICK j \in 1..len : p = list[j]
    BY <1>3
  <2>2. 1 \in 1..m /\ 1 \in 1..len /\ m > 0
    BY <1>3, <1>5, <1>7, <2>1
  <2>3. queue[1] = list[1]
    BY <1>5, <2>2
  <2>4. claim(p) \in Nat
    <3>1. p \in ProfileIds
      BY SelectedAre DEF C
    <3> QED
      BY <3>1, ClaimIs DEF claim
  <2>5. CASE j = 1
    BY <1>10, <2>1, <2>2, <2>3, <2>4, <2>5
  <2>6. CASE j # 1
    <3>1. 1 < j
      BY <1>3, <2>6
    <3> QED
      BY <1>2, <1>10, <2>1, <2>2, <2>3, <3>1
  <2> QED
    BY <2>5, <2>6
<1> QED
  BY <1>7, <1>9, <1>10, <1>11, <1>12, <1>13, <1>3, <1>5 DEF C, queue, claim

LEMMA DirectoryAgreesInv == DirectoryTypeOK => DirectoryAgrees
<1> SUFFICES ASSUME DirectoryTypeOK, directory # Unpriced PROVE DirectoryAgrees
  BY DEF DirectoryAgrees
<1> DEFINE q == directory
           list == ListOf(q)
           answer == Answer(q)
           queue == answer.queue
           queued == MembersOf(queue)
           cards == MembersOf(list)
           S == BaseMatch(q)
           Claim(p) == ActionPriority(p, q.period)
<1>1. q \in DirectoryQueries
  BY DEF DirectoryTypeOK
<1>2. PICK key : IsSorted(list, S, key)
  BY <1>1, ListIsSorted
<1>3. S \subseteq ProfileIds /\ IsFiniteSet(S) /\ Candidates(q) \subseteq S
  BY <1>1, SelectedAre
<1>4. cards = S
  <2>1. list \in Seq(S) /\ Len(list) \in Nat /\ \A x \in S : \E k \in 1..Len(list) : list[k] = x
    BY <1>2 DEF IsSorted
  <2> HIDE DEF list, S
  <2>2. DOMAIN list = 1..Len(list) /\ \A k \in 1..Len(list) : list[k] \in S
    BY <2>1
  <2> QED
    BY <2>1, <2>2 DEF MembersOf
<1>5. LimitOf(q) \in Nat \ {0}
  <2>1. q.limit \in Int
    BY <1>1, DirectoryAssumption DEF DirectoryQueries
  <2> QED
    BY <2>1 DEF LimitOf, AtMost, AtLeast
<1>6. PageCount(list, LimitOf(q)) \in Nat \ {0}
  <2>1. Len(list) \in Nat
    BY <1>2 DEF IsSorted
  <2> QED
    BY <1>5, <2>1, PagesAre
<1>7. /\ answer.totalPages = PageCount(list, LimitOf(q))
      /\ answer.items = PageItems(list, LimitOf(q), PageShown(q, list))
      /\ queue = Queue(q) /\ answer.summary = Summary(q)
  BY DEF Answer
<1> HIDE DEF answer, queue, list, S, q
<1>8. \A p \in S : Cardinality({n \in 1..answer.totalPages : p \in PageItems(list, LimitOf(q), n)}) = 1
  BY <1>2, <1>5, <1>7, PagesShowOnce
<1>9. cards # {} => answer.items # {}
  <2>1. PageShown(q, list) \in 1..PageCount(list, LimitOf(q))
    BY <1>1, <1>6, PageIsShown
  <2>2. S # {} => \A n \in 1..PageCount(list, LimitOf(q)) : PageItems(list, LimitOf(q), n) # {}
    BY <1>2, <1>5, PagesShowOnce
  <2> QED
    BY <1>4, <1>7, <2>1, <2>2
<1>10. \A p \in S : /\ Claim(p) \in Nat
                    /\ p \in Candidates(q) <=> Claim(p) > 0
                    /\ Claim(p) >= 82 <=> IsAvailable(p)
                    /\ Claim(p) > 0 <=> (IsAvailable(p) \/ IsTopRated(p) \/ IsTrusted(p)
                                          \/ IsRecent(p, q.period))
  <2>1. \A p \in S : p \in Candidates(q) <=> Claim(p) > 0
    BY DEF Candidates, S
  <2> QED
    BY <1>3, <2>1, ClaimIs
<1>11. queued \subseteq Candidates(q) /\ (queue = <<>> <=> Candidates(q) = {})
  BY <1>1, <1>7, QueueHolds
<1>12. \A p \in cards \ queued : \A x \in queued : Claim(p) <= Claim(x)
  <2> SUFFICES ASSUME NEW p \in S \ queued, NEW x \in queued PROVE Claim(p) <= Claim(x)
    BY <1>4
  <2>1. x \in S
    BY <1>3, <1>11
  <2>2. CASE p \in Candidates(q)
    BY <1>1, <1>7, <2>2, QueueHolds
  <2>3. CASE p \notin Candidates(q)
    BY <1>10, <2>1, <2>3
  <2> QED
    BY <2>2, <2>3
<1>13. queue = <<>> <=> \A p \in cards :
         ~(IsAvailable(p) \/ IsTopRated(p) \/ IsTrusted(p) \/ IsRecent(p, q.period))
  BY <1>3, <1>4, <1>10, <1>11
<1>14. queue # <<>> /\ answer.summary.available > 0 => IsAvailable(queue[1])
  <2> SUFFICES ASSUME queue # <<>>, answer.summary.available > 0 PROVE IsAvailable(queue[1])
    OBVIOUS
  <2> DEFINE there == {p \in S : IsAvailable(p)}
  <2>1. answer.summary.available = Cardinality(there)
    BY <1>7 DEF Summary, S
  <2>2. PICK p \in there : TRUE
    <3>1. there # {}
      <4> SUFFICES ASSUME there = {} PROVE FALSE
        OBVIOUS
      <4>1. Cardinality(there) = 0
        BY FS_EmptySet
      <4> QED
        BY <2>1, <4>1
    <3> QED
      BY <3>1
  <2>3. p \in S /\ p \in Candidates(q) /\ Claim(p) >= 82 /\ Claim(p) \in Nat
    BY <1>10, <2>2
  <2>4. Claim(p) <= Claim(queue[1])
    BY <1>1, <1>7, <2>3, QueueHolds
  <2>5. queue[1] \in queued
    <3>1. 1 \in DOMAIN queue
      <4>1. queue \in Seq(Candidates(q))
        BY <1>1, <1>7, QueueHolds
      <4> QED
        BY <4>1
    <3> QED
      BY <3>1 DEF MembersOf
  <2>6. queue[1] \in S
    BY <1>3, <1>11, <2>5
  <2> HIDE DEF Claim
  <2> QED
    BY <1>10, <2>3, <2>4, <2>6
<1>15. \A x \in queued : ActionType(x, q) \in {"contact_provider", "open_availability"} =>
         x \in cards /\ Card(x).online
  <2> SUFFICES ASSUME NEW x \in queued, ActionType(x, q) \in {"contact_provider", "open_availability"}
               PROVE  x \in cards /\ Card(x).online
    OBVIOUS
  <2>1. x \in S
    BY <1>3, <1>11
  <2>2. Claim(x) = 95 \/ Claim(x) = 82
    BY DEF ActionType
  <2>3. IsAvailable(x)
    BY <1>10, <2>1, <2>2
  <2> QED
    BY <1>4, <2>1, <2>3 DEF Card
<1>16. Cardinality({p \in cards : Card(p).verified \/ "top service" \in Card(p).badges})
         <= answer.summary.trusted
  <2> DEFINE praised == {p \in S : Card(p).verified \/ "top service" \in Card(p).badges}
             trusted == {p \in S : IsTrusted(p)}
  <2>1. answer.summary.trusted = Cardinality(trusted)
    BY <1>7 DEF Summary, S
  <2>2. ASSUME NEW p \in praised PROVE p \in trusted
    <3>1. p \in S /\ Profiles[p].reviews \in Nat /\ Profiles[p].jobs \in Nat
      BY <1>3, ProfileTyped
    <3>2. CASE Card(p).verified
      <4>1. IsVerified(p)
        BY <3>2, Zenon DEF Card
      <4> HIDE DEF praised
      <4> QED
        BY <3>1, <4>1 DEF IsVerified, IsTrusted
    <3>3. CASE "top service" \in Card(p).badges
      <4>1. "top service" \in Badges(p)
        BY <3>3 DEF Card
      <4>2. Profiles[p].reviews >= 15
        BY <4>1 DEF Badges
      <4> QED
        BY <3>1, <4>2 DEF IsTrusted
    <3> QED
      BY <3>2, <3>3
  <2>3. IsFiniteSet(trusted) /\ praised \subseteq trusted
    BY <1>3, <2>2, FS_Subset
  <2> HIDE DEF praised, trusted
  <2>4. Cardinality(praised) <= Cardinality(trusted)
    BY <2>3, FS_Subset
  <2> QED
    BY <1>4, <2>1, <2>4 DEF praised
<1> QED
  BY <1>4, <1>8, <1>9, <1>12, <1>13, <1>14, <1>15, <1>16
     DEF DirectoryAgrees, q, list, answer, queue, S

-----------------------------------------------------------------------------
(* The boards of requests: what they select and in which order. *)

LEMMA OneKey == ASSUME NEW a \in Int PROVE IsKey(<<a>>, 1) /\ <<a>>[1] = a
BY DEF IsKey

LEMMA TwoKeys ==
  ASSUME NEW a \in Int, NEW b \in Int
  PROVE  IsKey(<<a, b>>, 2) /\ <<a, b>>[1] = a /\ <<a, b>>[2] = b
BY DEF IsKey

LEMMA ThreeKeys ==
  ASSUME NEW a \in Int, NEW b \in Int, NEW c \in Int
  PROVE  IsKey(<<a, b, c>>, 3) /\ <<a, b, c>>[1] = a /\ <<a, b, c>>[3] = c
BY DEF IsKey

LEMMA LastOfFour ==
  ASSUME NEW a \in Int, NEW b \in Int, NEW c \in Int, NEW d \in Int
  PROVE  <<a, b, c, d>>[4] = d
OBVIOUS

\* Three keys before one.
LEMMA ThreeAndOne ==
  ASSUME NEW a \in Int, NEW b \in Int, NEW c \in Int, NEW d \in Int
  PROVE  LET s == Joined(<<a, b, c>>, <<d>>) IN IsKey(s, 4) /\ s[4] = d
<1> DEFINE t == <<a, b, c>>
           u == <<d>>
           s == Joined(t, u)
<1>1. IsKey(t, 3) /\ IsKey(u, 1) /\ u[1] = d
  BY ThreeKeys, OneKey
<1>2. PICK m \in Nat, n \in Nat : m = 3 /\ n = 1
  OBVIOUS
<1> HIDE DEF t, u
<1>3. IsKey(s, m + n) /\ \A i \in 1..n : s[m + i] = u[i]
  BY <1>1, <1>2, KeyOf
<1> HIDE DEF s
<1>4. m + n = 4 /\ n \in 1..n
  BY <1>2
<1>5. IsKey(s, 4) /\ s[4] = d
  BY <1>1, <1>2, <1>3, <1>4
<1> QED
  BY <1>5 DEF s, t, u

\* Two keys before two.
LEMMA TwoAndTwo ==
  ASSUME NEW a \in Int, NEW b \in Int, NEW c \in Int, NEW d \in Int
  PROVE  LET s == Joined(<<a, b>>, <<c, d>>) IN IsKey(s, 4) /\ s[4] = d
<1> DEFINE t == <<a, b>>
           u == <<c, d>>
           s == Joined(t, u)
<1>1. IsKey(t, 2) /\ IsKey(u, 2) /\ u[2] = d
  BY TwoKeys
<1>2. PICK m \in Nat : m = 2
  OBVIOUS
<1> HIDE DEF t, u
<1>3. IsKey(s, m + m) /\ \A i \in 1..m : s[m + i] = u[i]
  BY <1>1, <1>2, KeyOf
<1> HIDE DEF s
<1>4. m + m = 4 /\ m \in 1..m
  BY <1>2
<1>5. IsKey(s, 4) /\ s[4] = d
  BY <1>1, <1>2, <1>3, <1>4
<1> QED
  BY <1>5 DEF s, t, u

\* The fields of a card that orders go by.
CardTyped(c) ==
  /\ {c.priority, c.relevant, c.created, c.activity} \subseteq Nat
  /\ {c.budget, c.deadline} \subseteq Nat \union {NotSet}

LEMMA PolicySorts ==
  ASSUME NEW S, IsFiniteSet(S), NEW card, \A c \in S : CardTyped(card[c]),
         NEW sort, NEW place, \A c \in S : place[c] \in Nat,
         \A c, d \in S : place[c] = place[d] => c = d
  PROVE  \E key : IsSorted(PolicyOrder(S, card, sort, place), S, key)
<1> DEFINE First(c) ==
             CASE sort = "deadline" /\ card[c].deadline = NotSet -> <<1, 0, 0>>
               [] sort = "deadline" /\ card[c].deadline # NotSet ->
                    <<0, card[c].deadline, -card[c].activity>>
               [] sort = "newest" -> <<-card[c].created, 0, 0>>
               [] sort \in {"budget", "price_desc"} -> <<-OrElse(card[c].budget, 0), 0, 0>>
               [] sort \in {"oldest", "date_asc"} -> <<card[c].created, 0, 0>>
               [] OTHER -> <<-card[c].activity, 0, 0>>
           key == [c \in S |-> First(c) \o <<place[c]>>]
<1>1. ASSUME NEW c \in S PROVE \E a, b, d \in Int : First(c) = <<a, b, d>>
  <2>1. /\ card[c].created \in Nat /\ card[c].activity \in Nat
        /\ card[c].deadline # NotSet => card[c].deadline \in Nat
        /\ OrElse(card[c].budget, 0) \in Nat
    BY DEF CardTyped, OrElse
  <2>2. PICK u \in Int, v \in Int, w \in Int :
          u = -card[c].created /\ v = -card[c].activity /\ w = -OrElse(card[c].budget, 0)
    BY <2>1, NegativeIs, Zenon
  <2>3. \/ First(c) = <<1, 0, 0>>
        \/ First(c) = <<0, card[c].deadline, v>> /\ card[c].deadline \in Int
        \/ First(c) = <<u, 0, 0>> \/ First(c) = <<w, 0, 0>>
        \/ First(c) = <<card[c].created, 0, 0>> \/ First(c) = <<v, 0, 0>>
    BY <2>1, <2>2
  <2> HIDE DEF First
  <2> QED
    BY <2>1, <2>3
<1>2. ASSUME NEW c \in S PROVE IsKey(key[c], 4) /\ key[c][4] = place[c]
  <2>1. key[c] = Joined(First(c), <<place[c]>>)
    BY Zenon DEF Joined
  <2> HIDE DEF First, key
  <2>2. PICK a \in Int, b \in Int, d \in Int : First(c) = <<a, b, d>>
    BY <1>1
  <2>3. LET s == Joined(<<a, b, d>>, <<place[c]>>) IN IsKey(s, 4) /\ s[4] = place[c]
    <3>1. place[c] \in Int
      OBVIOUS
    <3> QED
      BY <3>1, ThreeAndOne
  <2>4. key[c] = Joined(<<a, b, d>>, <<place[c]>>)
    BY <2>1, <2>2, Zenon
  <2> QED
    BY <2>3, <2>4, Zenon
<1>3. PolicyOrder(S, card, sort, place) = InOrder(S, key)
  BY Zenon DEF PolicyOrder
<1> HIDE DEF First, key
<1>4. \A c \in S : IsKey(key[c], 4)
  BY <1>2
<1>5. \A c, d \in S : key[c] = key[d] => c = d
  BY <1>2
<1>6. IsSorted(InOrder(S, key), S, key)
  BY <1>4, <1>5, InOrderSorts
<1> QED
  BY <1>3, <1>6

LEMMA DocTyped ==
  ASSUME NEW d \in DOMAIN Documents
  PROVE  /\ d \in Nat /\ Doc(d).created \in Nat /\ Doc(d).updated \in Nat
         /\ Doc(d).publishedAt # NotSet => Doc(d).publishedAt \in Nat
         /\ Doc(d).matchedAt # NotSet => Doc(d).matchedAt \in Nat
         /\ NullFirst(Doc(d).price) \in Int /\ NullFirst(Doc(d).preferred) \in Int
         /\ NullFirst(Doc(d).matchedAt) \in Int
         /\ {Doc(d).price, Doc(d).preferred} \subseteq Nat \union {NotSet}
BY BoardAssumption DEF Doc, NullFirst, OrElse

LEMMA DatabaseSorts ==
  ASSUME NEW S, S \subseteq DOMAIN Documents, IsFiniteSet(S), NEW sort
  PROVE  \E key : IsSorted(DatabaseOrder(S, sort), S, key)
<1> DEFINE First(d) ==
             CASE sort \in {"date_asc", "oldest"} -> <<Doc(d).created, 0>>
               [] sort = "deadline" -> <<NullFirst(Doc(d).preferred), -Doc(d).updated>>
               [] sort = "price_asc" -> <<NullFirst(Doc(d).price), -Doc(d).updated>>
               [] sort \in {"newest", "date_desc", "activity"} -> <<-Doc(d).updated, 0>>
               [] OTHER -> <<-NullFirst(Doc(d).price), -Doc(d).updated>>
           key == [d \in S |-> First(d) \o <<-Doc(d).created, d>>]
<1>1. ASSUME NEW d \in S PROVE \E a, b \in Int : First(d) = <<a, b>>
  <2>1. /\ Doc(d).created \in Int /\ Doc(d).updated \in Int /\ NullFirst(Doc(d).price) \in Int
        /\ NullFirst(Doc(d).preferred) \in Int
    BY DocTyped
  <2>2. PICK u \in Int, v \in Int : u = -Doc(d).updated /\ v = -NullFirst(Doc(d).price)
    BY <2>1, NegatedIs, Zenon
  <2>3. \/ First(d) = <<Doc(d).created, 0>> \/ First(d) = <<NullFirst(Doc(d).preferred), u>>
        \/ First(d) = <<NullFirst(Doc(d).price), u>> \/ First(d) = <<u, 0>>
        \/ First(d) = <<v, u>>
    BY <2>1, <2>2
  <2> HIDE DEF First
  <2> QED
    BY <2>1, <2>3
<1>2. ASSUME NEW d \in S PROVE IsKey(key[d], 4) /\ key[d][4] = d
  <2>1. key[d] = Joined(First(d), <<-Doc(d).created, d>>)
    BY Zenon DEF Joined
  <2> HIDE DEF First, key
  <2>2. PICK a \in Int, b \in Int : First(d) = <<a, b>>
    BY <1>1
  <2>3. PICK c \in Int, e \in Int : c = -Doc(d).created /\ e = d
    <3>1. d \in Int /\ Doc(d).created \in Int
      BY DocTyped
    <3> QED
      BY <3>1, NegatedIs, Zenon
  <2>4. LET s == Joined(<<a, b>>, <<c, e>>) IN IsKey(s, 4) /\ s[4] = e
    BY TwoAndTwo
  <2>5. key[d] = Joined(<<a, b>>, <<c, e>>)
    BY <2>1, <2>2, <2>3, Zenon
  <2> QED
    BY <2>3, <2>4, <2>5, Zenon
<1>3. DatabaseOrder(S, sort) = InOrder(S, key)
  BY Zenon DEF DatabaseOrder
<1> HIDE DEF First, key
<1>4. \A d \in S : IsKey(key[d], 4)
  BY <1>2
<1>5. \A c, d \in S : key[c] = key[d] => c = d
  BY <1>2
<1>6. IsSorted(InOrder(S, key), S, key)
  BY <1>4, <1>5, InOrderSorts
<1> QED
  BY <1>3, <1>6

\* The pages of a sorted list show each member once, and more follow until the last.
LEMMA SortedIsPaged ==
  ASSUME NEW S, NEW key, NEW list, IsSorted(list, S, key), NEW limit \in Nat \ {0}
  PROVE  PagedOnce(list, limit)
<1>1. \A c \in S : Cardinality({n \in 1..PageCount(list, limit) : c \in PageItems(list, limit, n)}) = 1
  BY PagesShowOnce
<1>2. MembersOf(list) \subseteq S /\ Len(list) \in Nat
  BY DEF IsSorted, MembersOf
<1>3. ASSUME NEW n \in 1..PageCount(list, limit)
      PROVE  MoreFollow(Len(list), limit, n) <=> PageItems(list, limit, n + 1) # {}
  <2> DEFINE start == n * limit
             len == Len(list)
  <2>1. n \in Nat /\ start \in Nat /\ ((n + 1) - 1) * limit = start
    <3>1. PageCount(list, limit) \in Nat
      BY <1>2, PagesAre
    <3>2. n \in Nat
      BY <3>1
    <3> QED
      BY <3>2
  <2>2. PageItems(list, limit, n + 1) = {list[k] : k \in (start + 1)..AtMost(start + limit, len)}
    BY <2>1 DEF PageItems
  <2>3. MoreFollow(len, limit, n) <=> start < len
    BY DEF MoreFollow
  <2> HIDE DEF start, len
  <2>4. (start + 1)..AtMost(start + limit, len) # {} <=> start < len
    <3>1. start < len => start + 1 \in (start + 1)..AtMost(start + limit, len)
      BY <1>2, <2>1 DEF AtMost, len
    <3>2. \A k \in (start + 1)..AtMost(start + limit, len) : start < len
      BY <1>2, <2>1 DEF AtMost, len
    <3> QED
      BY <3>1, <3>2
  <2> QED
    BY <2>2, <2>3, <2>4 DEF len
<1> QED
  BY <1>1, <1>2, <1>3 DEF PagedOnce

Apart(A, B) == A \cap B = {}

Together(A, B) == A \union B

\* Two sets with nothing in common, and three.
LEMMA DisjointCounts ==
  ASSUME NEW S, NEW A, NEW B, IsFiniteSet(S), A \subseteq S, B \subseteq S, Apart(A, B)
  PROVE  /\ IsFiniteSet(A) /\ IsFiniteSet(B) /\ Together(A, B) \subseteq S
         /\ Cardinality(A) \in Nat /\ Cardinality(B) \in Nat
         /\ Cardinality(Together(A, B)) = Cardinality(A) + Cardinality(B)
<1>1. IsFiniteSet(A) /\ IsFiniteSet(B) /\ Together(A, B) \subseteq S
  BY FS_Subset DEF Together
<1>2. Cardinality(A) \in Nat /\ Cardinality(B) \in Nat
  BY <1>1, FS_CardinalityType
<1>3. Cardinality(Together(A, B)) = Cardinality(A) + Cardinality(B) - Cardinality(A \cap B)
  BY <1>1, FS_Union DEF Together
<1>4. Cardinality(A \cap B) = 0
  BY FS_EmptySet DEF Apart
<1> QED
  BY <1>1, <1>2, <1>3, <1>4

LEMMA ThreeCounts ==
  ASSUME NEW S, NEW A, NEW B, NEW C, IsFiniteSet(S), A \subseteq S, B \subseteq S,
         C \subseteq S, Apart(A, B), Apart(A, C), Apart(B, C)
  PROVE  LET T == Together(Together(A, B), C) IN
         /\ Cardinality(A) \in Nat /\ Cardinality(B) \in Nat /\ Cardinality(C) \in Nat
         /\ T \subseteq S /\ Cardinality(T) = Cardinality(A) + Cardinality(B) + Cardinality(C)
<1>1. Cardinality(Together(A, B)) = Cardinality(A) + Cardinality(B) /\ Together(A, B) \subseteq S
        /\ Cardinality(A) \in Nat /\ Cardinality(B) \in Nat
  BY DisjointCounts
<1>2. Apart(Together(A, B), C)
  BY DEF Apart, Together
<1>3. Cardinality(Together(Together(A, B), C)) = Cardinality(Together(A, B)) + Cardinality(C)
        /\ Cardinality(C) \in Nat /\ Together(Together(A, B), C) \subseteq S
  BY <1>1, <1>2, DisjointCounts
<1> QED
  BY <1>1, <1>3

LEMMA SectionsAre ==
  /\ States = {"all", "attention", "execution", "completed"}
  /\ Sections["all"] = {"open", "clarifying", "active", "completed"}
  /\ Sections["attention"] = {"open", "clarifying"} /\ Sections["execution"] = {"active"}
  /\ Sections["completed"] = {"completed"}
BY DEF States, Sections

\* The summary counts the tabs, and the first is all the others together.
LEMMA SummaryAddsUp ==
  ASSUME NEW S, IsFiniteSet(S), NEW card
  PROVE  LET summary == SummaryOf(S, card) IN
         /\ \A s \in States : summary[s] = Cardinality(OfState(S, card, s))
         /\ summary.all = Cardinality(OfState(S, card, "attention"))
              + Cardinality(OfState(S, card, "execution"))
              + Cardinality(OfState(S, card, "completed"))
<1> DEFINE A == OfState(S, card, "attention")
           E == OfState(S, card, "execution")
           C == OfState(S, card, "completed")
           T == OfState(S, card, "all")
<1>1. A \subseteq S /\ E \subseteq S /\ C \subseteq S
  BY DEF OfState
<1>2. Apart(A, E) /\ Apart(A, C) /\ Apart(E, C) /\ T = Together(Together(A, E), C)
  BY SectionsAre DEF OfState, Apart, Together
<1>3. SummaryOf(S, card).all = Cardinality(T)
  BY SectionsAre DEF SummaryOf
<1>4. \A s \in States : SummaryOf(S, card)[s] = Cardinality(OfState(S, card, s))
  BY DEF SummaryOf
<1> HIDE DEF A, E, C, T
<1>8. SummaryOf(S, card).all = Cardinality(A) + Cardinality(E) + Cardinality(C)
  BY <1>1, <1>2, <1>3, ThreeCounts
<1> QED
  BY <1>4, <1>8, Zenon DEF A, E, C

-----------------------------------------------------------------------------
(* The private board. *)

LEMMA MyCardsAre ==
  ASSUME NEW q \in AnyQuery, q.scope = "my"
  PROVE  /\ q.loaded \subseteq DOMAIN MyCards /\ IsFiniteSet(q.loaded) /\ q.state \in States
         /\ \A c \in q.loaded : c \in Nat /\ CardTyped(MyCards[c])
         /\ OfRole(q.loaded, MyCards, q.role, q.period) \subseteq q.loaded
         /\ q.limit \in Int \union {NotSet}
<1>1. q \in BoardQueries("my", CardSets, {"all", "customer", "provider"})
  BY DEF AnyQuery, BoardQueries
<1>2. q.loaded \in CardSets /\ q.state \in States /\ q.limit \in BoardLimits
  BY <1>1 DEF BoardQueries
<1>3. q.loaded \subseteq DOMAIN MyCards
  BY <1>2, BoardAssumption
<1>4. IsFiniteSet(DOMAIN MyCards)
  BY BoardAssumption, FS_Interval
<1>5. IsFiniteSet(q.loaded)
  BY <1>3, <1>4, FS_Subset
<1>6. \A c \in q.loaded : c \in Nat /\ CardTyped(MyCards[c])
  BY <1>3, BoardAssumption DEF CardTyped
<1>7. q.limit \in Int \union {NotSet}
  BY <1>2, BoardAssumption
<1>8. OfRole(q.loaded, MyCards, q.role, q.period) \subseteq q.loaded
  BY DEF OfRole
<1> QED
  BY <1>2, <1>3, <1>5, <1>6, <1>7, <1>8

LEMMA MyListSorted ==
  ASSUME NEW q \in AnyQuery, q.scope = "my"
  PROVE  \E key : IsSorted(MyList(q), OfState(OfRole(q.loaded, MyCards, q.role, q.period),
                                              MyCards, q.state), key)
<1> DEFINE S == OfState(OfRole(q.loaded, MyCards, q.role, q.period), MyCards, q.state)
           place == [c \in q.loaded |-> c]
<1>1. S \subseteq q.loaded
  BY MyCardsAre DEF OfState
<1>2. IsFiniteSet(S)
  BY <1>1, MyCardsAre, FS_Subset
<1>3. (\A c \in S : CardTyped(MyCards[c]) /\ place[c] \in Nat)
      /\ \A c, d \in S : place[c] = place[d] => c = d
  BY <1>1, MyCardsAre
<1>4. MyList(q) = PolicyOrder(S, MyCards, q.sort, place)
  BY DEF MyList
<1> HIDE DEF S, place
<1>5. \E key : IsSorted(PolicyOrder(S, MyCards, q.sort, place), S, key)
  BY <1>2, <1>3, PolicySorts
<1> QED
  BY <1>4, <1>5 DEF S

\* The queue is led by the most urgent card.
LEMMA DecisionsSorted ==
  ASSUME NEW S, S \subseteq DOMAIN MyCards, IsFiniteSet(S), NEW c \in MembersOf(DecisionQueue(S, MyCards))
  PROVE  MyCards[c].priority <= MyCards[Recommended(S, MyCards)].priority
<1> DEFINE T == {d \in S : MyCards[d].priority > 0}
           key == [d \in S |-> <<-MyCards[d].priority, -MyCards[d].relevant, -MyCards[d].created, d>>]
           queue == InOrder(T, key)
<1>1. T \subseteq S /\ IsFiniteSet(T)
  BY FS_Subset
<1>2. ASSUME NEW d \in S
      PROVE  /\ MyCards[d].priority \in Nat /\ IsKey(key[d], 4)
             /\ key[d][1] = -MyCards[d].priority /\ key[d][4] = d
  <2>1. /\ MyCards[d].priority \in Nat /\ MyCards[d].relevant \in Nat /\ MyCards[d].created \in Nat
        /\ d \in Nat
    BY BoardAssumption
  <2>2. PICK u \in Int, v \in Int, w \in Int, e \in Int :
          /\ u = -MyCards[d].priority /\ v = -MyCards[d].relevant /\ w = -MyCards[d].created
          /\ e = d
    <3>1. d \in Int
      BY <2>1
    <3> QED
      BY <2>1, <3>1, NegativeIs, Zenon
  <2>3. key[d] = <<u, v, w, e>>
    BY <2>2, Zenon
  <2>4. IsKey(<<u, v, w, e>>, 4) /\ <<u, v, w, e>>[1] = u /\ <<u, v, w, e>>[4] = e
    BY FourKeys, LastOfFour
  <2> HIDE DEF key
  <2> QED
    BY <2>1, <2>2, <2>3, <2>4, Zenon
<1>3. DecisionQueue(S, MyCards) = queue
  BY Zenon DEF DecisionQueue
<1> HIDE DEF key
<1>4. IsSorted(queue, T, key)
  <2>1. \A d \in T : IsKey(key[d], 4)
    BY <1>2
  <2>2. \A d, e \in T : key[d] = key[e] => d = e
    BY <1>2
  <2> QED
    BY <1>1, <2>1, <2>2, InOrderSorts
<1> HIDE DEF queue, T
<1>5. PICK i \in DOMAIN queue : queue[i] = c
  BY <1>3 DEF MembersOf
<1>6. DOMAIN queue = 1..Len(queue) /\ \A k \in 1..Len(queue) : queue[k] \in S
  BY <1>1, <1>4 DEF IsSorted
<1>7. i \in 1..Len(queue) /\ 1 \in 1..Len(queue) /\ queue # <<>>
  BY <1>4, <1>5, <1>6 DEF IsSorted
<1>8. Recommended(S, MyCards) = queue[1]
  BY <1>3, <1>7 DEF Recommended
<1>9. CASE i = 1
  <2>1. MyCards[c].priority \in Nat /\ queue[1] = c
    BY <1>2, <1>5, <1>6, <1>7, <1>9
  <2> QED
    BY <1>8, <2>1
<1>10. CASE i # 1
  <2>1. 1 < i
    BY <1>7, <1>10
  <2>2. Precedes(key[queue[1]], key[queue[i]])
    BY <1>4, <1>7, <2>1 DEF IsSorted
  <2>3. key[queue[1]][1] <= key[queue[i]][1]
    BY <1>2, <1>6, <1>7, <2>2, PrecedesFirst
  <2>4. -MyCards[queue[1]].priority <= -MyCards[queue[i]].priority
    BY <1>2, <1>6, <1>7, <2>3
  <2>5. MyCards[queue[1]].priority \in Nat /\ MyCards[queue[i]].priority \in Nat
    BY <1>2, <1>6, <1>7
  <2> QED
    BY <1>5, <1>8, <2>4, <2>5
<1> QED
  BY <1>9, <1>10

\* What is counted by action asks for one.
LEMMA ActionsCounted ==
  ASSUME NEW S, S \subseteq DOMAIN MyCards, IsFiniteSet(S)
  PROVE  LET deciding == DecisionSummary(S, MyCards) IN
         deciding.newOffers + deciding.confirmCompletion + deciding.overdue <= deciding.total
<1> DEFINE Of(action) == {c \in S : MyCards[c].action \in {action}}
           A == Of("review_offers")
           B == Of("confirm_completion")
           C == Of("overdue_followup")
           T == {c \in S : MyCards[c].priority > 0}
           deciding == DecisionSummary(S, MyCards)
<1>1. /\ deciding.newOffers = Cardinality(A) /\ deciding.confirmCompletion = Cardinality(B)
      /\ deciding.overdue = Cardinality(C) /\ deciding.total = Cardinality(T)
  BY DEF DecisionSummary, CountActions
<1>2. A \subseteq T /\ B \subseteq T /\ C \subseteq T /\ Apart(A, B) /\ Apart(A, C)
        /\ Apart(B, C)
  BY BoardAssumption DEF Apart
<1>3. IsFiniteSet(T)
  BY FS_Subset
<1> HIDE DEF A, B, C, T, deciding
<1>4. PICK U : U = Together(Together(A, B), C)
  OBVIOUS
<1>5. /\ Cardinality(A) \in Nat /\ Cardinality(B) \in Nat /\ Cardinality(C) \in Nat
      /\ U \subseteq T /\ Cardinality(U) = Cardinality(A) + Cardinality(B) + Cardinality(C)
  BY <1>2, <1>3, <1>4, ThreeCounts
<1>7. Cardinality(U) <= Cardinality(T)
  BY <1>3, <1>5, FS_Subset
<1>8. Cardinality(A) + Cardinality(B) + Cardinality(C) <= Cardinality(T)
  BY <1>5, <1>7
<1> QED
  BY <1>1, <1>8 DEF deciding

\* The side panel has a card if there is one.
LEMMA FocusThere ==
  ASSUME NEW S, S \subseteq DOMAIN MyCards, IsFiniteSet(S), DecisionSummary(S, MyCards).total > 0
  PROVE  FocusOf(S, MyCards) # NotSet
<1> DEFINE key == [c \in S |-> <<-Weight(MyCards[c]), -MyCards[c].activity, c>>]
           list == InOrder(S, key)
<1>1. S # {}
  <2> SUFFICES ASSUME S = {} PROVE FALSE
    OBVIOUS
  <2>1. {c \in S : MyCards[c].priority > 0} = {}
    OBVIOUS
  <2>2. DecisionSummary(S, MyCards).total = 0
    BY <2>1, FS_EmptySet DEF DecisionSummary
  <2> QED
    BY <2>2
<1>2. ASSUME NEW c \in S PROVE IsKey(key[c], 3) /\ key[c][3] = c
  <2>1. MyCards[c].activity \in Nat /\ c \in Nat
    BY BoardAssumption
  <2>2. Weight(MyCards[c]) \in Nat
    <3> DEFINE s == CASE MyCards[c].state = "clarifying" -> 4 [] MyCards[c].state = "active" -> 3
                      [] MyCards[c].state = "open" -> 2 [] OTHER -> 1
               u == CASE MyCards[c].urgency = "high" -> 3 [] MyCards[c].urgency = "medium" -> 2
                      [] OTHER -> 1
    <3>1. s \in Nat
      OBVIOUS
    <3>2. u \in Nat
      OBVIOUS
    <3>3. Weight(MyCards[c]) = 10 * s + u
      BY DEF Weight
    <3> HIDE DEF s, u
    <3> QED
      BY <3>1, <3>2, <3>3
  <2>3. PICK a \in Int, b \in Int, e \in Int :
          a = -Weight(MyCards[c]) /\ b = -MyCards[c].activity /\ e = c
    <3>1. c \in Int
      BY <2>1
    <3> QED
      BY <2>1, <2>2, <3>1, NegativeIs, Zenon
  <2>4. key[c] = <<a, b, e>>
    BY <2>3, Zenon
  <2>5. IsKey(<<a, b, e>>, 3) /\ <<a, b, e>>[3] = e
    BY ThreeKeys
  <2> HIDE DEF key
  <2> QED
    BY <2>3, <2>4, <2>5, Zenon
<1>3. FocusOf(S, MyCards) = list[1]
  BY <1>1 DEF FocusOf
<1> HIDE DEF key
<1>4. IsSorted(list, S, key)
  <2>1. \A c \in S : IsKey(key[c], 3)
    BY <1>2
  <2>2. \A c, d \in S : key[c] = key[d] => c = d
    BY <1>2
  <2> QED
    BY <2>1, <2>2, InOrderSorts
<1> HIDE DEF list
<1>5. list[1] \in S
  <2>1. PICK k \in 1..Len(list) : TRUE
    BY <1>1, <1>4 DEF IsSorted
  <2>2. 1 \in 1..Len(list)
    BY <1>4, <2>1 DEF IsSorted
  <2> QED
    BY <1>4, <2>2 DEF IsSorted
<1> QED
  BY <1>3, <1>5, BoardAssumption

-----------------------------------------------------------------------------
(* The public board. *)

LEMMA MarketIs ==
  ASSUME NEW q \in AnyQuery, q.scope = "market"
  PROVE  /\ q.loaded \subseteq DOMAIN Documents /\ IsFiniteSet(q.loaded) /\ q.state \in States
         /\ MarketMatch(q) \subseteq q.loaded
         /\ MarketLimit(q) \in Nat \ {0}
<1>1. q \in BoardQueries("market", DocumentSets, {"all"})
  BY DEF AnyQuery, BoardQueries
<1>2. q.loaded \in DocumentSets /\ q.state \in States /\ q.limit \in BoardLimits
  BY <1>1 DEF BoardQueries
<1>3. q.loaded \subseteq DOMAIN Documents
  BY <1>2, BoardAssumption
<1>4. IsFiniteSet(DOMAIN Documents)
  BY BoardAssumption, FS_Interval
<1>5. IsFiniteSet(q.loaded)
  BY <1>3, <1>4, FS_Subset
<1>6. OrElse(q.limit, 20) \in Int
  <2> DEFINE asked == q.limit
  <2>1. asked \in Int \union {NotSet}
    BY <1>2, BoardAssumption
  <2> HIDE DEF asked
  <2>2. (IF asked = NotSet THEN 20 ELSE asked) \in Int
    BY <2>1
  <2> QED
    BY <2>2 DEF OrElse, asked
<1>7. MarketLimit(q) \in Nat \ {0}
  <2> DEFINE asked == OrElse(q.limit, 20)
  <2>1. MarketLimit(q) = AtMost(AtLeast(asked, 1), 100) /\ asked \in Int
    BY <1>6 DEF MarketLimit
  <2> HIDE DEF asked
  <2> QED
    BY <2>1 DEF AtMost, AtLeast
<1>8. MarketMatch(q) \subseteq q.loaded
  BY DEF MarketMatch
<1> QED
  BY <1>2, <1>3, <1>5, <1>7, <1>8

\* The card of a request, and what its decision comes to.
LEMMA MarketCardIs ==
  ASSUME NEW d \in DOMAIN Documents
  PROVE  /\ CardTyped(MarketCards[d])
         /\ MarketCards[d].state = MarketState(Doc(d).status)
         /\ MarketCards[d].priority > 0 <=> Doc(d).status \in {"published", "matched"}
         /\ MarketCards[d].priority >= 90 <=> Doc(d).status = "matched"
<1> DEFINE since == OrElse(Doc(d).publishedAt, Doc(d).created)
           deciding == MarketDecision(d)
           card == MarketCards[d]
<1>1. /\ Doc(d).created \in Nat /\ Doc(d).updated \in Nat
      /\ Doc(d).publishedAt # NotSet => Doc(d).publishedAt \in Nat
      /\ Doc(d).matchedAt # NotSet => Doc(d).matchedAt \in Nat
      /\ {Doc(d).price, Doc(d).preferred} \subseteq Nat \union {NotSet}
  BY DocTyped
<1>2. since \in Nat /\ OrElse(Doc(d).matchedAt, Doc(d).updated) \in Nat
  BY <1>1 DEF OrElse
<1>3. card = MarketCard(d)
  BY DEF MarketCards
<1>4. /\ card.state = MarketState(Doc(d).status)
      /\ card.priority = deciding.priority /\ card.relevant = deciding.relevant
      /\ card.created = Doc(d).created /\ card.budget = Doc(d).price
      /\ card.deadline = Doc(d).preferred
      /\ card.activity \in {OrElse(Doc(d).matchedAt, Doc(d).updated), Doc(d).updated, since}
  BY <1>3 DEF MarketCard
<1>5. DayAgo \in Int
  BY BoardAssumption DEF DayAgo
<1> HIDE DEF since
<1>6. /\ deciding.priority \in Nat /\ deciding.relevant \in Nat
      /\ deciding.priority > 0 <=> Doc(d).status \in {"published", "matched"}
      /\ deciding.priority >= 90 <=> Doc(d).status = "matched"
  <2>1. CASE Doc(d).status = "matched"
    <3>1. deciding.priority = 90 /\ deciding.relevant = OrElse(Doc(d).matchedAt, Doc(d).updated)
      BY <2>1 DEF MarketDecision
    <3> QED
      BY <1>2, <2>1, <3>1
  <2>2. CASE Doc(d).status = "published"
    <3>1. deciding.priority \in {75, 45} /\ deciding.relevant = since
      BY <1>2, <1>5, <2>2 DEF MarketDecision, since
    <3> QED
      BY <1>2, <2>2, <3>1
  <2>3. CASE Doc(d).status \notin {"matched", "published"}
    <3>1. deciding.priority = 0 /\ deciding.relevant = 0
      BY <2>3 DEF MarketDecision
    <3> QED
      BY <2>3, <3>1
  <2> QED
    BY <2>1, <2>2, <2>3
<1> HIDE DEF deciding, card
<1>7. CardTyped(card)
  BY <1>1, <1>2, <1>4, <1>6 DEF CardTyped
<1> QED
  BY <1>4, <1>6, <1>7 DEF card

\* A query by status finds the cards of the tab.
LEMMA TabsAre ==
  ASSUME NEW q \in AnyQuery, q.scope = "market", NEW s \in States
  PROVE  OfStatus(q, StateStatuses(s)) = OfState(MarketMatch(q), MarketCards, s)
<1>1. ASSUME NEW d \in MarketMatch(q)
      PROVE  Doc(d).status \in StateStatuses(s) <=> MarketCards[d].state \in Sections[s]
  <2>1. Doc(d).status \in {"published", "matched", "closed"}
    BY DEF MarketMatch
  <2>2. MarketCards[d].state = MarketState(Doc(d).status)
    <3>1. d \in DOMAIN Documents
      BY MarketIs
    <3> QED
      BY <3>1, MarketCardIs
  <2>3. CASE Doc(d).status = "published"
    BY <2>2, <2>3, SectionsAre DEF StateStatuses, MarketState
  <2>4. CASE Doc(d).status = "matched"
    BY <2>2, <2>4, SectionsAre DEF StateStatuses, MarketState
  <2>5. CASE Doc(d).status = "closed"
    BY <2>2, <2>5, SectionsAre DEF StateStatuses, MarketState
  <2> QED
    BY <2>1, <2>3, <2>4, <2>5
<1> QED
  BY <1>1 DEF OfStatus, OfState

LEMMA MarketSummaryIs ==
  ASSUME NEW q \in AnyQuery, q.scope = "market"
  PROVE  /\ MarketSummary(q) = SummaryOf(MarketMatch(q), MarketCards)
         /\ MarketSummary(q).all
              = MarketSummary(q).attention + MarketSummary(q).execution + MarketSummary(q).completed
<1>1. MarketSummary(q) = SummaryOf(MarketMatch(q), MarketCards)
  BY TabsAre DEF MarketSummary, SummaryOf
<1>2. IsFiniteSet(MarketMatch(q))
  BY MarketIs, FS_Subset
<1> DEFINE summary == SummaryOf(MarketMatch(q), MarketCards)
           count(s) == Cardinality(OfState(MarketMatch(q), MarketCards, s))
<1>3. /\ \A s \in States : summary[s] = count(s)
      /\ summary.all = count("attention") + count("execution") + count("completed")
  BY <1>2, SummaryAddsUp
<1> HIDE DEF summary, count
<1>4. summary.all = summary.attention + summary.execution + summary.completed
  BY <1>3, SectionsAre
<1> QED
  BY <1>1, <1>4 DEF summary

LEMMA MarketListSorted ==
  ASSUME NEW q \in AnyQuery, q.scope = "market"
  PROVE  \E key : IsSorted(MarketList(q), OfStatus(q, StateStatuses(q.state)), key)
<1> DEFINE S == OfStatus(q, StateStatuses(q.state))
<1>1. S \subseteq DOMAIN Documents
  BY MarketIs DEF OfStatus
<1>2. IsFiniteSet(S)
  <2>1. S \subseteq q.loaded
    BY MarketIs DEF OfStatus
  <2> QED
    BY <2>1, MarketIs, FS_Subset
<1>3. MarketList(q) = DatabaseOrder(S, q.sort)
  BY DEF MarketList
<1> HIDE DEF S
<1> QED
  BY <1>1, <1>2, <1>3, DatabaseSorts DEF S

\* The page, put through the policy, is of the tab.
LEMMA ItemsAreOfTheTab ==
  ASSUME NEW q \in AnyQuery, q.scope = "market"
  PROVE  MembersOf(MarketItems(q)) \subseteq OfStatus(q, StateStatuses(q.state))
<1> DEFINE S == OfStatus(q, StateStatuses(q.state))
           list == MarketList(q)
           page == PageItems(list, MarketLimit(q), AtLeast(q.page, 1))
           place == [d \in page |-> CHOOSE i \in DOMAIN list : list[i] = d]
           T == OfRole(page, MarketCards, "all", q.period)
<1>1. PICK order : IsSorted(list, S, order)
  BY MarketListSorted
<1>2. DOMAIN list = 1..Len(list) /\ Len(list) \in Nat /\ \A i \in 1..Len(list) : list[i] \in S
  BY <1>1 DEF IsSorted
<1>3. MarketItems(q) = PolicyOrder(T, MarketCards, q.sort, place)
  BY Zenon DEF MarketItems
<1>4. \A d \in page : \E i \in DOMAIN list : list[i] = d
  <2>1. q.page \in Int
    <3>1. q.page \in BoardPages
      BY DEF AnyQuery, BoardQueries
    <3> QED
      BY <3>1, BoardAssumption
  <2> DEFINE start == (AtLeast(q.page, 1) - 1) * MarketLimit(q)
  <2>2. start \in Nat
    <3>1. AtLeast(q.page, 1) - 1 \in Nat
      BY <2>1 DEF AtLeast
    <3> HIDE DEF AtLeast
    <3> QED
      BY <3>1, MarketIs
  <2>3. page = {list[i] : i \in (start + 1)..AtMost(start + MarketLimit(q), Len(list))}
    BY DEF PageItems
  <2> HIDE DEF start
  <2>4. \A i \in (start + 1)..AtMost(start + MarketLimit(q), Len(list)) : i \in 1..Len(list)
    BY <1>2, <2>2, MarketIs DEF AtMost
  <2> HIDE DEF list, page
  <2> QED
    BY <1>2, <2>3, <2>4
<1>5. \A d \in T : d \in page
  BY DEF OfRole
<1> HIDE DEF list, page
<1>6. \A d \in page : place[d] \in DOMAIN list /\ list[place[d]] = d
  BY <1>4
<1> HIDE DEF place
<1>7. T \subseteq S
  BY <1>2, <1>4, <1>5
<1>8. S \subseteq DOMAIN Documents /\ IsFiniteSet(T)
  <2>1. S \subseteq q.loaded
    BY MarketIs DEF OfStatus
  <2> HIDE DEF S, T
  <2>2. T \subseteq q.loaded
    BY <1>7, <2>1
  <2> QED
    BY <2>1, <2>2, MarketIs, FS_Subset
<1> HIDE DEF S, T
<1>9. \A d \in T : CardTyped(MarketCards[d])
  BY <1>7, <1>8, MarketCardIs
<1>10. \A d \in T : place[d] \in Nat
  BY <1>2, <1>5, <1>6
<1>11. \A d, e \in T : place[d] = place[e] => d = e
  BY <1>5, <1>6
<1>12. PICK key : IsSorted(PolicyOrder(T, MarketCards, q.sort, place), T, key)
  BY <1>8, <1>9, <1>10, <1>11, PolicySorts
<1>13. MembersOf(PolicyOrder(T, MarketCards, q.sort, place)) \subseteq T
  BY <1>12 DEF IsSorted, MembersOf
<1> QED
  BY <1>3, <1>7, <1>13 DEF S

\* The queries count the decisions.
LEMMA MarketDecisionsAgree ==
  ASSUME NEW q \in AnyQuery, q.scope = "market"
  PROVE  LET there == MarketMatch(q)
             asked == MarketDecisionSummary(q)
             deciding == DecisionSummary(there, MarketCards) IN
         /\ asked.total = deciding.total
         /\ asked.high = deciding.high
         /\ asked.newOffers + asked.overdue = MarketSummary(q).attention
<1> DEFINE there == MarketMatch(q)
           P == OfStatus(q, {"published"})
           M == OfStatus(q, {"matched"})
           O == OpenOverADay(q)
           N == Recent(q)
           D == {d \in there : MarketCards[d].priority > 0}
           H == {d \in there : MarketCards[d].priority >= 90}
<1>1. IsFiniteSet(there) /\ \A d \in there : d \in DOMAIN Documents
  BY MarketIs, FS_Subset
<1>2. P \subseteq there /\ M \subseteq there /\ Apart(P, M) /\ O \subseteq P /\ N \subseteq P
        /\ Apart(N, O) /\ P = Together(N, O)
  BY DEF OfStatus, OpenOverADay, Recent, Apart, Together
<1>3. \A d \in there : /\ MarketCards[d].priority > 0 <=> Doc(d).status \in {"published", "matched"}
                       /\ MarketCards[d].priority >= 90 <=> Doc(d).status = "matched"
  BY <1>1, MarketCardIs
<1>4. D = Together(P, M)
  BY <1>3 DEF OfStatus, Together
<1>5. H = M
  BY <1>3 DEF OfStatus
<1>6. MarketSummary(q).attention = Cardinality(P) /\ MarketSummary(q).execution = Cardinality(M)
  BY SectionsAre DEF MarketSummary, StateStatuses
<1>7. /\ MarketDecisionSummary(q).total = MarketSummary(q).attention + MarketSummary(q).execution
      /\ MarketDecisionSummary(q).high = MarketSummary(q).execution
      /\ MarketDecisionSummary(q).newOffers = Cardinality(N)
      /\ MarketDecisionSummary(q).overdue = Cardinality(O)
  BY DEF MarketDecisionSummary
<1>8. /\ DecisionSummary(there, MarketCards).total = Cardinality(D)
      /\ DecisionSummary(there, MarketCards).high = Cardinality(H)
  BY DEF DecisionSummary
<1> HIDE DEF there, P, M, O, N, D, H
<1>9. Cardinality(Together(P, M)) = Cardinality(P) + Cardinality(M)
  BY <1>1, <1>2, DisjointCounts
<1>10. N \subseteq there /\ O \subseteq there
  BY <1>2
<1>11. Cardinality(Together(N, O)) = Cardinality(N) + Cardinality(O)
  BY <1>1, <1>2, <1>10, DisjointCounts
<1>12. MarketDecisionSummary(q).newOffers + MarketDecisionSummary(q).overdue
         = MarketSummary(q).attention
  BY <1>2, <1>6, <1>7, <1>11
<1> QED
  BY <1>4, <1>5, <1>6, <1>7, <1>8, <1>9, <1>12 DEF there

\* The three queries of the queue.
LEMMA QueueQueries ==
  ASSUME NEW q \in AnyQuery, q.scope = "market"
  PROVE  /\ \E list, key : /\ IsSorted(list, OfStatus(q, {"matched"}), key)
                           /\ MatchedFirst(q) = FirstOf(list, QueueSize)
         /\ OverdueFirst(q) \in Seq(DOMAIN Documents)
         /\ RecentFirst(q) \in Seq(DOMAIN Documents)
<1> DEFINE M == OfStatus(q, {"matched"})
           O == OpenOverADay(q)
           N == Recent(q)
           byMatch == [d \in q.loaded |-> <<-NullFirst(Doc(d).matchedAt), -Doc(d).updated, d>>]
           oldest == [d \in q.loaded |-> <<Doc(d).created, d>>]
           latest == [d \in q.loaded |-> <<-Doc(d).created, d>>]
<1>1. M \subseteq q.loaded /\ O \subseteq q.loaded /\ N \subseteq q.loaded
  BY MarketIs DEF OfStatus, OpenOverADay, Recent
<1>2. IsFiniteSet(M) /\ IsFiniteSet(O) /\ IsFiniteSet(N)
  <2> HIDE DEF M, O, N
  <2> QED
    BY <1>1, MarketIs, FS_Subset
<1>3. ASSUME NEW d \in q.loaded
      PROVE  /\ IsKey(byMatch[d], 3) /\ byMatch[d][3] = d
             /\ IsKey(oldest[d], 2) /\ oldest[d][2] = d
             /\ IsKey(latest[d], 2) /\ latest[d][2] = d
  <2>1. d \in DOMAIN Documents
    BY MarketIs
  <2>2. /\ d \in Int /\ Doc(d).created \in Int /\ Doc(d).updated \in Int
        /\ NullFirst(Doc(d).matchedAt) \in Int
    BY <2>1, DocTyped
  <2>3. PICK a \in Int, b \in Int, c \in Int, g \in Int, e \in Int :
          /\ a = -NullFirst(Doc(d).matchedAt) /\ b = -Doc(d).updated /\ c = -Doc(d).created
          /\ g = Doc(d).created /\ e = d
    BY <2>2, NegatedIs, Zenon
  <2>4. byMatch[d] = <<a, b, e>> /\ oldest[d] = <<g, e>> /\ latest[d] = <<c, e>>
    BY <2>3, Zenon
  <2>5. IsKey(<<a, b, e>>, 3) /\ <<a, b, e>>[3] = e /\ IsKey(<<g, e>>, 2) /\ <<g, e>>[2] = e
          /\ IsKey(<<c, e>>, 2) /\ <<c, e>>[2] = e
    BY ThreeKeys, TwoKeys
  <2> HIDE DEF byMatch, oldest, latest
  <2> QED
    BY <2>3, <2>4, <2>5, Zenon
<1>4. /\ MatchedFirst(q) = FirstOf(InOrder(M, byMatch), QueueSize)
      /\ OverdueFirst(q) = FirstOf(InOrder(O, oldest), QueueSize)
      /\ RecentFirst(q) = FirstOf(InOrder(N, latest), QueueSize)
  BY Zenon DEF MatchedFirst, OverdueFirst, RecentFirst
<1> HIDE DEF byMatch, oldest, latest, M, O, N
<1>5. IsSorted(InOrder(M, byMatch), M, byMatch)
  <2>1. \A d \in M : IsKey(byMatch[d], 3)
    BY <1>1, <1>3
  <2>2. \A d, e \in M : byMatch[d] = byMatch[e] => d = e
    BY <1>1, <1>3
  <2> QED
    BY <1>2, <2>1, <2>2, InOrderSorts
<1>6. InOrder(O, oldest) \in Seq(O)
  <2>1. \A d \in O : IsKey(oldest[d], 2)
    BY <1>1, <1>3
  <2>2. \A d, e \in O : oldest[d] = oldest[e] => d = e
    BY <1>1, <1>3
  <2>3. IsSorted(InOrder(O, oldest), O, oldest)
    BY <1>2, <2>1, <2>2, InOrderSorts
  <2> QED
    BY <2>3 DEF IsSorted
<1>7. InOrder(N, latest) \in Seq(N)
  <2>1. \A d \in N : IsKey(latest[d], 2)
    BY <1>1, <1>3
  <2>2. \A d, e \in N : latest[d] = latest[e] => d = e
    BY <1>1, <1>3
  <2>3. IsSorted(InOrder(N, latest), N, latest)
    BY <1>2, <2>1, <2>2, InOrderSorts
  <2> QED
    BY <2>3 DEF IsSorted
<1>8. QueueSize \in Nat
  BY DEF QueueSize
<1>9. O \subseteq DOMAIN Documents /\ N \subseteq DOMAIN Documents
  BY <1>1, MarketIs
<1>10. OverdueFirst(q) \in Seq(O) /\ RecentFirst(q) \in Seq(N)
  BY <1>4, <1>6, <1>7, <1>8, FirstOfIs
<1> QED
  BY <1>4, <1>5, <1>9, <1>10 DEF M

\* A request that is assigned is kept out of the queue by others like it alone.
LEMMA AssignedComeFirst ==
  ASSUME NEW q \in AnyQuery, q.scope = "market", NEW d \in Queued(q),
         NEW m \in OfStatus(q, {"matched"}) \ Queued(q)
  PROVE  Doc(d).status = "matched"
<1> DEFINE M == OfStatus(q, {"matched"})
           rest == OverdueFirst(q)
           more == RecentFirst(q)
           first == MatchedFirst(q)
           all == (first \o rest) \o more
           queue == FirstOf(all, QueueSize)
<1>1. PICK list, key : IsSorted(list, M, key) /\ first = FirstOf(list, QueueSize)
  BY QueueQueries
<1>2. rest \in Seq(DOMAIN Documents) /\ more \in Seq(DOMAIN Documents)
  BY QueueQueries
<1>3. QueueSize \in Nat
  BY DEF QueueSize
<1>4. M \subseteq DOMAIN Documents /\ \A x \in M : Doc(x).status = "matched"
  BY MarketIs DEF OfStatus
<1>5. Queued(q) = MembersOf(queue)
  BY DEF Queued
<1> HIDE DEF M, rest, more, first
<1>6. list \in Seq(M) /\ Len(list) \in Nat
  BY <1>1 DEF IsSorted
<1>7. /\ first \in Seq(M) /\ Len(first) = AtMost(QueueSize, Len(list))
      /\ \A k \in 1..Len(first) : first[k] = list[k]
  BY <1>1, <1>3, <1>6, FirstOfIs
<1>8. /\ all \in Seq(DOMAIN Documents) /\ Len(all) \in Nat /\ Len(first) \in Nat
      /\ Len(all) >= Len(first)
      /\ \A k \in 1..Len(first) : all[k] = first[k]
  <2>1. first \in Seq(DOMAIN Documents)
    BY <1>4, <1>7
  <2> QED
    BY <1>2, <2>1
<1> HIDE DEF all
<1>9. /\ queue \in Seq(DOMAIN Documents) /\ Len(queue) = AtMost(QueueSize, Len(all))
      /\ \A k \in 1..Len(queue) : queue[k] = all[k]
  BY <1>3, <1>8, FirstOfIs
<1> HIDE DEF queue
<1>10. DOMAIN queue = 1..Len(queue) /\ Len(queue) \in Nat
  BY <1>9
<1>11. PICK i \in 1..Len(list) : list[i] = m
  BY <1>1 DEF IsSorted, M
<1>12. QueueSize < Len(list)
  <2> SUFFICES ASSUME Len(list) <= QueueSize PROVE FALSE
    BY <1>3, <1>6
  <2>1. Len(first) = Len(list)
    BY <1>3, <1>6, <1>7 DEF AtMost
  <2>2. i \in 1..Len(first) /\ i \in 1..Len(queue)
    BY <1>3, <1>6, <1>8, <1>9, <1>11, <2>1 DEF AtMost
  <2>3. queue[i] = m
    BY <1>7, <1>8, <1>9, <1>11, <2>2
  <2>4. m \in MembersOf(queue)
    BY <1>10, <2>2, <2>3 DEF MembersOf
  <2> QED
    BY <1>5, <2>4
<1>13. Len(first) = QueueSize /\ Len(queue) = QueueSize
  BY <1>3, <1>6, <1>7, <1>8, <1>9, <1>12 DEF AtMost
<1>14. PICK k \in 1..Len(queue) : queue[k] = d
  BY <1>5, <1>10 DEF MembersOf
<1>15. d = first[k] /\ first[k] \in M
  BY <1>7, <1>8, <1>9, <1>13, <1>14
<1> QED
  BY <1>4, <1>15

LEMMA BoardsAgreeInv == BoardTypeOK => BoardsAgree
<1> SUFFICES ASSUME BoardTypeOK, board # NotSet PROVE BoardsAgree
  BY DEF BoardsAgree
<1> DEFINE q == board
           my == OfRole(q.loaded, MyCards, q.role, q.period)
           deciding == DecisionSummary(my, MyCards)
           queue == DecisionQueue(my, MyCards)
           there == MarketMatch(q)
           summary == MarketSummary(q)
<1>1. q \in AnyQuery
  BY DEF BoardTypeOK
<1>2. ASSUME q.scope = "my"
      PROVE  /\ Len(MyList(q)) = SummaryOf(my, MyCards)[q.state]
             /\ SummaryOf(my, MyCards).all = Cardinality(OfState(my, MyCards, "attention"))
                  + Cardinality(OfState(my, MyCards, "execution"))
                  + Cardinality(OfState(my, MyCards, "completed"))
             /\ PagedOnce(MyList(q), MyLimit(q))
             /\ \A c \in MembersOf(queue) :
                  MyCards[c].priority <= MyCards[Recommended(my, MyCards)].priority
             /\ deciding.newOffers + deciding.confirmCompletion + deciding.overdue <= deciding.total
             /\ deciding.total > 0 => FocusOf(my, MyCards) # NotSet
  <2> HIDE DEF q
  <2>1. /\ q.loaded \subseteq DOMAIN MyCards /\ IsFiniteSet(q.loaded) /\ q.state \in States
        /\ my \subseteq q.loaded /\ q.limit \in Int \union {NotSet}
    BY <1>1, <1>2, MyCardsAre
  <2>2. PICK key : IsSorted(MyList(q), OfState(my, MyCards, q.state), key)
    BY <1>1, <1>2, MyListSorted
  <2> HIDE DEF my
  <2>3. my \subseteq DOMAIN MyCards /\ IsFiniteSet(my)
    BY <2>1, FS_Subset
  <2>4. /\ \A s \in States : SummaryOf(my, MyCards)[s] = Cardinality(OfState(my, MyCards, s))
        /\ SummaryOf(my, MyCards).all = Cardinality(OfState(my, MyCards, "attention"))
             + Cardinality(OfState(my, MyCards, "execution"))
             + Cardinality(OfState(my, MyCards, "completed"))
    BY <2>3, SummaryAddsUp
  <2>5. Len(MyList(q)) = Cardinality(OfState(my, MyCards, q.state)) /\ Len(MyList(q)) \in Nat
    BY <2>2 DEF IsSorted
  <2>6. MyLimit(q) \in Nat \ {0}
    <3> DEFINE asked == OrElse(q.limit, AtLeast(Len(MyList(q)), 1))
    <3>1. asked \in Int
      BY <2>1, <2>5 DEF OrElse, AtLeast
    <3>2. MyLimit(q) = AtMost(AtLeast(asked, 1), 100)
      BY DEF MyLimit
    <3> HIDE DEF asked
    <3> QED
      BY <3>1, <3>2 DEF AtMost, AtLeast
  <2>7. PagedOnce(MyList(q), MyLimit(q))
    BY <2>2, <2>6, SortedIsPaged
  <2>8. \A c \in MembersOf(queue) :
          MyCards[c].priority <= MyCards[Recommended(my, MyCards)].priority
    BY <2>3, DecisionsSorted
  <2>9. deciding.newOffers + deciding.confirmCompletion + deciding.overdue <= deciding.total
    BY <2>3, ActionsCounted
  <2>10. deciding.total > 0 => FocusOf(my, MyCards) # NotSet
    BY <2>3, FocusThere
  <2> HIDE DEF queue, deciding
  <2> QED
    BY <2>1, <2>4, <2>5, <2>7, <2>8, <2>9, <2>10
<1>3. ASSUME q.scope = "market"
      PROVE  /\ Len(MarketList(q)) = summary[q.state]
             /\ summary.all = summary.attention + summary.execution + summary.completed
             /\ summary = SummaryOf(there, MarketCards)
             /\ PagedOnce(MarketList(q), MarketLimit(q))
             /\ MembersOf(MarketItems(q)) \subseteq OfState(there, MarketCards, q.state)
             /\ MarketDecisionSummary(q).total = DecisionSummary(there, MarketCards).total
             /\ MarketDecisionSummary(q).high = DecisionSummary(there, MarketCards).high
             /\ MarketDecisionSummary(q).newOffers + MarketDecisionSummary(q).overdue
                  = summary.attention
             /\ \A d \in Queued(q) : \A m \in OfStatus(q, {"matched"}) \ Queued(q) :
                  Doc(d).status = "matched"
  <2> HIDE DEF q
  <2>1. q.state \in States /\ MarketLimit(q) \in Nat \ {0}
    BY <1>1, <1>3, MarketIs
  <2>2. PICK key : IsSorted(MarketList(q), OfStatus(q, StateStatuses(q.state)), key)
    BY <1>1, <1>3, MarketListSorted
  <2>3. Len(MarketList(q)) = summary[q.state]
    BY <2>1, <2>2 DEF IsSorted, MarketSummary
  <2>4. PagedOnce(MarketList(q), MarketLimit(q))
    BY <2>1, <2>2, SortedIsPaged
  <2>5. /\ summary = SummaryOf(there, MarketCards)
        /\ summary.all = summary.attention + summary.execution + summary.completed
    BY <1>1, <1>3, MarketSummaryIs
  <2>6. MembersOf(MarketItems(q)) \subseteq OfState(there, MarketCards, q.state)
    BY <1>1, <1>3, <2>1, ItemsAreOfTheTab, TabsAre
  <2>7. /\ MarketDecisionSummary(q).total = DecisionSummary(there, MarketCards).total
        /\ MarketDecisionSummary(q).high = DecisionSummary(there, MarketCards).high
        /\ MarketDecisionSummary(q).newOffers + MarketDecisionSummary(q).overdue
             = summary.attention
    BY <1>1, <1>3, MarketDecisionsAgree
  <2>8. \A d \in Queued(q) : \A m \in OfStatus(q, {"matched"}) \ Queued(q) : Doc(d).status = "matched"
    BY <1>1, <1>3, AssignedComeFirst
  <2> HIDE DEF summary, there
  <2> QED
    BY <2>3, <2>4, <2>5, <2>6, <2>7, <2>8
<1> HIDE DEF my, deciding, queue, there, summary
<1> QED
  BY <1>2, <1>3, Zenon DEF BoardsAgree, q, my, deciding, queue, there, summary

-----------------------------------------------------------------------------
(* The search for cities. *)

Distinct(list) == \A i, j \in 1..Len(list) : list[i] = list[j] => i = j

\* What is left of a sorted list when it is cut.
LEMMA CutIs ==
  ASSUME NEW S, IsFiniteSet(S), NEW key, NEW list, IsSorted(list, S, key), NEW n \in Nat
  PROVE  LET cut == FirstOf(list, n) IN
         /\ cut \in Seq(S) /\ Distinct(cut) /\ Len(cut) = AtMost(n, Cardinality(S))
         /\ MembersOf(cut) \subseteq S
         /\ Cardinality(S) <= n => MembersOf(cut) = S
         /\ \A k \in 1..Len(cut) : cut[k] = list[k]
<1> DEFINE cut == FirstOf(list, n)
<1>1. list \in Seq(S) /\ Len(list) = Cardinality(S) /\ Cardinality(S) \in Nat
  BY FS_CardinalityType DEF IsSorted
<1>2. /\ cut \in Seq(S) /\ Len(cut) = AtMost(n, Len(list)) /\ Len(cut) \in Nat
      /\ Len(cut) <= Len(list) /\ \A k \in 1..Len(cut) : cut[k] = list[k]
  BY <1>1, FirstOfIs
<1> HIDE DEF cut
<1>3. \A i, j \in 1..Len(cut) : cut[i] = cut[j] => i = j
  <2>1. \A i, j \in 1..Len(list) : list[i] = list[j] => i = j
    BY DEF IsSorted
  <2>2. \A i \in 1..Len(cut) : i \in 1..Len(list)
    BY <1>1, <1>2
  <2> QED
    BY <1>2, <2>1, <2>2
<1>4. MembersOf(cut) = {cut[k] : k \in 1..Len(cut)}
  BY <1>2 DEF MembersOf
<1>5. MembersOf(cut) \subseteq S
  BY <1>2, <1>4
<1>6. ASSUME Cardinality(S) <= n PROVE MembersOf(cut) = S
  <2>1. Len(cut) = Len(list)
    BY <1>1, <1>2, <1>6 DEF AtMost
  <2>2. \A x \in S : \E k \in 1..Len(list) : list[k] = x
    BY DEF IsSorted
  <2> QED
    BY <1>2, <1>4, <1>5, <2>1, <2>2
<1> QED
  BY <1>1, <1>2, <1>3, <1>5, <1>6 DEF cut, Distinct

\* Part of a list keeps what it has in its order.
LEMMA PartIs ==
  ASSUME NEW S, NEW list \in Seq(S), NEW places \in SUBSET (1..Len(list))
  PROVE  LET part == PartOf(list, places) IN
         /\ part \in Seq(S)
         /\ \A k \in 1..Len(part) : \E i \in places : part[k] = list[i]
         /\ Distinct(list) => Distinct(part)
<1> DEFINE key == [i \in places |-> <<i>>]
           at == InOrder(places, key)
           part == PartOf(list, places)
<1>1. IsFiniteSet(places)
  <2>1. IsFiniteSet(1..Len(list))
    BY FS_Interval
  <2> QED
    BY <2>1, FS_Subset
<1>2. ASSUME NEW i \in places PROVE IsKey(key[i], 1) /\ key[i][1] = i
  <2>1. i \in Int
    OBVIOUS
  <2>2. key[i] = <<i>>
    OBVIOUS
  <2> HIDE DEF key
  <2> QED
    BY <2>1, <2>2, OneKey
<1>3. part = [k \in DOMAIN at |-> list[at[k]]]
  BY DEF PartOf
<1> HIDE DEF key, part
<1>4. IsSorted(at, places, key)
  <2>1. \A i \in places : IsKey(key[i], 1)
    BY <1>2
  <2>2. \A i, j \in places : key[i] = key[j] => i = j
    BY <1>2
  <2> QED
    BY <1>1, <2>1, <2>2, InOrderSorts
<1> HIDE DEF at
<1>5. /\ DOMAIN at = 1..Len(at) /\ Len(at) \in Nat
      /\ \A k \in 1..Len(at) : at[k] \in places
      /\ \A i, j \in 1..Len(at) : at[i] = at[j] => i = j
  BY <1>4 DEF IsSorted
<1>6. \A k \in 1..Len(at) : list[at[k]] \in S
  <2>1. \A i \in 1..Len(list) : list[i] \in S
    OBVIOUS
  <2> QED
    BY <1>5, <2>1
<1>9. part = [k \in 1..Len(at) |-> list[at[k]]]
  BY <1>3, <1>5, Zenon
<1>7. part \in Seq(S) /\ Len(part) = Len(at) /\ \A k \in 1..Len(at) : part[k] = list[at[k]]
  <2> DEFINE len == Len(at)
  <2>1. len \in Nat /\ part = [k \in 1..len |-> list[at[k]]]
    BY <1>5, <1>9
  <2> HIDE DEF len
  <2>2. part \in Seq(S) /\ Len(part) = len
    BY <1>6, <2>1 DEF len
  <2> QED
    BY <2>1, <2>2 DEF len
<1>8. Distinct(list) => Distinct(part)
  <2> SUFFICES ASSUME Distinct(list), NEW i \in 1..Len(at), NEW j \in 1..Len(at), part[i] = part[j]
               PROVE  i = j
    BY <1>7 DEF Distinct
  <2>1. at[i] \in 1..Len(list) /\ at[j] \in 1..Len(list) /\ list[at[i]] = list[at[j]]
    BY <1>5, <1>7
  <2>2. at[i] = at[j]
    BY <2>1 DEF Distinct
  <2> QED
    BY <1>5, <2>2
<1> QED
  BY <1>5, <1>7, <1>8 DEF part

\* A list without repetitions has as many members as places.
LEMMA DistinctCounts ==
  ASSUME NEW S, NEW list \in Seq(S), Distinct(list)
  PROVE  Cardinality(MembersOf(list)) = Len(list)
<1> DEFINE M == MembersOf(list)
           n == Len(list)
<1>1. DOMAIN list = 1..n /\ n \in Nat
  OBVIOUS
<1>2. M = {list[k] : k \in 1..n}
  BY <1>1 DEF MembersOf
<1>3. list \in [1..n -> M]
  <2>1. \A k \in 1..n : list[k] \in M
    BY <1>2
  <2> HIDE DEF M, n
  <2>2. list = [k \in DOMAIN list |-> list[k]]
    OBVIOUS
  <2>3. list = [k \in 1..n |-> list[k]]
    BY <1>1, <2>2, Zenon DEF n
  <2> QED
    BY <2>1, <2>3
<1>4. list \in Injection(1..n, M)
  <2>1. \A i, j \in 1..n : list[i] = list[j] => i = j
    BY DEF Distinct
  <2>2. IsInjective(list)
    BY <1>1, <2>1 DEF IsInjective
  <2> QED
    BY <1>3, <2>2, Zenon DEF Injection
<1>5. list \in Surjection(1..n, M)
  BY <1>2, <1>3 DEF Surjection
<1>6. ExistsBijection(1..n, M)
  BY <1>4, <1>5 DEF Bijection, ExistsBijection
<1> QED
  BY <1>1, <1>6, FS_CountingElements

\* Two lists without repetitions and nothing in common.
LEMMA JoinedAreDistinct ==
  ASSUME NEW S, NEW s \in Seq(S), NEW t \in Seq(S), Distinct(s), Distinct(t),
         \A i \in 1..Len(s), j \in 1..Len(t) : s[i] # t[j]
  PROVE  /\ Joined(s, t) \in Seq(S) /\ Len(Joined(s, t)) = Len(s) + Len(t)
         /\ Distinct(Joined(s, t))
         /\ \A i \in 1..Len(s) : Joined(s, t)[i] = s[i]
         /\ \A i \in 1..(Len(s) + Len(t)) : i > Len(s) =>
              i - Len(s) \in 1..Len(t) /\ Joined(s, t)[i] = t[i - Len(s)]
<1> DEFINE u == Joined(s, t)
           m == Len(s)
           n == Len(t)
<1>1. /\ u \in Seq(S) /\ Len(u) = m + n /\ m \in Nat /\ n \in Nat
      /\ \A i \in 1..m : u[i] = s[i]
      /\ \A i \in 1..(m + n) : i > m => i - m \in 1..n /\ u[i] = t[i - m]
  BY DEF Joined
<1> HIDE DEF u
<1>2. ASSUME NEW i \in 1..(m + n), NEW j \in 1..(m + n), u[i] = u[j]
      PROVE  i = j
  <2>1. CASE i <= m /\ j <= m
    BY <1>1, <1>2, <2>1 DEF Distinct
  <2>2. CASE i > m /\ j > m
    <3>1. i - m \in 1..n /\ j - m \in 1..n /\ t[i - m] = t[j - m]
      BY <1>1, <1>2, <2>2
    <3>2. i - m = j - m
      BY <3>1 DEF Distinct
    <3> QED
      BY <1>1, <3>2
  <2>3. CASE i <= m /\ j > m
    <3>1. i \in 1..m /\ j - m \in 1..n /\ s[i] = t[j - m]
      BY <1>1, <1>2, <2>3
    <3> QED
      BY <3>1
  <2>4. CASE i > m /\ j <= m
    <3>1. j \in 1..m /\ i - m \in 1..n /\ s[j] = t[i - m]
      BY <1>1, <1>2, <2>4
    <3> QED
      BY <3>1
  <2> QED
    BY <1>1, <2>1, <2>2, <2>3, <2>4
<1>3. Distinct(u)
  BY <1>1, <1>2 DEF Distinct
<1> QED
  BY <1>1, <1>3 DEF u

LEMMA BeginsItself == ASSUME NEW s \in Seq(Int) PROVE Begins(s, s)
BY DEF Begins

LEMMA BeginsWhole ==
  ASSUME NEW s \in Seq(Int), NEW t \in Seq(Int), Len(s) = Len(t), Begins(s, t)
  PROVE  s = t
<1>1. SubSeq(s, 1, Len(s)) = s
  OBVIOUS
<1> QED
  BY <1>1 DEF Begins

LEMMA CityTyped ==
  ASSUME NEW c \in DOMAIN Catalog
  PROVE  /\ c \in Nat /\ Catalog[c].size \in 0..60 /\ Catalog[c].order \in Nat
         /\ AtLeast(0, 20 - Catalog[c].order) \in 0..20
<1>1. c \in Nat /\ Catalog[c].size \in 0..60 /\ Catalog[c].order \in Nat
  BY CatalogAssumption
<1> DEFINE n == Catalog[c].order
<1>2. n \in Nat
  BY <1>1
<1> HIDE DEF n
<1>3. AtLeast(0, 20 - n) \in 0..20
  BY <1>2 DEF AtLeast
<1> QED
  BY <1>1, <1>3 DEF n

LEMMA CitiesAre ==
  IsFiniteSet(DOMAIN Catalog) /\ Active \subseteq DOMAIN Catalog /\ IsFiniteSet(Active)
<1>1. IsFiniteSet(DOMAIN Catalog)
  BY CatalogAssumption, FS_Interval
<1>2. Active \subseteq DOMAIN Catalog
  BY DEF Active
<1> QED
  BY <1>1, <1>2, FS_Subset

\* A whole postal code weighs more than all else, and then the name.
LEMMA ScoreIs ==
  ASSUME NEW c \in DOMAIN Catalog, NEW text \in CityTexts
  PROVE  LET whole == text.code \in Catalog[c].codes
             score == MatchScore(c, text) IN
         /\ score \in Nat
         /\ whole => score >= 500
         /\ ~Coded(c, text.code) => score <= 300
         /\ whole /\ Named(c, text.name) => score >= 660
         /\ ~Named(c, text.name) => score <= 580
<1> DEFINE whole == text.code \in Catalog[c].codes
           A == CASE whole -> 500 [] Coded(c, text.code) /\ ~whole -> 320 [] OTHER -> 0
           B == CASE text.name \in Names(c) -> 220
                  [] Named(c, text.name) /\ text.name \notin Names(c) -> 160 [] OTHER -> 0
           s == Catalog[c].size
           p == AtLeast(0, 20 - Catalog[c].order)
<1>1. s \in 0..60 /\ p \in 0..20
  BY CityTyped
<1>2. MatchScore(c, text) = A + B + s + p
  BY Zenon DEF MatchScore
<1>3. text.name \in Seq(Int) /\ text.code \in Seq(Int)
  BY CatalogAssumption
<1>4. text.name \in Names(c) => Named(c, text.name)
  <2> SUFFICES ASSUME text.name \in Names(c) PROVE Named(c, text.name)
    OBVIOUS
  <2>1. text.name # <<>>
    BY CatalogAssumption DEF Names
  <2> QED
    BY <1>3, <2>1, BeginsItself DEF Named
<1>5. whole => Coded(c, text.code)
  <2> SUFFICES ASSUME whole PROVE Coded(c, text.code)
    OBVIOUS
  <2>1. text.code # <<>>
    <3>1. Len(text.code) = CodeLength /\ CodeLength # 0
      BY CatalogAssumption
    <3> QED
      BY <3>1
  <2> QED
    BY <1>3, <2>1, BeginsItself DEF Coded
<1>6. /\ A \in {0, 320, 500}
      /\ whole => A = 500
      /\ ~Coded(c, text.code) => A = 0
  BY <1>5
<1>7. /\ B \in {0, 160, 220}
      /\ Named(c, text.name) => B \in {160, 220}
      /\ ~Named(c, text.name) => B = 0
  BY <1>4
<1> HIDE DEF A, B, s, p, whole
<1>8. A + B + s + p \in Nat
  BY <1>1, <1>6, <1>7
<1>9. whole => A + B + s + p >= 500
  BY <1>1, <1>6, <1>7
<1>10. ~Coded(c, text.code) => A + B + s + p <= 300
  BY <1>1, <1>6, <1>7
<1>11. whole /\ Named(c, text.name) => A + B + s + p >= 660
  BY <1>1, <1>6, <1>7
<1>12. ~Named(c, text.name) => A + B + s + p <= 580
  BY <1>1, <1>6, <1>7
<1> DEFINE score == MatchScore(c, text)
<1>13. /\ score \in Nat
       /\ whole => score >= 500
       /\ ~Coded(c, text.code) => score <= 300
       /\ whole /\ Named(c, text.name) => score >= 660
       /\ ~Named(c, text.name) => score <= 580
  BY <1>2, <1>8, <1>9, <1>10, <1>11, <1>12
<1> HIDE DEF score
<1> QED
  BY <1>13 DEF whole, score

LEMMA UsuallyIs ==
  ASSUME NEW c \in DOMAIN Catalog
  PROVE  \E a, b \in Int : Usually(c) = <<a, b, c>> /\ c \in Int
<1>1. c \in Int /\ Catalog[c].size \in Int /\ Catalog[c].order \in Int
  BY CityTyped
<1>2. PICK b \in Int : b = -Catalog[c].size
  BY <1>1, NegatedIs, Zenon
<1>3. Usually(c) = <<Catalog[c].order, b, c>>
  BY <1>2, Zenon DEF Usually
<1> QED
  BY <1>1, <1>3

\* A query of the catalog.
LEMMA LookedUpIs ==
  ASSUME NEW S, S \subseteq DOMAIN Catalog, NEW n \in Nat
  PROVE  LET list == LookedUp(S, n) IN
         /\ list \in Seq(S) /\ Distinct(list) /\ Len(list) = AtMost(n, Cardinality(S))
         /\ MembersOf(list) \subseteq S
         /\ Cardinality(S) <= n => MembersOf(list) = S
<1> DEFINE key == [c \in S |-> Usually(c)]
<1>1. IsFiniteSet(S)
  BY CitiesAre, FS_Subset
<1>2. ASSUME NEW c \in S PROVE IsKey(key[c], 3) /\ key[c][3] = c
  <2>1. PICK a \in Int, b \in Int : Usually(c) = <<a, b, c>> /\ c \in Int
    BY UsuallyIs
  <2>2. key[c] = <<a, b, c>>
    BY <2>1
  <2>3. IsKey(<<a, b, c>>, 3) /\ <<a, b, c>>[3] = c
    BY <2>1, ThreeKeys
  <2> HIDE DEF key
  <2> QED
    BY <2>2, <2>3, Zenon
<1>3. LookedUp(S, n) = FirstOf(InOrder(S, key), n)
  BY DEF LookedUp
<1> HIDE DEF key
<1>4. IsSorted(InOrder(S, key), S, key)
  <2>1. \A c \in S : IsKey(key[c], 3)
    BY <1>2
  <2>2. \A c, d \in S : key[c] = key[d] => c = d
    BY <1>2
  <2> QED
    BY <1>1, <2>1, <2>2, InOrderSorts
<1> QED
  BY <1>1, <1>3, <1>4, CutIs

\* One key before three.
LEMMA OneAndThree ==
  ASSUME NEW a \in Int, NEW b \in Int, NEW c \in Int, NEW d \in Int
  PROVE  LET s == Joined(<<a>>, <<b, c, d>>) IN IsKey(s, 4) /\ s[1] = a /\ s[4] = d
<1> DEFINE t == <<a>>
           u == <<b, c, d>>
           s == Joined(t, u)
<1>1. IsKey(t, 1) /\ t[1] = a /\ IsKey(u, 3) /\ u[3] = d
  BY ThreeKeys, OneKey
<1>2. PICK m \in Nat, n \in Nat : m = 1 /\ n = 3
  OBVIOUS
<1> HIDE DEF t, u
<1>3. IsKey(s, m + n) /\ (\A i \in 1..m : s[i] = t[i]) /\ \A i \in 1..n : s[m + i] = u[i]
  BY <1>1, <1>2, KeyOf
<1> HIDE DEF s
<1>4. m + n = 4 /\ n \in 1..n /\ 1 \in 1..m
  BY <1>2
<1>5. IsKey(s, 4) /\ s[1] = a /\ s[4] = d
  BY <1>1, <1>2, <1>3, <1>4
<1> QED
  BY <1>5 DEF s, t, u

LEMMA SearchLimitIs ==
  ASSUME NEW limit \in CityLimits
  PROVE  /\ limit \in Nat \ {0} /\ SearchLimit(limit) \in Nat /\ SearchLimit(limit) <= limit
         /\ CandidateLimit(SearchLimit(limit)) \in Nat
         /\ SearchLimit(limit) <= CandidateLimit(SearchLimit(limit))
<1>1. limit \in Nat \ {0} /\ MostFound \in 1..100 /\ PerHit \in Nat \ {0} /\ FewestCandidates \in Nat
  BY CatalogAssumption
<1> DEFINE n == SearchLimit(limit)
<1>2. n \in Nat /\ n <= limit /\ n <= 100
  BY <1>1 DEF SearchLimit, AtMost
<1> HIDE DEF n
<1> DEFINE many == PerHit * n
<1>3. many \in Nat /\ n <= many
  BY <1>1, <1>2
<1>4. CandidateLimit(n) = AtMost(100, AtLeast(many, FewestCandidates))
  BY DEF CandidateLimit
<1> HIDE DEF many
<1>5. CandidateLimit(n) \in Nat /\ n <= CandidateLimit(n)
  BY <1>1, <1>2, <1>3, <1>4 DEF AtMost, AtLeast
<1> QED
  BY <1>1, <1>2, <1>5 DEF n

\* What a search puts in order, and what that order respects.
LEMMA SearchIs ==
  ASSUME NEW text \in CityTexts, NEW limit \in CityLimits
  PROVE  \E F, list, key :
           /\ IsFiniteSet(F) /\ IsSorted(list, F, key)
           /\ SearchCities(text, limit) = FirstOf(list, SearchLimit(limit))
           /\ F \subseteq {c \in Active : Coded(c, text.code) \/ Named(c, text.name)}
           /\ Cardinality({c \in Active : Coded(c, text.code)}) <= SearchLimit(limit)
                => {c \in Active : Coded(c, text.code)} \subseteq F
           /\ \A c \in F : ~Precedes(key[c], key[c])
           /\ \A c, d \in F : MatchScore(c, text) > MatchScore(d, text) => Precedes(key[c], key[d])
           /\ \A c, d \in F : Precedes(key[c], key[d]) => MatchScore(c, text) >= MatchScore(d, text)
<1> DEFINE n == CandidateLimit(SearchLimit(limit))
           C == {c \in Active : Coded(c, text.code)}
           N == NameHits(text.name)
           F == MembersOf(LookedUp(C, n)) \union MembersOf(LookedUp(N, n))
           key == [c \in F |-> <<-MatchScore(c, text)>> \o Usually(c)]
           list == InOrder(F, key)
<1>1. n \in Nat /\ SearchLimit(limit) \in Nat /\ SearchLimit(limit) <= n
  BY SearchLimitIs
<1>2. C \subseteq Active /\ N \subseteq Active /\ \A c \in N : Named(c, text.name)
  BY DEF NameHits, Named, Names
<1>3. C \subseteq DOMAIN Catalog /\ N \subseteq DOMAIN Catalog /\ IsFiniteSet(C)
  BY <1>2, CitiesAre, FS_Subset
<1>4. SearchCities(text, limit) = FirstOf(list, SearchLimit(limit))
  BY Zenon DEF SearchCities
<1>5. \A c \in C : Coded(c, text.code)
  OBVIOUS
<1> HIDE DEF n, C, N, list
<1>6. /\ MembersOf(LookedUp(C, n)) \subseteq C /\ MembersOf(LookedUp(N, n)) \subseteq N
      /\ Cardinality(C) <= n => MembersOf(LookedUp(C, n)) = C
  BY <1>1, <1>3, LookedUpIs
<1>7. F \subseteq Active /\ \A c \in F : Coded(c, text.code) \/ Named(c, text.name)
  BY <1>2, <1>5, <1>6
<1>8. Cardinality(C) <= SearchLimit(limit) => C \subseteq F
  <2>1. Cardinality(C) \in Nat
    BY <1>3, FS_CardinalityType
  <2> QED
    BY <1>1, <1>6, <2>1
<1> HIDE DEF F
<1>9. IsFiniteSet(F) /\ F \subseteq DOMAIN Catalog
  BY <1>7, CitiesAre, FS_Subset
<1>10. ASSUME NEW c \in F
       PROVE  /\ MatchScore(c, text) \in Nat
              /\ IsKey(key[c], 4) /\ key[c][1] = -MatchScore(c, text) /\ key[c][4] = c
  <2>1. c \in DOMAIN Catalog
    BY <1>9
  <2>2. MatchScore(c, text) \in Nat
    BY <2>1, ScoreIs
  <2>3. PICK m \in Int : m = -MatchScore(c, text)
    BY <2>2, NegativeIs, Zenon
  <2>4. PICK a \in Int, b \in Int : Usually(c) = <<a, b, c>> /\ c \in Int
    BY <2>1, UsuallyIs
  <2>5. key[c] = Joined(<<m>>, <<a, b, c>>)
    BY <2>3, <2>4, Zenon DEF Joined
  <2>6. LET s == Joined(<<m>>, <<a, b, c>>) IN IsKey(s, 4) /\ s[1] = m /\ s[4] = c
    BY <2>4, OneAndThree
  <2> HIDE DEF key
  <2>7. IsKey(key[c], 4) /\ key[c][1] = m /\ key[c][4] = c
    BY <2>5, <2>6, Zenon
  <2> QED
    BY <2>2, <2>3, <2>7, Zenon
<1> HIDE DEF key
<1>11. IsSorted(list, F, key)
  <2>1. \A c \in F : IsKey(key[c], 4)
    BY <1>10
  <2>2. \A c, d \in F : key[c] = key[d] => c = d
    BY <1>10
  <2> QED
    BY <1>9, <2>1, <2>2, InOrderSorts DEF list
<1>0. PICK four \in Nat \ {0} : four = 4
  OBVIOUS
<1>14. ASSUME NEW c \in F PROVE ~Precedes(key[c], key[c])
  <2>1. IsKey(key[c], four)
    BY <1>0, <1>10
  <2> QED
    BY <2>1, PrecedesIrreflexive
<1>12. ASSUME NEW c \in F, NEW d \in F, MatchScore(c, text) > MatchScore(d, text)
       PROVE  Precedes(key[c], key[d])
  <2>1. key[c][1] < key[d][1]
    BY <1>10, <1>12
  <2>2. IsKey(key[c], four) /\ IsKey(key[d], four)
    BY <1>0, <1>10
  <2> QED
    BY <2>1, <2>2, FirstPrecedes
<1>13. ASSUME NEW c \in F, NEW d \in F, Precedes(key[c], key[d])
       PROVE  MatchScore(c, text) >= MatchScore(d, text)
  <2>1. IsKey(key[c], four) /\ IsKey(key[d], four)
    BY <1>0, <1>10
  <2>2. key[c][1] <= key[d][1]
    BY <1>13, <2>1, PrecedesFirst
  <2> QED
    BY <1>10, <2>2
<1> QED
  BY <1>4, <1>7, <1>8, <1>9, <1>11, <1>12, <1>13, <1>14 DEF C

\* Those of a whole postal code come first, and of them those of the name.
LEMMA CodedComeFirst ==
  ASSUME NEW text \in CityTexts, NEW limit \in CityLimits, Len(text.code) = CodeLength,
         Cardinality({c \in Active : text.code \in Catalog[c].codes}) <= SearchLimit(limit)
  PROVE  LET coded == {c \in Active : text.code \in Catalog[c].codes}
             found == SearchCities(text, limit) IN
         /\ {found[i] : i \in 1..Cardinality(coded)} = coded
         /\ \A i, j \in 1..Cardinality(coded) :
              Named(found[i], text.name) /\ ~Named(found[j], text.name) => i < j
<1> DEFINE W == {c \in Active : text.code \in Catalog[c].codes}
           w == Cardinality(W)
           found == SearchCities(text, limit)
           score(c) == MatchScore(c, text)
<1>1. W \subseteq Active /\ IsFiniteSet(W) /\ w \in Nat
  BY CitiesAre, FS_Subset, FS_CardinalityType
<1>2. {c \in Active : Coded(c, text.code)} = W
  <2>1. text.code \in Seq(Int) /\ text.code # <<>>
    <3>1. text.code \in Seq(Int) /\ CodeLength \in Nat \ {0}
      BY CatalogAssumption
    <3> QED
      BY <3>1
  <2>2. ASSUME NEW c \in Active
        PROVE  Coded(c, text.code) <=> text.code \in Catalog[c].codes
    <3>1. \A p \in Catalog[c].codes : p \in Seq(Int) /\ Len(p) = Len(text.code)
      BY CitiesAre, CatalogAssumption
    <3>2. \A p \in Catalog[c].codes : Begins(p, text.code) => p = text.code
      BY <2>1, <3>1, BeginsWhole
    <3>3. Begins(text.code, text.code)
      BY <2>1, BeginsItself
    <3> QED
      BY <2>1, <3>2, <3>3 DEF Coded
  <2> QED
    BY <2>2
<1>3. PICK F, list, key :
           /\ IsFiniteSet(F) /\ IsSorted(list, F, key)
           /\ found = FirstOf(list, SearchLimit(limit))
           /\ F \subseteq {c \in Active : Coded(c, text.code) \/ Named(c, text.name)}
           /\ Cardinality({c \in Active : Coded(c, text.code)}) <= SearchLimit(limit)
                => {c \in Active : Coded(c, text.code)} \subseteq F
           /\ \A c \in F : ~Precedes(key[c], key[c])
           /\ \A c, d \in F : score(c) > score(d) => Precedes(key[c], key[d])
           /\ \A c, d \in F : Precedes(key[c], key[d]) => score(c) >= score(d)
  BY SearchIs, Zenon
<1>4. W \subseteq F /\ F \subseteq Active
  BY <1>2, <1>3
<1>5. \A c \in F : /\ score(c) \in Nat
                   /\ c \in W => score(c) >= 500
                   /\ c \notin W => score(c) <= 300
                   /\ c \in W /\ Named(c, text.name) => score(c) >= 660
                   /\ ~Named(c, text.name) => score(c) <= 580
  <2>1. \A c \in F : c \in DOMAIN Catalog /\ (c \in W <=> text.code \in Catalog[c].codes)
                       /\ (Coded(c, text.code) <=> c \in W)
    BY <1>2, <1>4, CitiesAre
  <2> HIDE DEF W
  <2> QED
    BY <2>1, ScoreIs
<1>6. /\ Len(list) = Cardinality(F) /\ Len(list) \in Nat /\ w <= Len(list)
      /\ \A k \in 1..Len(list) : list[k] \in F
      /\ \A x \in F : \E k \in 1..Len(list) : list[k] = x
      /\ \A i, j \in 1..Len(list) : list[i] = list[j] => i = j
      /\ \A i, j \in 1..Len(list) : i < j => Precedes(key[list[i]], key[list[j]])
      /\ \A k \in 1..Len(list) :
           Cardinality({y \in F : Precedes(key[y], key[list[k]])}) = k - 1
  <2>1. w <= Cardinality(F)
    <3> HIDE DEF W
    <3> QED
      BY <1>3, <1>4, FS_Subset
  <2> HIDE DEF W, w
  <2> QED
    BY <1>3, <2>1 DEF IsSorted
<1> HIDE DEF W, found, score
<1>7. ASSUME NEW k \in 1..Len(list) PROVE list[k] \in W <=> k <= w
  <2> DEFINE B == {y \in F : Precedes(key[y], key[list[k]])}
  <2>1. Cardinality(B) = k - 1 /\ IsFiniteSet(B) /\ list[k] \in F
    BY <1>3, <1>6, FS_Subset
  <2>2. ASSUME list[k] \in W PROVE k <= w
    <3>1. B \subseteq W
      BY <1>3, <1>5, <2>1, <2>2
    <3>2. list[k] \notin B
      BY <1>3, <2>1
    <3> HIDE DEF B
    <3>3. B \subseteq W \ {list[k]}
      BY <3>1, <3>2
    <3>4. IsFiniteSet(W \ {list[k]}) /\ Cardinality(W \ {list[k]}) = w - 1
      BY <1>1, <2>2, FS_RemoveElement
    <3>5. Cardinality(B) <= w - 1
      BY <3>3, <3>4, FS_Subset
    <3> HIDE DEF w
    <3> QED
      BY <1>1, <1>6, <2>1, <3>5
  <2>3. ASSUME list[k] \notin W PROVE w < k
    <3>1. W \subseteq B
      BY <1>3, <1>4, <1>5, <2>1, <2>3
    <3> HIDE DEF B
    <3>2. w <= Cardinality(B)
      BY <2>1, <3>1, FS_Subset
    <3> HIDE DEF w
    <3> QED
      BY <1>1, <1>6, <2>1, <3>2
  <2> HIDE DEF B, w
  <2> QED
    BY <1>1, <1>6, <2>2, <2>3
<1>8. SearchLimit(limit) \in Nat /\ w <= SearchLimit(limit)
  BY SearchLimitIs DEF W
<1> HIDE DEF w
<1>9. w <= Len(found) /\ Len(found) \in Nat /\ \A k \in 1..Len(found) : found[k] = list[k]
  <2>1. Len(found) = AtMost(SearchLimit(limit), Cardinality(F))
        /\ \A k \in 1..Len(found) : found[k] = list[k]
    BY <1>3, <1>8, CutIs
  <2> QED
    BY <1>1, <1>6, <1>8, <2>1 DEF AtMost
<1>10. \A i \in 1..w : found[i] = list[i] /\ i \in 1..Len(list) /\ found[i] \in W
  BY <1>1, <1>6, <1>7, <1>9
<1>11. \A c \in W : \E i \in 1..w : found[i] = c
  <2> TAKE c \in W
  <2>1. PICK k \in 1..Len(list) : list[k] = c
    BY <1>4, <1>6
  <2>2. k \in 1..w
    BY <1>1, <1>6, <1>7, <2>1
  <2> QED
    BY <1>10, <2>1, <2>2
<1>12. {found[i] : i \in 1..w} = W
  BY <1>10, <1>11
<1>13. ASSUME NEW i \in 1..w, NEW j \in 1..w,
              Named(found[i], text.name), ~Named(found[j], text.name)
       PROVE  i < j
  <2>1. /\ found[i] = list[i] /\ found[j] = list[j] /\ i \in 1..Len(list) /\ j \in 1..Len(list)
        /\ found[i] \in W /\ found[i] \in F /\ found[j] \in F
    BY <1>4, <1>10
  <2>2. score(found[i]) > score(found[j])
    BY <1>5, <1>13, <2>1
  <2>3. i # j
    BY <1>13
  <2>4. ~(j < i)
    <3> SUFFICES ASSUME j < i PROVE FALSE
      OBVIOUS
    <3>1. Precedes(key[list[j]], key[list[i]])
      BY <1>6, <2>1
    <3>2. score(found[j]) >= score(found[i])
      BY <1>3, <2>1, <3>1
    <3> QED
      BY <1>5, <2>1, <2>2, <3>2
  <2> QED
    BY <1>1, <2>3, <2>4
<1> QED
  BY <1>12, <1>13 DEF W, w, found

\* What a search finds is found once, and was asked for.
LEMMA FoundIs ==
  ASSUME NEW text \in CityTexts, NEW limit \in CityLimits
  PROVE  LET found == SearchCities(text, limit) IN
         /\ found \in Seq(Active) /\ Distinct(found)
         /\ \A i \in DOMAIN found : Coded(found[i], text.code) \/ Named(found[i], text.name)
<1> DEFINE found == SearchCities(text, limit)
           A == {c \in Active : Coded(c, text.code) \/ Named(c, text.name)}
<1>1. PICK F, list, key : /\ IsFiniteSet(F) /\ IsSorted(list, F, key)
                          /\ found = FirstOf(list, SearchLimit(limit)) /\ F \subseteq A
  BY SearchIs, Zenon
<1>2. SearchLimit(limit) \in Nat
  BY SearchLimitIs
<1> HIDE DEF found
<1>3. found \in Seq(F) /\ Distinct(found)
  BY <1>1, <1>2, CutIs
<1>4. DOMAIN found = 1..Len(found) /\ \A i \in 1..Len(found) : found[i] \in F
  BY <1>3
<1>5. \A c \in F : c \in Active /\ (Coded(c, text.code) \/ Named(c, text.name))
  BY <1>1
<1>6. found \in Seq(Active)
  <2>1. F \subseteq Active
    BY <1>5
  <2> QED
    BY <1>3, <2>1
<1> QED
  BY <1>3, <1>4, <1>5, <1>6 DEF found

\* The cities named by id come first, and no city twice.
LEMMA PickedComeFirst ==
  ASSUME NEW call \in Lookups, call.kind = "list"
  PROVE  LET list == CityList(call) IN
         /\ Cardinality(MembersOf(list)) = Len(list) /\ Len(list) <= call.limit
         /\ \A i, j \in DOMAIN list : list[j] \in call.picked /\ list[i] \notin call.picked => j < i
         /\ (call.picked \intersect Active) \ MembersOf(list) # {} =>
              MembersOf(list) \subseteq call.picked
<1> DEFINE P == call.picked \intersect Active
           picked == LookedUp(P, Len(Catalog))
           found == IF call.text # [name |-> <<>>, code |-> <<>>]
                      THEN SearchCities(call.text, call.limit)
                    ELSE IF call.picked # {} THEN <<>>
                    ELSE LookedUp(Active, call.limit)
           fresh == PartOf(found, {i \in DOMAIN found : found[i] \notin MembersOf(picked)})
           all == Joined(picked, fresh)
           list == CityList(call)
           m == Len(picked)
<1>1. call.text \in CityTexts /\ call.limit \in CityLimits
  BY DEF Lookups
<1>2. call.limit \in Nat \ {0}
  BY <1>1, SearchLimitIs
<1>3. P \subseteq DOMAIN Catalog /\ P \subseteq Active
  BY CitiesAre
<1>4. Cardinality(P) <= Len(Catalog) /\ Len(Catalog) \in Nat
  <2>1. Cardinality(DOMAIN Catalog) = Len(Catalog) /\ Len(Catalog) \in Nat
    <3> DEFINE n == Len(Catalog)
    <3>1. n \in Nat /\ DOMAIN Catalog = 1..n
      BY CatalogAssumption
    <3> HIDE DEF n
    <3>2. Cardinality(1..n) = n
      BY <3>1, FS_Interval
    <3> QED
      BY <3>1, <3>2 DEF n
  <2> HIDE DEF P
  <2>2. Cardinality(P) <= Cardinality(DOMAIN Catalog)
    BY <1>3, CitiesAre, FS_Subset
  <2> QED
    BY <2>1, <2>2
<1>5. picked \in Seq(P) /\ Distinct(picked) /\ MembersOf(picked) = P
  <2> HIDE DEF P
  <2> QED
    BY <1>3, <1>4, LookedUpIs
<1>6. found \in Seq(Active) /\ Distinct(found)
  <2>1. SearchCities(call.text, call.limit) \in Seq(Active)
        /\ Distinct(SearchCities(call.text, call.limit))
    BY <1>1, FoundIs
  <2>2. LookedUp(Active, call.limit) \in Seq(Active) /\ Distinct(LookedUp(Active, call.limit))
    BY <1>2, CitiesAre, LookedUpIs
  <2>3. <<>> \in Seq(Active) /\ Distinct(<<>>)
    BY DEF Distinct
  <2> QED
    BY <2>1, <2>2, <2>3
<1>7. list = FirstOf(all, call.limit)
  BY Zenon DEF CityList, Joined
<1> DEFINE places == {i \in DOMAIN found : found[i] \notin MembersOf(picked)}
<1>8. fresh = PartOf(found, places)
  OBVIOUS
<1> HIDE DEF P, picked, found, fresh, list
<1>9. places \subseteq 1..Len(found) /\ \A i \in places : found[i] \notin P
  BY <1>5, <1>6
<1> HIDE DEF places
<1>10. /\ fresh \in Seq(Active) /\ Distinct(fresh)
       /\ \A k \in 1..Len(fresh) : \E i \in places : fresh[k] = found[i]
  <2> DEFINE part == PartOf(found, places)
  <2>1. /\ part \in Seq(Active)
        /\ Distinct(found) => Distinct(part)
        /\ \A k \in 1..Len(part) : \E i \in places : part[k] = found[i]
    <3>1. places \in SUBSET (1..Len(found))
      BY <1>9
    <3>2. found \in Seq(Active)
      BY <1>6
    <3> QED
      BY <3>1, <3>2, PartIs
  <2>2. fresh = part
    BY <1>8
  <2> HIDE DEF part
  <2> QED
    BY <1>6, <2>1, <2>2, Zenon
<1>11. \A k \in 1..Len(fresh) : fresh[k] \notin P
  BY <1>9, <1>10
<1>12. picked \in Seq(Active) /\ \A i \in 1..Len(picked) : picked[i] \in P
  BY <1>3, <1>5
<1>13. /\ all \in Seq(Active) /\ Len(all) = m + Len(fresh) /\ Distinct(all)
       /\ \A i \in 1..m : all[i] = picked[i]
       /\ \A i \in 1..(m + Len(fresh)) : i > m =>
            i - m \in 1..Len(fresh) /\ all[i] = fresh[i - m]
  BY <1>5, <1>10, <1>11, <1>12, JoinedAreDistinct, SMTT(30)
<1>14. m \in Nat /\ Len(fresh) \in Nat
  BY <1>5, <1>10
<1> HIDE DEF all, m
<1>15. /\ list \in Seq(Active) /\ Len(list) \in Nat /\ Len(list) = AtMost(call.limit, Len(all))
       /\ Len(list) <= call.limit /\ Len(list) <= Len(all)
       /\ \A k \in 1..Len(list) : list[k] = all[k]
  <2> DEFINE cut == FirstOf(all, call.limit)
             len == AtMost(call.limit, Len(all))
  <2>1. /\ cut \in Seq(Active) /\ Len(cut) = len /\ len \in Nat
        /\ len <= Len(all) /\ len <= call.limit
        /\ \A k \in 1..len : cut[k] = all[k]
    <3>1. call.limit \in Nat
      BY <1>2
    <3> QED
      BY <1>13, <3>1, FirstOfIs, Zenon
  <2> HIDE DEF cut, len
  <2> QED
    BY <1>7, <2>1 DEF cut, len
<1>16. DOMAIN list = 1..Len(list)
  BY <1>15
<1>17. \A k \in 1..Len(list) : /\ k <= m => list[k] \in P
                               /\ k > m => list[k] \notin P
                               /\ list[k] \in Active
  <2> TAKE k \in 1..Len(list)
  <2>1. k \in 1..(m + Len(fresh)) /\ list[k] = all[k] /\ list[k] \in Active
    BY <1>13, <1>15
  <2>2. k <= m => list[k] \in P
    BY <1>12, <1>13, <1>14, <2>1 DEF m
  <2>3. k > m => list[k] \notin P
    BY <1>11, <1>13, <1>14, <2>1
  <2> QED
    BY <2>1, <2>2, <2>3
<1>18. \A c \in Active : c \in P <=> c \in call.picked
  BY DEF P
<1>19. Distinct(list)
  <2>1. \A k \in 1..Len(list) : k \in 1..Len(all)
    BY <1>13, <1>14, <1>15
  <2> QED
    BY <1>13, <1>15, <2>1 DEF Distinct
<1>20. Cardinality(MembersOf(list)) = Len(list)
  BY <1>15, <1>19, DistinctCounts
<1>21. \A i, j \in 1..Len(list) : list[j] \in call.picked /\ list[i] \notin call.picked => j < i
  <2> TAKE i, j \in 1..Len(list)
  <2> HAVE list[j] \in call.picked /\ list[i] \notin call.picked
  <2>1. j <= m /\ i > m
    BY <1>14, <1>15, <1>17, <1>18
  <2> QED
    BY <1>14, <1>15, <2>1
<1>22. MembersOf(list) = {list[k] : k \in 1..Len(list)}
  BY <1>16 DEF MembersOf
<1>23. ASSUME P \ MembersOf(list) # {} PROVE MembersOf(list) \subseteq call.picked
  <2>1. PICK c \in P : c \notin MembersOf(list)
    BY <1>23
  <2>2. PICK k \in 1..m : picked[k] = c
    <3>1. DOMAIN picked = 1..m
      BY <1>5 DEF m
    <3> QED
      BY <1>5, <3>1 DEF MembersOf
  <2>3. ~(k <= Len(list))
    <3> SUFFICES ASSUME k <= Len(list) PROVE FALSE
      OBVIOUS
    <3>1. k \in 1..Len(list) /\ list[k] = c
      BY <1>13, <1>14, <1>15, <2>2
    <3> QED
      BY <1>22, <2>1, <3>1
  <2>4. \A i \in 1..Len(list) : list[i] \in P
    BY <1>14, <1>15, <1>17, <2>2, <2>3
  <2> QED
    BY <1>17, <1>18, <1>22, <2>4
<1>24. Len(list) <= call.limit
  BY <1>15
<1> QED
  BY <1>16, <1>20, <1>21, <1>23, <1>24 DEF list, P

LEMMA SearchFindsInv == LookupTypeOK => SearchFinds
<1> SUFFICES ASSUME LookupTypeOK, lookup # NoCity, lookup.kind = "list" PROVE SearchFinds
  BY DEF SearchFinds
<1> DEFINE text == lookup.text
           limit == lookup.limit
           found == SearchCities(text, limit)
           list == CityList(lookup)
           coded == {c \in Active : text.code \in Catalog[c].codes}
<1>1. lookup \in Lookups
  BY DEF LookupTypeOK
<1>2. text \in CityTexts /\ limit \in CityLimits
  BY <1>1 DEF Lookups
<1>3. (Len(text.code) = CodeLength /\ Cardinality(coded) <= SearchLimit(limit)) =>
         /\ {found[i] : i \in 1..Cardinality(coded)} = coded
         /\ \A i, j \in 1..Cardinality(coded) :
              Named(found[i], text.name) /\ ~Named(found[j], text.name) => i < j
  <2> HIDE DEF text, limit
  <2> QED
    BY <1>2, CodedComeFirst
<1>4. \A i \in DOMAIN found : Coded(found[i], text.code) \/ Named(found[i], text.name)
  <2> HIDE DEF text, limit
  <2> QED
    BY <1>2, FoundIs
<1>5. /\ Cardinality(MembersOf(list)) = Len(list) /\ Len(list) <= limit
      /\ \A i, j \in DOMAIN list :
           list[j] \in lookup.picked /\ list[i] \notin lookup.picked => j < i
      /\ (lookup.picked \intersect Active) \ MembersOf(list) # {} =>
           MembersOf(list) \subseteq lookup.picked
  BY <1>1, PickedComeFirst
<1> HIDE DEF text, limit, found, list, coded
<1> QED
  BY <1>3, <1>4, <1>5, Zenon DEF SearchFinds, text, limit, found, list, coded

-----------------------------------------------------------------------------
(* The activity of the cities. *)

\* The id under a name after a row.
IdAt(rows, name, id, i) ==
  IF i = 0 THEN NoCity
  ELSE IF rows[i].name # name \/ rows[i].id \in {NoCity, id[i - 1]} THEN id[i - 1]
  ELSE IF id[i - 1] = NoCity THEN rows[i].id
  ELSE NoCity

IdHistory(rows, name, n, id) == id = [i \in 0..n |-> IdAt(rows, name, id, i)]

HasHistory(rows, name, n) == \E id : IdHistory(rows, name, n, id)

LEMMA HistoryGoesOn ==
  ASSUME NEW rows, NEW name, NEW n \in Nat, HasHistory(rows, name, n)
  PROVE  HasHistory(rows, name, n + 1)
<1>1. PICK id : id = [i \in 0..n |-> IdAt(rows, name, id, i)]
  BY DEF HasHistory, IdHistory
<1> DEFINE more == [i \in 0..(n + 1) |-> IF i <= n THEN id[i] ELSE IdAt(rows, name, id, i)]
<1>2. ASSUME NEW i \in 0..(n + 1) PROVE more[i] = IdAt(rows, name, more, i)
  <2>1. more[i] = IdAt(rows, name, id, i)
    BY <1>1
  <2>2. CASE i = 0
    BY <2>1, <2>2 DEF IdAt
  <2>3. CASE i # 0
    <3>1. i - 1 \in 0..(n + 1) /\ i - 1 <= n
      BY <2>3
    <3>2. more[i - 1] = id[i - 1]
      BY <3>1
    <3> HIDE DEF more
    <3> QED
      BY <2>1, <3>2 DEF IdAt
  <2> QED
    BY <2>2, <2>3
<1>3. more = [i \in 0..(n + 1) |-> more[i]]
  OBVIOUS
<1> HIDE DEF more
<1>4. more = [i \in 0..(n + 1) |-> IdAt(rows, name, more, i)]
  BY <1>2, <1>3
<1> QED
  BY <1>4 DEF HasHistory, IdHistory

LEMMA HistoryThere ==
  ASSUME NEW rows, NEW name, NEW n \in Nat
  PROVE  HasHistory(rows, name, n)
<1> DEFINE Bad == {k \in Nat : ~HasHistory(rows, name, k)}
<1> SUFFICES ASSUME Bad # {} PROVE FALSE
  OBVIOUS
<1>1. PICK k \in Bad : \A j \in Bad : k <= j
  BY LeastNumber
<1>2. CASE k = 0
  <2> DEFINE id == [i \in 0..0 |-> NoCity]
  <2>1. id = [i \in 0..0 |-> IdAt(rows, name, id, i)]
    BY DEF IdAt
  <2> HIDE DEF id
  <2>2. HasHistory(rows, name, 0)
    BY <2>1 DEF HasHistory, IdHistory
  <2> QED
    BY <1>1, <1>2, <2>2
<1>3. CASE k # 0
  <2>1. PICK m \in Nat : k = m + 1 /\ m \notin Bad
    <3>1. k - 1 \in Nat /\ k = (k - 1) + 1 /\ ~(k <= k - 1)
      BY <1>1, <1>3
    <3>2. k - 1 \notin Bad
      BY <1>1, <3>1
    <3> QED
      BY <3>1, <3>2
  <2>2. HasHistory(rows, name, m + 1)
    BY <2>1, HistoryGoesOn
  <2> QED
    BY <1>1, <2>1, <2>2
<1> QED
  BY <1>2, <1>3

LEMMA IdUnderIs ==
  ASSUME NEW rows, Len(rows) \in Nat, NEW name
  PROVE  \E id : /\ IdUnder(rows, name) = id[Len(rows)]
                 /\ \A i \in 0..Len(rows) : id[i] = IdAt(rows, name, id, i)
<1> DEFINE n == Len(rows)
           id == CHOOSE f : f = [i \in 0..n |-> IdAt(rows, name, f, i)]
<1>1. IdUnder(rows, name) = id[n]
  BY Zenon DEF IdUnder, IdAt
<1>2. \E f : f = [i \in 0..n |-> IdAt(rows, name, f, i)]
  BY HistoryThere DEF HasHistory, IdHistory
<1>3. id = [i \in 0..n |-> IdAt(rows, name, id, i)]
  BY <1>2, Zenon
<1> HIDE DEF id
<1>4. \A i \in 0..n : id[i] = IdAt(rows, name, id, i)
  BY <1>3
<1> QED
  BY <1>1, <1>4

\* The ids of the rows under a name.
IdsUnder(rows, name) ==
  {rows[i].id : i \in {k \in DOMAIN rows : rows[k].name = name}} \ {NoCity}

\* It is one of those of the rows, and the only one if there is only one.
LEMMA IdIsOneOfThem ==
  ASSUME NEW rows, DOMAIN rows = 1..Len(rows), Len(rows) \in Nat, NEW name
  PROVE  /\ IdUnder(rows, name) # NoCity => IdUnder(rows, name) \in IdsUnder(rows, name)
         /\ \A x : IdsUnder(rows, name) = {x} => IdUnder(rows, name) = x
<1> DEFINE n == Len(rows)
<1>1. PICK id : /\ IdUnder(rows, name) = id[n]
                /\ \A i \in 0..n : id[i] = IdAt(rows, name, id, i)
  BY IdUnderIs
<1> HIDE DEF n
<1>2. n \in Nat /\ DOMAIN rows = 1..n
  BY DEF n
<1>3. ASSUME NEW i \in 1..n
      PROVE  /\ rows[i].name # name \/ rows[i].id \in {NoCity, id[i - 1]} => id[i] = id[i - 1]
             /\ rows[i].name = name /\ rows[i].id \notin {NoCity, id[i - 1]} =>
                  id[i] = IF id[i - 1] = NoCity THEN rows[i].id ELSE NoCity
  BY <1>1, <1>2 DEF IdAt
<1>4. id[0] = NoCity
  BY <1>1, <1>2 DEF IdAt
<1>5. \A i \in 1..n : rows[i].name = name /\ rows[i].id # NoCity => rows[i].id \in IdsUnder(rows, name)
  BY <1>2 DEF IdsUnder
<1>6. \A i \in 0..n : id[i] = NoCity \/ id[i] \in IdsUnder(rows, name)
  <2> DEFINE Bad == {i \in 0..n : ~(id[i] = NoCity \/ id[i] \in IdsUnder(rows, name))}
  <2> SUFFICES ASSUME Bad # {} PROVE FALSE
    OBVIOUS
  <2>1. Bad \subseteq Nat
    BY <1>2
  <2>2. PICK k \in Bad : \A j \in Bad : k <= j
    BY <2>1, LeastNumber
  <2>3. k # 0
    BY <1>4, <2>2
  <2>4. k \in 1..n /\ k - 1 \in 0..n /\ ~(k <= k - 1)
    BY <1>2, <2>2, <2>3
  <2>5. id[k - 1] = NoCity \/ id[k - 1] \in IdsUnder(rows, name)
    BY <2>2, <2>4
  <2> QED
    BY <1>3, <1>5, <2>2, <2>4, <2>5
<1>7. ASSUME NEW x, IdsUnder(rows, name) = {x}
      PROVE  id[n] = x
  <2>1. x # NoCity /\ \E i \in 1..n : rows[i].name = name /\ rows[i].id = x
    BY <1>2, <1>7 DEF IdsUnder
  <2>2. PICK at \in 1..n : rows[at].name = name /\ rows[at].id = x
    BY <2>1
  <2>3. \A i \in 1..n : rows[i].name = name => rows[i].id \in {NoCity, x}
    BY <1>5, <1>7
  <2>4. \A i \in 0..n : id[i] \in {NoCity, x}
    BY <1>6, <1>7
  <2> DEFINE Bad == {i \in at..n : id[i] # x}
  <2>5. Bad = {}
    <3> SUFFICES ASSUME Bad # {} PROVE FALSE
      OBVIOUS
    <3>1. Bad \subseteq Nat
      BY <1>2
    <3>2. PICK k \in Bad : \A j \in Bad : k <= j
      BY <3>1, LeastNumber
    <3>3. k \in 1..n /\ k - 1 \in 0..n /\ ~(k <= k - 1) /\ (k # at => k - 1 \in at..n)
      BY <1>2, <3>2
    <3>4. CASE k = at
      BY <1>3, <2>1, <2>2, <2>4, <3>2, <3>3, <3>4
    <3>5. CASE k # at
      <4>1. id[k - 1] = x
        BY <3>2, <3>3, <3>5
      <4> QED
        BY <1>3, <2>1, <2>3, <3>2, <3>3, <4>1
    <3> QED
      BY <3>4, <3>5
  <2>6. n \in at..n
    BY <1>2
  <2> QED
    BY <2>5, <2>6
<1>8. n \in 0..n
  BY <1>2
<1> QED
  BY <1>1, <1>6, <1>7, <1>8

\* The city under a name is the one of its id, or the first of that name.
LEMMA LocatedIs ==
  ASSUME NEW rows, NEW name
  PROVE  /\ IdUnder(rows, name) \in Fetched(rows) => Located(rows, name) = IdUnder(rows, name)
         /\ IdUnder(rows, name) \notin Fetched(rows) =>
              \/ Located(rows, name) = NoCity
              \/ Located(rows, name) \in Active /\ name \in Names(Located(rows, name))
<1> DEFINE id == IdUnder(rows, name)
           city == Located(rows, name)
           alike == {c \in Fetched(rows) : name \in {Catalog[c].name} \union Catalog[c].others}
<1>1. city = IF id \in Fetched(rows) THEN id
             ELSE IF alike = {} THEN NoCity
             ELSE CHOOSE c \in alike : \A d \in alike : c <= d
  BY Zenon DEF Located
<1>2. alike \subseteq Active /\ \A c \in alike : name \in Names(c)
  BY DEF Fetched, Names
<1>3. alike \subseteq Nat
  BY <1>2, CitiesAre, CityTyped
<1> HIDE DEF id, alike, city
<1>4. ASSUME alike # {}
      PROVE  (CHOOSE c \in alike : \A d \in alike : c <= d) \in alike
  <2>1. \E c \in alike : \A d \in alike : c <= d
    BY <1>3, <1>4, LeastNumber
  <2> QED
    BY <2>1
<1>5. id \notin Fetched(rows) => city = NoCity \/ city \in alike
  BY <1>1, <1>4
<1> QED
  BY <1>1, <1>2, <1>5 DEF id, city

LEMMA ItemIsPlaced ==
  ASSUME NEW rows, DOMAIN rows = 1..Len(rows), Len(rows) \in Nat,
         NEW name \in {rows[i].name : i \in DOMAIN rows} \ {<<>>}
  PROVE  LET item == ActivityItem(rows, name)
             ids == IdsUnder(rows, name) IN
         /\ item.name = name
         /\ \A id \in ids : ids = {id} /\ id \in Active =>
              /\ item.id = id
              /\ Catalog[id].place # NoCity => item.place = Catalog[id].place
         /\ item.id # NoCity => item.id \in ids \/ name \in Names(item.id)
         /\ item.place # NoCity =>
              \/ \E c \in Active : item.place = Catalog[c].place /\ (c \in ids \/ name \in Names(c))
              \/ name \in DOMAIN BuiltIn /\ item.place = BuiltIn[name]
<1> DEFINE item == ActivityItem(rows, name)
           ids == IdsUnder(rows, name)
           found == IdUnder(rows, name)
           city == Located(rows, name)
<1>1. /\ item.name = name /\ item.id = IF city = NoCity THEN found ELSE city
      /\ item.place = Placed(city, name)
  BY DEF ActivityItem
<1>2. /\ found # NoCity => found \in ids
      /\ \A x : ids = {x} => found = x
  BY IdIsOneOfThem
<1>3. found \in Active => found \in Fetched(rows)
  BY DEF Fetched
<1>4. Fetched(rows) \subseteq Active /\ NoCity \notin Active
  <2>1. NoCity \notin Active
    BY CitiesAre, CityTyped, CatalogAssumption
  <2> QED
    BY <2>1 DEF Fetched
<1>5. /\ found \in Fetched(rows) => city = found
      /\ found \notin Fetched(rows) => city = NoCity \/ (city \in Active /\ name \in Names(city))
  BY LocatedIs
<1>6. /\ city # NoCity /\ Catalog[city].place # NoCity => item.place = Catalog[city].place
      /\ city = NoCity \/ Catalog[city].place = NoCity =>
           item.place = IF name \in DOMAIN BuiltIn THEN BuiltIn[name] ELSE NoCity
  BY <1>1 DEF Placed
<1> HIDE DEF item, ids, found, city
<1>7. ASSUME NEW id \in ids, ids = {id}, id \in Active
      PROVE  item.id = id /\ (Catalog[id].place # NoCity => item.place = Catalog[id].place)
  BY <1>1, <1>2, <1>3, <1>4, <1>5, <1>6, <1>7
<1>8. item.id # NoCity => item.id \in ids \/ name \in Names(item.id)
  BY <1>1, <1>2, <1>4, <1>5
<1>9. ASSUME item.place # NoCity
      PROVE  \/ \E c \in Active : item.place = Catalog[c].place /\ (c \in ids \/ name \in Names(c))
             \/ name \in DOMAIN BuiltIn /\ item.place = BuiltIn[name]
  <2>1. CASE city # NoCity /\ Catalog[city].place # NoCity
    <3>1. city \in Active /\ (city \in ids \/ name \in Names(city))
      BY <1>2, <1>4, <1>5, <2>1
    <3> QED
      BY <1>6, <2>1, <3>1
  <2>2. CASE city = NoCity \/ Catalog[city].place = NoCity
    BY <1>6, <1>9, <2>2
  <2> QED
    BY <2>1, <2>2
<1> QED
  BY <1>1, <1>7, <1>8, <1>9 DEF item, ids

LEMMA ActivityIsPlacedInv == LookupTypeOK => ActivityIsPlaced
<1> SUFFICES ASSUME LookupTypeOK, lookup # NoCity, lookup.kind = "activity" PROVE ActivityIsPlaced
  BY DEF ActivityIsPlaced
<1> DEFINE rows == lookup.rows
           ids(name) == {rows[i].id : i \in {k \in DOMAIN rows : rows[k].name = name}} \ {NoCity}
<1>1. rows \in CityRows
  BY DEF LookupTypeOK, Lookups
<1>2. DOMAIN rows = 1..Len(rows) /\ Len(rows) \in Nat
  BY <1>1, CatalogAssumption
<1>3. \A name : ids(name) = IdsUnder(rows, name)
  BY Zenon DEF IdsUnder
<1> HIDE DEF rows, ids
<1>4. ASSUME NEW item \in ActivityItems(rows)
      PROVE  /\ \A other \in ActivityItems(rows) : item.name = other.name => item = other
             /\ \A id \in ids(item.name) : ids(item.name) = {id} /\ id \in Active =>
                  /\ item.id = id
                  /\ Catalog[id].place # NoCity => item.place = Catalog[id].place
             /\ item.id # NoCity => item.id \in ids(item.name) \/ item.name \in Names(item.id)
             /\ item.place # NoCity =>
                  \/ \E c \in Active : item.place = Catalog[c].place
                                       /\ (c \in ids(item.name) \/ item.name \in Names(c))
                  \/ item.name \in DOMAIN BuiltIn /\ item.place = BuiltIn[item.name]
  <2>1. PICK name \in {rows[i].name : i \in DOMAIN rows} \ {<<>>} : item = ActivityItem(rows, name)
    BY DEF ActivityItems
  <2>2. item.name = name
    BY <2>1, <1>2, ItemIsPlaced
  <2>3. \A other \in ActivityItems(rows) : item.name = other.name => item = other
    <3> TAKE other \in ActivityItems(rows)
    <3>1. PICK o \in {rows[i].name : i \in DOMAIN rows} \ {<<>>} : other = ActivityItem(rows, o)
      BY DEF ActivityItems
    <3>2. other.name = o
      BY <1>2, <3>1, ItemIsPlaced
    <3> QED
      BY <2>1, <2>2, <3>1, <3>2
  <2>4. ids(item.name) = IdsUnder(rows, name)
    BY <1>3, <2>2
  <2>5. /\ \A id \in IdsUnder(rows, name) : IdsUnder(rows, name) = {id} /\ id \in Active =>
              /\ item.id = id
              /\ Catalog[id].place # NoCity => item.place = Catalog[id].place
        /\ item.id # NoCity => item.id \in IdsUnder(rows, name) \/ name \in Names(item.id)
        /\ item.place # NoCity =>
              \/ \E c \in Active : item.place = Catalog[c].place
                                   /\ (c \in IdsUnder(rows, name) \/ name \in Names(c))
              \/ name \in DOMAIN BuiltIn /\ item.place = BuiltIn[name]
    BY <1>2, <2>1, ItemIsPlaced
  <2> QED
    BY <2>2, <2>3, <2>4, <2>5, Zenon
<1> QED
  BY <1>4, Zenon DEF ActivityIsPlaced, rows, ids

LEMMA ListsAgreeInv ==
  DirectoryTypeOK /\ BoardTypeOK /\ LookupTypeOK => ListsAgree
BY DirectoryAgreesInv, BoardsAgreeInv, SearchFindsInv, ActivityIsPlacedInv DEF ListsAgree

-----------------------------------------------------------------------------
(* The platform's activity. *)

LEMMA PostsTyped ==
  ASSUME NEW i \in DOMAIN Posts
  PROVE  /\ Posts[i].kind \in {"request", "offer"} /\ Posts[i].at \in Nat
         /\ Posts[i].viewer \in BOOLEAN /\ Posts[i].sub \in BOOLEAN
         /\ Posts[i].published \in BOOLEAN
         /\ Posts[i].offered \in Nat \union {NotCharted} /\ i \in Nat \ {0}
<1>1. {Posts[i].viewer, Posts[i].sub, Posts[i].published} \subseteq BOOLEAN
  BY ActivityAssumption
<1> QED
  BY <1>1, ActivityAssumption

\* What a call has loaded is of the platform.
LEMMA ChartIs ==
  ASSUME ChartTypeOK, chart # NotCharted
  PROVE  /\ chart.posts \subseteq DOMAIN Posts /\ IsFiniteSet(chart.posts)
         /\ chart.end \in Nat /\ chart.now \in {chart.end, chart.end + 1}
         /\ chart.bySub \in BOOLEAN /\ chart.limit \in Int
         /\ ChartStart \in Int
<1>1. /\ chart.posts \in PostSets /\ chart.end \in ChartEnds
      /\ chart.now \in {chart.end, chart.end + 1}
      /\ chart.bySub \in BOOLEAN /\ chart.limit \in FeedLimits
  BY DEF ChartTypeOK
<1>2. chart.posts \subseteq DOMAIN Posts /\ chart.end \in Nat /\ chart.limit \in Int
  BY <1>1, ActivityAssumption
<1>3. IsFiniteSet(DOMAIN Posts)
  BY ActivityAssumption, FS_Interval
<1>4. IsFiniteSet(chart.posts)
  BY <1>2, <1>3, FS_Subset
<1>5. ChartStart \in Int
  <2> DEFINE span == (ChartPoints - 1) * ChartStep
  <2>1. span \in Int
    BY ActivityAssumption
  <2> HIDE DEF span
  <2>2. chart.now - span \in Int
    BY <1>1, <1>2, <2>1
  <2> QED
    BY <2>2 DEF ChartStart, span
<1> QED
  BY <1>1, <1>2, <1>4, <1>5

\* What lies on the chart is in one of its steps.
LEMMA StepIs ==
  ASSUME ChartTypeOK, chart # NotCharted, NEW t \in Nat, t >= ChartStart, t <= chart.now
  PROVE  StepOf(t) \in 1..ChartPoints
<1> DEFINE past == t - ChartStart
           q == ChartPoints - 1
<1>1. past \in Nat /\ q \in Nat /\ ChartStep \in Nat \ {0}
  BY ChartIs, ActivityAssumption
<1>2. past <= q * ChartStep
  BY ChartIs, ActivityAssumption DEF ChartStart
<1>3. past < ChartStep * (q + 1)
  <2> DEFINE p == q * ChartStep
  <2>1. ChartStep * (q + 1) = p + ChartStep /\ p \in Nat
    BY <1>1
  <2>2. past <= p
    BY <1>2
  <2> HIDE DEF past, p
  <2> QED
    BY <1>1, <2>1, <2>2
<1> HIDE DEF past
<1>4. past \div ChartStep <= q /\ past \div ChartStep \in Nat
  BY <1>1, <1>3, QuotientBetween
<1>5. StepOf(t) = past \div ChartStep + 1
  BY DEF StepOf, past
<1>6. ChartPoints \in Nat
  BY ActivityAssumption
<1> QED
  BY <1>4, <1>5, <1>6

LEMMA OnChartHas ==
  ASSUME ChartTypeOK, chart # NotCharted, NEW kind
  PROVE  /\ OfKind(kind) \subseteq chart.posts /\ IsFiniteSet(OfKind(kind))
         /\ OnChart(kind) \subseteq OfKind(kind) /\ IsFiniteSet(OnChart(kind))
         /\ \A i \in OnChart(kind) : StepOf(Posts[i].at) \in 1..ChartPoints
         /\ \A i \in OfKind(kind) :
              i \in OnChart(kind) <=>
                InFilter(i) /\ Posts[i].at >= ChartStart /\ Posts[i].at <= chart.now
<1>1. OfKind(kind) \subseteq chart.posts /\ IsFiniteSet(OfKind(kind))
  <2>1. OfKind(kind) \subseteq chart.posts
    BY DEF OfKind
  <2> QED
    BY <2>1, ChartIs, FS_Subset
<1>2. OnChart(kind) \subseteq OfKind(kind) /\ IsFiniteSet(OnChart(kind))
  <2>1. OnChart(kind) \subseteq OfKind(kind)
    BY DEF OnChart
  <2> QED
    BY <1>1, <2>1, FS_Subset
<1>3. ASSUME NEW i \in OfKind(kind)
      PROVE  /\ Posts[i].at \in Nat
             /\ i \in OnChart(kind) <=>
                  InFilter(i) /\ Posts[i].at >= ChartStart /\ Posts[i].at <= chart.now
  <2>1. Posts[i].at \in Nat
    BY <1>1, ChartIs, PostsTyped
  <2>2. Posts[i].at \in ChartStart..chart.now <=>
          (Posts[i].at >= ChartStart /\ Posts[i].at <= chart.now)
    BY <2>1, ChartIs
  <2> QED
    BY <2>1, <2>2 DEF OnChart
<1>4. ASSUME NEW i \in OnChart(kind) PROVE StepOf(Posts[i].at) \in 1..ChartPoints
  BY <1>2, <1>3, StepIs
<1> QED
  BY <1>1, <1>2, <1>3, <1>4

\* The two kinds share nothing.
LEMMA TwoKinds ==
  ASSUME ChartTypeOK, chart # NotCharted
  PROVE  /\ OfKind("request") \union OfKind("offer") = chart.posts
         /\ OfKind("request") \intersect OfKind("offer") = {}
BY ChartIs, PostsTyped DEF OfKind

\* Of the first j steps none scores more than n.
Leads(score, n, j) == n \in 1..j /\ \A m \in 1..j : score[m] <= score[n]

LEMMA OneLeads ==
  ASSUME NEW score \in [1..ChartPoints -> Nat], NEW j \in 1..ChartPoints
  PROVE  \E n \in 1..j : Leads(score, n, j)
<1> DEFINE Without == {k \in 1..ChartPoints : \A n \in 1..k : ~Leads(score, n, k)}
<1>1. ChartPoints \in Nat /\ ChartPoints > 1
  BY ActivityAssumption
<1>2. ASSUME Without # {} PROVE FALSE
  <2>1. Without \subseteq Nat
    BY <1>1
  <2>2. PICK k \in Without : \A l \in Without : k <= l
    <3> HIDE DEF Without
    <3> QED
      BY <1>2, <2>1, LeastNumber
  <2>3. k \in 1..ChartPoints /\ k \in Nat /\ \A n \in 1..k : ~Leads(score, n, k)
    BY <1>1
  <2>4. \A m \in 1..k : m \in 1..ChartPoints /\ score[m] \in Nat
    BY <1>1, <2>3
  <2>5. k # 1
    BY <2>3, <2>4 DEF Leads
  <2>6. k - 1 \in 1..ChartPoints /\ k - 1 \notin Without
    <3>1. k - 1 \in 1..ChartPoints /\ ~(k <= k - 1)
      BY <1>1, <2>3, <2>5
    <3> HIDE DEF Without
    <3> QED
      BY <2>2, <3>1
  <2>7. PICK n \in 1..(k - 1) : Leads(score, n, k - 1)
    BY <2>6
  <2>8. /\ n \in 1..k /\ k \in 1..k /\ score[n] \in Nat /\ score[k] \in Nat
        /\ \A m \in 1..(k - 1) : score[m] <= score[n]
    BY <2>3, <2>4, <2>7 DEF Leads
  <2>9. CASE score[k] <= score[n]
    <3>1. ASSUME NEW m \in 1..k PROVE score[m] <= score[n]
      <4>1. m \in 1..(k - 1) \/ m = k
        BY <2>3
      <4> QED
        BY <2>8, <2>9, <4>1
    <3>2. Leads(score, n, k)
      BY <2>8, <3>1 DEF Leads
    <3> QED
      BY <2>3, <2>8, <3>2
  <2>10. CASE score[n] < score[k]
    <3>1. ASSUME NEW m \in 1..k PROVE score[m] <= score[k]
      <4>1. m \in 1..(k - 1) \/ m = k
        BY <2>3
      <4>2. score[m] \in Nat
        BY <2>4
      <4> QED
        BY <2>8, <2>10, <4>1, <4>2
    <3>2. Leads(score, k, k)
      BY <2>8, <3>1 DEF Leads
    <3> QED
      BY <2>3, <2>8, <3>2
  <2> QED
    BY <2>8, <2>9, <2>10
<1> QED
  BY <1>2

\* The first of those that score most.
LEMMA FirstPeakIs ==
  ASSUME NEW score \in [1..ChartPoints -> Nat]
  PROVE  /\ FirstPeak(score) \in 1..ChartPoints
         /\ \A m \in 1..ChartPoints : score[m] <= score[FirstPeak(score)]
         /\ \A m \in 1..(FirstPeak(score) - 1) : score[m] < score[FirstPeak(score)]
<1> DEFINE Peaks == {n \in 1..ChartPoints : Leads(score, n, ChartPoints)}
<1>1. ChartPoints \in Nat /\ ChartPoints \in 1..ChartPoints
  BY ActivityAssumption
<1>2. Peaks # {} /\ Peaks \subseteq Nat
  BY <1>1, OneLeads
<1>3. PICK n \in Peaks : \A k \in Peaks : n <= k
  <2> HIDE DEF Peaks
  <2> QED
    BY <1>2, LeastNumber
<1>4. n \in 1..ChartPoints /\ \A m \in 1..ChartPoints : score[m] <= score[n]
  BY <1>3 DEF Leads
<1>5. ASSUME NEW m \in 1..(n - 1) PROVE score[m] < score[n]
  <2>1. m \in 1..ChartPoints /\ m \notin Peaks
    <3>1. m \in 1..ChartPoints /\ ~(n <= m)
      BY <1>1, <1>4
    <3> HIDE DEF Peaks
    <3> QED
      BY <1>3, <3>1
  <2>2. ~Leads(score, m, ChartPoints)
    BY <2>1
  <2>3. \A k \in 1..ChartPoints : score[k] \in Nat
    OBVIOUS
  <2>4. PICK k \in 1..ChartPoints : ~(score[k] <= score[m])
    BY <2>1, <2>2 DEF Leads
  <2> QED
    BY <1>4, <2>1, <2>3, <2>4
<1>6. \E p \in 1..ChartPoints :
        /\ \A m \in 1..ChartPoints : score[m] <= score[p]
        /\ \A m \in 1..(p - 1) : score[m] < score[p]
  BY <1>4, <1>5
<1> QED
  BY <1>6 DEF FirstPeak

\* A stock that grows by what is added in each step stands highest from the last step in
\* which something was.
LEMMA PeakOfStock ==
  ASSUME NEW A, IsFiniteSet(A), NEW step \in [A -> 1..ChartPoints],
         NEW score \in [1..ChartPoints -> Nat],
         \A n \in 1..ChartPoints : score[n] = Cardinality({i \in A : step[i] <= n})
  PROVE  /\ FirstPeak(score) \in 1..ChartPoints
         /\ score[ChartPoints] = Cardinality(A)
         /\ \A i \in A : step[i] <= FirstPeak(score)
         /\ A # {} => \E i \in A : step[i] = FirstPeak(score)
         /\ A = {} => FirstPeak(score) = 1
<1> DEFINE Grown(n) == {i \in A : step[i] <= n}
<1>1. ChartPoints \in Nat /\ ChartPoints \in 1..ChartPoints /\ 1 \in 1..ChartPoints
  BY ActivityAssumption
<1>2. PICK p \in 1..ChartPoints :
        /\ p = FirstPeak(score)
        /\ \A m \in 1..ChartPoints : score[m] <= score[p]
        /\ \A m \in 1..(p - 1) : score[m] < score[p]
  BY FirstPeakIs
<1>3. \A i \in A : step[i] \in 1..ChartPoints
  OBVIOUS
<1>4. Grown(ChartPoints) = A /\ Grown(p) \subseteq A
  BY <1>1, <1>3
<1>5. score[ChartPoints] = Cardinality(A) /\ score[p] = Cardinality(Grown(p))
  BY <1>1, <1>4
<1>6. Grown(p) = A
  <2> HIDE DEF Grown
  <2>1. Cardinality(Grown(p)) <= Cardinality(A) /\ Cardinality(A) <= Cardinality(Grown(p))
    BY <1>1, <1>2, <1>4, <1>5, FS_Subset
  <2>2. IsFiniteSet(Grown(p)) /\ Cardinality(Grown(p)) \in Nat /\ Cardinality(A) \in Nat
    BY <1>4, FS_Subset, FS_CardinalityType
  <2> QED
    BY <1>4, <2>1, <2>2, FS_Subset
<1>7. \A i \in A : step[i] <= p
  BY <1>6
<1>8. ASSUME A # {}, \A i \in A : step[i] # p PROVE FALSE
  <2>1. \A i \in A : step[i] <= p - 1
    BY <1>2, <1>3, <1>7, <1>8, <1>1
  <2>2. p > 1
    BY <1>1, <1>2, <1>3, <1>8, <2>1
  <2>3. (p - 1) \in 1..ChartPoints /\ (p - 1) \in 1..(p - 1)
    BY <1>1, <1>2, <2>2
  <2>4. Grown(p - 1) = A
    BY <2>1
  <2>5. score[p - 1] = score[p]
    BY <1>5, <1>6, <2>3, <2>4
  <2> QED
    BY <1>2, <2>3, <2>5
<1>9. ASSUME A = {} PROVE p = 1
  <2>1. \A n \in 1..ChartPoints : score[n] = 0
    <3>1. \A n : {i \in A : step[i] <= n} = {}
      BY <1>9
    <3> QED
      BY <3>1, FS_EmptySet
  <2>2. ASSUME p > 1 PROVE FALSE
    <3>1. 1 \in 1..(p - 1)
      BY <1>1, <1>2, <2>2
    <3> QED
      BY <1>1, <1>2, <2>1, <3>1
  <2> QED
    BY <1>1, <1>2, <2>2
<1> QED
  BY <1>2, <1>5, <1>7, <1>8, <1>9

\* The chart's points, what they stand for, and their peaks.
Charted == OnChart("request") \union OnChart("offer")

LEMMA ChartedIs ==
  ASSUME ChartTypeOK, chart # NotCharted
  PROVE  /\ Charted \subseteq chart.posts /\ IsFiniteSet(Charted)
         /\ \A i \in Charted : StepOf(Posts[i].at) \in 1..ChartPoints
         /\ OnChart("request") \subseteq Charted /\ OnChart("offer") \subseteq Charted
         /\ OnChart("request") \intersect OnChart("offer") = {}
<1>1. /\ OnChart("request") \subseteq OfKind("request") /\ OnChart("offer") \subseteq OfKind("offer")
      /\ \A i \in OnChart("request") : StepOf(Posts[i].at) \in 1..ChartPoints
      /\ \A i \in OnChart("offer") : StepOf(Posts[i].at) \in 1..ChartPoints
  BY OnChartHas
<1>2. Charted \subseteq chart.posts
  BY <1>1, TwoKinds DEF Charted
<1>3. IsFiniteSet(Charted)
  BY <1>2, ChartIs, FS_Subset
<1>4. OnChart("request") \intersect OnChart("offer") = {}
  BY <1>1, TwoKinds
<1> QED
  BY <1>1, <1>2, <1>3, <1>4 DEF Charted

LEMMA PointIs ==
  ASSUME ChartTypeOK, chart # NotCharted, NEW kind, NEW n \in Int
  PROVE  Point(kind, n) \in Nat
<1>1. IsFiniteSet({i \in OnChart(kind) : StepOf(Posts[i].at) <= n})
  BY OnChartHas, FS_Subset
<1> QED
  BY <1>1, FS_CardinalityType DEF Point

BothPoints == [n \in 1..ChartPoints |-> Point("request", n) + Point("offer", n)]

RequestPoints == [n \in 1..ChartPoints |-> Point("request", n)]

LEMMA BothAreCharted ==
  ASSUME ChartTypeOK, chart # NotCharted, NEW n \in 1..ChartPoints
  PROVE  BothPoints[n] = Cardinality({i \in Charted : StepOf(Posts[i].at) <= n})
<1> DEFINE A == {i \in OnChart("request") : StepOf(Posts[i].at) <= n}
           B == {i \in OnChart("offer") : StepOf(Posts[i].at) <= n}
<1>1. A \subseteq Charted /\ B \subseteq Charted /\ Apart(A, B) /\ IsFiniteSet(Charted)
  BY ChartedIs DEF Apart
<1>2. Together(A, B) = {i \in Charted : StepOf(Posts[i].at) <= n}
  BY DEF Charted, Together
<1>3. Point("request", n) = Cardinality(A) /\ Point("offer", n) = Cardinality(B)
  BY DEF Point
<1> HIDE DEF A, B
<1>4. Cardinality(Together(A, B)) = Cardinality(A) + Cardinality(B)
  BY <1>1, DisjointCounts
<1> QED
  BY <1>2, <1>3, <1>4 DEF BothPoints

\* The last point counts what was loaded, nothing was posted after the peak, and the
\* requests' own peak is no later.
LEMMA ChartPeaks ==
  ASSUME ChartTypeOK, chart # NotCharted
  PROVE  /\ Point("request", ChartPoints) + Point("offer", ChartPoints) = Cardinality(Charted)
         /\ Point("request", ChartPoints) = Cardinality(OnChart("request"))
         /\ PeakStep \in 1..ChartPoints
         /\ \A i \in Charted : StepOf(Posts[i].at) <= PeakStep
         /\ Charted # {} => \E i \in Charted : StepOf(Posts[i].at) = PeakStep
         /\ \A i \in OnChart("request") : StepOf(Posts[i].at) <= BestWindow
         /\ BestWindow <= PeakStep
<1>1. ChartPoints \in Nat /\ ChartPoints \in 1..ChartPoints
  BY ActivityAssumption
<1>2. \A n \in 1..ChartPoints : Point("request", n) \in Nat /\ Point("offer", n) \in Nat
  BY <1>1, PointIs
<1>3. BothPoints \in [1..ChartPoints -> Nat] /\ RequestPoints \in [1..ChartPoints -> Nat]
  BY <1>2 DEF BothPoints, RequestPoints
<1>4. PeakStep = FirstPeak(BothPoints) /\ BestWindow = FirstPeak(RequestPoints)
  BY DEF PeakStep, BestWindow, BothPoints, RequestPoints
<1> DEFINE S == Charted
           step == [i \in S |-> StepOf(Posts[i].at)]
<1>5. /\ BothPoints[ChartPoints] = Cardinality(S)
      /\ PeakStep \in 1..ChartPoints
      /\ \A i \in S : StepOf(Posts[i].at) <= PeakStep
      /\ S # {} => \E i \in S : StepOf(Posts[i].at) = PeakStep
  <2>1. step \in [S -> 1..ChartPoints] /\ IsFiniteSet(S)
    BY ChartedIs
  <2>2. ASSUME NEW n \in 1..ChartPoints
        PROVE  BothPoints[n] = Cardinality({i \in S : step[i] <= n})
    <3>1. {i \in S : step[i] <= n} = {i \in S : StepOf(Posts[i].at) <= n}
      OBVIOUS
    <3> QED
      BY <3>1, BothAreCharted
  <2>3. \A i \in S : step[i] = StepOf(Posts[i].at)
    OBVIOUS
  <2> HIDE DEF step, S
  <2>4. /\ FirstPeak(BothPoints) \in 1..ChartPoints
        /\ BothPoints[ChartPoints] = Cardinality(S)
        /\ \A i \in S : step[i] <= FirstPeak(BothPoints)
        /\ S # {} => \E i \in S : step[i] = FirstPeak(BothPoints)
        /\ S = {} => FirstPeak(BothPoints) = 1
    BY <1>3, <2>1, <2>2, PeakOfStock
  <2> QED
    BY <1>4, <2>3, <2>4
<1>6. /\ RequestPoints[ChartPoints] = Cardinality(OnChart("request"))
      /\ BestWindow \in 1..ChartPoints
      /\ \A i \in OnChart("request") : StepOf(Posts[i].at) <= BestWindow
      /\ OnChart("request") # {} =>
           \E i \in OnChart("request") : StepOf(Posts[i].at) = BestWindow
      /\ OnChart("request") = {} => BestWindow = 1
  <2> DEFINE R == OnChart("request")
             when == [i \in R |-> StepOf(Posts[i].at)]
  <2>1. when \in [R -> 1..ChartPoints] /\ IsFiniteSet(R)
    BY OnChartHas
  <2>2. ASSUME NEW n \in 1..ChartPoints
        PROVE  RequestPoints[n] = Cardinality({i \in R : when[i] <= n})
    <3>1. {i \in R : when[i] <= n} = {i \in R : StepOf(Posts[i].at) <= n}
      OBVIOUS
    <3> QED
      BY <3>1 DEF RequestPoints, Point
  <2>3. \A i \in R : when[i] = StepOf(Posts[i].at)
    OBVIOUS
  <2> HIDE DEF when, R
  <2>4. /\ FirstPeak(RequestPoints) \in 1..ChartPoints
        /\ RequestPoints[ChartPoints] = Cardinality(R)
        /\ \A i \in R : when[i] <= FirstPeak(RequestPoints)
        /\ R # {} => \E i \in R : when[i] = FirstPeak(RequestPoints)
        /\ R = {} => FirstPeak(RequestPoints) = 1
    BY <1>3, <2>1, <2>2, PeakOfStock
  <2> QED
    BY <1>4, <2>3, <2>4 DEF R
<1>7. BestWindow <= PeakStep
  <2>1. CASE OnChart("request") = {}
    BY <1>1, <1>5, <1>6, <2>1
  <2>2. CASE OnChart("request") # {}
    <3>1. PICK i \in OnChart("request") : StepOf(Posts[i].at) = BestWindow
      BY <1>6, <2>2
    <3>2. i \in Charted
      BY <3>1 DEF Charted
    <3> QED
      BY <1>5, <3>1, <3>2
  <2> QED
    BY <2>1, <2>2
<1>8. /\ BothPoints[ChartPoints] = Point("request", ChartPoints) + Point("offer", ChartPoints)
      /\ RequestPoints[ChartPoints] = Point("request", ChartPoints)
  BY <1>1 DEF BothPoints, RequestPoints
<1> QED
  BY <1>5, <1>6, <1>7, <1>8

\* What a person did in a step is of the chart, but for his requests when a subcategory
\* is chosen.
LEMMA OwnRowsAre ==
  ASSUME ChartTypeOK, chart # NotCharted, NEW kind
  PROVE  /\ OwnRows(kind) \subseteq OfKind(kind) /\ IsFiniteSet(OwnRows(kind))
         /\ \A i \in OwnRows(kind) :
              /\ Posts[i].viewer = TRUE /\ Posts[i].at \in Nat /\ Posts[i].at <= chart.now
              /\ ~(kind = "request" /\ chart.bySub = TRUE) => InFilter(i)
<1>1. OwnRows(kind) \subseteq OfKind(kind)
  BY DEF OwnRows
<1>2. IsFiniteSet(OwnRows(kind))
  BY <1>1, OnChartHas, FS_Subset
<1>3. ASSUME NEW i \in OwnRows(kind)
      PROVE  /\ Posts[i].viewer = TRUE /\ Posts[i].at \in Nat /\ Posts[i].at <= chart.now
             /\ ~(kind = "request" /\ chart.bySub = TRUE) => InFilter(i)
  <2>1. i \in OfKind(kind) /\ i \in DOMAIN Posts
    BY <1>1, OnChartHas, ChartIs
  <2>2. /\ Posts[i].kind = kind /\ Posts[i].kind \in {"request", "offer"}
        /\ Posts[i].at \in Nat /\ Posts[i].viewer \in BOOLEAN
    BY <2>1, PostsTyped DEF OfKind
  <2>3. Posts[i].viewer /\ Posts[i].at \in WindowStart..chart.end
    BY <1>3 DEF OwnRows
  <2>4. kind = "offer" => InFilter(i)
    BY <1>3 DEF OwnRows
  <2>5. chart.bySub = FALSE => InFilter(i)
    BY DEF InFilter
  <2>6. Posts[i].at <= chart.now
    BY <2>2, <2>3, ChartIs
  <2>7. chart.bySub \in BOOLEAN
    BY ChartIs
  <2> QED
    BY <2>2, <2>3, <2>4, <2>5, <2>6, <2>7
<1> QED
  BY <1>1, <1>2, <1>3

\* The rows of a step, those of them that are on the chart.
OwnStep(kind, n) == {i \in OwnRows(kind) : Posts[i].at >= ChartStart /\ StepOf(Posts[i].at) = n}

LEMMA OwnStepIs ==
  ASSUME ChartTypeOK, chart # NotCharted, NEW kind, NEW n \in 1..ChartPoints
  PROVE  /\ OwnCount(kind, n) = Cardinality(OwnStep(kind, n)) /\ IsFiniteSet(OwnStep(kind, n))
         /\ OwnCount(kind, n) \in Nat
         /\ OwnCount(kind, n) = 0 => OwnStep(kind, n) = {}
         /\ ~(kind = "request" /\ chart.bySub = TRUE) =>
              /\ OwnStep(kind, n) \subseteq OnChart(kind)
              /\ OwnCount(kind, n) <= Growth(kind, n)
<1>1. OwnCount(kind, n) = Cardinality(OwnStep(kind, n))
  BY DEF OwnCount, OwnStep
<1>2. IsFiniteSet(OwnStep(kind, n))
  BY OwnRowsAre, FS_Subset DEF OwnStep
<1>3. Cardinality(OwnStep(kind, n)) \in Nat
  BY <1>2, FS_CardinalityType
<1>4. Cardinality(OwnStep(kind, n)) = 0 => OwnStep(kind, n) = {}
  BY <1>2, FS_EmptySet
<1>5. ASSUME ~(kind = "request" /\ chart.bySub = TRUE)
      PROVE  /\ OwnStep(kind, n) \subseteq OnChart(kind)
             /\ OwnCount(kind, n) <= Growth(kind, n)
  <2>1. ASSUME NEW i \in OwnStep(kind, n) PROVE i \in OnChart(kind) /\ StepOf(Posts[i].at) = n
    <3>1. i \in OwnRows(kind) /\ Posts[i].at >= ChartStart /\ StepOf(Posts[i].at) = n
      BY <2>1 DEF OwnStep
    <3>2. i \in OfKind(kind) /\ InFilter(i) /\ Posts[i].at <= chart.now
      BY <1>5, <3>1, OwnRowsAre
    <3> QED
      BY <3>1, <3>2, OnChartHas
  <2> DEFINE grown == {i \in OnChart(kind) : StepOf(Posts[i].at) = n}
  <2>2. OwnStep(kind, n) \subseteq grown /\ OwnStep(kind, n) \subseteq OnChart(kind)
    BY <2>1
  <2>3. IsFiniteSet(grown)
    BY OnChartHas, FS_Subset
  <2>4. Growth(kind, n) = Cardinality(grown)
    BY DEF Growth
  <2> HIDE DEF grown
  <2>5. Cardinality(OwnStep(kind, n)) <= Cardinality(grown)
    BY <2>2, <2>3, FS_Subset
  <2> QED
    BY <1>1, <2>2, <2>4, <2>5
<1> QED
  BY <1>1, <1>2, <1>3, <1>4, <1>5

LEMMA OwnScoreIs ==
  ASSUME ChartTypeOK, chart # NotCharted, NEW n \in 1..ChartPoints
  PROVE  /\ OwnScore(n) \in Nat
         /\ OwnScore(n) # 0 => OwnCount("request", n) # 0 \/ OwnCount("offer", n) # 0
<1>1. OwnCount("request", n) \in Nat /\ OwnCount("offer", n) \in Nat
  BY OwnStepIs
<1> QED
  BY <1>1 DEF OwnScore

\* Who is told to be at the peak has posted in its step.
ToldAtPeak == OwnSummary = "at the peak"

LEMMA PeakIsOwn ==
  ASSUME ChartTypeOK, chart # NotCharted, ToldAtPeak, chart.bySub = FALSE
  PROVE  \E i \in Charted : Posts[i].viewer = TRUE /\ StepOf(Posts[i].at) = PeakStep
<1> DEFINE score == [n \in 1..ChartPoints |-> OwnScore(n)]
<1>2. \A n \in 1..ChartPoints : score[n] = OwnScore(n) /\ OwnScore(n) \in Nat
  BY OwnScoreIs
<1>3. score \in [1..ChartPoints -> Nat]
  BY <1>2
<1>4. (\E n \in 1..ChartPoints : score[n] # 0) /\ FirstPeak(score) = PeakStep
  BY DEF ToldAtPeak, OwnSummary
<1> HIDE DEF score
<1>5. PICK n \in 1..ChartPoints : score[n] # 0
  BY <1>4
<1>6. /\ PeakStep \in 1..ChartPoints /\ score[n] <= score[PeakStep]
      /\ score[n] \in Nat /\ score[PeakStep] \in Nat
  <2>1. FirstPeak(score) \in 1..ChartPoints /\ score[n] <= score[FirstPeak(score)]
    BY <1>3, <1>5, FirstPeakIs
  <2>2. PeakStep \in 1..ChartPoints /\ score[n] <= score[PeakStep]
    BY <1>4, <2>1
  <2> QED
    BY <1>3, <1>5, <2>2
<1>7. score[PeakStep] # 0
  BY <1>5, <1>6
<1>8. PICK kind \in {"request", "offer"} : OwnCount(kind, PeakStep) # 0
  <2>1. OwnScore(PeakStep) # 0
    BY <1>2, <1>6, <1>7
  <2> QED
    BY <1>6, <2>1, OwnScoreIs
<1>9. OwnStep(kind, PeakStep) # {}
  BY <1>6, <1>8, OwnStepIs, FS_EmptySet
<1>10. PICK i \in OwnStep(kind, PeakStep) : TRUE
  BY <1>9
<1>11. i \in OwnRows(kind) /\ StepOf(Posts[i].at) = PeakStep
  BY <1>10 DEF OwnStep
<1>12. i \in OnChart(kind)
  BY <1>6, <1>10, OwnStepIs
<1>13. Posts[i].viewer = TRUE /\ i \in Charted
  BY <1>8, <1>11, <1>12, OwnRowsAre DEF Charted
<1> QED
  BY <1>11, <1>13

\* Without a count there is nothing of a person on the chart.
LEMMA NothingCharted ==
  ASSUME ChartTypeOK, chart # NotCharted, NEW kind, OwnSeries(kind)[1] = NotCharted
  PROVE  \A i \in OwnRows(kind) : Posts[i].at < ChartStart
<1>1. 1 \in 1..ChartPoints /\ NotCharted \notin Int
  BY ActivityAssumption
<1>2. \A n \in 1..ChartPoints : OwnCount(kind, n) \in Nat
  BY OwnStepIs
<1>3. OwnSeries(kind)[1] = IF \A m \in 1..ChartPoints : OwnCount(kind, m) = 0
                           THEN NotCharted ELSE OwnCount(kind, 1)
  BY <1>1 DEF OwnSeries
<1>4. \A m \in 1..ChartPoints : OwnCount(kind, m) = 0
  BY <1>1, <1>2, <1>3
<1>5. ASSUME NEW i \in OwnRows(kind), Posts[i].at >= ChartStart PROVE FALSE
  <2>1. Posts[i].at \in Nat /\ Posts[i].at <= chart.now
    BY OwnRowsAre
  <2>2. StepOf(Posts[i].at) \in 1..ChartPoints
    BY <1>5, <2>1, StepIs
  <2>3. i \in OwnStep(kind, StepOf(Posts[i].at))
    BY <1>5 DEF OwnStep
  <2>4. OwnStep(kind, StepOf(Posts[i].at)) = {}
    BY <1>4, <2>2, OwnStepIs
  <2> QED
    BY <2>3, <2>4
<1>6. \A i \in OwnRows(kind) : Posts[i].at \in Nat
  BY OwnRowsAre
<1>7. ChartStart \in Int
  BY ChartIs
<1> QED
  BY <1>5, <1>6, <1>7

\* The median: half of the values are no larger, and half no smaller.
ValueKeys(S, value) == [i \in S |-> <<value[i], i>>]

LEMMA ValuesSorted ==
  ASSUME NEW S, IsFiniteSet(S), S \subseteq Nat, NEW value \in [S -> Int]
  PROVE  /\ IsSorted(InOrder(S, ValueKeys(S, value)), S, ValueKeys(S, value))
         /\ \A i, j \in 1..Len(InOrder(S, ValueKeys(S, value))) :
              i <= j => value[InOrder(S, ValueKeys(S, value))[i]]
                          <= value[InOrder(S, ValueKeys(S, value))[j]]
<1> DEFINE key == ValueKeys(S, value)
           list == InOrder(S, key)
<1>1. ASSUME NEW i \in S PROVE key[i] = <<value[i], i>> /\ value[i] \in Int /\ i \in Int
  BY <1>1 DEF ValueKeys
<1>2. ASSUME NEW i \in S PROVE IsKey(key[i], 2)
  <2>1. IsKey(<<value[i], i>>, 2)
    BY <1>1, <1>2, TwoKeys
  <2> QED
    BY <1>1, <1>2, <2>1
<1>3. ASSUME NEW i \in S, NEW j \in S, key[i] = key[j] PROVE i = j
  <2>1. <<value[i], i>> = <<value[j], j>>
    BY <1>1, <1>3
  <2> QED
    BY <2>1
<1> HIDE DEF key
<1>4. IsSorted(list, S, key)
  BY <1>2, <1>3, InOrderSorts
<1> HIDE DEF list
<1>5. ASSUME NEW i \in 1..Len(list), NEW j \in 1..Len(list), i <= j
      PROVE  value[list[i]] <= value[list[j]]
  <2>1. list[i] \in S /\ list[j] \in S /\ Len(list) \in Nat
    BY <1>4 DEF IsSorted
  <2>2. value[list[i]] \in Int /\ value[list[j]] \in Int
    BY <2>1
  <2>3. CASE i = j
    BY <2>2, <2>3
  <2>4. CASE i # j
    <3>1. i < j
      BY <1>5, <2>1, <2>4
    <3>2. Precedes(key[list[i]], key[list[j]])
      BY <1>4, <3>1 DEF IsSorted
    <3>3. Precedes(<<value[list[i]], list[i]>>, <<value[list[j]], list[j]>>)
      BY <1>1, <2>1, <3>2
    <3>4. list[i] \in Int /\ list[j] \in Int
      BY <1>1, <2>1
    <3> QED
      BY <2>2, <3>3, <3>4, PrecedesTwo
  <2> QED
    BY <2>3, <2>4
<1> QED
  BY <1>4, <1>5 DEF list, key

\* The members from one place to another, among those a bound holds for.
LEMMA StretchWithin ==
  ASSUME NEW S, IsFiniteSet(S), NEW key, NEW list, IsSorted(list, S, key),
         NEW a \in Nat, NEW b \in Nat, a <= b, b <= Len(list), NEW T \in SUBSET S,
         \A k \in (a + 1)..b : list[k] \in T
  PROVE  Cardinality(T) \in Nat /\ b - a <= Cardinality(T)
<1>1. IsFiniteSet(T) /\ Cardinality(T) \in Nat
  BY FS_Subset, FS_CardinalityType
<1>2. Stretch(list, a, b) \subseteq T
  BY DEF Stretch
<1>3. Cardinality(Stretch(list, a, b)) = b - a
  BY StretchCount
<1> QED
  BY <1>1, <1>2, <1>3, FS_Subset

NoMoreThan(S, value, m) == {i \in S : 2 * value[i] <= m}

NoLessThan(S, value, m) == {i \in S : 2 * value[i] >= m}

LEMMA MedianHalves ==
  ASSUME NEW S, IsFiniteSet(S), S \subseteq Nat, S # {}, NEW value \in [S -> Int]
  PROVE  /\ 2 * Cardinality(NoMoreThan(S, value, MedianTwice(S, value))) >= Cardinality(S)
         /\ 2 * Cardinality(NoLessThan(S, value, MedianTwice(S, value))) >= Cardinality(S)
<1> DEFINE key == ValueKeys(S, value)
           list == InOrder(S, key)
           n == Len(list)
<1>1. IsSorted(list, S, key)
  BY ValuesSorted
<1>2. \A i, j \in 1..n : i <= j => value[list[i]] <= value[list[j]]
  BY ValuesSorted
<1>3. MedianTwice(S, value) =
        CASE n = 0 -> NotCharted
          [] n % 2 = 1 -> 2 * value[list[(n + 1) \div 2]]
          [] OTHER -> value[list[n \div 2]] + value[list[n \div 2 + 1]]
  BY DEF MedianTwice, ValueKeys
<1> HIDE DEF key, list
<1>4. n = Cardinality(S) /\ n \in Nat /\ n # 0 /\ \A k \in 1..n : list[k] \in S
  <2>1. Cardinality(S) # 0
    BY FS_EmptySet
  <2> QED
    BY <1>1, <2>1 DEF IsSorted
<1>5. \A k \in 1..n : value[list[k]] \in Int
  BY <1>4
<1> HIDE DEF n
<1>6. SUFFICES ASSUME NEW m \in Int, NEW a \in 1..n, NEW b \in 1..n,
                      m = MedianTwice(S, value), 2 * a >= n, 2 * (n - b + 1) >= n,
                      2 * value[list[a]] <= m, m <= 2 * value[list[b]]
               PROVE  /\ 2 * Cardinality(NoMoreThan(S, value, m)) >= n
                      /\ 2 * Cardinality(NoLessThan(S, value, m)) >= n
  <2>1. CASE n % 2 = 1
    <3>1. PICK h \in 1..n : 2 * h = n + 1 /\ h = (n + 1) \div 2
      BY <1>4, <2>1
    <3>2. MedianTwice(S, value) = 2 * value[list[h]]
      BY <1>3, <1>4, <2>1, <3>1
    <3>3. value[list[h]] \in Int
      BY <1>5
    <3>4. 2 * value[list[h]] \in Int /\ 2 * h >= n /\ 2 * (n - h + 1) >= n
      BY <1>4, <3>1, <3>3
    <3> QED
      BY <1>4, <1>6, <3>2, <3>4
  <2>2. CASE n % 2 = 0
    <3>1. PICK h \in 1..n : 2 * h = n /\ h = n \div 2 /\ h + 1 \in 1..n
      BY <1>4, <2>2
    <3>2. MedianTwice(S, value) = value[list[h]] + value[list[h + 1]]
      BY <1>3, <1>4, <2>2, <3>1
    <3>3. /\ value[list[h]] \in Int /\ value[list[h + 1]] \in Int
          /\ value[list[h]] <= value[list[h + 1]]
      BY <1>2, <1>4, <1>5, <3>1
    <3>4. /\ MedianTwice(S, value) \in Int
          /\ 2 * value[list[h]] <= MedianTwice(S, value)
          /\ MedianTwice(S, value) <= 2 * value[list[h + 1]]
      BY <3>2, <3>3
    <3>5. 2 * h >= n /\ 2 * (n - (h + 1) + 1) >= n
      BY <1>4, <3>1
    <3> QED
      BY <1>4, <1>6, <3>1, <3>4, <3>5
  <2> QED
    BY <1>4, <2>1, <2>2
<1>7. a \in Nat /\ b - 1 \in Nat /\ 0 + 1 = 1 /\ (b - 1) + 1 = b /\ a <= n /\ b - 1 <= n
  BY <1>4
<1>8. a <= Cardinality(NoMoreThan(S, value, m)) /\ Cardinality(NoMoreThan(S, value, m)) \in Nat
  <2>1. ASSUME NEW k \in (0 + 1)..a PROVE list[k] \in NoMoreThan(S, value, m)
    <3>1. k \in 1..n /\ k <= a
      BY <1>4, <1>7
    <3>2. value[list[k]] <= value[list[a]] /\ value[list[k]] \in Int /\ value[list[a]] \in Int
      BY <1>2, <1>5, <3>1
    <3>3. 2 * value[list[k]] <= m
      BY <1>6, <3>2
    <3> QED
      BY <1>4, <3>1, <3>3 DEF NoMoreThan
  <2>2. NoMoreThan(S, value, m) \in SUBSET S
    BY DEF NoMoreThan
  <2>3. 0 \in Nat /\ 0 <= a /\ a <= Len(list) /\ a - 0 = a
    BY <1>7 DEF n
  <2>4. /\ Cardinality(NoMoreThan(S, value, m)) \in Nat
        /\ a - 0 <= Cardinality(NoMoreThan(S, value, m))
    BY <1>1, <1>7, <2>1, <2>2, <2>3, StretchWithin
  <2> QED
    BY <2>3, <2>4
<1>9. /\ n - b + 1 <= Cardinality(NoLessThan(S, value, m))
      /\ Cardinality(NoLessThan(S, value, m)) \in Nat
  <2>1. ASSUME NEW k \in ((b - 1) + 1)..n PROVE list[k] \in NoLessThan(S, value, m)
    <3>1. k \in 1..n /\ b <= k
      BY <1>4, <1>7
    <3>2. value[list[b]] <= value[list[k]] /\ value[list[k]] \in Int /\ value[list[b]] \in Int
      BY <1>2, <1>5, <3>1
    <3>3. 2 * value[list[k]] >= m
      BY <1>6, <3>2
    <3> QED
      BY <1>4, <3>1, <3>3 DEF NoLessThan
  <2>2. NoLessThan(S, value, m) \in SUBSET S
    BY DEF NoLessThan
  <2>3. n \in Nat /\ n <= Len(list) /\ n - (b - 1) = n - b + 1
    BY <1>4, <1>7 DEF n
  <2>4. /\ Cardinality(NoLessThan(S, value, m)) \in Nat
        /\ n - (b - 1) <= Cardinality(NoLessThan(S, value, m))
    BY <1>1, <1>7, <2>1, <2>2, <2>3, StretchWithin
  <2> QED
    BY <2>3, <2>4
<1> QED
  BY <1>4, <1>6, <1>8, <1>9

\* The answers, of which there are no more than requests.
LEMMA ScopedPostsAre ==
  ASSUME ChartTypeOK, chart # NotCharted
  PROVE  /\ IsFiniteSet(ScopedPosts) /\ IsFiniteSet(Answered)
         /\ Answered \subseteq Nat
         /\ [i \in Answered |-> AnswerTime(i)] \in [Answered -> Int]
         /\ Cardinality(UnansweredOverDay) + Cardinality(Answered) <= Cardinality(ScopedPosts)
<1>1. ScopedPosts \subseteq chart.posts /\ IsFiniteSet(ScopedPosts)
  <2>1. ScopedPosts \subseteq OfKind("request")
    BY DEF ScopedPosts
  <2> QED
    BY <2>1, OnChartHas, FS_Subset
<1>2. Answered \subseteq ScopedPosts /\ UnansweredOverDay \subseteq ScopedPosts
  BY DEF Answered, UnansweredOverDay
<1>3. Apart(UnansweredOverDay, Answered)
  BY DEF Answered, UnansweredOverDay, Apart
<1>4. /\ IsFiniteSet(Answered)
      /\ Together(UnansweredOverDay, Answered) \subseteq ScopedPosts
      /\ Cardinality(UnansweredOverDay) + Cardinality(Answered)
           = Cardinality(Together(UnansweredOverDay, Answered))
  BY <1>1, <1>2, <1>3, DisjointCounts
<1>5. Cardinality(Together(UnansweredOverDay, Answered)) <= Cardinality(ScopedPosts)
  BY <1>1, <1>4, FS_Subset
<1>6. ASSUME NEW i \in Answered PROVE i \in Nat /\ AnswerTime(i) \in Int
  <2>1. i \in DOMAIN Posts /\ Posts[i].offered # NotCharted
    BY <1>1, <1>2, <1>6, ChartIs DEF Answered
  <2>2. i \in Nat /\ Posts[i].offered \in Nat /\ Posts[i].at \in Nat
    BY <2>1, PostsTyped
  <2> QED
    BY <2>2 DEF AnswerTime
<1>7. Answered \subseteq Nat /\ [i \in Answered |-> AnswerTime(i)] \in [Answered -> Int]
  BY <1>6
<1> QED
  BY <1>1, <1>4, <1>5, <1>7

LEMMA AnswersAreHalved ==
  ASSUME ChartTypeOK, chart # NotCharted, Answered # {}
  PROVE  /\ 2 * Cardinality({i \in Answered : 2 * AnswerTime(i) <= AnswerMedian})
              >= Cardinality(Answered)
         /\ 2 * Cardinality({i \in Answered : 2 * AnswerTime(i) >= AnswerMedian})
              >= Cardinality(Answered)
<1> DEFINE value == [i \in Answered |-> AnswerTime(i)]
<1>1. AnswerMedian = MedianTwice(Answered, value)
  BY DEF AnswerMedian
<1>2. /\ NoMoreThan(Answered, value, AnswerMedian)
           = {i \in Answered : 2 * AnswerTime(i) <= AnswerMedian}
      /\ NoLessThan(Answered, value, AnswerMedian)
           = {i \in Answered : 2 * AnswerTime(i) >= AnswerMedian}
  BY DEF NoMoreThan, NoLessThan
<1>3. value \in [Answered -> Int]
  BY ScopedPostsAre
<1> HIDE DEF value
<1>4. /\ 2 * Cardinality(NoMoreThan(Answered, value, AnswerMedian)) >= Cardinality(Answered)
      /\ 2 * Cardinality(NoLessThan(Answered, value, AnswerMedian)) >= Cardinality(Answered)
  BY <1>1, <1>3, ScopedPostsAre, MedianHalves
<1> QED
  BY <1>2, <1>4

\* Requests without an offer are warned of.
LEMMA NoOffersWarn ==
  ASSUME ChartTypeOK, chart # NotCharted, OnChart("offer") = {}
  PROVE  OfferRateTone = "warning"
<1>1. ChartPoints \in Nat /\ Point("request", ChartPoints) \in Nat
  BY ActivityAssumption, PointIs
<1>2. Point("offer", ChartPoints) = 0
  <2>1. {i \in OnChart("offer") : StepOf(Posts[i].at) <= ChartPoints} = {}
    OBVIOUS
  <2> QED
    BY <2>1, FS_EmptySet DEF Point
<1>3. PICK r \in Nat : r = AtLeast(1, Point("request", ChartPoints)) /\ r >= 1
  BY <1>1 DEF AtLeast
<1>4. 2 * r \in Nat \ {0} /\ r < (2 * r) * (0 + 1)
  BY <1>3
<1>5. r \div (2 * r) <= 0 /\ r \div (2 * r) \in Nat
  <2>1. \A y \in Nat \ {0} : r < y * (0 + 1) => r \div y <= 0
    BY QuotientBetween
  <2>2. \A y \in Nat \ {0} : r \div y \in Nat
    OBVIOUS
  <2> QED
    BY <1>4, <2>1, <2>2
<1>6. OfferRate = AtMost(100, r \div (2 * r))
  <2>1. OfferRate = AtMost(100, (200 * Point("offer", ChartPoints) + r) \div (2 * r))
    BY <1>3 DEF OfferRate
  <2>2. 200 * Point("offer", ChartPoints) + r = r
    BY <1>2, <1>3
  <2> QED
    BY <2>1, <2>2
<1>7. OfferRate = 0
  BY <1>5, <1>6 DEF AtMost
<1> QED
  BY <1>7 DEF OfferRateTone

\* The feed: newest first, of the same instant requests before offers.
NewestKey(i) == <<-Posts[i].at, IF Posts[i].kind = "request" THEN 0 ELSE 1, -i>>

NewestKeys(S) == [i \in S |-> NewestKey(i)]

LEMMA NewestKeyIs ==
  ASSUME NEW i \in DOMAIN Posts
  PROVE  IsKey(NewestKey(i), 3) /\ NewestKey(i)[1] = -Posts[i].at /\ NewestKey(i)[3] = -i
<1>1. Posts[i].at \in Nat /\ i \in Nat
  BY PostsTyped
<1>2. PICK a \in Int, b \in Int, c \in Int :
        a = -Posts[i].at /\ b = (IF Posts[i].kind = "request" THEN 0 ELSE 1) /\ c = -i
  <2>1. -Posts[i].at \in Int /\ -i \in Int
    BY <1>1, NegativeIs
  <2>2. (IF Posts[i].kind = "request" THEN 0 ELSE 1) \in Int
    OBVIOUS
  <2> QED
    BY <2>1, <2>2
<1>3. NewestKey(i) = <<a, b, c>>
  BY <1>2, Zenon DEF NewestKey
<1>4. IsKey(<<a, b, c>>, 3) /\ <<a, b, c>>[1] = a /\ <<a, b, c>>[3] = c
  BY ThreeKeys
<1>5. NewestKey(i)[1] = a /\ NewestKey(i)[3] = c /\ IsKey(NewestKey(i), 3)
  BY <1>3, <1>4
<1> QED
  BY <1>2, <1>5

LEMMA NewestSorted ==
  ASSUME NEW S, S \subseteq DOMAIN Posts, IsFiniteSet(S)
  PROVE  IsSorted(Newest(S), S, NewestKeys(S))
<1>1. ASSUME NEW i \in S PROVE NewestKeys(S)[i] = NewestKey(i) /\ i \in DOMAIN Posts
  BY <1>1 DEF NewestKeys
<1>2. ASSUME NEW i \in S PROVE IsKey(NewestKeys(S)[i], 3)
  BY <1>1, <1>2, NewestKeyIs
<1>3. ASSUME NEW i \in S, NEW j \in S, NewestKeys(S)[i] = NewestKeys(S)[j] PROVE i = j
  <2>1. NewestKey(i)[3] = -i /\ NewestKey(j)[3] = -j /\ NewestKey(i) = NewestKey(j)
    BY <1>1, <1>3, NewestKeyIs
  <2>2. i \in Nat /\ j \in Nat /\ -i = -j
    BY <1>1, <2>1, PostsTyped
  <2> QED
    BY <2>2
<1>4. Newest(S) = InOrder(S, NewestKeys(S))
  BY DEF Newest, NewestKeys, NewestKey
<1> QED
  BY <1>2, <1>3, <1>4, InOrderSorts

\* What comes before is no older, and what is newer comes before.
LEMMA NewestPrecedes ==
  ASSUME NEW i \in DOMAIN Posts, NEW j \in DOMAIN Posts
  PROVE  /\ Precedes(NewestKey(i), NewestKey(j)) => Posts[j].at <= Posts[i].at
         /\ Posts[j].at < Posts[i].at => Precedes(NewestKey(i), NewestKey(j))
<1>1. /\ IsKey(NewestKey(i), 3) /\ NewestKey(i)[1] = -Posts[i].at
      /\ IsKey(NewestKey(j), 3) /\ NewestKey(j)[1] = -Posts[j].at
      /\ Posts[i].at \in Nat /\ Posts[j].at \in Nat
  BY NewestKeyIs, PostsTyped
<1>2. PICK a \in Int, b \in Int : a = Posts[i].at /\ b = Posts[j].at
  BY <1>1
<1>3. 3 \in Nat \ {0}
  OBVIOUS
<1>4. ASSUME Precedes(NewestKey(i), NewestKey(j)) PROVE b <= a
  <2>1. NewestKey(i)[1] <= NewestKey(j)[1]
    BY <1>1, <1>3, <1>4, PrecedesFirst
  <2>2. -a <= -b
    BY <1>1, <1>2, <2>1
  <2> QED
    BY <2>2
<1>5. ASSUME b < a PROVE Precedes(NewestKey(i), NewestKey(j))
  <2>1. -a < -b
    BY <1>5
  <2>2. NewestKey(i)[1] < NewestKey(j)[1]
    BY <1>1, <1>2, <2>1
  <2> QED
    BY <1>1, <1>3, <2>2, FirstPrecedes
<1> QED
  BY <1>2, <1>4, <1>5

\* The newest N of some posts: all of them if there are no more, none older than what is
\* left out, and fewer than N newer than any of them.
NewestOf(S, N) == MembersOf(FirstOf(Newest(S), N))

LEMMA NewestOfIs ==
  ASSUME NEW S, S \subseteq DOMAIN Posts, IsFiniteSet(S), NEW N \in Nat
  PROVE  /\ NewestOf(S, N) \subseteq S /\ IsFiniteSet(NewestOf(S, N))
         /\ Cardinality(NewestOf(S, N)) = AtMost(N, Cardinality(S))
         /\ Len(FirstOf(Newest(S), N)) = AtMost(N, Cardinality(S))
         /\ Cardinality(S) <= N => NewestOf(S, N) = S
         /\ \A i \in S, j \in NewestOf(S, N) :
              i \notin NewestOf(S, N) => Posts[i].at <= Posts[j].at
         /\ \A j \in NewestOf(S, N), T \in SUBSET S :
              (\A y \in T : Posts[j].at < Posts[y].at) => Cardinality(T) < N
<1> DEFINE key == NewestKeys(S)
           list == Newest(S)
           m == AtMost(N, Len(list))
<1>1. IsSorted(list, S, key)
  BY NewestSorted
<1>2. \A i \in S : key[i] = NewestKey(i) /\ i \in DOMAIN Posts /\ Posts[i].at \in Nat
  BY PostsTyped DEF NewestKeys
<1> HIDE DEF key, list
<1>3. list \in Seq(S) /\ Len(list) = Cardinality(S) /\ Len(list) \in Nat
  BY <1>1 DEF IsSorted
<1>4. /\ Len(FirstOf(list, N)) = m /\ m \in Nat /\ m <= Len(list) /\ m <= N
      /\ FirstOf(list, N) \in Seq(S)
      /\ \A k \in 1..m : FirstOf(list, N)[k] = list[k]
  BY <1>3, FirstOfIs
<1>5. (Len(list) <= N => m = Len(list)) /\ (m < Len(list) => m = N)
  BY <1>3 DEF AtMost
<1>6. m = AtMost(N, Cardinality(S))
  BY <1>3
<1> HIDE DEF m
<1>7. NewestOf(S, N) = {list[k] : k \in 1..m}
  <2>1. DOMAIN FirstOf(list, N) = 1..m
    BY <1>4
  <2>2. NewestOf(S, N) = {FirstOf(list, N)[k] : k \in 1..m}
    BY <2>1 DEF NewestOf, MembersOf, list
  <2> QED
    BY <1>4, <2>2
<1>8. NewestOf(S, N) = Stretch(list, 0, m)
  BY <1>7 DEF Stretch
<1>9. /\ IsFiniteSet(NewestOf(S, N)) /\ Cardinality(NewestOf(S, N)) = m
  <2>1. 0 \in Nat /\ 0 <= m /\ m - 0 = m
    BY <1>4
  <2> QED
    BY <1>1, <1>4, <1>8, <2>1, StretchCount
<1>10. NewestOf(S, N) \subseteq S
  BY <1>3, <1>4, <1>7
<1>11. ASSUME NEW i \in S, NEW j \in NewestOf(S, N), i \notin NewestOf(S, N)
       PROVE  Posts[i].at <= Posts[j].at
  <2>1. PICK p \in 1..Len(list) : list[p] = i
    BY <1>1, <1>11 DEF IsSorted
  <2>2. PICK q \in 1..m : list[q] = j
    BY <1>7, <1>11
  <2>3. p \notin 1..m
    BY <1>7, <1>11, <2>1
  <2>4. q \in 1..Len(list) /\ q < p
    BY <1>3, <1>4, <2>1, <2>2, <2>3
  <2>5. Precedes(key[list[q]], key[list[p]])
    BY <1>1, <2>4 DEF IsSorted
  <2>6. Precedes(NewestKey(j), NewestKey(i)) /\ i \in DOMAIN Posts /\ j \in DOMAIN Posts
    BY <1>2, <1>10, <1>11, <2>1, <2>2, <2>5
  <2> QED
    BY <2>6, NewestPrecedes
<1>12. ASSUME NEW j \in NewestOf(S, N), NEW T \in SUBSET S,
              \A y \in T : Posts[j].at < Posts[y].at
       PROVE  Cardinality(T) < N
  <2>1. PICK q \in 1..m : list[q] = j
    BY <1>7, <1>12
  <2>2. q \in 1..Len(list) /\ q - 1 < N /\ q - 1 \in Nat
    BY <1>3, <1>4, <2>1
  <2> DEFINE before == {y \in S : Precedes(key[y], key[j])}
  <2>3. Cardinality(before) = q - 1
    BY <1>1, <2>1, <2>2 DEF IsSorted
  <2>4. ASSUME NEW y \in T PROVE y \in before
    <3>1. y \in S /\ j \in S /\ y \in DOMAIN Posts /\ j \in DOMAIN Posts
      BY <1>2, <1>10, <1>12, <2>4
    <3>2. Precedes(NewestKey(y), NewestKey(j))
      BY <1>12, <2>4, <3>1, NewestPrecedes
    <3> QED
      BY <1>2, <3>1, <3>2
  <2>5. IsFiniteSet(before) /\ T \subseteq before
    BY <2>4, FS_Subset
  <2> HIDE DEF before
  <2>6. Cardinality(T) <= Cardinality(before) /\ Cardinality(T) \in Nat
    BY <2>5, FS_Subset, FS_CardinalityType
  <2> QED
    BY <2>2, <2>3, <2>6
<1>13. Cardinality(S) <= N => NewestOf(S, N) = S
  <2>1. ASSUME Cardinality(S) <= N, NEW i \in S PROVE i \in NewestOf(S, N)
    <3>1. PICK p \in 1..Len(list) : list[p] = i
      BY <1>1, <2>1 DEF IsSorted
    <3>2. p \in 1..m
      BY <1>3, <1>5, <2>1, <3>1
    <3> QED
      BY <1>7, <3>1, <3>2
  <2> QED
    BY <1>10, <2>1
<1>14. Len(FirstOf(Newest(S), N)) = m
  BY <1>4 DEF list
<1> QED
  BY <1>6, <1>9, <1>10, <1>11, <1>12, <1>13, <1>14

LEMMA LimitsAre ==
  ASSUME ChartTypeOK, chart # NotCharted
  PROVE  /\ FeedLimit \in Nat \ {0} /\ AtLeast(FeedLimit, FeedLoads) \in Nat
         /\ FeedLimit <= AtLeast(FeedLimit, FeedLoads)
<1>1. /\ FeedMost \in Nat /\ FeedDefault \in Nat /\ FeedLoads \in Nat /\ chart.limit \in Int
  BY ChartIs, ActivityAssumption
<1>2. FeedLimit \in Nat \ {0}
  BY <1>1 DEF FeedLimit, AtLeast, AtMost
<1> QED
  BY <1>1, <1>2 DEF AtLeast

\* The feed holds the newest of all posts, though each collection is cut on its own.
LEMMA FeedIsNewest ==
  ASSUME ChartTypeOK, chart # NotCharted
  PROVE  /\ Len(LiveFeed) = AtMost(FeedLimit, Cardinality(chart.posts))
         /\ \A i \in chart.posts \ MembersOf(LiveFeed), k \in MembersOf(LiveFeed) :
              Posts[i].at <= Posts[k].at
<1> DEFINE N == AtLeast(FeedLimit, FeedLoads)
           R == OfKind("request")
           O == OfKind("offer")
           A == NewestOf(R, N)
           B == NewestOf(O, N)
           U == A \union B
<1>1. FeedLimit \in Nat \ {0} /\ N \in Nat /\ FeedLimit <= N
  BY LimitsAre
<1>2. /\ R \subseteq chart.posts /\ O \subseteq chart.posts /\ IsFiniteSet(chart.posts)
      /\ chart.posts \subseteq DOMAIN Posts /\ R \union O = chart.posts /\ Apart(R, O)
  BY OnChartHas, TwoKinds, ChartIs DEF Apart
<1>3. R \subseteq DOMAIN Posts /\ O \subseteq DOMAIN Posts /\ IsFiniteSet(R) /\ IsFiniteSet(O)
  BY <1>2, OnChartHas
<1>4. LiveFeed = FirstOf(Newest(U), FeedLimit) /\ MembersOf(LiveFeed) = NewestOf(U, FeedLimit)
  BY DEF LiveFeed, LatestOf, NewestOf
<1> HIDE DEF N, R, O
<1>5. /\ A \subseteq R /\ Cardinality(A) = AtMost(N, Cardinality(R))
      /\ Cardinality(R) <= N => A = R
      /\ \A i \in R, j \in A : i \notin A => Posts[i].at <= Posts[j].at
  BY <1>1, <1>3, NewestOfIs
<1>6. /\ B \subseteq O /\ Cardinality(B) = AtMost(N, Cardinality(O))
      /\ Cardinality(O) <= N => B = O
      /\ \A i \in O, j \in B : i \notin B => Posts[i].at <= Posts[j].at
  BY <1>1, <1>3, NewestOfIs
<1> HIDE DEF A, B
<1>7. /\ IsFiniteSet(U) /\ U \subseteq chart.posts /\ U \subseteq DOMAIN Posts
      /\ Cardinality(U) = Cardinality(A) + Cardinality(B)
      /\ Cardinality(A) \in Nat /\ Cardinality(B) \in Nat
  <2>1. A \subseteq chart.posts /\ B \subseteq chart.posts /\ Apart(A, B)
    BY <1>2, <1>5, <1>6 DEF Apart
  <2>2. /\ Together(A, B) \subseteq chart.posts
        /\ Cardinality(A) \in Nat /\ Cardinality(B) \in Nat
        /\ Cardinality(Together(A, B)) = Cardinality(A) + Cardinality(B)
    BY <1>2, <2>1, DisjointCounts
  <2>3. Together(A, B) = U
    BY DEF Together
  <2>4. U \subseteq chart.posts /\ U \subseteq DOMAIN Posts
    BY <1>2, <2>2, <2>3
  <2>5. IsFiniteSet(U)
    BY <1>2, <2>4, FS_Subset
  <2> QED
    BY <2>2, <2>3, <2>4, <2>5
<1>8. /\ Cardinality(chart.posts) = Cardinality(R) + Cardinality(O)
      /\ Cardinality(R) \in Nat /\ Cardinality(O) \in Nat
  <2>1. /\ Cardinality(R) \in Nat /\ Cardinality(O) \in Nat
        /\ Cardinality(Together(R, O)) = Cardinality(R) + Cardinality(O)
    BY <1>2, DisjointCounts
  <2>2. Together(R, O) = chart.posts
    BY <1>2 DEF Together
  <2> QED
    BY <2>1, <2>2
<1> HIDE DEF U
<1>9. /\ Len(FirstOf(Newest(U), FeedLimit)) = AtMost(FeedLimit, Cardinality(U))
      /\ NewestOf(U, FeedLimit) \subseteq U
      /\ \A i \in U, j \in NewestOf(U, FeedLimit) :
           i \notin NewestOf(U, FeedLimit) => Posts[i].at <= Posts[j].at
      /\ \A j \in NewestOf(U, FeedLimit), T \in SUBSET U :
           (\A y \in T : Posts[j].at < Posts[y].at) => Cardinality(T) < FeedLimit
  BY <1>1, <1>7, NewestOfIs
<1>10. AtMost(FeedLimit, Cardinality(U)) = AtMost(FeedLimit, Cardinality(chart.posts))
  BY <1>1, <1>5, <1>6, <1>7, <1>8 DEF AtMost
<1>11. A \in SUBSET U /\ B \in SUBSET U
  BY DEF U
<1>12. ASSUME NEW i \in chart.posts, NEW k \in MembersOf(LiveFeed), i \notin MembersOf(LiveFeed)
       PROVE  Posts[i].at <= Posts[k].at
  <2>1. k \in NewestOf(U, FeedLimit) /\ i \notin NewestOf(U, FeedLimit) /\ k \in U
    BY <1>4, <1>9, <1>12
  <2>2. Posts[i].at \in Nat /\ Posts[k].at \in Nat
    BY <1>2, <1>7, <2>1, PostsTyped
  <2>3. CASE i \in U
    BY <1>9, <2>1, <2>3
  <2>4. ASSUME NEW T \in SUBSET U, Cardinality(T) = N, \A j \in T : Posts[i].at <= Posts[j].at
        PROVE  Posts[i].at <= Posts[k].at
    <3>1. SUFFICES ASSUME Posts[k].at < Posts[i].at PROVE FALSE
      BY <2>2
    <3>2. ASSUME NEW y \in T PROVE Posts[k].at < Posts[y].at
      <4>1. Posts[y].at \in Nat /\ Posts[i].at <= Posts[y].at
        BY <1>7, <2>4, <3>2, PostsTyped
      <4> QED
        BY <2>2, <3>1, <4>1
    <3>3. Cardinality(T) < FeedLimit
      BY <1>9, <2>1, <3>2
    <3> QED
      BY <1>1, <2>4, <3>3
  <2>5. CASE i \in R /\ i \notin U
    <3>1. i \notin A /\ \A j \in A : Posts[i].at <= Posts[j].at
      BY <1>5, <1>11, <2>5
    <3>2. Cardinality(A) = N
      BY <1>1, <1>5, <1>8, <2>5, <3>1 DEF AtMost
    <3> QED
      BY <1>11, <2>4, <3>1, <3>2
  <2>6. CASE i \in O /\ i \notin U
    <3>1. i \notin B /\ \A j \in B : Posts[i].at <= Posts[j].at
      BY <1>6, <1>11, <2>6
    <3>2. Cardinality(B) = N
      BY <1>1, <1>6, <1>8, <2>6, <3>1 DEF AtMost
    <3> QED
      BY <1>11, <2>4, <3>1, <3>2
  <2> QED
    BY <1>2, <2>3, <2>5, <2>6
<1> QED
  <2>1. Len(LiveFeed) = AtMost(FeedLimit, Cardinality(chart.posts))
    BY <1>4, <1>9, <1>10
  <2>2. \A i \in chart.posts \ MembersOf(LiveFeed), k \in MembersOf(LiveFeed) :
          Posts[i].at <= Posts[k].at
    BY <1>12
  <2> QED
    BY <2>1, <2>2

\* Of all that is drawn and said of the platform's activity.
LEMMA ActivityAddsUpInv == ChartTypeOK => ActivityAddsUp
<1> SUFFICES ASSUME ChartTypeOK, chart # NotCharted PROVE ActivityAddsUp
  BY DEF ActivityAddsUp
<1>1. /\ Point("request", ChartPoints) + Point("offer", ChartPoints) = Cardinality(Charted)
      /\ \A i \in Charted : StepOf(Posts[i].at) <= PeakStep
      /\ Charted # {} => \E i \in Charted : StepOf(Posts[i].at) = PeakStep
      /\ \A i \in OnChart("request") : StepOf(Posts[i].at) <= BestWindow
      /\ BestWindow <= PeakStep
  BY ChartPeaks
<1>2. \A kind \in {"request", "offer"}, n \in 1..ChartPoints :
        OwnCount(kind, n) <= Growth(kind, n) \/ (kind = "request" /\ chart.bySub)
  <2>1. ASSUME NEW kind \in {"request", "offer"}, NEW n \in 1..ChartPoints,
               ~(kind = "request" /\ chart.bySub = TRUE)
        PROVE  OwnCount(kind, n) <= Growth(kind, n)
    BY <2>1, OwnStepIs
  <2> QED
    BY <2>1, Zenon
<1>3. (OwnSummary = "at the peak" /\ ~chart.bySub) =>
        \E i \in Charted : Posts[i].viewer /\ StepOf(Posts[i].at) = PeakStep
  <2>1. chart.bySub \in BOOLEAN
    BY ChartIs
  <2>2. ASSUME ToldAtPeak, ~chart.bySub
        PROVE  \E i \in Charted : Posts[i].viewer /\ StepOf(Posts[i].at) = PeakStep
    <3>1. chart.bySub = FALSE
      BY <2>1, <2>2
    <3>2. PICK i \in Charted : Posts[i].viewer = TRUE /\ StepOf(Posts[i].at) = PeakStep
      BY <2>2, <3>1, PeakIsOwn
    <3> QED
      BY <3>2
  <2> QED
    BY <2>2, Zenon DEF ToldAtPeak
<1>4. \A kind \in {"request", "offer"} :
        OwnSeries(kind)[1] = NotCharted => \A i \in OwnRows(kind) : Posts[i].at < ChartStart
  BY NothingCharted
<1>5. Answered # {} =>
        /\ 2 * Cardinality({i \in Answered : 2 * AnswerTime(i) <= AnswerMedian})
             >= Cardinality(Answered)
        /\ 2 * Cardinality({i \in Answered : 2 * AnswerTime(i) >= AnswerMedian})
             >= Cardinality(Answered)
  BY AnswersAreHalved
<1>6. (OnChart("offer") = {} /\ OnChart("request") # {}) => OfferRateTone = "warning"
  BY NoOffersWarn
<1>7. Cardinality(UnansweredOverDay) + Cardinality(Answered) <= Cardinality(ScopedPosts)
  BY ScopedPostsAre
<1>8. /\ Len(LiveFeed) = AtMost(FeedLimit, Cardinality(chart.posts))
      /\ \A i \in chart.posts \ MembersOf(LiveFeed), k \in MembersOf(LiveFeed) :
           Posts[i].at <= Posts[k].at
  BY FeedIsNewest
<1> QED
  BY <1>1, <1>2, <1>3, <1>4, <1>5, <1>6, <1>7, <1>8, Zenon DEF ActivityAddsUp, Charted

-----------------------------------------------------------------------------
(* The private overview. *)

\* What a document is, and what a call has loaded.
LEMMA OwnDocTyped ==
  ASSUME NEW i \in DOMAIN OwnDocs
  PROVE  /\ OwnDocs[i].created \in Nat /\ OwnDocs[i].price \in Nat /\ i \in Nat \ {0}
         /\ OwnDocs[i].done # NotAsked <=> OwnDocs[i].status = "completed"
         /\ OwnDocs[i].status = "completed" => OwnDocs[i].done \in Nat
BY OverviewAssumption

LEMMA StatusesAre ==
  ASSUME NEW i \in DOMAIN OwnDocs
  PROVE  /\ OwnDocs[i].kind = "contract" =>
              OwnDocs[i].status \in {"pending", "confirmed", "in_progress", "completed", "cancelled"}
         /\ OwnDocs[i].kind = "request" =>
              OwnDocs[i].status \in
                {"draft", "published", "paused", "matched", "closed", "cancelled"}
         /\ OwnDocs[i].kind = "offer" =>
              OwnDocs[i].status \in {"sent", "accepted", "declined", "withdrawn"}
BY OverviewAssumption

LEMMA OwnIs ==
  ASSUME OverviewTypeOK, own # NotAsked
  PROVE  /\ own.docs \subseteq DOMAIN OwnDocs /\ IsFiniteSet(own.docs)
         /\ own.asked \in DaysAsked /\ own.asked \in Nat
         /\ own.now \in {own.asked, own.asked + 1} /\ own.now \in Nat
         /\ own.role \in {"client", "provider"}
         /\ own.ending \subseteq own.docs
         /\ \A i \in own.ending : OwnDocs[i].status = "completed"
<1>1. /\ own.docs \in OwnDocSets /\ own.asked \in DaysAsked
      /\ own.now \in {own.asked, own.asked + 1} /\ own.role \in {"client", "provider"}
      /\ own.ending \in SUBSET {i \in own.docs : OwnDocs[i].done # NotAsked}
  BY DEF OverviewTypeOK
<1>2. own.docs \subseteq DOMAIN OwnDocs /\ own.asked \in Nat
  BY <1>1, OverviewAssumption
<1>3. IsFiniteSet(DOMAIN OwnDocs)
  BY OverviewAssumption, FS_Interval
<1>4. IsFiniteSet(own.docs)
  BY <1>2, <1>3, FS_Subset
<1>5. own.ending \subseteq own.docs /\ \A i \in own.ending : OwnDocs[i].status = "completed"
  BY <1>1, <1>2, OwnDocTyped
<1> QED
  BY <1>1, <1>2, <1>4, <1>5

\* A day is of the month that its quotient names.
LEMMA MonthIs ==
  ASSUME NEW t \in Nat, NEW m \in Int
  PROVE  /\ MonthOf(t) \in Nat
         /\ t \in (m * MonthDays)..(m * MonthDays + MonthDays - 1) <=> MonthOf(t) = m
         /\ t >= m * MonthDays <=> MonthOf(t) >= m
<1>1. PICK y \in Nat \ {0} : y = MonthDays
  BY OverviewAssumption
<1>2. PICK d \in Nat : d = t \div y /\ y * d <= t /\ t < y * d + y
  <2>1. t \div y \in Nat /\ y * (t \div y) <= t /\ t < y * (t \div y) + y
    OBVIOUS
  <2> QED
    BY <2>1
<1>3. MonthOf(t) = d
  BY <1>1, <1>2 DEF MonthOf
<1>4. m * y = y * m /\ y * m \in Int
  OBVIOUS
<1>5. ASSUME d + 1 <= m PROVE y * d + y <= y * m
  BY <1>2, <1>5
<1>6. ASSUME m + 1 <= d PROVE y * m + y <= y * d
  BY <1>2, <1>6
<1> DEFINE p == y * m
           q == y * d
<1>7. p \in Int /\ q \in Int
  BY <1>2, <1>4
<1>8. /\ t \in p..(p + y - 1) <=> d = m
      /\ t >= p <=> d >= m
  <2>1. CASE d = m
    <3>1. p = q
      BY <2>1
    <3>2. t >= q /\ t <= q + y - 1 /\ d >= m
      BY <1>2, <2>1
    <3> HIDE DEF p, q
    <3> QED
      BY <1>7, <2>1, <3>1, <3>2
  <2>2. CASE d + 1 <= m
    <3>1. q + y <= p /\ t < q + y /\ ~(d >= m) /\ d # m
      BY <1>2, <1>5, <2>2
    <3> HIDE DEF p, q
    <3> QED
      BY <1>7, <3>1
  <2>3. CASE m + 1 <= d
    <3>1. p + y <= q /\ q <= t /\ d >= m /\ d # m
      BY <1>2, <1>6, <2>3
    <3> HIDE DEF p, q
    <3> QED
      BY <1>7, <3>1
  <2> QED
    BY <1>2, <2>1, <2>2, <2>3
<1> HIDE DEF p, q
<1>9. m * MonthDays = p
  BY <1>1, <1>4 DEF p
<1> QED
  BY <1>1, <1>2, <1>3, <1>8, <1>9

LEMMA MonthsAre ==
  ASSUME NEW t \in Nat, NEW day \in Nat, NEW offset \in Int
  PROVE  InMonth(t, day, offset) <=> MonthOf(t) = MonthOf(day) + offset
<1>1. PICK m \in Int : m = MonthOf(day) + offset
  <2>1. MonthOf(day) \in Nat
    BY MonthIs
  <2> QED
    BY <2>1
<1>2. InMonth(t, day, offset) <=> t \in (m * MonthDays)..(m * MonthDays + MonthDays - 1)
  BY <1>1 DEF InMonth
<1> QED
  BY <1>1, <1>2, MonthIs

\* Midnight moves the month by one or not at all.
LEMMA MonthMoves ==
  ASSUME NEW day \in Nat
  PROVE  /\ MonthOf(day) \in Nat /\ MonthOf(day + 1) \in {MonthOf(day), MonthOf(day) + 1}
         /\ \A t \in Nat : t <= day => MonthOf(t) <= MonthOf(day)
<1>1. PICK m \in Nat : m = MonthOf(day)
  BY MonthIs
<1>2. PICK y \in Nat \ {0} : y = MonthDays
  BY OverviewAssumption
<1>3. PICK p \in Int : p = m * MonthDays
  BY <1>1, <1>2
<1>4. (m + 2) * MonthDays = p + 2 * y
  BY <1>1, <1>2, <1>3
<1>5. p <= day /\ day <= p + y - 1
  <2>1. day \in p..(p + y - 1)
    BY <1>1, <1>2, <1>3, MonthIs
  <2> QED
    BY <1>3, <2>1
<1>6. MonthOf(day + 1) \in Nat /\ MonthOf(day + 1) >= m /\ ~(MonthOf(day + 1) >= m + 2)
  <2>1. day + 1 \in Nat /\ day + 1 >= p /\ ~(day + 1 >= p + 2 * y)
    BY <1>2, <1>3, <1>5
  <2> QED
    BY <1>1, <1>3, <1>4, <2>1, MonthIs
<1>7. MonthOf(day + 1) \in {m, m + 1}
  BY <1>1, <1>6
<1>8. ASSUME NEW t \in Nat, t <= day PROVE MonthOf(t) <= MonthOf(day)
  <2>1. PICK k \in Nat : k = MonthOf(t)
    BY MonthIs
  <2>2. PICK u \in Int : u = k * MonthDays
    BY <1>2, <2>1
  <2>3. t >= u
    BY <2>1, <2>2, MonthIs
  <2>4. day >= u
    BY <1>8, <2>2, <2>3
  <2> QED
    BY <1>1, <2>1, <2>2, <2>4, MonthIs
<1> QED
  BY <1>1, <1>7, <1>8

\* What contracts are worth together: the sum exists, is a number, and adds up over sets
\* with nothing in common.
SumAt(docs, sum, n) ==
  IF n = 0 THEN 0 ELSE sum[n - 1] + (IF n \in docs THEN OwnDocs[n].price ELSE 0)

IsSum(docs, sum, n) == sum = [i \in 0..n |-> SumAt(docs, sum, i)]

HasSum(docs, n) == \E sum : IsSum(docs, sum, n)

LEMMA SumGoesOn ==
  ASSUME NEW docs, NEW n \in Nat, HasSum(docs, n)
  PROVE  HasSum(docs, n + 1)
<1>1. PICK sum : sum = [i \in 0..n |-> SumAt(docs, sum, i)]
  BY DEF HasSum, IsSum
<1> DEFINE more == [i \in 0..(n + 1) |-> IF i <= n THEN sum[i] ELSE SumAt(docs, sum, i)]
<1>2. ASSUME NEW i \in 0..(n + 1) PROVE more[i] = SumAt(docs, more, i)
  <2>1. more[i] = SumAt(docs, sum, i)
    BY <1>1
  <2>2. CASE i = 0
    BY <2>1, <2>2 DEF SumAt
  <2>3. CASE i # 0
    <3>1. i - 1 \in 0..(n + 1) /\ i - 1 <= n
      BY <2>3
    <3>2. more[i - 1] = sum[i - 1]
      BY <3>1
    <3> HIDE DEF more
    <3> QED
      BY <2>1, <3>2 DEF SumAt
  <2> QED
    BY <2>2, <2>3
<1>3. more = [i \in 0..(n + 1) |-> more[i]]
  OBVIOUS
<1> HIDE DEF more
<1>4. more = [i \in 0..(n + 1) |-> SumAt(docs, more, i)]
  BY <1>2, <1>3
<1> QED
  BY <1>4 DEF HasSum, IsSum

LEMMA SumThere ==
  ASSUME NEW docs, NEW n \in Nat
  PROVE  HasSum(docs, n)
<1> DEFINE Bad == {k \in Nat : ~HasSum(docs, k)}
<1> SUFFICES ASSUME Bad # {} PROVE FALSE
  OBVIOUS
<1>1. PICK k \in Bad : \A j \in Bad : k <= j
  BY LeastNumber
<1>2. CASE k = 0
  <2> DEFINE sum == [i \in 0..0 |-> 0]
  <2>1. sum = [i \in 0..0 |-> SumAt(docs, sum, i)]
    BY DEF SumAt
  <2> HIDE DEF sum
  <2>2. HasSum(docs, 0)
    BY <2>1 DEF HasSum, IsSum
  <2> QED
    BY <1>1, <1>2, <2>2
<1>3. CASE k # 0
  <2>1. PICK m \in Nat : k = m + 1 /\ m \notin Bad
    <3>1. k - 1 \in Nat /\ k = (k - 1) + 1 /\ ~(k <= k - 1)
      BY <1>1, <1>3
    <3>2. k - 1 \notin Bad
      BY <1>1, <3>1
    <3> QED
      BY <3>1, <3>2
  <2>2. HasSum(docs, m + 1)
    BY <2>1, SumGoesOn
  <2> QED
    BY <1>1, <2>1, <2>2
<1> QED
  BY <1>2, <1>3

\* The partial sums of some documents' prices.
Tallies(sum, docs) ==
  /\ sum \in [0..Len(OwnDocs) -> Nat] /\ sum[0] = 0
  /\ \A n \in 1..Len(OwnDocs) :
       sum[n] = sum[n - 1] + (IF n \in docs THEN OwnDocs[n].price ELSE 0)

LEMMA SumsAreNumbers ==
  ASSUME NEW docs, NEW sum, IsSum(docs, sum, Len(OwnDocs))
  PROVE  Tallies(sum, docs)
<1> DEFINE Bad == {n \in 0..Len(OwnDocs) : sum[n] \notin Nat}
<1>1. Len(OwnDocs) \in Nat
  BY OverviewAssumption
<1>2. \A n \in 0..Len(OwnDocs) : sum[n] = SumAt(docs, sum, n)
  BY DEF IsSum
<1>3. sum[0] = 0
  BY <1>1, <1>2 DEF SumAt
<1>4. ASSUME NEW n \in 1..Len(OwnDocs)
      PROVE  sum[n] = sum[n - 1] + (IF n \in docs THEN OwnDocs[n].price ELSE 0)
  BY <1>1, <1>2 DEF SumAt
<1>5. ASSUME Bad # {} PROVE FALSE
  <2>1. Bad \subseteq Nat
    BY <1>1
  <2>2. PICK n \in Bad : \A m \in Bad : n <= m
    <3> HIDE DEF Bad
    <3> QED
      BY <1>5, <2>1, LeastNumber
  <2>3. n \in 1..Len(OwnDocs) /\ n - 1 \in 0..Len(OwnDocs) /\ ~(n <= n - 1)
    BY <1>1, <1>3
  <2>4. sum[n - 1] \in Nat
    <3>1. n - 1 \notin Bad
      <4> HIDE DEF Bad
      <4> QED
        BY <2>2, <2>3
    <3> QED
      BY <2>3, <3>1
  <2>5. (IF n \in docs THEN OwnDocs[n].price ELSE 0) \in Nat
    BY <1>1, <2>3, OverviewAssumption
  <2>6. sum[n] \in Nat
    BY <1>4, <2>3, <2>4, <2>5
  <2> QED
    BY <2>6
<1>6. DOMAIN sum = 0..Len(OwnDocs) /\ sum = [n \in 0..Len(OwnDocs) |-> sum[n]]
  BY DEF IsSum
<1>7. \A n \in 0..Len(OwnDocs) : sum[n] \in Nat
  BY <1>5
<1>8. sum \in [0..Len(OwnDocs) -> Nat]
  BY <1>6, <1>7
<1> QED
  BY <1>3, <1>4, <1>8 DEF Tallies

LEMMA ValueIs ==
  ASSUME NEW docs
  PROVE  \E sum : Tallies(sum, docs) /\ ValueOf(docs) = sum[Len(OwnDocs)]
<1> DEFINE n == Len(OwnDocs)
           sum == CHOOSE f : f = [i \in 0..n |-> SumAt(docs, f, i)]
<1>1. ValueOf(docs) = sum[n]
  BY Zenon DEF ValueOf, SumAt
<1>2. n \in Nat
  BY OverviewAssumption
<1>3. \E f : f = [i \in 0..n |-> SumAt(docs, f, i)]
  BY <1>2, SumThere DEF HasSum, IsSum
<1>4. sum = [i \in 0..n |-> SumAt(docs, sum, i)]
  BY <1>3, Zenon
<1> HIDE DEF sum
<1>5. Tallies(sum, docs)
  BY <1>4, SumsAreNumbers DEF IsSum
<1> QED
  BY <1>1, <1>5

LEMMA ValuesAddUp ==
  ASSUME NEW A, NEW B, Apart(A, B)
  PROVE  /\ ValueOf(A) \in Nat /\ ValueOf(B) \in Nat
         /\ ValueOf(Together(A, B)) = ValueOf(A) + ValueOf(B)
<1> DEFINE n == Len(OwnDocs)
<1>1. n \in Nat /\ \A i \in 1..n : OwnDocs[i].price \in Nat
  BY OverviewAssumption
<1>2. PICK a : Tallies(a, A) /\ ValueOf(A) = a[n]
  BY ValueIs
<1>3. PICK b : Tallies(b, B) /\ ValueOf(B) = b[n]
  BY ValueIs
<1>4. PICK c : Tallies(c, Together(A, B)) /\ ValueOf(Together(A, B)) = c[n]
  BY ValueIs
<1>5. \A i \in 0..n : a[i] \in Nat /\ b[i] \in Nat /\ c[i] \in Nat
  BY <1>2, <1>3, <1>4 DEF Tallies
<1> DEFINE Bad == {i \in 0..n : c[i] # a[i] + b[i]}
<1>6. ASSUME Bad # {} PROVE FALSE
  <2>1. Bad \subseteq Nat
    BY <1>1
  <2>2. PICK k \in Bad : \A m \in Bad : k <= m
    <3> HIDE DEF Bad
    <3> QED
      BY <1>6, <2>1, LeastNumber
  <2>3. k # 0
    BY <1>2, <1>3, <1>4, <2>2 DEF Tallies
  <2>4. k \in 1..n /\ k - 1 \in 0..n /\ ~(k <= k - 1)
    BY <1>1, <2>2, <2>3
  <2>5. c[k - 1] = a[k - 1] + b[k - 1]
    <3>1. k - 1 \notin Bad
      <4> HIDE DEF Bad
      <4> QED
        BY <2>2, <2>4
    <3> QED
      BY <2>4, <3>1
  <2>6. /\ a[k] = a[k - 1] + (IF k \in A THEN OwnDocs[k].price ELSE 0)
        /\ b[k] = b[k - 1] + (IF k \in B THEN OwnDocs[k].price ELSE 0)
        /\ c[k] = c[k - 1] + (IF k \in Together(A, B) THEN OwnDocs[k].price ELSE 0)
    BY <1>2, <1>3, <1>4, <2>4 DEF Tallies
  <2>7. /\ k \in Together(A, B) <=> (k \in A \/ k \in B)
        /\ ~(k \in A /\ k \in B)
    BY DEF Together, Apart
  <2>8. OwnDocs[k].price \in Nat
    BY <1>1, <2>4
  <2>9. c[k] = a[k] + b[k]
    <3>1. /\ a[k - 1] \in Nat /\ b[k - 1] \in Nat
          /\ a[k] \in Nat /\ b[k] \in Nat /\ c[k] \in Nat
      BY <1>5, <2>4
    <3>2. CASE k \in A
      BY <2>5, <2>6, <2>7, <2>8, <3>1, <3>2, SMTT(30)
    <3>3. CASE k \in B
      BY <2>5, <2>6, <2>7, <2>8, <3>1, <3>3, SMTT(30)
    <3>4. CASE k \notin A /\ k \notin B
      BY <2>5, <2>6, <2>7, <3>1, <3>4
    <3> QED
      BY <3>2, <3>3, <3>4
  <2> QED
    BY <2>2, <2>9
<1>7. n \in 0..n
  BY <1>1
<1> QED
  BY <1>2, <1>3, <1>4, <1>5, <1>6, <1>7

\* Six bars hold what the months from the first to the last of them do.
Upto(D, month, first, n) == {i \in D : month[i] \in first..(first + n - 1)}

InBar(D, month, first, n) == {i \in D : month[i] = first + n - 1}

LEMMA OneBar ==
  ASSUME NEW D, IsFiniteSet(D), NEW month \in [D -> Int], NEW first \in Int, NEW n \in Nat
  PROVE  /\ Cardinality(Upto(D, month, first, n + 1))
              = Cardinality(Upto(D, month, first, n)) + Cardinality(InBar(D, month, first, n + 1))
         /\ ValueOf(Upto(D, month, first, n + 1))
              = ValueOf(Upto(D, month, first, n)) + ValueOf(InBar(D, month, first, n + 1))
<1> DEFINE A == Upto(D, month, first, n)
           B == InBar(D, month, first, n + 1)
<1>1. \A i \in D : month[i] \in Int
  OBVIOUS
<1>2. Together(A, B) = Upto(D, month, first, n + 1)
  BY <1>1 DEF Together, Upto, InBar
<1>3. Apart(A, B)
  BY <1>1 DEF Apart, Upto, InBar
<1>4. A \subseteq D /\ B \subseteq D
  BY DEF Upto, InBar
<1> HIDE DEF A, B
<1>5. Cardinality(Together(A, B)) = Cardinality(A) + Cardinality(B)
  BY <1>3, <1>4, DisjointCounts
<1>6. ValueOf(Together(A, B)) = ValueOf(A) + ValueOf(B)
  BY <1>3, ValuesAddUp
<1> QED
  BY <1>2, <1>5, <1>6 DEF A, B

LEMMA NoValue == ValueOf({}) = 0
<1>1. Apart({}, {}) /\ Together({}, {}) = {}
  BY DEF Apart, Together
<1>2. ValueOf({}) \in Nat /\ ValueOf({}) = ValueOf({}) + ValueOf({})
  BY <1>1, ValuesAddUp
<1>3. \A v \in Nat : v = v + v => v = 0
  OBVIOUS
<1> QED
  BY <1>2, <1>3

LEMMA SixBars ==
  ASSUME NEW D, IsFiniteSet(D), NEW month \in [D -> Int], NEW first \in Int
  PROVE  /\ Cardinality(Upto(D, month, first, 6))
              = Cardinality(InBar(D, month, first, 1)) + Cardinality(InBar(D, month, first, 2))
                + Cardinality(InBar(D, month, first, 3)) + Cardinality(InBar(D, month, first, 4))
                + Cardinality(InBar(D, month, first, 5)) + Cardinality(InBar(D, month, first, 6))
         /\ ValueOf(Upto(D, month, first, 6))
              = ValueOf(InBar(D, month, first, 1)) + ValueOf(InBar(D, month, first, 2))
                + ValueOf(InBar(D, month, first, 3)) + ValueOf(InBar(D, month, first, 4))
                + ValueOf(InBar(D, month, first, 5)) + ValueOf(InBar(D, month, first, 6))
<1> DEFINE c(n) == Cardinality(InBar(D, month, first, n))
           v(n) == ValueOf(InBar(D, month, first, n))
           C(n) == Cardinality(Upto(D, month, first, n))
           V(n) == ValueOf(Upto(D, month, first, n))
<1>1. \A n \in 1..6 : c(n) \in Nat /\ v(n) \in Nat
  <2>1. ASSUME NEW n \in 1..6 PROVE c(n) \in Nat /\ v(n) \in Nat
    <3>1. IsFiniteSet(InBar(D, month, first, n))
      BY FS_Subset DEF InBar
    <3>2. Apart(InBar(D, month, first, n), {})
      BY DEF Apart
    <3> QED
      BY <3>1, <3>2, FS_CardinalityType, ValuesAddUp
  <2> QED
    BY <2>1
<1>2. C(0) = 0 /\ V(0) = 0
  <2>1. Upto(D, month, first, 0) = {}
    BY DEF Upto
  <2> QED
    BY <2>1, NoValue, FS_EmptySet
<1>3. \A n \in Nat : C(n + 1) = C(n) + c(n + 1) /\ V(n + 1) = V(n) + v(n + 1)
  BY OneBar
<1> HIDE DEF c, v, C, V
<1>4. C(1) = C(0) + c(1) /\ V(1) = V(0) + v(1)
  BY <1>3, 0 \in Nat, 0 + 1 = 1
<1>5. C(2) = C(1) + c(2) /\ V(2) = V(1) + v(2)
  BY <1>3, 1 \in Nat, 1 + 1 = 2
<1>6. C(3) = C(2) + c(3) /\ V(3) = V(2) + v(3)
  BY <1>3, 2 \in Nat, 2 + 1 = 3
<1>7. C(4) = C(3) + c(4) /\ V(4) = V(3) + v(4)
  BY <1>3, 3 \in Nat, 3 + 1 = 4
<1>8. C(5) = C(4) + c(5) /\ V(5) = V(4) + v(5)
  BY <1>3, 4 \in Nat, 4 + 1 = 5
<1>9. C(6) = C(5) + c(6) /\ V(6) = V(5) + v(6)
  BY <1>3, 5 \in Nat, 5 + 1 = 6
<1>10. /\ c(1) \in Nat /\ c(2) \in Nat /\ c(3) \in Nat
       /\ c(4) \in Nat /\ c(5) \in Nat /\ c(6) \in Nat
       /\ v(1) \in Nat /\ v(2) \in Nat /\ v(3) \in Nat
       /\ v(4) \in Nat /\ v(5) \in Nat /\ v(6) \in Nat
  BY <1>1
<1>11. C(6) = c(1) + c(2) + c(3) + c(4) + c(5) + c(6)
  BY <1>2, <1>4, <1>5, <1>6, <1>7, <1>8, <1>9, <1>10
<1>12. V(6) = v(1) + v(2) + v(3) + v(4) + v(5) + v(6)
  BY <1>2, <1>4, <1>5, <1>6, <1>7, <1>8, <1>9, <1>10
<1> QED
  BY <1>11, <1>12 DEF c, v, C, V

\* The documents of the bars: all of the half year that were loaded, but for those of its
\* first month when the month has turned.
MonthsOf(D, field) == [i \in D |-> MonthOf(OwnDocs[i][field])]

FirstMonth == MonthOf(own.now) - 5

Shift == MonthOf(own.now) - MonthOf(own.asked)

Dropped(D, field) ==
  IF Shift = 0 THEN {} ELSE {i \in D : InMonth(OwnDocs[i][field], own.asked, -5)}

LEMMA ShiftIs ==
  ASSUME OverviewTypeOK, own # NotAsked
  PROVE  /\ MonthOf(own.asked) \in Nat /\ MonthOf(own.now) \in Nat
         /\ Shift \in {0, 1} /\ FirstMonth \in Int
         /\ MonthOf(own.now) = MonthOf(own.asked) + Shift
         /\ FirstMonth = MonthOf(own.asked) + Shift - 5
<1>1. own.asked \in Nat /\ own.now \in {own.asked, own.asked + 1}
  BY OwnIs
<1>2. /\ MonthOf(own.asked) \in Nat
      /\ MonthOf(own.asked + 1) \in {MonthOf(own.asked), MonthOf(own.asked) + 1}
  BY <1>1, MonthMoves
<1>3. PICK a \in Nat : a = MonthOf(own.asked)
  BY <1>2
<1>4. MonthOf(own.now) \in {a, a + 1}
  BY <1>1, <1>2, <1>3
<1>5. PICK b \in Nat : b = MonthOf(own.now)
  BY <1>3, <1>4
<1>6. Shift = b - a /\ FirstMonth = b - 5
  BY <1>3, <1>5 DEF Shift, FirstMonth
<1> QED
  BY <1>3, <1>4, <1>5, <1>6

LEMMA BarIs ==
  ASSUME OverviewTypeOK, own # NotAsked, NEW D, NEW field,
         \A i \in D : OwnDocs[i][field] \in Nat, NEW n \in 1..6
  PROVE  OfBar(D, n, field) = InBar(D, MonthsOf(D, field), FirstMonth, n)
<1>1. n - 6 \in Int /\ own.now \in Nat /\ MonthOf(own.now) \in Nat
  BY OwnIs, ShiftIs
<1>2. ASSUME NEW i \in D
      PROVE  InMonth(OwnDocs[i][field], own.now, n - 6)
               <=> MonthsOf(D, field)[i] = FirstMonth + n - 1
  <2>1. OwnDocs[i][field] \in Nat
    BY <1>2
  <2>2. InMonth(OwnDocs[i][field], own.now, n - 6)
          <=> MonthOf(OwnDocs[i][field]) = MonthOf(own.now) + (n - 6)
    BY <1>1, <2>1, MonthsAre
  <2>3. MonthOf(own.now) + (n - 6) = FirstMonth + n - 1
    BY <1>1 DEF FirstMonth
  <2>4. MonthsOf(D, field)[i] = MonthOf(OwnDocs[i][field])
    BY DEF MonthsOf
  <2> QED
    BY <2>2, <2>3, <2>4
<1> QED
  BY <1>2 DEF OfBar, InBar

LEMMA BarsHold ==
  ASSUME OverviewTypeOK, own # NotAsked, NEW D, NEW field,
         \A i \in D : /\ OwnDocs[i][field] \in Nat /\ OwnDocs[i][field] <= own.asked
                      /\ SinceHalfYear(OwnDocs[i][field])
  PROVE  /\ D \ Dropped(D, field) = Upto(D, MonthsOf(D, field), FirstMonth, 6)
         /\ MonthsOf(D, field) \in [D -> Int]
<1>1. PICK a \in Nat : a = MonthOf(own.asked)
  BY ShiftIs
<1>2. Shift \in {0, 1} /\ FirstMonth = a + Shift - 5 /\ own.asked \in Nat
  BY <1>1, ShiftIs, OwnIs
<1>3. ASSUME NEW i \in D
      PROVE  /\ MonthsOf(D, field)[i] \in Nat
             /\ a - 5 <= MonthsOf(D, field)[i] /\ MonthsOf(D, field)[i] <= a
             /\ InMonth(OwnDocs[i][field], own.asked, -5) <=> MonthsOf(D, field)[i] = a - 5
  <2>1. PICK t \in Nat : t = OwnDocs[i][field] /\ t <= own.asked /\ SinceHalfYear(t)
    BY <1>3
  <2>2. MonthOf(t) \in Nat /\ MonthOf(t) <= a
    BY <1>1, <1>2, <2>1, MonthMoves
  <2>3. a - 5 <= MonthOf(t)
    <3>1. a - 5 \in Int /\ t >= (a - 5) * MonthDays
      BY <1>1, <2>1 DEF SinceHalfYear
    <3> QED
      BY <2>2, <3>1, MonthIs
  <2>4. PICK o \in Int : o = -5 /\ a + o = a - 5
    OBVIOUS
  <2>5. InMonth(t, own.asked, o) <=> MonthOf(t) = a - 5
    BY <1>1, <1>2, <2>1, <2>4, MonthsAre
  <2>6. MonthsOf(D, field)[i] = MonthOf(t)
    BY <2>1 DEF MonthsOf
  <2> QED
    BY <2>1, <2>2, <2>3, <2>4, <2>5, <2>6
<1>4. ASSUME NEW i \in D
      PROVE  i \notin Dropped(D, field)
               <=> MonthsOf(D, field)[i] \in FirstMonth..(FirstMonth + 6 - 1)
  <2>1. PICK m \in Nat : m = MonthsOf(D, field)[i] /\ a - 5 <= m /\ m <= a
    BY <1>3
  <2>2. CASE Shift = 0
    <3>1. i \notin Dropped(D, field)
      BY <2>2 DEF Dropped
    <3> QED
      BY <1>2, <2>1, <2>2, <3>1
  <2>3. CASE Shift = 1
    <3>1. i \notin Dropped(D, field) <=> m # a - 5
      BY <1>3, <2>1, <2>3 DEF Dropped
    <3> QED
      BY <1>2, <2>1, <2>3, <3>1
  <2> QED
    BY <1>2, <2>2, <2>3
<1>5. D \ Dropped(D, field) = Upto(D, MonthsOf(D, field), FirstMonth, 6)
  BY <1>4 DEF Upto
<1>6. MonthsOf(D, field) \in [D -> Int]
  <2>1. MonthsOf(D, field) = [i \in D |-> MonthsOf(D, field)[i]]
    BY DEF MonthsOf
  <2>2. \A i \in D : MonthsOf(D, field)[i] \in Int
    BY <1>3
  <2> QED
    BY <2>1, <2>2
<1> QED
  BY <1>5, <1>6

LEMMA LoadedAre ==
  ASSUME OverviewTypeOK, own # NotAsked, NEW side
  PROVE  /\ LoadedContracts(side) \subseteq own.docs /\ IsFiniteSet(LoadedContracts(side))
         /\ \A i \in LoadedContracts(side) :
              /\ OwnDocs[i].done \in Nat /\ OwnDocs[i].done <= own.asked
              /\ SinceHalfYear(OwnDocs[i].done) /\ OwnDocs[i].status = "completed"
         /\ LoadedRequests \subseteq own.docs /\ IsFiniteSet(LoadedRequests)
         /\ \A i \in LoadedRequests :
              /\ OwnDocs[i].created \in Nat /\ OwnDocs[i].created <= own.asked
              /\ SinceHalfYear(OwnDocs[i].created)
<1>1. LoadedContracts(side) \subseteq own.docs /\ LoadedRequests \subseteq own.docs
  BY DEF LoadedContracts, LoadedRequests
<1>2. IsFiniteSet(LoadedContracts(side)) /\ IsFiniteSet(LoadedRequests)
  BY <1>1, OwnIs, FS_Subset
<1>3. ASSUME NEW i \in LoadedContracts(side)
      PROVE  /\ OwnDocs[i].done \in Nat /\ OwnDocs[i].done <= own.asked
             /\ SinceHalfYear(OwnDocs[i].done) /\ OwnDocs[i].status = "completed"
  <2>1. /\ i \in DOMAIN OwnDocs /\ StatusOf(i, "series") = "completed"
        /\ SinceHalfYear(OwnDocs[i].done)
    BY <1>1, <1>3, OwnIs DEF LoadedContracts
  <2>2. OwnDocs[i].status = "completed"
    BY <2>1 DEF StatusOf
  <2>3. OwnDocs[i].done \in Nat
    BY <2>1, <2>2, OwnDocTyped
  <2>4. OwnDocs[i].done <= own.asked
    BY <2>1, <2>3, OwnIs, OverviewAssumption
  <2> QED
    BY <2>1, <2>2, <2>3, <2>4
<1>4. ASSUME NEW i \in LoadedRequests
      PROVE  /\ OwnDocs[i].created \in Nat /\ OwnDocs[i].created <= own.asked
             /\ SinceHalfYear(OwnDocs[i].created)
  <2>1. i \in DOMAIN OwnDocs /\ SinceHalfYear(OwnDocs[i].created)
    BY <1>1, <1>4, OwnIs DEF LoadedRequests
  <2>2. OwnDocs[i].created \in Nat
    BY <2>1, OwnDocTyped
  <2>3. OwnDocs[i].created <= own.asked
    BY <2>1, OwnIs, OverviewAssumption
  <2> QED
    BY <2>1, <2>2, <2>3
<1> QED
  BY <1>1, <1>2, <1>3, <1>4

LEMMA BarsAddUp ==
  ASSUME OverviewTypeOK, own # NotAsked
  PROVE  /\ AllBars(ProviderBar)
              = Cardinality(LoadedContracts("provider")
                              \ Dropped(LoadedContracts("provider"), "done"))
         /\ AllBars(ProviderLine)
              = ValueOf(LoadedContracts("provider")
                          \ Dropped(LoadedContracts("provider"), "done"))
         /\ AllBars(ClientBar)
              = Cardinality(LoadedRequests \ Dropped(LoadedRequests, "created"))
<1>1. FirstMonth \in Int
  BY ShiftIs
<1>2. /\ AllBars(ProviderBar)
           = Cardinality(LoadedContracts("provider")
                           \ Dropped(LoadedContracts("provider"), "done"))
      /\ AllBars(ProviderLine)
           = ValueOf(LoadedContracts("provider")
                       \ Dropped(LoadedContracts("provider"), "done"))
  <2> DEFINE D == LoadedContracts("provider")
             month == MonthsOf(D, "done")
  <2>1. /\ IsFiniteSet(D) /\ \A i \in D : /\ OwnDocs[i]["done"] \in Nat
                                          /\ OwnDocs[i]["done"] <= own.asked
                                          /\ SinceHalfYear(OwnDocs[i]["done"])
    BY LoadedAre
  <2>2. /\ \A n \in 1..6 : ProviderBar(n) = Cardinality(OfBar(D, n, "done"))
        /\ \A n \in 1..6 : ProviderLine(n) = ValueOf(OfBar(D, n, "done"))
    BY DEF ProviderBar, ProviderLine
  <2> HIDE DEF D
  <2>3. \A n \in 1..6 : OfBar(D, n, "done") = InBar(D, month, FirstMonth, n)
    BY <2>1, BarIs
  <2>4. D \ Dropped(D, "done") = Upto(D, month, FirstMonth, 6) /\ month \in [D -> Int]
    BY <2>1, BarsHold
  <2> HIDE DEF month
  <2>5. /\ \A n \in 1..6 : ProviderBar(n) = Cardinality(InBar(D, month, FirstMonth, n))
        /\ \A n \in 1..6 : ProviderLine(n) = ValueOf(InBar(D, month, FirstMonth, n))
    BY <2>2, <2>3
  <2>6. AllBars(ProviderBar) = Cardinality(Upto(D, month, FirstMonth, 6))
    BY <1>1, <2>1, <2>4, <2>5, SixBars DEF AllBars
  <2>7. AllBars(ProviderLine) = ValueOf(Upto(D, month, FirstMonth, 6))
    BY <1>1, <2>1, <2>4, <2>5, SixBars DEF AllBars
  <2> QED
    BY <2>4, <2>6, <2>7 DEF D
<1>3. AllBars(ClientBar) = Cardinality(LoadedRequests \ Dropped(LoadedRequests, "created"))
  <2> DEFINE D == LoadedRequests
             month == MonthsOf(D, "created")
  <2>1. /\ IsFiniteSet(D) /\ \A i \in D : /\ OwnDocs[i]["created"] \in Nat
                                          /\ OwnDocs[i]["created"] <= own.asked
                                          /\ SinceHalfYear(OwnDocs[i]["created"])
    BY LoadedAre
  <2>2. \A n \in 1..6 : ClientBar(n) = Cardinality(OfBar(D, n, "created"))
    BY DEF ClientBar
  <2> HIDE DEF D
  <2>3. \A n \in 1..6 : OfBar(D, n, "created") = InBar(D, month, FirstMonth, n)
    BY <2>1, BarIs
  <2>4. D \ Dropped(D, "created") = Upto(D, month, FirstMonth, 6) /\ month \in [D -> Int]
    BY <2>1, BarsHold
  <2> HIDE DEF month
  <2>5. AllBars(ClientBar) = Cardinality(Upto(D, month, FirstMonth, 6))
    BY <1>1, <2>1, <2>2, <2>3, <2>4, SixBars DEF AllBars
  <2> QED
    BY <2>4, <2>5 DEF D
<1> QED
  BY <1>2, <1>3

\* What is completed in this month or in the last, and its bar, differ by the contracts
\* that were being completed.
CompletedSet(side, offset) ==
  {i \in Contracts(side) \intersect own.docs :
     StatusOf(i, "month") = "completed" /\ InMonth(OwnDocs[i].done, own.asked, offset)}

LEMMA NearlySame ==
  ASSUME NEW A, NEW B, NEW E, IsFiniteSet(A), IsFiniteSet(B), IsFiniteSet(E),
         A \subseteq Together(B, E), B \subseteq Together(A, E)
  PROVE  /\ Cardinality(A) \in Nat /\ Cardinality(B) \in Nat /\ Cardinality(E) \in Nat
         /\ Cardinality(A) - Cardinality(B) \in (0 - Cardinality(E))..Cardinality(E)
<1>1. /\ Cardinality(A) \in Nat /\ Cardinality(B) \in Nat /\ Cardinality(E) \in Nat
  BY FS_CardinalityType
<1>2. ASSUME NEW S, IsFiniteSet(S)
      PROVE  /\ IsFiniteSet(Together(S, E))
             /\ Cardinality(Together(S, E)) <= Cardinality(S) + Cardinality(E)
  <2>1. IsFiniteSet(S \union E) /\ IsFiniteSet(S \cap E)
        /\ Cardinality(S \union E) = Cardinality(S) + Cardinality(E) - Cardinality(S \cap E)
    BY <1>2, FS_Union, FS_Subset
  <2>2. Cardinality(S) \in Nat /\ Cardinality(S \cap E) \in Nat
    BY <1>2, <2>1, FS_CardinalityType
  <2> QED
    BY <1>1, <2>1, <2>2 DEF Together
<1>3. Cardinality(A) <= Cardinality(Together(B, E)) /\ Cardinality(Together(B, E)) \in Nat
  BY <1>2, FS_Subset, FS_CardinalityType
<1>4. Cardinality(B) <= Cardinality(Together(A, E)) /\ Cardinality(Together(A, E)) \in Nat
  BY <1>2, FS_Subset, FS_CardinalityType
<1>5. /\ Cardinality(Together(A, E)) <= Cardinality(A) + Cardinality(E)
      /\ Cardinality(Together(B, E)) <= Cardinality(B) + Cardinality(E)
  BY <1>2
<1> QED
  BY <1>1, <1>3, <1>4, <1>5

LEMMA CompletedIs ==
  ASSUME OverviewTypeOK, own # NotAsked, NEW side, NEW offset \in Int
  PROVE  /\ CompletedIn(side, offset) = Cardinality(CompletedSet(side, offset))
         /\ CompletedSet(side, offset) \subseteq own.docs
         /\ IsFiniteSet(CompletedSet(side, offset)) /\ CompletedIn(side, offset) \in Nat
         /\ \A i \in CompletedSet(side, offset) :
              /\ i \in Contracts(side) /\ OwnDocs[i].status = "completed"
              /\ OwnDocs[i].done \in Nat
              /\ MonthOf(OwnDocs[i].done) = MonthOf(own.asked) + offset
<1>1. CompletedIn(side, offset) = Cardinality(CompletedSet(side, offset))
  BY DEF CompletedIn, CompletedSet
<1>2. CompletedSet(side, offset) \subseteq own.docs
  BY DEF CompletedSet
<1>3. IsFiniteSet(CompletedSet(side, offset)) /\ Cardinality(CompletedSet(side, offset)) \in Nat
  BY <1>2, OwnIs, FS_Subset, FS_CardinalityType
<1>4. ASSUME NEW i \in CompletedSet(side, offset)
      PROVE  /\ i \in Contracts(side) /\ OwnDocs[i].status = "completed"
             /\ OwnDocs[i].done \in Nat
             /\ MonthOf(OwnDocs[i].done) = MonthOf(own.asked) + offset
  <2>1. /\ i \in Contracts(side) /\ StatusOf(i, "month") = "completed"
        /\ InMonth(OwnDocs[i].done, own.asked, offset)
    BY <1>4 DEF CompletedSet
  <2>2. i \in DOMAIN OwnDocs /\ OwnDocs[i].status = "completed"
    BY <1>2, <1>4, <2>1, OwnIs DEF StatusOf
  <2>3. OwnDocs[i].done \in Nat
    BY <2>2, OwnDocTyped
  <2>4. MonthOf(OwnDocs[i].done) = MonthOf(own.asked) + offset
    BY <2>1, <2>3, OwnIs, MonthsAre
  <2> QED
    BY <2>1, <2>2, <2>3, <2>4
<1> QED
  BY <1>1, <1>2, <1>3, <1>4

LEMMA CompletedBar ==
  ASSUME OverviewTypeOK, own # NotAsked, NEW offset \in {0, -1}
  PROVE  /\ 6 + offset - Shift \in 1..6
         /\ ProviderBar(6 + offset - Shift) \in Nat /\ Cardinality(own.ending) \in Nat
         /\ ProviderBar(6 + offset - Shift) - CompletedIn("provider", offset)
              \in (0 - Cardinality(own.ending))..Cardinality(own.ending)
<1> DEFINE D == LoadedContracts("provider")
           n == 6 + offset - Shift
           A == OfBar(D, n, "done")
           B == CompletedSet("provider", offset)
<1>1. PICK o \in Int : o = offset /\ (o = 0 \/ o = 0 - 1)
  OBVIOUS
<1>2. PICK a \in Nat : a = MonthOf(own.asked)
  BY ShiftIs
<1>3. Shift \in {0, 1} /\ FirstMonth = a + Shift - 5
  BY <1>2, ShiftIs
<1>4. n \in 1..6 /\ FirstMonth + n - 1 = a + o
  BY <1>1, <1>2, <1>3
<1>5. \A i \in D : /\ OwnDocs[i]["done"] \in Nat /\ OwnDocs[i].status = "completed"
  BY LoadedAre
<1>6. ProviderBar(n) = Cardinality(A)
  BY DEF ProviderBar
<1> HIDE DEF D, n
<1>7. A = InBar(D, MonthsOf(D, "done"), FirstMonth, n)
  BY <1>4, <1>5, BarIs
<1>8. ASSUME NEW i \in D PROVE i \in A <=> MonthOf(OwnDocs[i].done) = a + o
  <2>1. i \in A <=> MonthsOf(D, "done")[i] = FirstMonth + n - 1
    BY <1>7, <1>8 DEF InBar
  <2>2. MonthsOf(D, "done")[i] = MonthOf(OwnDocs[i].done)
    BY <1>8 DEF MonthsOf
  <2> QED
    BY <1>4, <2>1, <2>2
<1>9. A \subseteq D /\ IsFiniteSet(A) /\ IsFiniteSet(B) /\ IsFiniteSet(own.ending)
  <2>1. A \subseteq D
    BY <1>7 DEF InBar
  <2>2. IsFiniteSet(D)
    BY LoadedAre DEF D
  <2> HIDE DEF A, B
  <2>3. IsFiniteSet(A)
    BY <2>1, <2>2, FS_Subset
  <2>4. IsFiniteSet(B)
    BY <1>1, CompletedIs DEF B
  <2>5. IsFiniteSet(own.ending)
    BY OwnIs, FS_Subset
  <2> QED
    BY <2>1, <2>3, <2>4, <2>5
<1>10. ASSUME NEW i \in A, i \notin own.ending PROVE i \in B
  <2>1. /\ i \in D /\ i \in Contracts("provider") \intersect own.docs
        /\ OwnDocs[i].status = "completed" /\ OwnDocs[i].done \in Nat
    BY <1>9, <1>10, LoadedAre DEF D, LoadedContracts
  <2>2. StatusOf(i, "month") = "completed"
    BY <1>10, <2>1 DEF StatusOf
  <2>3. MonthOf(OwnDocs[i].done) = a + o
    BY <1>8, <1>10, <2>1
  <2>4. InMonth(OwnDocs[i].done, own.asked, o)
    BY <1>2, <2>1, <2>3, OwnIs, MonthsAre
  <2> QED
    BY <1>1, <2>1, <2>2, <2>4 DEF CompletedSet
<1>11. ASSUME NEW i \in B, i \notin own.ending PROVE i \in A
  <2>1. /\ i \in Contracts("provider") /\ OwnDocs[i].status = "completed"
        /\ OwnDocs[i].done \in Nat /\ MonthOf(OwnDocs[i].done) = a + o /\ i \in own.docs
    BY <1>1, <1>2, <1>11, CompletedIs
  <2>2. StatusOf(i, "series") = "completed"
    BY <1>11, <2>1 DEF StatusOf
  <2>3. SinceHalfYear(OwnDocs[i].done)
    <3>1. a - 5 \in Int /\ MonthOf(OwnDocs[i].done) >= a - 5
      BY <1>1, <1>2, <2>1
    <3>2. OwnDocs[i].done >= (a - 5) * MonthDays
      BY <2>1, <3>1, MonthIs
    <3> QED
      BY <1>2, <3>2 DEF SinceHalfYear
  <2>4. i \in D
    BY <2>1, <2>2, <2>3 DEF D, LoadedContracts
  <2> QED
    BY <1>8, <2>1, <2>4
<1>12. A \subseteq Together(B, own.ending) /\ B \subseteq Together(A, own.ending)
  BY <1>10, <1>11, Zenon DEF Together
<1> HIDE DEF A, B
<1>13. /\ Cardinality(A) \in Nat /\ Cardinality(own.ending) \in Nat
       /\ Cardinality(A) - Cardinality(B)
            \in (0 - Cardinality(own.ending))..Cardinality(own.ending)
  BY <1>9, <1>12, NearlySame
<1>14. CompletedIn("provider", offset) = Cardinality(B)
  BY <1>1, CompletedIs DEF B
<1>15. n \in 1..6 /\ ProviderBar(n) \in Nat
  BY <1>4, <1>6, <1>13
<1>16. ProviderBar(n) - CompletedIn("provider", offset)
         \in (0 - Cardinality(own.ending))..Cardinality(own.ending)
  BY <1>6, <1>13, <1>14
<1> QED
  BY <1>13, <1>15, <1>16 DEF n

\* Growth shows in the percentage, unless rounding hides it.
LEMMA GrowthShows ==
  ASSUME NEW c \in Nat, NEW p \in Nat, c > p
  PROVE  \/ Delta(c, p).kind = "new" /\ p = 0
         \/ Delta(c, p).kind = "percent" /\ (Delta(c, p).percent > 0 \/ OfTwoHundred(c - p, p))
<1>1. CASE p = 0
  <2>1. Delta(c, p).kind = "new"
    BY <1>1 DEF Delta
  <2> QED
    BY <1>1, <2>1
<1>2. CASE p > 0
  <2> DEFINE x == 200 * (c - p) + p
             y == 2 * p
  <2>1. x \in Nat /\ y \in Nat \ {0}
    BY <1>2
  <2>2. Delta(c, p).kind = "percent" /\ Delta(c, p).percent = x \div y
    BY <1>2 DEF Delta
  <2>3. ASSUME ~(200 * (c - p) <= p) PROVE x \div y > 0
    <3>1. y * 1 <= x
      BY <1>2, <2>3
    <3> HIDE DEF x, y
    <3>2. 1 <= x \div y /\ x \div y \in Nat
      BY <2>1, <3>1, QuotientBetween
    <3> QED
      BY <3>2
  <2> QED
    BY <2>2, <2>3 DEF OfTwoHundred
<1> QED
  BY <1>1, <1>2

\* A rate of a hundred leaves out at most one in two hundred.
LEMMA FullRate ==
  ASSUME NEW n \in Nat, NEW d \in Nat \ {0}, n <= d, Percent(n, d) = 100
  PROVE  OfTwoHundred(d - n, d)
<1> DEFINE x == 200 * n + d
           y == 2 * d
<1>1. x \in Nat /\ y \in Nat \ {0} /\ x \div y = 100
  BY DEF Percent
<1>2. 100 * y <= x
  <2> HIDE DEF x, y
  <2>1. y * (x \div y) <= x
    BY <1>1
  <2> QED
    BY <1>1, <2>1
<1>3. 200 * d <= 200 * n + d
  BY <1>2
<1> QED
  BY <1>3 DEF OfTwoHundred

\* Counts by status.
LEMMA HowManyIs ==
  ASSUME OverviewTypeOK, own # NotAsked, NEW docs, NEW S, NEW T, S \cap T = {}
  PROVE  /\ HowMany(docs, S) \in Nat /\ HowMany(docs, T) \in Nat
         /\ HowMany(docs, S \union T) = HowMany(docs, S) + HowMany(docs, T)
         /\ (\A i \in docs \intersect own.docs : StatusOf(i, "status") \in S \union T) =>
              HowMany(docs, S \union T) = Cardinality(docs \intersect own.docs)
<1> DEFINE D == docs \intersect own.docs
           A == {i \in D : StatusOf(i, "status") \in S}
           B == {i \in D : StatusOf(i, "status") \in T}
<1>1. IsFiniteSet(D)
  <2>1. D \subseteq own.docs
    OBVIOUS
  <2> QED
    BY <2>1, OwnIs, FS_Subset
<1>2. A \subseteq D /\ B \subseteq D /\ Apart(A, B)
  BY DEF Apart
<1>3. Together(A, B) = {i \in D : StatusOf(i, "status") \in S \union T}
  BY DEF Together
<1>4. HowMany(docs, S) = Cardinality(A) /\ HowMany(docs, T) = Cardinality(B)
  BY DEF HowMany
<1>5. HowMany(docs, S \union T) = Cardinality(Together(A, B))
  BY <1>3 DEF HowMany
<1>6. (\A i \in D : StatusOf(i, "status") \in S \union T) => Together(A, B) = D
  BY <1>3
<1> HIDE DEF A, B
<1>7. /\ Cardinality(A) \in Nat /\ Cardinality(B) \in Nat
      /\ Cardinality(Together(A, B)) = Cardinality(A) + Cardinality(B)
  BY <1>1, <1>2, DisjointCounts
<1> QED
  BY <1>4, <1>5, <1>6, <1>7

Open == {"draft", "published", "paused", "matched"}

Done == {"closed", "cancelled"}

UnderWay == {"pending", "confirmed", "in_progress"}

Ended == {"completed", "cancelled"}

LEMMA StatusCounts ==
  ASSUME OverviewTypeOK, own # NotAsked
  PROVE  /\ ActiveContracts("provider") + HowMany(Contracts("provider"), {"completed", "cancelled"})
              = Cardinality(Contracts("provider") \intersect own.docs)
         /\ OpenRequests + HowMany(KeptRequests, {"closed", "cancelled"})
              = Cardinality(KeptRequests \intersect own.docs)
<1>1. ASSUME NEW i \in Contracts("provider") \intersect own.docs
      PROVE  StatusOf(i, "status") \in UnderWay \union Ended
  <2>1. i \in DOMAIN OwnDocs /\ OwnDocs[i].kind = "contract"
    BY <1>1 DEF Contracts
  <2>2. OwnDocs[i].status \in {"pending", "confirmed", "in_progress", "completed", "cancelled"}
    BY <2>1, StatusesAre
  <2> QED
    BY <2>2 DEF StatusOf, UnderWay, Ended
<1>2. ASSUME NEW i \in KeptRequests \intersect own.docs
      PROVE  StatusOf(i, "status") \in Open \union Done
  <2>1. i \in DOMAIN OwnDocs /\ OwnDocs[i].kind = "request"
    BY <1>2 DEF KeptRequests, Requests
  <2>2. OwnDocs[i].status \in {"draft", "published", "paused", "matched", "closed", "cancelled"}
    BY <2>1, StatusesAre
  <2>3. i \notin own.ending
    BY <2>2, OwnIs
  <2> QED
    BY <2>2, <2>3 DEF StatusOf, Open, Done
<1>3. HowMany(Contracts("provider"), UnderWay) + HowMany(Contracts("provider"), Ended)
        = Cardinality(Contracts("provider") \intersect own.docs)
  <2>1. UnderWay \cap Ended = {}
    BY DEF UnderWay, Ended
  <2>2. HowMany(Contracts("provider"), UnderWay \union Ended)
          = HowMany(Contracts("provider"), UnderWay) + HowMany(Contracts("provider"), Ended)
    BY <2>1, HowManyIs
  <2>3. HowMany(Contracts("provider"), UnderWay \union Ended)
          = Cardinality(Contracts("provider") \intersect own.docs)
    BY <1>1, <2>1, HowManyIs
  <2> QED
    BY <2>2, <2>3
<1>4. HowMany(KeptRequests, Open) + HowMany(KeptRequests, Done)
        = Cardinality(KeptRequests \intersect own.docs)
  <2>1. Open \cap Done = {}
    BY DEF Open, Done
  <2>2. HowMany(KeptRequests, Open \union Done)
          = HowMany(KeptRequests, Open) + HowMany(KeptRequests, Done)
    BY <2>1, HowManyIs
  <2>3. HowMany(KeptRequests, Open \union Done) = Cardinality(KeptRequests \intersect own.docs)
    BY <1>2, <2>1, HowManyIs
  <2> QED
    BY <2>2, <2>3
<1> QED
  BY <1>3, <1>4 DEF ActiveContracts, OpenRequests, UnderWay, Ended, Open, Done

\* The figures of an offer's decisions.
LEMMA RatesRound ==
  ASSUME OverviewTypeOK, own # NotAsked, NEW docs, NEW s, NEW t, s # t
  PROVE  /\ HowMany(docs, {s}) \in Nat /\ HowMany(docs, {t}) \in Nat
         /\ HowMany(docs, {s, t}) = HowMany(docs, {s}) + HowMany(docs, {t})
         /\ (HowMany(docs, {s, t}) # 0 /\ Percent(HowMany(docs, {s}), HowMany(docs, {s, t})) = 100) =>
              OfTwoHundred(HowMany(docs, {t}), HowMany(docs, {s, t}))
<1> DEFINE S == {s}
           T == {t}
<1>1. S \cap T = {}
  OBVIOUS
<1>2. /\ HowMany(docs, {s}) \in Nat /\ HowMany(docs, {t}) \in Nat
      /\ HowMany(docs, {s, t}) = HowMany(docs, {s}) + HowMany(docs, {t})
  <2>1. /\ HowMany(docs, {s}) \in Nat /\ HowMany(docs, {t}) \in Nat
        /\ HowMany(docs, {s} \union {t}) = HowMany(docs, {s}) + HowMany(docs, {t})
    <3> HIDE DEF S, T
    <3>1. /\ HowMany(docs, S) \in Nat /\ HowMany(docs, T) \in Nat
          /\ HowMany(docs, S \union T) = HowMany(docs, S) + HowMany(docs, T)
      BY <1>1, HowManyIs
    <3> QED
      BY <3>1 DEF S, T
  <2>2. HowMany(docs, {s} \union {t}) = HowMany(docs, {s, t})
    <3>1. {i \in docs \intersect own.docs : StatusOf(i, "status") \in {s} \union {t}}
            = {i \in docs \intersect own.docs : StatusOf(i, "status") \in {s, t}}
      OBVIOUS
    <3> QED
      BY <3>1 DEF HowMany
  <2> QED
    BY <2>1, <2>2
<1>3. PICK n \in Nat, m \in Nat : n = HowMany(docs, {s}) /\ m = HowMany(docs, {t})
  BY <1>2
<1>4. HowMany(docs, {s, t}) = n + m
  BY <1>2, <1>3
<1>5. ASSUME n + m # 0, Percent(n, n + m) = 100 PROVE OfTwoHundred(m, n + m)
  <2>1. n + m \in Nat \ {0} /\ n <= n + m /\ (n + m) - n = m
    BY <1>5
  <2> QED
    BY <1>5, <2>1, FullRate
<1> QED
  BY <1>2, <1>3, <1>4, <1>5

LEMMA RatesAre ==
  ASSUME OverviewTypeOK, own # NotAsked
  PROVE  /\ AcceptanceRate = 100 =>
              OfTwoHundred(HowMany(Offers("provider"), {"declined"}),
                           HowMany(Offers("provider"), {"accepted", "declined"}))
         /\ ActivityProgress = 100 =>
              OfTwoHundred(HowMany(Offers("provider"), {"sent"}),
                           HowMany(Offers("provider"), {"sent", "accepted"}))
<1> DEFINE docs == Offers("provider")
<1> HIDE DEF docs
<1>1. {"sent", "accepted"} = {"accepted", "sent"}
  OBVIOUS
<1>2. ASSUME AcceptanceRate = 100
      PROVE  OfTwoHundred(HowMany(docs, {"declined"}), HowMany(docs, {"accepted", "declined"}))
  <2>1. /\ HowMany(docs, {"accepted", "declined"}) # 0
        /\ Percent(HowMany(docs, {"accepted"}), HowMany(docs, {"accepted", "declined"})) = 100
    BY <1>2 DEF AcceptanceRate, docs
  <2>2. "accepted" # "declined"
    OBVIOUS
  <2> QED
    BY <2>1, <2>2, RatesRound
<1>3. ASSUME ActivityProgress = 100
      PROVE  OfTwoHundred(HowMany(docs, {"sent"}), HowMany(docs, {"sent", "accepted"}))
  <2>1. /\ HowMany(docs, {"accepted", "sent"}) # 0
        /\ Percent(HowMany(docs, {"accepted"}), HowMany(docs, {"accepted", "sent"})) = 100
    BY <1>1, <1>3 DEF ActivityProgress, docs
  <2>2. "accepted" # "sent"
    OBVIOUS
  <2>3. OfTwoHundred(HowMany(docs, {"sent"}), HowMany(docs, {"accepted", "sent"}))
    BY <2>1, <2>2, RatesRound
  <2> QED
    BY <1>1, <2>3
<1> QED
  BY <1>2, <1>3 DEF docs

\* Whom the page greets in a role that he does not have was busy in it.
LEMMA GreetedWereBusy ==
  ASSUME OverviewTypeOK, own # NotAsked
  PROVE  /\ (PreferredRole = "provider" /\ own.role = "client") => ProviderLoad > 0
         /\ (PreferredRole = "customer" /\ own.role = "provider") => CustomerLoad > 0
<1>1. ASSUME NEW docs PROVE Cardinality(ActiveDocs(docs)) \in Nat
  <2>1. ActiveDocs(docs) \subseteq own.docs
    BY DEF ActiveDocs
  <2> QED
    BY <2>1, OwnIs, FS_Subset, FS_CardinalityType
<1>2. PICK c \in Nat, p \in Nat : c = CustomerLoad /\ p = ProviderLoad
  BY <1>1 DEF CustomerLoad, ProviderLoad
<1>3. PreferredRole = CASE c > p -> "customer"
                        [] p > c -> "provider"
                        [] OTHER -> IF own.role = "provider" THEN "provider" ELSE "customer"
  BY <1>2 DEF PreferredRole
<1>4. CASE c > p
  BY <1>2, <1>3, <1>4
<1>5. CASE p > c
  BY <1>2, <1>3, <1>5
<1>6. CASE c = p
  BY <1>2, <1>3, <1>6
<1> QED
  BY <1>2, <1>4, <1>5, <1>6

\* The two months together are completed, but for what was being completed.
LEMMA TwoMonths ==
  ASSUME OverviewTypeOK, own # NotAsked
  PROVE  CompletedIn("provider", 0) + CompletedIn("provider", -1)
           <= HowMany(Contracts("provider"), {"completed"}) + Cardinality(own.ending)
<1> DEFINE P == Contracts("provider")
           A == CompletedSet("provider", 0)
           B == CompletedSet("provider", -1)
           C == {i \in P \intersect own.docs : StatusOf(i, "status") \in {"completed"}}
           E == own.ending
<1>1. PICK o \in Int : o = -1 /\ o = 0 - 1
  OBVIOUS
<1>2. PICK a \in Nat : a = MonthOf(own.asked)
  BY ShiftIs
<1>3. /\ CompletedIn("provider", 0) = Cardinality(A) /\ A \subseteq own.docs
      /\ \A i \in A : /\ i \in P /\ OwnDocs[i].status = "completed"
                     /\ MonthOf(OwnDocs[i].done) = a
  <2>1. 0 \in Int /\ a + 0 = a
    OBVIOUS
  <2> QED
    BY <1>2, <2>1, CompletedIs
<1>4. /\ CompletedIn("provider", -1) = Cardinality(B) /\ B \subseteq own.docs
      /\ \A i \in B : /\ i \in P /\ OwnDocs[i].status = "completed"
                     /\ MonthOf(OwnDocs[i].done) = a + o
  BY <1>1, <1>2, CompletedIs
<1> HIDE DEF A, B, P
<1>5. Apart(A, B)
  BY <1>1, <1>3, <1>4 DEF Apart
<1>6. /\ IsFiniteSet(own.docs) /\ E \subseteq own.docs /\ C \subseteq own.docs
      /\ HowMany(P, {"completed"}) = Cardinality(C)
  BY OwnIs DEF HowMany
<1>7. Cardinality(Together(A, B)) = Cardinality(A) + Cardinality(B)
      /\ Together(A, B) \subseteq own.docs
  BY <1>3, <1>4, <1>5, <1>6, DisjointCounts
<1>8. Together(A, B) \subseteq C \union E
  <2>1. ASSUME NEW i \in Together(A, B), i \notin E PROVE i \in C
    <3>1. i \in P /\ i \in own.docs /\ OwnDocs[i].status = "completed"
      BY <1>3, <1>4, <2>1 DEF Together
    <3>2. StatusOf(i, "status") = "completed"
      BY <2>1, <3>1 DEF StatusOf
    <3> QED
      BY <3>1, <3>2
  <2> QED
    BY <2>1
<1> HIDE DEF C, E
<1>9. /\ IsFiniteSet(C) /\ IsFiniteSet(E) /\ IsFiniteSet(C \union E) /\ IsFiniteSet(C \cap E)
      /\ Cardinality(C \union E) = Cardinality(C) + Cardinality(E) - Cardinality(C \cap E)
  <2>1. IsFiniteSet(C) /\ IsFiniteSet(E)
    BY <1>6, FS_Subset
  <2> QED
    BY <2>1, FS_Union, FS_Subset
<1>10. Cardinality(Together(A, B)) <= Cardinality(C \union E)
  BY <1>8, <1>9, FS_Subset
<1>11. /\ Cardinality(C) \in Nat /\ Cardinality(E) \in Nat /\ Cardinality(C \cap E) \in Nat
       /\ Cardinality(A) \in Nat /\ Cardinality(B) \in Nat
  BY <1>3, <1>4, <1>6, <1>9, FS_Subset, FS_CardinalityType
<1>12. Cardinality(A) + Cardinality(B) <= Cardinality(C) + Cardinality(E)
  BY <1>7, <1>9, <1>10, <1>11
<1> QED
  BY <1>3, <1>4, <1>6, <1>12 DEF P, E

\* The bars and the figures agree.
LEMMA BarsAgree ==
  ASSUME OverviewTypeOK, own # NotAsked
  PROVE  /\ \A m \in {0, 1} :
              ProviderBar(6 - m - Shift) - CompletedIn("provider", -m)
                \in (0 - Cardinality(own.ending))..Cardinality(own.ending)
         /\ (/\ Cardinality(own.ending) = 0
             /\ ProviderBar(6 - Shift) - ProviderBar(5 - Shift) > 0) =>
              LET delta == Delta(CompletedIn("provider", 0), CompletedIn("provider", -1))
                  before == ProviderBar(5 - Shift) IN
              \/ delta.kind = "new" /\ before = 0
              \/ /\ delta.kind = "percent"
                 /\ \/ delta.percent > 0
                    \/ OfTwoHundred(ProviderBar(6 - Shift) - before, before)
<1> DEFINE e == Cardinality(own.ending)
<1>1. PICK o \in Int : o = -1 /\ o = 0 - 1
  OBVIOUS
<1>2. Shift \in {0, 1} /\ 6 + 0 - Shift = 6 - Shift /\ 6 + o - Shift = 5 - Shift
  BY <1>1, ShiftIs
<1>3. /\ ProviderBar(6 - Shift) \in Nat /\ e \in Nat /\ CompletedIn("provider", 0) \in Nat
      /\ ProviderBar(6 - Shift) - CompletedIn("provider", 0) \in (0 - e)..e
  BY <1>2, CompletedBar, CompletedIs, 0 \in Int
<1>4. /\ ProviderBar(5 - Shift) \in Nat /\ CompletedIn("provider", o) \in Nat
      /\ ProviderBar(5 - Shift) - CompletedIn("provider", o) \in (0 - e)..e
  BY <1>1, <1>2, CompletedBar, CompletedIs
<1> HIDE DEF e
<1>5. ASSUME NEW m \in {0, 1}
      PROVE  ProviderBar(6 - m - Shift) - CompletedIn("provider", -m) \in (0 - e)..e
  <2>1. CASE m = 0
    <3>1. -0 = 0 /\ 6 - 0 - Shift = 6 - Shift
      <4>1. \A x \in Int : -x = 0 - x
        OBVIOUS
      <4>2. -0 = 0 - 0
        BY <4>1, 0 \in Int, Zenon
      <4>3. 0 - 0 = 0 /\ 6 - 0 - Shift = 6 - Shift
        BY <1>2
      <4> QED
        BY <4>2, <4>3, Zenon
    <3>2. ProviderBar(6 - 0 - Shift) - CompletedIn("provider", -0) \in (0 - e)..e
      BY <1>3, <3>1
    <3> QED
      BY <2>1, <3>2
  <2>2. CASE m = 1
    <3>1. -1 = o /\ 6 - 1 - Shift = 5 - Shift
      BY <1>1, <1>2
    <3>2. ProviderBar(6 - 1 - Shift) - CompletedIn("provider", -1) \in (0 - e)..e
      BY <1>4, <3>1
    <3> QED
      BY <2>2, <3>2
  <2> QED
    BY <2>1, <2>2
<1>6. ASSUME e = 0, ProviderBar(6 - Shift) - ProviderBar(5 - Shift) > 0
      PROVE  LET delta == Delta(CompletedIn("provider", 0), CompletedIn("provider", -1))
                 before == ProviderBar(5 - Shift) IN
             \/ delta.kind = "new" /\ before = 0
             \/ /\ delta.kind = "percent"
                /\ \/ delta.percent > 0
                   \/ OfTwoHundred(ProviderBar(6 - Shift) - before, before)
  <2>1. PICK c \in Nat, p \in Nat : c = ProviderBar(6 - Shift) /\ p = ProviderBar(5 - Shift)
    BY <1>3, <1>4
  <2>2. c = CompletedIn("provider", 0) /\ p = CompletedIn("provider", o) /\ c > p
    BY <1>3, <1>4, <1>6, <2>1
  <2>3. \/ Delta(c, p).kind = "new" /\ p = 0
        \/ Delta(c, p).kind = "percent" /\ (Delta(c, p).percent > 0 \/ OfTwoHundred(c - p, p))
    BY <2>2, GrowthShows
  <2>4. Delta(CompletedIn("provider", 0), CompletedIn("provider", -1)) = Delta(c, p)
    BY <1>1, <2>2, Zenon
  <2> QED
    BY <2>1, <2>3, <2>4, Zenon
<1> QED
  BY <1>5, <1>6 DEF e

\* Of all that is drawn and said in the private overview.
LEMMA OverviewAddsUpInv == OverviewTypeOK => OverviewAddsUp
<1> SUFFICES ASSUME OverviewTypeOK, own # NotAsked PROVE OverviewAddsUp
  BY DEF OverviewAddsUp
<1> QED
  BY BarsAgree, BarsAddUp, GreetedWereBusy, StatusCounts, TwoMonths, RatesAre, Zenon
     DEF OverviewAddsUp, Shift, Dropped

-----------------------------------------------------------------------------
(* The cities of the market and the radar beside them. *)

\* What is counted in a town, of a window or merged.
IsCounted(c) ==
  /\ c.requests \in Nat
  /\ c.jobs \in Nat \union {NoCount} /\ c.providers \in Nat \union {NoCount}
  /\ c.place \in Int \union {NoCount}
  /\ "balance" \in DOMAIN c => c.balance \in Nat \union {NoCount}

IsMarket(market) ==
  /\ IsFiniteSet(DOMAIN market) /\ DOMAIN market \subseteq Int
  /\ \A t \in DOMAIN market : IsCounted(market[t])

\* Rounding keeps the order, and a larger one of some numbers is one of them.
LEMMA NearestIs ==
  ASSUME NEW n \in Nat, NEW d \in Nat \ {0} PROVE Nearest(n, d) \in Nat
<1> DEFINE x == 2 * n + d
           y == 2 * d
<1>1. x \in Nat /\ y \in Nat \ {0}
  OBVIOUS
<1> HIDE DEF x, y
<1>2. x \div y \in Nat
  BY <1>1
<1> QED
  BY <1>2 DEF Nearest, x, y

\* The searches of a town stay what they are where they are known, and both are known
\* or none.
LEMMA SearchMetricsAre ==
  ASSUME NEW c, c.requests \in Nat, c.jobs \in Nat \union {NoCount},
         c.providers \in Nat \union {NoCount}
  PROVE  LET m == SearchMetrics(c) IN
         /\ m.jobs \in Nat \union {NoCount} /\ m.providers \in Nat \union {NoCount}
         /\ m.balance \in Nat \union {NoCount}
         /\ c.jobs # NoCount => m.jobs = c.jobs
         /\ c.providers # NoCount => m.providers = c.providers
         /\ m.jobs = NoCount => m.providers = NoCount
         /\ m.providers = NoCount => m.jobs = NoCount
<1> DEFINE j == Proxy(c.jobs, c.requests, c.providers)
           p == Proxy(c.providers, c.requests, j)
           demand == IF p = 0 THEN c.requests ELSE p
           x == 100 * demand
           y == AtLeast(1, j)
           balance == IF NoCount \in {j, p} \/ (demand = 0 /\ j = 0) THEN NoCount
                      ELSE Nearest(x, y)
           m == SearchMetrics(c)
<1>1. NoCount \notin Nat
  BY CitiesAssumption
<1>2. /\ j \in Nat \union {NoCount}
      /\ c.jobs # NoCount => j = c.jobs
      /\ j = NoCount <=> (c.jobs = NoCount /\ c.providers = NoCount)
  BY <1>1 DEF Proxy, AtLeast
<1>3. /\ p \in Nat \union {NoCount}
      /\ c.providers # NoCount => p = c.providers
      /\ p = NoCount <=> (c.providers = NoCount /\ j = NoCount)
  <2> HIDE DEF j
  <2> QED
    BY <1>1, <1>2 DEF Proxy, AtLeast
<1>4. m = [jobs |-> j, providers |-> p, balance |-> balance]
  BY DEF SearchMetrics, BalancedFor, Balanced
<1> HIDE DEF j, p
<1>5. balance \in Nat \union {NoCount}
  <2>1. CASE NoCount \in {j, p}
    BY <2>1
  <2>2. CASE NoCount \notin {j, p}
    <3>1. j \in Nat /\ p \in Nat
      BY <1>2, <1>3, <2>2
    <3>2. x \in Nat /\ y \in Nat \ {0}
      BY <3>1 DEF AtLeast
    <3> HIDE DEF x, y
    <3>3. Nearest(x, y) \in Nat
      BY <3>2, NearestIs
    <3> QED
      BY <3>3
  <2> QED
    BY <2>1, <2>2
<1> HIDE DEF balance
<1>6. m.jobs = j /\ m.providers = p /\ m.balance = balance
  BY <1>4
<1> HIDE DEF m
<1>7. /\ m.jobs \in Nat \union {NoCount} /\ m.providers \in Nat \union {NoCount}
      /\ m.balance \in Nat \union {NoCount}
      /\ c.jobs # NoCount => m.jobs = c.jobs
      /\ c.providers # NoCount => m.providers = c.providers
      /\ m.jobs = NoCount => m.providers = NoCount
      /\ m.providers = NoCount => m.jobs = NoCount
  BY <1>2, <1>3, <1>5, <1>6
<1> QED
  BY <1>7, Zenon DEF m

LEMMA DemandIs == ASSUME NEW c, IsCounted(c) PROVE Demand(c) \in Nat
<1> DEFINE m == SearchMetrics(c)
<1>1. m.providers \in Nat \union {NoCount}
  BY SearchMetricsAre DEF IsCounted
<1>2. c.requests \in Nat /\ NoCount \notin Nat
  BY CitiesAssumption DEF IsCounted
<1> HIDE DEF m
<1>3. OfEither(m.providers, c.requests) \in Nat
  BY <1>1, <1>2 DEF OfEither, AtLeast
<1> QED
  BY <1>3 DEF Demand, m

\* Finitely many numbers have a largest one.
LEMMA LargestIs ==
  ASSUME NEW T, T \subseteq Nat, T # {}, IsFiniteSet(T)
  PROVE  Max(T) \in T /\ \A x \in T : x <= Max(T)
<1> DEFINE key == [x \in T |-> <<x>>]
           list == InOrder(T, key)
<1>1. ASSUME NEW x \in T PROVE IsKey(key[x], 1) /\ key[x][1] = x
  <2>1. key[x] = <<x>> /\ x \in Int
    OBVIOUS
  <2>2. IsKey(<<x>>, 1) /\ <<x>>[1] = x
    BY <2>1, OneKey
  <2> QED
    BY <2>1, <2>2
<1>2. \A x, y \in T : key[x] = key[y] => x = y
  BY <1>1
<1> HIDE DEF key
<1>3. IsSorted(list, T, key)
  BY <1>1, <1>2, InOrderSorts
<1> HIDE DEF list
<1>4. Len(list) \in Nat /\ \A k \in 1..Len(list) : list[k] \in T
  BY <1>3 DEF IsSorted
<1>5. PICK z \in T : TRUE
  OBVIOUS
<1>6. PICK k \in 1..Len(list) : list[k] = z
  BY <1>3 DEF IsSorted
<1> DEFINE last == list[Len(list)]
<1>7. Len(list) \in 1..Len(list) /\ last \in T
  BY <1>4, <1>6
<1>8. ASSUME NEW x \in T PROVE last >= x
  <2>1. PICK i \in 1..Len(list) : list[i] = x
    BY <1>3 DEF IsSorted
  <2>2. CASE i = Len(list)
    BY <2>1, <2>2
  <2>3. CASE i < Len(list)
    <3>1. Precedes(key[list[i]], key[last])
      BY <1>3, <1>7, <2>3 DEF IsSorted
    <3>2. IsKey(key[list[i]], 1) /\ IsKey(key[last], 1)
      BY <1>1, <1>4, <1>7
    <3>3. key[list[i]][1] <= key[last][1]
      BY <3>1, <3>2, PrecedesFirst
    <3> QED
      BY <1>1, <1>7, <2>1, <3>3
  <2> QED
    BY <1>4, <2>2, <2>3
<1> HIDE DEF last
<1>9. Max(T) \in T /\ \A x \in T : Max(T) >= x
  BY <1>7, <1>8 DEF Max
<1> QED
  BY <1>9

LEMMA MaxDemandIs ==
  ASSUME NEW market, IsMarket(market) PROVE MaxDemand(market) \in Nat \ {0}
<1> DEFINE f == [t \in DOMAIN market |-> Demand(market[t])]
           D == {Demand(market[t]) : t \in DOMAIN market}
           one == {1}
           T == one \union D
<1>1. \A t \in DOMAIN market : Demand(market[t]) \in Nat
  BY DemandIs DEF IsMarket
<1>2. IsFiniteSet(D)
  <2>1. f \in Surjection(DOMAIN market, D)
    BY DEF Surjection
  <2>2. IsFiniteSet(DOMAIN market)
    BY DEF IsMarket
  <2> HIDE DEF f, D
  <2> QED
    BY <2>1, <2>2, FS_Surjection
<1>3. /\ IsFiniteSet(one)
      /\ 1 \in one /\ one \subseteq Nat
  <2>1. IsFiniteSet(one)
    BY FS_Singleton
  <2> QED
    BY <2>1
<1>4. D \subseteq Nat
  BY <1>1
<1> HIDE DEF D, one
<1>5. IsFiniteSet(T) /\ T \subseteq Nat /\ 1 \in T
  BY <1>2, <1>3, <1>4, FS_Union
<1> HIDE DEF T
<1> DEFINE most == Max(T)
<1>6. most \in T /\ 1 <= most
  BY <1>5, LargestIs
<1> HIDE DEF most
<1>7. most \in Nat \ {0}
  BY <1>5, <1>6
<1> QED
  BY <1>7, Zenon DEF MaxDemand, most, T, D, one

LEMMA ScoreIsANumber ==
  ASSUME NEW demand \in Nat, NEW balance \in Nat \union {NoCount}, NEW most \in Nat \ {0}
  PROVE  Score(demand, balance, most) \in Nat
<1> DEFINE chance == IF balance = NoCount THEN 75 ELSE AtMost(balance, 150)
           rest == 30 * chance + 150 * Pace
           more == rest * most
           x == 6000 * demand + more
           y == 150 * most
<1>1. chance \in Nat
  BY DEF AtMost
<1>2. rest \in Nat
  <2> HIDE DEF chance
  <2> QED
    BY <1>1, CitiesAssumption
<1>3. more \in Nat
  <2> HIDE DEF rest
  <2> QED
    BY <1>2
<1>4. x \in Nat /\ y \in Nat \ {0}
  <2> HIDE DEF more
  <2> QED
    BY <1>3
<1>5. Score(demand, balance, most) = Nearest(x, y)
  BY Zenon DEF Score
<1> HIDE DEF x, y
<1> QED
  BY <1>4, <1>5, NearestIs

LEMMA CityScoresAre ==
  ASSUME NEW market, IsMarket(market)
  PROVE  \A t \in DOMAIN market : OpportunityScores(market)[t] \in Nat
<1> SUFFICES ASSUME NEW t \in DOMAIN market PROVE OpportunityScores(market)[t] \in Nat
  OBVIOUS
<1> DEFINE c == market[t]
<1>1. IsCounted(c)
  BY DEF IsMarket
<1>2. BalanceOf(c) \in Nat \union {NoCount}
  <2>1. SearchMetrics(c).balance \in Nat \union {NoCount}
    BY <1>1, SearchMetricsAre DEF IsCounted
  <2> QED
    BY <1>1, <2>1 DEF BalanceOf, IsCounted
<1>3. Demand(c) \in Nat /\ MaxDemand(market) \in Nat \ {0}
  BY <1>1, DemandIs, MaxDemandIs
<1>4. Score(Demand(c), BalanceOf(c), MaxDemand(market)) \in Nat
  BY <1>2, <1>3, ScoreIsANumber
<1> QED
  BY <1>4 DEF OpportunityScores

\* The ranking holds every town once, those with higher scores before those with lower
\* ones.
RankKey(market, towns) ==
  [t \in towns |-> <<-OpportunityScores(market)[t], -[u \in towns |-> Demand(market[u])][t], t>>]

LEMMA RankIsSorted ==
  ASSUME NEW market, IsMarket(market), NEW towns, towns \subseteq DOMAIN market
  PROVE  /\ IsSorted(RankTowns(market, towns), towns, RankKey(market, towns))
         /\ \A i, j \in 1..Len(RankTowns(market, towns)) : i <= j =>
              OpportunityScores(market)[RankTowns(market, towns)[i]]
                >= OpportunityScores(market)[RankTowns(market, towns)[j]]
<1> DEFINE key == RankKey(market, towns)
           score == OpportunityScores(market)
           demand == [u \in towns |-> Demand(market[u])]
           list == RankTowns(market, towns)
<1>1. IsFiniteSet(towns) /\ towns \subseteq Int
  BY FS_Subset DEF IsMarket
<1>2. \A t \in towns : score[t] \in Nat /\ demand[t] \in Nat
  BY CityScoresAre, DemandIs DEF IsMarket
<1>3. \A t \in towns : key[t] = <<-score[t], -demand[t], t>>
  BY DEF RankKey
<1>4. list = InOrder(towns, key)
  BY Zenon DEF RankTowns, ByScore, RankKey
<1> HIDE DEF key, score, demand, list
<1>5. ASSUME NEW t \in towns
      PROVE  IsKey(key[t], 3) /\ key[t][1] = -score[t] /\ key[t][3] = t
  <2>1. PICK a \in Int : a = -score[t]
    BY <1>2, NegativeIs
  <2>2. PICK b \in Int : b = -demand[t]
    BY <1>2, NegativeIs
  <2>3. key[t] = <<a, b, t>>
    BY <1>3, <2>1, <2>2
  <2>4. IsKey(<<a, b, t>>, 3) /\ <<a, b, t>>[1] = a /\ <<a, b, t>>[3] = t
    BY <1>1, ThreeKeys
  <2> QED
    BY <2>1, <2>3, <2>4
<1>6. \A t, u \in towns : key[t] = key[u] => t = u
  BY <1>5
<1>7. IsSorted(list, towns, key)
  BY <1>1, <1>4, <1>5, <1>6, InOrderSorts
<1>8. ASSUME NEW i \in 1..Len(list), NEW j \in 1..Len(list), i <= j
      PROVE  score[list[i]] >= score[list[j]]
  <2>1. list[i] \in towns /\ list[j] \in towns
    BY <1>7 DEF IsSorted
  <2>2. CASE i = j
    BY <1>2, <2>1, <2>2
  <2>3. CASE i < j
    <3>1. Precedes(key[list[i]], key[list[j]])
      BY <1>7, <2>3 DEF IsSorted
    <3>2. key[list[i]][1] <= key[list[j]][1]
      BY <1>5, <2>1, <3>1, PrecedesFirst
    <3>3. -score[list[i]] <= -score[list[j]]
      BY <1>5, <2>1, <3>2
    <3> QED
      BY <1>2, <2>1, <3>3
  <2> QED
    BY <1>8, <2>2, <2>3
<1> QED
  BY <1>7, <1>8 DEF key, score, list

IsQuery(q) ==
  /\ IsMarket(q.market) /\ q.focus \in Int \union {NoCount}
  /\ q.page \in Int /\ q.limit \in Int

LEMMA ListedAre ==
  ASSUME NEW q, IsMarket(q.market)
  PROVE  /\ ListedTowns(q) \in Seq(Around(q)) /\ Len(ListedTowns(q)) \in Nat
         /\ Around(q) \subseteq DOMAIN q.market
         /\ \A t \in Around(q) : \E i \in 1..Len(ListedTowns(q)) : ListedTowns(q)[i] = t
         /\ \A i, j \in 1..Len(ListedTowns(q)) :
              ListedTowns(q)[i] = ListedTowns(q)[j] => i = j
         /\ \A i, j \in 1..Len(ListedTowns(q)) : i <= j =>
              OpportunityScores(q.market)[ListedTowns(q)[i]]
                >= OpportunityScores(q.market)[ListedTowns(q)[j]]
<1> DEFINE market == q.market
           towns == Around(q)
           list == ListedTowns(q)
<1>1. towns \subseteq DOMAIN market
  BY DEF Around
<1>2. list = RankTowns(market, towns)
  BY DEF ListedTowns
<1>3. IsMarket(market)
  OBVIOUS
<1> HIDE DEF market, towns, list
<1>4. /\ IsSorted(list, towns, RankKey(market, towns))
      /\ \A i, j \in 1..Len(list) : i <= j =>
           OpportunityScores(market)[list[i]] >= OpportunityScores(market)[list[j]]
  BY <1>1, <1>2, <1>3, RankIsSorted
<1>5. /\ list \in Seq(towns) /\ Len(list) \in Nat
      /\ \A t \in towns : \E i \in 1..Len(list) : list[i] = t
      /\ \A i, j \in 1..Len(list) : list[i] = list[j] => i = j
  BY <1>4 DEF IsSorted
<1> QED
  BY <1>1, <1>4, <1>5 DEF market, towns, list

\* Without a city in the filter no town beside the radar has a higher score than one on it.
LEMMA BestAreOnRadar ==
  ASSUME NEW q, IsMarket(q.market), q.focus = NoCount
  PROVE  \A t \in MembersOf(Radar(q, ListedTowns(q))) :
           \A u \in DOMAIN q.market \ MembersOf(Radar(q, ListedTowns(q))) :
             OpportunityScores(q.market)[t] >= OpportunityScores(q.market)[u]
<1> DEFINE list == ListedTowns(q)
           score == OpportunityScores(q.market)
           radar == Radar(q, list)
           m == AtMost(3, Len(list))
<1>1. /\ list \in Seq(Around(q)) /\ Len(list) \in Nat
      /\ \A t \in Around(q) : \E i \in 1..Len(list) : list[i] = t
      /\ \A i, j \in 1..Len(list) : i <= j => score[list[i]] >= score[list[j]]
  BY ListedAre
<1>2. Around(q) = DOMAIN q.market
  BY DEF Around
<1> HIDE DEF list, score
<1>3. /\ radar \in Seq(Around(q)) /\ Len(radar) = m /\ m \in Nat /\ m <= Len(list) /\ m <= 3
      /\ \A k \in 1..m : radar[k] = list[k]
  <2>1. CASE list = <<>>
    <3>1. radar = <<>> /\ Len(list) = 0 /\ m = 0
      BY <2>1 DEF Radar, AtMost
    <3> HIDE DEF radar, m
    <3> QED
      BY <3>1
  <2>2. CASE list # <<>>
    <3>1. PICK three \in Nat : three = 3
      OBVIOUS
    <3>2. radar = FirstOf(list, three) /\ m = AtMost(three, Len(list))
      BY <2>2, <3>1 DEF Radar
    <3> HIDE DEF radar, m
    <3> QED
      BY <1>1, <3>1, <3>2, FirstOfIs
  <2> QED
    BY <2>1, <2>2
<1> HIDE DEF radar, m
<1> SUFFICES ASSUME NEW t \in MembersOf(radar), NEW u \in DOMAIN q.market \ MembersOf(radar)
             PROVE  score[t] >= score[u]
  BY DEF list, score, radar
<1>4. PICK k \in 1..m : list[k] = t
  BY <1>3 DEF MembersOf
<1>5. PICK j \in 1..Len(list) : list[j] = u
  BY <1>1, <1>2
<1>6. \A i \in 1..m : radar[i] \in MembersOf(radar)
  BY <1>3 DEF MembersOf
<1>7. k \in 1..Len(list) /\ k <= j
  <2>1. ~(j \in 1..m)
    BY <1>3, <1>5, <1>6
  <2> QED
    BY <1>1, <1>3, <1>4, <1>5, <2>1
<1> QED
  BY <1>1, <1>4, <1>5, <1>7

\* The places of those the town in the filter competes with: those right above it, the
\* closest first, and then those below.
RivalPlace(at, k) == IF k < at THEN at - k ELSE k + 1

LEMMA Concatenated ==
  ASSUME NEW S, NEW s \in Seq(S), NEW t \in Seq(S)
  PROVE  /\ s \o t \in Seq(S) /\ Len(s \o t) = Len(s) + Len(t)
         /\ \A k \in 1..Len(s) : (s \o t)[k] = s[k]
         /\ \A k \in 1..Len(t) : (s \o t)[Len(s) + k] = t[k]
OBVIOUS

LEMMA CompetitorsAre ==
  ASSUME NEW S, NEW list \in Seq(S), NEW town, NEW i0 \in 1..Len(list), list[i0] = town,
         \A i, j \in 1..Len(list) : list[i] = list[j] => i = j
  PROVE  LET at == PlaceOf(list, town)
             m == AtMost(2, Len(list) - 1)
         IN /\ at = i0 /\ m \in Nat /\ m <= 2
            /\ Competitors(list, town) \in Seq(S) /\ Len(Competitors(list, town)) = m
            /\ \A k \in 1..m : /\ RivalPlace(i0, k) \in 1..Len(list) /\ RivalPlace(i0, k) # i0
                               /\ Competitors(list, town)[k] = list[RivalPlace(i0, k)]
            /\ \A k, l \in 1..m : RivalPlace(i0, k) = RivalPlace(i0, l) => k = l
<1> DEFINE n == Len(list)
           at == PlaceOf(list, town)
           above == [k \in 1..(i0 - 1) |-> list[i0 - k]]
           below == SubSeq(list, i0 + 1, n)
           others == above \o below
           m == AtMost(2, n - 1)
<1>1. n \in Nat /\ DOMAIN list = 1..n /\ \A i \in 1..n : list[i] \in S
  OBVIOUS
<1>2. at = i0
  BY <1>1 DEF PlaceOf
<1>3. above \in Seq(S) /\ Len(above) = i0 - 1 /\ \A k \in 1..(i0 - 1) : above[k] = list[i0 - k]
  <2>1. i0 - 1 \in Nat /\ \A k \in 1..(i0 - 1) : i0 - k \in 1..n
    BY <1>1
  <2>2. above \in [1..(i0 - 1) -> S]
    BY <1>1, <2>1
  <2> QED
    BY <2>1, <2>2
<1>4. below \in Seq(S) /\ Len(below) = n - i0 /\ \A k \in 1..(n - i0) : below[k] = list[i0 + k]
  BY <1>1
<1> HIDE DEF above, below
<1>5. /\ others \in Seq(S) /\ Len(others) = n - 1
      /\ \A k \in 1..(n - 1) : others[k] = list[RivalPlace(i0, k)]
  <2> HIDE DEF n, at, m
  <2>1. /\ others \in Seq(S)
        /\ Len(others) = Len(above) + Len(below)
        /\ \A k \in 1..Len(above) : others[k] = above[k]
        /\ \A k \in 1..Len(below) : others[Len(above) + k] = below[k]
    <3>1. above \in Seq(S) /\ below \in Seq(S)
      BY <1>3, <1>4
    <3>2. others = above \o below
      OBVIOUS
    <3> HIDE DEF others
    <3> QED
      BY <3>1, <3>2, Concatenated
  <2> HIDE DEF others
  <2>3. i0 \in 1..n /\ Len(others) = n - 1
    BY <1>1, <1>3, <1>4, <2>1 DEF n
  <2>2. ASSUME NEW k \in 1..(n - 1) PROVE others[k] = list[RivalPlace(i0, k)]
    <3>1. CASE k < i0
      <4>1. k \in 1..(i0 - 1)
        BY <1>1, <2>3, <3>1
      <4> QED
        BY <1>3, <2>1, <3>1, <4>1 DEF RivalPlace
    <3>2. CASE k >= i0
      <4>1. PICK l \in 1..(n - i0) : k = (i0 - 1) + l
        <5>1. k - (i0 - 1) \in 1..(n - i0) /\ k = (i0 - 1) + (k - (i0 - 1))
          BY <1>1, <2>3, <3>2
        <5> QED
          BY <5>1
      <4>2. i0 + l = k + 1 /\ RivalPlace(i0, k) = k + 1
        BY <1>1, <2>3, <3>2, <4>1 DEF RivalPlace
      <4>3. others[k] = below[l]
        BY <1>3, <1>4, <2>1, <4>1
      <4> QED
        BY <1>4, <4>1, <4>2, <4>3
    <3> QED
      BY <1>1, <2>3, <3>1, <3>2
  <2> QED
    BY <2>1, <2>2, <2>3
<1>6. Competitors(list, town) = FirstOf(others, 2)
  BY <1>2 DEF Competitors, above, below
<1> HIDE DEF others
<1>7. n - 1 \in Nat /\ m = AtMost(2, Len(others))
  BY <1>1, <1>5
<1>8. /\ FirstOf(others, 2) \in Seq(S) /\ Len(FirstOf(others, 2)) = m
      /\ m \in Nat /\ m <= n - 1 /\ m <= 2
      /\ \A k \in 1..m : FirstOf(others, 2)[k] = others[k]
  <2>1. PICK two \in Nat : two = 2
    OBVIOUS
  <2>2. /\ FirstOf(others, two) \in Seq(S)
        /\ Len(FirstOf(others, two)) = AtMost(two, Len(others))
        /\ AtMost(two, Len(others)) \in Nat /\ AtMost(two, Len(others)) <= Len(others)
        /\ AtMost(two, Len(others)) <= two
        /\ \A k \in 1..AtMost(two, Len(others)) : FirstOf(others, two)[k] = others[k]
    BY <1>5, FirstOfIs
  <2>3. m = AtMost(two, Len(others))
    BY <1>7, <2>1
  <2> HIDE DEF m
  <2> QED
    BY <1>5, <2>1, <2>2, <2>3
<1> HIDE DEF m, n
<1>9. ASSUME NEW k \in 1..m
      PROVE  /\ RivalPlace(i0, k) \in 1..n /\ RivalPlace(i0, k) # i0
             /\ FirstOf(others, 2)[k] = list[RivalPlace(i0, k)]
  <2>1. k \in 1..(n - 1)
    BY <1>1, <1>8
  <2>2. RivalPlace(i0, k) \in 1..n /\ RivalPlace(i0, k) # i0
    <3>1. i0 \in 1..n
      BY DEF n
    <3> QED
      BY <1>1, <2>1, <3>1 DEF RivalPlace
  <2> QED
    BY <1>5, <1>8, <2>1, <2>2
<1>10. \A k, l \in 1..m : RivalPlace(i0, k) = RivalPlace(i0, l) => k = l
  <2>1. i0 \in Nat
    BY <1>1 DEF n
  <2> QED
    BY <1>8, <2>1 DEF RivalPlace
<1>11. /\ at = i0 /\ m \in Nat /\ m <= 2
       /\ Competitors(list, town) \in Seq(S) /\ Len(Competitors(list, town)) = m
       /\ \A k \in 1..m : /\ RivalPlace(i0, k) \in 1..n /\ RivalPlace(i0, k) # i0
                          /\ Competitors(list, town)[k] = list[RivalPlace(i0, k)]
       /\ \A k, l \in 1..m : RivalPlace(i0, k) = RivalPlace(i0, l) => k = l
  BY <1>2, <1>6, <1>8, <1>9, <1>10
<1> QED
  BY <1>11, Zenon DEF n, m
\* The town in the filter, those its rows call its competitors and the towns on the radar:
\* the rivals are as many as there are, up to two, all near, and no town between them and
\* it, nor above it if one is below, is left out.
LEMMA RadarIsAround ==
  ASSUME NEW q, IsMarket(q.market), q.focus # NoCount, ListedTowns(q) # <<>>
  PROVE  LET list == ListedTowns(q)
             roles == Roles(q, list)
             onRadar == MembersOf(Radar(q, list))
             rivals == {i \in DOMAIN list : roles[i] = "competitor"}
             at == PlaceOf(list, q.focus)
         IN /\ onRadar = {list[i] : i \in {j \in DOMAIN list : roles[j] # "none"}}
            /\ Cardinality(rivals) = AtMost(2, Len(list) - 1)
            /\ \A i \in rivals :
                 /\ Near(q.market, q.focus, list[i])
                 /\ \A k \in (i..at) \union (at..i) : list[k] \in onRadar
                 /\ i > at => \A k \in 1..at : list[k] \in onRadar
<1> DEFINE S == Around(q)
           list == ListedTowns(q)
           n == Len(list)
           town == q.focus
           roles == Roles(q, list)
           radar == Radar(q, list)
           onRadar == MembersOf(radar)
           rivals == {i \in DOMAIN list : roles[i] = "competitor"}
           at == PlaceOf(list, town)
           comp == Competitors(list, town)
           m == AtMost(2, n - 1)
<1>1. /\ list \in Seq(S) /\ n \in Nat
      /\ \A t \in S : \E i \in 1..n : list[i] = t
      /\ \A i, j \in 1..n : list[i] = list[j] => i = j
  BY ListedAre
<1>2. DOMAIN list = 1..n /\ \A i \in 1..n : list[i] \in S
  BY <1>1
<1>3. town \in S /\ \A t \in S : t = town \/ Near(q.market, town, t)
  <2>1. PICK i \in 1..n : list[i] \in S
    <3>1. n # 0
      BY <1>1
    <3>2. 1 \in 1..n
      BY <1>1, <3>1
    <3> QED
      BY <1>2, <3>2
  <2> QED
    BY <2>1 DEF Around
<1>4. PICK i0 \in 1..n : list[i0] = town
  BY <1>1, <1>3
<1>5. /\ at = i0 /\ m \in Nat /\ m <= 2
      /\ comp \in Seq(S) /\ Len(comp) = m
      /\ \A k \in 1..m : /\ RivalPlace(i0, k) \in 1..n /\ RivalPlace(i0, k) # i0
                         /\ comp[k] = list[RivalPlace(i0, k)]
      /\ \A k, l \in 1..m : RivalPlace(i0, k) = RivalPlace(i0, l) => k = l
  <2> HIDE DEF S, list, town
  <2>1. list \in Seq(S) /\ i0 \in 1..Len(list) /\ list[i0] = town
    BY <1>1, <1>4
  <2>2. \A i, j \in 1..Len(list) : list[i] = list[j] => i = j
    BY <1>1
  <2> QED
    BY <2>1, <2>2, CompetitorsAre
<1>6. radar = <<town>> \o comp
  BY DEF Radar
<1>7. /\ DOMAIN roles = 1..n
      /\ \A i \in 1..n :
           /\ roles[i] = "focus" <=> i = i0
           /\ (roles[i] = "competitor") <=> (\E k \in 1..m : i = RivalPlace(i0, k))
           /\ roles[i] = "none" <=> (i # i0 /\ ~\E k \in 1..m : i = RivalPlace(i0, k))
  <2>1. roles = [i \in DOMAIN list |->
                   IF list[i] = town THEN "focus"
                   ELSE IF \E k \in DOMAIN comp : comp[k] = list[i] THEN "competitor"
                   ELSE "none"]
    BY DEF Roles
  <2>2. DOMAIN comp = 1..m
    BY <1>5
  <2> HIDE DEF roles, comp, list, n, m, town
  <2>3. ASSUME NEW i \in 1..n
        PROVE  /\ list[i] = town <=> i = i0
               /\ (\E k \in DOMAIN comp : comp[k] = list[i]) <=> (\E k \in 1..m : i = RivalPlace(i0, k))
    <3>1. list[i] = town <=> i = i0
      BY <1>1, <1>4
    <3>2. ASSUME NEW k \in 1..m PROVE comp[k] = list[i] <=> i = RivalPlace(i0, k)
      BY <1>1, <1>5, SMTT(30)
    <3> QED
      BY <2>2, <3>1, <3>2
  <2>4. ASSUME NEW k \in 1..m PROVE RivalPlace(i0, k) # i0
    BY <1>5
  <2>5. DOMAIN roles = 1..n
    BY <1>2, <2>1
  <2>6. ASSUME NEW i \in 1..n
        PROVE  roles[i] = IF i = i0 THEN "focus"
                          ELSE IF \E k \in 1..m : i = RivalPlace(i0, k) THEN "competitor"
                          ELSE "none"
    BY <1>2, <2>1, <2>3
  <2> QED
    BY <2>4, <2>5, <2>6
<1> HIDE DEF S, list, n, town, roles, radar, onRadar, at, comp, m
<1>8. onRadar = {town} \union {list[RivalPlace(i0, k)] : k \in 1..m}
  <2> DEFINE one == <<town>>
  <2>1. one \in Seq(S) /\ Len(one) = 1 /\ one[1] = town
    BY <1>3
  <2> HIDE DEF one
  <2>2. /\ radar \in Seq(S) /\ Len(radar) = 1 + m
        /\ \A k \in 1..1 : radar[k] = one[k]
        /\ \A k \in 1..m : radar[1 + k] = comp[k]
    <3>1. radar = one \o comp
      BY <1>6 DEF one
    <3>2. /\ radar \in Seq(S) /\ Len(radar) = Len(one) + Len(comp)
          /\ \A k \in 1..Len(one) : radar[k] = one[k]
          /\ \A k \in 1..Len(comp) : radar[Len(one) + k] = comp[k]
      <4>1. one \in Seq(S) /\ comp \in Seq(S)
        BY <1>5, <2>1
      <4> QED
        BY <3>1, <4>1, Concatenated
    <3> QED
      BY <1>5, <2>1, <3>2
  <2>3. DOMAIN radar = 1..(1 + m) /\ radar[1] = town
    BY <1>5, <2>1, <2>2
  <2>4. \A k \in 1..m : 1 + k \in 1..(1 + m) /\ radar[1 + k] = list[RivalPlace(i0, k)]
    BY <1>5, <2>2
  <2>5. \A j \in 1..(1 + m) : j = 1 \/ \E k \in 1..m : j = 1 + k
    <3> TAKE j \in 1..(1 + m)
    <3>1. j = 1 \/ (j - 1 \in 1..m /\ j = 1 + (j - 1))
      BY <1>5
    <3> QED
      BY <3>1
  <2>6. 1 \in 1..(1 + m)
    BY <1>5
  <2> DEFINE T == {radar[j] : j \in 1..(1 + m)}
             U == {town} \union {list[RivalPlace(i0, k)] : k \in 1..m}
  <2>7. T \subseteq U
    BY <2>3, <2>4, <2>5
  <2>8. U \subseteq T
    BY <2>3, <2>4, <2>6
  <2>9. onRadar = T
    BY <2>3 DEF onRadar, MembersOf
  <2> QED
    BY <2>7, <2>8, <2>9
<1>9. onRadar = {list[i] : i \in {j \in DOMAIN list : roles[j] # "none"}}
  <2> DEFINE P == {j \in 1..n : roles[j] # "none"}
  <2>1. \A j \in 1..n : j \in P <=> (j = i0 \/ \E k \in 1..m : j = RivalPlace(i0, k))
    BY <1>7
  <2> HIDE DEF P
  <2>2. P \subseteq 1..n /\ i0 \in P /\ \A k \in 1..m : RivalPlace(i0, k) \in P
    BY <1>5, <2>1 DEF P
  <2>3. {list[i] : i \in P} = {town} \union {list[RivalPlace(i0, k)] : k \in 1..m}
    BY <1>4, <2>1, <2>2
  <2> QED
    BY <1>2, <1>8, <2>3 DEF P
<1>10. Cardinality(rivals) = m
  <2> DEFINE place == [k \in 1..m |-> RivalPlace(i0, k)]
  <2>1. rivals = {RivalPlace(i0, k) : k \in 1..m}
    BY <1>2, <1>5, <1>7
  <2>2. Stretch(place, 0, m) = {RivalPlace(i0, k) : k \in 1..m}
    BY DEF Stretch
  <2>3. \A k, l \in (0 + 1)..m : place[k] = place[l] => k = l
    BY <1>5
  <2>4. 0 \in Nat /\ m - 0 = m /\ 0 <= m
    BY <1>5
  <2> HIDE DEF place, rivals
  <2>5. Cardinality(Stretch(place, 0, m)) = m - 0
    BY <1>5, <2>3, <2>4, PlacesCount
  <2> QED
    BY <2>1, <2>2, <2>4, <2>5
<1>11. town \in onRadar /\ \A k \in 1..m : list[RivalPlace(i0, k)] \in onRadar
  BY <1>8
<1>12. ASSUME NEW i \in rivals
       PROVE  /\ Near(q.market, town, list[i])
              /\ \A k \in (i..at) \union (at..i) : list[k] \in onRadar
              /\ i > at => \A k \in 1..at : list[k] \in onRadar
  <2>1. i \in 1..n /\ \E k \in 1..m : i = RivalPlace(i0, k)
    BY <1>2, <1>7
  <2>2. PICK k0 \in 1..m : i = RivalPlace(i0, k0)
    BY <2>1
  <2> HIDE DEF rivals
  <2>3. Near(q.market, town, list[i])
    BY <1>1, <1>2, <1>3, <1>4, <1>5, <2>1, <2>2
  <2>4. m \in Nat /\ m <= 2 /\ i0 \in Nat \ {0} /\ n \in Nat
    BY <1>1, <1>5
  <2>5. \A l \in 1..m : l < i0 => list[i0 - l] \in onRadar
    BY <1>11 DEF RivalPlace
  <2>6. \A l \in 1..m : l >= i0 => list[l + 1] \in onRadar
    BY <1>11, <2>4 DEF RivalPlace
  <2>7. list[i0] \in onRadar
    BY <1>4, <1>11
  <2>8. ASSUME NEW k \in (i..at) \union (at..i) PROVE list[k] \in onRadar
    <3>1. k \in Int /\ at = i0
      BY <1>5, <2>1, <2>4
    <3>2. CASE k0 < i0
      <4>1. k = i0 \/ (i0 - k \in 1..m /\ i0 - k < i0 /\ k = i0 - (i0 - k))
        BY <2>2, <2>4, <3>1, <3>2 DEF RivalPlace
      <4> QED
        BY <2>5, <2>7, <4>1
    <3>3. CASE k0 >= i0
      <4>1. k = i0 \/ (k - 1 \in 1..m /\ k - 1 >= i0 /\ k = (k - 1) + 1)
        BY <2>2, <2>4, <3>1, <3>3 DEF RivalPlace
      <4> QED
        BY <2>6, <2>7, <4>1
    <3> QED
      BY <2>4, <3>2, <3>3
  <2>9. ASSUME i > at, NEW k \in 1..at PROVE list[k] \in onRadar
    <3>1. at = i0 /\ k0 >= i0
      BY <1>5, <2>2, <2>4, <2>9 DEF RivalPlace
    <3>2. k = i0 \/ (i0 - k \in 1..m /\ i0 - k < i0 /\ k = i0 - (i0 - k))
      BY <2>4, <3>1
    <3> QED
      BY <2>5, <2>7, <3>2
  <2> QED
    BY <2>3, <2>8, <2>9
<1>13. /\ onRadar = {list[i] : i \in {j \in DOMAIN list : roles[j] # "none"}}
       /\ Cardinality(rivals) = m
       /\ \A i \in rivals :
            /\ Near(q.market, town, list[i])
            /\ \A k \in (i..at) \union (at..i) : list[k] \in onRadar
            /\ i > at => \A k \in 1..at : list[k] \in onRadar
  BY <1>9, <1>10, <1>12
<1> QED
  BY <1>13, Zenon DEF list, n, town, roles, radar, onRadar, at, m
\* A page of the list is a window of it, whatever page is asked for.
LEMMA PageIsAWindow ==
  ASSUME NEW S, NEW list \in Seq(S), NEW page \in Int, NEW limit \in Int
  PROVE  LET shown == PageOf(list, page, limit) IN
         /\ shown.page \in 1..shown.pages
         /\ list # <<>> => shown.items # <<>>
         /\ \A i \in DOMAIN shown.items : \E j \in DOMAIN list :
              /\ list[j] = shown.items[i]
              /\ page = shown.page /\ limit \in 1..20 => j = (page - 1) * limit + i
<1> DEFINE n == Len(list)
           size == AtMost(20, AtLeast(1, limit))
           pages == PageCount(list, size)
           p == AtMost(pages, AtLeast(1, page))
           start == (p - 1) * size
           end == AtMost(p * size, n)
           items == SubSeq(list, start + 1, end)
           shown == PageOf(list, page, limit)
<1>1. n \in Nat /\ DOMAIN list = 1..n
  OBVIOUS
<1>3. size \in Nat \ {0}
  BY DEF AtMost, AtLeast
<1>4. shown = [items |-> items, page |-> p, pages |-> pages]
  BY DEF PageOf
<1> HIDE DEF size
<1>5. /\ pages \in Nat \ {0}
      /\ \A k \in 1..pages : n > 0 => (k - 1) * size \in Nat /\ (k - 1) * size + 1 <= n
  BY <1>1, <1>3, PagesAre
<1> HIDE DEF pages, n
<1>6. p \in 1..pages
  BY <1>5 DEF AtMost, AtLeast
<1> HIDE DEF p
<1>7. p \in Nat \ {0} /\ start \in Nat /\ p * size \in Nat /\ p * size = start + size
  <2>1. p \in Nat \ {0}
    BY <1>5, <1>6
  <2>2. PICK e \in Nat : p = e + 1
    <3>1. p - 1 \in Nat /\ p = (p - 1) + 1
      BY <2>1
    <3> QED
      BY <3>1
  <2>3. p - 1 = e /\ e * size \in Nat /\ (e + 1) * size = e * size + size
    BY <1>3, <2>2
  <2>4. start = e * size /\ p * size = (e + 1) * size
    BY <2>2, <2>3
  <2> HIDE DEF start
  <2> QED
    BY <1>3, <2>1, <2>3, <2>4
<1>8. n > 0 => start + 1 <= n
  BY <1>5, <1>6
<1> HIDE DEF start
<1>9. end \in Nat /\ end <= n
  BY <1>1, <1>7 DEF AtMost
<1>10. n > 0 => start + 1 <= end
  <2> DEFINE top == p * size
  <2>1. top \in Nat /\ top = start + size /\ start \in Nat
    BY <1>7
  <2> HIDE DEF top
  <2>2. end = AtMost(top, n)
    BY DEF top
  <2> QED
    BY <1>1, <1>3, <1>8, <2>1, <2>2 DEF AtMost
<1> HIDE DEF end
<1>11. /\ DOMAIN items = 1..(IF start + 1 <= end THEN end - start ELSE 0)
       /\ \A i \in DOMAIN items : items[i] = list[start + i] /\ start + i \in 1..n
  <2>1. CASE start + 1 <= end
    <3>1. \A i \in 1..(end - start) : start + i \in 1..n
      BY <1>1, <1>7, <1>9
    <3>2. Len(items) = end - start /\ \A k \in 1..(end - start) : items[k] = list[start + k]
      <4>1. end <= Len(list) /\ start \in Nat /\ end \in Nat
        BY <1>7, <1>9 DEF n
      <4> QED
        BY <2>1, <4>1
    <3>3. DOMAIN items = 1..(end - start)
      <4>1. items \in Seq(S)
        <5>1. end <= Len(list) /\ start \in Nat /\ end \in Nat
          BY <1>7, <1>9 DEF n
        <5> QED
          BY <2>1, <5>1
      <4> QED
        BY <3>2, <4>1
    <3> HIDE DEF items
    <3> QED
      BY <2>1, <3>1, <3>2, <3>3
  <2>2. CASE ~(start + 1 <= end)
    <3>1. n = 0
      BY <1>1, <1>10, <2>2
    <3>2. end = 0
      BY <1>9, <3>1
    <3>3. items = <<>>
      BY <1>7, <3>2
    <3> HIDE DEF items
    <3>4. DOMAIN items = {} /\ 1..0 = {}
      BY <3>3
    <3> QED
      BY <2>2, <3>4
  <2> QED
    BY <2>1, <2>2
<1> HIDE DEF items
<1>12. list # <<>> => items # <<>>
  <2> SUFFICES ASSUME list # <<>> PROVE items # <<>>
    OBVIOUS
  <2>1. n > 0
    BY <1>1 DEF n
  <2>2. 1 \in DOMAIN items
    BY <1>7, <1>9, <1>10, <1>11, <2>1
  <2> QED
    BY <2>2
<1>13. ASSUME NEW i \in DOMAIN items
       PROVE  \E j \in DOMAIN list :
                /\ list[j] = items[i]
                /\ page = p /\ limit \in 1..20 => j = (page - 1) * limit + i
  <2>1. start + i \in DOMAIN list /\ list[start + i] = items[i]
    BY <1>1, <1>11
  <2>2. page = p /\ limit \in 1..20 => start + i = (page - 1) * limit + i
    <3>1. limit \in 1..20 => size = limit
      BY DEF size, AtMost, AtLeast
    <3> HIDE DEF size, items
    <3> QED
      BY <3>1, Zenon DEF start
  <2> QED
    BY <2>1, <2>2
<1> HIDE DEF shown
<1>14. /\ shown.page \in 1..shown.pages
       /\ list # <<>> => shown.items # <<>>
       /\ \A i \in DOMAIN shown.items : \E j \in DOMAIN list :
            /\ list[j] = shown.items[i]
            /\ page = shown.page /\ limit \in 1..20 => j = (page - 1) * limit + i
  BY <1>4, <1>6, <1>12, <1>13
<1> QED
  BY <1>14, Zenon DEF shown

\* The list of cities, its page and the radar tell one story.
LEMMA RadarAgreesInv == CitiesTypeOK => RadarAgreesWithList
<1> SUFFICES ASSUME CitiesTypeOK, cityQuery # NoCount
             PROVE  OneStory(cityQuery, ListedTowns(cityQuery))
  BY DEF RadarAgreesWithList
<1> DEFINE q == cityQuery
           list == ListedTowns(q)
           shown == PageOf(list, q.page, q.limit)
           onRadar == MembersOf(Radar(q, list))
           roles == Roles(q, list)
           score == OpportunityScores(q.market)
           rivals == {i \in DOMAIN list : roles[i] = "competitor"}
<1>1. q \in CityQueries
  BY DEF CitiesTypeOK
<1> HIDE DEF q
<1>2. q.market \in Markets /\ q.focus \in Towns \union {NoCount} /\ q.page \in Pages /\ q.limit \in Limits
  BY <1>1 DEF CityQueries
<1>3. q.page \in Int /\ q.limit \in Int
  BY <1>2, CitiesAssumption
<1>4. IsMarket(q.market)
  <2> DEFINE market == q.market
  <2>1. /\ IsFiniteSet(DOMAIN market) /\ DOMAIN market \subseteq Int
        /\ \A t \in DOMAIN market :
             market[t] \in [requests: Nat, jobs: Nat \union {NoCount},
                            providers: Nat \union {NoCount}, place: Int \union {NoCount}]
    BY <1>2, CitiesAssumption
  <2> HIDE DEF market
  <2>2. ASSUME NEW t \in DOMAIN market PROVE IsCounted(market[t])
    <3> DEFINE c == market[t]
    <3>1. c \in [requests: Nat, jobs: Nat \union {NoCount},
                 providers: Nat \union {NoCount}, place: Int \union {NoCount}]
      BY <2>1
    <3> HIDE DEF c
    <3>2. /\ c.requests \in Nat
          /\ c.jobs \in Nat \union {NoCount} /\ c.providers \in Nat \union {NoCount}
          /\ c.place \in Int \union {NoCount}
      BY <3>1
    <3>3. DOMAIN c = {"requests", "jobs", "providers", "place"}
      BY <3>1
    <3>4. "balance" \notin DOMAIN c
      BY <3>3
    <3> QED
      BY <3>2, <3>4 DEF IsCounted, c
  <2> QED
    BY <2>1, <2>2 DEF IsMarket, market
<1>5. list \in Seq(Around(q)) /\ Around(q) \subseteq DOMAIN q.market
  BY <1>4, ListedAre
<1>6. /\ shown.page \in 1..shown.pages
      /\ list # <<>> => shown.items # <<>>
      /\ \A i \in DOMAIN shown.items : \E j \in DOMAIN list :
           /\ list[j] = shown.items[i]
           /\ q.page = shown.page /\ q.limit \in 1..20 => j = (q.page - 1) * q.limit + i
  BY <1>3, <1>5, PageIsAWindow
<1>7. q.focus = NoCount => \A t \in onRadar : \A u \in DOMAIN q.market \ onRadar : score[t] >= score[u]
  BY <1>4, BestAreOnRadar
<1>8. list # <<>> /\ q.focus # NoCount =>
        LET at == PlaceOf(list, q.focus) IN
        /\ onRadar = {list[i] : i \in {j \in DOMAIN list : roles[j] # "none"}}
        /\ Cardinality(rivals) = AtMost(2, Len(list) - 1)
        /\ \A i \in rivals :
             /\ Near(q.market, q.focus, list[i])
             /\ \A k \in (i..at) \union (at..i) : list[k] \in onRadar
             /\ i > at => \A k \in 1..at : list[k] \in onRadar
  BY <1>4, RadarIsAround, Zenon
<1>9. onRadar \subseteq MembersOf(list)
  <2>1. CASE list = <<>>
    <3>1. Radar(q, list) = <<>>
      BY <2>1 DEF Radar
    <3> QED
      BY <3>1 DEF MembersOf
  <2>2. CASE list # <<>> /\ q.focus # NoCount
    <3>1. onRadar = {list[i] : i \in {j \in DOMAIN list : roles[j] # "none"}}
      BY <1>8, <2>2, Zenon
    <3> HIDE DEF onRadar, list, roles
    <3> QED
      BY <3>1 DEF MembersOf
  <2>3. CASE list # <<>> /\ q.focus = NoCount
    <3>1. PICK three \in Nat : three = 3
      OBVIOUS
    <3>2. Radar(q, list) = FirstOf(list, three)
      BY <2>3, <3>1 DEF Radar
    <3> HIDE DEF list
    <3> DEFINE m == AtMost(three, Len(list))
    <3>3. /\ FirstOf(list, three) \in Seq(Around(q)) /\ Len(FirstOf(list, three)) = m
          /\ m \in Nat /\ m <= Len(list) /\ \A k \in 1..m : FirstOf(list, three)[k] = list[k]
      BY <1>5, FirstOfIs
    <3> HIDE DEF m
    <3>4. \A k \in 1..m : k \in 1..Len(list)
      BY <1>5, <3>3
    <3> QED
      BY <1>5, <3>2, <3>3, <3>4 DEF MembersOf
  <2> QED
    BY <2>1, <2>2, <2>3
<1> HIDE DEF list, shown, onRadar, roles, score
<1>10. Agree(q, list, shown, onRadar, roles, score)
  BY <1>6, <1>7, <1>8, <1>9, Zenon DEF Agree
<1> QED
  BY <1>10, Zenon DEF OneStory, q, list, shown, onRadar, roles, score

\* Prices are rounded to five: what the rounding makes of the range around an average.
LEMMA Times == ASSUME NEW j \in Nat, NEW x \in Int, NEW y \in Int, x <= y PROVE j * x <= j * y
<1>1. PICK d \in Nat : y = x + d
  <2>1. y - x \in Nat /\ y = x + (y - x)
    OBVIOUS
  <2> QED
    BY <2>1
<1>2. j * d \in Nat /\ j * (x + d) = j * x + j * d /\ j * x \in Int
  OBVIOUS
<1> QED
  BY <1>1, <1>2

LEMMA RoundedIs ==
  ASSUME NEW x \in Nat, NEW y \in Nat \ {0}
  PROVE  /\ Nearest(x, y) \in Nat
         /\ 2 * (y * Nearest(x, y)) <= 2 * x + y
         /\ 2 * x + y < 2 * (y * Nearest(x, y)) + 2 * y
<1> DEFINE n == 2 * x + y
           d == 2 * y
           q == n \div d
<1>1. n \in Nat /\ d \in Nat \ {0}
  OBVIOUS
<1> HIDE DEF n, d
<1>2. q \in Nat /\ d * q <= n /\ n < d * q + d
  BY <1>1
<1> HIDE DEF q
<1>3. d * q = 2 * (y * q)
  BY <1>2 DEF d
<1>4. Nearest(x, y) = q
  BY DEF Nearest, n, d, q
<1> DEFINE p == y * q
<1>5. 2 * p <= n /\ n < 2 * p + d
  BY <1>2, <1>3
<1>6. 2 * p <= 2 * x + y /\ 2 * x + y < 2 * p + 2 * y
  BY <1>5 DEF n, d
<1> QED
  BY <1>2, <1>4, <1>6

\* How the three of them lie: A for 85, B for 100 and C for 115 of a hundred, j times each.
Around3(r, j, A, B, C) ==
  /\ A \in Nat /\ B \in Nat /\ C \in Nat
  /\ 1000 * (j * A) <= 170 * r + 500 * j /\ 170 * r + 500 * j < 1000 * (j * A) + 1000 * j
  /\ 10 * (j * B) <= 2 * r + 5 * j /\ 2 * r + 5 * j < 10 * (j * B) + 10 * j
  /\ 1000 * (j * C) <= 230 * r + 500 * j /\ 230 * r + 500 * j < 1000 * (j * C) + 1000 * j

LEMMA ThreeAre ==
  ASSUME NEW r \in Nat, NEW j \in Nat \ {0}
  PROVE  Around3(r, j, Nearest(85 * r, 5 * (100 * j)), Nearest(r, 5 * j),
                 Nearest(115 * r, 5 * (100 * j)))
<1> DEFINE x == 85 * r
           z == 115 * r
           y == 5 * (100 * j)
           v == 5 * j
           A == Nearest(x, y)
           B == Nearest(r, v)
           C == Nearest(z, y)
<1>1. x \in Nat /\ z \in Nat /\ y \in Nat \ {0} /\ v \in Nat \ {0}
  OBVIOUS
<1> HIDE DEF x, y, z, v
<1>2. /\ A \in Nat /\ 2 * (y * A) <= 2 * x + y /\ 2 * x + y < 2 * (y * A) + 2 * y
      /\ B \in Nat /\ 2 * (v * B) <= 2 * r + v /\ 2 * r + v < 2 * (v * B) + 2 * v
      /\ C \in Nat /\ 2 * (y * C) <= 2 * z + y /\ 2 * z + y < 2 * (y * C) + 2 * y
  BY <1>1, RoundedIs
<1> HIDE DEF A, B, C
<1>3. y * A = 500 * (j * A) /\ y * C = 500 * (j * C) /\ v * B = 5 * (j * B)
  BY <1>2 DEF y, v
<1>4. j * A \in Nat /\ j * B \in Nat /\ j * C \in Nat
  BY <1>2
<1>5. /\ 1000 * (j * A) <= 170 * r + 500 * j /\ 170 * r + 500 * j < 1000 * (j * A) + 1000 * j
      /\ 10 * (j * B) <= 2 * r + 5 * j /\ 2 * r + 5 * j < 10 * (j * B) + 10 * j
      /\ 1000 * (j * C) <= 230 * r + 500 * j /\ 230 * r + 500 * j < 1000 * (j * C) + 1000 * j
  <2> DEFINE a == j * A
             b == j * B
             c == j * C
  <2>1. /\ a \in Nat /\ b \in Nat /\ c \in Nat
        /\ 2 * (500 * a) <= 2 * x + y /\ 2 * x + y < 2 * (500 * a) + 2 * y
        /\ 2 * (5 * b) <= 2 * r + v /\ 2 * r + v < 2 * (5 * b) + 2 * v
        /\ 2 * (500 * c) <= 2 * z + y /\ 2 * z + y < 2 * (500 * c) + 2 * y
    BY <1>2, <1>3, <1>4
  <2> HIDE DEF a, b, c
  <2>2. /\ 1000 * a <= 170 * r + 500 * j /\ 170 * r + 500 * j < 1000 * a + 1000 * j
        /\ 10 * b <= 2 * r + 5 * j /\ 2 * r + 5 * j < 10 * b + 10 * j
        /\ 1000 * c <= 230 * r + 500 * j /\ 230 * r + 500 * j < 1000 * c + 1000 * j
    BY <2>1 DEF x, y, z, v
  <2> QED
    BY <2>2 DEF a, b, c
<1>6. Around3(r, j, A, B, C)
  BY <1>2, <1>5 DEF Around3
<1> QED
  BY <1>6, Zenon DEF A, B, C, x, y, z, v

LEMMA InTheMiddle ==
  ASSUME NEW r \in Nat, NEW j \in Nat \ {0}, NEW A, NEW B, NEW C, Around3(r, j, A, B, C)
  PROVE  A <= B /\ B <= C
<1> DEFINE a == j * A
           b == j * B
           c == j * C
<1>1. A \in Nat /\ B \in Nat /\ C \in Nat
  BY DEF Around3
<1>2. a \in Nat /\ b \in Nat /\ c \in Nat
  BY <1>1
<1>3. /\ 1000 * a <= 170 * r + 500 * j /\ 170 * r + 500 * j < 1000 * a + 1000 * j
      /\ 10 * b <= 2 * r + 5 * j /\ 2 * r + 5 * j < 10 * b + 10 * j
      /\ 1000 * c <= 230 * r + 500 * j /\ 230 * r + 500 * j < 1000 * c + 1000 * j
  BY DEF Around3
<1>4. ASSUME NEW x \in Nat, NEW y \in Nat, x + 1 <= y PROVE j * x + j <= j * y
  <2>1. j * (x + 1) <= j * y
    BY <1>4, Times
  <2>2. j * (x + 1) = j * x + j
    OBVIOUS
  <2> QED
    BY <2>1, <2>2
<1>5. B + 1 <= A => b + j <= a
  BY <1>1, <1>4
<1>6. C + 1 <= B => c + j <= b
  BY <1>1, <1>4
<1> HIDE DEF a, b, c
<1>7. ~(B + 1 <= A)
  BY <1>2, <1>3, <1>5
<1>8. ~(C + 1 <= B)
  BY <1>2, <1>3, <1>6
<1> QED
  BY <1>1, <1>7, <1>8

LEMMA OutsideIsFar ==
  ASSUME NEW r \in Nat, NEW j \in Nat \ {0}, NEW A, NEW B, NEW C, Around3(r, j, A, B, C),
         B >= 14, NEW asked \in Nat
  PROVE  /\ asked < 5 * A => 10 * asked < 45 * B
         /\ asked > 5 * C => 10 * asked > 55 * B
<1> DEFINE a == j * A
           b == j * B
           c == j * C
<1>1. A \in Nat /\ B \in Nat /\ C \in Nat
  BY DEF Around3
<1>2. a \in Nat /\ b \in Nat /\ c \in Nat
  BY <1>1
<1>3. /\ 1000 * a <= 170 * r + 500 * j /\ 170 * r + 500 * j < 1000 * a + 1000 * j
      /\ 10 * b <= 2 * r + 5 * j /\ 2 * r + 5 * j < 10 * b + 10 * j
      /\ 1000 * c <= 230 * r + 500 * j /\ 230 * r + 500 * j < 1000 * c + 1000 * j
  BY DEF Around3
<1>4. ASSUME NEW k \in Nat, NEW x \in Nat, k <= x PROVE j * k <= j * x
  BY <1>4, Times
<1>5. ASSUME NEW k \in Nat, NEW x \in Nat, x <= k PROVE j * x <= j * k
  BY <1>5, Times
<1>6. ASSUME asked < 5 * A, 10 * asked >= 45 * B PROVE FALSE
  <2>1. 50 * A >= 45 * B + 10
    BY <1>1, <1>6
  <2>2. 50 * a >= 45 * b + 10 * j
    <3>1. j * (45 * B + 10) <= j * (50 * A)
      BY <1>1, <2>1, Times
    <3>2. j * (45 * B + 10) = 45 * (j * B) + 10 * j /\ j * (50 * A) = 50 * (j * A)
      BY <1>1
    <3> QED
      BY <3>1, <3>2
  <2>3. B >= 15 => 15 * j <= b
    <3>1. B >= 15 => j * 15 <= j * B
      BY <1>1, Times
    <3> QED
      BY <3>1
  <2>4. A >= 13 => 13 * j <= a
    <3>1. A >= 13 => j * 13 <= j * A
      BY <1>1, Times
    <3> QED
      BY <3>1
  <2>5. B = 14 => b = 14 * j
    BY <1>1
  <2> HIDE DEF a, b, c
  <2>6. ~(B >= 15)
    BY <1>2, <1>3, <2>2, <2>3
  <2>7. B = 14
    BY <1>1, <2>6
  <2>8. A >= 13
    BY <1>1, <2>1, <2>7
  <2> QED
    BY <1>2, <1>3, <2>4, <2>5, <2>7, <2>8
<1>7. ASSUME asked > 5 * C, 10 * asked <= 55 * B PROVE FALSE
  <2>1. 50 * C + 10 <= 55 * B
    BY <1>1, <1>7
  <2>2. 50 * c + 10 * j <= 55 * b
    <3>1. j * (50 * C + 10) <= j * (55 * B)
      BY <1>1, <2>1, Times
    <3>2. j * (50 * C + 10) = 50 * (j * C) + 10 * j /\ j * (55 * B) = 55 * (j * B)
      BY <1>1
    <3> QED
      BY <3>1, <3>2
  <2>3. B >= 18 => 18 * j <= b
    <3>1. B >= 18 => j * 18 <= j * B
      BY <1>1, Times
    <3> QED
      BY <3>1
  <2>4. /\ B = 14 => b = 14 * j
        /\ B = 15 => b = 15 * j
        /\ B = 16 => b = 16 * j
        /\ B = 17 => b = 17 * j
    BY <1>1
  <2>5. /\ C <= 15 => c <= 15 * j
        /\ C <= 16 => c <= 16 * j
        /\ C <= 17 => c <= 17 * j
        /\ C <= 18 => c <= 18 * j
    <3>1. C <= 15 => j * C <= j * 15
      BY <1>1, Times
    <3>2. C <= 16 => j * C <= j * 16
      BY <1>1, Times
    <3>3. C <= 17 => j * C <= j * 17
      BY <1>1, Times
    <3>4. C <= 18 => j * C <= j * 18
      BY <1>1, Times
    <3> QED
      BY <3>1, <3>2, <3>3, <3>4
  <2> HIDE DEF a, b, c
  <2>6. ~(B >= 18)
    BY <1>2, <1>3, <2>2, <2>3
  <2>7. CASE B = 14
    BY <1>1, <1>2, <1>3, <2>1, <2>4, <2>5, <2>7
  <2>8. CASE B = 15
    BY <1>1, <1>2, <1>3, <2>1, <2>4, <2>5, <2>8
  <2>9. CASE B = 16
    BY <1>1, <1>2, <1>3, <2>1, <2>4, <2>5, <2>9
  <2>10. CASE B = 17
    BY <1>1, <1>2, <1>3, <2>1, <2>4, <2>5, <2>10
  <2> QED
    BY <1>1, <2>6, <2>7, <2>8, <2>9, <2>10
<1> QED
  BY <1>1, <1>6, <1>7

\* What is loaded of a window.
LEMMA WindowTyped ==
  ASSUME NEW w \in MarketWindows
  PROVE  /\ w.revenue \in Nat /\ w.jobs \in Nat
         /\ IsFiniteSet(DOMAIN w.towns) /\ DOMAIN w.towns \subseteq Int
         /\ \A t \in DOMAIN w.towns :
              /\ w.towns[t].requests \in Nat /\ w.towns[t].filtered \in Nat
              /\ w.towns[t].jobs \in Nat \union {NoCount}
              /\ w.towns[t].providers \in Nat \union {NoCount}
              /\ w.towns[t].place \in Int \union {NoCount}
              /\ DOMAIN w.towns[t] = {"requests", "filtered", "searched", "jobs", "providers", "place"}
              /\ w.towns[t].filtered <= w.towns[t].requests
<1>1. /\ w.revenue \in Nat /\ w.jobs \in Nat
      /\ IsFiniteSet(DOMAIN w.towns) /\ DOMAIN w.towns \subseteq Int
  BY PriceAssumption, CitiesAssumption
<1>2. ASSUME NEW t \in DOMAIN w.towns
      PROVE  /\ w.towns[t].requests \in Nat /\ w.towns[t].filtered \in Nat
             /\ w.towns[t].jobs \in Nat \union {NoCount}
             /\ w.towns[t].providers \in Nat \union {NoCount}
             /\ w.towns[t].place \in Int \union {NoCount}
             /\ DOMAIN w.towns[t] = {"requests", "filtered", "searched", "jobs", "providers", "place"}
             /\ w.towns[t].filtered <= w.towns[t].requests
  <2> DEFINE c == w.towns[t]
  <2>1. /\ c \in [requests: Nat, filtered: Nat, searched: BOOLEAN, jobs: Nat \union {NoCount},
                  providers: Nat \union {NoCount}, place: Int \union {NoCount}]
        /\ c.filtered <= c.requests
    BY PriceAssumption
  <2> HIDE DEF c
  <2>2. /\ c.requests \in Nat /\ c.filtered \in Nat
        /\ c.jobs \in Nat \union {NoCount} /\ c.providers \in Nat \union {NoCount}
        /\ c.place \in Int \union {NoCount}
    BY <2>1
  <2>3. DOMAIN c = {"requests", "filtered", "searched", "jobs", "providers", "place"}
    BY <2>1
  <2> QED
    BY <2>1, <2>2, <2>3 DEF c
<1> QED
  BY <1>1, <1>2

\* A price: in its range if there is one, with the best part of it inside, and far from
\* the average where it is outside.
Sound(price) ==
  /\ HasPrice(price) =>
       /\ price.min \in Nat /\ price.average \in Nat /\ price.max \in Nat
       /\ price.min <= price.average /\ price.average <= price.max
       /\ \A asked \in Nat : price.average >= 70 =>
            /\ asked < price.min => 10 * asked < 9 * price.average
            /\ asked > price.max => 10 * asked > 11 * price.average
  /\ price.smart # NoCount =>
       /\ price.min <= price.low /\ price.low <= price.high /\ price.high <= price.max
       /\ price.smart \in price.min..price.max

LEMMA ToFiveIs ==
  ASSUME NEW n \in Nat, NEW d \in Nat \ {0}
  PROVE  /\ ToFive(n, d) \in Nat
         /\ ToFive(n, d) = IF Nearest(n, 5 * d) = 0 THEN 5 ELSE 5 * Nearest(n, 5 * d)
<1> DEFINE q == Nearest(n, 5 * d)
<1>1. 5 * d \in Nat \ {0}
  OBVIOUS
<1>2. q \in Nat
  BY <1>1, NearestIs
<1>3. ToFive(n, d) = AtLeast(5, 5 * q)
  BY DEF ToFive
<1> HIDE DEF q
<1>4. AtLeast(5, 5 * q) \in Nat /\ AtLeast(5, 5 * q) = IF q = 0 THEN 5 ELSE 5 * q
  BY <1>2 DEF AtLeast
<1> QED
  BY <1>3, <1>4 DEF q

\* The best part of a range and the price proposed.
LEMMA BestPartIs ==
  ASSUME NEW a \in Nat \ {0}, NEW b \in Nat, a < b,
         NEW low, low = Nearest(100 * (5 * a) + 35 * (5 * b - 5 * a), 100),
         NEW high, high = Nearest(10 * (5 * a) + 7 * (5 * b - 5 * a), 10)
  PROVE  /\ low \in Nat /\ high \in Nat
         /\ 5 * a <= low /\ low <= high /\ high <= 5 * b
         /\ ToFive(low + high, 2) \in (5 * a)..(5 * b)
<1>1. PICK e \in Nat : b = a + e
  <2>1. b - a \in Nat /\ b = a + (b - a)
    OBVIOUS
  <2> QED
    BY <2>1
<1>2. low = (1000 * a + 350 * e + 100) \div 200
  <2>1. 2 * (100 * (5 * a) + 35 * (5 * b - 5 * a)) + 100 = 1000 * a + 350 * e + 100 /\ 2 * 100 = 200
    BY <1>1
  <2> QED
    BY <2>1 DEF Nearest
<1>3. high = (100 * a + 70 * e + 10) \div 20
  <2>1. 2 * (10 * (5 * a) + 7 * (5 * b - 5 * a)) + 10 = 100 * a + 70 * e + 10 /\ 2 * 10 = 20
    BY <1>1
  <2> QED
    BY <2>1 DEF Nearest
<1>4. low \in Nat /\ high \in Nat /\ 5 * a <= low /\ low <= high /\ high <= 5 * b
  BY <1>1, <1>2, <1>3
<1>5. ToFive(low + high, 2) \in (5 * a)..(5 * b)
  <2> DEFINE q == Nearest(low + high, 5 * 2)
  <2>1. PICK n \in Nat : n = low + high
    BY <1>4
  <2>2. q = (2 * n + 10) \div 20
    BY <2>1 DEF Nearest
  <2> HIDE DEF q
  <2>3. 10 * a <= n /\ n <= 10 * b
    BY <1>4, <2>1
  <2>4. q \in Nat /\ a <= q /\ q <= b
    BY <2>2, <2>3
  <2>5. ToFive(low + high, 2) = AtLeast(5, 5 * q)
    BY DEF ToFive, q
  <2> QED
    BY <2>4, <2>5 DEF AtLeast
<1> QED
  BY <1>4, <1>5

LEMMA PriceIs ==
  ASSUME NEW w \in MarketWindows, NEW market, NEW town
  PROVE  LET price == PriceFor(w, market, town) IN
         /\ HasPrice(price) <=> HasRevenue(w)
         /\ price.town = town
         /\ HasRevenue(w) => price.average = ToFive(w.revenue, w.jobs)
         /\ Sound(price)
<1> DEFINE price == PriceFor(w, market, town)
           min == ToFive(85 * w.revenue, 100 * w.jobs)
           max == ToFive(115 * w.revenue, 100 * w.jobs)
           average == ToFive(w.revenue, w.jobs)
           low == Nearest(100 * min + 35 * (max - min), 100)
           high == Nearest(10 * min + 7 * (max - min), 10)
           named == [NoPrice EXCEPT !.town = town,
                       !.demand = IF town = NoCount THEN NoCount ELSE Demand(market[town])]
           ranged == [named EXCEPT !.min = min, !.max = max, !.average = average]
<1>1. w.revenue \in Nat /\ w.jobs \in Nat /\ NoCount \notin Int
  BY WindowTyped, CitiesAssumption
<1>2. price = IF ~HasRevenue(w) THEN named
              ELSE IF min = max THEN ranged
              ELSE [ranged EXCEPT !.low = low, !.high = high, !.smart = ToFive(low + high, 2)]
  BY Zenon DEF PriceFor
<1> HIDE DEF price
<1>3. /\ DOMAIN named = {"min", "max", "average", "low", "high", "smart", "town", "demand"}
      /\ named.town = town /\ named.average = NoCount /\ named.smart = NoCount
  BY DEF NoPrice
<1> HIDE DEF named
<1>4. CASE ~HasRevenue(w)
  <2>1. price = named
    BY <1>2, <1>4
  <2>2. ~HasPrice(price)
    BY <1>3, <2>1 DEF HasPrice
  <2>3. Sound(price)
    BY <1>3, <2>1, <2>2 DEF Sound
  <2> QED
    BY <1>3, <1>4, <2>1, <2>2, <2>3, Zenon DEF price
<1>5. CASE HasRevenue(w)
  <2> DEFINE r == w.revenue
             j == w.jobs
             A == Nearest(85 * r, 5 * (100 * j))
             B == Nearest(r, 5 * j)
             C == Nearest(115 * r, 5 * (100 * j))
  <2>1. r \in Nat /\ j \in Nat \ {0}
    BY <1>1, <1>5 DEF HasRevenue
  <2>2. 85 * r \in Nat /\ 115 * r \in Nat /\ 100 * j \in Nat \ {0}
    BY <2>1
  <2>3. Around3(r, j, A, B, C)
    BY <2>1, ThreeAre
  <2>4. A <= B /\ B <= C /\ A \in Nat /\ B \in Nat /\ C \in Nat
    <3> HIDE DEF r, j, A, B, C
    <3>1. A \in Nat /\ B \in Nat /\ C \in Nat
      BY <2>3 DEF Around3
    <3>2. A <= B /\ B <= C
      BY <2>1, <2>3, InTheMiddle
    <3> QED
      BY <3>1, <3>2
  <2>5. ASSUME B >= 14, NEW asked \in Nat
        PROVE  /\ asked < 5 * A => 10 * asked < 45 * B
               /\ asked > 5 * C => 10 * asked > 55 * B
    <3> HIDE DEF r, j, A, B, C
    <3> QED
      BY <2>1, <2>3, <2>5, OutsideIsFar
  <2>6. /\ min = IF A = 0 THEN 5 ELSE 5 * A
        /\ average = IF B = 0 THEN 5 ELSE 5 * B
        /\ max = IF C = 0 THEN 5 ELSE 5 * C
    <3>1. min = IF A = 0 THEN 5 ELSE 5 * A
      BY <2>2, ToFiveIs, ZenonT(30)
    <3>2. average = IF B = 0 THEN 5 ELSE 5 * B
      BY <2>1, ToFiveIs, Zenon
    <3>3. max = IF C = 0 THEN 5 ELSE 5 * C
      BY <2>2, ToFiveIs, Zenon
    <3> QED
      BY <3>1, <3>2, <3>3
  <2> HIDE DEF A, B, C, min, max, average, r, j
  <2>7. min \in Nat /\ average \in Nat /\ max \in Nat /\ min <= average /\ average <= max
    BY <2>4, <2>6
  <2>8. ASSUME NEW asked \in Nat, average >= 70
        PROVE  /\ asked < min => 10 * asked < 9 * average
               /\ asked > max => 10 * asked > 11 * average
    <3>1. B >= 14 /\ average = 5 * B
      BY <2>4, <2>6, <2>8
    <3>2. C > 0 /\ max = 5 * C
      BY <2>4, <2>6, <3>1
    <3>3. CASE A = 0
      <4>1. min = 5
        BY <2>6, <3>3
      <4>2. asked > 5 * C => 10 * asked > 55 * B
        BY <2>5, <3>1
      <4> QED
        BY <2>4, <3>1, <3>2, <4>1, <4>2
    <3>4. CASE A # 0
      <4>1. min = 5 * A
        BY <2>6, <3>4
      <4>2. (asked < 5 * A => 10 * asked < 45 * B) /\ (asked > 5 * C => 10 * asked > 55 * B)
        BY <2>5, <3>1
      <4> QED
        BY <2>4, <3>1, <3>2, <4>1, <4>2
    <3> QED
      BY <3>3, <3>4
  <2>9. CASE min = max
    <3>1. price = ranged
      BY <1>2, <1>5, <2>9
    <3>2. /\ price.min = min /\ price.max = max /\ price.average = average
          /\ price.smart = NoCount /\ price.town = town
      BY <1>3, <3>1
    <3> HIDE DEF ranged
    <3>3. HasPrice(price)
      BY <1>1, <2>7, <3>2 DEF HasPrice
    <3>4. Sound(price)
      BY <2>7, <2>8, <3>2 DEF Sound
    <3> QED
      BY <1>5, <3>2, <3>3, <3>4, Zenon DEF price, average
  <2>10. CASE min # max
    <3>1. price = [ranged EXCEPT !.low = low, !.high = high, !.smart = ToFive(low + high, 2)]
      BY <1>2, <1>5, <2>10
    <3> HIDE DEF low, high
    <3>2. /\ price.min = min /\ price.max = max /\ price.average = average /\ price.town = town
          /\ price.low = low /\ price.high = high /\ price.smart = ToFive(low + high, 2)
      BY <1>3, <3>1
    <3> HIDE DEF ranged
    <3>3. HasPrice(price)
      BY <1>1, <2>7, <3>2 DEF HasPrice
    <3>4. /\ min <= low /\ low <= high /\ high <= max
          /\ ToFive(low + high, 2) \in min..max
      <4>1. PICK a \in Nat \ {0} : min = 5 * a
        <5>1. 1 \in Nat \ {0} /\ 5 = 5 * 1
          OBVIOUS
        <5> QED
          BY <2>4, <2>6, <5>1
      <4>2. PICK b \in Nat : max = 5 * b
        <5>1. 1 \in Nat /\ 5 = 5 * 1
          OBVIOUS
        <5> QED
          BY <2>4, <2>6, <5>1
      <4>3. a < b
        BY <2>7, <2>10, <4>1, <4>2
      <4>4. /\ low = Nearest(100 * (5 * a) + 35 * (5 * b - 5 * a), 100)
            /\ high = Nearest(10 * (5 * a) + 7 * (5 * b - 5 * a), 10)
        BY <4>1, <4>2, Zenon DEF low, high
      <4>5. /\ 5 * a <= low /\ low <= high /\ high <= 5 * b
            /\ ToFive(low + high, 2) \in (5 * a)..(5 * b)
        BY <4>3, <4>4, BestPartIs
      <4> QED
        BY <4>1, <4>2, <4>5
    <3>5. Sound(price)
      BY <2>7, <2>8, <3>2, <3>4 DEF Sound
    <3> QED
      BY <1>5, <3>2, <3>3, <3>5, Zenon DEF price, average
  <2> QED
    BY <2>9, <2>10
<1> QED
  BY <1>4, <1>5

\* The searches of a town and those of one that carries them on have one balance.
LEMMA MetricsKept ==
  ASSUME NEW c, c.requests \in Nat, c.jobs \in Nat \union {NoCount},
         c.providers \in Nat \union {NoCount},
         NEW d, d.requests \in Nat, d.jobs = SearchMetrics(c).jobs,
         d.providers = SearchMetrics(c).providers,
         d.requests = c.requests \/ d.providers # 0
  PROVE  SearchMetrics(d).balance = SearchMetrics(c).balance
<1> DEFINE j == Proxy(c.jobs, c.requests, c.providers)
           p == Proxy(c.providers, c.requests, j)
           BalanceFor(demand) ==
             IF NoCount \in {j, p} \/ (demand = 0 /\ j = 0) THEN NoCount
             ELSE Nearest(100 * demand, AtLeast(1, j))
<1>1. NoCount \notin Nat
  BY CitiesAssumption
<1>2. /\ SearchMetrics(c).jobs = j /\ SearchMetrics(c).providers = p
      /\ SearchMetrics(c).balance = BalanceFor(IF p = 0 THEN c.requests ELSE p)
  <2>1. SearchMetrics(c) = Balanced(j, p, c.requests)
    BY DEF SearchMetrics, BalancedFor
  <2> HIDE DEF j, p
  <2> QED
    BY <2>1 DEF Balanced
<1>3. d.jobs = j /\ d.providers = p
  <2> HIDE DEF j, p
  <2> QED
    BY <1>2
<1>4. j = NoCount <=> p = NoCount
  <2>1. j \in Nat \union {NoCount} /\ (j = NoCount <=> (c.jobs = NoCount /\ c.providers = NoCount))
    BY <1>1 DEF Proxy, AtLeast
  <2> HIDE DEF j
  <2> QED
    BY <1>1, <2>1 DEF Proxy, AtLeast
<1> HIDE DEF j, p
<1>5. Proxy(d.jobs, d.requests, d.providers) = j
  BY <1>3, <1>4 DEF Proxy
<1>6. Proxy(d.providers, d.requests, j) = p
  BY <1>3, <1>4 DEF Proxy
<1>7. SearchMetrics(d).balance = BalanceFor(IF p = 0 THEN d.requests ELSE p)
  <2>1. SearchMetrics(d) = Balanced(j, p, d.requests)
    BY <1>5, <1>6 DEF SearchMetrics, BalancedFor
  <2> QED
    BY <2>1 DEF Balanced
<1>8. (IF p = 0 THEN d.requests ELSE p) = (IF p = 0 THEN c.requests ELSE p)
  BY <1>3
<1> HIDE DEF BalanceFor
<1> QED
  BY <1>2, <1>7, <1>8

\* A town of the public overview with the figures of its row.
LEMMA CountedAre ==
  ASSUME NEW w \in MarketWindows, NEW t \in DOMAIN w.towns
  PROVE  LET c == CountedTowns(w)[t] IN
         /\ IsCounted(c)
         /\ DOMAIN c = {"requests", "jobs", "providers", "balance", "place"}
         /\ \/ c.balance = SearchMetrics(c).balance
            \/ c.providers = 0 /\ w.towns[t].filtered < w.towns[t].requests
<1> DEFINE town == w.towns[t]
           row == [town EXCEPT !.requests = town.filtered]
           m == SearchMetrics(row)
           nothing == [requests |-> town.requests, jobs |-> NoCount, providers |-> NoCount,
                       balance |-> NoCount, place |-> town.place]
           c == CountedTowns(w)[t]
<1>1. /\ town.requests \in Nat /\ town.filtered \in Nat
      /\ town.jobs \in Nat \union {NoCount} /\ town.providers \in Nat \union {NoCount}
      /\ town.place \in Int \union {NoCount}
      /\ DOMAIN town = {"requests", "filtered", "searched", "jobs", "providers", "place"}
      /\ town.filtered <= town.requests
  BY WindowTyped
<1>2. c = IF town.filtered = 0 THEN nothing
          ELSE [nothing EXCEPT !.jobs = m.jobs, !.providers = m.providers, !.balance = m.balance]
  BY DEF CountedTowns
<1> HIDE DEF c, town
<1>3. row.requests = town.filtered /\ row.jobs = town.jobs /\ row.providers = town.providers
  BY <1>1
<1> HIDE DEF row
<1>4. /\ m.jobs \in Nat \union {NoCount} /\ m.providers \in Nat \union {NoCount}
      /\ m.balance \in Nat \union {NoCount}
  BY <1>1, <1>3, SearchMetricsAre
<1>5. CASE town.filtered = 0
  <2>1. c = nothing
    BY <1>2, <1>5
  <2>2. /\ c.requests = town.requests /\ c.jobs = NoCount /\ c.providers = NoCount
        /\ c.balance = NoCount /\ c.place = town.place
        /\ DOMAIN c = {"requests", "jobs", "providers", "balance", "place"}
    BY <2>1
  <2>3. IsCounted(c)
    BY <1>1, <2>2 DEF IsCounted
  <2>4. SearchMetrics(c).balance = NoCount
    <3>1. Proxy(c.jobs, c.requests, c.providers) = NoCount /\ Proxy(c.providers, c.requests, NoCount) = NoCount
      BY <2>2 DEF Proxy
    <3>2. SearchMetrics(c) = Balanced(NoCount, NoCount, c.requests)
      BY <3>1 DEF SearchMetrics, BalancedFor
    <3> QED
      BY <3>2 DEF Balanced
  <2>5. c.balance = SearchMetrics(c).balance
    BY <2>2, <2>4
  <2> QED
    BY <2>2, <2>3, <2>5, Zenon DEF c
<1>6. CASE town.filtered # 0
  <2> HIDE DEF m
  <2>1. c = [nothing EXCEPT !.jobs = m.jobs, !.providers = m.providers, !.balance = m.balance]
    BY <1>2, <1>6
  <2>2. /\ c.requests = town.requests /\ c.jobs = m.jobs /\ c.providers = m.providers
        /\ c.balance = m.balance /\ c.place = town.place
        /\ DOMAIN c = {"requests", "jobs", "providers", "balance", "place"}
    BY <2>1
  <2>3. IsCounted(c)
    BY <1>1, <1>4, <2>2 DEF IsCounted
  <2>4. c.requests = row.requests \/ c.providers # 0 => c.balance = SearchMetrics(c).balance
    BY <1>1, <1>3, <2>2, MetricsKept DEF m
  <2>5. \/ c.balance = SearchMetrics(c).balance
        \/ c.providers = 0 /\ town.filtered < town.requests
    BY <1>1, <1>3, <2>2, <2>4
  <2> QED
    BY <2>2, <2>3, <2>5, Zenon DEF c, town
<1> QED
  BY <1>5, <1>6

LEMMA CountedMarket ==
  ASSUME NEW w \in MarketWindows
  PROVE  IsMarket(CountedTowns(w)) /\ DOMAIN CountedTowns(w) = DOMAIN w.towns
<1>1. DOMAIN CountedTowns(w) = DOMAIN w.towns
  BY DEF CountedTowns
<1>2. IsFiniteSet(DOMAIN w.towns) /\ DOMAIN w.towns \subseteq Int
  BY WindowTyped
<1>3. \A t \in DOMAIN w.towns : IsCounted(CountedTowns(w)[t])
  BY CountedAre
<1> QED
  BY <1>1, <1>2, <1>3 DEF IsMarket

\* A town whose counts were filled: none shrinks, and its balance is that of its counts.
LEMMA MergedIs ==
  ASSUME NEW town, IsCounted(town),
         DOMAIN town = {"requests", "jobs", "providers", "balance", "place"},
         NEW older, IsCounted(older)
  PROVE  LET c == MergedTown(town, older) IN
         /\ IsCounted(c)
         /\ town.jobs # NoCount => c.jobs >= town.jobs
         /\ town.providers # NoCount => c.providers >= town.providers
         /\ c.balance = SearchMetrics(c).balance
<1> DEFINE either == [town EXCEPT !.jobs = OfEither(@, older.jobs),
                                  !.providers = OfEither(@, older.providers)]
           m == SearchMetrics(either)
           c == MergedTown(town, older)
<1>1. /\ town.requests \in Nat /\ town.place \in Int \union {NoCount}
      /\ town.jobs \in Nat \union {NoCount} /\ town.providers \in Nat \union {NoCount}
      /\ older.jobs \in Nat \union {NoCount} /\ older.providers \in Nat \union {NoCount}
      /\ NoCount \notin Nat
  BY CitiesAssumption DEF IsCounted
<1>2. /\ either.requests = town.requests
      /\ either.jobs = OfEither(town.jobs, older.jobs)
      /\ either.providers = OfEither(town.providers, older.providers)
  OBVIOUS
<1>3. c = [town EXCEPT !.jobs = m.jobs, !.providers = m.providers, !.balance = m.balance]
  BY DEF MergedTown
<1> HIDE DEF either, c
<1>4. /\ either.jobs \in Nat \union {NoCount} /\ either.providers \in Nat \union {NoCount}
      /\ town.jobs # NoCount => either.jobs # NoCount /\ either.jobs >= town.jobs
      /\ town.providers # NoCount => either.providers # NoCount /\ either.providers >= town.providers
  BY <1>1, <1>2 DEF OfEither, AtLeast
<1>5. /\ m.jobs \in Nat \union {NoCount} /\ m.providers \in Nat \union {NoCount}
      /\ m.balance \in Nat \union {NoCount}
      /\ either.jobs # NoCount => m.jobs = either.jobs
      /\ either.providers # NoCount => m.providers = either.providers
  BY <1>1, <1>2, <1>4, SearchMetricsAre
<1> HIDE DEF m
<1>6. /\ c.requests = town.requests /\ c.place = town.place /\ c.jobs = m.jobs
      /\ c.providers = m.providers /\ c.balance = m.balance
  BY <1>3
<1>7. IsCounted(c)
  BY <1>1, <1>5, <1>6 DEF IsCounted
<1>8. c.balance = SearchMetrics(c).balance
  <2>1. c.requests \in Nat /\ c.requests = either.requests /\ either.requests \in Nat
    BY <1>1, <1>2, <1>6
  <2>2. SearchMetrics(c).balance = SearchMetrics(either).balance
    BY <1>4, <1>6, <2>1, MetricsKept DEF m
  <2> QED
    BY <1>6, <2>2 DEF m
<1>9. /\ town.jobs # NoCount => c.jobs >= town.jobs
      /\ town.providers # NoCount => c.providers >= town.providers
  BY <1>4, <1>5, <1>6
<1> QED
  BY <1>7, <1>8, <1>9, Zenon DEF c

\* A call that has loaded what it needs.
Answering == AdviceTypeOK /\ Answerable

LEMMA LoadedIs ==
  ASSUME Answering
  PROVE  /\ advice # NoCount /\ advice.own \in MarketWindows
         /\ advice.older \in MarketWindows \union {NoCount}
         /\ advice.focus \in Towns \union {NoCount} /\ advice.price \in OwnPrices
         /\ AsksOlder => advice.older \in MarketWindows /\ advice.older # NoCount
<1>1. advice # NoCount /\ (AsksOlder => advice.older # NoCount)
  BY DEF Answering, Answerable
<1>2. advice \in [range: {"24h", "7d", "30d"}, focus: Towns \union {NoCount}, own: MarketWindows,
                  price: OwnPrices, older: MarketWindows \union {NoCount}]
  BY <1>1 DEF Answering, AdviceTypeOK
<1>3. /\ advice.own \in MarketWindows /\ advice.older \in MarketWindows \union {NoCount}
      /\ advice.focus \in Towns \union {NoCount} /\ advice.price \in OwnPrices
  BY <1>2
<1> QED
  BY <1>1, <1>3

LEMMA QueryIs ==
  ASSUME NEW market
  PROVE  Query(market).market = market /\ Query(market).focus = advice.focus
BY DEF Query

LEMMA OlderTownsAre ==
  ASSUME advice.older \in MarketWindows
  PROVE  /\ DOMAIN OlderTowns \subseteq DOMAIN advice.older.towns
         /\ \A t \in DOMAIN OlderTowns : OlderTowns[t] = CountedTowns(advice.older)[t]
         /\ IsMarket(OlderTowns)
<1> DEFINE market == CountedTowns(advice.older)
           listed == ListedTowns(Query(market))
           T == {listed[i] : i \in DOMAIN listed}
<1>1. IsMarket(market) /\ DOMAIN market = DOMAIN advice.older.towns
  BY CountedMarket
<1>2. IsMarket(Query(market).market) /\ Query(market).market = market
  BY <1>1, QueryIs
<1>3. listed \in Seq(Around(Query(market))) /\ Around(Query(market)) \subseteq DOMAIN market
  BY <1>2, ListedAre
<1>4. OlderTowns = [t \in T |-> market[t]]
  BY Zenon DEF OlderTowns
<1> HIDE DEF market, listed
<1>5. T \subseteq DOMAIN market
  BY <1>3
<1> HIDE DEF T
<1>6. DOMAIN OlderTowns = T /\ \A t \in T : OlderTowns[t] = market[t]
  BY <1>4
<1>7. IsFiniteSet(T)
  BY <1>1, <1>5, FS_Subset DEF IsMarket
<1>8. IsMarket(OlderTowns)
  BY <1>1, <1>5, <1>6, <1>7 DEF IsMarket
<1> QED
  BY <1>1, <1>5, <1>6, <1>8 DEF market

\* The cities whose gaps are filled.
LEMMA FilledAre ==
  ASSUME Answering
  PROVE  /\ IsMarket(FilledTowns)
         /\ DOMAIN OwnTowns # {} => DOMAIN FilledTowns = DOMAIN OwnTowns
         /\ \A t \in DOMAIN OwnTowns :
              /\ OwnTowns[t].jobs # NoCount => FilledTowns[t].jobs >= OwnTowns[t].jobs
              /\ OwnTowns[t].providers # NoCount => FilledTowns[t].providers >= OwnTowns[t].providers
         /\ \A t \in DOMAIN FilledTowns :
              \/ FilledTowns[t].balance = SearchMetrics(FilledTowns[t]).balance
              \/ FilledTowns[t].providers = 0 /\ \E w \in {advice.own, advice.older} \ {NoCount} :
                   t \in DOMAIN w.towns /\ w.towns[t].filtered < w.towns[t].requests
<1> DEFINE mine == OwnTowns
           towns == FilledTowns
           Hides(w, t) == t \in DOMAIN w.towns /\ w.towns[t].filtered < w.towns[t].requests
           Good(c, t) == \/ c.balance = SearchMetrics(c).balance
                         \/ c.providers = 0
                              /\ \E w \in {advice.own, advice.older} \ {NoCount} : Hides(w, t)
           Grown(c, d) == /\ c.jobs # NoCount => d.jobs >= c.jobs
                          /\ c.providers # NoCount => d.providers >= c.providers
<1>1. /\ advice.own \in MarketWindows /\ NoCount \notin MarketWindows
      /\ FillCities => advice.older \in MarketWindows
  BY LoadedIs, PriceAssumption DEF AsksOlder
<1>2. IsMarket(mine) /\ DOMAIN mine = DOMAIN advice.own.towns
  BY <1>1, CountedMarket DEF OwnTowns
<1>3. ASSUME NEW w \in MarketWindows, w \in {advice.own, advice.older}, NEW t \in DOMAIN w.towns
      PROVE  Good(CountedTowns(w)[t], t)
  <2> DEFINE c == CountedTowns(w)[t]
  <2>1. \/ c.balance = SearchMetrics(c).balance
        \/ c.providers = 0 /\ w.towns[t].filtered < w.towns[t].requests
    BY CountedAre, Zenon
  <2>2. w \in {advice.own, advice.older} \ {NoCount}
    BY <1>1, <1>3
  <2> HIDE DEF c
  <2>3. Good(c, t)
    BY <2>1, <2>2
  <2> QED
    BY <2>3, Zenon DEF c
<1>4. ASSUME NEW t \in DOMAIN mine
      PROVE  /\ IsCounted(mine[t]) /\ Good(mine[t], t) /\ Grown(mine[t], mine[t])
             /\ DOMAIN mine[t] = {"requests", "jobs", "providers", "balance", "place"}
  <2>1. t \in DOMAIN advice.own.towns /\ mine[t] = CountedTowns(advice.own)[t]
    BY <1>2 DEF OwnTowns
  <2> HIDE DEF Good
  <2>2. Good(mine[t], t)
    BY <1>1, <1>3, <2>1
  <2>3. /\ IsCounted(mine[t])
        /\ DOMAIN mine[t] = {"requests", "jobs", "providers", "balance", "place"}
    BY <1>1, <2>1, CountedAre, Zenon
  <2>4. Grown(mine[t], mine[t])
    <3> DEFINE c == mine[t]
    <3>1. c.jobs \in Nat \union {NoCount} /\ c.providers \in Nat \union {NoCount}
      BY <2>3 DEF IsCounted
    <3> HIDE DEF c
    <3>2. Grown(c, c)
      BY <3>1
    <3> QED
      BY <3>2 DEF c
  <2> QED
    BY <2>2, <2>3, <2>4
<1> HIDE DEF Good, Grown, mine
<1>5. CASE ~(FillCities /\ DOMAIN OlderTowns # {})
  <2>1. towns = mine
    BY <1>5 DEF FilledTowns, mine
  <2>2. /\ IsMarket(towns) /\ DOMAIN towns = DOMAIN mine
        /\ \A t \in DOMAIN mine : Grown(mine[t], towns[t])
        /\ \A t \in DOMAIN towns : Good(towns[t], t)
    BY <1>2, <1>4, <2>1
  <2> QED
    BY <2>2, Zenon DEF mine, towns, Good, Grown, Hides
<1>6. CASE FillCities /\ DOMAIN OlderTowns # {}
  <2>1. advice.older \in MarketWindows
    BY <1>1, <1>6
  <2>2. /\ DOMAIN OlderTowns \subseteq DOMAIN advice.older.towns
        /\ \A t \in DOMAIN OlderTowns : OlderTowns[t] = CountedTowns(advice.older)[t]
        /\ IsMarket(OlderTowns)
    BY <2>1, OlderTownsAre
  <2>3. towns = MergedTowns(mine, OlderTowns)
    BY <1>6 DEF FilledTowns, mine
  <2> HIDE DEF towns
  <2>4. CASE DOMAIN mine = {}
    <3>1. towns = OlderTowns
      BY <2>3, <2>4 DEF MergedTowns
    <3>2. \A t \in DOMAIN towns : Good(towns[t], t)
      BY <1>3, <2>1, <2>2, <3>1
    <3> QED
      BY <2>2, <2>4, <3>1, <3>2, Zenon DEF mine, towns, Good, Grown, Hides
  <2>5. CASE DOMAIN mine # {}
    <3>1. towns = [t \in DOMAIN mine |->
                     IF t \in DOMAIN OlderTowns THEN MergedTown(mine[t], OlderTowns[t]) ELSE mine[t]]
      BY <2>3, <2>5 DEF MergedTowns
    <3>2. DOMAIN towns = DOMAIN mine
      BY <3>1
    <3>3. ASSUME NEW t \in DOMAIN mine
          PROVE  IsCounted(towns[t]) /\ Grown(mine[t], towns[t]) /\ Good(towns[t], t)
      <4>1. CASE t \notin DOMAIN OlderTowns
        <5>1. towns[t] = mine[t]
          BY <3>1, <4>1
        <5> QED
          BY <1>4, <5>1
      <4>2. CASE t \in DOMAIN OlderTowns
        <5> DEFINE c == MergedTown(mine[t], OlderTowns[t])
        <5>1. towns[t] = c
          BY <3>1, <4>2
        <5>2. IsCounted(OlderTowns[t])
          BY <2>2, <4>2 DEF IsMarket
        <5>3. /\ IsCounted(c)
              /\ mine[t].jobs # NoCount => c.jobs >= mine[t].jobs
              /\ mine[t].providers # NoCount => c.providers >= mine[t].providers
              /\ c.balance = SearchMetrics(c).balance
          BY <1>4, <5>2, MergedIs, Zenon
        <5> HIDE DEF c
        <5>4. Grown(mine[t], c) /\ Good(c, t)
          BY <5>3 DEF Grown, Good
        <5> QED
          BY <5>1, <5>3, <5>4
      <4> QED
        BY <4>1, <4>2
    <3>4. IsMarket(towns)
      BY <1>2, <3>2, <3>3 DEF IsMarket
    <3> QED
      BY <3>2, <3>3, <3>4, Zenon DEF mine, towns, Good, Grown, Hides
  <2> QED
    BY <2>4, <2>5
<1> QED
  BY <1>5, <1>6

\* The price told, be it of the window itself or of thirty days.
LEMMA FinalPriceIs ==
  ASSUME Answering
  PROVE  LET price == FinalPrice
             radar == Radar(Query(FilledTowns), FinalCities)
             filled == advice.older # NoCount
         IN /\ HasPrice(price) <=>
                 (HasRevenue(advice.own) \/ (advice.range = "24h" /\ filled /\ HasRevenue(advice.older)))
            /\ HasRevenue(advice.own) => price.average = ToFive(advice.own.revenue, advice.own.jobs)
            /\ (radar # <<>> /\ price.town # radar[1]) =>
                 filled /\ ~HasRevenue(advice.own) /\ HasRevenue(advice.older)
            /\ Sound(price)
<1> DEFINE mine == advice.own
           older == advice.older
           towns == FilledTowns
           radar == Radar(Query(towns), FinalCities)
           scoped == ScopedPrice(mine, towns)
           town == IF radar = <<>> THEN BestTown(towns) ELSE radar[1]
           market == CountedTowns(older)
           a == ScopedPrice(older, market)
           b == PriceFor(older, market, BestTown(market))
           first == InitialPrice
           then == FilledPrice
           price == FinalPrice
<1>1. /\ mine \in MarketWindows /\ NoCount \notin Int
      /\ FillPrice => older \in MarketWindows /\ older # NoCount
  BY LoadedIs, CitiesAssumption DEF AsksOlder
<1>2. scoped = PriceFor(mine, towns, town)
  BY Zenon DEF ScopedPrice, PriceOnRadar, FinalCities
<1>3. /\ HasPrice(scoped) <=> HasRevenue(mine)
      /\ scoped.town = town
      /\ HasRevenue(mine) => scoped.average = ToFive(mine.revenue, mine.jobs)
      /\ Sound(scoped)
  <2> HIDE DEF towns, town, scoped
  <2> QED
    BY <1>1, <1>2, PriceIs
<1>4. (HasPrice(first) <=> HasRevenue(mine)) /\ Sound(first)
  BY <1>1, PriceIs DEF InitialPrice
<1>5. FillPrice => /\ HasPrice(a) <=> HasRevenue(older)
                   /\ HasPrice(b) <=> HasRevenue(older)
                   /\ Sound(a) /\ Sound(b)
  <2> HIDE DEF market
  <2> QED
    BY <1>1, PriceIs DEF ScopedPrice, PriceOnRadar
<1>6. OlderPrice = Chosen(a, b)
  BY Zenon DEF OlderPrice
<1> HIDE DEF a, b, market
<1>7. FillPrice => (HasPrice(OlderPrice) <=> HasRevenue(older)) /\ Sound(OlderPrice)
  BY <1>5, <1>6 DEF Chosen
<1>8. FillPrice <=> (advice.range = "24h" /\ ~HasRevenue(mine))
  BY <1>4 DEF FillPrice
<1>9. /\ HasPrice(then) <=> (HasRevenue(mine) \/ (FillPrice /\ HasRevenue(older)))
      /\ Sound(then)
  BY <1>4, <1>7, <1>8 DEF FilledPrice, Filled
<1>10. price = Chosen(scoped, then)
  BY DEF FinalPrice
<1> HIDE DEF scoped, then, first, price
<1>11. HasPrice(price) <=> (HasRevenue(mine) \/ (advice.range = "24h" /\ older # NoCount /\ HasRevenue(older)))
  BY <1>1, <1>3, <1>8, <1>9, <1>10 DEF Chosen
<1>12. HasRevenue(mine) => price.average = ToFive(mine.revenue, mine.jobs)
  BY <1>3, <1>10 DEF Chosen
<1>13. Sound(price)
  BY <1>3, <1>9, <1>10 DEF Chosen
<1>14. radar # <<>> => radar[1] # NoCount
  <2>1. /\ IsMarket(Query(towns).market) /\ Query(towns).focus = advice.focus
    BY FilledAre, QueryIs
  <2>2. FinalCities = ListedTowns(Query(towns))
    BY DEF FinalCities
  <2>3. FinalCities \in Seq(Around(Query(towns))) /\ Around(Query(towns)) \subseteq Int
    BY <2>1, <2>2, ListedAre DEF IsMarket
  <2> DEFINE list == FinalCities
             q == Query(towns)
  <2> HIDE DEF towns, list, q
  <2>4. list \in Seq(Int)
    BY <2>3 DEF list, q
  <2>5. CASE list = <<>>
    BY <2>5 DEF Radar, list, q
  <2>6. CASE list # <<>> /\ q.focus = NoCount
    <3>1. PICK three \in Nat \ {0} : three = 3
      OBVIOUS
    <3>2. Radar(q, list) = FirstOf(list, three)
      BY <2>6, <3>1 DEF Radar
    <3>3. Len(list) \in Nat \ {0}
      BY <2>4, <2>6
    <3>4. /\ AtMost(three, Len(list)) \in Nat
          /\ \A k \in 1..AtMost(three, Len(list)) : FirstOf(list, three)[k] = list[k]
      BY <2>4, FirstOfIs
    <3>5. 1 \in 1..AtMost(three, Len(list)) /\ 1 \in 1..Len(list)
      BY <3>1, <3>3 DEF AtMost
    <3>6. FirstOf(list, three)[1] \in Int
      BY <2>4, <3>4, <3>5
    <3> QED
      BY <1>1, <3>2, <3>6 DEF list, q
  <2>7. CASE list # <<>> /\ q.focus # NoCount
    <3> DEFINE comp == Competitors(list, q.focus)
               one == <<q.focus>>
    <3>1. Radar(q, list) = one \o comp
      BY <2>7 DEF Radar
    <3>2. PICK i0 \in 1..Len(list) : list[i0] = q.focus
      <4>1. \A t \in Around(q) : \E i \in 1..Len(list) : list[i] = t
        BY <2>1, <2>2, ListedAre DEF list, q
      <4>2. PICK t \in Around(q) : TRUE
        <5>1. 1 \in 1..Len(list)
          BY <2>4, <2>7
        <5>2. list[1] \in Around(q)
          BY <2>3, <5>1 DEF list, q
        <5> QED
          BY <5>2
      <4>3. q.focus \in Around(q)
        BY <2>7, <4>2 DEF Around
      <4> QED
        BY <4>1, <4>3
    <3>3. \A i, j \in 1..Len(list) : list[i] = list[j] => i = j
      BY <2>1, <2>2, ListedAre DEF list, q
    <3>4. comp \in Seq(Int)
      BY <2>4, <3>2, <3>3, CompetitorsAre
    <3>5. one \in Seq(Int) /\ Len(one) = 1 /\ one[1] = q.focus
      <4>1. q.focus \in Int
        BY <2>4, <3>2
      <4> QED
        BY <4>1
    <3> HIDE DEF one, comp
    <3>6. (one \o comp)[1] = one[1]
      <4>1. \A k \in 1..Len(one) : (one \o comp)[k] = one[k]
        BY <3>4, <3>5, Concatenated
      <4>2. 1 \in 1..Len(one)
        BY <3>5
      <4> QED
        BY <4>1, <4>2
    <3> QED
      BY <2>7, <3>1, <3>5, <3>6 DEF list, q
  <2> QED
    BY <2>5, <2>6, <2>7
<1>15. (radar # <<>> /\ price.town # radar[1]) =>
         older # NoCount /\ ~HasRevenue(mine) /\ HasRevenue(older)
  <2> SUFFICES ASSUME radar # <<>>, price.town # radar[1]
               PROVE  older # NoCount /\ ~HasRevenue(mine) /\ HasRevenue(older)
    OBVIOUS
  <2>1. scoped.town = radar[1] /\ HasPotential(scoped)
    <3>1. scoped.town = radar[1]
      BY <1>3
    <3> HIDE DEF radar
    <3> QED
      BY <1>14, <3>1 DEF HasPotential
  <2>2. price # scoped
    BY <2>1
  <2>3. price = then /\ HasPrice(then) /\ ~HasPrice(scoped)
    BY <1>10, <2>1, <2>2 DEF Chosen
  <2> QED
    BY <1>1, <1>3, <1>9, <2>3
<1> QED
  BY <1>11, <1>12, <1>13, <1>15, Zenon DEF price, radar, towns, mine, older
\* What is filled in fits what it is put beside.
LEMMA AdviceFitsInv == AdviceTypeOK => AdviceFits
<1> SUFFICES ASSUME AdviceTypeOK, Answerable
             PROVE  Fit(OwnTowns, FilledTowns, FinalCities,
                        Radar(Query(FilledTowns), FinalCities), FinalPrice)
  BY DEF AdviceFits
<1> DEFINE mine == OwnTowns
           towns == FilledTowns
           cities == FinalCities
           radar == Radar(Query(FilledTowns), FinalCities)
           price == FinalPrice
           filled == advice.older # NoCount
<1>1. Answering
  BY DEF Answering
<1>2. /\ HasPrice(price) <=>
           (HasRevenue(advice.own) \/ (advice.range = "24h" /\ filled /\ HasRevenue(advice.older)))
      /\ HasRevenue(advice.own) => price.average = ToFive(advice.own.revenue, advice.own.jobs)
      /\ (radar # <<>> /\ price.town # radar[1]) =>
           filled /\ ~HasRevenue(advice.own) /\ HasRevenue(advice.older)
      /\ Sound(price)
  BY <1>1, FinalPriceIs, Zenon
<1>3. /\ IsMarket(towns)
      /\ DOMAIN mine # {} => DOMAIN towns = DOMAIN mine
      /\ \A t \in DOMAIN mine :
           /\ mine[t].jobs # NoCount => towns[t].jobs >= mine[t].jobs
           /\ mine[t].providers # NoCount => towns[t].providers >= mine[t].providers
      /\ \A t \in DOMAIN towns :
           \/ towns[t].balance = SearchMetrics(towns[t]).balance
           \/ towns[t].providers = 0 /\ \E w \in {advice.own, advice.older} \ {NoCount} :
                t \in DOMAIN w.towns /\ w.towns[t].filtered < w.towns[t].requests
  BY <1>1, FilledAre, Zenon
<1>4. cities = ListedTowns(Query(towns))
  BY DEF FinalCities
<1> HIDE DEF mine, towns, cities, radar, price
<1>5. AdjustPrice(advice.price, price) =>
        ~(price.average >= 70 /\ 10 * advice.price \in (9 * price.average)..(11 * price.average))
  <2> SUFFICES ASSUME AdjustPrice(advice.price, price), price.average >= 70
               PROVE  10 * advice.price \notin (9 * price.average)..(11 * price.average)
    OBVIOUS
  <2> DEFINE asked == advice.price
  <2>1. asked # NoCount /\ HasPrice(price) /\ (asked < price.min \/ asked > price.max)
    BY DEF AdjustPrice, Position, Reliability
  <2>2. asked \in Nat
    BY <1>1, <2>1, LoadedIs, PriceAssumption
  <2> HIDE DEF asked
  <2>3. /\ price.average \in Nat
        /\ asked < price.min => 10 * asked < 9 * price.average
        /\ asked > price.max => 10 * asked > 11 * price.average
    BY <1>2, <2>1, <2>2 DEF Sound
  <2>4. 10 * asked \notin (9 * price.average)..(11 * price.average)
    BY <2>1, <2>2, <2>3
  <2> QED
    BY <2>4 DEF asked
<1>6. (HasRevenue(advice.own) /\ advice.focus \in DOMAIN mine) => ~TooLittle(cities, price)
  <2> SUFFICES ASSUME HasRevenue(advice.own), advice.focus \in DOMAIN mine
               PROVE  ~TooLittle(cities, price)
    OBVIOUS
  <2> DEFINE q == Query(towns)
  <2>1. q.market = towns /\ q.focus = advice.focus
    BY QueryIs
  <2> HIDE DEF q
  <2>2. advice.focus \in Around(q)
    BY <1>3, <2>1 DEF Around
  <2>3. PICK i \in 1..Len(cities) : cities[i] = advice.focus
    BY <1>3, <1>4, <2>1, <2>2, ListedAre DEF q
  <2>4. cities # <<>>
    <3>1. cities \in Seq(Around(q))
      BY <1>3, <1>4, <2>1, ListedAre DEF q
    <3> QED
      BY <2>3, <3>1
  <2> QED
    BY <1>2, <2>4 DEF TooLittle
<1>7. HasPrice(price) => price.min <= price.average /\ price.average <= price.max
  BY <1>2 DEF Sound
<1>8. price.smart # NoCount =>
        /\ price.min <= price.low /\ price.low <= price.high /\ price.high <= price.max
        /\ price.smart \in price.min..price.max
  BY <1>2 DEF Sound
<1>9. Fit(mine, towns, cities, radar, price)
  BY <1>2, <1>3, <1>5, <1>6, <1>7, <1>8, Zenon DEF Fit
<1> QED
  BY <1>9, Zenon DEF mine, towns, cities, radar, price

\* The cities, their radar and the prices, from the types of what is loaded.
LEMMA MarketAgreesInv == CitiesTypeOK /\ AdviceTypeOK => MarketAgrees
BY RadarAgreesInv, AdviceFitsInv DEF MarketAgrees
=============================================================================
